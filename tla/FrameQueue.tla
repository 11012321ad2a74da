----------------------------- MODULE FrameQueue -----------------------------
(***************************************************************************)
(* The sending side of one WebSocketSession: send_frame posts a handler to *)
(* the session's executor, the handler queues the frame and spawns         *)
(* do_write unless one runs, do_write writes the queue out.  A full queue  *)
(* drops its oldest frame.  The answer AUTH_FAILED does not use the queue: *)
(* handle_message writes it to the stream itself.                          *)
(*                                                                         *)
(* Frames are numbered in the order of their send_frame calls, and the     *)
(* executor runs the posted handlers in that order: the next one to run    *)
(* carries frame posted + 1.                                               *)
(***************************************************************************)
EXTENDS Naturals, Sequences

CONSTANTS
    MaxQueueSize,   \* MAX_QUEUE_SIZE, 10 in the code
    MaxFrames       \* bound: frames sent during a behaviour

ASSUME QueueSizeAssumption == MaxQueueSize \in Nat \ {0}
ASSUME FramesAssumption == MaxFrames \in Nat

VARIABLES
    status,         \* of ws_: "accepting", "open" (is_open) or "closed"
    sent,           \* calls of send_frame so far
    posted,         \* how many of their handlers have run
    queue,          \* write_queue_
    is_writing,     \* is_writing_
    spawned,        \* do_write coroutines that have not run yet
    inflight,       \* the frames do_write coroutines are writing
    direct,         \* handle_message is writing AUTH_FAILED
    delivered,      \* history: the newest frame written, 0 if none
    crashed         \* two writes on one stream aborted the process

vars == <<status, sent, posted, queue, is_writing, spawned, inflight, direct,
          delivered, crashed>>

Frames == 1..MaxFrames

DataTyped ==
    /\ status \in {"accepting", "open", "closed"}
    /\ sent \in 0..MaxFrames
    /\ posted \in 0..sent
    /\ queue \in Seq(Nat)
    /\ spawned \in Nat
    /\ inflight \in SUBSET Nat
    /\ delivered \in Nat

FlagsTyped ==
    /\ is_writing \in BOOLEAN
    /\ direct \in BOOLEAN
    /\ crashed \in BOOLEAN

TypeOK == DataTyped /\ FlagsTyped

Init ==
    /\ status = "accepting"
    /\ sent = 0
    /\ posted = 0
    /\ queue = <<>>
    /\ is_writing = FALSE
    /\ spawned = 0
    /\ inflight = {}
    /\ direct = FALSE
    /\ delivered = 0
    /\ crashed = FALSE

-----------------------------------------------------------------------------
\* async_accept succeeds or fails.
Accept ==
    /\ status = "accepting"
    /\ status' \in {"open", "closed"}
    /\ UNCHANGED <<sent, posted, queue, is_writing, spawned, inflight, direct,
                   delivered, crashed>>

\* A broadcast, a message's answer or a playback frame.  The stream may have
\* closed: broadcasts go on until the session leaves viewers_.
SendFrame ==
    /\ status # "accepting"
    /\ sent < MaxFrames
    /\ sent' = sent + 1
    /\ UNCHANGED <<status, posted, queue, is_writing, spawned, inflight, direct,
                   delivered, crashed>>

\* The newest frame makes room for itself.
DropsNewest(q, f) == IF Len(q) >= MaxQueueSize THEN q ELSE Append(q, f)

Pushed(q, f) == Append(IF Len(q) >= MaxQueueSize THEN Tail(q) ELSE q, f)

\* is_writing_ is not looked at.
SpawnsAlways == TRUE

\* The condition on which a queued frame spawns do_write.
NeedsWriter == ~is_writing

\* The posted handler on a closed stream.
PostIgnored ==
    /\ posted < sent
    /\ status # "open"
    /\ posted' = posted + 1
    /\ UNCHANGED <<status, sent, queue, is_writing, spawned, inflight, direct,
                   delivered, crashed>>

\* The posted handler on an open stream.
PostQueued ==
    /\ posted < sent
    /\ status = "open"
    /\ posted' = posted + 1
    /\ queue' = Pushed(queue, posted + 1)
    /\ IF NeedsWriter
       THEN is_writing' = TRUE /\ spawned' = spawned + 1
       ELSE UNCHANGED <<is_writing, spawned>>
    /\ UNCHANGED <<status, sent, inflight, direct, delivered, crashed>>

(***************************************************************************)
(* Two async_write on one stream are undefined: Beast's assertion aborts   *)
(* the process, or, built without assertions, the second write waits for   *)
(* the first one.                                                          *)
(***************************************************************************)
Overlap(others) ==
    IF others THEN crashed' \in BOOLEAN ELSE UNCHANGED crashed

\* do_write takes the newest frame.
TakesNewest(rest) ==
    /\ queue # <<>>
    /\ status = "open"
    /\ inflight' = rest \union {queue[Len(queue)]}
    /\ queue' = SubSeq(queue, 1, Len(queue) - 1)
    /\ Overlap(direct \/ rest # {})
    /\ UNCHANGED is_writing

\* do_write's loop goes on with the front of the queue.
TakesFront(rest) ==
    /\ queue # <<>>
    /\ status = "open"
    /\ inflight' = rest \union {Head(queue)}
    /\ queue' = Tail(queue)
    /\ Overlap(direct \/ rest # {})
    /\ UNCHANGED is_writing

\* is_writing_ is not reset.
EndsStillWriting(rest) ==
    /\ queue = <<>> \/ status # "open"
    /\ inflight' = rest
    /\ UNCHANGED <<queue, is_writing, crashed>>

\* do_write ends with whatever the queue holds.
EndsEarly(rest) ==
    /\ inflight' = rest
    /\ is_writing' = FALSE
    /\ UNCHANGED <<queue, crashed>>

\* do_write's loop ends.
Ends(rest) ==
    /\ queue = <<>> \/ status # "open"
    /\ inflight' = rest
    /\ is_writing' = FALSE
    /\ UNCHANGED <<queue, crashed>>

WriterStarts ==
    /\ spawned > 0
    /\ spawned' = spawned - 1
    /\ TakesFront(inflight) \/ Ends(inflight)
    /\ UNCHANGED <<status, sent, posted, direct, delivered>>

\* do_write asks once whether the queue is empty, and does not loop.
WritesOnce ==
    \E f \in inflight :
        /\ delivered' = f
        /\ EndsEarly(inflight \ {f})
        /\ UNCHANGED <<status, sent, posted, spawned, direct>>

WriteCompletes ==
    \E f \in inflight :
        /\ delivered' = f
        /\ TakesFront(inflight \ {f}) \/ Ends(inflight \ {f})
        /\ UNCHANGED <<status, sent, posted, spawned, direct>>

\* The write fails, which leaves the stream unusable, and do_write ends in a
\* catch; its close() finds the stream no longer open.
WriteFails ==
    \E f \in inflight :
        /\ inflight' = inflight \ {f}
        /\ status' = "closed"
        /\ is_writing' = FALSE
        /\ UNCHANGED <<sent, posted, queue, spawned, direct, delivered, crashed>>

\* handle_message answers a wrong key.
WriteAuthFailed ==
    /\ status = "open"
    /\ ~direct
    /\ direct' = TRUE
    /\ Overlap(inflight # {})
    /\ UNCHANGED <<status, sent, posted, queue, is_writing, spawned, inflight,
                   delivered>>

\* That write completes, or fails and leaves the stream unusable.
AuthFailedWritten ==
    /\ direct
    /\ direct' = FALSE
    /\ status' \in {status, "closed"}
    /\ UNCHANGED <<sent, posted, queue, is_writing, spawned, inflight,
                   delivered, crashed>>

\* The peer closes, a read fails or times out, or close() is called.
Close ==
    /\ status = "open"
    /\ status' = "closed"
    /\ UNCHANGED <<sent, posted, queue, is_writing, spawned, inflight, direct,
                   delivered, crashed>>

\* The connection is over, or the process is.
AllDone ==
    /\ crashed \/ status = "closed"
    /\ UNCHANGED vars

Writer == WriterStarts \/ WriteCompletes \/ WriteFails

Handlers == PostIgnored \/ PostQueued

Next ==
    \/ ~crashed /\ (Accept \/ SendFrame \/ Handlers \/ Writer
                    \/ WriteAuthFailed \/ AuthFailedWritten \/ Close)
    \/ AllDone

Spec == Init /\ [][Next]_vars

(***************************************************************************)
(* The executor runs what is posted and spawned.  A write ends: the stream *)
(* has Beast's suggested timeouts, so a peer that does not read makes it   *)
(* fail.                                                                   *)
(***************************************************************************)
Fairness ==
    /\ WF_vars(~crashed /\ Handlers)
    /\ WF_vars(~crashed /\ Writer)
    /\ WF_vars(~crashed /\ AuthFailedWritten)

FairSpec == Spec /\ Fairness

-----------------------------------------------------------------------------
\* A client that reads slower than frames come holds MAX_QUEUE_SIZE of them at
\* most, whatever is posted while a write is pending.
QueueBounded == Len(queue) <= MaxQueueSize

\* is_writing_ says exactly whether a do_write coroutine is alive, and there is
\* never a second one, though the flag is raised by a handler, and lowered by
\* the coroutine it has spawned, with writes in between.
OneWriter ==
    IF is_writing
    THEN \/ spawned = 1 /\ inflight = {}
         \/ spawned = 0 /\ \E f \in inflight : inflight = {f}
    ELSE spawned = 0 /\ inflight = {}

\* No lost wakeup: a frame in the queue of an open stream has a do_write that
\* will look at the queue again.
NoLostWakeup == queue # <<>> /\ status = "open" => is_writing

\* A full queue drops its oldest frame: what waits is an unbroken run of frames
\* up to the newest one, and it is newer than what is being or has been written.
\* When nothing waits the newest frame is what is being or has been written.
BacklogIsNewest ==
    status = "open" =>
        /\ \A i \in 1..Len(queue) : queue[i] + Len(queue) = posted + i
        /\ \A f \in inflight \union {delivered} :
            \A i \in 1..Len(queue) : f < queue[i]
        /\ queue = <<>> => posted \in inflight \union {delivered}

\* A client whose do_write has ended has been written the newest frame.
CaughtUpWhenIdle == status = "open" /\ ~is_writing => delivered = posted

\* With these the others are inductive: nothing is sent before the stream is
\* open, what is being written is newer than what has been, and a frame that was
\* dropped (the ones before it too) is MAX_QUEUE_SIZE behind the newest.
QuietBeforeOpen ==
    status = "accepting" => queue = <<>> /\ sent = 0 /\ delivered = 0

InflightIsNext ==
    /\ delivered <= posted
    /\ \A f \in inflight : delivered < f /\ f <= posted

Follows(f, done, newest) == f - 1 \in done \/ f - 1 + MaxQueueSize <= newest

GapsMeanFull ==
    /\ \A f \in inflight : Follows(f, {delivered}, posted)
    /\ status = "open" /\ queue # <<>>
           => Follows(Head(queue), inflight \union {delivered}, posted)

IInv ==
    /\ TypeOK
    /\ QueueBounded
    /\ OneWriter
    /\ NoLostWakeup
    /\ BacklogIsNewest
    /\ QuietBeforeOpen
    /\ InflightIsNext
    /\ GapsMeanFull

\* The client gets frames at most once and in order, and misses none unless
\* MAX_QUEUE_SIZE newer ones were sent before it could be written.
Channel == INSTANCE LossyChannel WITH Capacity <- MaxQueueSize
IsChannel == Channel!Spec

\* A client is never left behind: after each frame sent, it or a newer one is
\* written, unless the connection or the process ends.
FramesKeepFlowing ==
    \A f \in Frames :
        sent >= f ~> delivered >= f \/ status = "closed" \/ crashed
=============================================================================
