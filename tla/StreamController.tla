-------------------------- MODULE StreamController --------------------------
(***************************************************************************)
(* StreamController (src/src/stream_controller.cpp) with the WebSocket     *)
(* sessions that call it and the camera it drives.                         *)
(*                                                                         *)
(* main() runs the io_context on one thread, so a handler or a coroutine   *)
(* runs without interruption from one suspension point (co_await, post,    *)
(* co_spawn) to the next: one action is one such piece.  A coroutine that  *)
(* awaits dispatch(strand_) hops through the strand and resumes on its own *)
(* executor, so the strand does not order the pieces that follow the hops: *)
(* what is pending on it is kept as counters and flags.  Only a session's  *)
(* own jobs keep their order.                                              *)
(*                                                                         *)
(* A session is one connection.  Its do_run coroutine handles one message  *)
(* at a time, so a call into the controller suspends the whole session.    *)
(* Of recording and playback only the session that playback_session_ keeps *)
(* alive matters here.                                                     *)
(***************************************************************************)
EXTENDS Naturals

CONSTANTS
    Sessions,          \* connections made during a behaviour
    Nobody,            \* the null playback_session_
    Commands,          \* bound: the calls that clients make
    MaxRegistrations   \* bound: entries of one session in viewers_ and on the way there

ASSUME NobodyAssumption == Nobody \notin Sessions
ASSUME CommandsAssumption ==
    Commands \subseteq {"start", "stop", "playback_start", "playback_stop"}
ASSUME BoundAssumption == MaxRegistrations \in Nat \ {0}

VARIABLES
    pc,                \* where each session's coroutine stands, see PCs
    call,              \* the controller's operation each session is hopping to
    role,              \* is_authenticated_ and is_controller_ of each session
    reply,             \* the last message sent to each session
    joining,           \* add_viewer jobs of each session queued on strand_
    viewers,           \* viewers_: how often each session occurs in it
    is_streaming,      \* is_streaming_
    stop_requested,    \* stop_requested_
    camera,            \* whether video_source_ holds an opened device
    loops,             \* how many capture_loop coroutines are at each point
    aborted,           \* history: the last capture loop ended in its catch
    playback_session   \* playback_session_

vars == <<pc, call, role, reply, joining, viewers, is_streaming, stop_requested,
          camera, loops, aborted, playback_session>>

session == <<pc, call, role, reply>>
stream == <<is_streaming, stop_requested, camera, loops, aborted>>

(***************************************************************************)
(* pc: "idle" before the connection; "reading" in async_read; "calling"    *)
(* while a message's handler hops to the strand; "stopping" in the 10 ms   *)
(* poll of stop_streaming; "gone" once do_run ended but something still    *)
(* holds the session; then its destructor's coroutine: "dtor" while it     *)
(* hops, "dtorStopping" in the poll; "done".                               *)
(***************************************************************************)
PCs == {"idle", "reading", "calling", "stopping", "gone", "dtor",
        "dtorStopping", "done"}

Calls == {"none", "start", "stop", "remove", "playback_start", "playback_stop"}

Roles == {"none", "viewer", "controller"}

\* "other": nothing yet, a frame, or an answer that no property is about.
Replies == {"other", "STREAM_INACTIVE", "CONFIG_APPLIED", "STREAM_STOPPED"}

\* A capture_loop was spawned, waits for its timer, or its timer has expired.
LoopPoints == {"entering", "waiting", "ticking"}

DataTyped ==
    /\ pc \in [Sessions -> PCs]
    /\ call \in [Sessions -> Calls]
    /\ role \in [Sessions -> Roles]
    /\ reply \in [Sessions -> Replies]
    /\ joining \in [Sessions -> Nat]
    /\ viewers \in [Sessions -> Nat]
    /\ camera \in {"open", "closed"}
    /\ loops \in [LoopPoints -> Nat]
    /\ playback_session \in Sessions \union {Nobody}

FlagsTyped ==
    /\ is_streaming \in BOOLEAN
    /\ stop_requested \in BOOLEAN
    /\ aborted \in BOOLEAN

TypeOK == DataTyped /\ FlagsTyped

Init ==
    /\ pc = [s \in Sessions |-> "idle"]
    /\ call = [s \in Sessions |-> "none"]
    /\ role = [s \in Sessions |-> "none"]
    /\ reply = [s \in Sessions |-> "other"]
    /\ joining = [s \in Sessions |-> 0]
    /\ viewers = [s \in Sessions |-> 0]
    /\ is_streaming = FALSE
    /\ stop_requested = FALSE
    /\ camera = "closed"
    /\ loops = [p \in LoopPoints |-> 0]
    /\ aborted = FALSE
    /\ playback_session = Nobody

-----------------------------------------------------------------------------
(* Sessions: what a client's message makes handle_message do. *)

\* The upgrade succeeded and do_run reads its first message, or it failed.
Connect(s) ==
    /\ pc[s] = "idle"
    /\ \E to \in {"reading", "gone"} : pc' = [pc EXCEPT ![s] = to]
    /\ UNCHANGED <<call, role, reply, joining, viewers, stream, playback_session>>

\* "auth" with the server's key: a session keeps the controller's rights once
\* it has them, and each "auth" posts one more registration.
Authenticate(s, as) ==
    /\ pc[s] = "reading"
    /\ joining[s] + viewers[s] < MaxRegistrations
    /\ role' = [role EXCEPT ![s] = IF @ = "controller" THEN @ ELSE as]
    /\ joining' = [joining EXCEPT ![s] = @ + 1]
    /\ reply' = [reply EXCEPT ![s] =
                    IF as = "viewer" /\ ~is_streaming THEN "STREAM_INACTIVE"
                                                      ELSE "other"]
    /\ UNCHANGED <<pc, call, viewers, stream, playback_session>>

\* A wrong key, a command the session's role does not allow, a message that
\* does not parse: the session is answered and nothing else happens.
Refuse(s) ==
    /\ pc[s] = "reading"
    /\ reply' = [reply EXCEPT ![s] = "other"]
    /\ UNCHANGED <<pc, call, role, joining, viewers, stream, playback_session>>

\* What handle_message lets a session call.  Playback asks for no role.
AllowedCalls(s) ==
    {op \in Commands : op \in {"start", "stop"} => role[s] = "controller"}

\* capture_loop is spawned on the strand, which runs its jobs in order: a loop
\* that was spawned before a message came, or a connection was lost, is entered
\* before the hop that follows from it.
LoopEntered == loops["entering"] = 0

\* "config", "stop", "playback_start" or "playback_stop": the call hops to the
\* strand.
Call(s, op) ==
    /\ pc[s] = "reading"
    /\ LoopEntered
    /\ op \in AllowedCalls(s)
    /\ pc' = [pc EXCEPT ![s] = "calling"]
    /\ call' = [call EXCEPT ![s] = op]
    /\ UNCHANGED <<role, reply, joining, viewers, stream, playback_session>>

\* async_read failed: the client closed, or the connection was lost,
\* and nobody is left to have read the last answer.
HangUp(s) ==
    /\ pc[s] = "reading"
    /\ LoopEntered
    /\ pc' = [pc EXCEPT ![s] = "gone"]
    /\ reply' = [reply EXCEPT ![s] = "other"]
    /\ UNCHANGED <<call, role, joining, viewers, stream, playback_session>>

\* The destructor treats a controller like a viewer.
DestructorRemovesAll(s) == IF role[s] = "none" THEN {} ELSE {"remove"}

\* What ~WebSocketSession spawns.
DestructorCalls(s) ==
    CASE role[s] = "controller" -> {"stop"}
      [] role[s] = "viewer" -> {"remove"}
      [] OTHER -> {}

\* The last reference to the session is dropped.  Its registrations on the
\* strand and playback_session_ hold one.
Destroy(s) ==
    /\ pc[s] = "gone"
    /\ joining[s] = 0
    /\ playback_session # s
    /\ \/ /\ DestructorCalls(s) = {}
          /\ pc' = [pc EXCEPT ![s] = "done"]
          /\ UNCHANGED call
       \/ \E op \in DestructorCalls(s) :
            /\ pc' = [pc EXCEPT ![s] = "dtor"]
            /\ call' = [call EXCEPT ![s] = op]
    /\ UNCHANGED <<role, reply, joining, viewers, stream, playback_session>>

\* weak_ptr::lock fails: nothing holds the session any more.
Expired(s) == pc[s] \in {"dtor", "dtorStopping", "done"}

-----------------------------------------------------------------------------
(* The pieces that run once the strand let a session's hop through. *)

Hopped(s, op) ==
    /\ pc[s] \in {"calling", "dtor"}
    /\ call[s] = op
    /\ joining[s] = 0

\* The call returns: a message's handler answers and reads on, a destructor's
\* coroutine ends.
Return(s, answer) ==
    /\ call' = [call EXCEPT ![s] = "none"]
    /\ IF pc[s] \in {"calling", "stopping"}
       THEN /\ pc' = [pc EXCEPT ![s] = "reading"]
            /\ reply' = [reply EXCEPT ![s] = answer]
       ELSE /\ pc' = [pc EXCEPT ![s] = "done"]
            /\ UNCHANGED reply
    /\ UNCHANGED role

AddViewer(s) ==
    /\ joining[s] > 0
    /\ joining' = [joining EXCEPT ![s] = @ - 1]
    /\ viewers' = [viewers EXCEPT ![s] = @ + 1]
    /\ UNCHANGED <<session, stream, playback_session>>

\* The comparison of session ids the wrong way round.
RemovesOthers(s, v) == Expired(v) \/ v # s

\* The predicate is false for a pointer that does not lock.
RemovesOnlyLocked(s, v) == ~Expired(v) /\ v = s

\* The predicate of remove_viewer_by_id's remove_if.
Removes(s, v) == Expired(v) \/ v = s

RemoveViewer(s) ==
    /\ Hopped(s, "remove")
    /\ viewers' = [v \in Sessions |-> IF Removes(s, v) THEN 0 ELSE viewers[v]]
    /\ Return(s, "other")
    /\ UNCHANGED <<joining, stream, playback_session>>

\* No check: a start during a broadcast starts a second capture_loop.
MayAlwaysStart == TRUE

\* The check at the top of start_streaming, made after its hop.
MayStart == ~is_streaming

\* start_streaming while a broadcast is on: it returns, and the client is told
\* CONFIG_APPLIED all the same.
StartAgain(s) ==
    /\ Hopped(s, "start")
    /\ ~MayStart
    /\ Return(s, "CONFIG_APPLIED")
    /\ UNCHANGED <<joining, viewers, stream, playback_session>>

StartStreaming(s) ==
    /\ Hopped(s, "start")
    /\ MayStart
    /\ is_streaming' = TRUE
    /\ stop_requested' = FALSE
    /\ camera' = "open"
    /\ aborted' = FALSE
    /\ loops' = [loops EXCEPT !["entering"] = @ + 1]
    /\ Return(s, "CONFIG_APPLIED")
    /\ UNCHANGED <<joining, viewers, playback_session>>

\* is_streaming_ is raised before the device opens and the catch leaves it so.
StartFailsLeavesFlag(s) ==
    /\ Hopped(s, "start")
    /\ MayStart
    /\ camera' \in {camera, "closed"}
    /\ is_streaming' = TRUE
    /\ Return(s, "other")
    /\ UNCHANGED <<joining, viewers, stop_requested, loops, aborted,
                   playback_session>>

\* start_streaming's catch without its throw.
StartFailsSilently(s) ==
    /\ Hopped(s, "start")
    /\ MayStart
    /\ camera' \in {camera, "closed"}
    /\ is_streaming' = FALSE
    /\ Return(s, "CONFIG_APPLIED")
    /\ UNCHANGED <<joining, viewers, stop_requested, loops, aborted,
                   playback_session>>

\* The resolution does not parse (the camera is not touched) or the device does
\* not open (VideoSource::open has closed the one it held): the exception
\* leaves start_streaming and the client is told ERROR.
StartFails(s) ==
    /\ Hopped(s, "start")
    /\ MayStart
    /\ camera' \in {camera, "closed"}
    /\ is_streaming' = FALSE
    /\ Return(s, "other")
    /\ UNCHANGED <<joining, viewers, stop_requested, loops, aborted,
                   playback_session>>

\* stop_streaming with nothing to stop.
StopNothing(s) ==
    /\ Hopped(s, "stop")
    /\ ~is_streaming
    /\ Return(s, "STREAM_STOPPED")
    /\ UNCHANGED <<joining, viewers, stream, playback_session>>

\* The flag is raised, and the call returns without waiting for the loop.
RequestStopAndReturn(s) ==
    /\ Hopped(s, "stop")
    /\ is_streaming
    /\ stop_requested' = TRUE
    /\ Return(s, "STREAM_STOPPED")
    /\ UNCHANGED <<joining, viewers, is_streaming, camera, loops, aborted,
                   playback_session>>

\* stop_streaming raises the flag and starts to poll.  capture_cancel_ has no
\* slot and frame_timer_ no waiter, so the loop's own timer is not cut short.
RequestStop(s) ==
    /\ Hopped(s, "stop")
    /\ is_streaming
    /\ stop_requested' = TRUE
    /\ pc' = [pc EXCEPT ![s] = IF @ = "calling" THEN "stopping" ELSE "dtorStopping"]
    /\ call' = [call EXCEPT ![s] = "none"]
    /\ UNCHANGED <<role, reply, joining, viewers, is_streaming, camera, loops,
                   aborted, playback_session>>

\* cleanup without video_source_->close().
CleanupLeavesCamera ==
    /\ viewers' = [s \in Sessions |-> 0]
    /\ is_streaming' = FALSE
    /\ aborted' = FALSE
    /\ UNCHANGED camera

Cleanup ==
    /\ camera' = "closed"
    /\ viewers' = [s \in Sessions |-> 0]
    /\ is_streaming' = FALSE
    /\ aborted' = FALSE

\* The poll gives up after its first tick.
WaitsOnce == TRUE

\* The condition that ends stop_streaming's poll.
StopIsOver == ~is_streaming

\* A 10 ms tick of the poll, which resumes on the session's own executor and
\* not through the strand, finds the stream off and runs cleanup.
FinishStop(s) ==
    /\ pc[s] \in {"stopping", "dtorStopping"}
    /\ StopIsOver
    /\ Cleanup
    /\ Return(s, "STREAM_STOPPED")
    /\ UNCHANGED <<joining, stop_requested, loops, playback_session>>

\* start_playback: what played before is dropped; the file loads and the
\* session is kept, or it does not.  The client is told PLAYBACK_STARTED in
\* both cases.
StartPlayback(s) ==
    /\ Hopped(s, "playback_start")
    /\ playback_session' \in {s, Nobody}
    /\ Return(s, "other")
    /\ UNCHANGED <<joining, viewers, stream>>

StopPlayback(s) ==
    /\ Hopped(s, "playback_stop")
    /\ playback_session' = Nobody
    /\ Return(s, "other")
    /\ UNCHANGED <<joining, viewers, stream>>

-----------------------------------------------------------------------------
(* capture_loop *)

\* The loop does not look at stop_requested_.
CaptureUntilOff == is_streaming

\* The loop's condition.
KeepsCapturing == ~stop_requested /\ is_streaming

\* The top of the loop: wait for the frame interval, or leave the loop.
LoopTop(from) ==
    \/ /\ KeepsCapturing
       /\ loops' = [loops EXCEPT ![from] = @ - 1, !["waiting"] = @ + 1]
       /\ UNCHANGED is_streaming
    \/ /\ ~KeepsCapturing
       /\ loops' = [loops EXCEPT ![from] = @ - 1]
       /\ is_streaming' = FALSE

EnterLoop ==
    /\ loops["entering"] > 0
    /\ LoopTop("entering")
    /\ UNCHANGED <<session, joining, viewers, stop_requested, camera, aborted,
                   playback_session>>

FrameTimer ==
    /\ loops["waiting"] > 0
    /\ loops' = [loops EXCEPT !["waiting"] = @ - 1, !["ticking"] = @ + 1]
    /\ UNCHANGED <<session, joining, viewers, is_streaming, stop_requested,
                   camera, aborted, playback_session>>

\* viewers_ after broadcast_frame has dropped the pointers that do not lock.
Pruned == [s \in Sessions |-> IF Expired(s) THEN 0 ELSE viewers[s]]

\* broadcast_frame (already on the strand, it does not suspend): whoever is
\* still there is sent the frame.
Broadcast ==
    /\ viewers' = Pruned
    /\ reply' = [s \in Sessions |-> IF Pruned[s] > 0 THEN "other" ELSE reply[s]]

\* A frame was captured and broadcast, or it was empty and nobody gets it.
CaptureFrame ==
    /\ loops["ticking"] > 0
    /\ LoopTop("ticking")
    /\ Broadcast \/ UNCHANGED <<viewers, reply>>
    /\ UNCHANGED <<pc, call, role, joining, stop_requested, camera, aborted,
                   playback_session>>

\* capture_frame or convert throws: the loop ends in its catch.
CaptureFails ==
    /\ loops["ticking"] > 0
    /\ loops' = [loops EXCEPT !["ticking"] = @ - 1]
    /\ is_streaming' = FALSE
    /\ aborted' = TRUE
    /\ UNCHANGED <<session, joining, viewers, stop_requested, camera,
                   playback_session>>

-----------------------------------------------------------------------------
\* All connections have come and gone, or are kept by playback_session_;
\* nothing is left to run.
AllDone ==
    /\ \A s \in Sessions : pc[s] = "done" \/ (pc[s] = "gone" /\ playback_session = s)
    /\ \A s \in Sessions : joining[s] = 0
    /\ \A p \in LoopPoints : loops[p] = 0
    /\ UNCHANGED vars

Client(s) ==
    \/ Connect(s)
    \/ \E as \in {"viewer", "controller"} : Authenticate(s, as)
    \/ Refuse(s)
    \/ \E op \in Commands : Call(s, op)
    \/ HangUp(s)

\* What runs for a session once the strand has let its call through.
Serve(s) ==
    \/ RemoveViewer(s)
    \/ StartAgain(s) \/ StartStreaming(s) \/ StartFails(s)
    \/ StopNothing(s) \/ RequestStop(s)
    \/ StartPlayback(s) \/ StopPlayback(s)

CaptureLoop == EnterLoop \/ FrameTimer \/ CaptureFrame \/ CaptureFails

Next ==
    \/ \E s \in Sessions :
        Client(s) \/ AddViewer(s) \/ Serve(s) \/ FinishStop(s) \/ Destroy(s)
    \/ CaptureLoop
    \/ AllDone

Spec == Init /\ [][Next]_vars

(***************************************************************************)
(* The io_context runs every ready handler and its timers expire.  A poll  *)
(* looks at is_streaming_ only every 10 ms, so it is sure to notice a      *)
(* stream that stays off, not one that is off for a moment: weak fairness. *)
(* Clients owe nothing.                                                    *)
(***************************************************************************)
Fairness ==
    /\ WF_vars(CaptureLoop)
    /\ \A s \in Sessions :
        /\ WF_vars(AddViewer(s))
        /\ WF_vars(Serve(s))
        /\ WF_vars(FinishStop(s))
        /\ WF_vars(Destroy(s))

FairSpec == Spec /\ Fairness

-----------------------------------------------------------------------------
(* What makes the controller correct. *)

\* A capture_loop coroutine is alive exactly while is_streaming_ holds, and
\* there is never a second one on the same camera: start_streaming's check and
\* the loop's last assignment are far apart, and stops and restarts interleave.
OneCaptureLoop ==
    loops["entering"] + loops["waiting"] + loops["ticking"]
        = IF is_streaming THEN 1 ELSE 0

\* While is_streaming_ holds the device is open: cleanup of a stop whose poll
\* was overtaken by a new start_streaming never closes the new broadcast's camera.
StreamingHasCamera == is_streaming => camera = "open"

\* A broadcast never outlives all its controllers: while one runs, some
\* session that authenticated as controller has not been through its
\* destructor's stop_streaming.
NoOrphanStream ==
    is_streaming => \E s \in Sessions : role[s] = "controller" /\ pc[s] # "done"

\* A stopped broadcast gives the camera back: an open device with no broadcast
\* means that a stop_streaming is about to clean up, or that capture_loop ended
\* in its catch, which leaves the device open until the next start.
IdleCameraReleased ==
    camera = "open" /\ ~is_streaming =>
        aborted \/ \E s \in Sessions : pc[s] \in {"stopping", "dtorStopping"}

(***************************************************************************)
(* The strengthening that makes these invariants inductive: a session      *)
(* makes only the calls its role and its place in the code allow, and a    *)
(* stop that was requested has somebody polling for it.                    *)
(***************************************************************************)
CallsMatch ==
    \A s \in Sessions :
        /\ call[s] \in {"start", "playback_start", "playback_stop"} => pc[s] = "calling"
        /\ call[s] = "start" => role[s] = "controller"
        /\ call[s] = "remove" => pc[s] = "dtor" /\ role[s] = "viewer"

EndingHasStopper ==
    is_streaming /\ stop_requested =>
        \E s \in Sessions : pc[s] \in {"stopping", "dtorStopping"}

IInv ==
    /\ TypeOK
    /\ CallsMatch
    /\ OneCaptureLoop
    /\ StreamingHasCamera
    /\ EndingHasStopper
    /\ NoOrphanStream
    /\ IdleCameraReleased

\* STREAM_STOPPED is sent only when no broadcast runs at that instant, though
\* the poll that precedes it sleeps while others may start and stop.
StopConfirmedMeansStopped ==
    [][\A s \in Sessions :
        pc[s] \in {"calling", "stopping"} /\ pc'[s] = "reading"
            /\ reply'[s] = "STREAM_STOPPED" => ~is_streaming']_vars

\* viewers_ loses a session whose object is alive only when cleanup drops
\* everybody between broadcasts: the removal by id and the pruning of expired
\* pointers never hit a bystander.
LiveViewerKept ==
    [][\A s \in Sessions :
        viewers'[s] < viewers[s] /\ ~Expired(s) =>
            ~is_streaming /\ \A v \in Sessions : viewers'[v] = 0]_vars

\* A session that is destroyed has no registration on its way and is not the one
\* that playback_session_ keeps.
ExpiredIsFree ==
    \A s \in Sessions : Expired(s) => joining[s] = 0 /\ playback_session # s

\* Only controllers stop a broadcast, and a session keeps that role to its end.
OnlyControllersStop ==
    \A s \in Sessions :
        call[s] = "stop" \/ pc[s] \in {"stopping", "dtorStopping"}
            => role[s] = "controller"

\* Once a viewer's destructor is through, viewers_ has no entry of it: no job
\* that was posted before it puts one back.  (A controller's destructor removes
\* nothing; its entries go with the next cleanup or frame.)
NoDeadViewers ==
    \A s \in Sessions : pc[s] = "done" /\ role[s] = "viewer" => viewers[s] = 0

\* What a session that is told CONFIG_APPLIED can rely on: a broadcast runs, and
\* if it has been asked to end, it was another session that asked.
ConfigAppliedOrStopping ==
    [][\A s \in Sessions :
        call[s] = "start" /\ pc'[s] = "reading" /\ reply'[s] = "CONFIG_APPLIED"
            => /\ is_streaming'
               /\ stop_requested' => \E t \in Sessions \ {s} :
                                        pc'[t] \in {"stopping", "dtorStopping"}]_vars

\* When a controller's connection is lost its session's destructor ends the
\* broadcast, unless playback_session_ keeps the session from being destroyed.
ControllerLossStopsStream ==
    \A s \in Sessions :
        (pc[s] = "gone" /\ role[s] = "controller" /\ playback_session # s)
            ~> ~is_streaming

(***************************************************************************)
(* The controller as its callers see it.                                   *)
(***************************************************************************)
Phase == IF ~is_streaming THEN "idle"
         ELSE IF stop_requested THEN "ending" ELSE "live"

Audience == {s \in Sessions : viewers[s] > 0}

Service == INSTANCE StreamService WITH phase <- Phase, audience <- Audience

\* Step by step, the coroutines, flags and polls do what the abstract broadcast
\* service does: no capture_loop, stop or cleanup is ever seen out of turn.
ImplementsService == Service!Spec

\* The steps that capture_loop has still to make in a broadcast that is ending.
StepsLeft == loops["entering"] + 2 * loops["waiting"] + loops["ticking"]

\* Every step of capture_loop in a broadcast that was asked to end brings the end
\* nearer: the loop never goes round again, and no new one takes over.
EndingAdvances ==
    [][Phase = "ending" /\ loops' # loops =>
           Phase' = "idle" \/ StepsLeft' < StepsLeft]_vars

\* A stop reaches the capture loop: stop_requested_ is never reset under a
\* running broadcast, so one that was asked to end does end.
StopTakesEffect == Service!EndsWhenAsked

-----------------------------------------------------------------------------
(* What the web client takes for granted and the code does not give. *)

\* web/app.js:165-167 shows "Stream started successfully" on CONFIG_APPLIED:
\* whoever gets it has a broadcast that nobody has asked to end.
ConfigAppliedMeansStreaming ==
    [][\A s \in Sessions :
        call[s] = "start" /\ pc'[s] = "reading" /\ reply'[s] = "CONFIG_APPLIED"
            => is_streaming' /\ ~stop_requested']_vars

\* web/app.js:210 waits for the confirmation of its "stop": a session in
\* stop_streaming gets its answer.
StopIsAnswered ==
    \A s \in Sessions : pc[s] = "stopping" ~> pc[s] = "reading"

\* web/stream.html:107 shows "Stream is inactive. Waiting..." on STREAM_INACTIVE:
\* a viewer that has been sent nothing since is registered for the broadcasts to
\* come.
WaitingViewerStaysListed ==
    \A s \in Sessions :
        pc[s] = "reading" /\ reply[s] = "STREAM_INACTIVE" /\ joining[s] = 0
            => viewers[s] > 0
=============================================================================
