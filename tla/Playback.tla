------------------------------ MODULE Playback ------------------------------
(***************************************************************************)
(* The one PlaybackController of the server, with the playback operations  *)
(* of StreamController that drive it: every client steers the same player, *)
(* and the frames go to the client that started it last.                   *)
(*                                                                         *)
(* Each operation is one piece of a coroutine after its hop through the    *)
(* strand, and reads nothing before it.  What interleaves with them is the *)
(* frame timer: cancel() and expires_after() drop a wait that has not      *)
(* expired, but not a handler that is queued to run already.               *)
(*                                                                         *)
(* A recording is the timestamps of its frames and what comes after them:  *)
(*   "footer"     a line with less than two colons: the footer that        *)
(*                stop_recording writes, or a frame header cut early       *)
(*   "eof"        nothing: cut between two frames                          *)
(*   "cutframe"   the last frame's text, or its length, is cut             *)
(*   "cutheader"  a frame header cut just before its length                *)
(*   "noframes"   cut before the frames' section                           *)
(*   "notrecord"  cut in its first line, or empty                          *)
(*   "absent"     there is no such file                                    *)
(* The cut ones are those a crash leaves, and those still being recorded:  *)
(* a reader that has met the end of such a file reads no further.          *)
(***************************************************************************)
EXTENDS Naturals, Sequences

CONSTANTS
    Clients,      \* sessions that use playback
    Nobody,       \* the null playback_session_
    Recordings,   \* what clients ask for
    SpeedRequests,\* the speeds they ask for, in tenths
    MaxStarts,    \* bound: playback_start messages during a behaviour
    MaxReady      \* bound: timer handlers queued to run

Intact == {"footer", "eof"}
Cut == {"cutframe", "cutheader", "noframes"}
Kinds == Intact \union Cut \union {"notrecord", "absent"}

ASSUME NobodyAssumption == Nobody \notin Clients
ASSUME SpeedAssumption == SpeedRequests \subseteq Nat
ASSUME BoundAssumption == MaxStarts \in Nat /\ MaxReady \in Nat \ {0}
ASSUME RecordingsAssumption ==
    \A f \in Recordings :
        /\ f \in [kind : Kinds, stamps : Seq(Nat)]
        /\ \A i, j \in 1..Len(f.stamps) : i < j => f.stamps[i] <= f.stamps[j]
        /\ f.kind = "cutframe" => f.stamps # <<>>
        /\ f.kind = "noframes" => f.stamps = <<>>

VARIABLES
    reader,            \* playback_file_, current_frame_, next_frame_time_
    is_playing,        \* is_playing_
    is_paused,         \* is_paused_
    speed,             \* playback_speed_, in tenths
    delay,             \* what playback_timer_ was last set to
    waiting,           \* an async_wait of playback_timer_ is pending
    ready,             \* handlers of expired waits that are queued to run
    playback_session,  \* playback_session_
    starts,            \* playback_start messages so far
    fatal              \* an exception left a timer handler: the server ended

vars == <<reader, is_playing, is_paused, speed, delay, waiting, ready,
          playback_session, starts, fatal>>

NoFile == [kind |-> "absent", stamps |-> <<>>]

(***************************************************************************)
(* state of playback_file_: "failed" has failbit set; "drained" has read a *)
(* cut header, with nothing behind it.                                     *)
(***************************************************************************)
Readers ==
    [file  : Recordings \union {NoFile},
     state : {"closed", "good", "failed", "drained"},
     shown : Nat,
     time  : Nat]

DataTyped ==
    /\ reader \in Readers
    /\ speed \in 1..100
    /\ delay \in Nat
    /\ ready \in 0..MaxReady
    /\ playback_session \in Clients \union {Nobody}
    /\ starts \in 0..MaxStarts

FlagsTyped ==
    /\ is_playing \in BOOLEAN
    /\ is_paused \in BOOLEAN
    /\ waiting \in BOOLEAN
    /\ fatal \in BOOLEAN

TypeOK == DataTyped /\ FlagsTyped

Init ==
    /\ reader = [file |-> NoFile, state |-> "closed", shown |-> 0, time |-> 0]
    /\ is_playing = FALSE
    /\ is_paused = FALSE
    /\ speed = 10
    /\ delay = 0
    /\ waiting = FALSE
    /\ ready = 0
    /\ playback_session = Nobody
    /\ starts = 0
    /\ fatal = FALSE

-----------------------------------------------------------------------------
\* stop_playback forgets the file.
LeftOpen(r) == r

Closed(r) == [r EXCEPT !.state = "closed"]

(***************************************************************************)
(* read_next_frame with the reader r of a running playback.  Each outcome  *)
(* says what becomes of the reader and the timer, where w says whether a   *)
(* wait was pending when read_next_frame was called.                       *)
(***************************************************************************)
ReadNothing(r, w) ==
    /\ r.state = "failed"
    /\ reader' = r
    /\ waiting' = w
    /\ UNCHANGED delay

\* A frame whose text is cut is shown all the same, but leaves the stream failed.
AfterFrame(r) ==
    LET last == r.shown + 1 = Len(r.file.stamps)
    IN  [r EXCEPT !.shown = @ + 1,
                  !.time  = r.file.stamps[r.shown + 1],
                  !.state = IF last /\ r.file.kind = "cutframe"
                            THEN "failed" ELSE "good"]

Elapsed(r) == IF r.shown = 0 THEN 0 ELSE r.file.stamps[r.shown + 1] - r.time

ShowFrame(r) ==
    /\ r.state = "good"
    /\ r.shown < Len(r.file.stamps)
    /\ reader' = AfterFrame(r)
    /\ waiting' = TRUE
    /\ delay' = (Elapsed(r) * 10) \div speed

\* stoul has nothing to convert.
Throws(r) ==
    r.state = "good" /\ r.shown = Len(r.file.stamps) /\ r.file.kind = "cutheader"

ReadCutHeader(r, w) ==
    /\ Throws(r)
    /\ reader' = [r EXCEPT !.state = "drained"]
    /\ waiting' = w
    /\ UNCHANGED delay

\* The end of the file is looked for once a frame has been read, not before.
AtLastFrame(r) ==
    \/ r.state = "drained"
    \/ r.state = "good" /\ r.shown + 1 >= Len(r.file.stamps) /\ ~Throws(r)

AtEnd(r) ==
    \/ r.state = "drained"
    \/ r.state = "good" /\ r.shown = Len(r.file.stamps) /\ ~Throws(r)

\* The end of the file is met and playback goes on.
EndIgnored(r) ==
    /\ AtEnd(r)
    /\ reader' = r
    /\ is_playing' = TRUE
    /\ is_paused' = FALSE
    /\ waiting' = FALSE
    /\ UNCHANGED delay

\* At the end of the file the timer is set again: there may be more to come.
EndRetried(r) ==
    /\ AtEnd(r)
    /\ reader' = r
    /\ is_playing' = TRUE
    /\ is_paused' = FALSE
    /\ waiting' = TRUE
    /\ UNCHANGED delay

\* The end of the file or a line that is no frame header: stop_playback.
ReadEnd(r) ==
    /\ AtEnd(r)
    /\ reader' = Closed(r)
    /\ is_playing' = FALSE
    /\ is_paused' = FALSE
    /\ waiting' = FALSE
    /\ UNCHANGED delay

\* p is is_paused_ as it was called; is_playing_ was raised.
ReadNextFrame(r, w, p) ==
    \/ /\ ReadNothing(r, w) \/ ShowFrame(r) \/ ReadCutHeader(r, w)
       /\ is_playing' = TRUE
       /\ is_paused' = p
    \/ ReadEnd(r)

-----------------------------------------------------------------------------
Opened(f) ==
    [file |-> f, state |-> IF f.kind = "noframes" THEN "failed" ELSE "good",
     shown |-> 0, time |-> 0]

\* playback_start: the playback before it is stopped, the file loads and its
\* first frame is shown.  An exception of read_next_frame ends in
\* handle_message's catch.
StartPlayback(c, f) ==
    /\ starts < MaxStarts
    /\ f.kind \notin {"absent", "notrecord"}
    /\ starts' = starts + 1
    /\ playback_session' = c
    /\ ReadNextFrame(Opened(f), FALSE, FALSE)
    /\ UNCHANGED <<speed, ready, fatal>>

\* playback_start of a file that does not open, or is no recording.
StartUnloaded(f) ==
    /\ starts < MaxStarts
    /\ f.kind \in {"absent", "notrecord"}
    /\ starts' = starts + 1
    /\ playback_session' = Nobody
    /\ reader' = Closed(reader)
    /\ is_playing' = FALSE
    /\ is_paused' = FALSE
    /\ waiting' = FALSE
    /\ UNCHANGED <<speed, delay, ready, fatal>>

\* The timer is left running.
PauseUncancelled ==
    /\ is_playing /\ ~is_paused
    /\ is_paused' = TRUE
    /\ UNCHANGED <<reader, is_playing, speed, delay, waiting, ready,
                   playback_session, starts, fatal>>

PausePlayback ==
    /\ is_playing /\ ~is_paused
    /\ is_paused' = TRUE
    /\ waiting' = FALSE
    /\ UNCHANGED <<reader, is_playing, speed, delay, ready, playback_session,
                   starts, fatal>>

\* Only the flag is lowered.
ResumeUnread ==
    /\ is_playing /\ is_paused
    /\ is_paused' = FALSE
    /\ UNCHANGED <<reader, is_playing, speed, delay, waiting, ready,
                   playback_session, starts, fatal>>

\* An exception of read_next_frame ends in handle_message's catch.
ResumePlayback ==
    /\ is_playing /\ is_paused
    /\ ReadNextFrame(reader, waiting, FALSE)
    /\ UNCHANGED <<speed, ready, playback_session, starts, fatal>>

StopPlayback ==
    /\ is_playing
    /\ is_playing' = FALSE
    /\ is_paused' = FALSE
    /\ waiting' = FALSE
    /\ reader' = Closed(reader)
    /\ playback_session' = Nobody
    /\ UNCHANGED <<speed, delay, ready, starts, fatal>>

StopNothing ==
    /\ ~is_playing
    /\ playback_session' = Nobody
    /\ UNCHANGED <<reader, is_playing, is_paused, speed, delay, waiting, ready,
                   starts, fatal>>

Unclamped(s) == s

Clamped(s) == IF s < 1 THEN 1 ELSE IF s > 100 THEN 100 ELSE s

SetSpeed(s) ==
    /\ speed' = Clamped(s)
    /\ UNCHANGED <<reader, is_playing, is_paused, delay, waiting, ready,
                   playback_session, starts, fatal>>

TimerExpires ==
    /\ waiting
    /\ ready < MaxReady
    /\ waiting' = FALSE
    /\ ready' = ready + 1
    /\ UNCHANGED <<reader, is_playing, is_paused, speed, delay,
                   playback_session, starts, fatal>>

\* The pause is not looked at.
RunningOrPaused == is_playing

\* What a timer handler asks, and read_next_frame once more.
Running == is_playing /\ ~is_paused

\* It may be the handler of a wait that was replaced or cancelled too late.
TimerReads ==
    /\ ready > 0
    /\ ready' = ready - 1
    /\ Running
    /\ ReadNextFrame(reader, waiting, is_paused)
    /\ fatal' = Throws(reader)
    /\ UNCHANGED <<speed, playback_session, starts>>

TimerIgnored ==
    /\ ready > 0
    /\ ready' = ready - 1
    /\ ~Running
    /\ UNCHANGED <<reader, is_playing, is_paused, speed, delay, waiting,
                   playback_session, starts, fatal>>

\* run() has thrown, and main has returned.
ServerEnded == fatal /\ UNCHANGED vars

ClientCalls ==
    \/ \E c \in Clients, f \in Recordings : StartPlayback(c, f)
    \/ \E f \in Recordings : StartUnloaded(f)
    \/ PausePlayback
    \/ ResumePlayback
    \/ StopPlayback
    \/ StopNothing
    \/ \E s \in SpeedRequests : SetSpeed(s)

TimerHandler == TimerReads \/ TimerIgnored

Next ==
    \/ ~fatal /\ (ClientCalls \/ TimerExpires \/ TimerHandler)
    \/ ServerEnded

Spec == Init /\ [][Next]_vars

\* A pending wait expires, and the io_context runs its handler.
FairSpec ==
    Spec /\ WF_vars(~fatal /\ TimerExpires) /\ WF_vars(~fatal /\ TimerHandler)

-----------------------------------------------------------------------------
\* Frames should go out.
Playing == is_playing /\ ~is_paused

\* The file is open exactly while playback runs or is paused: none is leaked,
\* and the next load_recording never finds one that is open still.
OpenWhilePlaying == is_playing <=> reader.state # "closed"

\* A frame timer only waits for a playback that runs: pause, stop, the end of
\* the file and a failed load all leave none behind.
TimerOnlyWhileRunning == waiting => Playing

\* Somebody gets the frames of a playback, whoever's start or stop came last.
PlayingHasSession == is_playing => playback_session # Nobody

\* A running playback has a timer or a handler that will read on, unless the
\* recording was cut: then it may stay "playing" without ever showing a frame.
OnlyCutFilesGetStuck ==
    Playing /\ ~waiting /\ ready = 0 => reader.file.kind \in Cut

\* With these two the others are inductive: how far a reader can have come, and
\* that only what plays is paused.
Fits(r) ==
    /\ r.shown <= Len(r.file.stamps)
    /\ r.state \in {"failed", "drained"} => r.shown = Len(r.file.stamps)
    /\ r.state = "failed" => r.file.kind \in {"cutframe", "noframes"}
    /\ r.state = "drained" => r.file.kind = "cutheader"
    /\ r.shown > 0 => r.time = r.file.stamps[r.shown]

ReaderSound == Fits(reader)

PauseSound == is_paused => is_playing

IInv ==
    /\ TypeOK
    /\ OpenWhilePlaying
    /\ TimerOnlyWhileRunning
    /\ PlayingHasSession
    /\ OnlyCutFilesGetStuck
    /\ ReaderSound
    /\ PauseSound

\* Frames come one by one, in the recording's order, and none is shown by a
\* playback that is stopped or paused, not even by a handler queued before.
QuietWhilePaused ==
    [][reader'.shown > reader.shown =>
           Playing' /\ reader'.shown = reader.shown + 1]_vars

(***************************************************************************)
(* The mapping to what the player promises.  playback_session_ outlives a  *)
(* playback that has come to its end, but gets nothing more.               *)
(***************************************************************************)
PlayerMode ==
    IF fatal THEN "broken"
    ELSE IF ~is_playing THEN "stopped"
    ELSE IF is_paused THEN "paused" ELSE "playing"

Audience == IF is_playing THEN playback_session ELSE Nobody

Promise == INSTANCE Player
    WITH mode     <- PlayerMode,
         frames   <- Len(reader.file.stamps),
         intact   <- reader.file.kind \in Intact,
         shown    <- reader.shown,
         audience <- Audience

\* Through every call, timer and handler that comes too late, the player shows
\* each frame once, in order, to who started it last, ends by itself only after
\* the last one, and takes the server with it only if the recording was cut.
ImplementsPlayer == Promise!Spec

\* Frames to come, counted double, and the wait for the next one.
Ahead == 2 * (Len(reader.file.stamps) - reader.shown) + (IF waiting THEN 1 ELSE 0)

\* Whatever happens in a playback of a recording that is not cut brings its end
\* nearer: every expiry and every handler, early or late, is one of at most
\* twice its frames, unless somebody pauses, stops or starts.
PlaybackAdvances ==
    [][Playing /\ Playing' /\ reader.file.kind \in Intact /\ starts' = starts
           /\ <<reader, waiting, ready>>' # <<reader, waiting, ready>>
       => Ahead' < Ahead]_vars

\* A playback of a recording that is not cut plays to its end and closes the
\* file, unless it is paused or clients start another.
IntactPlaybackEnds ==
    Playing /\ reader.file.kind \in Intact ~>
        ~Playing \/ reader.file.kind \notin Intact

-----------------------------------------------------------------------------
\* read_next_frame's comment "End of file", with the stop_playback under it:
\* every playback that runs comes to its end.
PlaybackEnds == Playing ~> ~Playing \/ fatal
=============================================================================
