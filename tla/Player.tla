------------------------------- MODULE Player --------------------------------
(***************************************************************************)
(* What the server promises the clients that steer its one player, without *)
(* files, timers and their handlers: a recording is shown frame by frame,  *)
(* none skipped and none twice, to the client that started it last; what   *)
(* is paused shows nothing and goes on where it was; and unless it is      *)
(* stopped or replaced, nothing ends before its last frame has been shown. *)
(* Only what follows the frames of a recording that was cut can end the    *)
(* server with it.                                                         *)
(* Playback.tla is shown to implement this module.                         *)
(***************************************************************************)
EXTENDS Naturals

CONSTANTS
    Clients,     \* who may start, pause, resume and stop
    Nobody       \* the audience of a player that is stopped

VARIABLES
    mode,        \* "stopped", "playing", "paused", or "broken" for good
    frames,      \* how many frames the recording started last has
    intact,      \* it was not cut
    shown,       \* how many of them have been shown
    audience     \* the client they are shown to

vars == <<mode, frames, intact, shown, audience>>

Init ==
    /\ mode = "stopped"
    /\ frames = 0
    /\ intact = FALSE
    /\ shown = 0
    /\ audience = Nobody

\* Whatever was playing gives way, and the first frame is shown at once.
Start(c) ==
    /\ mode # "broken"
    /\ frames' \in Nat
    /\ intact' \in BOOLEAN
    /\ shown' = IF frames' = 0 THEN 0 ELSE 1
    /\ \/ mode' = "playing" /\ audience' = c
       \/ frames' = 0 /\ mode' = "stopped" /\ audience' = Nobody

NextFrame ==
    /\ shown < frames
    /\ shown' = shown + 1
    /\ mode' = "playing"
    /\ UNCHANGED <<frames, intact, audience>>

Show == mode = "playing" /\ NextFrame

Ends ==
    /\ mode' = "stopped"
    /\ audience' = Nobody
    /\ UNCHANGED <<frames, intact, shown>>

Finish == mode = "playing" /\ shown = frames /\ Ends

Pause ==
    /\ mode = "playing"
    /\ mode' = "paused"
    /\ UNCHANGED <<frames, intact, shown, audience>>

\* The next frame is shown at once; if there is none, that may be noticed now
\* or later.
Resume ==
    /\ mode = "paused"
    /\ \/ NextFrame
       \/ shown = frames /\ Ends
       \/ /\ shown = frames
          /\ mode' = "playing"
          /\ UNCHANGED <<frames, intact, shown, audience>>

Stop == mode \in {"playing", "paused"} /\ Ends

\* What a cut left behind the last frame cannot be read, and the server ends.
Break ==
    /\ mode = "playing" /\ shown = frames /\ ~intact
    /\ mode' = "broken"
    /\ UNCHANGED <<frames, intact, shown, audience>>

Next ==
    \/ \E c \in Clients : Start(c)
    \/ Show \/ Finish \/ Pause \/ Resume \/ Stop \/ Break

Spec == Init /\ [][Next]_vars
=============================================================================
