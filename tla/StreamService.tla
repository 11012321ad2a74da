--------------------------- MODULE StreamService ---------------------------
(***************************************************************************)
(* What StreamController promises its callers, without its coroutines,     *)
(* timers and strand: there is one broadcast at a time, it owns the camera *)
(* from its first to its last instant, a request to end it is never        *)
(* revoked, and the camera and the audience are given up only between      *)
(* broadcasts.  StreamController.tla is shown to implement this module.    *)
(***************************************************************************)
CONSTANT Sessions      \* the WebSocket sessions that may join the audience

VARIABLES
    phase,             \* "idle", "live", or "ending" once a stop was requested
    camera,            \* "open" or "closed"
    audience           \* the sessions registered to receive frames

vars == <<phase, camera, audience>>

Init ==
    /\ phase = "idle"
    /\ camera = "closed"
    /\ audience = {}

\* A broadcast begins, with the camera open.
Begin ==
    /\ phase = "idle"
    /\ phase' = "live"
    /\ camera' = "open"
    /\ UNCHANGED audience

\* The camera could not be opened: one left open earlier is closed by the try.
FailToBegin ==
    /\ phase = "idle"
    /\ camera' = "closed"
    /\ UNCHANGED <<phase, audience>>

RequestEnd ==
    /\ phase = "live"
    /\ phase' = "ending"
    /\ UNCHANGED <<camera, audience>>

\* The broadcast ends, on request or because capturing failed.  Its last frame
\* may have found that some of the audience is gone.
End ==
    /\ phase \in {"live", "ending"}
    /\ phase' = "idle"
    /\ audience' \in SUBSET audience
    /\ UNCHANGED camera

\* What a broadcast held is given up, only when there is none.
Release ==
    /\ phase = "idle"
    /\ camera' = "closed"
    /\ audience' = {}
    /\ UNCHANGED phase

Join(s) ==
    /\ audience' = audience \union {s}
    /\ UNCHANGED <<phase, camera>>

Leave ==
    /\ audience' \in SUBSET audience
    /\ UNCHANGED <<phase, camera>>

Next ==
    \/ Begin \/ FailToBegin \/ RequestEnd \/ End \/ Release \/ Leave
    \/ \E s \in Sessions : Join(s)

Spec == Init /\ [][Next]_vars

\* A broadcast that was asked to end does end.
EndsWhenAsked == phase = "ending" ~> phase = "idle"
=============================================================================
