---------------------------- MODULE LossyChannel ----------------------------
(***************************************************************************)
(* What WebSocketSession::send_frame promises: frames, numbered as they    *)
(* are sent, reach the client at most once and in order.  Any may be lost  *)
(* with the connection; while it lasts a frame is skipped only if Capacity *)
(* newer ones have been sent.                                              *)
(***************************************************************************)
EXTENDS Naturals

CONSTANT Capacity

VARIABLES
    sent,        \* frames given to send_frame
    delivered    \* the newest frame written to the client, 0 if none

vars == <<sent, delivered>>

Init == sent = 0 /\ delivered = 0

Send == sent' = sent + 1 /\ UNCHANGED delivered

Deliver ==
    /\ delivered' \in (delivered + 1)..sent
    /\ delivered' = delivered + 1 \/ delivered' - 1 + Capacity <= sent
    /\ UNCHANGED sent

Next == Send \/ Deliver

Spec == Init /\ [][Next]_vars
=============================================================================
