------------------------------ MODULE Archive -------------------------------
(***************************************************************************)
(* What the recorder promises of the recordings directory, without its     *)
(* buffered stream, its clocks and its flags: there is one recording at a  *)
(* time; its file holds a beginning of its frames while it lasts and all   *)
(* of them once it is over, or, if it had an accident, stays cut for good; *)
(* and no file but its own ever changes.  Recording.tla is shown to        *)
(* implement this module.                                                  *)
(***************************************************************************)
EXTENDS Naturals, Sequences

CONSTANT Names         \* the names of recordings

VARIABLES
    shelf,             \* what there is under each name
    live,              \* the name that is being recorded, in a set, or no name
    film,              \* the timestamps of its frames
    accidents          \* names of files that a crash or a full disk has hit

vars == <<shelf, live, film, accidents>>

Nothing == [status |-> "none", stamps |-> <<>>]

Init ==
    /\ shelf = [n \in Names |-> Nothing]
    /\ live = {}
    /\ film = <<>>
    /\ accidents = {}

\* Whatever had that name is written over.
Begin(n) ==
    /\ live = {}
    /\ live' = {n}
    /\ film' = <<>>
    /\ shelf' = [shelf EXCEPT ![n] = [status |-> "live", stamps |-> <<>>]]
    /\ accidents' = accidents \ {n}

\* A frame, no earlier than those before it.
Take ==
    /\ live # {}
    /\ Len(film') = Len(film) + 1
    /\ SubSeq(film', 1, Len(film)) = film
    /\ \A i \in 1..Len(film) : film'[i] <= film'[Len(film) + 1]
    /\ UNCHANGED <<shelf, live, accidents>>

\* More of the frames, or as many, get to the disk.
Save(n) ==
    /\ n \in live
    /\ \E k \in Len(shelf[n].stamps)..Len(film) :
           shelf' = [shelf EXCEPT ![n].stamps = SubSeq(film, 1, k)]
    /\ UNCHANGED <<live, film, accidents>>

Over == live' = {} /\ film' = <<>>

Finish(n) ==
    /\ n \in live
    /\ Over
    /\ shelf' = [shelf EXCEPT ![n] = [status |-> "whole", stamps |-> film]]
    /\ UNCHANGED accidents

\* What is on the disk stays as it is.
GiveUp(n) ==
    /\ n \in live
    /\ Over
    /\ accidents' = accidents \union {n}
    /\ shelf' = [shelf EXCEPT ![n].status = "cut"]

Remove(n) ==
    /\ shelf' = [shelf EXCEPT ![n] = Nothing]
    /\ IF n \in live THEN Over ELSE UNCHANGED <<live, film>>
    /\ accidents' = accidents \ {n}

\* What has not been saved may be lost, which shows when the recording is over.
HaveAccident(n) ==
    /\ n \in live
    /\ accidents' = accidents \union {n}
    /\ UNCHANGED <<shelf, live, film>>

Next ==
    \/ \E n \in Names :
           \/ Begin(n) \/ Save(n) \/ Finish(n) \/ GiveUp(n)
           \/ Remove(n) \/ HaveAccident(n)
    \/ Take

Spec == Init /\ [][Next]_vars
=============================================================================
