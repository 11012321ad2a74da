------------------------- MODULE MCStreamController -------------------------
(***************************************************************************)
(* Small instances of StreamController for TLC.                            *)
(***************************************************************************)
EXTENDS StreamController, TLC

\* Sessions are interchangeable; Nobody is not one of them.
SessionSymmetry == Permutations(Sessions)
=============================================================================
