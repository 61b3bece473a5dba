--------------------------- MODULE MCGoScheduler ----------------------------
(* Instances of GoScheduler for TLC.                                       *)
EXTENDS GoScheduler, TLC

Symmetry == Permutations(Runs) \cup Permutations(Targets)
=============================================================================
