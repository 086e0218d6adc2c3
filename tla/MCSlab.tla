------------------------------- MODULE MCSlab -------------------------------
(* Instantiates Slab with scaled-down constants for TLC.                   *)
EXTENDS Slab, TLC

CONSTANTS w1, w2, c1, c2

MCWorkers == {w1, w2}
MCCursors == {c1, c2}
Symm == Permutations(MCWorkers) \cup Permutations(MCCursors)
=============================================================================
