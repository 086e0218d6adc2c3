------------------------------ MODULE MCPhase5 ------------------------------
EXTENDS HandleUsers, TLC

CONSTANTS w1, w2, i1, i2

MCWorkers == {w1, w2}
MCInodes == {i1, i2}
Symm == Permutations(MCWorkers) \cup Permutations(MCInodes)

=============================================================================
