-------------------------- MODULE MCSessionTable --------------------------
EXTENDS SessionTable, TLC

CONSTANTS f1, f2, w1, w2

Symmetry == Permutations({f1, f2}) \cup Permutations({w1, w2})
=============================================================================
