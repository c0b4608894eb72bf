--------------------------- MODULE MCTransaction ----------------------------
EXTENDS Transaction, TLC

Symmetry == Permutations(Threads) \cup Permutations(Records)
=============================================================================
