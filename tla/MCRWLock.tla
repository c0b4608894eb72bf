------------------------------ MODULE MCRWLock ------------------------------
EXTENDS RWLock, TLC

Symmetry == Permutations(Threads) \cup Permutations(Records)
=============================================================================
