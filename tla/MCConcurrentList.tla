-------------------------- MODULE MCConcurrentList --------------------------
EXTENDS ConcurrentList, TLC

Symmetry == Permutations(Threads)
=============================================================================
