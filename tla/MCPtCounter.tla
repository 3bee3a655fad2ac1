---------------------------- MODULE MCPtCounter ----------------------------
EXTENDS PtCounter, TLC

ThreadSymmetry == Permutations(Threads)
=============================================================================
