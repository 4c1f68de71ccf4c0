---------------------------- MODULE MCKallocRefc ----------------------------
EXTENDS KallocRefc, TLC

ProcSymmetry == Permutations(Procs)
=============================================================================
