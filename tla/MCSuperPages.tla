----------------------------- MODULE MCSuperPages -----------------------------
EXTENDS SuperPages, TLC

ProcSymmetry == Permutations(Procs)
=============================================================================
