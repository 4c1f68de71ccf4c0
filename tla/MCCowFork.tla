------------------------------ MODULE MCCowFork ------------------------------
EXTENDS CowFork, TLC

PageSymmetry == Permutations(Pages)
=============================================================================
