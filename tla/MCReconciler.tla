---------------------------- MODULE MCReconciler ----------------------------
EXTENDS ReconcilerContract, TLC

NameSymmetry == Permutations(Name)
=============================================================================
