------------------------------ MODULE MCPolicy ------------------------------
EXTENDS Policy, TLC

Symmetry == Permutations(Callers)
=============================================================================
