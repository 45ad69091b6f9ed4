--------------------------- MODULE MCManagerRaces ---------------------------
EXTENDS ManagerRaces, TLC

Symmetry == Permutations(Clients)
=============================================================================
