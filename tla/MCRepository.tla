---------------------------- MODULE MCRepository ----------------------------
EXTENDS Repository, TLC
Symmetry == Permutations(Clients) \cup Permutations(Entities)
=============================================================================
