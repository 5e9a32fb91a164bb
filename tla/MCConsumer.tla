----------------------------- MODULE MCConsumer -----------------------------
EXTENDS Consumer, TLC
Symmetry == Permutations(Members)
=============================================================================
