----------------------------- MODULE MCTenants ------------------------------
EXTENDS Tenants, TLC
Symmetry == Permutations(Tenants) \cup Permutations(Instances)
=============================================================================
