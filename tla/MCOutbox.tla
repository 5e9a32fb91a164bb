------------------------------ MODULE MCOutbox ------------------------------
EXTENDS Outbox
Symmetry == Permutations(Messages) \cup Permutations(Instances)
=============================================================================
