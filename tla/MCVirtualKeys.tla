---------------------------- MODULE MCVirtualKeys -----------------------------
EXTENDS VirtualKeys, TLC

Symmetry == Permutations(Requests)
=============================================================================
