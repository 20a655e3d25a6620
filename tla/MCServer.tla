------------------------------ MODULE MCServer -------------------------------
EXTENDS ReuseServerProperties, TLC
Symmetry == Permutations(Conns)
=============================================================================
