------------------------------- MODULE MCReuse -------------------------------
EXTENDS ReuseProperties, TLC
Symmetry == Permutations(Conns) \cup Permutations(Sessions)
=============================================================================
