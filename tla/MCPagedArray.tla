----------------------------- MODULE MCPagedArray -----------------------------
EXTENDS PagedArray, TLC

CONSTANTS p1, p2, b1, b2, b3

\* Two buffers of one array, and one of an array to merge with it.
MCParent == [b \in {b1, b2, b3} |-> IF b = b3 THEN p2 ELSE p1]

Symmetry == Permutations(Values) \union Permutations({b1, b2})
===============================================================================
