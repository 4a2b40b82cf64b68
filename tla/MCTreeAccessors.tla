--------------------------- MODULE MCTreeAccessors ----------------------------
(***************************************************************************)
(* A node is the sequence of its key in the root table and of its offsets  *)
(* in the nodes above it; every internal node has two entries.             *)
(***************************************************************************)
EXTENDS TreeAccessors, Sequences, FiniteSets, TLC

CONSTANTS NumKeys, Depth

AllCells == UNION {{s \in [1 .. n -> 0 .. 1] : s[1] < NumKeys} : n \in 1 .. Depth}
\* The cells that clients touch: those of one branch, and their neighbours.
MCCells == {s \in AllCells : \A n \in 2 .. Len(s) - 1 : s[n] = 0}
MCLevel == [c \in MCCells |-> Depth - Len(c)]
MCAbove == [c \in MCCells |-> {SubSeq(c, 1, n) : n \in 1 .. Len(c)}]

\* The accessor of the example in ValueAccessor.h, "Cache tree levels 0 and 2".
OuterLevels == {0, 2}

Symmetry == Permutations(Trees) \union Permutations(Accessors)
===============================================================================
