----------------------------- MODULE MCVoxelTree -----------------------------
(***************************************************************************)
(* Index space in one dimension: a cell is the sequence of its key and of  *)
(* its offsets in the nodes below.  Every node has two entries.            *)
(***************************************************************************)
EXTENDS VoxelTree, Sequences, FiniteSets

CONSTANTS NumKeys, Depth

MCCells == UNION {{s \in [1 .. n -> 0 .. NumKeys - 1 \union 0 .. 1] :
                     s[1] < NumKeys /\ \A i \in 2 .. n : s[i] < 2} : n \in 1 .. Depth}
MCLevel == [c \in MCCells |-> Depth - Len(c)]
MCAbove == [c \in MCCells |-> {SubSeq(c, 1, n) : n \in 1 .. Len(c)}]
MCRootLevel == Depth - 1

\* The coordinate of a voxel.
Coord(x) == LET at[n \in 1 .. Depth] == IF n = 1 THEN x[1] ELSE 2 * at[n - 1] + x[n]
            IN  at[Depth]
MCVoxels == {c \in MCCells : Len(c) = Depth}
Coords == {Coord(x) : x \in MCVoxels}
MCRegions == {{x \in MCVoxels : Coord(x) \in lo .. hi} : lo \in Coords, hi \in Coords} \ {{}}

Sides == {-1, 1}
Negations == {[v \in Values |-> -v]}
\* The examples of modifyValueAndActiveState in Tree.h: scale and deactivate,
\* and the maximum with the active state left alone.
\* Then two that an internal node guesses to change nothing where they are asked
\* about an active tile: activate, which is right, and toggle the state, which is not.
DocumentedOps == {[t \in Tile |-> [value |-> -t.value, active |-> FALSE]],
                  [t \in Tile |-> [t EXCEPT !.value = IF @ < 0 THEN -@ ELSE @]]}
MCStateOps == DocumentedOps \union {[t \in Tile |-> [t EXCEPT !.active = TRUE]],
                                   [t \in Tile |-> [t EXCEPT !.active = ~ @]]}
===============================================================================
