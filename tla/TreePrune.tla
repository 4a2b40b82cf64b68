------------------------------ MODULE TreePrune ------------------------------
(***************************************************************************)
(* Pruning with a tolerance, as the nodes do it: every node prunes its     *)
(* children first, then replaces those that are constant to within the     *)
(* tolerance by a tile of their first value.                               *)
(***************************************************************************)
EXTENDS VoxelTree

CONSTANTS Offset,       \* Offset[c]: the offset of the entry for c in its node
          Tolerances    \* the tolerances that prune is called with

ASSUME OffsetsAssumption ==
    /\ Offset \in [Cells -> Nat]
    /\ \A n \in Cells : \A c, d \in Slots[n] : c # d => Offset[c] # Offset[d]
    /\ Tolerances \subseteq Nat

\* The entries of the lowest and of the highest offset.
First == [n \in {c \in Cells : Level[c] > 0} |->
            CHOOSE c \in Slots[n] : \A d \in Slots[n] : Offset[c] <= Offset[d]]
Last  == [n \in {c \in Cells : Level[c] > 0} |->
            CHOOSE c \in Slots[n] : \A d \in Slots[n] : Offset[c] >= Offset[d]]

Near(v, w, tolerance) == v - w \in -tolerance .. tolerance

\* isConstant(): no entry is a child, all have one active state, and their values
\* are those of the first to within the tolerance.
IsConstant(T, c, tolerance) ==
    \A s \in Slots[c] : /\ IsTile(T, s) /\ IsTile(T, First[c])
                        /\ T[s].active = T[First[c]].active
                        /\ Near(T[s].value, T[First[c]].value, tolerance)

PruneLevel(T, l, tolerance) ==
    LET constant == {c \in Nodes(T) : Level[c] = l /\ IsConstant(T, c, tolerance)} IN
    [c \in DOMAIN T \ UNION {Slots[d] : d \in constant} |->
        IF c \in constant THEN T[First[c]] ELSE T[c]]

\* Mutant of PruneWithin: a node is looked at before its children are pruned.
PruneTopDown(T, tolerance) ==
    LET down[l \in 1 .. RootLevel + 1] ==
            IF l = RootLevel + 1 THEN T ELSE PruneLevel(down[l + 1], l, tolerance)
    IN  EraseBackgroundTiles(down[1])

\* prune(tolerance), the levels from the leaf nodes up to the root table.
PruneWithin(T, tolerance) ==
    LET up[l \in 0 .. RootLevel] ==
            IF l = 0 THEN T ELSE PruneLevel(up[l - 1], l, tolerance)
    IN  EraseBackgroundTiles(up[RootLevel])

\* With no tolerance the recursion leaves what Prune says: no node is missed
\* whose voxels are all the same, and none is merged whose voxels differ
\* (RootNode, InternalNode::prune).
RecursionMeetsReference == PruneWithin(tree, 0) = Prune(tree)

\* One call is enough: pruning again with the same tolerance changes nothing.
OneCallSuffices ==
    \A tolerance \in Tolerances :
        LET once == PruneWithin(tree, tolerance)
        IN  \A c \in Nodes(once) : ~ IsConstant(once, c, tolerance)

\* Pruning keeps active states, and moves a value by at most the tolerance for
\* every level of nodes.
ErrorBounded ==
    \A tolerance \in Tolerances, x \in Voxels :
        LET pruned == Stored(PruneWithin(tree, tolerance), x) IN
        /\ pruned.active = Map[x].active
        /\ Near(pruned.value, Map[x].value, RootLevel * tolerance)
===============================================================================
