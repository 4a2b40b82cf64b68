----------------------------- MODULE MCTreePairs -----------------------------
(***************************************************************************)
(* Index space in one dimension, two entries per node, as in MCVoxelTree.  *)
(* Entries of a node do not interact, so that the second one need not go   *)
(* through everything that the first one does.  Few trees have the second  *)
(* key.                                                                    *)
(***************************************************************************)
EXTENDS TreeMerge, TLC

MCCells == {<<0>>, <<0, 0>>, <<0, 1>>, <<0, 0, 0>>, <<0, 0, 1>>, <<0, 1, 0>>, <<0, 1, 1>>,
            <<1>>, <<1, 0>>, <<1, 0, 0>>}
MCLevel == [c \in MCCells |-> 3 - Len(c)]
MCAbove == [c \in MCCells |-> {SubSeq(c, 1, n) : n \in 1 .. Len(c)}]

Sides == {-1, 1}
MCTile == [value : Sides, active : BOOLEAN]
On == [value |-> 1, active |-> TRUE]

\* Branches at a cell: a tile of a set, or a node of such branches.
Leaves(c, tiles) ==
    {(c :> Child) @@ (Append(c, 0) :> t) @@ (Append(c, 1) :> u) : t \in tiles, u \in tiles}
Tiles(c, tiles) == {c :> t : t \in tiles}
Branches(full, some) ==
    {(<<0>> :> Child) @@ b @@ d :
        b \in Tiles(<<0, 0>>, full) \union Leaves(<<0, 0>>, full),
        d \in Tiles(<<0, 1>>, some)}

FirstKey == {Empty} \union Tiles(<<0>>, MCTile)
              \union Branches(MCTile, {On, Off(-1)})
SomeTrees == FirstKey \union {b @@ (<<1>> :> On) : b \in {Empty} \union Branches({On}, {On})}

Pairs(trees, backgrounds, others, otherBackgrounds) ==
    [tree : trees, background : backgrounds, other : others, otherBackground : otherBackgrounds]

\* Level sets of the background 2, or in part rescaled to 1, in one node.
Voxel(b) == {[value |-> -1, active |-> TRUE], Off(-b), Off(b)}
LevelSets(b) ==
    {Empty} \union Tiles(<<0>>, {Off(-b), Off(b)})
      \union {(<<0>> :> Child) @@ v @@ d :
                 v \in Tiles(<<0, 0>>, {Off(-b), Off(b)}) \union Leaves(<<0, 0>>, Voxel(b)),
                 d \in Tiles(<<0, 1>>, {Off(-b), Off(b)})}
MCThirds == {[tree |-> T, background |-> 2] :
                T \in Tiles(<<0>>, {Off(-2)})
                  \union {(<<0>> :> Child) @@ (<<0, 0>> :> Child) @@ (<<0, 0, 0>> :> Off(-2))
                            @@ (<<0, 0, 1>> :> On) @@ (<<0, 1>> :> Off(2))}}

\* Sums without background: a tile first, and a leaf node first.
Summands == {Empty} \union Tiles(<<0>>, {On, Off(0)})
              \union Branches({On, [value |-> -1, active |-> TRUE]}, {Off(0)})

MCStarts == Pairs(SomeTrees, {1}, SomeTrees, Sides)
              \union Pairs(LevelSets(2), {2}, LevelSets(2), {2})
              \union Pairs(LevelSets(2), {2}, LevelSets(1), {1})
              \union Pairs(Summands, {0}, Summands, {0})

MCValues == -2 .. 2
MCOffset == [c \in MCCells |-> c[Len(c)]]
NoTolerances == {}

\* The larger value with its state (the example of combineExtended in Tree.h), and
\* a difference, where the order of the two counts.
Larger == [p \in Tile \X Tile |-> IF p[2].value > p[1].value THEN p[2] ELSE p[1]]
Cleared == [p \in Tile \X Tile |->
              [value |-> IF p[2].active THEN -1 ELSE p[1].value,
               active |-> p[1].active /\ ~ p[2].active]]
MCOps == {Larger, Cleared}
NoFunctions == {}

\* Two backgrounds and their negatives, and trees of one voxel that is stored.
Bands == {-2, -1, 1, 2}
FewTrees == {Empty} \union Branches({[value |-> v, active |-> v < 0] : v \in Bands}, {On})
FewStarts == Pairs(FewTrees, {1}, FewTrees, Bands)
NoThirds == {}
===============================================================================
