------------------------------ MODULE MCTreeTools ------------------------------
(***************************************************************************)
(* Keys in one scanline.  The node of a key has two entries, one behind    *)
(* the other; leaf nodes have two rows of two voxels.                      *)
(***************************************************************************)
EXTENDS TreeTools, Sequences, TLC

CONSTANT NumKeys

MCCells == UNION {{<<k>>, <<k, i>>, <<k, i, j>>} :
                    k \in 0 .. NumKeys - 1, i \in 0 .. 1, j \in 0 .. 3}
MCLevel == [c \in MCCells |-> 3 - Len(c)]
MCAbove == [c \in MCCells |-> {SubSeq(c, 1, n) : n \in 1 .. Len(c)}]
MCOffset == [c \in MCCells |-> c[Len(c)]]

\* Scanlines of a leaf node: the first column, and along each row.
MCBefore ==
    [c \in MCCells |->
        LET offset == c[Len(c)] IN
        IF offset = 0 THEN c
        ELSE [c EXCEPT ![Len(c)] = IF Len(c) = 3 /\ offset = 2 THEN 0 ELSE offset - 1]]

MCVoxels == {c \in MCCells : Len(c) = 3}
Row(x) == x[3] \div 2
Column(x) == 4 * x[1] + 2 * x[2] + (x[3] % 2)
MCNeighbours ==
    [x \in MCVoxels |-> {y \in MCVoxels :
        \/ Row(x) = Row(y) /\ Column(x) - Column(y) \in {-1, 1}
        \/ Row(x) # Row(y) /\ Column(x) = Column(y)}]
MCEdge == {x \in MCVoxels : Column(x) \in {0, 4 * NumKeys - 1}}

MCValues == -2 .. 2
MCWidths == {[outside |-> 1, inside |-> -1], [outside |-> -2, inside |-> -1]}

On(v) == [value |-> v, active |-> TRUE]
Unknown == Off(1)
Band == {On(-1), On(1), Unknown}

\* Branches at a cell: a tile, or a leaf node.
Leaves(c, Voxel) ==
    {[d \in {c} \union {Append(c, j) : j \in 0 .. 3} |->
        IF d = c THEN Child ELSE voxels[d[3]]] : voxels \in Voxel}
Tiles(c, tiles) == {c :> t : t \in tiles}
Pairs(k, first, second) == {(<<k>> :> Child) @@ b @@ d : b \in first, d \in second}

\* Every leaf node of voxels inside, outside and unknown, next to a tile.
OneKey == Pairs(0, Leaves(<<0, 0>>, [0 .. 3 -> Band]), Tiles(<<0, 1>>, {Off(-1), On(1)}))
            \union Pairs(0, Tiles(<<0, 0>>, {Off(-1)}), Leaves(<<0, 1>>, [0 .. 3 -> Band]))

\* Leaf nodes with two equal rows, in the first key and in the third.
Columns(first, second) == {[j \in 0 .. 3 |-> IF j % 2 = 0 THEN u ELSE v] :
                              u \in first, v \in second}
ThreeKeys ==
    {b @@ m @@ d :
        b \in Pairs(0, Tiles(<<0, 0>>, {Off(-1)}), Leaves(<<0, 1>>, Columns({On(1)}, Band))),
        m \in {Empty} \union Tiles(<<1>>, {Off(1), Off(-1)}),
        d \in Pairs(2, Leaves(<<2, 0>>, Columns(Band, {On(1), Off(-1)})),
                       Tiles(<<2, 1>>, {Off(-1)}))}

\* Active values that differ by one or two, for pruning with a tolerance.
Steps == {On(v) : v \in -1 .. 2}
Slopes == Pairs(0, Leaves(<<0, 0>>, Columns({On(0)}, {On(0), On(1)})),
                   Tiles(<<0, 1>>, Steps) \union Leaves(<<0, 1>>, Columns(Steps, {On(1)})))

MCTrees == OneKey \union ThreeKeys \union Slopes

NoFunctions == {}
===============================================================================
