--------------------------- MODULE MCTreeIterators ---------------------------
(***************************************************************************)
(* Index space in one dimension: two keys, of nodes with two entries above *)
(* nodes with three above leaf nodes with two.  The second key has one     *)
(* entry each on the way down.                                             *)
(***************************************************************************)
EXTENDS TreeIterators, TLC

MCCells == {<<0>>, <<1>>} \union {<<0, i>> : i \in 0 .. 1}
             \union {<<0, i, j>> : i \in 0 .. 1, j \in 0 .. 2}
             \union {<<0, i, j, k>> : i \in 0 .. 1, j \in 0 .. 2, k \in 0 .. 1}
             \union {<<1, 0>>, <<1, 0, 0>>, <<1, 0, 0, 0>>}
MCLevel == [c \in MCCells |-> 4 - Len(c)]
MCAbove == [c \in MCCells |-> {SubSeq(c, 1, n) : n \in 1 .. Len(c)}]
MCOffset == [c \in MCCells |-> c[Len(c)]]

On == [value |-> 0, active |-> TRUE]

\* Branches at a cell.
Leaf(c) == (c :> Child) @@ (Append(c, 0) :> On) @@ (Append(c, 1) :> Off(0))
Branches(c) == {c :> On, c :> Off(0), Leaf(c)}
Node(c, b, d, e) == (c :> Child) @@ b @@ d @@ e
Lower(c, i, j, k) == Node(c, Leaf(Append(c, i)), Append(c, j) :> On, Append(c, k) :> Off(0))
First == {(<<0>> :> Child) @@ b @@ d :
             b \in {Lower(<<0, 0>>, 0, 1, 2), Lower(<<0, 0>>, 1, 2, 0), Lower(<<0, 0>>, 2, 0, 1)},
             d \in {<<0, 1>> :> Off(0), Lower(<<0, 1>>, 2, 0, 1)}}
Leaves == Node(<<0, 1>>, Leaf(<<0, 1, 0>>), <<0, 1, 1>> :> On, Leaf(<<0, 1, 2>>))
Second == {[c \in {} |-> On], (<<1>> :> Child) @@ (<<1, 0>> :> On),
           (<<1>> :> Child) @@ (<<1, 0>> :> Child) @@ (<<1, 0, 0>> :> Child)
              @@ (<<1, 0, 0, 0>> :> On)}

\* Trees with a first key, with a second key, and with both.
MCTrees == First \union Second
             \union {b @@ d : b \in {<<0>> :> On, (<<0>> :> Child) @@ (<<0, 0>> :> Off(0)) @@ Leaves},
                            d \in Second}

NoRegions == {}
NoStateOps == {}
MCOps == {[v \in Values |-> v]}
===============================================================================
