------------------------- MODULE MCPointAttributes -------------------------
(***************************************************************************)
(* Instances of PointAttributes: a tree of two leaves, one of them without *)
(* points, and a copy.  0 is "P", 1 to 3 are names that groups give to     *)
(* their arrays, 4 and 5 are other attributes.                             *)
(***************************************************************************)
EXTENDS PointAttributes

CONSTANTS t1, t2, l1, l2, p1, a, b

MCTrees == {t1, t2}
MCLeaves == {l1, l2}
MCPointsIn == (l1 :> {p1}) @@ (l2 :> {})
MCValues == {a, b}
MCNames == 0 .. 5
MCGroupNames == 1 .. 3
\* Two group arrays with groups behind unused bits, and two whose names are not in
\* the order of their positions.
MCInitialDescriptors ==
    {[names |-> <<0, 1, 2>>, groups |-> (2 :> 3) @@ (1 :> 2)],
     [names |-> <<0, 2, 1>>, groups |-> (1 :> 1)]}
MCInitialBits == {{0}}
MCSymmetry == Permutations(MCTrees)

MCOneTree == {t1}
MCOneLeaf == {l1}
MCFullArray == {[names |-> <<0, 1>>, groups |-> (1 :> 0) @@ (2 :> 1)]}
===============================================================================
