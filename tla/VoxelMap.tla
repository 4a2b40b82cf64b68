------------------------------- MODULE VoxelMap -------------------------------
(***************************************************************************)
(* What a VDB tree promises its users, with no nodes in it: every voxel of *)
(* index space has a value and an active state at all times, and an        *)
(* operation changes exactly the voxels it names: one voxel, a box, all    *)
(* outside a box, the cubes of nodes, or everything.  The background value *)
(* is what the voxels hold that are not stored; which are stored shows     *)
(* only in what a new background value does to them.                       *)
(***************************************************************************)
EXTENDS Integers

CONSTANTS Voxels,       \* the voxels of index space
          Values,       \* the values of the tree, closed under negation
          Background,   \* the background value the tree is constructed with
          Boxes,        \* the boxes that fill and clip are called with
          Cubes         \* Cubes[l]: the cubes of the nodes of level l

VARIABLES map,          \* what each voxel holds
          stored,       \* the voxels that the tree stores something for
          background    \* the current background value

vars == <<map, stored, background>>

Content == [value : Values, active : BOOLEAN]

Off(v) == [value |-> v, active |-> FALSE]

Init == /\ map = [x \in Voxels |-> Off(Background)]
        /\ stored = {}
        /\ background = Background

\* The voxels of S hold what f makes of them, all others what they held.
Changed(S, f(_)) == [x \in Voxels |-> IF x \in S THEN f(map[x]) ELSE map[x]]
Filled(S, t) == Changed(S, LAMBDA old : t)

WriteVoxel == \E x \in Voxels, t \in Content : map' = Filled({x}, t)

FillBox == \E B \in Boxes, t \in Content : map' = Filled(B, t)

Clip == \E B \in Boxes : map' = Filled(Voxels \ B, Off(background))

\* One or several nodes of a level are added, replaced or taken.
FillCubes == \E l \in DOMAIN Cubes : \E N \in SUBSET Cubes[l], t \in Content :
                map' = Filled(UNION N, t)

Negate == \E l \in DOMAIN Cubes : \E C \in Cubes[l] :
             map' = Changed(C, LAMBDA old : [old EXCEPT !.value = - @])

Activate == \E l \in DOMAIN Cubes : \E C \in Cubes[l] :
               map' = Changed(C, LAMBDA old : [old EXCEPT !.active = TRUE])

Clear == map' = Filled(Voxels, Off(background))

\* Only the way in which the map is stored changes.
Restructure == UNCHANGED map

\* Every inactive voxel follows the background from the old value to the new one,
\* on both sides of a narrow band.
Rebase(b) ==
    map' = [x \in Voxels |->
              IF map[x] = Off(background) THEN Off(b)
              ELSE IF map[x] = Off(-background) THEN Off(-b) ELSE map[x]]

\* The background changes under the voxels that are not stored.
RebaseUnstored(b) == map' = Filled(Voxels \ stored, Off(b))

Next ==
    /\ \/ /\ UNCHANGED background
          /\ stored' \in SUBSET Voxels
          /\ Restructure \/ Clear \/ WriteVoxel \/ Negate \/ Activate
             \/ FillCubes \/ FillBox \/ Clip
       \/ \E b \in Values : /\ Rebase(b) \/ RebaseUnstored(b)
                            /\ background' = b
                            /\ UNCHANGED stored
    /\ \A x \in Voxels \ stored' : map'[x] = Off(background')

Spec == Init /\ [][Next]_vars
===============================================================================
