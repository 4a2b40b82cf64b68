--------------------------- MODULE TreePairsProofs ---------------------------
(***************************************************************************)
(* Proofs about TreePairs and TreeMerge, for every index space, depth, set *)
(* of values and pair of trees to start with, and any trees to merge: the  *)
(* operations of two trees and the merge tools leave trees, and do to the  *)
(* voxels what their contracts say.                                        *)
(*                                                                         *)
(* The descent ends once above every voxel that either tree has a key for  *)
(* (MetAbove, MetOnce), so an operation is known from the branches that it *)
(* puts there: those that fit give a tree (JoinedShape), in which a voxel  *)
(* holds what it holds in its branch (JoinedHeld).                         *)
(*                                                                         *)
(* A merge takes the trees one after the other.  Its invariant over the    *)
(* list is Stage: what the voxels of the result hold is what the trees     *)
(* taken so far make of them, with the root table that the first step has  *)
(* already made from all of them.                                          *)
(***************************************************************************)
EXTENDS TreePairs, TreeMerge, VoxelTreeProofs, SequenceTheorems

-------------------------------------------------------------------------------
(* The entries at which the descent ends.                                  *)

\* The nodes that both trees have are nodes down from the keys, with all entries.
LEMMA BothFacts ==
    ASSUME NEW T, NEW S, WellFormed(T), WellFormed(S), NEW q \in Both(T, S)
    PROVE  /\ q \in Cells /\ Level[q] > 0
           /\ q \in DOMAIN T /\ T[q] = Child /\ q \in DOMAIN S /\ S[q] = Child
           /\ Parents[q] \subseteq Both(T, S)
           /\ Slots[q] \subseteq DOMAIN T /\ Slots[q] \subseteq DOMAIN S
<1>1. q \in Cells /\ q \in DOMAIN T /\ T[q] = Child /\ q \in DOMAIN S /\ S[q] = Child
  BY DEF Both, Nodes, IsChild
<1>2. ASSUME NEW d \in Parents[q] PROVE d \in Both(T, S)
  <2>1. d \in Cells /\ d \in DOMAIN T /\ T[d] = Child /\ d \in DOMAIN S /\ S[d] = Child
    BY <1>1, Shape, Chain
  <2> QED
    BY <2>1 DEF Both, Nodes, IsChild
<1> QED
  BY <1>1, <1>2, Shape

LEMMA MetFacts ==
    ASSUME NEW T, NEW S, WellFormed(T), WellFormed(S), NEW c \in Met(T, S)
    PROVE  /\ c \in Cells /\ c \notin Both(T, S) /\ Parents[c] \subseteq Both(T, S)
           /\ c \in DOMAIN T \/ c \in DOMAIN S
           /\ \A p \in Parents[c] : IsChild(T, p) /\ IsChild(S, p)
           /\ c \in Keys \/ (c \in DOMAIN T /\ c \in DOMAIN S)
<1>1. /\ c \notin Both(T, S) /\ Parents[c] \subseteq Both(T, S)
      /\ c \in DOMAIN T \/ c \in DOMAIN S
  BY DEF Met
<1>2. c \in Cells
  BY <1>1 DEF WellFormed
<1>3. \A p \in Parents[c] : IsChild(T, p) /\ IsChild(S, p)
  BY <1>1, BothFacts DEF IsChild
<1>4. ASSUME c \notin Keys PROVE c \in DOMAIN T /\ c \in DOMAIN S
  <2>1. c # KeyOf[c]
    BY <1>2, <1>4, KeyFacts DEF Keys
  <2>2. PICK q \in Parents[c] : c \in Slots[q]
    BY <1>2, <2>1, EntryOfParent
  <2> QED
    BY <1>1, <2>2, BothFacts
<1> QED
  BY <1>1, <1>2, <1>3, <1>4

\* The descent ends once above every cell.
LEMMA MetOnce ==
    ASSUME NEW T, NEW S, WellFormed(T), WellFormed(S), NEW x \in Cells,
           NEW c \in Met(T, S), NEW d \in Met(T, S), c \in Above[x], d \in Above[x]
    PROVE  c = d
<1>1. c = d \/ c \in Parents[d] \/ d \in Parents[c]
  BY Chain
<1> QED
  BY <1>1, MetFacts

\* What lies at or below the end of a descent is no node of both trees.
LEMMA NotBoth ==
    ASSUME NEW T, NEW S, WellFormed(T), WellFormed(S), NEW c \in Met(T, S),
           NEW q \in Both(T, S)
    PROVE  c \notin Above[q]
<1>1. q \in Cells /\ Parents[q] \subseteq Both(T, S)
  BY BothFacts
<1>2. c \notin Both(T, S)
  BY MetFacts
<1> QED
  BY <1>1, <1>2, Chain

\* It ends above every cell that either tree has a key for, unless that is a node
\* of both.
LEMMA MetAbove ==
    ASSUME NEW T, NEW S, WellFormed(T), WellFormed(S), NEW x \in Cells,
           KeyOf[x] \in DOMAIN T \/ KeyOf[x] \in DOMAIN S, x \notin Both(T, S)
    PROVE  \E c \in Met(T, S) : c \in Above[x]
<1> DEFINE A == {d \in Above[x] : d \notin Both(T, S)}
<1>1. A \in SUBSET Above[x] /\ A # {}
  BY Chain
<1>2. PICK c \in A : Parents[c] \intersect A = {}
  BY <1>1, Topmost
<1>3. c \in Above[x] /\ c \notin Both(T, S) /\ c \in Cells
  BY Chain
<1>4. Parents[c] \subseteq Both(T, S)
  <2> SUFFICES ASSUME NEW d \in Parents[c] PROVE d \in Both(T, S)
    OBVIOUS
  <2>1. d \in Above[x]
    BY <1>3, Chain
  <2> QED
    BY <1>2, <2>1
<1>5. c \in DOMAIN T \/ c \in DOMAIN S
  <2>1. CASE c = KeyOf[c]
    BY <1>3, <2>1, KeyFacts
  <2>2. CASE c # KeyOf[c]
    <3>1. PICK q \in Parents[c] : c \in Slots[q]
      BY <1>3, <2>2, EntryOfParent
    <3> QED
      BY <1>4, <3>1, BothFacts
  <2> QED
    BY <2>1, <2>2
<1>6. c \in Met(T, S)
  BY <1>3, <1>4, <1>5 DEF Met
<1> QED
  BY <1>3, <1>6

\* An entry of a tree has its key, and so have the ends of the descent above it.
LEMMA KeyThere ==
    ASSUME NEW T, WellFormed(T), NEW c \in DOMAIN T
    PROVE  KeyOf[c] \in DOMAIN T
<1>1. c \in Cells /\ \A d \in Parents[c] : d \in DOMAIN T
  BY Shape
<1> QED
  BY <1>1, KeyFacts, Chain

LEMMA KeyOfMet ==
    ASSUME NEW T, NEW S, WellFormed(T), WellFormed(S), NEW c \in Met(T, S),
           NEW x \in Cells, c \in Above[x]
    PROVE  KeyOf[x] = KeyOf[c] /\ (KeyOf[x] \in DOMAIN T \/ KeyOf[x] \in DOMAIN S)
<1>1. c \in Cells /\ (c \in DOMAIN T \/ c \in DOMAIN S)
  BY MetFacts
<1>2. KeyOf[c] \in Above[x] /\ Level[KeyOf[c]] = RootLevel
  BY <1>1, KeyFacts, Chain
<1>3. KeyOf[x] = KeyOf[c]
  BY <1>2, KeyFacts
<1> QED
  BY <1>1, <1>3, KeyThere

-------------------------------------------------------------------------------
(* Branches.                                                               *)

\* B can be put where a descent ends: at c, a tile or a node with all it needs, or
\* nothing if c is a key.
Fits(B, c) ==
    /\ DOMAIN B \subseteq {d \in Cells : c \in Above[d]}
    /\ c \in DOMAIN B \/ (c \in Keys /\ DOMAIN B = {})
    /\ \A d \in DOMAIN B :
          /\ B[d] \in Tile \union {Child}
          /\ \A e \in Parents[d] : c \in Above[e] => e \in DOMAIN B /\ B[e] = Child
          /\ B[d] = Child => Level[d] > 0 /\ Slots[d] \subseteq DOMAIN B

\* Tiles, and the changes of one of their fields.
LEMMA TileFacts ==
    ASSUME NEW t \in Tile, NEW v \in Values
    PROVE  /\ t # Child /\ t.value \in Values /\ t.active \in BOOLEAN
           /\ t = [value |-> t.value, active |-> t.active]
           /\ [t EXCEPT !.value = v] = [value |-> v, active |-> t.active]
           /\ [t EXCEPT !.active = TRUE] = [value |-> t.value, active |-> TRUE]
           /\ [t EXCEPT !.active = FALSE] = [value |-> t.value, active |-> FALSE]
<1>1. PICK a \in Values, on \in BOOLEAN : t = [value |-> a, active |-> on]
  BY DEF Tile
<1>2. t.value = a /\ t.active = on
  BY <1>1
<1>3. [t EXCEPT !.value = v] = [value |-> v, active |-> on]
  BY <1>1
<1>4. ASSUME NEW o \in BOOLEAN
      PROVE  [t EXCEPT !.active = o] = [value |-> a, active |-> o]
  BY <1>1
<1>5. [t EXCEPT !.active = TRUE] = [value |-> a, active |-> TRUE]
  BY <1>4, Zenon
<1>6. [t EXCEPT !.active = FALSE] = [value |-> a, active |-> FALSE]
  BY <1>4, Zenon
<1> QED
  BY <1>1, <1>2, <1>3, <1>4, <1>5, <1>6, ContentsTyped

LEMMA TypedTiles == \A v \in Values, on \in BOOLEAN : [value |-> v, active |-> on] \in Tile
  BY DEF Tile

\* What covers a voxel in a tree, or a branch: the only tile above it.
LEMMA HeldTile ==
    ASSUME NEW T, NEW x \in Cells, NEW d \in Above[x], IsTile(T, d),
           \A e \in Above[x] : IsTile(T, e) => e = d, NEW b
    PROVE  Held(T, b, x) = T[d]
<1>1. \E e \in Above[x] : IsTile(T, e)
  OBVIOUS
<1>2. PICK e \in Above[x] : IsTile(T, e) /\ e = CHOOSE f \in Above[x] : IsTile(T, f)
  BY <1>1
<1> QED
  BY <1>1, <1>2 DEF Held

LEMMA HeldNone ==
    ASSUME NEW T, NEW x, \A d \in Above[x] : ~ IsTile(T, d), NEW b
    PROVE  Held(T, b, x) = Off(b)
  BY DEF Held

LEMMA StoredHeld ==
    ASSUME NEW T, NEW x
    PROVE  Stored(T, x) = Held(T, mBackground, x)
  BY DEF Stored, Held, BackgroundTile

LEMMA FitsOneTile ==
    ASSUME NEW c \in Cells, NEW B, Fits(B, c), NEW x \in Cells, c \in Above[x],
           NEW d \in Above[x], NEW e \in Above[x], IsTile(B, d), IsTile(B, e)
    PROVE  d = e
<1>1. d = e \/ d \in Parents[e] \/ e \in Parents[d]
  BY Chain
<1>2. d \in DOMAIN B /\ e \in DOMAIN B /\ B[d] # Child /\ B[e] # Child
  BY DEF IsTile
<1>3. c \in Above[d] /\ c \in Above[e]
  BY <1>2 DEF Fits
<1> QED
  BY <1>1, <1>2, <1>3 DEF Fits

\* A branch that is not empty has a tile for each of its voxels: its lowest entry.
LEMMA FitsTile ==
    ASSUME NEW c \in Cells, NEW B, Fits(B, c), c \in DOMAIN B,
           NEW x \in Voxels, c \in Above[x]
    PROVE  \E d \in Above[x] : IsTile(B, d)
<1> DEFINE A == {d \in Above[x] : d \in DOMAIN B}
           L == {Level[d] : d \in A}
<1>1. x \in Cells /\ Level[x] = 0
  BY DEF Voxels
<1>2. L \in SUBSET Nat /\ L # {}
  BY <1>1, Chain
<1>3. PICK m \in L : \A k \in L : m <= k
  BY <1>2, Least
<1>4. PICK d \in A : Level[d] = m
  BY <1>3
<1>5. ASSUME B[d] = Child PROVE FALSE
  <2>1. d \in Cells /\ d \in DOMAIN B /\ d \in Above[x] /\ Level[d] > 0 /\ Slots[d] \subseteq DOMAIN B
    BY <1>1, <1>4, <1>5, Chain DEF Fits
  <2>2. d \in Parents[x]
    BY <1>1, <2>1, Chain
  <2>3. PICK s \in Slots[d] : s \in Above[x]
    BY <1>1, <2>2, SlotTowards
  <2>4. Level[s] = Level[d] - 1 /\ s \in A /\ Level[d] \in Nat
    BY <1>1, <2>1, <2>3, SlotFacts, Chain
  <2>5. m <= Level[s] /\ Level[d] = m
    BY <1>3, <1>4, <2>4
  <2> QED
    BY <2>4, <2>5
<1> QED
  BY <1>4, <1>5 DEF IsTile

\* The branch of a tree where a descent ends.
LEMMA BranchFits ==
    ASSUME NEW T, WellFormed(T), NEW c \in Cells, \A p \in Parents[c] : IsChild(T, p)
    PROVE  /\ Fits(Branch(T, c), c)
           /\ \A d \in Cells : c \in Above[d] =>
                 /\ d \in DOMAIN Branch(T, c) <=> d \in DOMAIN T
                 /\ d \in DOMAIN T => Branch(T, c)[d] = T[d]
<1> DEFINE B == Branch(T, c)
<1>1. DOMAIN B = {d \in DOMAIN T : c \in Above[d]} /\ \A d \in DOMAIN B : B[d] = T[d]
  <2>1. \A d \in DOMAIN T : d \in {c} \union Below[c] <=> c \in Above[d]
    BY Chain DEF WellFormed, Below
  <2> QED
    BY <2>1 DEF Branch
<1> HIDE DEF B
<1>2. DOMAIN T \subseteq Cells
  BY DEF WellFormed
<1>3. c \in DOMAIN B \/ (c \in Keys /\ DOMAIN B = {})
  <2>1. CASE c \in DOMAIN T
    BY <1>1, <2>1, Chain
  <2>2. CASE c \notin DOMAIN T
    <3>1. ASSUME NEW d \in DOMAIN B PROVE FALSE
      <4>1. d \in DOMAIN T /\ d \in Cells /\ c \in Above[d] /\ c # d
        BY <1>1, <1>2, <2>2
      <4>2. c \in Parents[d]
        BY <4>1, Chain
      <4> QED
        BY <2>2, <4>1, <4>2, Shape
    <3>2. ASSUME c \notin Keys PROVE FALSE
      <4>1. c # KeyOf[c]
        BY <3>2, KeyFacts DEF Keys
      <4>2. PICK q \in Parents[c] : c \in Slots[q]
        BY <4>1, EntryOfParent
      <4>3. q \in DOMAIN T /\ T[q] = Child
        BY DEF IsChild
      <4> QED
        BY <2>2, <4>2, <4>3, Shape
    <3> QED
      BY <3>1, <3>2
  <2> QED
    BY <2>1, <2>2
<1>4. ASSUME NEW d \in DOMAIN B
      PROVE  /\ B[d] \in Tile \union {Child}
             /\ \A e \in Parents[d] : c \in Above[e] => e \in DOMAIN B /\ B[e] = Child
             /\ B[d] = Child => Level[d] > 0 /\ Slots[d] \subseteq DOMAIN B
  <2>1. d \in DOMAIN T /\ c \in Above[d] /\ B[d] = T[d] /\ d \in Cells
    BY <1>1, <1>2
  <2>2. \A e \in Parents[d] : c \in Above[e] => e \in DOMAIN B /\ B[e] = Child
    BY <1>1, <2>1, Shape
  <2>3. \A s \in Slots[d] : c \in Above[s]
    BY <2>1, SlotFacts, Chain
  <2> QED
    BY <1>1, <2>1, <2>2, <2>3, Shape
<1>5. Fits(B, c)
  BY <1>1, <1>2, <1>3, <1>4 DEF Fits
<1>6. \A d \in Cells : c \in Above[d] =>
         /\ d \in DOMAIN B <=> d \in DOMAIN T
         /\ d \in DOMAIN T => B[d] = T[d]
  BY <1>1
<1> QED
  BY <1>5, <1>6 DEF B

\* A voxel holds the same in the branch of a tree as in the tree.
LEMMA BranchHeld ==
    ASSUME NEW T, WellFormed(T), NEW c \in Cells, \A p \in Parents[c] : IsChild(T, p),
           NEW x \in Voxels, c \in Above[x], NEW b \in Values
    PROVE  Held(Branch(T, c), b, x) = Held(T, b, x)
<1> DEFINE B == Branch(T, c)
<1>1. /\ Fits(B, c)
      /\ \A d \in Cells : c \in Above[d] => /\ d \in DOMAIN B <=> d \in DOMAIN T
                                            /\ d \in DOMAIN T => B[d] = T[d]
  BY BranchFits
<1> HIDE DEF B
<1>2. x \in Cells
  BY DEF Voxels
<1>3. ASSUME NEW d \in Above[x], IsTile(T, d) PROVE IsTile(B, d) /\ B[d] = T[d]
  <2>1. d \in Cells /\ d \in DOMAIN T /\ T[d] # Child /\ d \notin Parents[c]
    BY <1>2, <1>3, Chain DEF IsTile, IsChild
  <2>2. c = d \/ c \in Parents[d] \/ d \in Parents[c]
    BY <1>2, Chain
  <2>3. c \in Above[d]
    BY <2>1, <2>2, Chain
  <2> QED
    BY <1>1, <2>1, <2>3 DEF IsTile
<1>4. ASSUME NEW d \in Above[x], IsTile(B, d) PROVE IsTile(T, d)
  <2>1. d \in DOMAIN B /\ d \in Cells /\ c \in Above[d]
    BY <1>1, <1>4 DEF IsTile, Fits
  <2> QED
    BY <1>1, <1>4, <2>1 DEF IsTile
<1>5. CASE \E d \in Above[x] : IsTile(T, d)
  <2>1. PICK d \in Above[x] : IsTile(T, d)
    BY <1>5
  <2>2. Held(T, b, x) = T[d]
    BY <1>2, <2>1, OneTile, HeldTile
  <2>3. Held(B, b, x) = B[d]
    BY <1>1, <1>2, <1>3, <2>1, FitsOneTile, HeldTile
  <2> QED
    BY <1>3, <2>1, <2>2, <2>3 DEF B
<1>6. CASE \A d \in Above[x] : ~ IsTile(T, d)
  BY <1>4, <1>6, HeldNone DEF B
<1> QED
  BY <1>5, <1>6

\* A tile holds what each of its voxels does.
LEMMA TileAtFits ==
    ASSUME NEW c \in Cells, NEW t \in Tile
    PROVE  /\ Fits(OneTileAt(c, t), c)
           /\ \A x \in Voxels, b \in Values :
                 c \in Above[x] => Held(OneTileAt(c, t), b, x) = t
           /\ DOMAIN OneTileAt(c, t) = {c} /\ OneTileAt(c, t)[c] = t
<1> DEFINE B == OneTileAt(c, t)
<1>1. DOMAIN B = {c} /\ B[c] = t /\ t # Child
  BY ContentsTyped DEF OneTileAt
<1> HIDE DEF B
<1>2. \A e \in Parents[c] : c \notin Above[e]
  <2> SUFFICES ASSUME NEW e \in Parents[c], c \in Above[e] PROVE FALSE
    OBVIOUS
  <2>1. e \in Cells /\ e # c /\ Level[e] > Level[c] /\ Level[e] \in Int /\ Level[c] \in Int
    BY Chain
  <2>2. Level[c] > Level[e]
    BY <2>1, Chain
  <2> QED
    BY <2>1, <2>2
<1>3. Fits(B, c)
  BY <1>1, <1>2, Chain DEF Fits
<1>4. ASSUME NEW x \in Voxels, NEW b \in Values, c \in Above[x] PROVE Held(B, b, x) = t
  <2>1. x \in Cells /\ IsTile(B, c) /\ \A e \in Above[x] : IsTile(B, e) => e = c
    BY <1>1 DEF Voxels, IsTile
  <2> QED
    BY <1>1, <1>4, <2>1, HeldTile
<1> QED
  BY <1>1, <1>3, <1>4 DEF B

\* A deleted node leaves background, and no node.
LEMMA DeletedFits ==
    ASSUME NEW c \in Cells, mBackground \in Values
    PROVE  /\ Fits(Deleted(c), c)
           /\ \A x \in Voxels : c \in Above[x] => Held(Deleted(c), mBackground, x) = BackgroundTile
           /\ \A d \in DOMAIN Deleted(c) : Deleted(c)[d] # Child
<1>1. BackgroundTile \in Tile /\ BackgroundTile # Child
  BY BackgroundTyped
<1>2. CASE c \in Keys
  <2>1. DOMAIN Deleted(c) = {}
    BY <1>2 DEF Deleted, Empty
  <2>2. Fits(Deleted(c), c)
    BY <1>2, <2>1 DEF Fits
  <2>3. \A x \in Voxels : Held(Deleted(c), mBackground, x) = BackgroundTile
    BY <2>1 DEF Held, IsTile, BackgroundTile
  <2> QED
    BY <2>1, <2>2, <2>3
<1>3. CASE c \notin Keys
  <2>1. Deleted(c) = OneTileAt(c, BackgroundTile)
    BY <1>3 DEF Deleted
  <2>2. /\ Fits(OneTileAt(c, BackgroundTile), c)
        /\ \A x \in Voxels : c \in Above[x] =>
              Held(OneTileAt(c, BackgroundTile), mBackground, x) = BackgroundTile
        /\ DOMAIN OneTileAt(c, BackgroundTile) = {c}
        /\ OneTileAt(c, BackgroundTile)[c] = BackgroundTile
    BY <1>1, TileAtFits
  <2> QED
    BY <1>1, <2>1, <2>2
<1> QED
  BY <1>2, <1>3

\* A change of the tiles of a branch in place.
LEMMA RetiledFits ==
    ASSUME NEW c \in Cells, NEW B, Fits(B, c), NEW R, DOMAIN R = DOMAIN B,
           \A d \in DOMAIN B : /\ B[d] = Child => R[d] = Child
                               /\ B[d] # Child => R[d] \in Tile
    PROVE  /\ Fits(R, c)
           /\ \A d \in Cells : IsChild(R, d) <=> IsChild(B, d)
           /\ \A x \in Voxels : c \in Above[x] /\ c \in DOMAIN B =>
                 \E d \in DOMAIN B : /\ B[d] # Child
                                     /\ \A b \in Values : /\ Held(B, b, x) = B[d]
                                                          /\ Held(R, b, x) = R[d]
<1>1. \A d \in DOMAIN R : R[d] = Child <=> B[d] = Child
  BY ContentsTyped
<1>2. Fits(R, c)
  BY <1>1 DEF Fits
<1>3. ASSUME NEW x \in Voxels, c \in Above[x], c \in DOMAIN B
      PROVE  \E d \in DOMAIN B : /\ B[d] # Child
                                 /\ \A b \in Values : Held(B, b, x) = B[d] /\ Held(R, b, x) = R[d]
  <2>1. \A d \in Above[x] : IsTile(R, d) <=> IsTile(B, d)
    BY <1>1 DEF IsTile
  <2>2. x \in Cells
    BY DEF Voxels
  <2>3. PICK d \in Above[x] : IsTile(B, d)
    BY <1>3, FitsTile
  <2>4. \A e \in Above[x] : IsTile(B, e) => e = d
    BY <1>3, <2>2, <2>3, FitsOneTile
  <2>5. \A b \in Values : Held(B, b, x) = B[d] /\ Held(R, b, x) = R[d]
    BY <2>1, <2>2, <2>3, <2>4, HeldTile
  <2> QED
    BY <2>3, <2>5 DEF IsTile
<1> QED
  BY <1>1, <1>2, <1>3 DEF IsChild

\* What a tree holds in the voxels of an entry that is no node.
LEMMA EntryHeld ==
    ASSUME NEW T, WellFormed(T), NEW c \in Cells, \A p \in Parents[c] : IsChild(T, p),
           ~ IsChild(T, c), NEW b \in Values
    PROVE  /\ Held(T, b, c) \in Tile
           /\ ActiveIn(T, c) \in BOOLEAN
           /\ ActiveIn(T, c) <=> Held(T, b, c).active
           /\ ActiveIn(T, c) => T[c] = Held(T, b, c)
           /\ \A x \in Voxels : c \in Above[x] => Held(T, b, x) = Held(T, b, c)
<1>1. \A d \in Above[c] : IsTile(T, d) => d = c
  BY Chain DEF IsTile, IsChild
<1>2. CASE IsTile(T, c)
  <2>1. Held(T, b, c) = T[c] /\ T[c] \in Tile
    BY <1>1, <1>2, HeldTile, Chain, Shape DEF IsTile
  <2>2. ASSUME NEW x \in Voxels, c \in Above[x] PROVE Held(T, b, x) = T[c]
    <3>1. x \in Cells
      BY DEF Voxels
    <3> QED
      BY <1>2, <2>2, <3>1, OneTile, HeldTile
  <2> QED
    BY <1>2, <2>1, <2>2, OpsTyped DEF ActiveIn
<1>3. CASE ~ IsTile(T, c)
  <2>1. c \notin DOMAIN T
    BY <1>3 DEF IsTile, IsChild
  <2>2. Held(T, b, c) = Off(b)
    BY <1>1, <1>3, HeldNone
  <2>3. ASSUME NEW x \in Voxels, c \in Above[x] PROVE Held(T, b, x) = Off(b)
    <3>1. ASSUME NEW d \in Above[x], IsTile(T, d) PROVE FALSE
      <4>1. d \in DOMAIN T /\ T[d] # Child /\ x \in Cells
        BY <3>1 DEF IsTile, Voxels
      <4>2. c = d \/ c \in Parents[d] \/ d \in Parents[c]
        BY <2>3, <4>1, Chain
      <4>3. d \in Parents[c] => IsChild(T, d)
        OBVIOUS
      <4>4. c \in Parents[d] => c \in DOMAIN T
        BY <4>1, Shape
      <4> QED
        BY <2>1, <4>1, <4>2, <4>3, <4>4 DEF IsChild
    <3> QED
      BY <3>1, HeldNone
  <2>4. Off(b) \in Tile /\ Off(b).active = FALSE
    BY OpsTyped DEF Off
  <2> QED
    BY <1>3, <2>2, <2>3, <2>4 DEF ActiveIn
<1> QED
  BY <1>2, <1>3

-------------------------------------------------------------------------------
(* Branches joined below the nodes that both trees have.                   *)

LEMMA JoinedEntries ==
    ASSUME NEW T, NEW S, WellFormed(T), WellFormed(S),
           NEW branch, DOMAIN branch = Met(T, S), \A c \in Met(T, S) : Fits(branch[c], c)
    PROVE  /\ \A q \in Both(T, S) : /\ q \in DOMAIN Joined(T, S, branch)
                                    /\ Joined(T, S, branch)[q] = Child
           /\ \A c \in Met(T, S) : \A d \in DOMAIN branch[c] :
                 /\ d \in DOMAIN Joined(T, S, branch)
                 /\ Joined(T, S, branch)[d] = branch[c][d]
                 /\ d \in Cells /\ c \in Above[d]
           /\ \A d \in DOMAIN Joined(T, S, branch) :
                 d \in Both(T, S) \/ \E c \in Met(T, S) : d \in DOMAIN branch[c]
<1> DEFINE J == Joined(T, S, branch)
           D == Both(T, S) \union UNION {DOMAIN branch[c] : c \in DOMAIN branch}
<1>1. J = [d \in D |-> IF d \in Both(T, S) THEN Child
                       ELSE branch[CHOOSE c \in DOMAIN branch : c \in Above[d]][d]]
  BY DEF Joined
<1>2. \A d : d \in D <=> d \in Both(T, S) \/ \E c \in Met(T, S) : d \in DOMAIN branch[c]
  <2> SUFFICES ASSUME NEW d
               PROVE  d \in UNION {DOMAIN branch[c] : c \in DOMAIN branch}
                        <=> \E c \in Met(T, S) : d \in DOMAIN branch[c]
    OBVIOUS
  <2> QED
    OBVIOUS
<1> HIDE DEF D, J
<1>3. DOMAIN J = D /\ \A d \in D : J[d] = IF d \in Both(T, S) THEN Child
                       ELSE branch[CHOOSE c \in DOMAIN branch : c \in Above[d]][d]
  BY <1>1
<1>4. \A q \in Both(T, S) : q \in DOMAIN J /\ J[q] = Child
  BY <1>2, <1>3
<1>5. ASSUME NEW c \in Met(T, S), NEW d \in DOMAIN branch[c]
      PROVE  d \in DOMAIN J /\ J[d] = branch[c][d] /\ d \in Cells /\ c \in Above[d]
  <2>1. d \in Cells /\ c \in Above[d]
    BY DEF Fits
  <2>2. d \notin Both(T, S)
    BY <2>1, NotBoth
  <2>3. d \in D
    BY <1>2
  <2>4. \E e \in DOMAIN branch : e \in Above[d]
    BY <2>1
  <2>5. PICK e \in DOMAIN branch : e \in Above[d] /\ e = CHOOSE f \in DOMAIN branch : f \in Above[d]
    BY <2>4
  <2>6. e = c
    BY <2>1, <2>5, MetOnce
  <2> QED
    BY <1>3, <2>1, <2>2, <2>3, <2>5, <2>6
<1>6. \A d \in DOMAIN J : d \in Both(T, S) \/ \E c \in Met(T, S) : d \in DOMAIN branch[c]
  BY <1>2, <1>3
<1> QED
  BY <1>4, <1>5, <1>6 DEF J

\* Branches that fit make a tree, with the keys of the two trees.
LEMMA JoinedShape ==
    ASSUME NEW T, NEW S, WellFormed(T), WellFormed(S),
           NEW branch, DOMAIN branch = Met(T, S), \A c \in Met(T, S) : Fits(branch[c], c)
    PROVE  /\ WellFormed(Joined(T, S, branch))
           /\ \A d \in DOMAIN Joined(T, S, branch) : KeyOf[d] \in DOMAIN T \/ KeyOf[d] \in DOMAIN S
           /\ \A d \in Cells : IsChild(Joined(T, S, branch), d)
                 <=> d \in Both(T, S) \/ \E c \in Met(T, S) : IsChild(branch[c], d)
<1> DEFINE J == Joined(T, S, branch)
<1>1. /\ \A q \in Both(T, S) : q \in DOMAIN J /\ J[q] = Child
      /\ \A c \in Met(T, S) : \A d \in DOMAIN branch[c] :
            d \in DOMAIN J /\ J[d] = branch[c][d] /\ d \in Cells /\ c \in Above[d]
      /\ \A d \in DOMAIN J : d \in Both(T, S) \/ \E c \in Met(T, S) : d \in DOMAIN branch[c]
  BY JoinedEntries
<1> HIDE DEF J
<1>2. ASSUME NEW q \in Both(T, S), NEW s \in Slots[q] PROVE s \in DOMAIN J
  <2>1. q \in Cells /\ Parents[q] \subseteq Both(T, S) /\ s \in DOMAIN T
    BY BothFacts
  <2>2. s \in Cells /\ Parents[s] \subseteq Both(T, S) /\ Level[s] = Level[q] - 1
    BY <2>1, SlotFacts
  <2>3. CASE s \in Both(T, S)
    BY <1>1, <2>3
  <2>4. CASE s \notin Both(T, S)
    <3>1. s \in Met(T, S)
      BY <2>1, <2>2, <2>4 DEF Met
    <3>2. s \notin Keys
      BY <2>1, <2>2, Chain, RootLevelNat DEF Keys
    <3>3. s \in DOMAIN branch[s]
      BY <3>1, <3>2 DEF Fits
    <3> QED
      BY <1>1, <3>1, <3>3
  <2> QED
    BY <2>3, <2>4
<1>3. ASSUME NEW d \in DOMAIN J
      PROVE  /\ d \in Cells /\ J[d] \in Tile \union {Child}
             /\ \A e \in Parents[d] : IsChild(J, e)
             /\ J[d] = Child => Level[d] > 0 /\ Slots[d] \subseteq DOMAIN J
  <2>1. CASE d \in Both(T, S)
    BY <1>1, <1>2, <2>1, BothFacts DEF IsChild
  <2>2. CASE \E c \in Met(T, S) : d \in DOMAIN branch[c]
    <3>1. PICK c \in Met(T, S) : d \in DOMAIN branch[c]
      BY <2>2
    <3>2. Fits(branch[c], c) /\ J[d] = branch[c][d] /\ d \in Cells /\ c \in Above[d]
      BY <1>1, <3>1
    <3>3. ASSUME NEW e \in Parents[d] PROVE IsChild(J, e)
      <4>1. e \in Above[d] /\ e \in Cells /\ c \in Cells
        BY <3>2, Chain
      <4>2. e = c \/ e \in Parents[c] \/ c \in Parents[e]
        BY <3>2, <4>1, Chain
      <4>3. CASE e \in Parents[c]
        BY <1>1, <4>3, MetFacts DEF IsChild
      <4>4. CASE c \in Above[e]
        <5>1. e \in DOMAIN branch[c] /\ branch[c][e] = Child
          BY <3>1, <3>2, <4>4 DEF Fits
        <5> QED
          BY <1>1, <5>1 DEF IsChild
      <4> QED
        BY <4>1, <4>2, <4>3, <4>4, Chain
    <3>4. ASSUME J[d] = Child PROVE Level[d] > 0 /\ Slots[d] \subseteq DOMAIN J
      <4>1. Level[d] > 0 /\ Slots[d] \subseteq DOMAIN branch[c]
        BY <3>1, <3>2, <3>4 DEF Fits
      <4> QED
        BY <1>1, <4>1
    <3>5. J[d] \in Tile \union {Child}
      BY <3>1, <3>2 DEF Fits
    <3> QED
      BY <3>2, <3>3, <3>4, <3>5
  <2> QED
    BY <1>1, <2>1, <2>2
<1>4. WellFormed(J)
  BY <1>3 DEF WellFormed
<1>5. ASSUME NEW d \in DOMAIN J PROVE KeyOf[d] \in DOMAIN T \/ KeyOf[d] \in DOMAIN S
  <2>1. d \in Both(T, S) => KeyOf[d] \in DOMAIN T
    BY BothFacts, KeyThere
  <2>2. ASSUME NEW c \in Met(T, S), d \in DOMAIN branch[c]
        PROVE  KeyOf[d] \in DOMAIN T \/ KeyOf[d] \in DOMAIN S
    BY <1>1, <2>2, KeyOfMet
  <2> QED
    BY <1>1, <2>1, <2>2
<1>6. \A d \in Cells : IsChild(J, d)
         <=> d \in Both(T, S) \/ \E c \in Met(T, S) : IsChild(branch[c], d)
  BY <1>1 DEF IsChild
<1> QED
  BY <1>4, <1>5, <1>6 DEF J

\* A voxel holds what its branch does, and is background if it has no key.
LEMMA JoinedHeld ==
    ASSUME NEW T, NEW S, WellFormed(T), WellFormed(S),
           NEW branch, DOMAIN branch = Met(T, S), \A c \in Met(T, S) : Fits(branch[c], c),
           NEW x \in Voxels
    PROVE  /\ \A c \in Met(T, S) : c \in Above[x] =>
                 Stored(Joined(T, S, branch), x) = Held(branch[c], mBackground, x)
           /\ KeyOf[x] \notin DOMAIN T /\ KeyOf[x] \notin DOMAIN S =>
                 Stored(Joined(T, S, branch), x) = BackgroundTile
<1> DEFINE J == Joined(T, S, branch)
<1>1. /\ \A q \in Both(T, S) : q \in DOMAIN J /\ J[q] = Child
      /\ \A c \in Met(T, S) : \A d \in DOMAIN branch[c] :
            d \in DOMAIN J /\ J[d] = branch[c][d] /\ d \in Cells /\ c \in Above[d]
      /\ \A d \in DOMAIN J : d \in Both(T, S) \/ \E c \in Met(T, S) : d \in DOMAIN branch[c]
  BY JoinedEntries
<1>2. WellFormed(J) /\ \A d \in DOMAIN J : KeyOf[d] \in DOMAIN T \/ KeyOf[d] \in DOMAIN S
  BY JoinedShape
<1> HIDE DEF J
<1>3. x \in Cells
  BY DEF Voxels
<1>4. ASSUME NEW c \in Met(T, S), c \in Above[x]
      PROVE  Stored(J, x) = Held(branch[c], mBackground, x)
  <2>1. ASSUME NEW d \in Above[x], IsTile(branch[c], d) PROVE IsTile(J, d) /\ J[d] = branch[c][d]
    BY <1>1, <2>1 DEF IsTile
  <2>2. ASSUME NEW d \in Above[x], IsTile(J, d) PROVE IsTile(branch[c], d)
    <3>1. d \in DOMAIN J /\ J[d] # Child
      BY <2>2 DEF IsTile
    <3>2. PICK e \in Met(T, S) : d \in DOMAIN branch[e]
      BY <1>1, <3>1
    <3>3. e \in Above[x]
      BY <1>1, <1>3, <3>2, Chain
    <3>4. e = c
      BY <1>3, <1>4, <3>3, MetOnce
    <3> QED
      BY <1>1, <3>1, <3>2, <3>4 DEF IsTile
  <2>3. CASE \E d \in Above[x] : IsTile(J, d)
    <3>1. PICK d \in Above[x] : IsTile(J, d)
      BY <2>3
    <3>2. \A e \in Above[x] : IsTile(J, e) => e = d
      BY <1>2, <1>3, <3>1, OneTile
    <3>3. Stored(J, x) = J[d]
      BY <1>2, <1>3, <3>1, StoredTile
    <3>4. Held(branch[c], mBackground, x) = branch[c][d]
      BY <1>3, <2>1, <2>2, <3>1, <3>2, HeldTile
    <3> QED
      BY <2>1, <2>2, <3>1, <3>3, <3>4
  <2>4. CASE \A d \in Above[x] : ~ IsTile(J, d)
    <3>1. Stored(J, x) = BackgroundTile
      BY <2>4, StoredNone
    <3>2. Held(branch[c], mBackground, x) = Off(mBackground)
      BY <2>1, <2>4, HeldNone
    <3> QED
      BY <3>1, <3>2 DEF BackgroundTile
  <2> QED
    BY <2>3, <2>4
<1>5. ASSUME KeyOf[x] \notin DOMAIN T, KeyOf[x] \notin DOMAIN S
      PROVE  Stored(J, x) = BackgroundTile
  <2>1. ASSUME NEW d \in Above[x] PROVE d \notin DOMAIN J
    <3>1. d \in Cells /\ KeyOf[d] \in Above[x] /\ Level[KeyOf[d]] = RootLevel
      BY <1>3, KeyFacts, Chain
    <3>2. KeyOf[d] = KeyOf[x]
      BY <1>3, <3>1, KeyFacts
    <3> QED
      BY <1>2, <1>5, <3>2
  <2> QED
    BY <2>1, StoredNone DEF IsTile
<1> QED
  BY <1>4, <1>5 DEF J

-------------------------------------------------------------------------------
(* What the two trees have at the end of a descent.                        *)

\* A node of either tree, its tiles changed in place.
LEMMA NodeRetiled ==
    ASSUME NEW T, WellFormed(T), NEW c \in Cells, \A p \in Parents[c] : IsChild(T, p),
           IsChild(T, c), NEW R, DOMAIN R = DOMAIN Branch(T, c),
           \A d \in DOMAIN Branch(T, c) : /\ Branch(T, c)[d] = Child => R[d] = Child
                                          /\ Branch(T, c)[d] # Child => R[d] \in Tile
    PROVE  /\ Fits(R, c)
           /\ \A d \in Cells : IsChild(R, d) <=> c \in Above[d] /\ IsChild(T, d)
           /\ \A d \in Cells : c \in Above[d] => (d \in DOMAIN R <=> d \in DOMAIN T)
           /\ \A x \in Voxels : c \in Above[x] =>
                 \E d \in DOMAIN Branch(T, c) :
                    /\ Branch(T, c)[d] \in Tile
                    /\ \A b \in Values : Held(T, b, x) = Branch(T, c)[d] /\ Held(R, b, x) = R[d]
<1> DEFINE B == Branch(T, c)
<1>1. /\ Fits(B, c)
      /\ \A d \in Cells : c \in Above[d] => /\ d \in DOMAIN B <=> d \in DOMAIN T
                                            /\ d \in DOMAIN T => B[d] = T[d]
  BY BranchFits
<1>2. \A x \in Voxels, b \in Values : c \in Above[x] => Held(B, b, x) = Held(T, b, x)
  BY BranchHeld
<1>3. DOMAIN R = DOMAIN B /\ \A d \in DOMAIN B : /\ B[d] = Child => R[d] = Child
                                                 /\ B[d] # Child => R[d] \in Tile
  OBVIOUS
<1> HIDE DEF B
<1>4. /\ Fits(R, c)
      /\ \A d \in Cells : IsChild(R, d) <=> IsChild(B, d)
      /\ \A x \in Voxels : c \in Above[x] /\ c \in DOMAIN B =>
            \E d \in DOMAIN B : /\ B[d] # Child
                                /\ \A b \in Values : Held(B, b, x) = B[d] /\ Held(R, b, x) = R[d]
  BY <1>1, <1>3, RetiledFits
<1>5. c \in DOMAIN B
  BY <1>1, Chain DEF IsChild
<1>6. ASSUME NEW d \in Cells PROVE IsChild(B, d) <=> c \in Above[d] /\ IsChild(T, d)
  <2>1. d \in DOMAIN B => c \in Above[d]
    BY <1>1 DEF Fits
  <2> QED
    BY <1>1, <2>1 DEF IsChild
<1>7. ASSUME NEW x \in Voxels, c \in Above[x]
      PROVE  \E d \in DOMAIN B : /\ B[d] \in Tile
                                 /\ \A b \in Values : Held(T, b, x) = B[d] /\ Held(R, b, x) = R[d]
  <2>1. PICK d \in DOMAIN B : /\ B[d] # Child
                              /\ \A b \in Values : Held(B, b, x) = B[d] /\ Held(R, b, x) = R[d]
    BY <1>4, <1>5, <1>7
  <2>2. B[d] \in Tile
    BY <1>1, <2>1 DEF Fits
  <2> QED
    BY <1>2, <1>7, <2>1, <2>2
<1> QED
  BY <1>1, <1>3, <1>4, <1>6, <1>7 DEF B

\* The trees on both sides of the end of a descent.
LEMMA EndFacts ==
    ASSUME PairTypeOK, NEW c \in Met(tree, other)
    PROVE  /\ c \in Cells /\ ~ (IsChild(tree, c) /\ IsChild(other, c))
           /\ \A p \in Parents[c] : IsChild(tree, p) /\ IsChild(other, p)
           /\ Fits(Branch(tree, c), c)
           /\ \A d \in Cells : IsChild(Branch(tree, c), d) <=> c \in Above[d] /\ IsChild(tree, d)
           /\ \A d \in Cells : c \in Above[d] =>
                 (d \in DOMAIN Branch(tree, c) <=> d \in DOMAIN tree)
           /\ \A x \in Voxels : c \in Above[x] => Held(Branch(tree, c), mBackground, x) = Map[x]
<1>1. WellFormed(tree) /\ WellFormed(other) /\ mBackground \in Values
  BY DEF PairTypeOK
<1>2. /\ c \in Cells /\ c \notin Both(tree, other)
      /\ \A p \in Parents[c] : IsChild(tree, p) /\ IsChild(other, p)
  BY <1>1, MetFacts
<1>3. ~ (IsChild(tree, c) /\ IsChild(other, c))
  BY <1>2 DEF Both, Nodes
<1>4. /\ Fits(Branch(tree, c), c)
      /\ \A d \in Cells : c \in Above[d] => /\ d \in DOMAIN Branch(tree, c) <=> d \in DOMAIN tree
                                            /\ d \in DOMAIN tree => Branch(tree, c)[d] = tree[d]
  BY <1>1, <1>2, BranchFits
<1>5. ASSUME NEW d \in Cells
      PROVE IsChild(Branch(tree, c), d) <=> c \in Above[d] /\ IsChild(tree, d)
  <2>1. d \in DOMAIN Branch(tree, c) => c \in Above[d]
    BY <1>4 DEF Fits
  <2> QED
    BY <1>4, <2>1 DEF IsChild
<1>6. ASSUME NEW x \in Voxels, c \in Above[x]
      PROVE  Held(Branch(tree, c), mBackground, x) = Map[x]
  <2>1. Held(Branch(tree, c), mBackground, x) = Held(tree, mBackground, x)
    BY <1>1, <1>2, <1>6, BranchHeld
  <2>2. Map[x] = Held(tree, mBackground, x)
    BY DEF Map, Contents, Stored, Held, BackgroundTile
  <2> QED
    BY <2>1, <2>2
<1> QED
  BY <1>2, <1>3, <1>4, <1>5, <1>6

\* What this tree holds there if it has no node there.
LEMMA TileOfTree ==
    ASSUME PairTypeOK, NEW c \in Met(tree, other), ~ IsChild(tree, c)
    PROVE  /\ Stored(tree, c) \in Tile
           /\ ActiveIn(tree, c) <=> Stored(tree, c).active
           /\ ActiveIn(tree, c) => tree[c] = Stored(tree, c)
           /\ \A x \in Voxels : c \in Above[x] => Map[x] = Stored(tree, c)
           /\ \A d \in Cells : c \in Above[d] => ~ IsChild(tree, d)
<1>1. WellFormed(tree) /\ mBackground \in Values
  BY DEF PairTypeOK
<1>2. c \in Cells /\ \A p \in Parents[c] : IsChild(tree, p)
  BY EndFacts
<1>3. /\ Held(tree, mBackground, c) \in Tile
      /\ ActiveIn(tree, c) <=> Held(tree, mBackground, c).active
      /\ ActiveIn(tree, c) => tree[c] = Held(tree, mBackground, c)
      /\ \A x \in Voxels : c \in Above[x] => Held(tree, mBackground, x) = Held(tree, mBackground, c)
  BY <1>1, <1>2, EntryHeld
<1>4. /\ Stored(tree, c) = Held(tree, mBackground, c)
      /\ \A x \in Voxels : Map[x] = Held(tree, mBackground, x)
  BY DEF Map, Contents, Stored, Held, BackgroundTile
<1>5. ASSUME NEW d \in Cells, c \in Above[d], IsChild(tree, d) PROVE FALSE
  <2>1. c = d \/ c \in Parents[d]
    BY <1>5, Chain
  <2>2. c \in Parents[d] => IsChild(tree, c)
    BY <1>1, <1>5 DEF WellFormed, IsChild
  <2> QED
    BY <1>5, <2>1, <2>2
<1> QED
  BY <1>3, <1>4, <1>5

\* What the other tree holds there if it has no node there.
LEMMA TileOfOther ==
    ASSUME PairTypeOK, NEW c \in Met(tree, other), ~ IsChild(other, c)
    PROVE  /\ Theirs(c) \in Tile
           /\ ActiveIn(other, c) <=> Theirs(c).active
           /\ ActiveIn(other, c) => other[c] = Theirs(c)
           /\ \A x \in Voxels : c \in Above[x] => Theirs(x) = Theirs(c)
           /\ \A d \in Cells : c \in Above[d] => ~ IsChild(other, d)
<1>1. WellFormed(other) /\ otherBackground \in Values
  BY DEF PairTypeOK
<1>2. c \in Cells /\ \A p \in Parents[c] : IsChild(other, p)
  BY <1>1, MetFacts DEF PairTypeOK
<1>3. /\ Held(other, otherBackground, c) \in Tile
      /\ ActiveIn(other, c) <=> Held(other, otherBackground, c).active
      /\ ActiveIn(other, c) => other[c] = Held(other, otherBackground, c)
      /\ \A x \in Voxels : c \in Above[x] =>
            Held(other, otherBackground, x) = Held(other, otherBackground, c)
  BY <1>1, <1>2, EntryHeld
<1>5. ASSUME NEW d \in Cells, c \in Above[d], IsChild(other, d) PROVE FALSE
  <2>1. c = d \/ c \in Parents[d]
    BY <1>5, Chain
  <2>2. c \in Parents[d] => IsChild(other, c)
    BY <1>1, <1>5 DEF WellFormed, IsChild
  <2> QED
    BY <1>5, <2>1, <2>2
<1> QED
  BY <1>3, <1>5 DEF Theirs

\* Both hold something at every voxel.
LEMMA HeldType ==
    ASSUME PairTypeOK, NEW x \in Voxels
    PROVE  Map[x] \in Tile /\ Theirs(x) \in Tile /\ BackgroundTile \in Tile
<1>1. WellFormed(tree) /\ mBackground \in Values /\ WellFormed(other) /\ otherBackground \in Values
      /\ x \in Cells
  BY DEF PairTypeOK, Voxels
<1>2. Map[x] \in Tile
  BY <1>1, StoredType DEF Map, Contents
<1>3. Theirs(x) \in Tile
  <2>1. CASE \E d \in Above[x] : IsTile(other, d)
    <3>1. PICK d \in Above[x] : IsTile(other, d)
      BY <2>1
    <3>2. Theirs(x) = other[d]
      BY <1>1, <3>1, OneTile, HeldTile DEF Theirs
    <3> QED
      BY <1>1, <3>1, <3>2, Shape DEF IsTile
  <2>2. CASE \A d \in Above[x] : ~ IsTile(other, d)
    <3>1. Theirs(x) = Off(otherBackground)
      BY <2>2, HeldNone DEF Theirs
    <3> QED
      BY <1>1, <3>1, OpsTyped
  <2> QED
    BY <2>1, <2>2
<1> QED
  BY <1>1, <1>2, <1>3, BackgroundTyped

\* A voxel that neither tree has a key for is background in both.
LEMMA NoKey ==
    ASSUME PairTypeOK, NEW x \in Voxels,
           KeyOf[x] \notin DOMAIN tree, KeyOf[x] \notin DOMAIN other
    PROVE  Map[x] = BackgroundTile /\ Theirs(x) = Off(otherBackground)
<1>1. WellFormed(tree) /\ WellFormed(other) /\ x \in Cells
  BY DEF PairTypeOK, Voxels
<1>2. ASSUME NEW d \in Above[x] PROVE d \notin DOMAIN tree /\ d \notin DOMAIN other
  <2>1. d \in Cells /\ KeyOf[d] \in Above[x] /\ Level[KeyOf[d]] = RootLevel
    BY <1>1, KeyFacts, Chain
  <2>2. KeyOf[d] = KeyOf[x]
    BY <1>1, <2>1, KeyFacts
  <2> QED
    BY <1>1, <2>2, KeyThere
<1> QED
  BY <1>2 DEF IsTile, Map, Contents, Stored, Theirs, Held

\* The tiles of a branch changed by f, as all conversions do.
MapTiles(B, f) == [d \in DOMAIN B |-> IF B[d] = Child THEN Child ELSE f[B[d]]]

LEMMA MapTilesFits ==
    ASSUME NEW c \in Cells, NEW B, Fits(B, c), NEW f \in [Tile -> Tile]
    PROVE  /\ Fits(MapTiles(B, f), c)
           /\ DOMAIN MapTiles(B, f) = DOMAIN B
           /\ \A d \in DOMAIN B : /\ B[d] = Child => MapTiles(B, f)[d] = Child
                                  /\ B[d] # Child => /\ B[d] \in Tile
                                                     /\ MapTiles(B, f)[d] = f[B[d]]
                                                     /\ MapTiles(B, f)[d] \in Tile
<1> DEFINE R == MapTiles(B, f)
<1>1. DOMAIN R = DOMAIN B /\ \A d \in DOMAIN B : R[d] = IF B[d] = Child THEN Child ELSE f[B[d]]
  BY DEF MapTiles
<1> HIDE DEF R
<1>2. \A d \in DOMAIN B : B[d] # Child => B[d] \in Tile
  BY DEF Fits
<1>3. \A d \in DOMAIN B : /\ B[d] = Child => R[d] = Child
                          /\ B[d] # Child => R[d] = f[B[d]] /\ R[d] \in Tile
  BY <1>1, <1>2
<1>4. Fits(R, c)
  BY <1>1, <1>3, RetiledFits
<1> QED
  BY <1>1, <1>2, <1>3, <1>4 DEF R

LEMMA MapTilesTwice ==
    ASSUME NEW c \in Cells, NEW B, Fits(B, c), NEW f \in [Tile -> Tile], NEW g \in [Tile -> Tile]
    PROVE  MapTiles(MapTiles(B, f), g) = MapTiles(B, [t \in Tile |-> g[f[t]]])
<1> DEFINE R == MapTiles(B, f)
           h == [t \in Tile |-> g[f[t]]]
<1>1. /\ DOMAIN R = DOMAIN B
      /\ \A d \in DOMAIN B : /\ B[d] = Child => R[d] = Child
                             /\ B[d] # Child => B[d] \in Tile /\ R[d] = f[B[d]] /\ R[d] \in Tile
  BY MapTilesFits
<1> HIDE DEF R
<1>2. \A t \in Tile : h[t] = g[f[t]] /\ t # Child
  BY ContentsTyped
<1> HIDE DEF h
<1>3. \A d \in DOMAIN B : (IF R[d] = Child THEN Child ELSE g[R[d]])
                            = IF B[d] = Child THEN Child ELSE h[B[d]]
  BY <1>1, <1>2
<1>4. MapTiles(R, g) = MapTiles(B, h)
  BY <1>1, <1>3 DEF MapTiles
<1> QED
  BY <1>4 DEF R, h

\* The values replaced by v, and everything made active.
Valued(v) == [t \in Tile |-> [value |-> v, active |-> t.active]]
TurnedOn  == [t \in Tile |-> [value |-> t.value, active |-> TRUE]]

LEMMA ConversionsTyped ==
    /\ \A v \in Values : Valued(v) \in [Tile -> Tile]
    /\ TurnedOn \in [Tile -> Tile]
<1>1. \A t \in Tile : t.value \in Values /\ t.active \in BOOLEAN
  BY TileFacts, ContentsTyped
<1> QED
  BY <1>1, TypedTiles DEF Valued, TurnedOn

LEMMA CopyMaps ==
    ASSUME NEW c \in Cells, NEW B, Fits(B, c), NEW v \in Values
    PROVE  TopologyCopy(B, v) = MapTiles(B, Valued(v))
<1>1. \A d \in DOMAIN B : B[d] # Child => B[d] \in Tile
  BY DEF Fits
<1>2. \A t \in Tile : Valued(v)[t] = [t EXCEPT !.value = v]
  BY TileFacts DEF Valued
<1>3. \A d \in DOMAIN B : (IF B[d] = Child THEN Child ELSE [B[d] EXCEPT !.value = v])
                            = IF B[d] = Child THEN Child ELSE Valued(v)[B[d]]
  BY <1>1, <1>2
<1> QED
  BY <1>3 DEF TopologyCopy, Retiled, MapTiles

LEMMA ActivatedMaps ==
    ASSUME NEW c \in Cells, NEW B, Fits(B, c)
    PROVE  Activated(B) = MapTiles(B, TurnedOn)
<1>1. \A d \in DOMAIN B : B[d] # Child => B[d] \in Tile
  BY DEF Fits
<1>2. \A t \in Tile : TurnedOn[t] = [t EXCEPT !.active = TRUE]
  BY TileFacts, ContentsTyped DEF TurnedOn
<1>3. \A d \in DOMAIN B : (IF B[d] = Child THEN Child ELSE [B[d] EXCEPT !.active = TRUE])
                            = IF B[d] = Child THEN Child ELSE TurnedOn[B[d]]
  BY <1>1, <1>2
<1> QED
  BY <1>3 DEF Activated, Retiled, MapTiles

\* A node of either tree whose tiles are changed by f.
LEMMA NodeMapped ==
    ASSUME NEW T, WellFormed(T), NEW c \in Cells, \A p \in Parents[c] : IsChild(T, p),
           IsChild(T, c), NEW f \in [Tile -> Tile]
    PROVE  /\ Fits(MapTiles(Branch(T, c), f), c)
           /\ \A d \in Cells : IsChild(MapTiles(Branch(T, c), f), d)
                                 <=> c \in Above[d] /\ IsChild(T, d)
           /\ \A d \in Cells : c \in Above[d] =>
                 (d \in DOMAIN MapTiles(Branch(T, c), f) <=> d \in DOMAIN T)
           /\ \A x \in Voxels : c \in Above[x] =>
                 \A b, e \in Values :
                    Held(MapTiles(Branch(T, c), f), b, x) = f[Held(T, e, x)]
<1> DEFINE B == Branch(T, c)
           R == MapTiles(B, f)
<1>1. Fits(B, c)
  BY BranchFits
<1>2. /\ DOMAIN R = DOMAIN B
      /\ \A d \in DOMAIN B : /\ B[d] = Child => R[d] = Child
                             /\ B[d] # Child => B[d] \in Tile /\ R[d] = f[B[d]] /\ R[d] \in Tile
  BY <1>1, MapTilesFits
<1> HIDE DEF R
<1>3. /\ Fits(R, c)
      /\ \A d \in Cells : IsChild(R, d) <=> c \in Above[d] /\ IsChild(T, d)
      /\ \A d \in Cells : c \in Above[d] => (d \in DOMAIN R <=> d \in DOMAIN T)
      /\ \A x \in Voxels : c \in Above[x] =>
            \E d \in DOMAIN B :
               /\ B[d] \in Tile
               /\ \A b \in Values : Held(T, b, x) = B[d] /\ Held(R, b, x) = R[d]
  BY <1>2, NodeRetiled
<1> HIDE DEF B
<1>4. ASSUME NEW x \in Voxels, c \in Above[x], NEW b \in Values, NEW e \in Values
      PROVE  Held(R, b, x) = f[Held(T, e, x)]
  <2>1. PICK d \in DOMAIN B : /\ B[d] \in Tile
                              /\ \A a \in Values : Held(T, a, x) = B[d] /\ Held(R, a, x) = R[d]
    BY <1>3, <1>4
  <2> QED
    BY <1>2, <1>4, <2>1, ContentsTyped
<1> QED
  BY <1>3, <1>4 DEF R, B

-------------------------------------------------------------------------------
(* topologyUnion(), topologyIntersection() and topologyDifference().       *)

\* What topologyUnion() does where the descent ends.
UnionAt(T, S, preserveTiles, c) ==
    IF IsChild(S, c)
    THEN IF ActiveIn(T, c) /\ preserveTiles THEN Branch(T, c) ELSE Densified(T, S, c)
    ELSE IF ActiveIn(S, c)
    THEN IF IsChild(T, c) THEN Activated(Branch(T, c))
         ELSE OneTileAt(c, [Stored(T, c) EXCEPT !.active = TRUE])
    ELSE Branch(T, c)

\* It fits, every voxel is active if it is in one of the trees, and the nodes of
\* both are there unless a tile is preserved.
LEMMA UnionEnd ==
    ASSUME PairTypeOK, NEW preserve \in BOOLEAN, NEW c \in Met(tree, other)
    PROVE  /\ Fits(UnionAt(tree, other, preserve, c), c)
           /\ \A x \in Voxels : c \in Above[x] =>
                 Held(UnionAt(tree, other, preserve, c), mBackground, x)
                    = [value |-> Map[x].value, active |-> Map[x].active \/ Theirs(x).active]
           /\ \A d \in Cells : IsChild(UnionAt(tree, other, preserve, c), d) <=>
                 /\ c \in Above[d]
                 /\ IF ActiveIn(tree, c) /\ preserve THEN FALSE
                    ELSE IsChild(tree, d) \/ IsChild(other, d)
<1> DEFINE R == UnionAt(tree, other, preserve, c)
<1>1. WellFormed(tree) /\ WellFormed(other) /\ mBackground \in Values /\ otherBackground \in Values
  BY DEF PairTypeOK
<1>2. /\ c \in Cells /\ ~ (IsChild(tree, c) /\ IsChild(other, c))
      /\ \A p \in Parents[c] : IsChild(tree, p) /\ IsChild(other, p)
      /\ Fits(Branch(tree, c), c)
      /\ \A d \in Cells : IsChild(Branch(tree, c), d) <=> c \in Above[d] /\ IsChild(tree, d)
      /\ \A x \in Voxels : c \in Above[x] => Held(Branch(tree, c), mBackground, x) = Map[x]
  BY EndFacts
<1>3. \A x \in Voxels : Map[x] \in Tile /\ Theirs(x) \in Tile
  BY HeldType
<1>4. \A t \in Tile : /\ t = [value |-> t.value, active |-> t.active]
                      /\ t.value \in Values /\ t.active \in BOOLEAN
                      /\ [t EXCEPT !.active = TRUE] = [value |-> t.value, active |-> TRUE]
                      /\ [value |-> t.value, active |-> TRUE] \in Tile
  BY TileFacts, TypedTiles, ContentsTyped
<1>5. CASE IsChild(other, c)
  <2>1. /\ Stored(tree, c) \in Tile
        /\ ActiveIn(tree, c) <=> Stored(tree, c).active
        /\ ActiveIn(tree, c) => tree[c] = Stored(tree, c)
        /\ \A x \in Voxels : c \in Above[x] => Map[x] = Stored(tree, c)
        /\ \A d \in Cells : c \in Above[d] => ~ IsChild(tree, d)
    BY <1>2, <1>5, TileOfTree
  <2>2. CASE ActiveIn(tree, c) /\ preserve
    <3>1. R = Branch(tree, c)
      BY <1>5, <2>2 DEF UnionAt
    <3>2. \A x \in Voxels : c \in Above[x] => Map[x].active
      BY <2>1, <2>2
    <3>3. \A x \in Voxels : c \in Above[x] =>
             Map[x] = [value |-> Map[x].value, active |-> Map[x].active \/ Theirs(x).active]
      BY <1>3, <1>4, <3>2
    <3> QED
      BY <1>2, <2>1, <2>2, <3>1, <3>3
  <2>3. CASE ~ (ActiveIn(tree, c) /\ preserve)
    <3> DEFINE v == Stored(tree, c).value
               f == Valued(v)
               g == IF ActiveIn(tree, c) THEN [t \in Tile |-> TurnedOn[f[t]]] ELSE f
    <3>1. v \in Values /\ Stored(tree, c).active \in BOOLEAN
      BY <1>4, <2>1
    <3>2. f \in [Tile -> Tile] /\ g \in [Tile -> Tile]
      BY <3>1, ConversionsTyped
    <3>3. Fits(Branch(other, c), c)
      BY <1>1, <1>2, BranchFits
    <3>4. TopologyCopy(Branch(other, c), v) = MapTiles(Branch(other, c), f)
      BY <1>2, <3>1, <3>3, CopyMaps
    <3>5. Fits(MapTiles(Branch(other, c), f), c)
      BY <1>2, <3>2, <3>3, MapTilesFits
    <3>6. Activated(MapTiles(Branch(other, c), f)) = MapTiles(MapTiles(Branch(other, c), f), TurnedOn)
      BY <1>2, <3>5, ActivatedMaps
    <3>7. MapTiles(MapTiles(Branch(other, c), f), TurnedOn)
             = MapTiles(Branch(other, c), [t \in Tile |-> TurnedOn[f[t]]])
      BY <1>2, <3>2, <3>3, ConversionsTyped, MapTilesTwice
    <3>8. R = IF ActiveIn(tree, c) THEN Activated(TopologyCopy(Branch(other, c), v))
              ELSE TopologyCopy(Branch(other, c), v)
      BY <1>5, <2>1, <2>3 DEF UnionAt, Densified
    <3>9. R = MapTiles(Branch(other, c), g)
      BY <3>4, <3>6, <3>7, <3>8
    <3> HIDE DEF g
    <3>10. /\ Fits(R, c)
           /\ \A d \in Cells : IsChild(R, d) <=> c \in Above[d] /\ IsChild(other, d)
           /\ \A x \in Voxels : c \in Above[x] =>
                 \A b, e \in Values : Held(R, b, x) = g[Held(other, e, x)]
      BY <1>1, <1>2, <1>5, <3>2, <3>9, NodeMapped
    <3>11. ASSUME NEW t \in Tile
           PROVE  g[t] = [value |-> v, active |-> Stored(tree, c).active \/ t.active]
      <4>1. t.active \in BOOLEAN /\ f[t] = [value |-> v, active |-> t.active] /\ f[t] \in Tile
        BY <1>4, <3>2 DEF Valued
      <4>2. CASE ActiveIn(tree, c)
        <5>1. g[t] = TurnedOn[f[t]]
          BY <4>2 DEF g
        <5>2. TurnedOn[f[t]] = [value |-> f[t].value, active |-> TRUE]
          BY <4>1 DEF TurnedOn
        <5>3. f[t].value = v /\ (Stored(tree, c).active \/ t.active) = TRUE
          BY <2>1, <4>1, <4>2
        <5> QED
          BY <5>1, <5>2, <5>3
      <4>3. CASE ~ ActiveIn(tree, c)
        <5>1. (Stored(tree, c).active \/ t.active) = t.active
          BY <2>1, <4>1, <4>3
        <5> QED
          BY <4>1, <4>3, <5>1 DEF g
      <4> QED
        BY <4>2, <4>3
    <3>12. ASSUME NEW x \in Voxels, c \in Above[x]
           PROVE  Held(R, mBackground, x)
                    = [value |-> Map[x].value, active |-> Map[x].active \/ Theirs(x).active]
      <4>1. Held(R, mBackground, x) = g[Theirs(x)] /\ Map[x] = Stored(tree, c)
        BY <1>1, <2>1, <3>10, <3>12 DEF Theirs
      <4> QED
        BY <1>3, <3>11, <4>1
    <3> QED
      BY <2>1, <2>3, <3>10, <3>12
  <2> QED
    BY <2>2, <2>3
<1>6. CASE ~ IsChild(other, c)
  <2>1. /\ Theirs(c) \in Tile
        /\ ActiveIn(other, c) <=> Theirs(c).active
        /\ \A x \in Voxels : c \in Above[x] => Theirs(x) = Theirs(c)
        /\ \A d \in Cells : c \in Above[d] => ~ IsChild(other, d)
    BY <1>6, TileOfOther
  <2>2. ~ IsChild(tree, c) => \A d \in Cells : c \in Above[d] => ~ IsChild(tree, d)
    BY TileOfTree
  <2>3. ActiveIn(tree, c) => ~ IsChild(tree, c)
    BY DEF ActiveIn, IsTile, IsChild
  <2>4. CASE ~ ActiveIn(other, c)
    <3>1. R = Branch(tree, c)
      BY <1>6, <2>4 DEF UnionAt
    <3>2. \A x \in Voxels : c \in Above[x] => Theirs(x).active = FALSE
      BY <1>4, <2>1, <2>4
    <3>3. \A x \in Voxels : c \in Above[x] =>
             Map[x] = [value |-> Map[x].value, active |-> Map[x].active \/ Theirs(x).active]
      BY <1>3, <1>4, <3>2
    <3> QED
      BY <1>2, <2>1, <2>2, <2>3, <3>1, <3>3
  <2>5. CASE ActiveIn(other, c) /\ IsChild(tree, c)
    <3>1. R = Activated(Branch(tree, c))
      BY <1>6, <2>5 DEF UnionAt
    <3>2. R = MapTiles(Branch(tree, c), TurnedOn)
      BY <1>2, <3>1, ActivatedMaps
    <3>5. /\ Fits(R, c)
          /\ \A d \in Cells : IsChild(R, d) <=> c \in Above[d] /\ IsChild(tree, d)
          /\ \A x \in Voxels : c \in Above[x] =>
                \A b, e \in Values : Held(R, b, x) = TurnedOn[Held(tree, e, x)]
      BY <1>1, <1>2, <2>5, <3>2, ConversionsTyped, NodeMapped
    <3>6. ASSUME NEW x \in Voxels, c \in Above[x]
          PROVE  Held(R, mBackground, x)
                   = [value |-> Map[x].value, active |-> Map[x].active \/ Theirs(x).active]
      <4>1. Map[x] = Held(tree, mBackground, x)
        BY DEF Map, Contents, Stored, Held, BackgroundTile
      <4>2. Held(R, mBackground, x) = TurnedOn[Map[x]]
        BY <1>1, <3>5, <3>6, <4>1
      <4>3. Theirs(x).active
        BY <2>1, <2>5, <3>6
      <4>4. (Map[x].active \/ Theirs(x).active) = TRUE
        BY <4>3
      <4> QED
        BY <1>3, <4>2, <4>4 DEF TurnedOn
    <3> QED
      BY <2>1, <2>3, <2>5, <3>5, <3>6
  <2>6. CASE ActiveIn(other, c) /\ ~ IsChild(tree, c)
    <3> DEFINE t == [value |-> Stored(tree, c).value, active |-> TRUE]
    <3>1. /\ Stored(tree, c) \in Tile
          /\ \A x \in Voxels : c \in Above[x] => Map[x] = Stored(tree, c)
      BY <2>6, TileOfTree
    <3>2. R = OneTileAt(c, t)
      BY <1>4, <1>6, <2>6, <3>1 DEF UnionAt
    <3>3. t \in Tile
      BY <1>4, <3>1
    <3>4. \A x \in Voxels : c \in Above[x] => (Map[x].active \/ Theirs(x).active) = TRUE
      BY <2>1, <2>6
    <3> HIDE DEF t
    <3>5. /\ Fits(OneTileAt(c, t), c)
          /\ \A x \in Voxels : c \in Above[x] => Held(OneTileAt(c, t), mBackground, x) = t
          /\ DOMAIN OneTileAt(c, t) = {c} /\ OneTileAt(c, t)[c] = t
      BY <1>1, <1>2, <3>3, TileAtFits
    <3>6. \A d \in Cells : ~ IsChild(OneTileAt(c, t), d)
      BY <3>3, <3>5, ContentsTyped DEF IsChild
    <3>7. \A x \in Voxels : c \in Above[x] =>
             t = [value |-> Map[x].value, active |-> Map[x].active \/ Theirs(x).active]
      BY <3>1, <3>4 DEF t
    <3> QED
      BY <2>1, <2>2, <2>6, <3>2, <3>5, <3>6, <3>7
  <2> QED
    BY <2>4, <2>5, <2>6
<1> QED
  BY <1>5, <1>6

\* What topologyIntersection() does where the descent ends.
IntersectionAt(T, S, c) ==
    IF IsChild(T, c) THEN IF ActiveIn(S, c) THEN Branch(T, c) ELSE Deleted(c)
    ELSE IF ActiveIn(T, c)
    THEN IF IsChild(S, c) THEN TopologyCopy(Branch(S, c), T[c].value)
         ELSE OneTileAt(c, [T[c] EXCEPT !.active = ActiveIn(S, c)])
    ELSE Branch(T, c)

\* A voxel that a node stores, where not both trees have a node.
LEMMA StoredVoxel ==
    ASSUME PairTypeOK, NEW c \in Met(tree, other), NEW x \in Voxels, c \in Above[x],
           x \in DOMAIN tree \/ x \in DOMAIN other
    PROVE  /\ IsChild(tree, c) => x \in DOMAIN tree
           /\ IsChild(other, c) => x \in DOMAIN other
           /\ ~ IsChild(tree, c) /\ ~ IsChild(other, c) => x = c
<1>1. WellFormed(tree) /\ WellFormed(other) /\ x \in Cells /\ Level[x] = 0
  BY DEF PairTypeOK, Voxels
<1>2. ~ (IsChild(tree, c) /\ IsChild(other, c))
  BY EndFacts
<1>3. ~ IsChild(tree, x) /\ ~ IsChild(other, x)
  <2>1. \A T \in {tree, other} : WellFormed(T)
    BY <1>1
  <2>2. ~ (Level[x] > 0)
    BY <1>1
  <2> QED
    BY <1>1, <2>2 DEF WellFormed, IsChild
<1>4. x = c \/ c \in Parents[x]
  BY <1>1, Chain
<1>5. c \in Parents[x] => /\ x \in DOMAIN tree => IsChild(tree, c)
                          /\ x \in DOMAIN other => IsChild(other, c)
  BY <1>1 DEF WellFormed
<1> QED
  BY <1>2, <1>3, <1>4, <1>5

\* It fits, a voxel is active if it is in both trees, it keeps its value or becomes
\* background, and if it is stored and active it stays stored.
LEMMA IntersectionEnd ==
    ASSUME PairTypeOK, NEW c \in Met(tree, other)
    PROVE  /\ Fits(IntersectionAt(tree, other, c), c)
           /\ \A x \in Voxels : c \in Above[x] =>
                 LET held == Held(IntersectionAt(tree, other, c), mBackground, x)
                 IN  /\ held.active = (Map[x].active /\ Theirs(x).active)
                     /\ held.value = Map[x].value \/ held = BackgroundTile
                     /\ (x \in DOMAIN tree \/ x \in DOMAIN other)
                           /\ Map[x].active /\ Theirs(x).active
                              => x \in DOMAIN IntersectionAt(tree, other, c)
<1> DEFINE R == IntersectionAt(tree, other, c)
           held(x) == Held(R, mBackground, x)
           stored(x) == x \in DOMAIN tree \/ x \in DOMAIN other
           meets(x) == /\ held(x).active = (Map[x].active /\ Theirs(x).active)
                       /\ held(x).value = Map[x].value \/ held(x) = BackgroundTile
                       /\ stored(x) /\ Map[x].active /\ Theirs(x).active => x \in DOMAIN R
<1>1. WellFormed(tree) /\ WellFormed(other) /\ mBackground \in Values /\ otherBackground \in Values
  BY DEF PairTypeOK
<1>2. /\ c \in Cells /\ ~ (IsChild(tree, c) /\ IsChild(other, c))
      /\ \A p \in Parents[c] : IsChild(tree, p) /\ IsChild(other, p)
      /\ Fits(Branch(tree, c), c)
      /\ \A d \in Cells : c \in Above[d] =>
            (d \in DOMAIN Branch(tree, c) <=> d \in DOMAIN tree)
      /\ \A x \in Voxels : c \in Above[x] => Held(Branch(tree, c), mBackground, x) = Map[x]
  BY EndFacts
<1>3. \A x \in Voxels : Map[x] \in Tile /\ Theirs(x) \in Tile /\ x \in Cells
  BY HeldType DEF Voxels
<1>4. \A t \in Tile : t.value \in Values /\ t.active \in BOOLEAN
  BY TileFacts, ContentsTyped
<1>5. CASE IsChild(tree, c)
  <2>1. /\ ActiveIn(other, c) <=> Theirs(c).active
        /\ \A x \in Voxels : c \in Above[x] => Theirs(x) = Theirs(c)
    BY <1>2, <1>5, TileOfOther
  <2>2. CASE ActiveIn(other, c)
    <3>1. R = Branch(tree, c)
      BY <1>5, <2>2 DEF IntersectionAt
    <3>2. ASSUME NEW x \in Voxels, c \in Above[x] PROVE meets(x)
      <4>1. held(x) = Map[x] /\ Theirs(x).active /\ (Map[x].active \in BOOLEAN)
        BY <1>2, <1>3, <1>4, <2>1, <2>2, <3>1, <3>2
      <4>2. stored(x) => x \in DOMAIN R
        BY <1>2, <1>3, <1>5, <3>1, <3>2, StoredVoxel
      <4> QED
        BY <4>1, <4>2
    <3> QED
      BY <1>2, <3>1, <3>2
  <2>3. CASE ~ ActiveIn(other, c)
    <3>1. R = Deleted(c)
      BY <1>5, <2>3 DEF IntersectionAt
    <3>2. Fits(R, c) /\ \A x \in Voxels : c \in Above[x] => held(x) = BackgroundTile
      BY <1>1, <1>2, <3>1, DeletedFits
    <3>3. BackgroundTile.active = FALSE
      BY DEF BackgroundTile, Off
    <3>4. ASSUME NEW x \in Voxels, c \in Above[x] PROVE meets(x)
      <4>1. held(x) = BackgroundTile /\ ~ Theirs(x).active
        BY <2>1, <2>3, <3>2, <3>4
      <4> QED
        BY <3>3, <4>1
    <3> QED
      BY <3>2, <3>4
  <2> QED
    BY <2>2, <2>3
<1>6. CASE ~ IsChild(tree, c)
  <2>1. /\ Stored(tree, c) \in Tile
        /\ ActiveIn(tree, c) <=> Stored(tree, c).active
        /\ ActiveIn(tree, c) => tree[c] = Stored(tree, c)
        /\ \A x \in Voxels : c \in Above[x] => Map[x] = Stored(tree, c)
    BY <1>6, TileOfTree
  <2>2. CASE ~ ActiveIn(tree, c)
    <3>1. R = Branch(tree, c)
      BY <1>6, <2>2 DEF IntersectionAt
    <3>2. ASSUME NEW x \in Voxels, c \in Above[x] PROVE meets(x)
      <4>1. held(x) = Map[x] /\ Map[x].active = FALSE
        BY <1>2, <1>3, <1>4, <2>1, <2>2, <3>1, <3>2
      <4> QED
        BY <4>1
    <3> QED
      BY <1>2, <3>1, <3>2
  <2>3. CASE ActiveIn(tree, c) /\ IsChild(other, c)
    <3> DEFINE v == tree[c].value
    <3>1. v \in Values /\ v = Stored(tree, c).value
      BY <1>4, <2>1, <2>3
    <3>2. R = TopologyCopy(Branch(other, c), v)
      BY <1>6, <2>3 DEF IntersectionAt
    <3>3. Fits(Branch(other, c), c)
      BY <1>1, <1>2, BranchFits
    <3> HIDE DEF v
    <3>4. R = MapTiles(Branch(other, c), Valued(v)) /\ Valued(v) \in [Tile -> Tile]
      BY <1>2, <3>1, <3>2, <3>3, CopyMaps, ConversionsTyped
    <3>5. /\ Fits(R, c)
          /\ \A d \in Cells : c \in Above[d] => (d \in DOMAIN R <=> d \in DOMAIN other)
          /\ \A x \in Voxels : c \in Above[x] =>
                \A b, e \in Values : Held(R, b, x) = Valued(v)[Held(other, e, x)]
      BY <1>1, <1>2, <2>3, <3>4, NodeMapped
    <3>6. ASSUME NEW x \in Voxels, c \in Above[x] PROVE meets(x)
      <4>1. held(x) = Valued(v)[Theirs(x)] /\ Map[x] = Stored(tree, c)
        BY <1>1, <2>1, <3>5, <3>6 DEF Theirs
      <4>2. held(x) = [value |-> v, active |-> Theirs(x).active]
        BY <1>3, <4>1 DEF Valued
      <4>3. held(x).value = Map[x].value /\ held(x).active = Theirs(x).active
            /\ Map[x].active /\ Theirs(x).active \in BOOLEAN
        BY <1>3, <1>4, <2>1, <2>3, <3>1, <4>1, <4>2
      <4>4. stored(x) => x \in DOMAIN R
        BY <1>3, <2>3, <3>5, <3>6, StoredVoxel
      <4> QED
        BY <4>3, <4>4
    <3> QED
      BY <3>5, <3>6
  <2>4. CASE ActiveIn(tree, c) /\ ~ IsChild(other, c)
    <3> DEFINE on == ActiveIn(other, c)
               t == [tree[c] EXCEPT !.active = on]
    <3>1. /\ ActiveIn(other, c) <=> Theirs(c).active
          /\ \A x \in Voxels : c \in Above[x] => Theirs(x) = Theirs(c)
      BY <2>4, TileOfOther
    <3>2. on \in BOOLEAN
      BY DEF ActiveIn
    <3>3. R = OneTileAt(c, t)
      BY <1>6, <2>4 DEF IntersectionAt
    <3>4. t = [value |-> Stored(tree, c).value, active |-> on]
      <4>1. Stored(tree, c) \in Tile /\ tree[c] = Stored(tree, c)
        BY <2>1, <2>4
      <4> HIDE DEF on
      <4> QED
        BY <3>2, <4>1 DEF Tile
    <3>5. t \in Tile
      BY <1>4, <2>1, <3>2, <3>4, TypedTiles
    <3> HIDE DEF t, on
    <3>6. /\ Fits(R, c)
          /\ \A x \in Voxels : c \in Above[x] => held(x) = t
          /\ DOMAIN R = {c}
      <4>1. /\ Fits(OneTileAt(c, t), c)
            /\ \A x \in Voxels : c \in Above[x] => Held(OneTileAt(c, t), mBackground, x) = t
            /\ DOMAIN OneTileAt(c, t) = {c}
        BY <1>1, <1>2, <3>5, TileAtFits
      <4> QED
        BY <3>3, <4>1
    <3>7. ASSUME NEW x \in Voxels, c \in Above[x] PROVE meets(x)
      <4>1. held(x) = t /\ Map[x] = Stored(tree, c) /\ Theirs(x) = Theirs(c)
        BY <2>1, <3>1, <3>6, <3>7
      <4>2. t.value = Stored(tree, c).value /\ t.active = on
        BY <3>4
      <4>3. Theirs(c).active \in BOOLEAN
        BY <1>3, <1>4, <4>1
      <4>4. t.active = Theirs(c).active /\ Map[x].active
        BY <2>1, <2>4, <3>1, <3>2, <4>1, <4>2, <4>3 DEF on
      <4>5. stored(x) => x \in DOMAIN R
        BY <1>6, <2>4, <3>6, <3>7, StoredVoxel
      <4> QED
        BY <4>1, <4>2, <4>3, <4>4, <4>5
    <3> QED
      BY <3>6, <3>7
  <2> QED
    BY <2>2, <2>3, <2>4
<1> QED
  BY <1>5, <1>6

\* What topologyDifference() does where the descent ends.
DifferenceAt(T, S, c) ==
    IF IsChild(T, c) THEN IF ActiveIn(S, c) THEN Deleted(c) ELSE Branch(T, c)
    ELSE IF ActiveIn(T, c) /\ IsChild(S, c)
    THEN Retiled(Branch(S, c), LAMBDA t : [value |-> T[c].value, active |-> ~ t.active])
    ELSE IF ActiveIn(T, c) /\ ActiveIn(S, c)
    THEN OneTileAt(c, Off(T[c].value))
    ELSE Branch(T, c)

\* The values replaced by v, and the states turned around.
Turned(v) == [t \in Tile |-> [value |-> v, active |-> ~ t.active]]

\* It fits, a voxel is active if it is in this tree only, and it keeps its value or
\* becomes background.
LEMMA DifferenceEnd ==
    ASSUME PairTypeOK, NEW c \in Met(tree, other)
    PROVE  /\ Fits(DifferenceAt(tree, other, c), c)
           /\ \A x \in Voxels : c \in Above[x] =>
                 LET held == Held(DifferenceAt(tree, other, c), mBackground, x)
                 IN  /\ held.active = (Map[x].active /\ ~ Theirs(x).active)
                     /\ held.value = Map[x].value \/ held = BackgroundTile
<1> DEFINE R == DifferenceAt(tree, other, c)
           held(x) == Held(R, mBackground, x)
           meets(x) == /\ held(x).active = (Map[x].active /\ ~ Theirs(x).active)
                       /\ held(x).value = Map[x].value \/ held(x) = BackgroundTile
<1>1. WellFormed(tree) /\ WellFormed(other) /\ mBackground \in Values /\ otherBackground \in Values
  BY DEF PairTypeOK
<1>2. /\ c \in Cells /\ ~ (IsChild(tree, c) /\ IsChild(other, c))
      /\ \A p \in Parents[c] : IsChild(tree, p) /\ IsChild(other, p)
      /\ Fits(Branch(tree, c), c)
      /\ \A x \in Voxels : c \in Above[x] => Held(Branch(tree, c), mBackground, x) = Map[x]
  BY EndFacts
<1>3. \A x \in Voxels : Map[x] \in Tile /\ Theirs(x) \in Tile
  BY HeldType
<1>4. \A t \in Tile : t.value \in Values /\ t.active \in BOOLEAN
  BY TileFacts, ContentsTyped
<1>5. ~ IsChild(other, c) =>
         /\ ActiveIn(other, c) <=> Theirs(c).active
         /\ \A x \in Voxels : c \in Above[x] => Theirs(x) = Theirs(c)
  BY TileOfOther
<1>6. ~ IsChild(tree, c) =>
         /\ Stored(tree, c) \in Tile
         /\ ActiveIn(tree, c) <=> Stored(tree, c).active
         /\ ActiveIn(tree, c) => tree[c] = Stored(tree, c)
         /\ \A x \in Voxels : c \in Above[x] => Map[x] = Stored(tree, c)
  BY TileOfTree
<1>7. CASE R = Branch(tree, c) /\ ((~ IsChild(other, c) /\ ~ ActiveIn(other, c))
                                   \/ (~ IsChild(tree, c) /\ ~ ActiveIn(tree, c)))
  <2>1. ASSUME NEW x \in Voxels, c \in Above[x] PROVE meets(x)
    <3>1. held(x) = Map[x] /\ Map[x].active \in BOOLEAN /\ Theirs(x).active \in BOOLEAN
      BY <1>2, <1>3, <1>4, <1>7, <2>1
    <3>2. Theirs(x).active = FALSE \/ Map[x].active = FALSE
      BY <1>5, <1>6, <1>7, <2>1, <3>1
    <3> QED
      BY <3>1, <3>2
  <2> QED
    BY <1>2, <1>7, <2>1
<1>8. CASE IsChild(tree, c) /\ ActiveIn(other, c)
  <2>1. R = Deleted(c)
    BY <1>8 DEF DifferenceAt
  <2>2. Fits(R, c) /\ \A x \in Voxels : c \in Above[x] => held(x) = BackgroundTile
    BY <1>1, <1>2, <2>1, DeletedFits
  <2>3. BackgroundTile.active = FALSE
    BY DEF BackgroundTile, Off
  <2>4. ASSUME NEW x \in Voxels, c \in Above[x] PROVE meets(x)
    <3>1. held(x) = BackgroundTile /\ Theirs(x).active
      BY <1>2, <1>5, <1>8, <2>2, <2>4
    <3> QED
      BY <2>3, <3>1
  <2> QED
    BY <2>2, <2>4
<1>9. CASE ~ IsChild(tree, c) /\ ActiveIn(tree, c) /\ IsChild(other, c)
  <2> DEFINE v == tree[c].value
             B == Branch(other, c)
  <2>1. v \in Values /\ v = Stored(tree, c).value
    BY <1>4, <1>6, <1>9
  <2>2. R = Retiled(B, LAMBDA t : [value |-> v, active |-> ~ t.active])
    BY <1>9 DEF DifferenceAt
  <2>3. Fits(B, c)
    BY <1>1, <1>2, BranchFits
  <2>4. Turned(v) \in [Tile -> Tile]
    BY <1>4, <2>1, TypedTiles DEF Turned
  <2>5. R = MapTiles(B, Turned(v))
    <3>1. \A d \in DOMAIN B : B[d] # Child => B[d] \in Tile
      BY <2>3 DEF Fits
    <3>2. \A t \in Tile : Turned(v)[t] = [value |-> v, active |-> ~ t.active]
      BY DEF Turned
    <3>3. R = [d \in DOMAIN B |-> IF B[d] = Child THEN Child
                                  ELSE [value |-> v, active |-> ~ B[d].active]]
      BY <2>2 DEF Retiled
    <3> HIDE DEF B, v, R
    <3> QED
      BY <3>1, <3>2, <3>3 DEF MapTiles
  <2> HIDE DEF v
  <2>6. /\ Fits(R, c)
        /\ \A x \in Voxels : c \in Above[x] =>
              \A b, e \in Values : Held(R, b, x) = Turned(v)[Held(other, e, x)]
    BY <1>1, <1>2, <1>9, <2>4, <2>5, NodeMapped
  <2>7. ASSUME NEW x \in Voxels, c \in Above[x] PROVE meets(x)
    <3>1. held(x) = Turned(v)[Theirs(x)] /\ Map[x] = Stored(tree, c)
      BY <1>1, <1>6, <1>9, <2>6, <2>7 DEF Theirs
    <3>2. held(x) = [value |-> v, active |-> ~ Theirs(x).active]
      BY <1>3, <3>1 DEF Turned
    <3>3. held(x).value = Map[x].value /\ held(x).active = ~ Theirs(x).active
          /\ Map[x].active /\ Theirs(x).active \in BOOLEAN
      BY <1>3, <1>4, <1>6, <1>9, <2>1, <3>1, <3>2
    <3> QED
      BY <3>3
  <2> QED
    BY <2>6, <2>7
<1>10. CASE ~ IsChild(tree, c) /\ ActiveIn(tree, c) /\ ~ IsChild(other, c) /\ ActiveIn(other, c)
  <2> DEFINE t == Off(tree[c].value)
  <2>1. R = OneTileAt(c, t)
    BY <1>10 DEF DifferenceAt
  <2>2. t \in Tile /\ t.value = Stored(tree, c).value /\ t.active = FALSE
    BY <1>4, <1>6, <1>10, TypedTiles DEF Off
  <2> HIDE DEF t
  <2>3. /\ Fits(OneTileAt(c, t), c)
        /\ \A x \in Voxels : c \in Above[x] => Held(OneTileAt(c, t), mBackground, x) = t
    <3>1. t \in Tile /\ c \in Cells /\ mBackground \in Values
      BY <1>1, <1>2, <2>2
    <3>2. Fits(OneTileAt(c, t), c)
      BY <3>1, TileAtFits
    <3>3. \A x \in Voxels, b \in Values : c \in Above[x] => Held(OneTileAt(c, t), b, x) = t
      BY <3>1, TileAtFits
    <3> QED
      BY <3>1, <3>2, <3>3
  <2>4. ASSUME NEW x \in Voxels, c \in Above[x] PROVE meets(x)
    <3>1. held(x) = t /\ Map[x] = Stored(tree, c) /\ Theirs(x).active
      BY <1>5, <1>6, <1>10, <2>1, <2>3, <2>4
    <3> QED
      BY <2>2, <3>1
  <2> QED
    BY <2>1, <2>3, <2>4
<1>11. IsChild(other, c) => ~ ActiveIn(other, c)
  BY DEF IsChild, ActiveIn, IsTile
<1>12. \/ R = Branch(tree, c) /\ ((~ IsChild(other, c) /\ ~ ActiveIn(other, c))
                                  \/ (~ IsChild(tree, c) /\ ~ ActiveIn(tree, c)))
       \/ IsChild(tree, c) /\ ActiveIn(other, c)
       \/ ~ IsChild(tree, c) /\ ActiveIn(tree, c) /\ IsChild(other, c)
       \/ ~ IsChild(tree, c) /\ ActiveIn(tree, c) /\ ~ IsChild(other, c) /\ ActiveIn(other, c)
  BY <1>2, <1>11 DEF DifferenceAt
<1> QED
  BY <1>7, <1>8, <1>9, <1>10, <1>12

\* The three operations leave trees.
LEMMA TopologyShape ==
    ASSUME PairTypeOK
    PROVE  /\ \A preserve \in BOOLEAN : WellFormed(Union(tree, other, preserve))
           /\ WellFormed(Intersection(tree, other))
           /\ WellFormed(Difference(tree, other))
<1>1. WellFormed(tree) /\ WellFormed(other)
  BY DEF PairTypeOK
<1>2. ASSUME NEW preserve \in BOOLEAN PROVE WellFormed(Union(tree, other, preserve))
  <2> DEFINE branch == [c \in Met(tree, other) |-> UnionAt(tree, other, preserve, c)]
  <2>1. DOMAIN branch = Met(tree, other) /\ \A c \in Met(tree, other) : Fits(branch[c], c)
    BY UnionEnd
  <2>2. Union(tree, other, preserve) = Joined(tree, other, branch)
    BY DEF Union, UnionAt
  <2> HIDE DEF branch
  <2> QED
    BY <1>1, <2>1, <2>2, JoinedShape
<1>3. WellFormed(Intersection(tree, other))
  <2> DEFINE branch == [c \in Met(tree, other) |-> IntersectionAt(tree, other, c)]
  <2>1. DOMAIN branch = Met(tree, other) /\ \A c \in Met(tree, other) : Fits(branch[c], c)
    BY IntersectionEnd
  <2>2. Intersection(tree, other) = Joined(tree, other, branch)
    BY DEF Intersection, IntersectionAt
  <2> HIDE DEF branch
  <2> QED
    BY <1>1, <2>1, <2>2, JoinedShape
<1>4. WellFormed(Difference(tree, other))
  <2> DEFINE branch == [c \in Met(tree, other) |-> DifferenceAt(tree, other, c)]
  <2>1. DOMAIN branch = Met(tree, other) /\ \A c \in Met(tree, other) : Fits(branch[c], c)
    BY DifferenceEnd
  <2>2. Difference(tree, other) = Joined(tree, other, branch)
    BY DEF Difference, DifferenceAt
  <2> HIDE DEF branch
  <2> QED
    BY <1>1, <2>1, <2>2, JoinedShape
<1> QED
  BY <1>2, <1>3, <1>4

\* A voxel is below the end of a descent, or neither tree has a key for it.
LEMMA EndAbove ==
    ASSUME PairTypeOK, NEW x \in Voxels
    PROVE  \/ \E c \in Met(tree, other) : c \in Above[x]
           \/ KeyOf[x] \notin DOMAIN tree /\ KeyOf[x] \notin DOMAIN other
<1>1. WellFormed(tree) /\ WellFormed(other) /\ x \in Cells /\ Level[x] = 0
  BY DEF PairTypeOK, Voxels
<1>2. x \notin Both(tree, other)
  BY <1>1, BothFacts
<1> QED
  BY <1>1, <1>2, MetAbove

LEMMA UnionContents ==
    ASSUME PairTypeOK, NEW preserve \in BOOLEAN, NEW x \in Voxels
    PROVE  Stored(Union(tree, other, preserve), x) = [Map[x] EXCEPT !.active = @ \/ Theirs(x).active]
<1> DEFINE branch == [c \in Met(tree, other) |-> UnionAt(tree, other, preserve, c)]
           J == Joined(tree, other, branch)
<1>1. WellFormed(tree) /\ WellFormed(other)
  BY DEF PairTypeOK
<1>2. DOMAIN branch = Met(tree, other) /\ \A c \in Met(tree, other) : Fits(branch[c], c)
  BY UnionEnd
<1>3. \A c \in Met(tree, other) : c \in Above[x] =>
         Held(branch[c], mBackground, x)
            = [value |-> Map[x].value, active |-> Map[x].active \/ Theirs(x).active]
  BY UnionEnd
<1>4. Union(tree, other, preserve) = J
  BY DEF Union, UnionAt
<1> HIDE DEF branch
<1>5. /\ \A c \in Met(tree, other) : c \in Above[x] => Stored(J, x) = Held(branch[c], mBackground, x)
      /\ KeyOf[x] \notin DOMAIN tree /\ KeyOf[x] \notin DOMAIN other => Stored(J, x) = BackgroundTile
  BY <1>1, <1>2, JoinedHeld
<1> HIDE DEF J
<1>6. Stored(J, x) = [value |-> Map[x].value, active |-> Map[x].active \/ Theirs(x).active]
  <2>1. CASE KeyOf[x] \notin DOMAIN tree /\ KeyOf[x] \notin DOMAIN other
    <3>1. Map[x] = BackgroundTile /\ Theirs(x) = Off(otherBackground) /\ Stored(J, x) = BackgroundTile
      BY <1>5, <2>1, NoKey
    <3>2. BackgroundTile = [value |-> mBackground, active |-> FALSE] /\ Theirs(x).active = FALSE
      BY <3>1 DEF BackgroundTile, Off
    <3>3. Map[x].value = mBackground /\ (Map[x].active \/ Theirs(x).active) = FALSE
      BY <3>1, <3>2
    <3> QED
      BY <3>1, <3>2, <3>3
  <2> QED
    BY <1>3, <1>5, <2>1, EndAbove
<1>7. PICK v \in Values, on \in BOOLEAN : Map[x] = [value |-> v, active |-> on]
  BY HeldType DEF Tile
<1>8. Theirs(x).active \in BOOLEAN
  BY HeldType, TileFacts, ContentsTyped
<1>9. ASSUME NEW o \in BOOLEAN
      PROVE [Map[x] EXCEPT !.active = o] = [value |-> v, active |-> o]
  BY <1>7
<1>10. /\ [Map[x] EXCEPT !.active = @ \/ Theirs(x).active]
            = [Map[x] EXCEPT !.active = Map[x].active \/ Theirs(x).active]
       /\ (Map[x].active \/ Theirs(x).active) \in BOOLEAN /\ Map[x].value = v
  BY <1>7, <1>8
<1>11. [Map[x] EXCEPT !.active = Map[x].active \/ Theirs(x).active]
          = [value |-> v, active |-> Map[x].active \/ Theirs(x).active]
  BY <1>9, <1>10
<1> QED
  BY <1>4, <1>6, <1>10, <1>11

LEMMA IntersectionContents ==
    ASSUME PairTypeOK, NEW x \in Voxels
    PROVE  LET held == Stored(Intersection(tree, other), x)
           IN  /\ held.active = (Map[x].active /\ Theirs(x).active)
               /\ held.value = Map[x].value \/ held = BackgroundTile
               /\ x \in DOMAIN tree \union DOMAIN other /\ Map[x].active /\ Theirs(x).active
                     => x \in DOMAIN Intersection(tree, other)
<1> DEFINE branch == [c \in Met(tree, other) |-> IntersectionAt(tree, other, c)]
           J == Joined(tree, other, branch)
           stored == x \in DOMAIN tree \/ x \in DOMAIN other
           both == Map[x].active /\ Theirs(x).active
<1>1. WellFormed(tree) /\ WellFormed(other) /\ x \in Cells
  BY DEF PairTypeOK, Voxels
<1>2. DOMAIN branch = Met(tree, other) /\ \A c \in Met(tree, other) : Fits(branch[c], c)
  BY IntersectionEnd
<1>3. ASSUME NEW c \in Met(tree, other), c \in Above[x]
      PROVE  /\ Held(branch[c], mBackground, x).active = both
             /\ \/ Held(branch[c], mBackground, x).value = Map[x].value
                \/ Held(branch[c], mBackground, x) = BackgroundTile
             /\ stored /\ both => x \in DOMAIN branch[c]
  BY <1>3, IntersectionEnd
<1>4. Intersection(tree, other) = J
  BY DEF Intersection, IntersectionAt
<1> HIDE DEF branch
<1>5. /\ \A c \in Met(tree, other) : c \in Above[x] => Stored(J, x) = Held(branch[c], mBackground, x)
      /\ KeyOf[x] \notin DOMAIN tree /\ KeyOf[x] \notin DOMAIN other => Stored(J, x) = BackgroundTile
  BY <1>1, <1>2, JoinedHeld
<1>6. \A c \in Met(tree, other) : \A d \in DOMAIN branch[c] : d \in DOMAIN J
  BY <1>1, <1>2, JoinedEntries
<1> HIDE DEF J
<1>7. CASE \E c \in Met(tree, other) : c \in Above[x]
  <2>1. PICK c \in Met(tree, other) : c \in Above[x]
    BY <1>7
  <2>2. Stored(J, x) = Held(branch[c], mBackground, x)
    BY <1>5, <2>1
  <2>3. stored /\ both => x \in DOMAIN J
    BY <1>3, <1>6, <2>1
  <2> QED
    BY <1>3, <1>4, <2>1, <2>2, <2>3
<1>8. CASE KeyOf[x] \notin DOMAIN tree /\ KeyOf[x] \notin DOMAIN other
  <2>1. Map[x] = BackgroundTile /\ Stored(J, x) = BackgroundTile
    BY <1>5, <1>8, NoKey
  <2>2. BackgroundTile.active = FALSE
    BY DEF BackgroundTile, Off
  <2>3. both = FALSE
    BY <2>1, <2>2
  <2> QED
    BY <1>4, <2>1, <2>2, <2>3
<1> QED
  BY <1>7, <1>8, EndAbove

LEMMA DifferenceContents ==
    ASSUME PairTypeOK, NEW x \in Voxels
    PROVE  LET held == Stored(Difference(tree, other), x)
           IN  /\ held.active = (Map[x].active /\ ~ Theirs(x).active)
               /\ held.value = Map[x].value \/ held = BackgroundTile
<1> DEFINE branch == [c \in Met(tree, other) |-> DifferenceAt(tree, other, c)]
           J == Joined(tree, other, branch)
           only == Map[x].active /\ ~ Theirs(x).active
<1>1. WellFormed(tree) /\ WellFormed(other)
  BY DEF PairTypeOK
<1>2. DOMAIN branch = Met(tree, other) /\ \A c \in Met(tree, other) : Fits(branch[c], c)
  BY DifferenceEnd
<1>3. ASSUME NEW c \in Met(tree, other), c \in Above[x]
      PROVE  /\ Held(branch[c], mBackground, x).active = only
             /\ \/ Held(branch[c], mBackground, x).value = Map[x].value
                \/ Held(branch[c], mBackground, x) = BackgroundTile
  BY <1>3, DifferenceEnd
<1>4. Difference(tree, other) = J
  BY DEF Difference, DifferenceAt
<1> HIDE DEF branch
<1>5. /\ \A c \in Met(tree, other) : c \in Above[x] => Stored(J, x) = Held(branch[c], mBackground, x)
      /\ KeyOf[x] \notin DOMAIN tree /\ KeyOf[x] \notin DOMAIN other => Stored(J, x) = BackgroundTile
  BY <1>1, <1>2, JoinedHeld
<1> HIDE DEF J
<1>7. CASE \E c \in Met(tree, other) : c \in Above[x]
  BY <1>3, <1>4, <1>5, <1>7
<1>8. CASE KeyOf[x] \notin DOMAIN tree /\ KeyOf[x] \notin DOMAIN other
  <2>1. Map[x] = BackgroundTile /\ Stored(J, x) = BackgroundTile
    BY <1>5, <1>8, NoKey
  <2>2. BackgroundTile.active = FALSE
    BY DEF BackgroundTile, Off
  <2>3. only = FALSE
    BY <2>1, <2>2
  <2> QED
    BY <1>4, <2>1, <2>2, <2>3
<1> QED
  BY <1>7, <1>8, EndAbove

\* The union has the nodes of both trees, but for those in tiles to be preserved.
LEMMA UnionNodes ==
    ASSUME PairTypeOK
    PROVE  LET all == Nodes(tree) \union Nodes(other)
           IN  /\ Nodes(Union(tree, other, FALSE)) = all
               /\ Nodes(Union(tree, other, TRUE))
                    = {c \in all : ~ \E d \in Above[c] : ActiveIn(tree, d)}
<1> DEFINE all == Nodes(tree) \union Nodes(other)
           U(preserve) == Union(tree, other, preserve)
<1>1. WellFormed(tree) /\ WellFormed(other)
  BY DEF PairTypeOK
<1>2. \A d \in Cells : d \in all <=> IsChild(tree, d) \/ IsChild(other, d)
  BY DEF Nodes
<1>3. ASSUME NEW preserve \in BOOLEAN, NEW d \in Cells
      PROVE  IsChild(U(preserve), d) <=>
               \/ d \in Both(tree, other)
               \/ \E c \in Met(tree, other) :
                     c \in Above[d] /\ d \in all /\ ~ (ActiveIn(tree, c) /\ preserve)
  <2> DEFINE branch == [c \in Met(tree, other) |-> UnionAt(tree, other, preserve, c)]
  <2>1. DOMAIN branch = Met(tree, other) /\ \A c \in Met(tree, other) : Fits(branch[c], c)
    BY UnionEnd
  <2>2. \A c \in Met(tree, other) : IsChild(branch[c], d) <=>
           c \in Above[d] /\ d \in all /\ ~ (ActiveIn(tree, c) /\ preserve)
    BY <1>2, UnionEnd
  <2>3. U(preserve) = Joined(tree, other, branch)
    BY DEF Union, UnionAt
  <2> HIDE DEF branch
  <2>4. IsChild(Joined(tree, other, branch), d)
           <=> d \in Both(tree, other) \/ \E c \in Met(tree, other) : IsChild(branch[c], d)
    BY <1>1, <2>1, JoinedShape
  <2> QED
    BY <2>2, <2>3, <2>4
<1>4. ASSUME NEW d \in all, d \notin Both(tree, other)
      PROVE  \E c \in Met(tree, other) : c \in Above[d]
  <2>1. d \in Cells /\ (d \in DOMAIN tree \/ d \in DOMAIN other)
    BY DEF Nodes, IsChild
  <2>2. KeyOf[d] \in DOMAIN tree \/ KeyOf[d] \in DOMAIN other
    BY <1>1, <2>1, KeyThere
  <2> QED
    BY <1>1, <1>4, <2>1, <2>2, MetAbove
<1>5. Both(tree, other) \subseteq all /\ all \subseteq Cells
  BY DEF Both, Nodes
<1>6. ASSUME NEW d \in all
      PROVE  /\ d \in Both(tree, other) => ~ \E e \in Above[d] : ActiveIn(tree, e)
             /\ \A c \in Met(tree, other) : c \in Above[d] =>
                   (ActiveIn(tree, c) <=> \E e \in Above[d] : ActiveIn(tree, e))
  <2>0. d \in Cells
    BY <1>5
  <2>1. \A e \in Cells : ActiveIn(tree, e) => e \in DOMAIN tree /\ tree[e] # Child
    BY DEF ActiveIn, IsTile
  <2>2. ASSUME d \in Both(tree, other), NEW e \in Above[d], ActiveIn(tree, e) PROVE FALSE
    <3>1. e \in Cells /\ (e = d \/ e \in Parents[d])
      BY <2>0, Chain
    <3>2. e \in Both(tree, other)
      BY <1>1, <2>2, <3>1, BothFacts
    <3> QED
      BY <1>1, <2>1, <2>2, <3>1, <3>2, BothFacts
  <2>3. ASSUME NEW c \in Met(tree, other), c \in Above[d], NEW e \in Above[d], ActiveIn(tree, e)
        PROVE  ActiveIn(tree, c)
    <3>1. e \in Cells /\ (e = c \/ e \in Parents[c] \/ c \in Parents[e])
      BY <2>0, <2>3, Chain
    <3>2. e \notin Parents[c]
      BY <2>1, <2>3, <3>1, EndFacts DEF IsChild
    <3>3. ASSUME c \in Parents[e] PROVE FALSE
      <4>1. c \in DOMAIN tree /\ tree[c] = Child
        BY <1>1, <2>1, <2>3, <3>1, <3>3, Shape
      <4>2. ~ IsChild(other, c)
        BY <4>1, EndFacts DEF IsChild
      <4>3. ~ IsChild(other, d)
        BY <2>0, <2>3, <4>2, TileOfOther
      <4>4. d \in DOMAIN tree /\ tree[d] = Child
        BY <1>2, <2>0, <4>3 DEF IsChild
      <4>5. e = d \/ e \in Parents[d]
        BY <2>0, <2>3, Chain
      <4> QED
        BY <1>1, <2>1, <2>3, <3>1, <4>4, <4>5, Shape
    <3> QED
      BY <2>3, <3>1, <3>2, <3>3
  <2> QED
    BY <2>2, <2>3
<1>7. \A preserve \in BOOLEAN : Nodes(U(preserve)) \subseteq Cells
        /\ \A d \in Cells : d \in Nodes(U(preserve)) <=> IsChild(U(preserve), d)
  BY DEF Nodes
<1> HIDE DEF all, U
<1>8. Nodes(U(FALSE)) = all
  <2>1. \A d \in Cells : d \in Nodes(U(FALSE)) <=> d \in all
    BY <1>3, <1>4, <1>5, <1>7
  <2> QED
    BY <1>5, <1>7, <2>1
<1>9. Nodes(U(TRUE)) = {c \in all : ~ \E d \in Above[c] : ActiveIn(tree, d)}
  <2>1. ASSUME NEW d \in Cells
        PROVE  d \in Nodes(U(TRUE)) <=> d \in all /\ ~ \E e \in Above[d] : ActiveIn(tree, e)
    <3>1. d \in Nodes(U(TRUE)) <=>
            \/ d \in Both(tree, other)
            \/ \E c \in Met(tree, other) : c \in Above[d] /\ d \in all /\ ~ ActiveIn(tree, c)
      BY <1>3, <1>7
    <3> QED
      BY <1>4, <1>5, <1>6, <3>1
  <2> QED
    BY <1>5, <1>7, <2>1
<1> QED
  BY <1>8, <1>9 DEF all, U

\* In every state the three operations meet their contract.
LEMMA TopologyContract == PairTypeOK => TopologyMeetsContract
<1> SUFFICES ASSUME PairTypeOK PROVE TopologyMeetsContract
  OBVIOUS
<1>1. ASSUME NEW x \in Voxels
      PROVE  /\ \A T \in {Intersection(tree, other), Difference(tree, other)} :
                   Stored(T, x).value = Map[x].value \/ Stored(T, x) = BackgroundTile
             /\ Stored(Intersection(tree, other), x).active = (Map[x].active /\ Theirs(x).active)
             /\ Stored(Difference(tree, other), x).active = (Map[x].active /\ ~ Theirs(x).active)
  BY IntersectionContents, DifferenceContents
<1>2. \A x \in Voxels : \A preserve \in BOOLEAN :
         Stored(Union(tree, other, preserve), x) = [Map[x] EXCEPT !.active = @ \/ Theirs(x).active]
  BY UnionContents
<1>3. {x \in Voxels \intersect (DOMAIN tree \union DOMAIN other) :
          Map[x].active /\ Theirs(x).active} \subseteq DOMAIN Intersection(tree, other)
  BY IntersectionContents
<1> QED
  BY <1>1, <1>2, <1>3, UnionNodes DEF TopologyMeetsContract

-------------------------------------------------------------------------------
(* merge().                                                                *)

\* Tiles moved from one background to another, and inactive ones made to follow v.
Rebasing(from, to) == [t \in Tile |-> IF t = Off(from) THEN Off(to)
                                      ELSE IF t = Off(-from) THEN Off(-to) ELSE t]
Following(v) == [t \in Tile |-> IF t.active THEN t ELSE [value |-> v, active |-> TRUE]]

\* Active tiles stay as they are when the background is changed, and all tiles do if
\* it is the same.
LEMMA RebasingFacts ==
    ASSUME NEW from \in Values, NEW to \in Values
    PROVE  /\ Rebasing(from, to) \in [Tile -> Tile]
           /\ \A t \in Tile : /\ t.active \in BOOLEAN
                              /\ Rebasing(from, to)[t].active = t.active
                              /\ t.active \/ from = to => Rebasing(from, to)[t] = t
<1>1. -from \in Values /\ -to \in Values
  BY ContentsTyped
<1>2. \A v \in Values : Off(v) \in Tile /\ Off(v).active = FALSE
  BY TypedTiles DEF Off
<1>3. \A t \in Tile : t.active \in BOOLEAN
  BY TileFacts, ContentsTyped
<1>4. \A t \in Tile : Rebasing(from, to)[t] = IF t = Off(from) THEN Off(to)
                                              ELSE IF t = Off(-from) THEN Off(-to) ELSE t
  BY DEF Rebasing
<1>5. Rebasing(from, to) \in [Tile -> Tile]
  BY <1>1, <1>2 DEF Rebasing
<1>6. ASSUME NEW t \in Tile PROVE Rebasing(from, to)[t].active = t.active
  BY <1>1, <1>2, <1>4
<1>7. ASSUME NEW t \in Tile, t.active PROVE Rebasing(from, to)[t] = t
  BY <1>1, <1>2, <1>4, <1>7
<1>8. ASSUME NEW t \in Tile, from = to PROVE Rebasing(from, to)[t] = t
  BY <1>4, <1>8
<1> QED
  BY <1>3, <1>5, <1>6, <1>7, <1>8

LEMMA RebasedMaps ==
    ASSUME NEW c \in Cells, NEW B, Fits(B, c), NEW from \in Values, NEW to \in Values
    PROVE  Rebased(B, from, to) = MapTiles(B, Rebasing(from, to))
<1>1. \A d \in DOMAIN B : B[d] # Child => B[d] \in Tile
  BY DEF Fits
<1>2. \A d \in DOMAIN B :
         (IF B[d] = Child THEN Child
          ELSE IF B[d] = Off(from) THEN Off(to)
          ELSE IF B[d] = Off(-from) THEN Off(-to) ELSE B[d])
            = IF B[d] = Child THEN Child ELSE Rebasing(from, to)[B[d]]
  BY <1>1 DEF Rebasing
<1> QED
  BY <1>2 DEF Rebased, Retiled, MapTiles

LEMMA FollowingTyped == \A v \in Values : Following(v) \in [Tile -> Tile]
  BY TypedTiles DEF Following

LEMMA FollowingMaps ==
    ASSUME NEW c \in Cells, NEW B, Fits(B, c), NEW v \in Values
    PROVE  MergedWithTile(B, v) = MapTiles(B, Following(v))
<1>1. \A d \in DOMAIN B : B[d] # Child => B[d] \in Tile
  BY DEF Fits
<1>2. \A d \in DOMAIN B :
         (IF B[d] = Child THEN Child
          ELSE IF B[d].active THEN B[d] ELSE [value |-> v, active |-> TRUE])
            = IF B[d] = Child THEN Child ELSE Following(v)[B[d]]
  BY <1>1 DEF Following
<1> QED
  BY <1>2 DEF MergedWithTile, Retiled, MapTiles

\* What merge() does where the descent ends.
MergeAt(T, S, policy, c) ==
    IF IsChild(S, c)
    THEN IF ~ Steals(T, c, policy) THEN Branch(T, c)
         ELSE IF ActiveIn(T, c) /\ policy = "MERGE_ACTIVE_STATES_AND_NODES"
         THEN MergedWithTile(Stolen(S, c), T[c].value)
         ELSE Stolen(S, c)
    ELSE IF ActiveIn(S, c) /\ ~ ActiveIn(T, c) /\ policy # "MERGE_NODES"
    THEN IF IsChild(T, c) /\ policy = "MERGE_ACTIVE_STATES_AND_NODES"
         THEN MergedWithTile(Branch(T, c), S[c].value)
         ELSE OneTileAt(c, S[c])
    ELSE Branch(T, c)

\* What the contract says of a voxel that holds `held` afterwards.
MergeKeeps(policy, held, x) ==
    /\ policy # "MERGE_NODES" => held.active = (Map[x].active \/ Theirs(x).active)
    /\ held.active \/ mBackground = otherBackground => held \in {Map[x], Theirs(x)}

\* A node stolen from the other tree, where this one has a tile or nothing.
LEMMA StolenEnd ==
    ASSUME PairTypeOK, NEW policy \in Policies, NEW c \in Met(tree, other),
           IsChild(other, c), Steals(tree, c, policy)
    PROVE  LET R == MergeAt(tree, other, policy, c)
           IN  /\ Fits(R, c)
               /\ \A x \in Voxels : c \in Above[x] => MergeKeeps(policy, Held(R, mBackground, x), x)
               /\ \A d \in Cells : IsChild(R, d) <=> c \in Above[d] /\ IsChild(other, d)
<1> DEFINE R == MergeAt(tree, other, policy, c)
           B == Branch(other, c)
           held(x) == Held(R, mBackground, x)
<1>1. WellFormed(tree) /\ WellFormed(other) /\ mBackground \in Values /\ otherBackground \in Values
  BY DEF PairTypeOK
<1>2. /\ c \in Cells /\ ~ IsChild(tree, c)
      /\ \A p \in Parents[c] : IsChild(tree, p) /\ IsChild(other, p)
  BY EndFacts
<1>3. \A x \in Voxels : Map[x] \in Tile /\ Theirs(x) \in Tile
  BY HeldType
<1>4. /\ Stored(tree, c) \in Tile
      /\ ActiveIn(tree, c) <=> Stored(tree, c).active
      /\ ActiveIn(tree, c) => tree[c] = Stored(tree, c)
      /\ \A x \in Voxels : c \in Above[x] => Map[x] = Stored(tree, c)
  BY <1>2, TileOfTree
<1>5. Fits(B, c)
  BY <1>1, <1>2, BranchFits
<1>6. PICK from \in Values, to \in Values :
         /\ Stolen(other, c) = Rebased(B, from, to)
         /\ mBackground = otherBackground => from = to
  BY <1>1 DEF Stolen
<1> DEFINE f == Rebasing(from, to)
<1>7. /\ f \in [Tile -> Tile]
      /\ \A t \in Tile : /\ t.active \in BOOLEAN /\ f[t].active = t.active
                         /\ t.active \/ from = to => f[t] = t
  BY RebasingFacts
<1>8. Stolen(other, c) = MapTiles(B, f)
  BY <1>2, <1>5, <1>6, RebasedMaps
<1> HIDE DEF f
<1>9. CASE ActiveIn(tree, c) /\ policy = "MERGE_ACTIVE_STATES_AND_NODES"
  <2> DEFINE v == tree[c].value
             g == Following(v)
             h == [t \in Tile |-> g[f[t]]]
  <2>1. R = MergedWithTile(Stolen(other, c), v)
    BY <1>9 DEF MergeAt
  <2>2. v \in Values /\ v = Stored(tree, c).value
    BY <1>4, <1>9, TileFacts
  <2>3. g \in [Tile -> Tile] /\ h \in [Tile -> Tile]
    BY <1>7, <2>2, FollowingTyped
  <2>4. Fits(MapTiles(B, f), c)
    BY <1>2, <1>5, <1>7, MapTilesFits
  <2>5. MergedWithTile(MapTiles(B, f), v) = MapTiles(MapTiles(B, f), g)
    BY <1>2, <2>2, <2>4, FollowingMaps
  <2>6. MapTiles(MapTiles(B, f), g) = MapTiles(B, h)
    BY <1>2, <1>5, <1>7, <2>3, MapTilesTwice
  <2>7. R = MapTiles(B, h)
    BY <1>8, <2>1, <2>5, <2>6
  <2>8. \A t \in Tile : h[t] = IF t.active THEN t ELSE [value |-> v, active |-> TRUE]
    <3>1. \A t \in Tile : h[t] = IF f[t].active THEN f[t] ELSE [value |-> v, active |-> TRUE]
      BY <1>7 DEF Following
    <3> QED
      BY <1>7, <3>1
  <2> HIDE DEF h, v
  <2>9. /\ Fits(R, c)
        /\ \A d \in Cells : IsChild(R, d) <=> c \in Above[d] /\ IsChild(other, d)
        /\ \A x \in Voxels : c \in Above[x] =>
              \A b, e \in Values : Held(R, b, x) = h[Held(other, e, x)]
    BY <1>1, <1>2, <2>3, <2>7, NodeMapped
  <2>10. ASSUME NEW x \in Voxels, c \in Above[x] PROVE MergeKeeps(policy, held(x), x)
    <3>1. held(x) = h[Theirs(x)] /\ Map[x] = Stored(tree, c) /\ Map[x].active
      BY <1>1, <1>4, <1>9, <2>9, <2>10 DEF Theirs
    <3>2. Map[x] = [value |-> v, active |-> TRUE]
      <4>1. Map[x] = [value |-> Map[x].value, active |-> Map[x].active] /\ Map[x].active \in BOOLEAN
        BY <1>3, TileFacts, ContentsTyped
      <4>2. Map[x].value = v /\ Map[x].active = TRUE
        BY <2>2, <3>1, <4>1
      <4> QED
        BY <4>1, <4>2
    <3>3. held(x) \in {Map[x], Theirs(x)}
      BY <1>3, <2>8, <3>1, <3>2
    <3>4. Theirs(x).active \in BOOLEAN /\ held(x).active = TRUE /\ (Map[x].active \/ Theirs(x).active) = TRUE
      <4>1. Theirs(x).active \in BOOLEAN
        BY <1>3, <1>7
      <4>2. CASE Theirs(x).active
        <5>1. held(x) = Theirs(x)
          BY <1>3, <2>8, <3>1, <4>2
        <5> QED
          BY <3>1, <4>1, <4>2, <5>1
      <4>3. CASE ~ Theirs(x).active
        <5>1. held(x) = [value |-> v, active |-> TRUE]
          BY <1>3, <2>8, <3>1, <4>3
        <5>2. held(x).active = TRUE
          BY <5>1
        <5> QED
          BY <3>1, <4>1, <5>2
      <4> QED
        BY <4>2, <4>3
    <3> QED
      BY <3>3, <3>4 DEF MergeKeeps
  <2> QED
    BY <2>9, <2>10
<1>10. CASE ~ (ActiveIn(tree, c) /\ policy = "MERGE_ACTIVE_STATES_AND_NODES")
  <2>1. R = MapTiles(B, f)
    BY <1>8, <1>10 DEF MergeAt
  <2>2. /\ Fits(R, c)
        /\ \A d \in Cells : IsChild(R, d) <=> c \in Above[d] /\ IsChild(other, d)
        /\ \A x \in Voxels : c \in Above[x] =>
              \A b, e \in Values : Held(R, b, x) = f[Held(other, e, x)]
    BY <1>1, <1>2, <1>7, <2>1, NodeMapped
  <2>3. policy # "MERGE_NODES" => ~ ActiveIn(tree, c)
    BY <1>10 DEF Steals, Policies
  <2>4. ASSUME NEW x \in Voxels, c \in Above[x] PROVE MergeKeeps(policy, held(x), x)
    <3>1. held(x) = f[Theirs(x)] /\ Map[x] = Stored(tree, c)
      BY <1>1, <1>4, <2>2, <2>4 DEF Theirs
    <3>2. /\ held(x).active = Theirs(x).active /\ Theirs(x).active \in BOOLEAN
          /\ Theirs(x).active \/ from = to => held(x) = Theirs(x)
      BY <1>3, <1>7, <3>1
    <3>3. held(x).active \/ mBackground = otherBackground => held(x) \in {Map[x], Theirs(x)}
      BY <1>6, <3>2
    <3>4. ASSUME policy # "MERGE_NODES"
          PROVE  held(x).active = (Map[x].active \/ Theirs(x).active)
      <4>1. Map[x].active = FALSE
        BY <1>3, <1>4, <1>7, <2>3, <3>1, <3>4
      <4>2. (Map[x].active \/ Theirs(x).active) = Theirs(x).active
        BY <3>2, <4>1
      <4> QED
        BY <3>2, <4>2
    <3> QED
      BY <3>3, <3>4 DEF MergeKeeps
  <2> QED
    BY <2>2, <2>4
<1> QED
  BY <1>9, <1>10

\* It fits and keeps to the contract, and the nodes of both trees are there if nodes
\* are merged; nothing changes where the other tree has no key.
LEMMA MergeEnd ==
    ASSUME PairTypeOK, NEW policy \in Policies, NEW c \in Met(tree, other)
    PROVE  /\ Fits(MergeAt(tree, other, policy, c), c)
           /\ \A x \in Voxels : c \in Above[x] =>
                 /\ MergeKeeps(policy, Held(MergeAt(tree, other, policy, c), mBackground, x), x)
                 /\ c \notin DOMAIN other =>
                       Held(MergeAt(tree, other, policy, c), mBackground, x) = Map[x]
           /\ policy # "MERGE_ACTIVE_STATES" =>
                 \A d \in Cells : IsChild(MergeAt(tree, other, policy, c), d)
                                    <=> c \in Above[d] /\ (IsChild(tree, d) \/ IsChild(other, d))
<1> DEFINE R == MergeAt(tree, other, policy, c)
           held(x) == Held(R, mBackground, x)
           nodes == \A d \in Cells : IsChild(R, d)
                                       <=> c \in Above[d] /\ (IsChild(tree, d) \/ IsChild(other, d))
<1>1. WellFormed(tree) /\ WellFormed(other) /\ mBackground \in Values /\ otherBackground \in Values
  BY DEF PairTypeOK
<1>2. /\ c \in Cells /\ ~ (IsChild(tree, c) /\ IsChild(other, c))
      /\ \A p \in Parents[c] : IsChild(tree, p) /\ IsChild(other, p)
      /\ Fits(Branch(tree, c), c)
      /\ \A d \in Cells : IsChild(Branch(tree, c), d) <=> c \in Above[d] /\ IsChild(tree, d)
      /\ \A x \in Voxels : c \in Above[x] => Held(Branch(tree, c), mBackground, x) = Map[x]
  BY EndFacts
<1>3. \A x \in Voxels : /\ Map[x] \in Tile /\ Map[x].active \in BOOLEAN
                        /\ Theirs(x) \in Tile /\ Theirs(x).active \in BOOLEAN
  BY HeldType, TileFacts, ContentsTyped
<1>4. ~ IsChild(tree, c) =>
         /\ ActiveIn(tree, c) <=> Stored(tree, c).active
         /\ \A x \in Voxels : c \in Above[x] => Map[x] = Stored(tree, c)
         /\ \A d \in Cells : c \in Above[d] => ~ IsChild(tree, d)
  BY TileOfTree
<1>5. ~ IsChild(other, c) =>
         /\ Theirs(c) \in Tile
         /\ ActiveIn(other, c) <=> Theirs(c).active
         /\ ActiveIn(other, c) => other[c] = Theirs(c)
         /\ \A x \in Voxels : c \in Above[x] => Theirs(x) = Theirs(c)
         /\ \A d \in Cells : c \in Above[d] => ~ IsChild(other, d)
  BY TileOfOther
<1>6. ActiveIn(tree, c) => ~ IsChild(tree, c)
  BY DEF ActiveIn, IsTile, IsChild
<1>7. c \notin DOMAIN other => ~ IsChild(other, c) /\ ~ ActiveIn(other, c)
  BY DEF ActiveIn, IsTile, IsChild
<1>8. CASE IsChild(other, c) /\ Steals(tree, c, policy)
  <2>1. /\ Fits(R, c)
        /\ \A x \in Voxels : c \in Above[x] => MergeKeeps(policy, held(x), x)
        /\ \A d \in Cells : IsChild(R, d) <=> c \in Above[d] /\ IsChild(other, d)
    BY <1>8, StolenEnd
  <2> QED
    BY <1>2, <1>4, <1>7, <1>8, <2>1
<1>9. CASE IsChild(other, c) /\ ~ Steals(tree, c, policy)
  <2>1. R = Branch(tree, c) /\ ActiveIn(tree, c) /\ policy = "MERGE_ACTIVE_STATES"
    BY <1>9 DEF MergeAt, Steals
  <2>2. ASSUME NEW x \in Voxels, c \in Above[x] PROVE MergeKeeps(policy, held(x), x)
    <3>1. held(x) = Map[x] /\ (Map[x].active \/ Theirs(x).active) = Map[x].active
      BY <1>2, <1>3, <1>4, <1>6, <2>1, <2>2
    <3> QED
      BY <3>1 DEF MergeKeeps
  <2> QED
    BY <1>2, <1>7, <1>9, <2>1, <2>2
<1>10. CASE /\ ~ IsChild(other, c) /\ R = Branch(tree, c)
            /\ ~ ActiveIn(other, c) \/ ActiveIn(tree, c) \/ policy = "MERGE_NODES"
  <2>1. ASSUME NEW x \in Voxels, c \in Above[x] PROVE MergeKeeps(policy, held(x), x)
    <3>1. held(x) = Map[x]
      BY <1>2, <1>10, <2>1
    <3>2. policy # "MERGE_NODES" => (Map[x].active \/ Theirs(x).active) = Map[x].active
      BY <1>3, <1>4, <1>5, <1>6, <1>10, <2>1
    <3> QED
      BY <3>1, <3>2 DEF MergeKeeps
  <2> QED
    BY <1>2, <1>5, <1>10, <2>1
<1>11. CASE /\ ~ IsChild(other, c) /\ ActiveIn(other, c) /\ ~ ActiveIn(tree, c)
            /\ policy # "MERGE_NODES"
            /\ IsChild(tree, c) /\ policy = "MERGE_ACTIVE_STATES_AND_NODES"
  <2> DEFINE v == other[c].value
  <2>1. R = MergedWithTile(Branch(tree, c), v)
    BY <1>11 DEF MergeAt
  <2>2. v \in Values /\ other[c] \in Tile /\ other[c] = Theirs(c) /\ Theirs(c).active
    <3>1. other[c] \in Tile /\ other[c] = Theirs(c) /\ Theirs(c).active
      BY <1>5, <1>11
    <3> QED
      BY <3>1, TileFacts, ContentsTyped
  <2>3. R = MapTiles(Branch(tree, c), Following(v)) /\ Following(v) \in [Tile -> Tile]
    BY <1>2, <2>1, <2>2, FollowingMaps, FollowingTyped
  <2>4. Theirs(c) = [value |-> v, active |-> TRUE]
    <3>1. Theirs(c) = [value |-> Theirs(c).value, active |-> Theirs(c).active]
          /\ Theirs(c).active \in BOOLEAN
      BY <2>2, TileFacts, ContentsTyped
    <3>2. Theirs(c).active = TRUE
      BY <2>2, <3>1
    <3> QED
      BY <2>2, <3>1, <3>2
  <2> HIDE DEF v
  <2>5. /\ Fits(R, c)
        /\ \A d \in Cells : IsChild(R, d) <=> c \in Above[d] /\ IsChild(tree, d)
        /\ \A x \in Voxels : c \in Above[x] =>
              \A b, e \in Values : Held(R, b, x) = Following(v)[Held(tree, e, x)]
    BY <1>1, <1>2, <1>11, <2>3, NodeMapped
  <2>6. ASSUME NEW x \in Voxels, c \in Above[x] PROVE MergeKeeps(policy, held(x), x)
    <3>1. Map[x] = Held(tree, mBackground, x)
      BY DEF Map, Contents, Stored, Held, BackgroundTile
    <3>2. held(x) = Following(v)[Map[x]] /\ Theirs(x) = Theirs(c)
      BY <1>1, <1>5, <1>11, <2>5, <2>6, <3>1
    <3>3. held(x) = IF Map[x].active THEN Map[x] ELSE Theirs(x)
      BY <1>3, <2>4, <3>2 DEF Following
    <3>4. (Map[x].active \/ Theirs(x).active) = TRUE /\ Theirs(x).active = TRUE
      BY <1>3, <2>2, <3>2
    <3>5. held(x).active = TRUE
      BY <1>3, <3>3, <3>4
    <3> QED
      BY <3>3, <3>4, <3>5 DEF MergeKeeps
  <2> QED
    BY <1>5, <1>7, <1>11, <2>5, <2>6
<1>12. CASE /\ ~ IsChild(other, c) /\ ActiveIn(other, c) /\ ~ ActiveIn(tree, c)
            /\ policy # "MERGE_NODES"
            /\ ~ (IsChild(tree, c) /\ policy = "MERGE_ACTIVE_STATES_AND_NODES")
  <2> DEFINE t == other[c]
  <2>1. R = OneTileAt(c, t)
    BY <1>12 DEF MergeAt
  <2>2. t \in Tile /\ t = Theirs(c) /\ t # Child
    BY <1>5, <1>12, ContentsTyped
  <2> HIDE DEF t
  <2>3. /\ Fits(OneTileAt(c, t), c)
        /\ \A x \in Voxels, b \in Values : c \in Above[x] => Held(OneTileAt(c, t), b, x) = t
        /\ DOMAIN OneTileAt(c, t) = {c} /\ OneTileAt(c, t)[c] = t
    BY <1>2, <2>2, TileAtFits
  <2>4. ASSUME NEW x \in Voxels, c \in Above[x] PROVE MergeKeeps(policy, held(x), x)
    <3>1. held(x) = Theirs(x) /\ Theirs(x).active
      BY <1>1, <1>5, <1>12, <2>1, <2>2, <2>3, <2>4
    <3>2. (Map[x].active \/ Theirs(x).active) = Theirs(x).active
      BY <1>3, <3>1
    <3> QED
      BY <3>1, <3>2 DEF MergeKeeps
  <2>5. policy # "MERGE_ACTIVE_STATES" => ~ IsChild(tree, c)
    BY <1>12 DEF Policies
  <2>6. \A d \in Cells : ~ IsChild(R, d)
    BY <2>1, <2>2, <2>3 DEF IsChild
  <2>7. policy # "MERGE_ACTIVE_STATES" => nodes
    BY <1>4, <1>5, <1>12, <2>5, <2>6
  <2> QED
    BY <1>7, <1>12, <2>1, <2>3, <2>4, <2>7
<1>13. \/ IsChild(other, c)
       \/ /\ ~ IsChild(other, c) /\ R = Branch(tree, c)
          /\ ~ ActiveIn(other, c) \/ ActiveIn(tree, c) \/ policy = "MERGE_NODES"
       \/ ~ IsChild(other, c) /\ ActiveIn(other, c) /\ ~ ActiveIn(tree, c) /\ policy # "MERGE_NODES"
  BY DEF MergeAt
<1> QED
  BY <1>8, <1>9, <1>10, <1>11, <1>12, <1>13

\* merge() leaves a tree, in every state it meets its contract.
LEMMA MergeLemma ==
    ASSUME PairTypeOK, NEW policy \in Policies
    PROVE  /\ WellFormed(Merged(tree, other, policy))
           /\ \A x \in Voxels :
                 /\ MergeKeeps(policy, Stored(Merged(tree, other, policy), x), x)
                 /\ KeyOf[x] \notin DOMAIN other =>
                       Stored(Merged(tree, other, policy), x) = Map[x]
           /\ policy # "MERGE_ACTIVE_STATES" =>
                 Nodes(Merged(tree, other, policy)) = Nodes(tree) \union Nodes(other)
<1> DEFINE branch == [c \in Met(tree, other) |-> MergeAt(tree, other, policy, c)]
           J == Joined(tree, other, branch)
<1>1. WellFormed(tree) /\ WellFormed(other)
  BY DEF PairTypeOK
<1>2. DOMAIN branch = Met(tree, other) /\ \A c \in Met(tree, other) : Fits(branch[c], c)
  BY MergeEnd
<1>3. \A c \in Met(tree, other), x \in Voxels : c \in Above[x] =>
         /\ MergeKeeps(policy, Held(branch[c], mBackground, x), x)
         /\ c \notin DOMAIN other => Held(branch[c], mBackground, x) = Map[x]
  BY MergeEnd
<1>4. policy # "MERGE_ACTIVE_STATES" =>
         \A c \in Met(tree, other), d \in Cells :
            IsChild(branch[c], d) <=> c \in Above[d] /\ (IsChild(tree, d) \/ IsChild(other, d))
  BY MergeEnd
<1>5. Merged(tree, other, policy) = J
  BY DEF Merged, MergeAt
<1> HIDE DEF branch
<1>6. /\ WellFormed(J)
      /\ \A d \in Cells : IsChild(J, d)
            <=> d \in Both(tree, other) \/ \E c \in Met(tree, other) : IsChild(branch[c], d)
  BY <1>1, <1>2, JoinedShape
<1>7. ASSUME NEW x \in Voxels
      PROVE  /\ MergeKeeps(policy, Stored(J, x), x)
             /\ KeyOf[x] \notin DOMAIN other => Stored(J, x) = Map[x]
  <2>1. /\ \A c \in Met(tree, other) : c \in Above[x] =>
              Stored(J, x) = Held(branch[c], mBackground, x)
        /\ KeyOf[x] \notin DOMAIN tree /\ KeyOf[x] \notin DOMAIN other =>
              Stored(J, x) = BackgroundTile
    BY <1>1, <1>2, JoinedHeld
  <2> HIDE DEF J
  <2>2. CASE \E c \in Met(tree, other) : c \in Above[x]
    <3>1. PICK c \in Met(tree, other) : c \in Above[x]
      BY <2>2
    <3>2. x \in Cells
      BY DEF Voxels
    <3>3. KeyOf[x] \notin DOMAIN other => c \notin DOMAIN other
      BY <1>1, <3>1, <3>2, KeyOfMet, KeyThere
    <3> QED
      BY <1>3, <2>1, <3>1, <3>3
  <2>3. CASE KeyOf[x] \notin DOMAIN tree /\ KeyOf[x] \notin DOMAIN other
    <3>1. /\ Map[x] = BackgroundTile /\ Theirs(x) = Off(otherBackground)
          /\ Stored(J, x) = BackgroundTile
      BY <2>1, <2>3, NoKey
    <3>2. Map[x].active = FALSE /\ Theirs(x).active = FALSE
      BY <3>1 DEF BackgroundTile, Off
    <3>3. (Map[x].active \/ Theirs(x).active) = FALSE
      BY <3>2
    <3> QED
      BY <3>1, <3>2, <3>3 DEF MergeKeeps
  <2> QED
    BY <2>2, <2>3, EndAbove
<1>8. ASSUME policy # "MERGE_ACTIVE_STATES"
      PROVE  Nodes(J) = Nodes(tree) \union Nodes(other)
  <2>1. ASSUME NEW d \in Cells
        PROVE  IsChild(J, d) <=> IsChild(tree, d) \/ IsChild(other, d)
    <3>1. d \in Both(tree, other) => IsChild(tree, d)
      BY DEF Both, Nodes
    <3>2. ASSUME IsChild(tree, d) \/ IsChild(other, d), d \notin Both(tree, other)
          PROVE  \E c \in Met(tree, other) : c \in Above[d]
      <4>1. KeyOf[d] \in DOMAIN tree \/ KeyOf[d] \in DOMAIN other
        BY <1>1, <3>2, KeyThere DEF IsChild
      <4> QED
        BY <1>1, <3>2, <4>1, MetAbove
    <3> QED
      BY <1>4, <1>6, <1>8, <3>1, <3>2
  <2> HIDE DEF J
  <2> QED
    BY <2>1 DEF Nodes
<1> QED
  BY <1>5, <1>6, <1>7, <1>8

LEMMA MergeContract == PairTypeOK => MergeMeetsContract
<1> SUFFICES ASSUME PairTypeOK, NEW policy \in Policies
             PROVE  LET merged == Merged(tree, other, policy)
                    IN  /\ \A x \in Voxels :
                           LET result == Stored(merged, x) IN
                           /\ policy # "MERGE_NODES" =>
                                 result.active = (Map[x].active \/ Theirs(x).active)
                           /\ result.active \/ mBackground = otherBackground
                                 => result \in {Map[x], Theirs(x)}
                           /\ KeyOf[x] \notin DOMAIN other => result = Map[x]
                        /\ policy # "MERGE_ACTIVE_STATES"
                              => Nodes(merged) = Nodes(tree) \union Nodes(other)
  BY DEF MergeMeetsContract
<1> QED
  BY MergeLemma DEF MergeKeeps

-------------------------------------------------------------------------------
(* combine() and combine2().                                               *)

\* The functor with one of its arguments given.
WithTheirs(op, a) == [t \in Tile |-> op[t, a]]
WithOurs(op, a)   == [t \in Tile |-> op[a, t]]

LEMMA FunctorsTyped ==
    ASSUME NEW op \in CombineOps, NEW a \in Tile
    PROVE  /\ WithTheirs(op, a) \in [Tile -> Tile] /\ WithOurs(op, a) \in [Tile -> Tile]
           /\ \A t \in Tile : op[t, a] \in Tile /\ op[a, t] \in Tile
<1>1. op \in [Tile \X Tile -> Tile]
  BY PairsTyped
<1>2. \A t \in Tile : op[t, a] \in Tile /\ op[a, t] \in Tile
  BY <1>1
<1> QED
  BY <1>2 DEF WithTheirs, WithOurs

\* What combine() does where the descent ends.
CombineAt(T, S, op, c) ==
    IF IsChild(T, c) THEN Retiled(Branch(T, c), LAMBDA t : op[t, Theirs(c)])
    ELSE IF IsChild(S, c) THEN CombinedSwapped(Branch(S, c), Stored(T, c), op)
    ELSE OneTileAt(c, op[Stored(T, c), Theirs(c)])

\* It fits, and every voxel is what the functor makes of the two it comes from.
LEMMA CombineEnd ==
    ASSUME PairTypeOK, NEW op \in CombineOps, NEW c \in Met(tree, other)
    PROVE  /\ Fits(CombineAt(tree, other, op, c), c)
           /\ \A x \in Voxels : c \in Above[x] =>
                 Held(CombineAt(tree, other, op, c), mBackground, x) = op[Map[x], Theirs(x)]
<1> DEFINE R == CombineAt(tree, other, op, c)
<1>1. WellFormed(tree) /\ WellFormed(other) /\ mBackground \in Values /\ otherBackground \in Values
  BY DEF PairTypeOK
<1>2. /\ c \in Cells /\ ~ (IsChild(tree, c) /\ IsChild(other, c))
      /\ \A p \in Parents[c] : IsChild(tree, p) /\ IsChild(other, p)
      /\ Fits(Branch(tree, c), c)
  BY EndFacts
<1>3. \A x \in Voxels : /\ Map[x] \in Tile /\ Theirs(x) \in Tile
                        /\ Map[x] = Held(tree, mBackground, x)
                        /\ Theirs(x) = Held(other, otherBackground, x)
  BY HeldType, StoredHeld DEF Theirs, Map, Contents, Voxels
<1>4. ~ IsChild(tree, c) =>
         /\ Stored(tree, c) \in Tile
         /\ \A x \in Voxels : c \in Above[x] => Map[x] = Stored(tree, c)
  BY TileOfTree
<1>5. ~ IsChild(other, c) =>
         /\ Theirs(c) \in Tile
         /\ \A x \in Voxels : c \in Above[x] => Theirs(x) = Theirs(c)
  BY TileOfOther
<1>6. CASE IsChild(tree, c)
  <2> DEFINE a == Theirs(c)
             f == WithTheirs(op, a)
  <2>1. a \in Tile /\ f \in [Tile -> Tile] /\ \A t \in Tile : f[t] = op[t, a]
    BY <1>2, <1>5, <1>6, FunctorsTyped DEF WithTheirs
  <2>2. R = MapTiles(Branch(tree, c), f)
    <3>1. \A d \in DOMAIN Branch(tree, c) :
             Branch(tree, c)[d] # Child => Branch(tree, c)[d] \in Tile
      BY <1>2 DEF Fits
    <3>2. R = Retiled(Branch(tree, c), LAMBDA t : op[t, a])
      BY <1>6 DEF CombineAt
    <3> HIDE DEF a, f, R
    <3> QED
      BY <2>1, <3>1, <3>2 DEF Retiled, MapTiles
  <2>3. f \in [Tile -> Tile]
    BY <2>1
  <2> HIDE DEF f, R
  <2>4. /\ Fits(R, c)
        /\ \A x \in Voxels : c \in Above[x] =>
              \A b, e \in Values : Held(R, b, x) = f[Held(tree, e, x)]
    BY <1>1, <1>2, <1>6, <2>2, <2>3, NodeMapped
  <2>5. ASSUME NEW x \in Voxels, c \in Above[x]
        PROVE  Held(R, mBackground, x) = op[Map[x], Theirs(x)]
    <3>1. Held(R, mBackground, x) = f[Map[x]] /\ Map[x] \in Tile
      BY <1>1, <1>3, <2>4, <2>5
    <3>2. Theirs(x) = a
      BY <1>2, <1>5, <1>6, <2>5
    <3> QED
      BY <2>1, <3>1, <3>2
  <2> QED
    BY <2>4, <2>5 DEF R
<1>7. CASE ~ IsChild(tree, c) /\ IsChild(other, c)
  <2> DEFINE a == Stored(tree, c)
             f == WithOurs(op, a)
  <2>1. a \in Tile /\ f \in [Tile -> Tile] /\ \A t \in Tile : f[t] = op[a, t]
    BY <1>4, <1>7, FunctorsTyped DEF WithOurs
  <2>2. R = MapTiles(Branch(other, c), f)
    <3>1. Fits(Branch(other, c), c)
      BY <1>1, <1>2, BranchFits
    <3>2. \A d \in DOMAIN Branch(other, c) :
             Branch(other, c)[d] # Child => Branch(other, c)[d] \in Tile
      BY <3>1 DEF Fits
    <3>3. R = CombinedSwapped(Branch(other, c), a, op)
      BY <1>7 DEF CombineAt
    <3> HIDE DEF a, f, R
    <3> QED
      BY <2>1, <3>2, <3>3 DEF CombinedSwapped, Retiled, MapTiles
  <2>3. f \in [Tile -> Tile]
    BY <2>1
  <2> HIDE DEF f, R
  <2>4. /\ Fits(R, c)
        /\ \A x \in Voxels : c \in Above[x] =>
              \A b, e \in Values : Held(R, b, x) = f[Held(other, e, x)]
    BY <1>1, <1>2, <1>7, <2>2, <2>3, NodeMapped
  <2>5. ASSUME NEW x \in Voxels, c \in Above[x]
        PROVE  Held(R, mBackground, x) = op[Map[x], Theirs(x)]
    <3>1. Held(R, mBackground, x) = f[Theirs(x)] /\ Theirs(x) \in Tile
      BY <1>1, <1>3, <2>4, <2>5
    <3>2. Map[x] = a
      BY <1>4, <1>7, <2>5
    <3> QED
      BY <2>1, <3>1, <3>2
  <2> QED
    BY <2>4, <2>5 DEF R
<1>8. CASE ~ IsChild(tree, c) /\ ~ IsChild(other, c)
  <2> DEFINE t == op[Stored(tree, c), Theirs(c)]
  <2>1. R = OneTileAt(c, t)
    BY <1>8 DEF CombineAt
  <2>2. t \in Tile
    BY <1>4, <1>5, <1>8, FunctorsTyped
  <2>3. \A x \in Voxels : c \in Above[x] => t = op[Map[x], Theirs(x)]
    BY <1>4, <1>5, <1>8
  <2> HIDE DEF t
  <2>4. Fits(OneTileAt(c, t), c)
    BY <1>2, <2>2, TileAtFits
  <2>5. \A x \in Voxels, b \in Values : c \in Above[x] => Held(OneTileAt(c, t), b, x) = t
    BY <1>2, <2>2, TileAtFits
  <2> QED
    BY <1>1, <2>1, <2>3, <2>4, <2>5
<1> QED
  BY <1>6, <1>7, <1>8

LEMMA CombinedLemma ==
    ASSUME PairTypeOK, NEW op \in CombineOps
    PROVE  /\ WellFormed(Combined(tree, other, op))
           /\ \A d \in DOMAIN Combined(tree, other, op) :
                 KeyOf[d] \in DOMAIN tree \union DOMAIN other
           /\ \A x \in Voxels : KeyOf[x] \in DOMAIN tree \union DOMAIN other =>
                 Stored(Combined(tree, other, op), x) = op[Map[x], Theirs(x)]
<1> DEFINE branch == [c \in Met(tree, other) |-> CombineAt(tree, other, op, c)]
           J == Joined(tree, other, branch)
<1>1. WellFormed(tree) /\ WellFormed(other)
  BY DEF PairTypeOK
<1>2. DOMAIN branch = Met(tree, other) /\ \A c \in Met(tree, other) : Fits(branch[c], c)
  BY CombineEnd
<1>3. \A c \in Met(tree, other), x \in Voxels : c \in Above[x] =>
         Held(branch[c], mBackground, x) = op[Map[x], Theirs(x)]
  BY CombineEnd
<1>4. Combined(tree, other, op) = J
  BY DEF Combined, CombineAt
<1> HIDE DEF branch
<1>5. /\ WellFormed(J)
      /\ \A d \in DOMAIN J : KeyOf[d] \in DOMAIN tree \/ KeyOf[d] \in DOMAIN other
  BY <1>1, <1>2, JoinedShape
<1>6. ASSUME NEW x \in Voxels, KeyOf[x] \in DOMAIN tree \union DOMAIN other
      PROVE  Stored(J, x) = op[Map[x], Theirs(x)]
  <2>1. \A c \in Met(tree, other) : c \in Above[x] =>
           Stored(J, x) = Held(branch[c], mBackground, x)
    BY <1>1, <1>2, JoinedHeld
  <2> HIDE DEF J
  <2> QED
    BY <1>3, <1>6, <2>1, EndAbove
<1> HIDE DEF J
<1> QED
  BY <1>4, <1>5, <1>6

\* prune() of the children of the root node shows in no voxel and adds no entry.
LEMMA PruneChildrenLemma ==
    ASSUME NEW T, WellFormed(T), mBackground \in Values
    PROVE  /\ WellFormed(PruneChildren(T))
           /\ DOMAIN PruneChildren(T) \subseteq DOMAIN T
           /\ \A x \in Voxels : Stored(PruneChildren(T), x) = Stored(T, x)
<1> DEFINE N == {c \in Nodes(T) \ Keys :
                    \A x, y \in VoxelsIn[c] : Stored(T, x) = Stored(T, y)}
           U == [c \in DOMAIN T \ UNION {Below[d] : d \in N} |->
                   IF c \in N THEN Stored(T, CHOOSE x \in VoxelsIn[c] : TRUE) ELSE T[c]]
<1>1. N \in SUBSET Cells /\ DOMAIN T \in SUBSET Cells
  BY DEF WellFormed, Nodes
<1>2. ASSUME NEW c \in N
      PROVE  /\ Stored(T, CHOOSE x \in VoxelsIn[c] : TRUE) \in Tile
             /\ \A x \in VoxelsIn[c] : Stored(T, x) = Stored(T, CHOOSE y \in VoxelsIn[c] : TRUE)
  <2>1. c \in Cells /\ \A x, y \in VoxelsIn[c] : Stored(T, x) = Stored(T, y)
    BY <1>1
  <2>2. (CHOOSE x \in VoxelsIn[c] : TRUE) \in VoxelsIn[c]
    BY <2>1, VoxelInside
  <2>3. (CHOOSE x \in VoxelsIn[c] : TRUE) \in Cells
    BY <2>1, <2>2, VoxelInside DEF Voxels
  <2> QED
    BY <2>1, <2>2, <2>3, StoredType
<1>3. PruneChildren(T) = U
  BY DEF PruneChildren
<1> HIDE DEF N
<1>4. DOMAIN U = {c \in DOMAIN T : Parents[c] \intersect N = {}}
  BY <1>1, NotBelow
<1>5. \A c \in DOMAIN U : U[c] = IF c \in N THEN Stored(T, CHOOSE x \in VoxelsIn[c] : TRUE) ELSE T[c]
  OBVIOUS
<1> HIDE DEF U
<1>6. MergedAt(T, N, U)
  BY <1>1, <1>2, <1>4, <1>5 DEF MergedAt
<1>7. WellFormed(U)
  BY <1>6, MergedShape
<1>8. ASSUME NEW x \in Voxels PROVE Stored(U, x) = Stored(T, x)
  <2>1. CASE \E d \in Above[x] \intersect N : d \in DOMAIN U /\ Stored(U, x) = U[d]
    <3>1. PICK d \in Above[x] \intersect N : d \in DOMAIN U /\ Stored(U, x) = U[d]
      BY <2>1
    <3>2. x \in VoxelsIn[d]
      BY <1>1, <3>1, VoxelInside
    <3> QED
      BY <1>2, <1>5, <3>1, <3>2
  <2> QED
    BY <1>6, <2>1, MergedContents
<1> QED
  BY <1>3, <1>4, <1>7, <1>8

\* Two trees with the same tiles above a voxel hold the same there.
LEMMA SameTiles ==
    ASSUME NEW T, WellFormed(T), NEW U, WellFormed(U), NEW x \in Voxels,
           \A d \in Above[x] : /\ d \in DOMAIN T <=> d \in DOMAIN U
                               /\ d \in DOMAIN T => T[d] = U[d]
    PROVE  Stored(T, x) = Stored(U, x)
<1>1. x \in Cells
  BY DEF Voxels
<1>2. \A d \in Above[x] : (IsTile(T, d) <=> IsTile(U, d)) /\ (IsTile(T, d) => T[d] = U[d])
  BY DEF IsTile
<1>3. CASE \E d \in Above[x] : IsTile(T, d)
  BY <1>1, <1>2, <1>3, StoredTile
<1>4. CASE \A d \in Above[x] : ~ IsTile(T, d)
  BY <1>2, <1>4, StoredNone
<1> QED
  BY <1>3, <1>4

\* combine() and combine2() with or without pruning: CombinedLemma goes for both.
LEMMA ResultLemma ==
    ASSUME PairTypeOK, NEW op \in CombineOps, NEW prune \in BOOLEAN
    PROVE  LET Z == MaybePruned(Combined(tree, other, op), prune)
           IN  /\ WellFormed(Z)
               /\ \A d \in DOMAIN Z : KeyOf[d] \in DOMAIN tree \union DOMAIN other
               /\ \A x \in Voxels : KeyOf[x] \in DOMAIN tree \union DOMAIN other =>
                     Stored(Z, x) = op[Map[x], Theirs(x)]
<1> DEFINE C == Combined(tree, other, op)
           Z == MaybePruned(C, prune)
<1>1. /\ WellFormed(C)
      /\ \A d \in DOMAIN C : KeyOf[d] \in DOMAIN tree \union DOMAIN other
  BY CombinedLemma
<1>2. \A x \in Voxels : KeyOf[x] \in DOMAIN tree \union DOMAIN other =>
         Stored(C, x) = op[Map[x], Theirs(x)]
  BY CombinedLemma
<1>3. mBackground \in Values
  BY DEF PairTypeOK
<1> HIDE DEF C
<1>4. /\ WellFormed(Z) /\ DOMAIN Z \subseteq DOMAIN C
      /\ \A x \in Voxels : Stored(Z, x) = Stored(C, x)
  BY <1>1, <1>3, PruneChildrenLemma DEF MaybePruned
<1> HIDE DEF Z
<1>5. \A d \in DOMAIN Z : KeyOf[d] \in DOMAIN tree \union DOMAIN other
  BY <1>1, <1>4
<1>6. \A x \in Voxels : KeyOf[x] \in DOMAIN tree \union DOMAIN other =>
         Stored(Z, x) = op[Map[x], Theirs(x)]
  BY <1>2, <1>4
<1> QED
  BY <1>4, <1>5, <1>6 DEF Z, C

\* A tree Z below the keys K, and a tree R below all others, are one tree.
LEMMA IntoLemma ==
    ASSUME NEW Z, WellFormed(Z), NEW R, WellFormed(R), NEW K,
           \A d \in DOMAIN Z : KeyOf[d] \in K,
           NEW U, DOMAIN U = DOMAIN Z \union {d \in DOMAIN R : KeyOf[d] \notin K},
           \A d \in DOMAIN U : U[d] = IF KeyOf[d] \in K THEN Z[d] ELSE R[d]
    PROVE  /\ WellFormed(U)
           /\ \A x \in Voxels : Stored(U, x) = IF KeyOf[x] \in K THEN Stored(Z, x) ELSE Stored(R, x)
<1>1. ASSUME NEW d \in Cells
      PROVE  /\ KeyOf[d] \in K => (d \in DOMAIN U <=> d \in DOMAIN Z)
             /\ KeyOf[d] \notin K => (d \in DOMAIN U <=> d \in DOMAIN R)
  OBVIOUS
<1>2. ASSUME NEW d \in Cells, NEW e \in Above[d] PROVE e \in Cells /\ KeyOf[e] = KeyOf[d]
  <2>1. e \in Cells /\ Above[e] \subseteq Above[d]
    BY <1>2, Chain
  <2>2. KeyOf[e] \in Above[d] /\ Level[KeyOf[e]] = RootLevel
    BY <2>1, KeyFacts
  <2> QED
    BY <1>2, <2>1, <2>2, KeyFacts
<1>3. DOMAIN U \subseteq Cells
  BY Shape
<1>4. ASSUME NEW d \in DOMAIN U
      PROVE  /\ U[d] \in Tile \union {Child}
             /\ \A e \in Parents[d] : e \in DOMAIN U /\ U[e] = Child
             /\ U[d] = Child => Level[d] > 0 /\ Slots[d] \subseteq DOMAIN U
  <2>1. /\ d \in Cells
        /\ \A e \in Parents[d] : e \in Cells /\ KeyOf[e] = KeyOf[d]
        /\ \A e \in Slots[d] : e \in Cells /\ KeyOf[e] = KeyOf[d]
    <3>1. \A e \in Parents[d] : e \in Above[d]
      BY <1>3, Chain
    <3>2. \A e \in Slots[d] : e \in Cells /\ d \in Above[e]
      BY <1>3, SlotFacts, Chain
    <3> QED
      BY <1>2, <1>3, <3>1, <3>2
  <2>2. CASE KeyOf[d] \in K
    <3>1. d \in DOMAIN Z /\ U[d] = Z[d]
      BY <1>1, <2>1, <2>2
    <3>2. /\ Z[d] \in Tile \union {Child}
          /\ \A e \in Parents[d] : e \in DOMAIN Z /\ Z[e] = Child
          /\ Z[d] = Child => Level[d] > 0 /\ Slots[d] \subseteq DOMAIN Z
      BY <3>1, Shape
    <3>3. \A e \in Parents[d] : e \in DOMAIN U /\ U[e] = Child
      BY <2>1, <2>2, <3>2
    <3> QED
      BY <3>1, <3>2, <3>3
  <2>3. CASE KeyOf[d] \notin K
    <3>1. d \in DOMAIN R /\ U[d] = R[d]
      BY <1>1, <2>1, <2>3
    <3>2. /\ R[d] \in Tile \union {Child}
          /\ \A e \in Parents[d] : e \in DOMAIN R /\ R[e] = Child
          /\ R[d] = Child => Level[d] > 0 /\ Slots[d] \subseteq DOMAIN R
      BY <3>1, Shape
    <3>3. \A e \in Parents[d] : e \in DOMAIN U /\ U[e] = Child
      BY <2>1, <2>3, <3>2
    <3>4. R[d] = Child => Slots[d] \subseteq DOMAIN U
      BY <1>1, <2>1, <2>3, <3>2
    <3> QED
      BY <3>1, <3>2, <3>3, <3>4
  <2> QED
    BY <2>2, <2>3
<1>5. WellFormed(U)
  BY <1>3, <1>4 DEF WellFormed, IsChild
<1>6. ASSUME NEW x \in Voxels
      PROVE  Stored(U, x) = IF KeyOf[x] \in K THEN Stored(Z, x) ELSE Stored(R, x)
  <2>1. x \in Cells /\ \A d \in Above[x] : d \in Cells /\ KeyOf[d] = KeyOf[x]
    BY <1>2 DEF Voxels
  <2>2. CASE KeyOf[x] \in K
    <3>1. \A d \in Above[x] : /\ d \in DOMAIN U <=> d \in DOMAIN Z
                              /\ d \in DOMAIN U => U[d] = Z[d]
      BY <1>1, <2>1, <2>2
    <3> QED
      BY <1>5, <2>2, <3>1, SameTiles
  <2>3. CASE KeyOf[x] \notin K
    <3>1. \A d \in Above[x] : /\ d \in DOMAIN U <=> d \in DOMAIN R
                              /\ d \in DOMAIN U => U[d] = R[d]
      BY <1>1, <2>1, <2>3
    <3> QED
      BY <1>5, <2>3, <3>1, SameTiles
  <2> QED
    BY <2>2, <2>3
<1> QED
  BY <1>5, <1>6

LEMMA CombinedIntoLemma ==
    ASSUME PairTypeOK, NEW op \in CombineOps, NEW prune \in BOOLEAN, NEW R, WellFormed(R)
    PROVE  /\ WellFormed(CombinedInto(R, tree, other, op, prune))
           /\ \A x \in Voxels :
                 Stored(CombinedInto(R, tree, other, op, prune), x)
                    = IF KeyOf[x] \in DOMAIN tree \union DOMAIN other
                      THEN op[Map[x], Theirs(x)] ELSE Stored(R, x)
<1> DEFINE Z == MaybePruned(Combined(tree, other, op), prune)
           K == DOMAIN tree \union DOMAIN other
           kept == {d \in DOMAIN R : KeyOf[d] \notin K}
           U == CombinedInto(R, tree, other, op, prune)
<1>1. WellFormed(Z) /\ \A d \in DOMAIN Z : KeyOf[d] \in K
  BY ResultLemma
<1>2. \A x \in Voxels : KeyOf[x] \in K => Stored(Z, x) = op[Map[x], Theirs(x)]
  BY ResultLemma
<1>3. U = [d \in DOMAIN Z \union kept |-> IF d \in kept THEN R[d] ELSE Z[d]]
  BY DEF CombinedInto
<1> HIDE DEF Z, K, U
<1>4. DOMAIN U = DOMAIN Z \union kept
  BY <1>3
<1>5. \A d \in DOMAIN U : U[d] = IF KeyOf[d] \in K THEN Z[d] ELSE R[d]
  BY <1>1, <1>3
<1>6. /\ WellFormed(U)
      /\ \A x \in Voxels : Stored(U, x) = IF KeyOf[x] \in K THEN Stored(Z, x) ELSE Stored(R, x)
  BY <1>1, <1>4, <1>5, IntoLemma
<1>7. \A x \in Voxels :
         Stored(U, x) = IF KeyOf[x] \in K THEN op[Map[x], Theirs(x)] ELSE Stored(R, x)
  BY <1>2, <1>6
<1> QED
  BY <1>6, <1>7 DEF U, K

LEMMA EmptyFits == WellFormed(Empty)
  BY DEF WellFormed, Empty

LEMMA CombineContract == PairTypeOK => CombineMeetsContract
<1> SUFFICES ASSUME PairTypeOK, NEW op \in CombineOps, NEW prune \in BOOLEAN, NEW x \in Voxels
             PROVE  LET stored == KeyOf[x] \in DOMAIN tree \union DOMAIN other
                        result == op[Map[x], Theirs(x)]
                        into == [R \in {Empty, other} |-> CombinedInto(R, tree, other, op, prune)]
                    IN  /\ stored => Stored(MaybePruned(Combined(tree, other, op), prune), x) = result
                        /\ \A R \in {Empty, other} :
                              Stored(into[R], x) = IF stored THEN result ELSE Stored(R, x)
  BY DEF CombineMeetsContract
<1>1. KeyOf[x] \in DOMAIN tree \union DOMAIN other =>
         Stored(MaybePruned(Combined(tree, other, op), prune), x) = op[Map[x], Theirs(x)]
  BY ResultLemma
<1>2. \A R \in {Empty, other} : WellFormed(R)
  BY EmptyFits DEF PairTypeOK
<1>3. ASSUME NEW R, WellFormed(R)
      PROVE  Stored(CombinedInto(R, tree, other, op, prune), x)
                = IF KeyOf[x] \in DOMAIN tree \union DOMAIN other
                  THEN op[Map[x], Theirs(x)] ELSE Stored(R, x)
  BY <1>3, CombinedIntoLemma
<1> DEFINE into == [R \in {Empty, other} |-> CombinedInto(R, tree, other, op, prune)]
<1>4. \A R \in {Empty, other} : into[R] = CombinedInto(R, tree, other, op, prune)
  OBVIOUS
<1> HIDE DEF into
<1>5. \A R \in {Empty, other} :
         Stored(into[R], x) = IF KeyOf[x] \in DOMAIN tree \union DOMAIN other
                              THEN op[Map[x], Theirs(x)] ELSE Stored(R, x)
  BY <1>2, <1>3, <1>4
<1> QED
  BY <1>1, <1>5 DEF into

-------------------------------------------------------------------------------
(* The theorems.                                                           *)

LEMMA HeldCell ==
    ASSUME NEW T, WellFormed(T), NEW b \in Values, NEW c \in Cells
    PROVE  Held(T, b, c) \in Tile
<1>1. CASE \E d \in Above[c] : IsTile(T, d)
  <2>1. PICK d \in Above[c] : IsTile(T, d)
    BY <1>1
  <2>2. Held(T, b, c) = T[d]
    BY <2>1, OneTile, HeldTile
  <2> QED
    BY <2>1, <2>2, Shape DEF IsTile
<1>2. CASE \A d \in Above[c] : ~ IsTile(T, d)
  BY <1>2, HeldNone, OpsTyped
<1> QED
  BY <1>1, <1>2

\* The background that combine() computes is a value.
LEMMA BackgroundCombined ==
    ASSUME PairTypeOK, NEW op \in CombineOps, NEW states \in StatesLeft(tree, other)
    PROVE  CombinedBackground(op, states) \in Values
<1>1. WellFormed(tree) /\ WellFormed(other) /\ mBackground \in Values /\ otherBackground \in Values
  BY DEF PairTypeOK
<1>2. states[1] \in BOOLEAN /\ states[2] \in BOOLEAN
  <2>1. \/ states = <<FALSE, FALSE>>
        \/ \E k \in Keys : states = <<Stored(tree, k).active, Theirs(k).active>>
    BY DEF StatesLeft
  <2>2. ASSUME NEW k \in Keys
        PROVE  Stored(tree, k).active \in BOOLEAN /\ Theirs(k).active \in BOOLEAN
    <3>1. k \in Cells
      BY DEF Keys
    <3>2. Stored(tree, k) \in Tile
      BY <1>1, <3>1, StoredType
    <3>3. Theirs(k) \in Tile
      BY <1>1, <3>1, HeldCell DEF Theirs
    <3> QED
      BY <3>2, <3>3, OpsTyped
  <2>3. PICK on \in BOOLEAN, theirs \in BOOLEAN : states = <<on, theirs>>
    BY <2>1, <2>2
  <2>4. states[1] = on /\ states[2] = theirs
    BY <2>3
  <2> QED
    BY <2>4
<1> DEFINE a == [value |-> mBackground, active |-> states[1]]
           b == [value |-> otherBackground, active |-> states[2]]
<1>3. a \in Tile /\ b \in Tile
  BY <1>1, <1>2, TypedTiles
<1>4. CombinedBackground(op, states) = op[a, b].value
  BY DEF CombinedBackground
<1> HIDE DEF a, b
<1>5. op[a, b] \in Tile
  BY <1>3, FunctorsTyped
<1> DEFINE t == op[a, b]
<1>6. t \in Tile /\ CombinedBackground(op, states) = t.value
  BY <1>4, <1>5
<1> HIDE DEF t
<1> QED
  BY <1>6, TileFacts, ContentsTyped

LEMMA CopiedTopology ==
    ASSUME PairTypeOK, NEW off \in CopyValues, NEW on \in CopyValues
    PROVE  WellFormed(Retiled(other, LAMBDA t : [t EXCEPT !.value = IF t.active THEN on ELSE off]))
<1> DEFINE U == Retiled(other, LAMBDA t : [t EXCEPT !.value = IF t.active THEN on ELSE off])
<1>1. WellFormed(other) /\ off \in Values /\ on \in Values
  BY PairsTyped DEF PairTypeOK
<1>2. ASSUME NEW t \in Tile
      PROVE  [t EXCEPT !.value = IF t.active THEN on ELSE off] \in Tile
  BY <1>1 DEF Tile
<1>3. /\ DOMAIN U = DOMAIN other
      /\ \A c \in DOMAIN other :
            U[c] = IF other[c] = Child THEN Child
                   ELSE [other[c] EXCEPT !.value = IF other[c].active THEN on ELSE off]
  BY DEF Retiled
<1> HIDE DEF U
<1>4. \A c \in DOMAIN other : /\ other[c] = Child => U[c] = Child
                              /\ other[c] # Child => U[c] \in Tile
  <2>1. \A c \in DOMAIN other : other[c] # Child => other[c] \in Tile
    BY <1>1, Shape
  <2> QED
    BY <1>2, <1>3, <2>1
<1>5. WellFormed(U)
  BY <1>1, <1>3, <1>4, RetileLemma
<1> QED
  BY <1>5 DEF U

LEMMA PairTypeInit == PairInit => PairTypeOK
<1> SUFFICES ASSUME PairInit PROVE PairTypeOK
  OBVIOUS
<1>1. PICK s \in Starts : /\ tree = s.tree /\ mBackground = s.background
                          /\ other = s.other /\ otherBackground = s.otherBackground
  BY DEF PairInit
<1> QED
  BY <1>1, PairsTyped DEF PairTypeOK

LEMMA PairTypeStep == PairTypeOK /\ [PairNext]_pairVars => PairTypeOK'
<1> SUFFICES ASSUME PairTypeOK, [PairNext]_pairVars PROVE PairTypeOK'
  OBVIOUS
<1>1. WellFormed(tree) /\ WellFormed(other) /\ mBackground \in Values /\ otherBackground \in Values
  BY DEF PairTypeOK
<1>2. ASSUME NEW T, WellFormed(T), NEW S, WellFormed(S), NEW b \in Values,
             tree' = T, other' = S, mBackground' = b, otherBackground' = otherBackground
      PROVE  PairTypeOK'
  <2>1. WellFormed(tree)' /\ WellFormed(other)'
    BY <1>2 DEF WellFormed, IsChild
  <2> QED
    BY <1>1, <1>2, <2>1 DEF PairTypeOK
<1>3. ASSUME NEW policy \in Policies, Merge(policy) PROVE PairTypeOK'
  BY <1>1, <1>2, <1>3, MergeLemma, EmptyFits DEF Merge
<1>4. ASSUME NEW op \in CombineOps, NEW prune \in BOOLEAN, Combine(op, prune) PROVE PairTypeOK'
  <2>1. WellFormed(MaybePruned(Combined(tree, other, op), prune))
    BY ResultLemma
  <2>2. PICK states \in StatesLeft(tree, other) : mBackground' = CombinedBackground(op, states)
    BY <1>4 DEF Combine
  <2> QED
    BY <1>2, <1>4, <2>1, <2>2, BackgroundCombined, EmptyFits DEF Combine
<1>5. ASSUME NEW op \in CombineOps, NEW prune \in BOOLEAN, NEW R \in {Empty, other},
             Combine2(R, op, prune)
      PROVE  PairTypeOK'
  <2>1. WellFormed(R)
    BY <1>1, EmptyFits
  <2>2. WellFormed(CombinedInto(R, tree, other, op, prune))
    BY <2>1, CombinedIntoLemma
  <2>3. PICK states \in StatesLeft(tree, other) : mBackground' = CombinedBackground(op, states)
    BY <1>5 DEF Combine2
  <2> QED
    BY <1>1, <1>2, <1>5, <2>2, <2>3, BackgroundCombined DEF Combine2
<1>6. ASSUME NEW T, WellFormed(T), Topology(T) PROVE PairTypeOK'
  BY <1>1, <1>2, <1>6 DEF Topology
<1>7. CASE \E preserveTiles \in BOOLEAN : Topology(Union(tree, other, preserveTiles))
  BY <1>6, <1>7, TopologyShape
<1>8. CASE Topology(Intersection(tree, other)) \/ Topology(Difference(tree, other))
  BY <1>6, <1>8, TopologyShape
<1>9. CASE CopyTree
  BY <1>1, <1>2, <1>9 DEF CopyTree
<1>10. ASSUME NEW off \in CopyValues, NEW on \in CopyValues, CopyTopology(off, on)
       PROVE  PairTypeOK'
  <2>1. off \in Values
    BY PairsTyped
  <2> QED
    BY <1>1, <1>2, <1>10, <2>1, CopiedTopology DEF CopyTopology
<1>11. CASE UNCHANGED pairVars
  BY <1>1, <1>2, <1>11 DEF pairVars
<1> QED
  BY <1>3, <1>4, <1>5, <1>7, <1>8, <1>9, <1>10, <1>11 DEF PairNext

\* Whatever operations of two trees follow each other, both are trees, although
\* nodes are moved from one to the other (stealChild, stealLeaf, merge).
THEOREM PairTypeCorrect == PairSpec => []PairTypeOK
<1>1. PairInit => PairTypeOK
  BY PairTypeInit
<1>2. PairTypeOK /\ [PairNext]_pairVars => PairTypeOK'
  BY PairTypeStep
<1> QED
  BY <1>1, <1>2, PTL DEF PairSpec

\* In every reachable pair of trees, topologyUnion, topologyIntersection and
\* topologyDifference make of the active states their union, intersection and
\* difference, voxel by voxel, and of the values and nodes what their contract says.
THEOREM TopologyCorrect == PairSpec => []TopologyMeetsContract
<1>1. PairTypeOK => TopologyMeetsContract
  BY TopologyContract
<1> QED
  BY <1>1, PairTypeCorrect, PTL

\* In every reachable pair of trees, merge() leaves in every voxel what one of the
\* two trees held, active if either was, and all nodes if it merges nodes.
THEOREM MergeCorrect == PairSpec => []MergeMeetsContract
<1>1. PairTypeOK => MergeMeetsContract
  BY MergeContract
<1> QED
  BY <1>1, PairTypeCorrect, PTL

\* In every reachable pair of trees, combine() and combine2() apply the functor to
\* what the two trees hold, this tree's value first, whichever has the node; pruning
\* does not show.
THEOREM CombineCorrect == PairSpec => []CombineMeetsContract
<1>1. PairTypeOK => CombineMeetsContract
  BY CombineContract
<1> QED
  BY <1>1, PairTypeCorrect, PTL

-------------------------------------------------------------------------------
(* The ends of a descent, for any two trees.                               *)

\* The branch of a tree at an end, and what the two trees hold there.
LEMMA EndOf ==
    ASSUME NEW T, NEW S, WellFormed(T), WellFormed(S), NEW c \in Met(T, S), mBackground \in Values
    PROVE  /\ c \in Cells /\ ~ (IsChild(T, c) /\ IsChild(S, c))
           /\ \A p \in Parents[c] : IsChild(T, p) /\ IsChild(S, p)
           /\ c \in Keys \/ (c \in DOMAIN T /\ c \in DOMAIN S)
           /\ Fits(Branch(T, c), c)
           /\ \A x \in Voxels : c \in Above[x] =>
                 /\ Held(Branch(T, c), mBackground, x) = Stored(T, x)
                 /\ IsTile(T, c) => Stored(T, x) = T[c] /\ T[c] \in Tile
                 /\ c \notin DOMAIN T => Stored(T, x) = BackgroundTile
                 /\ \A b : /\ IsTile(S, c) => Held(S, b, x) = S[c] /\ S[c] \in Tile
                           /\ c \notin DOMAIN S => Held(S, b, x) = Off(b)
<1>1. /\ c \in Cells /\ c \notin Both(T, S)
      /\ \A p \in Parents[c] : IsChild(T, p) /\ IsChild(S, p)
      /\ c \in Keys \/ (c \in DOMAIN T /\ c \in DOMAIN S)
  BY MetFacts
<1>2. ~ (IsChild(T, c) /\ IsChild(S, c))
  BY <1>1 DEF Both, Nodes
<1>3. Fits(Branch(T, c), c)
  BY <1>1, BranchFits
<1>4. ASSUME NEW x \in Voxels, c \in Above[x]
      PROVE  Held(Branch(T, c), mBackground, x) = Stored(T, x)
  BY <1>1, <1>4, BranchHeld, StoredHeld
<1>5. ASSUME NEW x \in Voxels, c \in Above[x], NEW R, WellFormed(R), IsTile(R, c), NEW b
      PROVE  Held(R, b, x) = R[c] /\ R[c] \in Tile
  <2>1. x \in Cells
    BY DEF Voxels
  <2> QED
    BY <1>5, <2>1, OneTile, HeldTile, Shape DEF IsTile
<1>6. ASSUME NEW x \in Voxels, c \in Above[x], NEW R, WellFormed(R), c \notin DOMAIN R,
             \A p \in Parents[c] : IsChild(R, p), NEW b
      PROVE  Held(R, b, x) = Off(b)
  <2>1. x \in Cells
    BY DEF Voxels
  <2>2. ASSUME NEW d \in Above[x], IsTile(R, d) PROVE FALSE
    <3>1. d \in DOMAIN R /\ R[d] # Child
      BY <2>2 DEF IsTile
    <3>2. c = d \/ c \in Parents[d] \/ d \in Parents[c]
      BY <1>6, <2>1, Chain
    <3>3. c \in Parents[d] => c \in DOMAIN R
      BY <1>6, <3>1, Shape
    <3> QED
      BY <1>6, <3>1, <3>2, <3>3 DEF IsChild
  <2> QED
    BY <2>2, HeldNone
<1>7. BackgroundTile = Off(mBackground)
  BY DEF BackgroundTile
<1> QED
  BY <1>1, <1>2, <1>3, <1>4, <1>5, <1>6, <1>7, StoredHeld

\* The ends are above every voxel that one of the trees has a key for.
LEMMA EndOrNone ==
    ASSUME NEW T, NEW S, WellFormed(T), WellFormed(S), NEW x \in Voxels
    PROVE  \/ \E c \in Met(T, S) : c \in Above[x]
           \/ KeyOf[x] \notin DOMAIN T /\ KeyOf[x] \notin DOMAIN S
<1>1. x \in Cells /\ Level[x] = 0
  BY DEF Voxels
<1>2. x \notin Both(T, S)
  BY <1>1, BothFacts
<1> QED
  BY <1>1, <1>2, MetAbove

\* Without a key a tree is background.
LEMMA KeyNone ==
    ASSUME NEW T, WellFormed(T), NEW x \in Voxels, KeyOf[x] \notin DOMAIN T, NEW b
    PROVE  Held(T, b, x) = Off(b)
<1>1. x \in Cells
  BY DEF Voxels
<1>2. ASSUME NEW d \in Above[x] PROVE d \notin DOMAIN T
  <2>1. d \in Cells /\ KeyOf[d] \in Above[x] /\ Level[KeyOf[d]] = RootLevel
    BY <1>1, KeyFacts, Chain
  <2>2. KeyOf[d] = KeyOf[x]
    BY <1>1, <2>1, KeyFacts
  <2> QED
    BY <2>2, KeyThere
<1> QED
  BY <1>2, HeldNone DEF IsTile

\* A node of another tree, copied and moved to the background of this one.
LEMMA CopiedFits ==
    ASSUME NEW S, WellFormed(S.tree), S.background \in Values, mBackground \in Values,
           NEW c \in Cells, \A p \in Parents[c] : IsChild(S.tree, p), IsChild(S.tree, c)
    PROVE  /\ Fits(Copied(S, c), c)
           /\ Copied(S, c) = MapTiles(Branch(S.tree, c), Rebasing(S.background, mBackground))
           /\ \A x \in Voxels : c \in Above[x] =>
                 /\ Held(S.tree, S.background, x) \in Tile
                 /\ Held(Copied(S, c), mBackground, x)
                      = Rebasing(S.background, mBackground)[Held(S.tree, S.background, x)]
           /\ c \in DOMAIN Copied(S, c) /\ Copied(S, c)[c] = Child
<1> DEFINE f == Rebasing(S.background, mBackground)
<1>1. Fits(Branch(S.tree, c), c)
  BY BranchFits
<1>2. Copied(S, c) = MapTiles(Branch(S.tree, c), f)
  BY <1>1, RebasedMaps DEF Copied
<1>3. f \in [Tile -> Tile]
  BY RebasingFacts
<1> HIDE DEF f
<1>4. /\ Fits(MapTiles(Branch(S.tree, c), f), c)
      /\ \A d \in Cells : IsChild(MapTiles(Branch(S.tree, c), f), d)
                            <=> c \in Above[d] /\ IsChild(S.tree, d)
      /\ \A x \in Voxels : c \in Above[x] =>
            \A b, e \in Values :
               Held(MapTiles(Branch(S.tree, c), f), b, x) = f[Held(S.tree, e, x)]
  BY <1>3, NodeMapped
<1>5. \A x \in Voxels : Held(S.tree, S.background, x) \in Tile
  BY HeldCell DEF Voxels
<1>6. c \in Above[c]
  BY Chain
<1> QED
  BY <1>2, <1>4, <1>5, <1>6 DEF f, IsChild

-------------------------------------------------------------------------------
(* Level sets.                                                             *)

\* What inactive tiles hold.
LEMMA OffFacts ==
    /\ \A v : Off(v).value = v /\ Off(v).active = FALSE
    /\ \A v, w : Off(v) = Off(w) <=> v = w
    /\ \A v \in Values : Off(v) \in Tile /\ Off(v) # Child
    /\ BackgroundTile = Off(mBackground)
<1>1. /\ \A v : Off(v).value = v /\ Off(v).active = FALSE
      /\ BackgroundTile = Off(mBackground)
  BY DEF Off, BackgroundTile
<1>2. \A v, w : Off(v) = Off(w) <=> v = w
  <2>1. ASSUME NEW v, NEW w, Off(v) = Off(w) PROVE v = w
    <3>1. Off(v).value = Off(w).value
      BY <2>1
    <3> QED
      BY <1>1, <3>1
  <2> QED
    BY <2>1
<1>3. \A v \in Values : Off(v) \in Tile /\ Off(v) # Child
  BY OpsTyped, ContentsTyped
<1> QED
  BY <1>1, <1>2, <1>3

\* The negative of a tile.
LEMMA ValueFacts ==
    /\ \A v \in Values : v \in Int /\ -v \in Values
    /\ \A t \in Tile : /\ t # Child /\ t.value \in Values /\ t.value \in Int /\ t.active \in BOOLEAN
                       /\ [t EXCEPT !.value = -@] \in Tile
                       /\ [t EXCEPT !.value = -@].value = -t.value
                       /\ \A v \in Values : [t EXCEPT !.value = v] \in Tile
<1>1. \A v \in Values : v \in Int /\ -v \in Values
  BY ContentsTyped
<1>2. ASSUME NEW t \in Tile
      PROVE  /\ t # Child /\ t.value \in Values /\ t.value \in Int /\ t.active \in BOOLEAN
             /\ [t EXCEPT !.value = -@] \in Tile
             /\ [t EXCEPT !.value = -@].value = -t.value
             /\ \A v \in Values : [t EXCEPT !.value = v] \in Tile
  <2>1. t # Child /\ t.value \in Values /\ t.value \in Int /\ t.active \in BOOLEAN
    BY <1>1, OpsTyped, ContentsTyped
  <2>2. [t EXCEPT !.value = -@].value = -t.value
    BY DEF Tile
  <2> QED
    BY <2>1, <2>2, WrittenTyped
<1> QED
  BY <1>1, <1>2

\* A change of background keeps signs, and moves the values of the background.
LEMMA RebasingSigns ==
    ASSUME NEW from \in Values, NEW to \in Values, from > 0, to > 0
    PROVE  /\ \A t \in Tile : LET r == Rebasing(from, to)[t] IN
                 /\ r \in Tile
                 /\ r.value < 0 <=> t.value < 0
                 /\ r.value > 0 <=> t.value > 0
                 /\ from = to => r = t
           /\ Rebasing(from, to)[Off(from)] = Off(to)
           /\ Rebasing(from, to)[Off(-from)] = Off(-to)
<1>1. from \in Int /\ to \in Int /\ -from \in Values /\ -to \in Values /\ from # -from
  BY ValueFacts
<1>2. \A t \in Tile : Rebasing(from, to)[t] = IF t = Off(from) THEN Off(to)
                                              ELSE IF t = Off(-from) THEN Off(-to) ELSE t
  BY DEF Rebasing
<1>3. Off(from) \in Tile /\ Off(-from) \in Tile /\ Off(to) \in Tile /\ Off(-to) \in Tile
  BY <1>1, OffFacts
<1>4. ASSUME NEW t \in Tile
      PROVE  LET r == Rebasing(from, to)[t] IN
             /\ r \in Tile
             /\ r.value < 0 <=> t.value < 0
             /\ r.value > 0 <=> t.value > 0
             /\ from = to => r = t
  <2>1. CASE t = Off(from)
    BY <1>1, <1>2, <1>3, <2>1, OffFacts
  <2>2. CASE t = Off(-from)
    BY <1>1, <1>2, <1>3, <2>2, OffFacts
  <2>3. CASE t # Off(from) /\ t # Off(-from)
    BY <1>2, <2>3
  <2> QED
    BY <2>1, <2>2, <2>3
<1> QED
  BY <1>1, <1>2, <1>3, <1>4, OffFacts

\* In a level set all values are in the band, and tiles are at its ends.
LEMMA InBand ==
    ASSUME NEW T, WellFormed(T), NEW b \in Values, IsLevelSet(T, b), NEW x \in Voxels
    PROVE  /\ b > 0 /\ b \in Int
           /\ Held(T, b, x) \in Tile /\ Held(T, b, x).value \in -b .. b
           /\ \A c \in Cells : IsTile(T, c) /\ Level[c] > 0 => T[c] \in {Off(b), Off(-b)}
<1>1. b > 0 /\ b \in Int /\ x \in Cells
  BY ValueFacts DEF IsLevelSet, Voxels
<1>2. \A c \in Cells : IsTile(T, c) => c \in DOMAIN T
  BY DEF IsTile
<1>3. \A c \in Cells : IsTile(T, c) =>
         IF Level[c] > 0 THEN T[c] \in {Off(b), Off(-b)} ELSE T[c].value \in -b .. b
  BY <1>2 DEF IsLevelSet
<1>4. Held(T, b, x) \in Tile
  BY <1>1, HeldCell
<1>5. Held(T, b, x).value \in -b .. b
  <2>1. CASE \E d \in Above[x] : IsTile(T, d)
    <3>1. PICK d \in Above[x] : IsTile(T, d)
      BY <2>1
    <3>2. Held(T, b, x) = T[d] /\ d \in Cells
      BY <1>1, <3>1, OneTile, HeldTile, Chain
    <3> QED
      BY <1>1, <1>3, <3>1, <3>2, OffFacts
  <2>2. CASE \A d \in Above[x] : ~ IsTile(T, d)
    BY <1>1, <2>2, HeldNone, OffFacts
  <2> QED
    BY <2>1, <2>2
<1> QED
  BY <1>1, <1>3, <1>4, <1>5

\* Erasing the background tiles of the root table leaves a level set.
LEMMA ErasedLevelSet ==
    ASSUME NEW T, WellFormed(T), mBackground \in Values
    PROVE  LET own == EraseBackgroundTiles(T) IN
           /\ WellFormed(own)
           /\ \A x \in Voxels : Stored(own, x) = Stored(T, x)
           /\ DOMAIN own \subseteq DOMAIN T /\ \A c \in DOMAIN own : own[c] = T[c]
           /\ IsLevelSet(T, mBackground) => IsLevelSet(own, mBackground)
<1> DEFINE own == EraseBackgroundTiles(T)
<1>1. WellFormed(own) /\ \A x \in Voxels : Stored(own, x) = Stored(T, x)
  BY EraseBackgroundLemma
<1>2. DOMAIN own \subseteq DOMAIN T /\ \A c \in DOMAIN own : own[c] = T[c]
  BY DEF EraseBackgroundTiles, EraseKeys
<1> HIDE DEF own
<1>3. IsLevelSet(T, mBackground) => IsLevelSet(own, mBackground)
  BY <1>2 DEF IsLevelSet, IsTile
<1> QED
  BY <1>1, <1>2, <1>3 DEF own

-------------------------------------------------------------------------------
(* CsgDifferenceOp.                                                        *)

\* What the operator makes of an entry at which the descent ends.
CutAt(own, S, prune, c) ==
    LET s == S.tree[c]
        inside == IsTile(own, c) /\ own[c].value < 0
    IN  IF c \notin DOMAIN S.tree THEN Branch(own, c)
        ELSE IF Level[c] = 0
        THEN OneTileAt(c,
                IF prune /\ \E n \in Parents[c] :
                               Level[n] = 1 /\ \A x \in Slots[n] : own[x].value = S.tree[x].value
                THEN BackgroundTile
                ELSE IF own[c].value < -s.value THEN [s EXCEPT !.value = -@] ELSE own[c])
        ELSE IF s # Child /\ s.value < 0 /\ (inside \/ IsChild(own, c))
        THEN OneTileAt(c, [s EXCEPT !.value = mBackground])
        ELSE IF s = Child /\ inside
        THEN Retiled(Copied(S, c), LAMBDA t : [t EXCEPT !.value = -@])
        ELSE Branch(own, c)

\* The negative of a copy.
LEMMA NegatedCopy ==
    ASSUME NEW S, WellFormed(S.tree), S.background \in Values, mBackground \in Values,
           NEW c \in Cells, \A p \in Parents[c] : IsChild(S.tree, p), IsChild(S.tree, c)
    PROVE  LET B == Retiled(Copied(S, c), LAMBDA t : [t EXCEPT !.value = -@])
               f == Rebasing(S.background, mBackground)
           IN  /\ Fits(B, c)
               /\ \A x \in Voxels : c \in Above[x] =>
                     Held(B, mBackground, x) = [f[Held(S.tree, S.background, x)] EXCEPT !.value = -@]
<1> DEFINE C == Copied(S, c)
           B == Retiled(C, LAMBDA t : [t EXCEPT !.value = -@])
           f == Rebasing(S.background, mBackground)
<1>1. /\ Fits(C, c) /\ c \in DOMAIN C
      /\ \A x \in Voxels : c \in Above[x] =>
            /\ Held(S.tree, S.background, x) \in Tile
            /\ Held(C, mBackground, x) = f[Held(S.tree, S.background, x)]
  BY CopiedFits
<1>2. f \in [Tile -> Tile]
  BY RebasingFacts
<1> HIDE DEF C, f
<1>3. /\ DOMAIN B = DOMAIN C
      /\ \A d \in DOMAIN C : B[d] = IF C[d] = Child THEN Child ELSE [C[d] EXCEPT !.value = -@]
  BY DEF Retiled
<1> HIDE DEF B
<1>4. \A d \in DOMAIN C : /\ C[d] = Child => B[d] = Child
                          /\ C[d] # Child => /\ B[d] \in Tile
                                             /\ B[d] = [C[d] EXCEPT !.value = -@]
  <2>1. \A d \in DOMAIN C : C[d] # Child => C[d] \in Tile
    BY <1>1 DEF Fits
  <2> QED
    BY <1>3, <2>1, ValueFacts
<1>5. Fits(B, c)
  BY <1>1, <1>3, <1>4, RetiledFits
<1>6. ASSUME NEW x \in Voxels, c \in Above[x]
      PROVE  Held(B, mBackground, x) = [f[Held(S.tree, S.background, x)] EXCEPT !.value = -@]
  <2>1. PICK d \in DOMAIN C : /\ C[d] # Child
                              /\ \A b \in Values : Held(C, b, x) = C[d] /\ Held(B, b, x) = B[d]
    BY <1>1, <1>3, <1>4, <1>6, RetiledFits
  <2>2. Held(C, mBackground, x) = C[d] /\ Held(B, mBackground, x) = B[d]
    BY <2>1
  <2> QED
    BY <1>1, <1>4, <1>6, <2>1, <2>2
<1> QED
  BY <1>5, <1>6 DEF B, C, f

\* What it makes of an entry is a branch, whatever the trees are.
LEMMA CutFits ==
    ASSUME NEW own, WellFormed(own), NEW S, WellFormed(S.tree), S.background \in Values,
           mBackground \in Values, NEW prune \in BOOLEAN, NEW c \in Met(own, S.tree)
    PROVE  Fits(CutAt(own, S, prune, c), c)
<1> DEFINE s == S.tree[c]
           inside == IsTile(own, c) /\ own[c].value < 0
<1>1. /\ c \in Cells /\ ~ (IsChild(own, c) /\ IsChild(S.tree, c))
      /\ \A p \in Parents[c] : IsChild(own, p) /\ IsChild(S.tree, p)
      /\ c \in Keys \/ (c \in DOMAIN own /\ c \in DOMAIN S.tree)
      /\ Fits(Branch(own, c), c)
  BY EndOf
<1>2. \A t \in Tile : Fits(OneTileAt(c, t), c)
  BY <1>1, TileAtFits
<1>3. CASE c \notin DOMAIN S.tree
  BY <1>1, <1>3 DEF CutAt
<1>4. CASE c \in DOMAIN S.tree /\ Level[c] = 0
  <2>1. c \in DOMAIN own /\ own[c] \in Tile /\ s \in Tile
    BY <1>1, <1>4, Shape, RootLevelNat DEF Keys
  <2>2. BackgroundTile \in Tile /\ [s EXCEPT !.value = -@] \in Tile
    BY <2>1, BackgroundTyped, ValueFacts
  <2> QED
    BY <1>2, <1>4, <2>1, <2>2 DEF CutAt
<1>5. CASE c \in DOMAIN S.tree /\ Level[c] # 0
  <2>1. CASE s # Child /\ s.value < 0 /\ (inside \/ IsChild(own, c))
    <3>1. s \in Tile
      BY <1>5, <2>1, Shape
    <3>2. [s EXCEPT !.value = mBackground] \in Tile
      BY <3>1, ValueFacts
    <3> QED
      BY <1>2, <1>5, <2>1, <3>2 DEF CutAt
  <2>2. CASE s = Child /\ inside
    <3>1. IsChild(S.tree, c)
      BY <1>5, <2>2 DEF IsChild
    <3>2. Fits(Retiled(Copied(S, c), LAMBDA t : [t EXCEPT !.value = -@]), c)
      BY <1>1, <3>1, NegatedCopy
    <3> QED
      BY <1>5, <2>2, <3>2 DEF CutAt
  <2>3. CASE /\ ~ (s # Child /\ s.value < 0 /\ (inside \/ IsChild(own, c)))
             /\ ~ (s = Child /\ inside)
    BY <1>1, <1>5, <2>3 DEF CutAt
  <2> QED
    BY <2>1, <2>2, <2>3
<1> QED
  BY <1>3, <1>4, <1>5

\* What a voxel r of the difference holds, where the trees hold t and s, the second
\* with the background b.
CutMeets(b, prune, r, t, s) ==
    \/ prune /\ r = BackgroundTile /\ t.value = s.value
    \/ /\ (r.value < 0) = (t.value < 0 /\ s.value > 0)
       /\ mBackground = b => /\ r \in {t, [s EXCEPT !.value = -@]}
                             /\ r.value >= t.value /\ r.value >= [s EXCEPT !.value = -@].value

\* What the operator makes of an entry of level sets holds what it should.
LEMMA CutHeld ==
    ASSUME NEW own, WellFormed(own), NEW S, WellFormed(S.tree), S.background \in Values,
           mBackground \in Values, NEW prune \in BOOLEAN, NEW c \in Met(own, S.tree),
           IsLevelSet(own, mBackground), IsLevelSet(S.tree, S.background),
           NEW x \in Voxels, c \in Above[x]
    PROVE  CutMeets(S.background, prune, Held(CutAt(own, S, prune, c), mBackground, x),
                    Stored(own, x), Held(S.tree, S.background, x))
<1> DEFINE s == S.tree[c]
           inside == IsTile(own, c) /\ own[c].value < 0
           b == S.background
           m == mBackground
           t == Stored(own, x)
           h == Held(S.tree, b, x)
           neg == [h EXCEPT !.value = -@]
           r == Held(CutAt(own, S, prune, c), m, x)
<1>1. /\ c \in Cells /\ ~ (IsChild(own, c) /\ IsChild(S.tree, c))
      /\ \A p \in Parents[c] : IsChild(own, p) /\ IsChild(S.tree, p)
      /\ c \in Keys \/ (c \in DOMAIN own /\ c \in DOMAIN S.tree)
      /\ Held(Branch(own, c), m, x) = t
      /\ IsTile(own, c) => t = own[c] /\ own[c] \in Tile
      /\ c \notin DOMAIN own => t = BackgroundTile
      /\ IsTile(S.tree, c) => h = s /\ s \in Tile
      /\ c \notin DOMAIN S.tree => h = Off(b)
  BY EndOf
<1>2. ASSUME NEW u \in Tile PROVE Held(OneTileAt(c, u), m, x) = u
  <2>1. c \in Cells
    BY <1>1
  <2>2. \A y \in Voxels, v \in Values : c \in Above[y] => Held(OneTileAt(c, u), v, y) = u
    BY <2>1, TileAtFits
  <2> QED
    BY <2>2
<1>3. /\ m > 0 /\ m \in Int /\ b > 0 /\ b \in Int
      /\ t \in Tile /\ t.value \in -m .. m /\ h \in Tile /\ h.value \in -b .. b
  BY InBand, StoredHeld
<1>4. /\ neg \in Tile /\ neg.value = -h.value /\ t.value \in Int /\ h.value \in Int
      /\ BackgroundTile \in Tile /\ BackgroundTile.value = m /\ Off(b).value = b /\ Off(-b).value = -b
      /\ Off(-m).value = -m /\ BackgroundTile = Off(m) /\ m = mBackground
  BY <1>3, ValueFacts, BackgroundTyped, OffFacts
<1>5. /\ IsTile(own, c) /\ Level[c] > 0 => t.value = m \/ t.value = -m
      /\ IsTile(S.tree, c) /\ Level[c] > 0 => h = Off(b) \/ h = Off(-b)
  BY <1>1, <1>4, InBand
<1>6. /\ IsChild(own, c) <=> c \in DOMAIN own /\ ~ IsTile(own, c)
      /\ IsTile(own, c) => c \in DOMAIN own
      /\ IsChild(S.tree, c) <=> c \in DOMAIN S.tree /\ ~ IsTile(S.tree, c)
      /\ IsTile(S.tree, c) <=> c \in DOMAIN S.tree /\ s # Child
  BY DEF IsChild, IsTile
<1>7. Level[c] \in Nat /\ (Level[c] = 0 => c \notin Keys)
  BY <1>1, Chain, RootLevelNat DEF Keys
<1> SUFFICES CutMeets(b, prune, r, t, h)
  OBVIOUS
<1>8. ASSUME r = t, (t.value < 0) = (t.value < 0 /\ h.value > 0),
             m = b => t.value >= -h.value
      PROVE  CutMeets(b, prune, r, t, h)
  BY <1>4, <1>8 DEF CutMeets
<1> HIDE DEF t, h, neg, r, m, b
<1>9. CASE c \notin DOMAIN S.tree
  <2>1. r = t
    BY <1>1, <1>9 DEF CutAt, r, m
  <2>2. h.value = b
    BY <1>1, <1>4, <1>9
  <2> QED
    BY <1>3, <1>8, <2>1, <2>2
<1>10. CASE c \in DOMAIN S.tree /\ Level[c] = 0
  <2>1. c \in DOMAIN own /\ IsTile(own, c) /\ IsTile(S.tree, c)
    BY <1>1, <1>7, <1>10, Shape
  <2>2. t = own[c] /\ h = s
    BY <1>1, <2>1
  <2>3. c = x
    <3>1. x \in Voxels /\ c \in Voxels
      BY <1>1, <1>10 DEF Voxels
    <3> QED
      BY <3>1, OneVoxel
  <2> DEFINE cancel == \E n \in Parents[c] :
                          Level[n] = 1 /\ \A y \in Slots[n] : own[y].value = S.tree[y].value
  <2>4. cancel => t.value = h.value
    <3> SUFFICES ASSUME cancel PROVE t.value = h.value
      OBVIOUS
    <3>1. PICK n \in Parents[c] : Level[n] = 1 /\ \A y \in Slots[n] : own[y].value = S.tree[y].value
      OBVIOUS
    <3>2. c \in Below[n] /\ n \in Cells
      BY <1>1, Chain DEF Below
    <3>3. Slots[n] = {d \in Below[n] : Level[d] = Level[n] - 1}
      BY <3>2 DEF Slots
    <3>4. c \in Slots[n]
      BY <1>10, <3>1, <3>2, <3>3
    <3> QED
      BY <2>2, <3>1, <3>4
  <2> HIDE DEF cancel
  <2>5. CutAt(own, S, prune, c) =
           OneTileAt(c, IF prune /\ cancel THEN BackgroundTile
                        ELSE IF own[c].value < -s.value THEN [s EXCEPT !.value = -@] ELSE own[c])
    BY <1>10 DEF CutAt, cancel
  <2>6. CASE prune /\ cancel
    <3>1. r = BackgroundTile
      BY <1>2, <1>4, <2>5, <2>6 DEF r
    <3> QED
      BY <2>4, <2>6, <3>1 DEF CutMeets
  <2>7. CASE ~ (prune /\ cancel) /\ own[c].value < -s.value
    <3>1. r = neg
      BY <1>2, <1>4, <2>2, <2>5, <2>7 DEF r, neg
    <3>2. t.value < -h.value
      BY <2>2, <2>7
    <3> QED
      BY <1>3, <1>4, <3>1, <3>2 DEF CutMeets, neg
  <2>8. CASE ~ (prune /\ cancel) /\ ~ (own[c].value < -s.value)
    <3>1. r = t
      BY <1>2, <1>3, <2>2, <2>5, <2>8 DEF r
    <3>2. t.value >= -h.value
      BY <1>4, <2>2, <2>8
    <3> QED
      BY <1>4, <1>8, <3>1, <3>2
  <2> QED
    BY <2>6, <2>7, <2>8
<1>11. CASE c \in DOMAIN S.tree /\ Level[c] # 0
  <2>1. CASE s # Child /\ s.value < 0 /\ (inside \/ IsChild(own, c))
    <3>1. h = s /\ h = Off(-b)
      BY <1>1, <1>3, <1>4, <1>5, <1>6, <1>7, <1>11, <2>1
    <3>2. [s EXCEPT !.value = m] \in Tile /\ [s EXCEPT !.value = m].value = m
      BY <1>3, <3>1, ValueFacts DEF Tile, m
    <3>3. r = [s EXCEPT !.value = m]
      BY <1>2, <1>11, <2>1, <3>2 DEF CutAt, r, m
    <3>4. m = b => r = neg
      <4>1. r = [h EXCEPT !.value = m]
        BY <3>1, <3>3
      <4>2. -h.value = b
        BY <1>3, <1>4, <3>1
      <4> QED
        BY <4>1, <4>2 DEF neg
    <3>5. r.value = m /\ neg.value = b /\ h.value < 0
      BY <1>3, <1>4, <3>1, <3>2, <3>3
    <3> QED
      BY <1>3, <1>4, <3>4, <3>5 DEF CutMeets, neg
  <2>2. CASE s = Child /\ inside
    <3> DEFINE u == Rebasing(b, m)[h]
    <3>1. IsChild(S.tree, c)
      BY <1>6, <1>11, <2>2 DEF IsTile
    <3>2. CutAt(own, S, prune, c) = Retiled(Copied(S, c), LAMBDA v : [v EXCEPT !.value = -@])
      BY <1>11, <2>2 DEF CutAt
    <3>3. r = [u EXCEPT !.value = -@]
      BY <1>1, <3>1, <3>2, NegatedCopy DEF r, m, b, h
    <3>4. /\ u \in Tile /\ (u.value < 0 <=> h.value < 0) /\ (u.value > 0 <=> h.value > 0)
          /\ m = b => u = h
      BY <1>3, RebasingSigns DEF m, b
    <3>5. r.value = -u.value /\ u.value \in Int
      BY <3>3, <3>4, ValueFacts
    <3>6. t.value = -m
      BY <1>1, <1>3, <1>5, <1>7, <1>11, <2>2
    <3>7. m = b => r = neg
      BY <3>3, <3>4 DEF neg
    <3> HIDE DEF u
    <3> QED
      BY <1>3, <1>4, <3>4, <3>5, <3>6, <3>7 DEF CutMeets, neg
  <2>3. CASE /\ ~ (s # Child /\ s.value < 0 /\ (inside \/ IsChild(own, c)))
             /\ ~ (s = Child /\ inside)
    <3>1. r = t
      BY <1>1, <1>11, <2>3 DEF CutAt, r, m
    <3>2. CASE s # Child /\ ~ (s.value < 0)
      <4>1. h = Off(b)
        BY <1>1, <1>3, <1>4, <1>5, <1>6, <1>7, <1>11, <3>2
      <4> QED
        BY <1>3, <1>4, <1>8, <3>1, <4>1
    <3>3. CASE ~ inside /\ ~ IsChild(own, c)
      <4>1. t.value = m
        BY <1>1, <1>3, <1>4, <1>5, <1>6, <1>7, <1>11, <3>3
      <4> QED
        BY <1>3, <1>4, <1>8, <3>1, <4>1
    <3>4. CASE s = Child /\ ~ inside
      <4>1. ~ IsChild(own, c)
        BY <1>1, <1>6, <1>11, <3>4
      <4> QED
        BY <3>3, <3>4, <4>1
    <3> QED
      BY <2>3, <3>2, <3>3, <3>4
  <2> QED
    BY <2>1, <2>2, <2>3
<1> QED
  BY <1>9, <1>10, <1>11 DEF r, t, h, m, b

\* The difference is a tree, and holds what it should where both are level sets.
LEMMA DifferenceTool ==
    ASSUME PairTypeOK, NEW prune \in BOOLEAN
    PROVE  /\ WellFormed(CsgDifference(tree, Other, prune))
           /\ IsLevelSet(tree, mBackground) /\ IsLevelSet(other, otherBackground) =>
                 \A x \in Voxels :
                    CutMeets(otherBackground, prune, Stored(CsgDifference(tree, Other, prune), x),
                             Map[x], Theirs(x))
<1> DEFINE own == EraseBackgroundTiles(tree)
           branch == [c \in Met(own, other) |-> CutAt(own, Other, prune, c)]
           J == Joined(own, other, branch)
<1>1. /\ WellFormed(tree) /\ mBackground \in Values /\ WellFormed(other) /\ otherBackground \in Values
      /\ Other.tree = other /\ Other.background = otherBackground
  BY DEF PairTypeOK, Other
<1>2. /\ WellFormed(own) /\ \A x \in Voxels : Stored(own, x) = Stored(tree, x)
      /\ IsLevelSet(tree, mBackground) => IsLevelSet(own, mBackground)
  BY <1>1, ErasedLevelSet
<1>3. CsgDifference(tree, Other, prune) = EraseBackgroundTiles(J)
  BY <1>1 DEF CsgDifference, CutAt
<1> HIDE DEF own
<1>4. /\ DOMAIN branch = Met(own, other)
      /\ \A c \in Met(own, other) : branch[c] = CutAt(own, Other, prune, c)
  OBVIOUS
<1> HIDE DEF branch
<1>5. \A c \in Met(own, other) : Fits(branch[c], c)
  BY <1>1, <1>2, <1>4, CutFits
<1>6. /\ WellFormed(J) /\ WellFormed(EraseBackgroundTiles(J))
      /\ \A x \in Voxels : Stored(EraseBackgroundTiles(J), x) = Stored(J, x)
  BY <1>1, <1>2, <1>4, <1>5, JoinedShape, EraseBackgroundLemma
<1>7. ASSUME IsLevelSet(tree, mBackground), IsLevelSet(other, otherBackground), NEW x \in Voxels
      PROVE  CutMeets(otherBackground, prune, Stored(J, x), Map[x], Theirs(x))
  <2>1. Map[x] = Stored(own, x) /\ Theirs(x) = Held(Other.tree, Other.background, x)
    BY <1>1, <1>2 DEF Map, Contents, Theirs
  <2>2. CASE \E c \in Met(own, other) : c \in Above[x]
    <3>1. PICK c \in Met(own, other) : c \in Above[x]
      BY <2>2
    <3>2. Stored(J, x) = Held(CutAt(own, Other, prune, c), mBackground, x)
      BY <1>1, <1>2, <1>4, <1>5, <3>1, JoinedHeld
    <3>3. CutMeets(Other.background, prune, Held(CutAt(own, Other, prune, c), mBackground, x),
                   Stored(own, x), Held(Other.tree, Other.background, x))
      BY <1>1, <1>2, <1>7, <3>1, CutHeld
    <3> QED
      BY <1>1, <2>1, <3>2, <3>3
  <2>3. CASE KeyOf[x] \notin DOMAIN own /\ KeyOf[x] \notin DOMAIN other
    <3>1. Stored(J, x) = BackgroundTile
      BY <1>1, <1>2, <1>4, <1>5, <2>3, JoinedHeld
    <3>2. Map[x] = Off(mBackground) /\ Theirs(x) = Off(otherBackground)
      BY <1>1, <1>2, <2>1, <2>3, KeyNone, StoredHeld
    <3>3. mBackground > 0 /\ otherBackground > 0 /\ mBackground \in Int /\ otherBackground \in Int
      BY <1>1, <1>7, InBand
    <3>4. /\ Map[x].value = mBackground /\ Theirs(x).value = otherBackground
          /\ [Theirs(x) EXCEPT !.value = -@].value = -otherBackground
          /\ Stored(J, x) = Map[x]
      BY <1>1, <3>1, <3>2, OffFacts, ValueFacts
    <3> QED
      BY <3>3, <3>4 DEF CutMeets
  <2> QED
    BY <1>1, <1>2, <2>2, <2>3, EndOrNone
<1> QED
  BY <1>3, <1>6, <1>7

-------------------------------------------------------------------------------
(* What the union and the intersection hold at a voxel.                    *)

\* A voxel r of the result, where the trees merged so far hold G; level says that
\* they have the background of the result.
Meets(sign, prune, level, r, G) ==
    \/ prune /\ r = Off(-sign * mBackground) /\ \E t, u \in G : t.value = -u.value
    \/ /\ Wins(sign, r) = (\E t \in G : Wins(sign, t))
       /\ Loses(sign, r) = (\A t \in G : Loses(sign, t))
       /\ level => r \in G /\ \A t \in G : sign * r.value <= sign * t.value

Signs == {-1, 1}

\* What a sign does to an integer.
LEMMA SignFacts ==
    ASSUME NEW sign \in Signs, NEW m \in Int
    PROVE  /\ \A v \in Int : /\ sign * v \in Int /\ (v \in -m .. m <=> sign * v \in -m .. m)
                             /\ v = m \/ v = -m <=> sign * v = m \/ sign * v = -m
           /\ \A v, w \in Int : v = w <=> sign * v = sign * w
           /\ \A v, w \in Int : v = -w <=> sign * v = -(sign * w)
           /\ sign * m \in Int /\ -sign * m \in Int
           /\ sign * (sign * m) = m /\ sign * (-sign * m) = -m
           /\ {sign * m, -sign * m} = {m, -m}
<1>1. CASE sign = 1
  <2>1. \A v \in Int : sign * v = v
    BY <1>1
  <2>2. -sign * m = -m
    BY <1>1
  <2> QED
    BY <2>1, <2>2
<1>2. CASE sign = -1
  <2>1. \A v \in Int : sign * v = -v
    BY <1>2
  <2>2. -sign * m = m
    BY <1>2
  <2> QED
    BY <2>1, <2>2
<1> QED
  BY <1>1, <1>2 DEF Signs

\* The worth of a tile: negative if it wins.
LEMMA Worth ==
    ASSUME NEW sign \in Signs, NEW t \in Tile
    PROVE  /\ sign * t.value \in Int
           /\ Wins(sign, t) <=> sign * t.value < 0
           /\ Loses(sign, t) <=> sign * t.value > 0
           /\ Wins(sign, t) \in BOOLEAN /\ Loses(sign, t) \in BOOLEAN
<1>1. t.value \in Int
  BY ValueFacts
<1>2. sign * t.value \in Int
  BY <1>1, SignFacts
<1> QED
  BY <1>2 DEF Wins, Loses

\* The tiles of a level set at its background and the negative of it.
LEMMA BackgroundWorth ==
    ASSUME NEW sign \in Signs, mBackground \in Values
    PROVE  /\ sign * mBackground \in Values /\ -sign * mBackground \in Values
           /\ Off(sign * mBackground) \in Tile /\ Off(-sign * mBackground) \in Tile
           /\ sign * Off(sign * mBackground).value = mBackground
           /\ sign * Off(-sign * mBackground).value = -mBackground
<1>1. mBackground \in Int /\ -mBackground \in Values
  BY ValueFacts
<1>2. sign * mBackground \in Values /\ -sign * mBackground \in Values
  <2>1. {sign * mBackground, -sign * mBackground} = {mBackground, -mBackground}
    BY <1>1, SignFacts
  <2> QED
    BY <1>1, <2>1
<1> QED
  BY <1>1, <1>2, SignFacts, OffFacts

\* A voxel of a leaf node is merged with a tile s of another.
LEMMA MeetsVoxel ==
    ASSUME mBackground \in Values, mBackground > 0, NEW sign \in Signs, NEW prune \in BOOLEAN,
           NEW level \in BOOLEAN, NEW G \in SUBSET Tile, NEW r \in Tile, NEW s \in Tile,
           Meets(sign, prune, level, r, G), level => s.value \in -mBackground .. mBackground
    PROVE  /\ Meets(sign, prune, level, IF sign * s.value < sign * r.value THEN s ELSE r,
                    G \union {s})
           /\ prune /\ r.value = -s.value =>
                 Meets(sign, prune, level, Off(-sign * mBackground), G \union {s})
<1> DEFINE m == mBackground
           w(t) == sign * t.value
           H == G \union {s}
           out == Off(-sign * m)
<1>1. \A t \in Tile : /\ w(t) \in Int /\ t.value \in Int
                      /\ Wins(sign, t) <=> w(t) < 0
                      /\ Loses(sign, t) <=> w(t) > 0
  BY Worth, ValueFacts
<1>2. m \in Int /\ out \in Tile /\ w(out) = -m
  BY BackgroundWorth, ValueFacts
<1>3. /\ \A t \in G : t \in Tile
      /\ \A t \in H : t \in Tile
      /\ (\E t \in H : Wins(sign, t)) <=> (\E t \in G : Wins(sign, t)) \/ Wins(sign, s)
      /\ (\A t \in H : Loses(sign, t)) <=> (\A t \in G : Loses(sign, t)) /\ Loses(sign, s)
      /\ s \in H
  OBVIOUS
<1>0. \A t \in Tile : Wins(sign, t) \in BOOLEAN /\ Loses(sign, t) \in BOOLEAN
  BY Worth
<1>4. Meets(sign, prune, level, r, G) <=>
         \/ prune /\ r = out /\ \E t, u \in G : t.value = -u.value
         \/ /\ Wins(sign, r) <=> (\E t \in G : Wins(sign, t))
            /\ Loses(sign, r) <=> (\A t \in G : Loses(sign, t))
            /\ level => r \in G /\ \A t \in G : w(r) <= w(t)
  BY <1>0 DEF Meets
<1>5. ASSUME NEW z \in Tile
      PROVE  Meets(sign, prune, level, z, H) <=>
         \/ prune /\ z = out /\ \E t, u \in H : t.value = -u.value
         \/ /\ Wins(sign, z) <=> (\E t \in H : Wins(sign, t))
            /\ Loses(sign, z) <=> (\A t \in H : Loses(sign, t))
            /\ level => z \in H /\ \A t \in H : w(z) <= w(t)
  <2>1. Wins(sign, z) \in BOOLEAN /\ Loses(sign, z) \in BOOLEAN
    BY <1>0
  <2> HIDE DEF H
  <2> QED
    BY <2>1 DEF Meets
<1>6. level => w(s) >= -m
  BY <1>1, <1>2, SignFacts
<1> HIDE DEF w, H, out, m
<1>7. CASE prune /\ r = out /\ \E t, u \in G : t.value = -u.value
  <2>1. \E t, u \in H : t.value = -u.value
    BY <1>7 DEF H
  <2>2. Meets(sign, prune, level, out, H)
    BY <1>2, <1>5, <1>7, <2>1
  <2>3. ASSUME w(s) < w(r) PROVE Meets(sign, prune, level, s, H)
    <3>1. w(r) = -m
      BY <1>2, <1>7
    <3>2. w(s) < -m /\ m > 0 /\ w(s) \in Int
      BY <1>1, <2>3, <3>1 DEF m
    <3>3. ~ level /\ Wins(sign, s) /\ ~ Loses(sign, s)
      BY <1>1, <1>2, <1>6, <3>2
    <3> QED
      BY <1>3, <1>5, <3>3
  <2>4. ~ (w(s) < w(r)) => Meets(sign, prune, level, r, H)
    BY <1>7, <2>2
  <2> QED
    BY <1>7, <2>2, <2>3, <2>4 DEF H, out, w, m
<1>8. CASE /\ Wins(sign, r) <=> (\E t \in G : Wins(sign, t))
           /\ Loses(sign, r) <=> (\A t \in G : Loses(sign, t))
           /\ level => r \in G /\ \A t \in G : w(r) <= w(t)
  <2>1. ASSUME w(s) < w(r) PROVE Meets(sign, prune, level, s, H)
    <3>1. Wins(sign, s) <=> (\E t \in H : Wins(sign, t))
      BY <1>1, <1>3, <1>8, <2>1
    <3>2. Loses(sign, s) <=> (\A t \in H : Loses(sign, t))
      BY <1>1, <1>3, <1>8, <2>1
    <3>3. ASSUME level, NEW t \in H PROVE w(s) <= w(t)
      <4>1. t \in G \/ t = s
        BY DEF H
      <4> QED
        BY <1>1, <1>3, <1>8, <2>1, <3>3, <4>1
    <3> QED
      BY <1>3, <1>5, <3>1, <3>2, <3>3
  <2>2. ASSUME ~ (w(s) < w(r)) PROVE Meets(sign, prune, level, r, H)
    <3>1. Wins(sign, r) <=> (\E t \in H : Wins(sign, t))
      BY <1>1, <1>3, <1>8, <2>2
    <3>2. Loses(sign, r) <=> (\A t \in H : Loses(sign, t))
      BY <1>1, <1>3, <1>8, <2>2
    <3>3. ASSUME level, NEW t \in H PROVE w(r) <= w(t)
      <4>1. t \in G \/ t = s
        BY DEF H
      <4> QED
        BY <1>1, <1>3, <1>8, <2>2, <3>3, <4>1
    <3>4. level => r \in H
      BY <1>8 DEF H
    <3> QED
      BY <1>5, <3>1, <3>2, <3>3, <3>4
  <2>3. ASSUME prune, r.value = -s.value PROVE Meets(sign, prune, level, out, H)
    <3>1. CASE r \in G
      <4>1. r \in H
        BY <3>1 DEF H
      <4> QED
        BY <1>2, <1>3, <1>5, <2>3, <4>1
    <3>2. CASE r \notin G
      <4>1. ~ level
        BY <1>8, <3>2
      <4>2. w(r) = -w(s)
        BY <1>1, <2>3, SignFacts DEF w
      <4>3. CASE w(s) = 0
        <5>1. s.value >= 0 /\ s.value <= 0
          BY <1>1, <4>3, SignFacts DEF w, Signs
        <5>2. \A v \in Int : v >= 0 /\ v <= 0 => v = -v
          OBVIOUS
        <5>3. s.value = -s.value
          BY <1>1, <5>1, <5>2
        <5> QED
          BY <1>2, <1>3, <1>5, <2>3, <5>3
      <4>4. CASE w(s) # 0
        <5>1. w(r) < 0 \/ w(s) < 0
          BY <1>1, <4>2, <4>4
        <5>2. /\ \E t \in H : Wins(sign, t)
              /\ ~ \A t \in H : Loses(sign, t)
          BY <1>1, <1>3, <1>8, <5>1
        <5>3. Wins(sign, out) /\ ~ Loses(sign, out)
          BY <1>1, <1>2 DEF m
        <5> QED
          BY <1>2, <1>5, <4>1, <5>2, <5>3
      <4> QED
        BY <4>3, <4>4
    <3> QED
      BY <3>1, <3>2
  <2> QED
    BY <2>1, <2>2, <2>3 DEF H, out, w, m
<1>9. prune /\ r = out /\ (\E t, u \in G : t.value = -u.value) => Meets(sign, prune, level, out, H)
  <2>1. (\E t, u \in G : t.value = -u.value) => \E t, u \in H : t.value = -u.value
    BY DEF H
  <2> QED
    BY <1>2, <1>5, <2>1
<1> QED
  BY <1>4, <1>7, <1>8, <1>9 DEF H, out, m

\* A tile that has won stays.
LEMMA MeetsWon ==
    ASSUME mBackground \in Values, mBackground > 0, NEW sign \in Signs, NEW prune \in BOOLEAN,
           NEW level \in BOOLEAN, NEW G \in SUBSET Tile, NEW r \in Tile, NEW s \in Tile,
           Meets(sign, prune, level, r, G), level => s.value \in -mBackground .. mBackground,
           sign * r.value = -mBackground
    PROVE  Meets(sign, prune, level, r, G \union {s})
<1>1. sign * s.value \in Int /\ mBackground \in Int /\ s.value \in Int
  BY Worth, ValueFacts
<1>2. ASSUME sign * s.value < sign * r.value PROVE ~ level
  BY <1>1, <1>2, SignFacts
<1> DEFINE H == G \union {s}
<1>3. /\ (\E t \in H : Wins(sign, t)) <=> (\E t \in G : Wins(sign, t)) \/ Wins(sign, s)
      /\ (\A t \in H : Loses(sign, t)) <=> (\A t \in G : Loses(sign, t)) /\ Loses(sign, s)
      /\ (\E t, u \in G : t.value = -u.value) => \E t, u \in H : t.value = -u.value
      /\ \A t \in H : t \in G \/ t = s
      /\ G \subseteq H
  OBVIOUS
<1>4. Wins(sign, r) /\ ~ Loses(sign, r)
  BY <1>1, Worth
<1>5. \A t \in G : sign * t.value \in Int
  BY Worth
<1>6. sign * r.value \in Int /\ Wins(sign, r) \in BOOLEAN /\ Loses(sign, r) \in BOOLEAN
  BY Worth
<1> HIDE DEF H
<1>7. CASE prune /\ r = Off(-sign * mBackground) /\ \E t, u \in G : t.value = -u.value
  BY <1>3, <1>7 DEF Meets, H
<1>8. CASE /\ Wins(sign, r) = (\E t \in G : Wins(sign, t))
           /\ Loses(sign, r) = (\A t \in G : Loses(sign, t))
           /\ level => r \in G /\ \A t \in G : sign * r.value <= sign * t.value
  <2>1. Wins(sign, r) = (\E t \in H : Wins(sign, t))
    BY <1>3, <1>4, <1>6, <1>8
  <2>2. Loses(sign, r) = (\A t \in H : Loses(sign, t))
    BY <1>3, <1>4, <1>6, <1>8
  <2>3. level => r \in H /\ \A t \in H : sign * r.value <= sign * t.value
    BY <1>1, <1>2, <1>3, <1>6, <1>8
  <2> QED
    BY <2>1, <2>2, <2>3 DEF Meets, H
<1> QED
  BY <1>7, <1>8 DEF Meets

\* A tile that loses is no reason to change anything.
LEMMA MeetsLost ==
    ASSUME mBackground \in Values, NEW sign \in Signs, NEW prune \in BOOLEAN,
           NEW level \in BOOLEAN, NEW G \in SUBSET Tile, NEW r \in Tile, NEW s \in Tile,
           Meets(sign, prune, level, r, G), Loses(sign, s), level => sign * s.value = mBackground,
           level => \A t \in G : t.value \in -mBackground .. mBackground
    PROVE  Meets(sign, prune, level, r, G \union {s})
<1> DEFINE H == G \union {s}
<1>1. /\ sign * s.value \in Int /\ mBackground \in Int
      /\ Wins(sign, r) \in BOOLEAN /\ Loses(sign, r) \in BOOLEAN
      /\ Loses(sign, s) /\ ~ Wins(sign, s)
  BY Worth, ValueFacts
<1>2. /\ (\E t \in H : Wins(sign, t)) <=> (\E t \in G : Wins(sign, t)) \/ Wins(sign, s)
      /\ (\A t \in H : Loses(sign, t)) <=> (\A t \in G : Loses(sign, t)) /\ Loses(sign, s)
      /\ (\E t, u \in G : t.value = -u.value) => \E t, u \in H : t.value = -u.value
      /\ \A t \in H : t \in G \/ t = s
      /\ G \subseteq H
  OBVIOUS
<1> HIDE DEF H
<1>3. CASE prune /\ r = Off(-sign * mBackground) /\ \E t, u \in G : t.value = -u.value
  BY <1>2, <1>3 DEF Meets, H
<1>4. CASE /\ Wins(sign, r) = (\E t \in G : Wins(sign, t))
           /\ Loses(sign, r) = (\A t \in G : Loses(sign, t))
           /\ level => r \in G /\ \A t \in G : sign * r.value <= sign * t.value
  <2>1. Wins(sign, r) = (\E t \in H : Wins(sign, t))
    BY <1>1, <1>2, <1>4
  <2>2. Loses(sign, r) = (\A t \in H : Loses(sign, t))
    BY <1>1, <1>2, <1>4
  <2>3. level => sign * r.value <= mBackground
    BY <1>1, <1>4, SignFacts, ValueFacts
  <2>4. level => r \in H /\ \A t \in H : sign * r.value <= sign * t.value
    BY <1>2, <1>4, <2>3
  <2> QED
    BY <2>1, <2>2, <2>4 DEF Meets, H
<1> QED
  BY <1>3, <1>4 DEF Meets

\* A tile that wins is the result.
LEMMA MeetsOut ==
    ASSUME mBackground \in Values, mBackground > 0, NEW sign \in Signs, NEW prune \in BOOLEAN,
           NEW level \in BOOLEAN, NEW G \in SUBSET Tile, NEW s \in G, Wins(sign, s),
           level => /\ s = Off(-sign * mBackground)
                    /\ \A t \in G : t.value \in -mBackground .. mBackground
    PROVE  Meets(sign, prune, level, Off(-sign * mBackground), G)
<1> DEFINE out == Off(-sign * mBackground)
<1>1. out \in Tile /\ sign * out.value = -mBackground /\ mBackground \in Int
  BY BackgroundWorth, ValueFacts
<1>2. Wins(sign, out) = TRUE /\ Loses(sign, out) = FALSE
  BY <1>1 DEF Wins, Loses
<1>3. Wins(sign, out) = (\E t \in G : Wins(sign, t))
  BY <1>2
<1>4. ~ Loses(sign, s)
  BY Worth
<1>5. Loses(sign, out) = (\A t \in G : Loses(sign, t))
  BY <1>2, <1>4
<1>6. level => out \in G /\ \A t \in G : sign * out.value <= sign * t.value
  <2>1. ASSUME level, NEW t \in G PROVE -mBackground <= sign * t.value
    <3>1. t.value \in Int /\ t.value \in -mBackground .. mBackground
      BY <2>1, ValueFacts
    <3>2. sign * t.value \in -mBackground .. mBackground
      BY <1>1, <3>1, SignFacts
    <3> QED
      BY <1>1, <3>2
  <2> QED
    BY <1>1, <2>1
<1> QED
  BY <1>3, <1>5, <1>6 DEF Meets

\* What is copied from one tree counts where all others lose.
LEMMA MeetsCopied ==
    ASSUME mBackground \in Values, NEW sign \in Signs, NEW prune \in BOOLEAN,
           NEW level \in BOOLEAN, NEW G \in SUBSET Tile, NEW r \in Tile, NEW h \in Tile,
           \A t \in G : Loses(sign, t), level => \A t \in G : sign * t.value = mBackground,
           r.value < 0 <=> h.value < 0, r.value > 0 <=> h.value > 0,
           level => r = h /\ h.value \in -mBackground .. mBackground
    PROVE  Meets(sign, prune, level, r, G \union {h})
<1> DEFINE H == G \union {h}
<1>1. /\ r.value \in Int /\ h.value \in Int /\ mBackground \in Int
      /\ Wins(sign, r) \in BOOLEAN /\ Loses(sign, r) \in BOOLEAN
  BY Worth, ValueFacts
<1>2. (Wins(sign, r) <=> Wins(sign, h)) /\ (Loses(sign, r) <=> Loses(sign, h))
  BY <1>1 DEF Wins, Loses, Signs
<1>3. \A t \in G : ~ Wins(sign, t)
  BY Worth
<1>4. \A t \in H : t \in G \/ t = h
  OBVIOUS
<1>5. h \in H
  OBVIOUS
<1> HIDE DEF H
<1>6. Wins(sign, r) = (\E t \in H : Wins(sign, t))
  BY <1>1, <1>2, <1>3, <1>4, <1>5
<1>7. Loses(sign, r) = (\A t \in H : Loses(sign, t))
  BY <1>1, <1>2, <1>4, <1>5
<1>8. ASSUME level, NEW t \in H PROVE sign * r.value <= sign * t.value
  <2>1. sign * h.value \in -mBackground .. mBackground
    BY <1>1, <1>8, SignFacts
  <2> QED
    BY <1>1, <1>4, <1>8, <2>1
<1>9. level => r \in H
  BY <1>5
<1> QED
  BY <1>6, <1>7, <1>8, <1>9 DEF Meets, H

\* Where the result has lost, all trees have.
LEMMA MeetsLosers ==
    ASSUME mBackground \in Values, mBackground > 0, NEW sign \in Signs, NEW prune \in BOOLEAN,
           NEW level \in BOOLEAN, NEW G \in SUBSET Tile,
           Meets(sign, prune, level, Off(sign * mBackground), G),
           level => \A t \in G : t.value \in -mBackground .. mBackground
    PROVE  /\ \A t \in G : Loses(sign, t)
           /\ level => \A t \in G : sign * t.value = mBackground
<1> DEFINE r == Off(sign * mBackground)
<1>1. /\ r \in Tile /\ sign * r.value = mBackground /\ mBackground \in Int
      /\ sign * Off(-sign * mBackground).value = -mBackground
  BY BackgroundWorth, ValueFacts
<1> HIDE DEF r
<1>2. r # Off(-sign * mBackground) /\ Loses(sign, r)
  BY <1>1, Worth
<1>3. \A t \in G : Loses(sign, t)
  BY <1>2 DEF Meets, r
<1>4. level => \A t \in G : sign * r.value <= sign * t.value
  BY <1>2 DEF Meets, r
<1>5. ASSUME level, NEW t \in G PROVE sign * t.value = mBackground
  <2>1. t.value \in Int /\ t.value \in -mBackground .. mBackground
    BY <1>5, ValueFacts
  <2>2. sign * t.value \in -mBackground .. mBackground
    BY <1>1, <2>1, SignFacts
  <2> QED
    BY <1>1, <1>4, <1>5, <2>2
<1> QED
  BY <1>3, <1>5

-------------------------------------------------------------------------------
(* CsgUnionOrIntersectionOp below the root node.                           *)

\* What the operator makes of an entry at which the descent ends.
NodesAt(T, S, sign, prune, c) ==
    LET s == S.tree[c] IN
    IF c \in Keys \/ c \notin DOMAIN S.tree THEN Branch(T, c)
    ELSE IF Level[c] = 0
    THEN OneTileAt(c,
            IF prune /\ \E n \in Parents[c] : Level[n] = 1 /\ Cancel(T, S.tree, n)
            THEN Off(-sign * mBackground)
            ELSE IF sign * s.value < sign * T[c].value THEN s ELSE T[c])
    ELSE IF IsTile(T, c) /\ Wins(sign, T[c]) THEN Branch(T, c)
    ELSE IF s # Child /\ Wins(sign, s)
    THEN OneTileAt(c, [s EXCEPT !.value = -sign * mBackground])
    ELSE IF s = Child /\ IsTile(T, c) /\ Loses(sign, T[c]) THEN Copied(S, c)
    ELSE Branch(T, c)

\* It is a branch, whatever the trees are.
LEMMA NodesFits ==
    ASSUME NEW T, WellFormed(T), NEW S, WellFormed(S.tree), S.background \in Values,
           mBackground \in Values, NEW sign \in Signs, NEW prune \in BOOLEAN,
           NEW c \in Met(T, S.tree)
    PROVE  Fits(NodesAt(T, S, sign, prune, c), c)
<1> DEFINE s == S.tree[c]
<1>1. /\ c \in Cells /\ ~ (IsChild(T, c) /\ IsChild(S.tree, c))
      /\ \A p \in Parents[c] : IsChild(T, p) /\ IsChild(S.tree, p)
      /\ c \in Keys \/ (c \in DOMAIN T /\ c \in DOMAIN S.tree)
      /\ Fits(Branch(T, c), c)
  BY EndOf
<1>2. \A t \in Tile : Fits(OneTileAt(c, t), c)
  BY <1>1, TileAtFits
<1>3. -sign * mBackground \in Values /\ Off(-sign * mBackground) \in Tile
  BY BackgroundWorth
<1>4. CASE c \in Keys \/ c \notin DOMAIN S.tree
  BY <1>1, <1>4 DEF NodesAt
<1>5. CASE c \notin Keys /\ c \in DOMAIN S.tree /\ Level[c] = 0
  <2>1. T[c] \in Tile /\ s \in Tile
    BY <1>1, <1>5, Shape
  <2> QED
    BY <1>2, <1>3, <1>5, <2>1 DEF NodesAt
<1>6. CASE c \notin Keys /\ c \in DOMAIN S.tree /\ Level[c] # 0
  <2>1. CASE IsTile(T, c) /\ Wins(sign, T[c])
    BY <1>1, <1>6, <2>1 DEF NodesAt
  <2>2. CASE ~ (IsTile(T, c) /\ Wins(sign, T[c])) /\ s # Child /\ Wins(sign, s)
    <3>1. s \in Tile
      BY <1>6, <2>2, Shape
    <3>2. [s EXCEPT !.value = -sign * mBackground] \in Tile
      BY <1>3, <3>1, ValueFacts
    <3> QED
      BY <1>2, <1>6, <2>2, <3>2 DEF NodesAt
  <2>3. CASE /\ ~ (IsTile(T, c) /\ Wins(sign, T[c]))
             /\ s = Child /\ IsTile(T, c) /\ Loses(sign, T[c])
    <3>1. IsChild(S.tree, c)
      BY <1>6, <2>3 DEF IsChild
    <3>2. Fits(Copied(S, c), c)
      BY <1>1, <3>1, CopiedFits
    <3> QED
      BY <1>6, <2>3, <3>2 DEF NodesAt
  <2>4. CASE /\ ~ (IsTile(T, c) /\ Wins(sign, T[c])) /\ ~ (s # Child /\ Wins(sign, s))
             /\ ~ (s = Child /\ IsTile(T, c) /\ Loses(sign, T[c]))
    BY <1>1, <1>6, <2>4 DEF NodesAt
  <2> QED
    BY <2>1, <2>2, <2>3, <2>4
<1> QED
  BY <1>4, <1>5, <1>6

\* The tiles of a tree above the leaf nodes are background, inside or outside.
Solid(T) == \A c \in DOMAIN T : T[c] # Child /\ Level[c] > 0
               => T[c] \in {Off(mBackground), Off(-mBackground)}

\* A copy of a part of a level set is solid.
LEMMA CopiedSolid ==
    ASSUME NEW S, WellFormed(S.tree), S.background \in Values, mBackground \in Values,
           S.background > 0, mBackground > 0, IsLevelSet(S.tree, S.background),
           NEW c \in Cells, \A p \in Parents[c] : IsChild(S.tree, p), IsChild(S.tree, c)
    PROVE  Solid(Copied(S, c))
<1> DEFINE B == Branch(S.tree, c)
           f == Rebasing(S.background, mBackground)
<1>1. Fits(B, c) /\ Copied(S, c) = MapTiles(B, f) /\ f \in [Tile -> Tile]
  BY BranchFits, CopiedFits, RebasingFacts
<1>2. /\ f[Off(S.background)] = Off(mBackground)
      /\ f[Off(-S.background)] = Off(-mBackground)
  BY RebasingSigns
<1>3. \A d \in DOMAIN B : d \in DOMAIN S.tree /\ B[d] = S.tree[d]
  BY DEF Branch
<1> HIDE DEF B, f
<1>4. /\ DOMAIN MapTiles(B, f) = DOMAIN B
      /\ \A d \in DOMAIN B : /\ B[d] = Child => MapTiles(B, f)[d] = Child
                             /\ B[d] # Child => MapTiles(B, f)[d] = f[B[d]]
  BY <1>1, MapTilesFits
<1>5. \A d \in DOMAIN B : B[d] # Child /\ Level[d] > 0 =>
         B[d] \in {Off(S.background), Off(-S.background)}
  BY <1>3 DEF IsLevelSet, IsTile
<1> QED
  BY <1>1, <1>2, <1>4, <1>5 DEF Solid

\* An inactive tile whose value is set.
LEMMA OffSet ==
    ASSUME NEW v \in Values, NEW w \in Values
    PROVE  [Off(v) EXCEPT !.value = w] = Off(w)
<1>1. Off(v) \in Tile /\ Off(v).active = FALSE
  BY OffFacts
<1>2. [Off(v) EXCEPT !.value = w] = [value |-> w, active |-> Off(v).active]
  BY <1>1, TileFacts
<1> QED
  BY <1>1, <1>2, Zenon DEF Off

\* The two tiles of a level set, the one that loses first.
LEMMA Ends ==
    ASSUME NEW sign \in Signs, NEW b \in Values, b > 0
    PROVE  /\ \A t : t \in {Off(b), Off(-b)} <=> t = Off(sign * b) \/ t = Off(-sign * b)
           /\ sign * b \in Values /\ -sign * b \in Values
           /\ sign * Off(sign * b).value = b /\ sign * Off(-sign * b).value = -b
           /\ Loses(sign, Off(sign * b)) /\ ~ Wins(sign, Off(sign * b))
           /\ Wins(sign, Off(-sign * b)) /\ ~ Loses(sign, Off(-sign * b))
<1>1. b \in Int /\ -b \in Values /\ -b \in Int
  BY ValueFacts
<1>2. sign * (sign * b) = b /\ sign * (-sign * b) = -b
  BY <1>1, SignFacts
<1>3. CASE sign = 1
  <2>1. sign * b = b /\ -sign * b = -b
    BY <1>1, <1>3
  <2>2. \A t : t \in {Off(b), Off(-b)} <=> t = Off(sign * b) \/ t = Off(-sign * b)
    BY <2>1
  <2>3. sign * Off(sign * b).value = b /\ sign * Off(-sign * b).value = -b
    BY <1>2, OffFacts
  <2> QED
    BY <1>1, <2>1, <2>2, <2>3 DEF Wins, Loses
<1>4. CASE sign = -1
  <2>1. sign * b = -b /\ -sign * b = b
    BY <1>1, <1>4
  <2>2. \A t : t \in {Off(b), Off(-b)} <=> t = Off(sign * b) \/ t = Off(-sign * b)
    BY <2>1
  <2>3. sign * Off(sign * b).value = b /\ sign * Off(-sign * b).value = -b
    BY <1>2, OffFacts
  <2> QED
    BY <1>1, <2>1, <2>2, <2>3 DEF Wins, Loses
<1> QED
  BY <1>3, <1>4 DEF Signs

\* What CsgNodes makes of an entry of such a tree has no others.
LEMMA NodesSolid ==
    ASSUME NEW T, WellFormed(T), Solid(T), NEW S, WellFormed(S.tree), S.background \in Values,
           mBackground \in Values, mBackground > 0, S.background > 0,
           IsLevelSet(S.tree, S.background), NEW sign \in Signs, NEW prune \in BOOLEAN,
           NEW c \in Met(T, S.tree)
    PROVE  Solid(NodesAt(T, S, sign, prune, c))
<1> DEFINE s == S.tree[c]
<1>1. /\ c \in Cells
      /\ \A p \in Parents[c] : IsChild(S.tree, p)
  BY EndOf
<1>2. Solid(Branch(T, c))
  BY DEF Solid, Branch
<1>3. \A t : /\ Level[c] = 0 => Solid(OneTileAt(c, t))
             /\ t \in {Off(mBackground), Off(-mBackground)} => Solid(OneTileAt(c, t))
  BY DEF Solid, OneTileAt
<1>4. s # Child /\ c \in DOMAIN S.tree /\ Level[c] > 0 => s \in {Off(S.background), Off(-S.background)}
  BY DEF IsLevelSet, IsTile
<1>5. [s EXCEPT !.value = -sign * mBackground] \in {Off(mBackground), Off(-mBackground)}
         \/ s \notin {Off(S.background), Off(-S.background)}
  <2>1. {sign * mBackground, -sign * mBackground} = {mBackground, -mBackground}
    BY SignFacts, ValueFacts
  <2>2. ASSUME s \in {Off(S.background), Off(-S.background)}
        PROVE  [s EXCEPT !.value = -sign * mBackground] = Off(-sign * mBackground)
    <3> HIDE DEF s
    <3>1. S.background \in Values /\ -S.background \in Values /\ -sign * mBackground \in Values
      BY BackgroundWorth, ValueFacts
    <3> QED
      BY <2>2, <3>1, OffSet
  <2>3. -sign * mBackground \in {mBackground, -mBackground}
    BY <2>1
  <2> QED
    BY <2>2, <2>3
<1>6. s = Child /\ c \in DOMAIN S.tree => Solid(Copied(S, c))
  BY <1>1, CopiedSolid DEF IsChild
<1>7. Level[c] = 0 \/ Level[c] > 0
  BY <1>1, Chain, RootLevelNat
<1> HIDE DEF Solid
<1> QED
  BY <1>2, <1>3, <1>4, <1>5, <1>6, <1>7 DEF NodesAt

\* What it holds at a voxel, where the trees merged so far hold G.
LEMMA NodesHeld ==
    ASSUME NEW T, WellFormed(T), Solid(T), NEW S, WellFormed(S.tree), S.background \in Values,
           mBackground \in Values, mBackground > 0, IsLevelSet(S.tree, S.background),
           NEW sign \in Signs, NEW prune \in BOOLEAN, NEW level \in BOOLEAN,
           level => S.background = mBackground, NEW c \in Met(T, S.tree),
           NEW x \in Voxels, c \in Above[x], NEW G \in SUBSET Tile,
           level => \A t \in G : t.value \in -mBackground .. mBackground,
           Meets(sign, prune, level, Stored(T, x), G)
    PROVE  LET R == NodesAt(T, S, sign, prune, c) IN
           /\ c \in Keys => Held(R, mBackground, x) = Stored(T, x)
           /\ c \notin Keys => Meets(sign, prune, level, Held(R, mBackground, x),
                                     G \union {Held(S.tree, S.background, x)})
<1> DEFINE R == NodesAt(T, S, sign, prune, c)
           q == Held(R, mBackground, x)
           r == Stored(T, x)
           h == Held(S.tree, S.background, x)
           s == S.tree[c]
           b == S.background
<1>1. /\ c \in Cells /\ ~ (IsChild(T, c) /\ IsChild(S.tree, c))
      /\ \A p \in Parents[c] : IsChild(T, p) /\ IsChild(S.tree, p)
      /\ c \in Keys \/ (c \in DOMAIN T /\ c \in DOMAIN S.tree)
      /\ Held(Branch(T, c), mBackground, x) = r
      /\ IsTile(T, c) => r = T[c] /\ T[c] \in Tile
      /\ IsTile(S.tree, c) => h = s /\ s \in Tile
  BY EndOf
<1>2. /\ b > 0 /\ b \in Int /\ h \in Tile /\ h.value \in -b .. b
      /\ IsTile(S.tree, c) /\ Level[c] > 0 => s \in {Off(b), Off(-b)}
  BY <1>1, InBand
<1>3. r \in Tile /\ x \in Cells
  BY StoredType DEF Voxels
<1>4. ASSUME NEW t \in Tile PROVE Held(OneTileAt(c, t), mBackground, x) = t
  <2>1. \A y \in Voxels, e \in Values : c \in Above[y] => Held(OneTileAt(c, t), e, y) = t
    BY <1>1, TileAtFits
  <2> QED
    BY <2>1
<1>5. /\ Off(-sign * mBackground) \in Tile /\ sign * Off(-sign * mBackground).value = -mBackground
      /\ sign * Off(sign * mBackground).value = mBackground
  BY BackgroundWorth
<1>6. level => h.value \in -mBackground .. mBackground
  BY <1>2
<1> HIDE DEF r, h, R
<1>7. CASE c \in Keys
  <2>1. R = Branch(T, c)
    BY <1>7 DEF NodesAt, R
  <2> QED
    BY <1>1, <1>7, <2>1 DEF R, r
<1>8. CASE c \notin Keys /\ Level[c] = 0
  <2>1. IsTile(T, c) /\ IsTile(S.tree, c)
    BY <1>1, <1>8, Shape
  <2>2. r = T[c] /\ h = s
    BY <1>1, <2>1
  <2>3. /\ Meets(sign, prune, level, IF sign * h.value < sign * r.value THEN h ELSE r,
                 G \union {h})
        /\ prune /\ r.value = -h.value =>
              Meets(sign, prune, level, Off(-sign * mBackground), G \union {h})
    BY <1>2, <1>3, <1>6, MeetsVoxel DEF r
  <2>4. CASE prune /\ \E n \in Parents[c] : Level[n] = 1 /\ Cancel(T, S.tree, n)
    <3>1. PICK n \in Parents[c] : Level[n] = 1 /\ Cancel(T, S.tree, n)
      BY <2>4
    <3>2. c \in Slots[n]
      <4>1. n \in Cells /\ c \in Below[n]
        BY <1>1, <3>1, Chain DEF Below
      <4> QED
        BY <1>8, <3>1, <4>1 DEF Slots
    <3>3. r.value = -h.value
      BY <2>2, <3>1, <3>2 DEF Cancel
    <3>4. q = Off(-sign * mBackground)
      BY <1>1, <1>4, <1>5, <1>8, <2>4 DEF NodesAt, R
    <3> QED
      BY <1>8, <2>3, <2>4, <3>3, <3>4 DEF h, R
  <2>5. CASE ~ (prune /\ \E n \in Parents[c] : Level[n] = 1 /\ Cancel(T, S.tree, n))
    <3>1. q = IF sign * h.value < sign * r.value THEN h ELSE r
      BY <1>1, <1>2, <1>3, <1>4, <1>8, <2>2, <2>5 DEF NodesAt, R
    <3> QED
      BY <1>8, <2>3, <3>1 DEF h, R
  <2> QED
    BY <2>4, <2>5
<1>9. CASE c \notin Keys /\ Level[c] # 0
  <2>0. Level[c] > 0 /\ c \in DOMAIN T /\ c \in DOMAIN S.tree
    BY <1>1, <1>9, Chain, RootLevelNat
  <2>1. CASE IsTile(T, c) /\ Wins(sign, T[c])
    <3>1. q = r
      BY <1>1, <1>9, <2>0, <2>1 DEF NodesAt, R
    <3>2. T[c] = Off(-sign * mBackground)
      <4>1. T[c] \in {Off(mBackground), Off(-mBackground)}
        BY <2>0, <2>1 DEF Solid, IsTile
      <4> QED
        BY <2>1, <4>1, Ends
    <3>3. sign * r.value = -mBackground
      BY <1>1, <1>5, <2>1, <3>2
    <3>4. Meets(sign, prune, level, r, G \union {h})
      BY <1>2, <1>3, <1>6, <3>3, MeetsWon DEF r
    <3> QED
      BY <1>9, <3>1, <3>4 DEF h, R
  <2>2. CASE ~ (IsTile(T, c) /\ Wins(sign, T[c])) /\ s # Child /\ Wins(sign, s)
    <3>1. IsTile(S.tree, c) /\ s = h /\ s \in {Off(b), Off(-b)}
      BY <1>1, <1>2, <2>0, <2>2 DEF IsTile
    <3>2. s = Off(-sign * b) /\ [s EXCEPT !.value = -sign * mBackground] = Off(-sign * mBackground)
      <4> HIDE DEF s, b
      <4>1. b \in Values
        BY DEF b
      <4>2. s = Off(-sign * b) /\ -sign * b \in Values
        BY <1>2, <2>2, <3>1, <4>1, Ends
      <4>3. -sign * mBackground \in Values
        BY BackgroundWorth
      <4> QED
        BY <4>2, <4>3, OffSet
    <3>3. q = Off(-sign * mBackground)
      BY <1>4, <1>5, <1>9, <2>0, <2>2, <3>2 DEF NodesAt, R
    <3>4. level => h = Off(-sign * mBackground)
      BY <3>1, <3>2
    <3>5. Meets(sign, prune, level, Off(-sign * mBackground), G \union {h})
      <4> DEFINE H == G \union {h}
      <4>1. H \in SUBSET Tile /\ h \in H /\ Wins(sign, h)
        BY <1>2, <2>2, <3>1
      <4>2. level => \A t \in H : t.value \in -mBackground .. mBackground
        BY <1>6
      <4> HIDE DEF H
      <4>3. Meets(sign, prune, level, Off(-sign * mBackground), H)
        BY <3>4, <4>1, <4>2, MeetsOut
      <4> QED
        BY <4>3 DEF H
    <3> QED
      BY <1>9, <3>3, <3>5 DEF h, R
  <2>3. CASE /\ ~ (IsTile(T, c) /\ Wins(sign, T[c]))
             /\ s = Child /\ IsTile(T, c) /\ Loses(sign, T[c])
    <3>1. IsChild(S.tree, c)
      BY <2>0, <2>3 DEF IsChild
    <3>2. q = Held(Copied(S, c), mBackground, x)
      BY <1>9, <2>0, <2>3 DEF NodesAt, R
    <3>3. q = Rebasing(b, mBackground)[h]
      BY <1>1, <3>1, <3>2, CopiedFits DEF h
    <3>4. /\ q \in Tile /\ (q.value < 0 <=> h.value < 0) /\ (q.value > 0 <=> h.value > 0)
          /\ level => q = h
      BY <1>2, <3>3, RebasingSigns
    <3>5. r = Off(sign * mBackground)
      <4>1. T[c] \in {Off(mBackground), Off(-mBackground)}
        BY <2>0, <2>3 DEF Solid, IsTile
      <4> QED
        BY <1>1, <2>3, <4>1, Ends
    <3>6. /\ \A t \in G : Loses(sign, t)
          /\ level => \A t \in G : sign * t.value = mBackground
      BY <3>5, MeetsLosers DEF r
    <3> HIDE DEF q
    <3>7. Meets(sign, prune, level, q, G \union {h})
      BY <1>2, <1>6, <3>4, <3>6, MeetsCopied
    <3> QED
      BY <1>9, <3>7 DEF h, R, q
  <2>4. CASE /\ ~ (IsTile(T, c) /\ Wins(sign, T[c])) /\ ~ (s # Child /\ Wins(sign, s))
             /\ ~ (s = Child /\ IsTile(T, c) /\ Loses(sign, T[c]))
    <3>1. q = r
      BY <1>1, <1>9, <2>0, <2>4 DEF NodesAt, R
    <3>2. s # Child
      <4>1. s = Child => IsTile(T, c)
        BY <1>1, <2>0 DEF IsChild, IsTile
      <4>2. IsTile(T, c) => T[c] \in {Off(mBackground), Off(-mBackground)}
        BY <2>0 DEF Solid, IsTile
      <4>3. IsTile(T, c) => Wins(sign, T[c]) \/ Loses(sign, T[c])
        BY <4>2, Ends
      <4> QED
        BY <2>4, <4>1, <4>3
    <3>3. IsTile(S.tree, c) /\ s = h /\ s \in {Off(b), Off(-b)}
      BY <1>1, <1>2, <2>0, <3>2 DEF IsTile
    <3>4. Loses(sign, s) /\ sign * s.value = b
      <4> HIDE DEF s, b
      <4>1. b \in Values
        BY DEF b
      <4> QED
        BY <1>2, <2>4, <3>2, <3>3, <4>1, Ends
    <3>5. Loses(sign, h) /\ (level => sign * h.value = mBackground)
      BY <3>3, <3>4
    <3>6. Meets(sign, prune, level, r, G \union {h})
      BY <1>2, <1>3, <3>5, MeetsLost DEF r
    <3> QED
      BY <1>9, <3>1, <3>6 DEF h, R
  <2> QED
    BY <2>1, <2>2, <2>3, <2>4
<1> QED
  BY <1>7, <1>8, <1>9 DEF R, h

-------------------------------------------------------------------------------
(* CsgUnionOrIntersectionOp at the root node.                              *)

\* The least of a set.
LEMMA MinFacts ==
    ASSUME NEW S \in SUBSET Nat, S # {}
    PROVE  Min(S) \in S /\ \A i \in S : Min(S) <= i
<1>1. \E m \in S : \A i \in S : m <= i
  BY Least
<1> QED
  BY <1>1 DEF Min

\* Trees to merge, this one first.
Roots(roots) ==
    /\ DOMAIN roots \subseteq Nat \ {0} /\ 1 \in DOMAIN roots
    /\ roots[1].background = mBackground
    /\ \A i \in DOMAIN roots : /\ roots[i] = [tree |-> roots[i].tree, background |-> roots[i].background]
                               /\ WellFormed(roots[i].tree) /\ roots[i].background \in Values

LevelSets(roots) == \A i \in DOMAIN roots : IsLevelSet(roots[i].tree, roots[i].background)

HeldIn(S, x) == Held(S.tree, S.background, x)

\* The tree whose child counts has one, and is the first that does.
LEMMA ChildFromFacts ==
    ASSUME NEW roots, Roots(roots), NEW sign \in Signs, NEW k \in Keys
    PROVE  LET from == ChildFrom(roots, k, sign)
               won == HasTile(roots, k) /\ Wins(sign, RootTile(roots, k, sign))
           IN  /\ from # 0 => /\ from \in DOMAIN roots /\ IsChild(roots[from].tree, k)
                              /\ won => RootTile(roots, k, sign).active
                              /\ ~ won => \A i \in DOMAIN roots : IsChild(roots[i].tree, k) => from <= i
               /\ from = 0 /\ ~ won => \A i \in DOMAIN roots : ~ IsChild(roots[i].tree, k)
<1> DEFINE won == HasTile(roots, k) /\ Wins(sign, RootTile(roots, k, sign))
           children == {i \in DOMAIN roots : /\ IsChild(roots[i].tree, k)
                                             /\ won => i > 1 /\ RootTile(roots, k, sign).active}
<1>1. children \subseteq Nat \ {0}
  BY DEF Roots
<1>2. ChildFrom(roots, k, sign) = IF children = {} THEN 0 ELSE Min(children)
  BY DEF ChildFrom
<1>3. children # {} => Min(children) \in children /\ \A i \in children : Min(children) <= i
  BY <1>1, MinFacts
<1> QED
  BY <1>1, <1>2, <1>3

\* The tile that counts at a key is one of the tiles there.
LEMMA RootTileFacts ==
    ASSUME NEW roots, Roots(roots), NEW sign \in Signs, NEW k \in Keys, HasTile(roots, k)
    PROVE  LET t == RootTile(roots, k, sign) IN
           /\ t \in Tile
           /\ \E i \in DOMAIN roots : IsTile(roots[i].tree, k) /\ t = roots[i].tree[k]
           /\ ~ Wins(sign, t) =>
                 \A i \in DOMAIN roots : IsTile(roots[i].tree, k) /\ Wins(sign, roots[i].tree[k])
                    => ~ Loses(sign, t)
<1> DEFINE tiles == {i \in DOMAIN roots : IsTile(roots[i].tree, k)}
           winners == {i \in tiles : Wins(sign, roots[i].tree[k])}
           first == roots[Min(tiles)].tree[k]
<1>1. tiles \in SUBSET Nat /\ tiles # {} /\ winners \in SUBSET Nat
  BY DEF Roots, HasTile
<1>2. Min(tiles) \in tiles /\ (winners # {} => Min(winners) \in winners)
  BY <1>1, MinFacts
<1>3. RootTile(roots, k, sign) = IF Loses(sign, first) /\ winners # {}
                                 THEN roots[Min(winners)].tree[k] ELSE first
  BY DEF RootTile
<1>4. \A i \in tiles : roots[i].tree[k] \in Tile
  <2>1. ASSUME NEW i \in tiles PROVE roots[i].tree[k] \in Tile
    <3>1. WellFormed(roots[i].tree) /\ IsTile(roots[i].tree, k)
      BY DEF Roots
    <3> QED
      BY <3>1, Shape DEF IsTile
  <2> QED
    BY <2>1
<1>5. \E i \in tiles : RootTile(roots, k, sign) = roots[i].tree[k]
  BY <1>2, <1>3
<1>6. ~ Wins(sign, RootTile(roots, k, sign)) /\ winners # {} => ~ Loses(sign, RootTile(roots, k, sign))
  BY <1>2, <1>3
<1> HIDE DEF first
<1> QED
  BY <1>4, <1>5, <1>6

\* What is left to merge of a tree is a tree, and the same where nothing was copied.
LEMMA RemainingFacts ==
    ASSUME NEW roots, Roots(roots), NEW sign \in Signs, NEW i \in DOMAIN roots
    PROVE  LET S == Remaining(roots, i, sign) IN
           /\ S.background = roots[i].background /\ WellFormed(S.tree)
           /\ IsLevelSet(roots[i].tree, roots[i].background) => IsLevelSet(S.tree, S.background)
           /\ \A k \in Keys : IsChild(S.tree, k) <=>
                 IsChild(roots[i].tree, k) /\ ChildFrom(roots, k, sign) # i
           /\ \A x \in Voxels : ChildFrom(roots, KeyOf[x], sign) # i =>
                 HeldIn(S, x) = HeldIn(roots[i], x)
<1> DEFINE T == roots[i].tree
           b == roots[i].background
           copied == {k \in Keys : ChildFrom(roots, k, sign) = i}
           U == [d \in {e \in DOMAIN T : KeyOf[e] \notin copied} |-> T[d]]
<1>1. WellFormed(T) /\ roots[i] = [tree |-> T, background |-> b]
  BY DEF Roots
<1>2. Remaining(roots, i, sign) = [tree |-> U, background |-> b]
  <2>1. Remaining(roots, i, sign) = [roots[i] EXCEPT !.tree = U]
    BY DEF Remaining
  <2> HIDE DEF U, T, b
  <2> QED
    BY <1>1, <2>1
<1>3. \A c \in Cells : KeyOf[c] \in Keys /\ (c \in Keys => KeyOf[c] = c)
  BY KeyFacts, Chain DEF Keys
<1>4. U = EraseKeys(T, copied)
  <2>1. \A c \in DOMAIN T, k \in Keys : c \in {k} \union Below[k] <=> KeyOf[c] = k
    <3>1. ASSUME NEW c \in DOMAIN T, NEW k \in Keys
          PROVE  c \in {k} \union Below[k] <=> KeyOf[c] = k
      <4>1. c \in Cells /\ k \in Cells /\ Level[k] = RootLevel
        BY <1>1, Shape DEF Keys
      <4>2. c \in {k} \union Below[k] <=> k \in Above[c]
        BY <4>1, Chain DEF Below
      <4> QED
        BY <4>1, <4>2, KeyFacts
    <3> QED
      BY <3>1
  <2>2. {e \in DOMAIN T : KeyOf[e] \notin copied}
          = DOMAIN T \ UNION {{k} \union Below[k] : k \in copied}
    BY <2>1
  <2> HIDE DEF T, copied
  <2> QED
    BY <2>2 DEF U, EraseKeys
<1> HIDE DEF T, b
<1>5. WellFormed(U)
  <2>1. copied \in SUBSET Keys
    OBVIOUS
  <2> HIDE DEF copied, U
  <2> QED
    BY <1>1, <1>4, <2>1, EraseKeysLemma
<1>6. /\ DOMAIN U = {e \in DOMAIN T : KeyOf[e] \notin copied}
      /\ \A d \in DOMAIN U : U[d] = T[d]
  OBVIOUS
<1> HIDE DEF U
<1>7. IsLevelSet(T, b) => IsLevelSet(U, b)
  BY <1>6 DEF IsLevelSet, IsTile
<1>8. \A k \in Keys : IsChild(U, k) <=> IsChild(T, k) /\ ChildFrom(roots, k, sign) # i
  <2>1. \A k \in Keys : KeyOf[k] = k
    BY <1>3 DEF Keys
  <2> QED
    BY <1>6, <2>1 DEF IsChild
<1>9. ASSUME NEW x \in Voxels, ChildFrom(roots, KeyOf[x], sign) # i PROVE Held(U, b, x) = Held(T, b, x)
  <2>1. x \in Cells
    BY DEF Voxels
  <2>2. \A d \in Above[x] : d \in Cells /\ KeyOf[d] = KeyOf[x]
    BY <2>1, KeyFacts, Chain
  <2>3. \A d \in Above[x] : /\ IsTile(U, d) <=> IsTile(T, d)
                            /\ IsTile(U, d) => U[d] = T[d]
    BY <1>6, <1>9, <2>2 DEF IsTile
  <2>4. CASE \E d \in Above[x] : IsTile(T, d)
    <3>1. PICK d \in Above[x] : IsTile(T, d)
      BY <2>4
    <3>2. Held(T, b, x) = T[d] /\ Held(U, b, x) = U[d]
      BY <1>1, <1>5, <2>1, <2>3, <3>1, OneTile, HeldTile
    <3> QED
      BY <2>3, <3>1, <3>2
  <2>5. CASE \A d \in Above[x] : ~ IsTile(T, d)
    BY <2>3, <2>5, HeldNone
  <2> QED
    BY <2>4, <2>5
<1>10. Remaining(roots, i, sign).tree = U /\ Remaining(roots, i, sign).background = b
  BY <1>2
<1> QED
  BY <1>5, <1>7, <1>8, <1>9, <1>10 DEF HeldIn, T, b

\* A key lies in nothing else.
LEMMA KeyItself ==
    ASSUME NEW k \in Keys
    PROVE  k \in Cells /\ Parents[k] = {} /\ KeyOf[k] = k /\ k \in Above[k]
<1>1. k \in Cells /\ Level[k] = RootLevel
  BY DEF Keys
<1>2. KeyOf[k] = k
  BY <1>1, KeyFacts, Chain
<1> QED
  BY <1>1, <1>2, KeyFacts, Chain

\* A table of branches, one for each key.
Table(keys, branch) == [d \in UNION {DOMAIN branch[k] : k \in keys} |-> branch[KeyOf[d]][d]]

\* A root table put together from branches is a tree, and holds what they hold.
LEMMA TableFacts ==
    ASSUME NEW keys \in SUBSET Keys, NEW branch, DOMAIN branch = keys,
           \A k \in keys : Fits(branch[k], k), mBackground \in Values
    PROVE  LET R == Table(keys, branch) IN
           /\ WellFormed(R)
           /\ \A x \in Voxels : Stored(R, x) = IF KeyOf[x] \in keys
                                               THEN Held(branch[KeyOf[x]], mBackground, x)
                                               ELSE BackgroundTile
           /\ \A k \in Keys : IsChild(R, k) <=> k \in keys /\ IsChild(branch[k], k)
           /\ (\A k \in keys : Solid(branch[k])) => Solid(R)
<1> DEFINE R == Table(keys, branch)
           K == [k \in keys |-> BackgroundTile]
           J == Joined(K, Empty, branch)
<1>1. \A k \in Keys : k \in Cells /\ Parents[k] = {} /\ KeyOf[k] = k /\ k \in Above[k]
  BY KeyItself
<1>2. BackgroundTile \in Tile /\ BackgroundTile # Child
  BY BackgroundTyped, ContentsTyped
<1>3. WellFormed(K) /\ WellFormed(Empty)
  <2>1. WellFormed(K)
    BY <1>1, <1>2 DEF WellFormed
  <2> QED
    BY <2>1, EmptyFits
<1>4. Both(K, Empty) = {} /\ Met(K, Empty) = keys
  <2>1. Both(K, Empty) = {}
    BY DEF Both, Nodes, IsChild, Empty
  <2>2. DOMAIN K = keys /\ DOMAIN Empty = {}
    BY DEF Empty
  <2> HIDE DEF K
  <2> QED
    BY <1>1, <2>1, <2>2 DEF Met
<1>5. \A k \in keys : \A d \in DOMAIN branch[k] : d \in Cells /\ k \in Above[d] /\ KeyOf[d] = k
  <2>1. ASSUME NEW k \in keys, NEW d \in DOMAIN branch[k]
        PROVE  d \in Cells /\ k \in Above[d] /\ KeyOf[d] = k
    <3>1. d \in Cells /\ k \in Above[d] /\ Level[k] = RootLevel
      BY DEF Fits, Keys
    <3> QED
      BY <3>1, KeyFacts
  <2> QED
    BY <2>1
<1>6. DOMAIN R = UNION {DOMAIN branch[k] : k \in keys} /\ \A k \in keys : \A d \in DOMAIN branch[k] :
         d \in DOMAIN R /\ R[d] = branch[k][d]
  BY <1>5 DEF Table
<1>7. \A d \in DOMAIN R : \E k \in keys : d \in DOMAIN branch[k]
  BY <1>6
<1> HIDE DEF K, R
<1>8. DOMAIN J = DOMAIN R
  BY <1>4, <1>6 DEF Joined
<1>9. \A k \in keys : \A d \in DOMAIN branch[k] : J[d] = branch[k][d]
  BY <1>3, <1>4, JoinedEntries
<1>10. J = R
  <2>1. \A d \in DOMAIN R : J[d] = R[d]
    BY <1>6, <1>7, <1>9
  <2>2. J = [d \in DOMAIN J |-> J[d]]
    BY DEF Joined
  <2>3. R = [d \in DOMAIN R |-> R[d]]
    BY DEF R, Table
  <2> HIDE DEF J
  <2> QED
    BY <1>8, <2>1, <2>2, <2>3
<1>11. WellFormed(R)
  BY <1>3, <1>4, <1>10, JoinedShape
<1>12. ASSUME NEW x \in Voxels
       PROVE  Stored(R, x) = IF KeyOf[x] \in keys THEN Held(branch[KeyOf[x]], mBackground, x)
                             ELSE BackgroundTile
  <2>1. KeyOf[x] \in Above[x]
    BY KeyFacts DEF Voxels
  <2>2. DOMAIN K = keys /\ DOMAIN Empty = {}
    BY DEF K, Empty
  <2> QED
    BY <1>3, <1>4, <1>10, <2>1, <2>2, JoinedHeld
<1>13. \A k \in Keys : IsChild(R, k) <=> k \in keys /\ IsChild(branch[k], k)
  <2>1. ASSUME NEW k \in Keys PROVE k \in DOMAIN R <=> k \in keys /\ k \in DOMAIN branch[k]
    BY <1>1, <1>5, <1>6, <1>7
  <2> QED
    BY <1>6, <2>1 DEF IsChild
<1>14. (\A k \in keys : Solid(branch[k])) => Solid(R)
  BY <1>6, <1>7 DEF Solid
<1> QED
  BY <1>11, <1>12, <1>13, <1>14 DEF R

\* What the operator leaves at a key.
RootAt(roots, sign, k) ==
    LET from == ChildFrom(roots, k, sign)
        t == RootTile(roots, k, sign)
    IN  IF from # 0 THEN Copied(roots[from], k)
        ELSE IF Wins(sign, t) THEN OneTileAt(k, [t EXCEPT !.value = -sign * mBackground])
        ELSE IF Loses(sign, t) THEN OneTileAt(k, [t EXCEPT !.value = sign * mBackground])
        ELSE Branch(roots[1].tree, k)

\* The keys it keeps.
KeysKept(roots, sign) ==
    {k \in Keys : IF sign = 1 THEN \E i \in DOMAIN roots : k \in DOMAIN roots[i].tree
                  ELSE \A i \in DOMAIN roots : k \in DOMAIN roots[i].tree}

\* Where no child is copied, there is a tile.
LEMMA TileOrChild ==
    ASSUME NEW roots, Roots(roots), NEW sign \in Signs, NEW k \in KeysKept(roots, sign),
           ChildFrom(roots, k, sign) = 0
    PROVE  HasTile(roots, k)
<1>1. k \in Keys /\ \E i \in DOMAIN roots : k \in DOMAIN roots[i].tree
  BY DEF KeysKept, Roots
<1> QED
  BY <1>1, ChildFromFacts DEF HasTile, IsTile, IsChild

\* What CsgRoot makes of a key can be put there.
LEMMA RootFits ==
    ASSUME NEW roots, Roots(roots), NEW sign \in Signs, mBackground \in Values,
           NEW k \in KeysKept(roots, sign)
    PROVE  Fits(RootAt(roots, sign, k), k)
<1> DEFINE from == ChildFrom(roots, k, sign)
           t == RootTile(roots, k, sign)
<1>1. k \in Keys /\ k \in Cells /\ Parents[k] = {}
  BY KeyItself DEF KeysKept
<1>2. \A v \in Tile : Fits(OneTileAt(k, v), k)
  BY <1>1, TileAtFits
<1>3. CASE from # 0
  <2>1. from \in DOMAIN roots /\ IsChild(roots[from].tree, k)
    BY <1>1, <1>3, ChildFromFacts
  <2>2. WellFormed(roots[from].tree) /\ roots[from].background \in Values
    BY <2>1 DEF Roots
  <2>3. Fits(Copied(roots[from], k), k)
    <3> DEFINE S == roots[from]
    <3> HIDE DEF S
    <3>1. WellFormed(S.tree) /\ S.background \in Values /\ IsChild(S.tree, k) => Fits(Copied(S, k), k)
      BY <1>1, CopiedFits
    <3> QED
      BY <2>1, <2>2, <3>1 DEF S
  <2> QED
    BY <1>3, <2>3 DEF RootAt
<1>4. CASE from = 0
  <2>1. t \in Tile
    BY <1>1, <1>4, TileOrChild, RootTileFacts
  <2>2. sign * mBackground \in Values /\ -sign * mBackground \in Values
    BY BackgroundWorth
  <2>3. [t EXCEPT !.value = -sign * mBackground] \in Tile /\ [t EXCEPT !.value = sign * mBackground] \in Tile
    <3> HIDE DEF t
    <3> QED
      BY <2>1, <2>2, ValueFacts
  <2>4. Fits(Branch(roots[1].tree, k), k)
    BY <1>1, BranchFits DEF Roots
  <2> HIDE DEF t
  <2> QED
    BY <1>2, <1>4, <2>3, <2>4 DEF RootAt, t
<1> QED
  BY <1>3, <1>4

\* What a level set holds where it has no node at the key: one of its two tiles.
LEMMA HeldAtKey ==
    ASSUME NEW roots, Roots(roots), LevelSets(roots), NEW i \in DOMAIN roots, NEW x \in Voxels,
           ~ IsChild(roots[i].tree, KeyOf[x])
    PROVE  LET T == roots[i].tree
               b == roots[i].background
           IN  /\ KeyOf[x] \in DOMAIN T => HeldIn(roots[i], x) = T[KeyOf[x]]
               /\ KeyOf[x] \notin DOMAIN T => HeldIn(roots[i], x) = Off(b)
               /\ HeldIn(roots[i], x) \in {Off(b), Off(-b)}
<1> DEFINE T == roots[i].tree
           b == roots[i].background
           k == KeyOf[x]
<1>1. WellFormed(T) /\ b \in Values /\ IsLevelSet(T, b)
  BY DEF Roots, LevelSets
<1>2. x \in Cells /\ k \in Above[x] /\ k \in Cells /\ Level[k] = RootLevel /\ Level[k] > 0
  BY KeyFacts, RootLevelNat DEF Voxels
<1> HIDE DEF T, b, k
<1>3. CASE k \in DOMAIN T
  <2>1. IsTile(T, k)
    BY <1>1, <1>3, Shape DEF IsTile, IsChild, T, k
  <2>2. Held(T, b, x) = T[k]
    BY <1>1, <1>2, <2>1, OneTile, HeldTile
  <2>3. T[k] \in {Off(b), Off(-b)}
    BY <1>1, <1>2, <2>1, InBand
  <2> QED
    BY <1>3, <2>2, <2>3 DEF HeldIn, T, b, k
<1>4. CASE k \notin DOMAIN T
  <2>1. Held(T, b, x) = Off(b)
    BY <1>1, <1>4, KeyNone DEF k
  <2> QED
    BY <1>4, <2>1 DEF HeldIn, T, b, k
<1> QED
  BY <1>3, <1>4

\* The tile that counts, in level sets.
LEMMA RootTileEnds ==
    ASSUME NEW roots, Roots(roots), LevelSets(roots), mBackground \in Values, NEW sign \in Signs,
           NEW k \in Keys, HasTile(roots, k)
    PROVE  LET t == RootTile(roots, k, sign) IN
           /\ t \in Tile /\ ~ t.active
           /\ [t EXCEPT !.value = sign * mBackground] = Off(sign * mBackground)
           /\ [t EXCEPT !.value = -sign * mBackground] = Off(-sign * mBackground)
           /\ Wins(sign, t) \/ Loses(sign, t)
           /\ \E i \in DOMAIN roots : IsTile(roots[i].tree, k) /\ t = roots[i].tree[k]
           /\ ~ Wins(sign, t) =>
                 \A i \in DOMAIN roots : IsTile(roots[i].tree, k) => ~ Wins(sign, roots[i].tree[k])
<1> DEFINE t == RootTile(roots, k, sign)
<1>1. /\ t \in Tile
      /\ \E i \in DOMAIN roots : IsTile(roots[i].tree, k) /\ t = roots[i].tree[k]
      /\ ~ Wins(sign, t) =>
            \A i \in DOMAIN roots : IsTile(roots[i].tree, k) /\ Wins(sign, roots[i].tree[k])
               => ~ Loses(sign, t)
  BY RootTileFacts
<1>2. PICK i \in DOMAIN roots : IsTile(roots[i].tree, k) /\ t = roots[i].tree[k]
  BY <1>1
<1> DEFINE b == roots[i].background
<1>3. b \in Values /\ b > 0 /\ -b \in Values /\ t \in {Off(b), Off(-b)}
  <2>1. Level[k] > 0 /\ k \in DOMAIN roots[i].tree
    BY <1>2, RootLevelNat DEF Keys, IsTile
  <2>2. b \in Values /\ IsLevelSet(roots[i].tree, b)
    BY DEF Roots, LevelSets
  <2> QED
    BY <1>2, <2>1, <2>2, ValueFacts DEF IsLevelSet
<1> HIDE DEF t, b
<1>4. sign * mBackground \in Values /\ -sign * mBackground \in Values
  BY BackgroundWorth
<1>5. \A v \in Values : [t EXCEPT !.value = v] = Off(v)
  BY <1>3, OffSet
<1>6. ~ t.active
  BY <1>3, OffFacts
<1>7. Wins(sign, t) \/ Loses(sign, t)
  BY <1>3, Ends
<1> QED
  BY <1>1, <1>4, <1>5, <1>6, <1>7 DEF t

\* For level sets, its tiles are background inside and outside.
LEMMA RootSolid ==
    ASSUME NEW roots, Roots(roots), LevelSets(roots), NEW sign \in Signs, mBackground \in Values,
           NEW k \in KeysKept(roots, sign)
    PROVE  Solid(RootAt(roots, sign, k))
<1> DEFINE from == ChildFrom(roots, k, sign)
           t == RootTile(roots, k, sign)
<1>1. k \in Keys /\ k \in Cells /\ Parents[k] = {}
  BY KeyItself DEF KeysKept
<1>2. mBackground > 0
  BY DEF Roots, LevelSets, IsLevelSet
<1>3. \A v \in {Off(mBackground), Off(-mBackground)} : Solid(OneTileAt(k, v))
  BY DEF Solid, OneTileAt
<1>4. CASE from # 0
  <2> DEFINE S == roots[from]
  <2>1. from \in DOMAIN roots /\ IsChild(S.tree, k)
    BY <1>1, <1>4, ChildFromFacts
  <2>2. WellFormed(S.tree) /\ S.background \in Values /\ IsLevelSet(S.tree, S.background)
    BY <2>1 DEF Roots, LevelSets
  <2>3. RootAt(roots, sign, k) = Copied(S, k)
    BY <1>4 DEF RootAt
  <2> HIDE DEF S
  <2>4. S.background > 0
    BY <2>2 DEF IsLevelSet
  <2>5. Solid(Copied(S, k))
    BY <1>1, <1>2, <2>1, <2>2, <2>4, CopiedSolid
  <2> QED
    BY <2>3, <2>5
<1>5. CASE from = 0
  <2>1. HasTile(roots, k)
    BY <1>5, TileOrChild
  <2>2. /\ [t EXCEPT !.value = sign * mBackground] = Off(sign * mBackground)
        /\ [t EXCEPT !.value = -sign * mBackground] = Off(-sign * mBackground)
        /\ Wins(sign, t) \/ Loses(sign, t)
    BY <1>1, <2>1, RootTileEnds
  <2>3. /\ Off(sign * mBackground) \in {Off(mBackground), Off(-mBackground)}
        /\ Off(-sign * mBackground) \in {Off(mBackground), Off(-mBackground)}
    BY <1>2, Ends
  <2> HIDE DEF t, Solid
  <2> QED
    BY <1>3, <1>5, <2>2, <2>3 DEF RootAt, t
<1> QED
  BY <1>4, <1>5

\* Where no tile has won, all that the trees without a node hold there loses.
LEMMA LosersAtKey ==
    ASSUME NEW roots, Roots(roots), LevelSets(roots), mBackground \in Values, NEW sign \in Signs,
           NEW x \in Voxels, KeyOf[x] \in KeysKept(roots, sign),
           ~ (HasTile(roots, KeyOf[x]) /\ Wins(sign, RootTile(roots, KeyOf[x], sign))),
           NEW i \in DOMAIN roots, ~ IsChild(roots[i].tree, KeyOf[x])
    PROVE  /\ HeldIn(roots[i], x) \in Tile
           /\ Loses(sign, HeldIn(roots[i], x))
           /\ sign * HeldIn(roots[i], x).value = roots[i].background
<1> DEFINE k == KeyOf[x]
           T == roots[i].tree
           b == roots[i].background
           h == HeldIn(roots[i], x)
<1>1. /\ k \in DOMAIN T => h = T[k]
      /\ k \notin DOMAIN T => h = Off(b)
      /\ h \in {Off(b), Off(-b)}
  BY HeldAtKey
<1>2. b \in Values /\ b > 0 /\ -b \in Values /\ b \in Int
  <2>1. b \in Values /\ IsLevelSet(T, b)
    BY DEF Roots, LevelSets
  <2> QED
    BY <2>1, ValueFacts DEF IsLevelSet
<1>3. k \in Keys
  BY DEF KeysKept
<1>4. ~ Wins(sign, h)
  <2>1. CASE k \in DOMAIN T
    <3>1. IsTile(T, k)
      BY <2>1 DEF IsTile, IsChild
    <3>2. HasTile(roots, k)
      BY <3>1 DEF HasTile
    <3>3. ~ Wins(sign, RootTile(roots, k, sign))
      BY <3>2
    <3> HIDE DEF k
    <3>4. \A j \in DOMAIN roots : IsTile(roots[j].tree, k) => ~ Wins(sign, roots[j].tree[k])
      BY <1>3, <3>2, <3>3, RootTileEnds
    <3>5. ~ Wins(sign, T[k])
      BY <3>1, <3>4
    <3> QED
      BY <1>1, <2>1, <3>5
  <2>2. CASE k \notin DOMAIN T
    <3>1. sign = 1
      BY <2>2 DEF KeysKept, Signs
    <3>2. h.value = b
      BY <1>1, <2>2, OffFacts
    <3> QED
      BY <1>2, <3>1, <3>2 DEF Wins
  <2> QED
    BY <2>1, <2>2
<1> HIDE DEF h, b
<1>5. h \in Tile
  BY <1>1, <1>2, OffFacts
<1>6. h = Off(sign * b) /\ Loses(sign, h) /\ sign * h.value = b
  BY <1>1, <1>2, <1>4, Ends
<1> QED
  BY <1>5, <1>6 DEF h, b

\* What all trees hold at a voxel, and those whose nodes need not be merged.
AllHeld(roots, x) == {HeldIn(roots[j], x) : j \in DOMAIN roots}
FirstHeld(roots, sign, x) ==
    {HeldIn(roots[j], x) : j \in {i \in DOMAIN roots :
        i = 1 \/ i = ChildFrom(roots, KeyOf[x], sign) \/ ~ IsChild(roots[i].tree, KeyOf[x])}}

\* What the voxels hold after the root node.
LEMMA RootMeets ==
    ASSUME NEW roots, Roots(roots), LevelSets(roots), mBackground \in Values, NEW sign \in Signs,
           NEW prune \in BOOLEAN, NEW level \in BOOLEAN,
           level => \A i \in DOMAIN roots : roots[i].background = mBackground, NEW x \in Voxels
    PROVE  LET k == KeyOf[x]
               from == ChildFrom(roots, k, sign)
               R == RootAt(roots, sign, k)
               all == AllHeld(roots, x)
           IN  /\ k \notin KeysKept(roots, sign) => Meets(sign, prune, level, BackgroundTile, all)
               /\ k \in KeysKept(roots, sign) /\ from = 0 =>
                     /\ Meets(sign, prune, level, Held(R, mBackground, x), all)
                     /\ ~ IsChild(R, k)
               /\ k \in KeysKept(roots, sign) /\ from # 0 =>
                     /\ Meets(sign, prune, level, Held(R, mBackground, x), FirstHeld(roots, sign, x))
                     /\ IsChild(R, k)
<1> DEFINE k == KeyOf[x]
           from == ChildFrom(roots, k, sign)
           t == RootTile(roots, k, sign)
           R == RootAt(roots, sign, k)
           all == {HeldIn(roots[j], x) : j \in DOMAIN roots}
           settled == {j \in DOMAIN roots : j = 1 \/ j = from \/ ~ IsChild(roots[j].tree, k)}
           b(j) == roots[j].background
<1>1. /\ mBackground \in Int /\ mBackground > 0 /\ 1 \in DOMAIN roots /\ b(1) = mBackground
      /\ \A j \in DOMAIN roots : b(j) \in Values /\ b(j) > 0 /\ WellFormed(roots[j].tree)
  BY ValueFacts DEF Roots, LevelSets, IsLevelSet
<1>2. \A j \in DOMAIN roots : /\ HeldIn(roots[j], x) \in Tile
                              /\ level => HeldIn(roots[j], x).value \in -mBackground .. mBackground
  <2>1. ASSUME NEW j \in DOMAIN roots
        PROVE  /\ HeldIn(roots[j], x) \in Tile
               /\ level => HeldIn(roots[j], x).value \in -mBackground .. mBackground
    <3> DEFINE T == roots[j].tree
    <3>1. WellFormed(T) /\ b(j) \in Values /\ IsLevelSet(T, b(j))
      BY <1>1 DEF LevelSets
    <3> HIDE DEF T, b
    <3>2. Held(T, b(j), x) \in Tile /\ Held(T, b(j), x).value \in -b(j) .. b(j)
      BY <3>1, InBand
    <3> QED
      BY <3>2 DEF HeldIn, T, b
  <2> QED
    BY <2>1
<1>3. all \in SUBSET Tile /\ (level => \A u \in all : u.value \in -mBackground .. mBackground)
  BY <1>2
<1>4. k \in Above[x] /\ k \in Keys /\ k \in Cells /\ Parents[k] = {}
  BY KeyFacts DEF Voxels, Keys
<1>5. /\ sign * mBackground \in Values /\ Off(sign * mBackground) \in Tile
      /\ Off(-sign * mBackground) \in Tile /\ Loses(sign, Off(sign * mBackground))
  BY <1>1, BackgroundWorth, Ends
<1>6. ASSUME \A u \in all : Loses(sign, u), level => \A u \in all : sign * u.value = mBackground,
             NEW h \in all, level => h = Off(sign * mBackground)
      PROVE  Meets(sign, prune, level, Off(sign * mBackground), all)
  <2> DEFINE r == Off(sign * mBackground)
  <2>1. h \in Tile /\ Loses(sign, h) /\ all \union {h} = all
    BY <1>3, <1>6
  <2>2. r.value \in Int /\ h.value \in Int
    BY <1>5, <2>1, ValueFacts
  <2>3. (r.value < 0 <=> h.value < 0) /\ (r.value > 0 <=> h.value > 0)
    <3> HIDE DEF r
    <3>1. sign * r.value > 0 /\ sign * h.value > 0
      BY <1>5, <2>1 DEF Loses, r
    <3>2. sign = 1 \/ sign = -1
      BY DEF Signs
    <3> QED
      BY <2>2, <3>1, <3>2
  <2>4. level => r = h /\ h.value \in -mBackground .. mBackground
    BY <1>3, <1>6
  <2> HIDE DEF all, r
  <2>5. Meets(sign, prune, level, r, all \union {h})
    BY <1>3, <1>5, <1>6, <2>1, <2>3, <2>4, MeetsCopied DEF r
  <2> QED
    BY <2>1, <2>5 DEF r
<1>7. ASSUME NEW h \in all, Wins(sign, h), level => h = Off(-sign * mBackground)
      PROVE  Meets(sign, prune, level, Off(-sign * mBackground), all)
  <2> HIDE DEF all
  <2> QED
    BY <1>1, <1>3, <1>7, MeetsOut
<1>8. CASE k \notin KeysKept(roots, sign)
  <2>1. ASSUME NEW j \in DOMAIN roots, k \notin DOMAIN roots[j].tree
        PROVE  HeldIn(roots[j], x) = Off(b(j))
    BY <2>1, HeldAtKey DEF IsChild
  <2>2. CASE sign = 1
    <3>1. \A j \in DOMAIN roots : k \notin DOMAIN roots[j].tree
      BY <1>4, <1>8, <2>2 DEF KeysKept
    <3>2. \A j \in DOMAIN roots : HeldIn(roots[j], x) = Off(b(j)) /\ sign * b(j) = b(j)
      BY <1>1, <2>1, <2>2, <3>1, ValueFacts
    <3>3. \A j \in DOMAIN roots : Loses(sign, Off(b(j))) /\ sign * Off(b(j)).value = b(j)
      <4>1. ASSUME NEW j \in DOMAIN roots PROVE Loses(sign, Off(b(j))) /\ sign * Off(b(j)).value = b(j)
        <5>1. b(j) \in Values /\ b(j) > 0 /\ Off(sign * b(j)) = Off(b(j))
          BY <1>1, <3>2
        <5> HIDE DEF b
        <5>2. Loses(sign, Off(sign * b(j))) /\ sign * Off(sign * b(j)).value = b(j)
          BY <5>1, Ends
        <5> QED
          BY <5>1, <5>2
      <4> QED
        BY <4>1
    <3>4. HeldIn(roots[1], x) = Off(sign * mBackground) /\ HeldIn(roots[1], x) \in all
      BY <1>1, <2>2, <3>2
    <3>5. (\A u \in all : Loses(sign, u)) /\ (level => \A u \in all : sign * u.value = mBackground)
      BY <3>2, <3>3
    <3>6. Meets(sign, prune, level, Off(sign * mBackground), all)
      BY <1>6, <3>4, <3>5
    <3>7. Off(sign * mBackground) = BackgroundTile
      BY <1>1, <2>2, OffFacts
    <3> QED
      BY <1>8, <3>6, <3>7 DEF AllHeld
  <2>3. CASE sign = -1
    <3>1. PICK j \in DOMAIN roots : k \notin DOMAIN roots[j].tree
      BY <1>4, <1>8, <2>3 DEF KeysKept
    <3>2. b(j) \in Int /\ -sign * b(j) = b(j) /\ -sign * mBackground = mBackground
      BY <1>1, <2>3, ValueFacts
    <3>3. HeldIn(roots[j], x) = Off(-sign * b(j)) /\ HeldIn(roots[j], x) \in all
      BY <2>1, <3>1, <3>2
    <3>4. Wins(sign, Off(-sign * b(j)))
      <4>1. b(j) \in Values /\ b(j) > 0
        BY <1>1
      <4> HIDE DEF b
      <4> QED
        BY <4>1, Ends
    <3>5. Meets(sign, prune, level, Off(-sign * mBackground), all)
      BY <1>7, <3>1, <3>3, <3>4
    <3>6. Off(-sign * mBackground) = BackgroundTile
      BY <3>2, OffFacts
    <3> QED
      BY <1>8, <3>5, <3>6 DEF AllHeld
  <2> QED
    BY <2>2, <2>3 DEF Signs
<1>9. ASSUME k \in KeysKept(roots, sign), ~ (HasTile(roots, k) /\ Wins(sign, t)),
             NEW j \in DOMAIN roots, ~ IsChild(roots[j].tree, k)
      PROVE  /\ Loses(sign, HeldIn(roots[j], x))
             /\ level => sign * HeldIn(roots[j], x).value = mBackground
  BY <1>9, LosersAtKey
<1>10. CASE k \in KeysKept(roots, sign) /\ from = 0
  <2>1. HasTile(roots, k)
    BY <1>10, TileOrChild
  <2>2. /\ t \in Tile
        /\ [t EXCEPT !.value = sign * mBackground] = Off(sign * mBackground)
        /\ [t EXCEPT !.value = -sign * mBackground] = Off(-sign * mBackground)
        /\ Wins(sign, t) \/ Loses(sign, t)
        /\ \E i \in DOMAIN roots : IsTile(roots[i].tree, k) /\ t = roots[i].tree[k]
    <3> HIDE DEF k
    <3> QED
      BY <1>4, <2>1, RootTileEnds
  <2>3. PICK i \in DOMAIN roots : IsTile(roots[i].tree, k) /\ t = roots[i].tree[k]
    BY <2>2
  <2>4. HeldIn(roots[i], x) = t /\ t \in all /\ t \in {Off(b(i)), Off(-b(i))}
    <3>1. k \in DOMAIN roots[i].tree /\ ~ IsChild(roots[i].tree, k)
      BY <2>3 DEF IsTile, IsChild
    <3>2. HeldIn(roots[i], x) = t /\ HeldIn(roots[i], x) \in {Off(b(i)), Off(-b(i))}
      BY <2>3, <3>1, HeldAtKey
    <3> QED
      BY <3>2
  <2>5. \/ R = OneTileAt(k, Off(-sign * mBackground)) /\ Wins(sign, t)
        \/ R = OneTileAt(k, Off(sign * mBackground)) /\ ~ Wins(sign, t) /\ Loses(sign, t)
    BY <1>10, <2>2 DEF RootAt
  <2>6. \A v \in Tile : /\ Held(OneTileAt(k, v), mBackground, x) = v
                        /\ ~ IsChild(OneTileAt(k, v), k)
    <3>1. ASSUME NEW v \in Tile
          PROVE  Held(OneTileAt(k, v), mBackground, x) = v /\ ~ IsChild(OneTileAt(k, v), k)
      <4>1. /\ \A y \in Voxels, e \in Values : k \in Above[y] => Held(OneTileAt(k, v), e, y) = v
            /\ OneTileAt(k, v)[k] = v
        BY <1>4, TileAtFits
      <4> QED
        BY <1>4, <4>1, ContentsTyped DEF IsChild
    <3> QED
      BY <3>1
  <2>7. level => b(i) = mBackground
    OBVIOUS
  <2> HIDE DEF b, t, all, R, k, from
  <2>8. b(i) \in Values /\ b(i) > 0
    BY <1>1
  <2>9. CASE Wins(sign, t)
    <3>1. R = OneTileAt(k, Off(-sign * mBackground))
      BY <2>5, <2>9
    <3>2. t = Off(-sign * b(i))
      BY <2>4, <2>8, <2>9, Ends
    <3>3. Meets(sign, prune, level, Off(-sign * mBackground), all)
      BY <1>7, <2>4, <2>7, <2>9, <3>2
    <3>4. Held(R, mBackground, x) = Off(-sign * mBackground) /\ ~ IsChild(R, k)
      BY <1>5, <2>6, <3>1
    <3>5. Meets(sign, prune, level, Held(R, mBackground, x), all)
      BY <3>3, <3>4
    <3> QED
      BY <1>10, <3>4, <3>5 DEF R, k, from, all, AllHeld
  <2>10. CASE ~ Wins(sign, t)
    <3>1. R = OneTileAt(k, Off(sign * mBackground))
      BY <2>5, <2>10
    <3>2. t = Off(sign * b(i))
      BY <2>2, <2>4, <2>8, <2>10, Ends
    <3>3. \A j \in DOMAIN roots : ~ IsChild(roots[j].tree, k)
      BY <1>4, <1>10, <2>10, ChildFromFacts DEF from, t
    <3>4. \A j \in DOMAIN roots : /\ Loses(sign, HeldIn(roots[j], x))
                                  /\ level => sign * HeldIn(roots[j], x).value = mBackground
      BY <1>9, <1>10, <2>10, <3>3
    <3>5. (\A u \in all : Loses(sign, u)) /\ (level => \A u \in all : sign * u.value = mBackground)
      BY <3>4 DEF all
    <3>6. Meets(sign, prune, level, Off(sign * mBackground), all)
      BY <1>6, <2>4, <2>7, <3>2, <3>5
    <3>7. Held(R, mBackground, x) = Off(sign * mBackground) /\ ~ IsChild(R, k)
      BY <1>5, <2>6, <3>1
    <3>8. Meets(sign, prune, level, Held(R, mBackground, x), all)
      BY <3>6, <3>7
    <3> QED
      BY <1>10, <3>7, <3>8 DEF R, k, from, all, AllHeld
  <2> QED
    BY <2>9, <2>10
<1>11. CASE k \in KeysKept(roots, sign) /\ from # 0
  <2> DEFINE S == roots[from]
             h == HeldIn(S, x)
             G == {HeldIn(roots[j], x) : j \in {i \in DOMAIN roots : ~ IsChild(roots[i].tree, k)}}
             r == Held(R, mBackground, x)
  <2>1. /\ from \in DOMAIN roots /\ IsChild(S.tree, k)
        /\ HasTile(roots, k) /\ Wins(sign, t) => t.active
        /\ ~ (HasTile(roots, k) /\ Wins(sign, t)) =>
              \A j \in DOMAIN roots : IsChild(roots[j].tree, k) => from <= j
    BY <1>4, <1>11, ChildFromFacts
  <2>2. ~ (HasTile(roots, k) /\ Wins(sign, t))
    <3>1. HasTile(roots, k) => ~ t.active
      <4> HIDE DEF k
      <4> QED
        BY <1>4, RootTileEnds
    <3> QED
      BY <2>1, <3>1
  <2>3. /\ \A u \in G : u \in Tile /\ Loses(sign, u)
        /\ level => \A u \in G : sign * u.value = mBackground
    <3>1. \A j \in DOMAIN roots : ~ IsChild(roots[j].tree, k) =>
             /\ Loses(sign, HeldIn(roots[j], x))
             /\ level => sign * HeldIn(roots[j], x).value = mBackground
      BY <1>9, <1>11, <2>2
    <3> QED
      BY <1>2, <3>1
  <2>4. R = Copied(S, k)
    BY <1>11 DEF RootAt
  <2>5. WellFormed(S.tree) /\ S.background \in Values /\ S.background > 0
    BY <1>1, <2>1
  <2>6. h \in Tile /\ (level => h.value \in -mBackground .. mBackground /\ S.background = mBackground)
    BY <1>2, <2>1
  <2>7. {HeldIn(roots[j], x) : j \in settled} = G \union {h}
    <3>1. 1 \in settled /\ (1 = from \/ ~ IsChild(roots[1].tree, k))
      <4>1. IsChild(roots[1].tree, k) => from <= 1
        BY <1>1, <2>1, <2>2
      <4>2. from \in Nat \ {0}
        BY <2>1 DEF Roots
      <4> QED
        BY <1>1, <4>1, <4>2
    <3>2. settled = {i \in DOMAIN roots : ~ IsChild(roots[i].tree, k)} \union {from}
      BY <2>1, <3>1
    <3> HIDE DEF settled, from
    <3> QED
      BY <3>2
  <2> HIDE DEF S, R, h, G, k, from, settled
  <2>8. /\ r = Rebasing(S.background, mBackground)[h]
        /\ IsChild(R, k)
    <3>1. /\ k \in DOMAIN Copied(S, k) /\ Copied(S, k)[k] = Child
          /\ \A y \in Voxels : k \in Above[y] =>
                Held(Copied(S, k), mBackground, y)
                   = Rebasing(S.background, mBackground)[Held(S.tree, S.background, y)]
      BY <1>4, <2>1, <2>5, CopiedFits
    <3> QED
      BY <1>4, <2>4, <3>1 DEF HeldIn, h, IsChild
  <2>9. /\ r \in Tile /\ (r.value < 0 <=> h.value < 0) /\ (r.value > 0 <=> h.value > 0)
        /\ level => r = h
    <3>1. mBackground \in Values /\ mBackground > 0 /\ S.background > 0 /\ S.background \in Values
      BY <1>1, <2>5
    <3>2. \A u \in Tile :
             LET q == Rebasing(S.background, mBackground)[u] IN
             /\ q \in Tile /\ (q.value < 0 <=> u.value < 0) /\ (q.value > 0 <=> u.value > 0)
             /\ S.background = mBackground => q = u
      BY <3>1, RebasingSigns
    <3> QED
      BY <2>6, <2>8, <3>2
  <2> HIDE DEF r
  <2>10. Meets(sign, prune, level, r, G \union {h})
    <3>1. G \in SUBSET Tile
      BY <2>3
    <3> QED
      BY <2>3, <2>6, <2>9, <3>1, MeetsCopied
  <2> QED
    BY <1>11, <2>7, <2>8, <2>10 DEF R, r, k, from, settled, FirstHeld
<1> QED
  BY <1>8, <1>10, <1>11

-------------------------------------------------------------------------------
(* CsgUnionOrIntersectionOp, one tree after the other.                     *)

OneBackground(roots) == \A i \in DOMAIN roots : roots[i].background = mBackground

\* The trees that count at a voxel once R has been merged from the first i of them: those,
\* and the ones that have nothing to merge below the root node.
Settled(roots, sign, i, R, x) ==
    {j \in DOMAIN roots : \/ j <= i \/ ~ IsChild(R, KeyOf[x])
                          \/ ~ IsChild(Remaining(roots, j, sign).tree, KeyOf[x])}

\* The inductive invariant of the merge.
Stage(roots, sign, prune, i, R) ==
    /\ WellFormed(R)
    /\ LevelSets(roots) =>
          /\ Solid(R)
          /\ \A x \in Voxels : Meets(sign, prune, OneBackground(roots), Stored(R, x),
                                     {HeldIn(roots[j], x) : j \in Settled(roots, sign, i, R, x)})

\* The root node establishes the invariant,
LEMMA CsgRootStage ==
    ASSUME NEW roots, Roots(roots), mBackground \in Values, NEW sign \in Signs, NEW prune \in BOOLEAN
    PROVE  Stage(roots, sign, prune, 1, CsgRoot(roots, sign))
<1> DEFINE keys == KeysKept(roots, sign)
           branch == [k \in keys |-> RootAt(roots, sign, k)]
           T == Table(keys, branch)
           R == EraseBackgroundTiles(T)
           level == OneBackground(roots)
<1>1. CsgRoot(roots, sign) = R
  BY DEF CsgRoot, RootAt, KeysKept, Table
<1>2. keys \in SUBSET Keys /\ DOMAIN branch = keys /\ \A k \in keys : branch[k] = RootAt(roots, sign, k)
  BY DEF KeysKept
<1> HIDE DEF keys, branch
<1>3. \A k \in keys : Fits(branch[k], k)
  BY <1>2, RootFits DEF keys
<1>4. /\ WellFormed(T)
      /\ \A x \in Voxels : Stored(T, x) = IF KeyOf[x] \in keys
                                          THEN Held(branch[KeyOf[x]], mBackground, x)
                                          ELSE BackgroundTile
      /\ \A k \in Keys : IsChild(T, k) <=> k \in keys /\ IsChild(branch[k], k)
      /\ (\A k \in keys : Solid(branch[k])) => Solid(T)
  BY <1>2, <1>3, TableFacts
<1> HIDE DEF T
<1>5. /\ WellFormed(R) /\ DOMAIN R \subseteq DOMAIN T /\ \A c \in DOMAIN R : R[c] = T[c]
      /\ \A x \in Voxels : Stored(R, x) = Stored(T, x)
  BY <1>4, ErasedLevelSet
<1>6. \A k \in Keys : IsChild(R, k) <=> k \in keys /\ IsChild(branch[k], k)
  <2>1. ASSUME NEW k \in Keys, IsChild(T, k) PROVE k \in DOMAIN R
    <3>1. Parents[k] = {} /\ k \in Cells
      BY KeyItself
    <3>2. ASSUME NEW j \in Keys, k \in {j} \union Below[j] PROVE j = k
      BY <3>1, <3>2 DEF Below, Keys
    <3>3. k \in DOMAIN T /\ T[k] # BackgroundTile
      BY <2>1, BackgroundTyped DEF IsChild
    <3> QED
      BY <3>2, <3>3 DEF EraseBackgroundTiles, EraseKeys
  <2>2. \A k \in Keys : IsChild(R, k) <=> IsChild(T, k)
    BY <1>5, <2>1 DEF IsChild
  <2> QED
    BY <1>4, <2>2
<1> HIDE DEF R
<1>7. ASSUME LevelSets(roots) PROVE Solid(R)
  <2>1. \A k \in keys : Solid(branch[k])
    BY <1>2, <1>7, RootSolid DEF keys
  <2> QED
    BY <1>4, <1>5, <2>1 DEF Solid
<1>8. ASSUME LevelSets(roots), NEW x \in Voxels
      PROVE  Meets(sign, prune, level, Stored(R, x),
                   {HeldIn(roots[j], x) : j \in Settled(roots, sign, 1, R, x)})
  <2> DEFINE k == KeyOf[x]
             from == ChildFrom(roots, k, sign)
             B == RootAt(roots, sign, k)
             all == AllHeld(roots, x)
             some == {j \in DOMAIN roots : j = 1 \/ j = from \/ ~ IsChild(roots[j].tree, k)}
  <2>1. k \in Keys
    BY KeyFacts DEF Voxels, Keys
  <2>2. level \in BOOLEAN /\ (level => \A i \in DOMAIN roots : roots[i].background = mBackground)
    BY DEF OneBackground
  <2>3. /\ k \notin keys => Meets(sign, prune, level, BackgroundTile, all)
        /\ k \in keys /\ from = 0 =>
              /\ Meets(sign, prune, level, Held(B, mBackground, x), all) /\ ~ IsChild(B, k)
        /\ k \in keys /\ from # 0 =>
              /\ Meets(sign, prune, level, Held(B, mBackground, x), FirstHeld(roots, sign, x))
              /\ IsChild(B, k)
    BY <1>8, <2>2, RootMeets DEF keys
  <2>4. /\ IsChild(R, k) <=> k \in keys /\ IsChild(B, k)
        /\ k \in keys => Stored(R, x) = Held(B, mBackground, x)
        /\ k \notin keys => Stored(R, x) = BackgroundTile
    BY <1>2, <1>4, <1>5, <1>6, <2>1
  <2> HIDE DEF B
  <2>5. CASE ~ IsChild(R, k)
    <3>1. Settled(roots, sign, 1, R, x) = DOMAIN roots
      BY <2>5 DEF Settled
    <3>2. Meets(sign, prune, level, Stored(R, x), all)
      BY <2>3, <2>4, <2>5
    <3> QED
      BY <3>1, <3>2 DEF AllHeld
  <2>6. CASE IsChild(R, k)
    <3>1. k \in keys /\ from # 0
      BY <2>3, <2>4, <2>6
    <3>2. \A j \in DOMAIN roots : /\ j <= 1 <=> j = 1
                                  /\ IsChild(Remaining(roots, j, sign).tree, k) <=>
                                        IsChild(roots[j].tree, k) /\ from # j
      <4>1. ASSUME NEW j \in DOMAIN roots
            PROVE  IsChild(Remaining(roots, j, sign).tree, k) <=>
                                        IsChild(roots[j].tree, k) /\ from # j
        <5> HIDE DEF k
        <5> QED
          BY <2>1, RemainingFacts
      <4>2. \A j \in DOMAIN roots : j \in Nat \ {0}
        BY DEF Roots
      <4> QED
        BY <4>1, <4>2
    <3>3. Settled(roots, sign, 1, R, x) = some
      BY <2>6, <3>2 DEF Settled
    <3>4. Meets(sign, prune, level, Stored(R, x), {HeldIn(roots[j], x) : j \in some})
      BY <2>3, <2>4, <3>1 DEF FirstHeld
    <3> QED
      BY <3>3, <3>4
  <2> QED
    BY <2>5, <2>6
<1> QED
  BY <1>1, <1>5, <1>7, <1>8 DEF Stage

\* What the voxels of level sets hold is in the band.
LEMMA HeldInBand ==
    ASSUME NEW roots, Roots(roots), LevelSets(roots), NEW x \in Voxels, NEW J \in SUBSET DOMAIN roots
    PROVE  LET G == {HeldIn(roots[j], x) : j \in J} IN
           /\ G \in SUBSET Tile
           /\ OneBackground(roots) => \A t \in G : t.value \in -mBackground .. mBackground
<1>1. ASSUME NEW j \in J
      PROVE  /\ HeldIn(roots[j], x) \in Tile
             /\ OneBackground(roots) => HeldIn(roots[j], x).value \in -mBackground .. mBackground
  <2> DEFINE T == roots[j].tree
             b == roots[j].background
  <2>1. WellFormed(T) /\ b \in Values /\ IsLevelSet(T, b)
    BY DEF Roots, LevelSets
  <2>2. OneBackground(roots) => b = mBackground
    BY DEF OneBackground
  <2> HIDE DEF T, b
  <2>3. Held(T, b, x) \in Tile /\ Held(T, b, x).value \in -b .. b
    BY <2>1, InBand
  <2> QED
    BY <2>2, <2>3 DEF HeldIn, T, b
<1> QED
  BY <1>1

\* and every tree of the list keeps it.
LEMMA CsgStep ==
    ASSUME NEW roots, Roots(roots), mBackground \in Values, NEW sign \in Signs, NEW prune \in BOOLEAN,
           NEW i \in DOMAIN roots, NEW T, Stage(roots, sign, prune, i - 1, T)
    PROVE  Stage(roots, sign, prune, i, CsgNodes(T, Remaining(roots, i, sign), sign, prune))
<1> DEFINE S == Remaining(roots, i, sign)
           branch == [c \in Met(T, S.tree) |-> NodesAt(T, S, sign, prune, c)]
           J == Joined(T, S.tree, branch)
           level == OneBackground(roots)
<1>1. CsgNodes(T, S, sign, prune) = J
  BY DEF CsgNodes, NodesAt
<1>2. /\ S.background = roots[i].background /\ S.background \in Values /\ WellFormed(S.tree)
      /\ LevelSets(roots) => IsLevelSet(S.tree, S.background)
      /\ \A k \in Keys : IsChild(S.tree, k) => ChildFrom(roots, k, sign) # i
      /\ \A x \in Voxels : ChildFrom(roots, KeyOf[x], sign) # i => HeldIn(S, x) = HeldIn(roots[i], x)
  BY RemainingFacts DEF Roots, LevelSets
<1>3. WellFormed(T)
  BY DEF Stage
<1>4. DOMAIN branch = Met(T, S.tree) /\ \A c \in Met(T, S.tree) : branch[c] = NodesAt(T, S, sign, prune, c)
  OBVIOUS
<1>0. \A k \in Keys : IsChild(Remaining(roots, i, sign).tree, k) <=> IsChild(S.tree, k)
  OBVIOUS
<1> HIDE DEF S, branch
<1>5. \A c \in Met(T, S.tree) : Fits(branch[c], c)
  BY <1>2, <1>3, <1>4, NodesFits
<1>6. WellFormed(J)
  BY <1>2, <1>3, <1>4, <1>5, JoinedShape
<1>7. \A k \in Keys : IsChild(J, k) <=> IsChild(T, k)
  <2>1. \A d \in Cells : IsChild(J, d)
           <=> d \in Both(T, S.tree) \/ \E c \in Met(T, S.tree) : IsChild(branch[c], d)
    BY <1>2, <1>3, <1>4, <1>5, JoinedShape
  <2>2. ASSUME NEW k \in Keys PROVE IsChild(J, k) <=> IsChild(T, k)
    <3>1. k \in Cells /\ Parents[k] = {} /\ k \in Above[k] /\ KeyOf[k] = k
      BY KeyItself
    <3>2. ASSUME NEW c \in Met(T, S.tree), IsChild(branch[c], k) PROVE IsChild(T, k)
      <4>1. c \in Cells /\ c \in Above[k]
        BY <1>2, <1>3, <1>5, <3>2, MetFacts DEF Fits, IsChild
      <4>2. c = k
        BY <3>1, <4>1, Chain
      <4>3. branch[c] = Branch(T, k)
        BY <1>4, <4>2 DEF NodesAt
      <4> QED
        BY <3>2, <4>3 DEF IsChild, Branch
    <3>3. ASSUME IsChild(T, k), k \notin Both(T, S.tree)
          PROVE  k \in Met(T, S.tree) /\ IsChild(branch[k], k)
      <4>1. k \in Met(T, S.tree)
        BY <3>1, <3>3 DEF Met, IsChild
      <4>2. branch[k] = Branch(T, k)
        BY <1>4, <4>1 DEF NodesAt
      <4> QED
        BY <3>3, <4>1, <4>2 DEF IsChild, Branch
    <3>4. k \in Both(T, S.tree) => IsChild(T, k)
      BY DEF Both, Nodes
    <3> QED
      BY <2>1, <3>1, <3>2, <3>3, <3>4
  <2> QED
    BY <2>2
<1>8. ASSUME LevelSets(roots) PROVE Solid(J)
  <2>1. Solid(T) /\ mBackground > 0 /\ S.background > 0 /\ IsLevelSet(S.tree, S.background)
    BY <1>2, <1>8 DEF Stage, Roots, LevelSets, IsLevelSet
  <2>2. \A c \in Met(T, S.tree) : Solid(branch[c])
    BY <1>2, <1>3, <1>4, <2>1, NodesSolid
  <2>3. /\ \A q \in Both(T, S.tree) : J[q] = Child
        /\ \A c \in Met(T, S.tree) : \A d \in DOMAIN branch[c] : J[d] = branch[c][d]
        /\ \A d \in DOMAIN J : d \in Both(T, S.tree) \/ \E c \in Met(T, S.tree) : d \in DOMAIN branch[c]
    BY <1>2, <1>3, <1>4, <1>5, JoinedEntries
  <2> HIDE DEF J
  <2> QED
    BY <2>2, <2>3 DEF Solid
<1>9. ASSUME LevelSets(roots), NEW x \in Voxels
      PROVE  Meets(sign, prune, level, Stored(J, x),
                   {HeldIn(roots[j], x) : j \in Settled(roots, sign, i, J, x)})
  <2> DEFINE k == KeyOf[x]
             G == {HeldIn(roots[j], x) : j \in Settled(roots, sign, i - 1, T, x)}
             H == {HeldIn(roots[j], x) : j \in Settled(roots, sign, i, J, x)}
  <2>1. x \in Cells /\ k \in Keys /\ k \in Above[x] /\ k \in Cells
    BY KeyFacts DEF Voxels, Keys
  <2>2. Solid(T) /\ Meets(sign, prune, level, Stored(T, x), G)
    BY <1>9 DEF Stage
  <2>3. /\ G \in SUBSET Tile
        /\ level => \A t \in G : t.value \in -mBackground .. mBackground
    <3>1. Settled(roots, sign, i - 1, T, x) \in SUBSET DOMAIN roots
      BY DEF Settled
    <3> QED
      BY <1>9, <3>1, HeldInBand
  <2>4. mBackground > 0 /\ S.background > 0 /\ (level => S.background = mBackground) /\ level \in BOOLEAN
    BY <1>2, <1>9 DEF Roots, LevelSets, IsLevelSet, OneBackground
  <2>5. \A j \in DOMAIN roots : j <= i <=> j <= i - 1 \/ j = i
    <3>1. \A j \in DOMAIN roots : j \in Nat
      BY DEF Roots
    <3> QED
      BY <3>1
  <2>6. IsChild(J, k) <=> IsChild(T, k)
    BY <1>7, <2>1
  <2>7. ~ IsChild(T, k) \/ ~ IsChild(S.tree, k) => H = G
    <3>1. ~ IsChild(T, k) \/ ~ IsChild(S.tree, k) =>
             Settled(roots, sign, i, J, x) = Settled(roots, sign, i - 1, T, x)
      BY <1>0, <2>1, <2>5, <2>6 DEF Settled
    <3> QED
      BY <3>1
  <2>8. IsChild(T, k) /\ IsChild(S.tree, k) => H = G \union {HeldIn(S, x)}
    <3>1. ASSUME IsChild(T, k), IsChild(S.tree, k)
          PROVE  Settled(roots, sign, i, J, x) = Settled(roots, sign, i - 1, T, x) \union {i}
      BY <2>5, <2>6, <3>1 DEF Settled
    <3>2. IsChild(S.tree, k) => HeldIn(S, x) = HeldIn(roots[i], x)
      BY <1>2, <2>1
    <3> QED
      BY <3>1, <3>2
  <2>9. CASE \E c \in Met(T, S.tree) : c \in Above[x]
    <3>1. PICK c \in Met(T, S.tree) : c \in Above[x]
      BY <2>9
    <3>2. Stored(J, x) = Held(NodesAt(T, S, sign, prune, c), mBackground, x)
      BY <1>2, <1>3, <1>4, <1>5, <3>1, JoinedHeld
    <3>3. /\ c \in Keys => Stored(J, x) = Stored(T, x)
          /\ c \notin Keys => Meets(sign, prune, level, Stored(J, x), G \union {HeldIn(S, x)})
      <4> HIDE DEF G, J, level
      <4> QED
        BY <1>2, <1>3, <1>9, <2>2, <2>3, <2>4, <3>1, <3>2, NodesHeld DEF HeldIn
    <3>4. /\ c \in Cells /\ ~ (IsChild(T, c) /\ IsChild(S.tree, c))
          /\ \A p \in Parents[c] : IsChild(T, p) /\ IsChild(S.tree, p)
      BY <1>2, <1>3, EndOf
    <3>5. CASE c \in Keys
      <4>1. c = k
        BY <2>1, <3>1, <3>5, KeyFacts DEF Keys
      <4> QED
        BY <2>2, <2>7, <3>3, <3>4, <3>5, <4>1
    <3>6. CASE c \notin Keys
      <4>1. k \in Parents[c]
        <5>1. k # c /\ (k = c \/ k \in Parents[c] \/ c \in Parents[k])
          BY <2>1, <3>1, <3>6, Chain
        <5>2. Parents[k] = {}
          BY <2>1, KeyItself
        <5> QED
          BY <5>1, <5>2
      <4> QED
        BY <2>8, <3>3, <3>4, <3>6, <4>1
    <3> QED
      BY <3>5, <3>6
  <2>10. CASE k \notin DOMAIN T /\ k \notin DOMAIN S.tree
    <3>1. Stored(J, x) = BackgroundTile
      BY <1>2, <1>3, <1>4, <1>5, <2>10, JoinedHeld
    <3>2. Stored(T, x) = BackgroundTile
      BY <1>3, <2>10, KeyNone, StoredHeld, OffFacts
    <3>3. ~ IsChild(T, k)
      BY <2>10 DEF IsChild
    <3> QED
      BY <2>2, <2>7, <3>1, <3>2, <3>3
  <2> QED
    BY <1>2, <1>3, <2>9, <2>10, EndOrNone
<1> QED
  BY <1>1, <1>6, <1>8, <1>9 DEF Stage, S

\* Short sequences, put together.
LEMMA Concat ==
    ASSUME NEW a, NEW b, NEW c
    PROVE  <<a>> \o <<b>> = <<a, b>> /\ <<a>> \o <<b, c>> = <<a, b, c>>
<1> DEFINE A == {a, b, c}
<1>0. a \in A /\ b \in A /\ c \in A
  OBVIOUS
<1> HIDE DEF A
<1>1. /\ <<a>> \in Seq(A) /\ <<b>> \in Seq(A) /\ <<b, c>> \in Seq(A)
      /\ <<a, b>> \in Seq(A) /\ <<a, b, c>> \in Seq(A)
  BY <1>0
<1>2. /\ Len(<<a>>) = 1 /\ Len(<<b>>) = 1 /\ Len(<<b, c>>) = 2
      /\ Len(<<a, b>>) = 2 /\ Len(<<a, b, c>>) = 3
  OBVIOUS
<1>3. /\ <<a>>[1] = a /\ <<b>>[1] = b /\ <<b, c>>[1] = b /\ <<b, c>>[2] = c
      /\ <<a, b>>[1] = a /\ <<a, b>>[2] = b
      /\ <<a, b, c>>[1] = a /\ <<a, b, c>>[2] = b /\ <<a, b, c>>[3] = c
  OBVIOUS
<1>4. <<a>> \o <<b>> = <<a, b>>
  <2> DEFINE s == <<a>> \o <<b>>
             u == <<a>>
             v == <<b>>
             w == <<a, b>>
  <2>1. s \in Seq(A) /\ Len(s) = 2
    BY <1>1, <1>2, ConcatProperties
  <2>2. s[1] = a /\ s[2] = b
    <3>1. \A i \in 1 .. 2 : s[i] = IF i <= 1 THEN u[i] ELSE v[i - 1]
      BY <1>1, <1>2, ConcatProperties
    <3> QED
      BY <3>1, <1>3
  <2> HIDE DEF s, u, v, w
  <2>3. w \in Seq(A) /\ Len(w) = 2 /\ w[1] = a /\ w[2] = b
    BY <1>1, <1>2, <1>3 DEF w
  <2>4. \A i \in 1 .. Len(s) : s[i] = w[i]
    BY <2>1, <2>2, <2>3
  <2> QED
    BY <2>1, <2>3, <2>4, SeqEqual DEF s, w
<1>5. <<a>> \o <<b, c>> = <<a, b, c>>
  <2> DEFINE s == <<a>> \o <<b, c>>
             u == <<a>>
             v == <<b, c>>
             w == <<a, b, c>>
  <2>1. s \in Seq(A) /\ Len(s) = 3
    BY <1>1, <1>2, ConcatProperties
  <2>2. s[1] = a /\ s[2] = b /\ s[3] = c
    <3>1. \A i \in 1 .. 3 : s[i] = IF i <= 1 THEN u[i] ELSE v[i - 1]
      BY <1>1, <1>2, ConcatProperties
    <3> QED
      BY <3>1, <1>3
  <2> HIDE DEF s, u, v, w
  <2>3. w \in Seq(A) /\ Len(w) = 3 /\ w[1] = a /\ w[2] = b /\ w[3] = c
    BY <1>1, <1>2, <1>3 DEF w
  <2>4. \A i \in 1 .. Len(s) : s[i] = w[i]
    BY <2>1, <2>2, <2>3
  <2> QED
    BY <2>1, <2>3, <2>4, SeqEqual DEF s, w
<1> QED
  BY <1>4, <1>5

\* The list that is merged, this tree first.
LEMMA RootsFacts ==
    ASSUME PairTypeOK, NEW list \in Lists
    PROVE  LET roots == RootsOf(tree, list) IN
           /\ Roots(roots)
           /\ Len(roots) = 2 \/ Len(roots) = 3
           /\ DOMAIN roots = 1 .. Len(roots) /\ DOMAIN list = 1 .. Len(roots) - 1
           /\ roots[1].tree = EraseBackgroundTiles(tree) /\ roots[1].background = mBackground
           /\ \A i \in DOMAIN list : roots[i + 1] = list[i]
<1> DEFINE own == [tree |-> EraseBackgroundTiles(tree), background |-> mBackground]
           good(S) == /\ S = [tree |-> S.tree, background |-> S.background]
                      /\ WellFormed(S.tree) /\ S.background \in Values
<1>1. good(own) /\ own.tree = EraseBackgroundTiles(tree) /\ own.background = mBackground
  BY ErasedLevelSet DEF PairTypeOK
<1>2. good(Other)
  BY DEF PairTypeOK, Other
<1>3. \A S \in Thirds : good(S)
  BY ThirdsAssumption
<1> HIDE DEF own, good
<1>4. CASE list = <<Other>>
  <2>1. RootsOf(tree, list) = <<own, Other>>
    BY <1>4, Concat DEF RootsOf, own
  <2>2. /\ Len(<<own, Other>>) = 2 /\ DOMAIN <<own, Other>> = 1 .. 2
        /\ <<own, Other>>[1] = own /\ <<own, Other>>[2] = Other
        /\ DOMAIN list = 1 .. 1 /\ list[1] = Other
    BY <1>4
  <2> DEFINE roots == <<own, Other>>
  <2> HIDE DEF roots
  <2>3. Roots(roots)
    BY <1>1, <1>2, <2>2 DEF Roots, good, roots
  <2> QED
    BY <1>1, <2>1, <2>2, <2>3 DEF roots
<1>5. CASE \E S \in Thirds : list = <<Other, S>>
  <2>0. PICK S \in Thirds : list = <<Other, S>>
    BY <1>5
  <2>1. RootsOf(tree, list) = <<own, Other, S>>
    BY <2>0, Concat DEF RootsOf, own
  <2>2. /\ Len(<<own, Other, S>>) = 3 /\ DOMAIN <<own, Other, S>> = 1 .. 3
        /\ <<own, Other, S>>[1] = own /\ <<own, Other, S>>[2] = Other /\ <<own, Other, S>>[3] = S
        /\ DOMAIN list = 1 .. 2 /\ list[1] = Other /\ list[2] = S
    BY <2>0
  <2> DEFINE roots == <<own, Other, S>>
  <2> HIDE DEF roots
  <2>3. Roots(roots)
    BY <1>1, <1>2, <1>3, <2>2 DEF Roots, good, roots
  <2> QED
    BY <1>1, <2>1, <2>2, <2>3 DEF roots
<1> QED
  BY <1>4, <1>5 DEF Lists

\* Csg merges one tree after the other.
LEMMA CsgUnrolled ==
    ASSUME PairTypeOK, NEW list \in Lists, NEW sign \in Signs, NEW prune \in BOOLEAN
    PROVE  LET roots == RootsOf(tree, list)
               next(T, i) == CsgNodes(T, Remaining(roots, i, sign), sign, prune)
           IN  Csg(tree, list, sign, prune)
                 = IF Len(roots) = 2 THEN next(CsgRoot(roots, sign), 2)
                   ELSE next(next(CsgRoot(roots, sign), 2), 3)
<1> DEFINE roots == RootsOf(tree, list)
           D == DOMAIN roots
           next(T, i) == CsgNodes(T, Remaining(roots, i, sign), sign, prune)
           one == CsgRoot(roots, sign)
           Is(f) == f = [i \in D |-> IF i = 1 THEN one ELSE next(f[i - 1], i)]
           merged == CHOOSE f : Is(f)
<1>1. Csg(tree, list, sign, prune) = merged[Len(roots)]
  BY DEF Csg
<1>2. D = 1 .. Len(roots) /\ (Len(roots) = 2 \/ Len(roots) = 3)
  BY RootsFacts
<1> HIDE DEF roots, next, one
<1>3. \E f : Is(f)
  <2> DEFINE two == next(one, 2)
             three == next(two, 3)
             f == [i \in D |-> IF i = 1 THEN one ELSE IF i = 2 THEN two ELSE three]
  <2>1. \A i \in D : i = 1 \/ i = 2 \/ i = 3
    BY <1>2
  <2>2. f[1] = one /\ f[2] = two /\ (3 \in D => f[3] = three)
    BY <1>2
  <2>3. \A i \in D : f[i] = IF i = 1 THEN one ELSE next(f[i - 1], i)
    BY <1>2, <2>1, <2>2
  <2> HIDE DEF f, one
  <2>4. f = [i \in D |-> f[i]]
    BY DEF f
  <2>5. Is(f)
    BY <2>3, <2>4
  <2> QED
    BY <2>5
<1>4. Is(merged)
  BY <1>3
<1> HIDE DEF merged
<1>5. merged[1] = one /\ merged[2] = next(merged[1], 2) /\ (3 \in D => merged[3] = next(merged[2], 3))
  BY <1>2, <1>4
<1>6. (Len(roots) = 3) => 3 \in D
  BY <1>2
<1>7. merged[Len(roots)] = IF Len(roots) = 2 THEN next(one, 2) ELSE next(next(one, 2), 3)
  BY <1>2, <1>5, <1>6
<1> QED
  BY <1>1, <1>7 DEF roots, next, one

\* What the trees of a list hold at a voxel.
TheirHeld(list, x) == {Held(list[i].tree, list[i].background, x) : i \in DOMAIN list}

\* Union and intersection leave a tree, and hold what they should where all are level sets.
LEMMA CsgTool ==
    ASSUME PairTypeOK, NEW list \in Lists, NEW sign \in Signs, NEW prune \in BOOLEAN
    PROVE  /\ WellFormed(Csg(tree, list, sign, prune))
           /\ /\ IsLevelSet(tree, mBackground)
              /\ \A i \in DOMAIN list : IsLevelSet(list[i].tree, list[i].background)
              => \A x \in Voxels :
                    Meets(sign, prune, \A i \in DOMAIN list : list[i].background = mBackground,
                          Stored(Csg(tree, list, sign, prune), x), {Map[x]} \union TheirHeld(list, x))
<1> DEFINE roots == RootsOf(tree, list)
           n == Len(roots)
           J == Csg(tree, list, sign, prune)
           level == \A i \in DOMAIN list : list[i].background = mBackground
           one == CsgRoot(roots, sign)
           two == CsgNodes(one, Remaining(roots, 2, sign), sign, prune)
           three == CsgNodes(two, Remaining(roots, 3, sign), sign, prune)
<1>1. /\ Roots(roots) /\ (n = 2 \/ n = 3)
      /\ DOMAIN roots = 1 .. n /\ DOMAIN list = 1 .. n - 1
      /\ roots[1].tree = EraseBackgroundTiles(tree) /\ roots[1].background = mBackground
      /\ \A i \in DOMAIN list : roots[i + 1] = list[i]
  BY RootsFacts
<1>2. J = IF n = 2 THEN two ELSE three
  BY CsgUnrolled
<1>3. mBackground \in Values
  BY DEF PairTypeOK
<1> HIDE DEF roots, J
<1>4. Stage(roots, sign, prune, 1, one)
  BY <1>1, <1>3, CsgRootStage
<1>5. Stage(roots, sign, prune, 2, two)
  <2>1. 2 \in DOMAIN roots /\ 2 - 1 = 1
    BY <1>1
  <2> HIDE DEF one
  <2>2. Stage(roots, sign, prune, 2 - 1, one)
    BY <1>4, <2>1
  <2> QED
    BY <1>1, <1>3, <2>1, <2>2, CsgStep
<1>6. n = 3 => Stage(roots, sign, prune, 3, three)
  <2>1. SUFFICES ASSUME n = 3 PROVE Stage(roots, sign, prune, 3, three)
    OBVIOUS
  <2>2. 3 \in DOMAIN roots /\ 3 - 1 = 2
    BY <1>1, <2>1
  <2> HIDE DEF two
  <2>3. Stage(roots, sign, prune, 3 - 1, two)
    BY <1>5, <2>2
  <2> QED
    BY <1>1, <1>3, <2>2, <2>3, CsgStep
<1> HIDE DEF one, two, three
<1>7. Stage(roots, sign, prune, n, J)
  BY <1>1, <1>2, <1>5, <1>6
<1>8. WellFormed(J)
  BY <1>7 DEF Stage
<1>9. ASSUME IsLevelSet(tree, mBackground),
             \A i \in DOMAIN list : IsLevelSet(list[i].tree, list[i].background),
             NEW x \in Voxels
      PROVE  Meets(sign, prune, level, Stored(J, x), {Map[x]} \union TheirHeld(list, x))
  <2>1. \A i \in DOMAIN roots : i = 1 \/ \E j \in DOMAIN list : i = j + 1
    <3>1. ASSUME NEW i \in DOMAIN roots, i # 1 PROVE \E j \in DOMAIN list : i = j + 1
      <4>1. i - 1 \in DOMAIN list /\ i = (i - 1) + 1
        BY <1>1, <3>1
      <4> QED
        BY <4>1
    <3> QED
      BY <3>1
  <2>2. LevelSets(roots)
    <3>1. IsLevelSet(roots[1].tree, roots[1].background)
      BY <1>1, <1>3, <1>9, ErasedLevelSet DEF PairTypeOK
    <3>2. \A j \in DOMAIN list : IsLevelSet(roots[j + 1].tree, roots[j + 1].background)
      BY <1>1, <1>9
    <3> QED
      BY <2>1, <3>1, <3>2 DEF LevelSets
  <2>3. OneBackground(roots) = level
    <3>1. level => OneBackground(roots)
      BY <1>1, <2>1 DEF OneBackground
    <3>2. ASSUME OneBackground(roots), NEW j \in DOMAIN list
          PROVE  list[j].background = mBackground
      <4>1. j + 1 \in DOMAIN roots
        BY <1>1
      <4> QED
        BY <1>1, <3>2, <4>1 DEF OneBackground
    <3>3. OneBackground(roots) \in BOOLEAN /\ level \in BOOLEAN
      BY DEF OneBackground
    <3> QED
      BY <3>1, <3>2, <3>3
  <2>4. Settled(roots, sign, n, J, x) = DOMAIN roots
    BY <1>1 DEF Settled
  <2>5. HeldIn(roots[1], x) = Map[x]
    <3>1. Stored(EraseBackgroundTiles(tree), x) = Stored(tree, x)
      BY <1>3, ErasedLevelSet DEF PairTypeOK
    <3>2. HeldIn(roots[1], x) = Stored(EraseBackgroundTiles(tree), x)
      BY <1>1, StoredHeld DEF HeldIn
    <3> QED
      BY <3>1, <3>2 DEF Map, Contents
  <2>6. \A j \in DOMAIN list : /\ j + 1 \in DOMAIN roots
                               /\ HeldIn(roots[j + 1], x) = Held(list[j].tree, list[j].background, x)
    BY <1>1 DEF HeldIn
  <2>7. {HeldIn(roots[j], x) : j \in DOMAIN roots} = {Map[x]} \union TheirHeld(list, x)
    <3> DEFINE A == {HeldIn(roots[j], x) : j \in DOMAIN roots}
               B == TheirHeld(list, x)
    <3>1. \A t \in A : t = Map[x] \/ t \in B
      <4>1. ASSUME NEW i \in DOMAIN roots PROVE HeldIn(roots[i], x) = Map[x] \/ HeldIn(roots[i], x) \in B
        <5>1. CASE i = 1
          BY <2>5, <5>1
        <5>2. CASE \E j \in DOMAIN list : i = j + 1
          BY <2>6, <5>2 DEF TheirHeld
        <5> QED
          BY <2>1, <5>1, <5>2
      <4> QED
        BY <4>1
    <3>2. Map[x] \in A
      BY <1>1, <2>5
    <3>3. \A t \in B : t \in A
      BY <2>6 DEF TheirHeld
    <3> QED
      BY <3>1, <3>2, <3>3
  <2> HIDE DEF level
  <2> QED
    BY <1>7, <2>2, <2>3, <2>4, <2>7 DEF Stage
<1> QED
  BY <1>8, <1>9 DEF J

\* CsgUnionOrIntersectionOp and CsgDifferenceOp do to level sets what they say.
LEMMA CsgContract == PairTypeOK => CsgMeetsContract
<1> SUFFICES ASSUME PairTypeOK, IsLevelSet(tree, mBackground), IsLevelSet(other, otherBackground)
             PROVE  CsgMeetsContract
  BY DEF CsgMeetsContract
<1> DEFINE levels == {l \in Lists : \A i \in DOMAIN l : IsLevelSet(l[i].tree, l[i].background)}
<1>1. ASSUME NEW list \in levels, NEW sign \in {-1, 1}, NEW prune \in BOOLEAN, NEW x \in Voxels
      PROVE  LET level == \A i \in DOMAIN list : list[i].background = mBackground
                 held == {Map[x]} \union {Held(list[i].tree, list[i].background, x) : i \in DOMAIN list}
                 result == Stored(Csg(tree, list, sign, prune), x)
                 cancelled == /\ prune /\ result = Off(-sign * mBackground)
                              /\ \E t, u \in held : t.value = -u.value
             IN  cancelled \/
                 /\ Wins(sign, result) = (\E t \in held : Wins(sign, t))
                 /\ Loses(sign, result) = (\A t \in held : Loses(sign, t))
                 /\ level => /\ result \in held
                             /\ \A t \in held : sign * result.value <= sign * t.value
  <2> DEFINE level == \A i \in DOMAIN list : list[i].background = mBackground
             held == {Map[x]} \union {Held(list[i].tree, list[i].background, x) : i \in DOMAIN list}
             result == Stored(Csg(tree, list, sign, prune), x)
  <2>1. list \in Lists /\ \A i \in DOMAIN list : IsLevelSet(list[i].tree, list[i].background)
    OBVIOUS
  <2>2. sign \in Signs
    BY DEF Signs
  <2>3. Meets(sign, prune, level, result, {Map[x]} \union TheirHeld(list, x))
    BY <2>1, <2>2, CsgTool
  <2>4. {Map[x]} \union TheirHeld(list, x) = held
    BY DEF TheirHeld
  <2> HIDE DEF level, held, result
  <2>5. Meets(sign, prune, level, result, held)
    BY <2>3, <2>4
  <2> QED
    BY <2>5 DEF Meets, level, held, result
<1>2. ASSUME NEW prune \in BOOLEAN, NEW x \in Voxels
      PROVE  LET result == Stored(CsgDifference(tree, Other, prune), x)
                 negative == [Theirs(x) EXCEPT !.value = -@]
                 cancelled == prune /\ result = BackgroundTile /\ Map[x].value = Theirs(x).value
             IN  cancelled \/
                 /\ (result.value < 0) = (Map[x].value < 0 /\ Theirs(x).value > 0)
                 /\ mBackground = otherBackground =>
                       /\ result \in {Map[x], negative}
                       /\ result.value >= Map[x].value /\ result.value >= negative.value
  <2>1. CutMeets(otherBackground, prune, Stored(CsgDifference(tree, Other, prune), x), Map[x], Theirs(x))
    BY DifferenceTool
  <2> QED
    BY <2>1 DEF CutMeets
<1> HIDE DEF levels
<1> QED
  BY <1>1, <1>2 DEF CsgMeetsContract, levels

-------------------------------------------------------------------------------
(* SumMergeOp.                                                             *)

\* Tiles of any value: a sum may be no value of the tree.
Sums == [value : Int, active : BOOLEAN]

\* What sums are made of, and what they leave.
LEMMA SumFacts ==
    /\ Tile \subseteq Sums /\ Child \notin Sums
    /\ \A t, u \in Sums : /\ Sum2(t, u) \in Sums /\ Sum2(t, u) = Sum2(u, t)
                          /\ u = Off(0) => Sum2(t, u) = t
    /\ \A v, w \in Int : Sum2(Off(v), Off(w)) = Off(v + w)
<1>1. Tile \subseteq Sums /\ Child \notin Sums
  BY ContentsTyped, SumsAreNoChild DEF Tile, Sums
<1>2. ASSUME NEW t \in Sums, NEW u \in Sums
      PROVE  /\ Sum2(t, u) \in Sums /\ Sum2(t, u) = Sum2(u, t)
             /\ u = Off(0) => Sum2(t, u) = t
  <2>1. /\ t.value \in Int /\ u.value \in Int /\ t.active \in BOOLEAN /\ u.active \in BOOLEAN
        /\ t = [value |-> t.value, active |-> t.active]
    BY DEF Sums
  <2>2. t.value + u.value \in Int /\ t.value + u.value = u.value + t.value
    BY <2>1
  <2>3. (t.active \/ u.active) \in BOOLEAN /\ (t.active \/ u.active) = (u.active \/ t.active)
    BY <2>1
  <2>4. Sum2(t, u) \in Sums
    BY <2>2, <2>3 DEF Sum2, Sums
  <2>5. Sum2(t, u) = Sum2(u, t)
    BY <2>2, <2>3, Zenon DEF Sum2
  <2>6. ASSUME u = Off(0) PROVE Sum2(t, u) = t
    <3>1. u.value = 0 /\ u.active = FALSE
      BY <2>6, Zenon DEF Off
    <3>2. t.value + u.value = t.value
      BY <2>1, <3>1
    <3>3. (t.active \/ u.active) = t.active
      BY <2>1, <3>1
    <3> QED
      BY <2>1, <3>2, <3>3, Zenon DEF Sum2
  <2> QED
    BY <2>4, <2>5, <2>6
<1>3. ASSUME NEW v \in Int, NEW w \in Int PROVE Sum2(Off(v), Off(w)) = Off(v + w)
  <2>1. /\ Off(v).value = v /\ Off(w).value = w
        /\ Off(v).active = FALSE /\ Off(w).active = FALSE
    BY Zenon DEF Off
  <2>2. (Off(v).active \/ Off(w).active) = FALSE
    BY <2>1, Zenon
  <2> QED
    BY <2>1, <2>2, Zenon DEF Sum2, Off
<1> QED
  BY <1>1, <1>2, <1>3

\* Branches that differ in their tiles alone.
SameNodes(R, B) == DOMAIN R = DOMAIN B /\ \A d \in DOMAIN B : (R[d] = Child <=> B[d] = Child)

\* What is joined from branches that have the nodes of others is the tree of those, but
\* for its tiles.
LEMMA JoinedSame ==
    ASSUME NEW T, NEW S, WellFormed(T), WellFormed(S),
           NEW branch, DOMAIN branch = Met(T, S),
           NEW bare, DOMAIN bare = Met(T, S),
           \A c \in Met(T, S) : Fits(bare[c], c) /\ SameNodes(branch[c], bare[c])
    PROVE  /\ WellFormed(Joined(T, S, bare))
           /\ SameNodes(Joined(T, S, branch), Joined(T, S, bare))
           /\ \A c \in Met(T, S) : \A d \in DOMAIN branch[c] :
                 /\ d \in DOMAIN Joined(T, S, branch)
                 /\ Joined(T, S, branch)[d] = branch[c][d]
           /\ \A d \in DOMAIN Joined(T, S, branch) :
                 d \in Both(T, S) \/ \E c \in Met(T, S) : d \in DOMAIN branch[c]
<1> DEFINE J == Joined(T, S, branch)
           K == Joined(T, S, bare)
           pick(d) == CHOOSE c \in Met(T, S) : c \in Above[d]
<1>1. /\ \A q \in Both(T, S) : q \in DOMAIN K /\ K[q] = Child
      /\ \A c \in Met(T, S) : \A d \in DOMAIN bare[c] :
            d \in DOMAIN K /\ K[d] = bare[c][d] /\ d \in Cells /\ c \in Above[d]
      /\ \A d \in DOMAIN K : d \in Both(T, S) \/ \E c \in Met(T, S) : d \in DOMAIN bare[c]
  BY JoinedEntries
<1>2. WellFormed(K)
  BY JoinedShape
<1>3. \A c \in Met(T, S) : DOMAIN branch[c] = DOMAIN bare[c]
  BY DEF SameNodes
<1>4. /\ DOMAIN J = Both(T, S) \union UNION {DOMAIN branch[c] : c \in Met(T, S)}
      /\ \A d \in DOMAIN J : J[d] = IF d \in Both(T, S) THEN Child ELSE branch[pick(d)][d]
  BY DEF Joined
<1> HIDE DEF J, K
<1>5. ASSUME NEW c \in Met(T, S), NEW d \in DOMAIN branch[c]
      PROVE  d \in DOMAIN J /\ J[d] = branch[c][d]
  <2>1. d \in Cells /\ c \in Above[d]
    BY <1>1, <1>3
  <2>2. d \notin Both(T, S)
    BY <2>1, NotBoth
  <2>3. pick(d) \in Met(T, S) /\ pick(d) \in Above[d]
    BY <2>1
  <2>4. pick(d) = c
    BY <2>1, <2>3, MetOnce
  <2> QED
    BY <1>4, <2>2, <2>4
<1>6. \A d \in DOMAIN J : d \in Both(T, S) \/ \E c \in Met(T, S) : d \in DOMAIN branch[c]
  BY <1>4
<1>7. SameNodes(J, K)
  <2>1. \A d : d \in DOMAIN J <=> d \in Both(T, S) \/ \E c \in Met(T, S) : d \in DOMAIN branch[c]
    BY <1>4
  <2>2. \A d : d \in DOMAIN K <=> d \in Both(T, S) \/ \E c \in Met(T, S) : d \in DOMAIN bare[c]
    BY <1>1
  <2>3. DOMAIN J = DOMAIN K
    BY <1>3, <2>1, <2>2
  <2>4. ASSUME NEW d \in DOMAIN K PROVE J[d] = Child <=> K[d] = Child
    <3>1. CASE d \in Both(T, S)
      BY <1>1, <1>4, <2>3, <3>1
    <3>2. ASSUME NEW c \in Met(T, S), d \in DOMAIN bare[c] PROVE J[d] = Child <=> K[d] = Child
      <4>1. J[d] = branch[c][d] /\ K[d] = bare[c][d]
        BY <1>1, <1>3, <1>5, <3>2
      <4> QED
        BY <3>2, <4>1 DEF SameNodes
    <3> QED
      BY <1>1, <3>1, <3>2
  <2> QED
    BY <2>3, <2>4 DEF SameNodes
<1> QED
  BY <1>2, <1>5, <1>6, <1>7 DEF J, K

\* What the operator makes of an entry at which the descent ends, and the branch whose
\* nodes that has.
SumAt(T, S, c) ==
    IF IsChild(S.tree, c) THEN SumCopied(S, c, Stored(T, c))
    ELSE LET s == Held(S.tree, S.background, c)
         IN  Retiled(IF c \in DOMAIN T THEN Branch(T, c) ELSE OneTileAt(c, BackgroundTile),
                     LAMBDA t : Sum2(t, s))

SumBase(T, S, c) ==
    IF IsChild(S.tree, c) THEN Branch(S.tree, c)
    ELSE IF c \in DOMAIN T THEN Branch(T, c) ELSE OneTileAt(c, BackgroundTile)

\* What the contract asks of the nodes that are copied.
CopiesBeginEmpty ==
    \A n \in Nodes(other) \ Nodes(tree) : Level[n] > 1 => other[First[n]] \in {Child, Off(0)}

\* A branch that is copied has the nodes of the other tree, and sums in its tiles.
LEMMA SumCopiedEnd ==
    ASSUME PairTypeOK, NEW c \in Met(tree, other), IsChild(other, c)
    PROVE  LET R == SumCopied(Other, c, Stored(tree, c))
               B == Branch(other, c)
           IN  /\ SameNodes(R, B)
               /\ \A d \in DOMAIN B : B[d] # Child => R[d] \in Sums
               /\ CopiesBeginEmpty => \A d \in DOMAIN B : B[d] # Child =>
                                          R[d] = Sum2(Stored(tree, c), B[d])
<1> DEFINE B == Branch(other, c)
           t == Stored(tree, c)
           again == {n \in {c} \union Below[c] : /\ IsChild(other, n) /\ Level[n] > 1
                                                 /\ IsTile(other, First[n])}
           within(d) == \E n \in again : d \in Slots[n]
           node(d) == CHOOSE m \in again : d \in Slots[m]
           R == [d \in DOMAIN B |->
                   IF other[d] = Child THEN Child
                   ELSE IF within(d) THEN Sum2(Sum2(other[d], t), other[First[node(d)]])
                   ELSE Sum2(other[d], t)]
<1>1. SumCopied(Other, c, t) = R
  BY DEF SumCopied, Other
<1>2. WellFormed(other) /\ c \in Cells /\ ~ IsChild(tree, c)
  BY EndFacts DEF PairTypeOK
<1>3. t \in Tile /\ t \in Sums /\ \A d \in Cells : c \in Above[d] => ~ IsChild(tree, d)
  BY <1>2, TileOfTree, SumFacts
<1>4. \A d \in DOMAIN B : d \in DOMAIN other /\ B[d] = other[d]
  BY DEF Branch
<1>5. ASSUME NEW n \in again
      PROVE  /\ other[First[n]] \in Sums
             /\ CopiesBeginEmpty => other[First[n]] = Off(0)
  <2>1. IsChild(other, n) /\ Level[n] > 1 /\ IsTile(other, First[n])
    OBVIOUS
  <2>2. n \in Cells /\ c \in Above[n]
    BY <1>2, Chain DEF Below, Parents
  <2>3. n \in Nodes(other) /\ n \notin Nodes(tree)
    BY <1>3, <2>1, <2>2 DEF Nodes, IsChild
  <2>4. First[n] \in DOMAIN other /\ other[First[n]] # Child
    BY <2>1 DEF IsTile
  <2>5. other[First[n]] \in Tile
    BY <1>2, <2>4, Shape
  <2> QED
    BY <2>1, <2>3, <2>4, <2>5, SumFacts DEF CopiesBeginEmpty
<1>6. ASSUME NEW d \in DOMAIN B, B[d] # Child
      PROVE  /\ R[d] \in Sums
             /\ CopiesBeginEmpty => R[d] = Sum2(t, B[d])
  <2>1. other[d] \in Tile /\ other[d] # Child /\ other[d] = B[d]
    BY <1>2, <1>4, <1>6, Shape
  <2>2. /\ other[d] \in Sums /\ Sum2(other[d], t) \in Sums
        /\ Sum2(other[d], t) = Sum2(t, other[d])
    BY <1>3, <2>1, SumFacts
  <2>3. CASE within(d)
    <3>1. node(d) \in again
      BY <2>3
    <3>2. R[d] = Sum2(Sum2(other[d], t), other[First[node(d)]])
      BY <2>1, <2>3
    <3>3. /\ other[First[node(d)]] \in Sums
          /\ CopiesBeginEmpty => other[First[node(d)]] = Off(0)
      BY <1>5, <3>1
    <3> HIDE DEF R, node, t
    <3> QED
      BY <2>1, <2>2, <3>2, <3>3, SumFacts
  <2>4. CASE ~ within(d)
    <3>1. R[d] = Sum2(other[d], t)
      BY <2>1, <2>4
    <3> QED
      BY <2>1, <2>2, <3>1
  <2> QED
    BY <2>3, <2>4
<1>7. SameNodes(R, B)
  <2>1. DOMAIN R = DOMAIN B
    OBVIOUS
  <2>2. \A d \in DOMAIN B : B[d] = Child => R[d] = Child
    BY <1>4
  <2>3. \A d \in DOMAIN B : B[d] # Child => R[d] # Child
    BY <1>6, SumFacts
  <2> QED
    BY <2>1, <2>2, <2>3 DEF SameNodes
<1> QED
  BY <1>1, <1>6, <1>7

\* So has any other branch those of this tree.
LEMMA SumKeptEnd ==
    ASSUME PairTypeOK, NEW c \in Met(tree, other), ~ IsChild(other, c),
           NEW B, Fits(B, c), NEW s \in Sums
    PROVE  LET R == Retiled(B, LAMBDA t : Sum2(t, s))
           IN  /\ SameNodes(R, B)
               /\ \A d \in DOMAIN B : B[d] # Child => R[d] \in Sums /\ R[d] = Sum2(B[d], s)
<1> DEFINE R == [d \in DOMAIN B |-> IF B[d] = Child THEN Child ELSE Sum2(B[d], s)]
<1>1. Retiled(B, LAMBDA t : Sum2(t, s)) = R
  BY DEF Retiled
<1>2. \A d \in DOMAIN B : B[d] # Child => B[d] \in Sums
  BY SumFacts DEF Fits
<1>3. \A d \in DOMAIN B : B[d] # Child => R[d] \in Sums /\ R[d] = Sum2(B[d], s) /\ R[d] # Child
  BY <1>2, SumFacts
<1>4. \A d \in DOMAIN B : B[d] = Child => R[d] = Child
  OBVIOUS
<1>5. DOMAIN R = DOMAIN B
  OBVIOUS
<1> QED
  BY <1>1, <1>3, <1>4, <1>5 DEF SameNodes

\* Either has sums in its tiles, and holds at a voxel what the two trees held together.
LEMMA SumEnd ==
    ASSUME PairTypeOK, NEW c \in Met(tree, other)
    PROVE  LET R == SumAt(tree, Other, c)
               B == SumBase(tree, Other, c)
           IN  /\ Fits(B, c) /\ c \in DOMAIN B /\ SameNodes(R, B)
               /\ \A d \in DOMAIN B : B[d] # Child => R[d] \in Sums
               /\ CopiesBeginEmpty =>
                     \A x \in Voxels : c \in Above[x] =>
                        \A d \in Above[x] : IsTile(B, d) => R[d] = Sum2(Map[x], Theirs(x))
<1> DEFINE R == SumAt(tree, Other, c)
           B == SumBase(tree, Other, c)
<1>1. /\ WellFormed(tree) /\ WellFormed(other) /\ mBackground \in Values /\ otherBackground \in Values
      /\ Other.tree = other /\ Other.background = otherBackground
  BY DEF PairTypeOK, Other
<1>2. /\ c \in Cells /\ ~ (IsChild(tree, c) /\ IsChild(other, c))
      /\ \A p \in Parents[c] : IsChild(tree, p) /\ IsChild(other, p)
      /\ c \in Above[c]
      /\ c \in DOMAIN tree \/ c \in DOMAIN other
      /\ c \in Keys \/ (c \in DOMAIN tree /\ c \in DOMAIN other)
  BY <1>1, EndFacts, MetFacts, Chain
<1>3. CASE IsChild(other, c)
  <2>1. R = SumCopied(Other, c, Stored(tree, c)) /\ B = Branch(other, c)
    BY <1>1, <1>3 DEF SumAt, SumBase
  <2> HIDE DEF R, B
  <2>2. Fits(B, c) /\ c \in DOMAIN B
    BY <1>1, <1>2, <1>3, <2>1, BranchFits DEF IsChild
  <2>3. /\ SameNodes(R, B) /\ \A d \in DOMAIN B : B[d] # Child => R[d] \in Sums
        /\ CopiesBeginEmpty => \A d \in DOMAIN B : B[d] # Child => R[d] = Sum2(Stored(tree, c), B[d])
    BY <1>3, <2>1, SumCopiedEnd
  <2>4. ASSUME CopiesBeginEmpty, NEW x \in Voxels, c \in Above[x], NEW d \in Above[x], IsTile(B, d)
        PROVE  R[d] = Sum2(Map[x], Theirs(x))
    <3>1. x \in Cells
      BY DEF Voxels
    <3>2. \A e \in Above[x] : IsTile(B, e) => e = d
      BY <1>2, <2>2, <2>4, <3>1, FitsOneTile
    <3>3. Held(B, otherBackground, x) = B[d]
      BY <2>4, <3>1, <3>2, HeldTile
    <3>4. Held(B, otherBackground, x) = Held(other, otherBackground, x)
      BY <1>1, <1>2, <2>1, <2>4, BranchHeld
    <3>5. Map[x] = Stored(tree, c)
      BY <1>2, <1>3, <2>4, TileOfTree
    <3>6. R[d] = Sum2(Stored(tree, c), B[d])
      BY <2>3, <2>4 DEF IsTile
    <3> QED
      BY <3>3, <3>4, <3>5, <3>6 DEF Theirs
  <2> QED
    BY <2>2, <2>3, <2>4 DEF R, B
<1>4. CASE ~ IsChild(other, c)
  <2> DEFINE s == Theirs(c)
  <2>1. /\ R = Retiled(B, LAMBDA t : Sum2(t, s))
        /\ B = IF c \in DOMAIN tree THEN Branch(tree, c) ELSE OneTileAt(c, BackgroundTile)
    BY <1>1, <1>4 DEF SumAt, SumBase, Theirs
  <2>2. s \in Tile /\ \A x \in Voxels : c \in Above[x] => Theirs(x) = s
    BY <1>4, TileOfOther
  <2>3. s \in Sums
    BY <2>2, SumFacts
  <2>4. BackgroundTile \in Tile /\ BackgroundTile # Child
    BY <1>1, BackgroundTyped
  <2>9. /\ c \in DOMAIN tree => B = Branch(tree, c)
        /\ c \notin DOMAIN tree => B = OneTileAt(c, BackgroundTile)
    BY <2>1
  <2> HIDE DEF B, s
  <2>5. Fits(B, c) /\ c \in DOMAIN B
    <3>1. CASE c \in DOMAIN tree
      BY <1>1, <1>2, <2>9, <3>1, BranchFits
    <3>2. CASE c \notin DOMAIN tree
      <4>1. Fits(OneTileAt(c, BackgroundTile), c) /\ DOMAIN OneTileAt(c, BackgroundTile) = {c}
        BY <1>2, <2>4, TileAtFits
      <4> QED
        BY <2>9, <3>2, <4>1
    <3> QED
      BY <3>1, <3>2
  <2>6. /\ SameNodes(Retiled(B, LAMBDA t : Sum2(t, s)), B)
        /\ \A d \in DOMAIN B : B[d] # Child =>
              /\ Retiled(B, LAMBDA t : Sum2(t, s))[d] \in Sums
              /\ Retiled(B, LAMBDA t : Sum2(t, s))[d] = Sum2(B[d], s)
    BY <1>4, <2>3, <2>5, SumKeptEnd
  <2>7. SameNodes(R, B) /\ \A d \in DOMAIN B : B[d] # Child => R[d] \in Sums /\ R[d] = Sum2(B[d], s)
    BY <2>1, <2>6
  <2> HIDE DEF R
  <2>8. ASSUME NEW x \in Voxels, c \in Above[x], NEW d \in Above[x], IsTile(B, d)
        PROVE  R[d] = Sum2(Map[x], Theirs(x))
    <3>1. x \in Cells
      BY DEF Voxels
    <3>2. \A e \in Above[x] : IsTile(B, e) => e = d
      BY <1>2, <2>5, <2>8, <3>1, FitsOneTile
    <3>3. Held(B, mBackground, x) = B[d]
      BY <2>8, <3>1, <3>2, HeldTile
    <3>4. Held(B, mBackground, x) = Map[x]
      <4>1. CASE c \in DOMAIN tree
        BY <2>9, <2>8, <4>1, EndFacts
      <4>2. CASE c \notin DOMAIN tree
        <5>1. Held(B, mBackground, x) = BackgroundTile
          <6>1. Held(OneTileAt(c, BackgroundTile), mBackground, x) = BackgroundTile
            <7> DEFINE t == BackgroundTile
            <7>1. t \in Tile
              BY <2>4
            <7> HIDE DEF t
            <7>2. \A y \in Voxels, b \in Values : c \in Above[y] => Held(OneTileAt(c, t), b, y) = t
              BY <1>2, <7>1, TileAtFits
            <7> QED
              BY <1>1, <2>8, <7>2 DEF t
          <6> QED
            BY <2>9, <4>2, <6>1
        <5>2. c = KeyOf[x]
          BY <1>2, <2>8, <3>1, <4>2, KeyFacts DEF Keys
        <5>3. Map[x] = BackgroundTile
          BY <1>1, <4>2, <5>2, KeyNone, StoredHeld DEF Map, Contents, BackgroundTile
        <5> QED
          BY <5>1, <5>3
      <4> QED
        BY <4>1, <4>2
    <3>5. R[d] = Sum2(B[d], s) /\ Theirs(x) = s
      BY <2>2, <2>7, <2>8 DEF IsTile
    <3> QED
      BY <3>3, <3>4, <3>5
  <2> QED
    BY <2>5, <2>7, <2>8 DEF R, B
<1> QED
  BY <1>3, <1>4

\* The sum leaves a tree if its values are values of the tree; and it holds at every
\* voxel what the two trees held together.
LEMMA SumTool ==
    ASSUME PairTypeOK
    PROVE  LET J == SumMerge(tree, Other) IN
           /\ (\A d \in DOMAIN J : J[d] # Child => J[d].value \in Values) => WellFormed(J)
           /\ CopiesBeginEmpty =>
                 \A x \in Voxels :
                    Held(J, mBackground + otherBackground, x) = Sum2(Map[x], Theirs(x))
<1> DEFINE branch == [c \in Met(tree, other) |-> SumAt(tree, Other, c)]
           bare == [c \in Met(tree, other) |-> SumBase(tree, Other, c)]
           J == Joined(tree, other, branch)
           K == Joined(tree, other, bare)
           b == mBackground + otherBackground
<1>1. /\ WellFormed(tree) /\ WellFormed(other) /\ mBackground \in Int /\ otherBackground \in Int
      /\ Other.tree = other /\ Other.background = otherBackground
  BY ContentsTyped DEF PairTypeOK, Other
<1>2. SumMerge(tree, Other) = J
  BY <1>1 DEF SumMerge, SumAt
<1>3. /\ DOMAIN branch = Met(tree, other) /\ \A c \in Met(tree, other) : branch[c] = SumAt(tree, Other, c)
      /\ DOMAIN bare = Met(tree, other) /\ \A c \in Met(tree, other) : bare[c] = SumBase(tree, Other, c)
  OBVIOUS
<1> HIDE DEF branch, bare
<1>4. \A c \in Met(tree, other) :
         /\ Fits(bare[c], c) /\ c \in DOMAIN bare[c] /\ SameNodes(branch[c], bare[c])
         /\ \A d \in DOMAIN bare[c] : bare[c][d] # Child => branch[c][d] \in Sums
         /\ CopiesBeginEmpty =>
               \A x \in Voxels : c \in Above[x] =>
                  \A d \in Above[x] : IsTile(bare[c], d) => branch[c][d] = Sum2(Map[x], Theirs(x))
  BY <1>3, SumEnd
<1>5. /\ WellFormed(K) /\ SameNodes(J, K)
      /\ \A c \in Met(tree, other) : \A d \in DOMAIN branch[c] : d \in DOMAIN J /\ J[d] = branch[c][d]
      /\ \A d \in DOMAIN J :
            d \in Both(tree, other) \/ \E c \in Met(tree, other) : d \in DOMAIN branch[c]
  BY <1>1, <1>3, <1>4, JoinedSame
<1>6. \A q \in Both(tree, other) : q \in DOMAIN K /\ K[q] = Child
  BY <1>1, <1>3, <1>4, JoinedEntries
<1>7. \A d \in DOMAIN K : KeyOf[d] \in DOMAIN tree \/ KeyOf[d] \in DOMAIN other
  BY <1>1, <1>3, <1>4, JoinedShape
<1> HIDE DEF J, K
<1>8. /\ DOMAIN J = DOMAIN K /\ \A d \in DOMAIN K : (J[d] = Child <=> K[d] = Child)
      /\ \A d : IsTile(J, d) <=> IsTile(K, d)
  BY <1>5 DEF SameNodes, IsTile
<1>9. \A d \in DOMAIN J : J[d] # Child => J[d] \in Sums
  <2>1. ASSUME NEW d \in DOMAIN J, J[d] # Child PROVE J[d] \in Sums
    <3>1. PICK c \in Met(tree, other) : d \in DOMAIN branch[c]
      BY <1>5, <1>6, <1>8, <2>1
    <3>2. J[d] = branch[c][d] /\ d \in DOMAIN bare[c] /\ (branch[c][d] = Child <=> bare[c][d] = Child)
      BY <1>4, <1>5, <3>1 DEF SameNodes
    <3> QED
      BY <1>4, <2>1, <3>2
  <2> QED
    BY <2>1
<1>10. ASSUME \A d \in DOMAIN J : J[d] # Child => J[d].value \in Values
       PROVE  WellFormed(J)
  <2>1. \A d \in DOMAIN J : J[d] # Child => J[d] \in Tile
    BY <1>9, <1>10 DEF Sums, Tile
  <2>2. \A d \in DOMAIN J : J[d] \in Tile \union {Child}
    BY <2>1
  <2> QED
    BY <1>5, <1>8, <2>2 DEF WellFormed, IsChild
<1>11. ASSUME CopiesBeginEmpty, NEW x \in Voxels
       PROVE  Held(J, b, x) = Sum2(Map[x], Theirs(x))
  <2>1. x \in Cells
    BY DEF Voxels
  <2>2. \A d, e \in Above[x] : IsTile(J, d) /\ IsTile(J, e) => d = e
    BY <1>5, <1>8, <2>1, OneTile
  <2> HIDE DEF b
  <2>3. CASE \E c \in Met(tree, other) : c \in Above[x]
    <3>1. PICK c \in Met(tree, other) : c \in Above[x]
      BY <2>3
    <3>2. PICK d \in Above[x] : IsTile(bare[c], d)
      BY <1>4, <2>1, <3>1, FitsTile, Chain
    <3>3. branch[c][d] = Sum2(Map[x], Theirs(x))
      BY <1>4, <1>11, <3>1, <3>2
    <3>4. d \in DOMAIN branch[c] /\ branch[c][d] # Child
      BY <1>4, <3>1, <3>2 DEF SameNodes, IsTile
    <3>5. IsTile(J, d) /\ J[d] = branch[c][d]
      BY <1>5, <3>1, <3>4 DEF IsTile
    <3>6. \A e \in Above[x] : IsTile(J, e) => e = d
      BY <2>2, <3>5
    <3>7. Held(J, b, x) = J[d]
      BY <2>1, <3>5, <3>6, HeldTile
    <3> QED
      BY <3>3, <3>5, <3>7
  <2>4. CASE KeyOf[x] \notin DOMAIN tree /\ KeyOf[x] \notin DOMAIN other
    <3>1. ASSUME NEW d \in Above[x] PROVE ~ IsTile(J, d)
      <4>1. d \in Cells /\ KeyOf[d] \in Above[x] /\ Level[KeyOf[d]] = RootLevel
        BY <2>1, KeyFacts, Chain
      <4>2. KeyOf[d] = KeyOf[x]
        BY <2>1, <4>1, KeyFacts
      <4> QED
        BY <1>7, <1>8, <2>4, <4>2 DEF IsTile
    <3>2. Held(J, b, x) = Off(b)
      BY <3>1, HeldNone
    <3>3. Map[x] = Off(mBackground) /\ Theirs(x) = Off(otherBackground)
      BY <2>4, NoKey DEF BackgroundTile
    <3>4. Sum2(Off(mBackground), Off(otherBackground)) = Off(b)
      BY <1>1, SumFacts DEF b
    <3> QED
      BY <3>2, <3>3, <3>4
  <2> QED
    BY <2>3, <2>4, EndAbove
<1> QED
  BY <1>2, <1>10, <1>11 DEF J, b

-------------------------------------------------------------------------------
(* The steps.                                                              *)

\* SumMergeOp does what it says.
LEMMA SumContract == PairTypeOK => SumMeetsContract
  BY SumTool DEF SumMeetsContract, CopiesBeginEmpty

\* The start is that of PairSpec, and a tool leaves two trees.
LEMMA MergeTypeInit == MergeInit => PairTypeOK
  BY PairTypeInit DEF MergeInit

\* So does every step.
LEMMA MergeTypeStep == PairTypeOK /\ [MergeNext]_mergeVars => PairTypeOK'
<1> SUFFICES ASSUME PairTypeOK, [MergeNext]_mergeVars PROVE PairTypeOK'
  OBVIOUS
<1>1. ASSUME NEW list \in Lists, NEW sign \in {-1, 1}, NEW prune \in BOOLEAN,
             CsgUnionOrIntersection(list, sign, prune)
      PROVE  PairTypeOK'
  <2>1. WellFormed(Csg(tree, list, sign, prune))
    BY CsgTool DEF Signs
  <2> QED
    BY <1>1, <2>1 DEF CsgUnionOrIntersection, Topology, PairTypeOK, WellFormed, IsChild
<1>2. ASSUME NEW prune \in BOOLEAN, CsgDifferenceWith(prune) PROVE PairTypeOK'
  <2>1. WellFormed(CsgDifference(tree, Other, prune))
    BY DifferenceTool
  <2> QED
    BY <1>2, <2>1 DEF CsgDifferenceWith, Topology, PairTypeOK, WellFormed, IsChild
<1>3. ASSUME Sum PROVE PairTypeOK'
  <2>1. WellFormed(tree')
    BY <1>3, SumTool DEF Sum
  <2> QED
    BY <1>3, <2>1 DEF Sum, PairTypeOK, WellFormed, IsChild
<1>4. ASSUME PairNext PROVE PairTypeOK'
  BY <1>4, PairTypeStep
<1>5. ASSUME UNCHANGED mergeVars PROVE PairTypeOK'
  BY <1>5 DEF mergeVars, pairVars, PairTypeOK, WellFormed, IsChild
<1> QED
  BY <1>1, <1>2, <1>3, <1>4, <1>5 DEF MergeNext, MergeTool

-------------------------------------------------------------------------------
(* The theorems.                                                           *)

\* However the tools of tools/Merge.h and the operations on two trees follow each
\* other, with any trees to merge, they leave two trees: no entry without a parent,
\* no node with a slot missing, no value that is none.
THEOREM MergeTypeCorrect == MergeSpec => []PairTypeOK
<1>1. MergeInit => PairTypeOK
  BY MergeTypeInit
<1>2. PairTypeOK /\ [MergeNext]_mergeVars => PairTypeOK'
  BY MergeTypeStep
<1> QED
  BY <1>1, <1>2, PTL DEF MergeSpec

\* In every reachable pair of trees, the union, intersection and difference of level
\* sets and the sum of trees hold at every voxel what CsgUnionOrIntersectionOp,
\* CsgDifferenceOp and SumMergeOp say, whatever nodes and tiles the trees have.
THEOREM MergeToolsCorrect == MergeSpec => []MergeToolsMeetContract
<1>1. PairTypeOK => MergeToolsMeetContract
  BY CsgContract, SumContract DEF MergeToolsMeetContract
<1> QED
  BY <1>1, MergeTypeCorrect, PTL
==============================================================================
