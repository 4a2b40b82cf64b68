--------------------------- MODULE VoxelTreeProofs ---------------------------
(***************************************************************************)
(* Proofs about VoxelTree, for every index space, depth and set of values: *)
(* its shape invariant, and that operations do to the voxels what they say.*)
(***************************************************************************)
EXTENDS VoxelTree, WellFoundedInduction, TLAPS

-------------------------------------------------------------------------------
(* Cells.                                                                  *)

\* A set of natural numbers that is not empty has a least element.
LEMMA Least ==
    ASSUME NEW S \in SUBSET Nat, S # {}
    PROVE  \E m \in S : \A k \in S : m <= k
<1> DEFINE R == OpToRel(<, Nat)
<1>1. IsWellFoundedOn(R, Nat)
  BY NatLessThanWellFounded
<1>2. \E x \in S : \A y \in S : ~(<<y, x>> \in R)
  BY <1>1, WFMin
<1>3. \A x, y \in Nat : y < x => <<y, x>> \in R
  BY DEF OpToRel
<1> HIDE DEF R
<1>4. PICK m \in S : \A y \in S : ~(<<y, m>> \in R)
  BY <1>2
<1>5. ASSUME NEW k \in S PROVE m <= k
  <2>1. m \in Nat /\ k \in Nat /\ ~(k < m)
    BY <1>3, <1>4
  <2> QED
    BY <2>1
<1> QED
  BY <1>5

LEMMA RootLevelNat == RootLevel \in Nat /\ RootLevel > 1
  BY CellsNested

\* A cell of every level above its own lies above a cell.
LEMMA EveryLevel ==
    ASSUME NEW c \in Cells, NEW l \in Level[c] .. RootLevel
    PROVE  \E d \in Above[c] : Level[d] = l
  BY CellsNested

\* What lies above a cell is a chain of cells, its levels going up.
LEMMA Chain ==
    ASSUME NEW c \in Cells
    PROVE  /\ c \in Above[c]
           /\ Level[c] \in 0 .. RootLevel
           /\ \A d \in Above[c] : d \in Cells /\ Above[d] \subseteq Above[c] /\ Level[d] \in 0 .. RootLevel
           /\ \A d \in Parents[c] : /\ d \in Above[c] /\ d \in Cells /\ d # c
                                    /\ Level[d] > Level[c] /\ Level[d] \in 0 .. RootLevel
           /\ \A d, e \in Above[c] : d = e \/ d \in Parents[e] \/ e \in Parents[d]
           /\ Above[c] = Parents[c] \union {c}
  BY CellsNested DEF Parents

LEMMA ParentsNested ==
    ASSUME NEW c \in Cells, NEW d \in Above[c]
    PROVE  Parents[d] \subseteq Parents[c]
<1> SUFFICES ASSUME NEW e \in Parents[d] PROVE e \in Parents[c]
  OBVIOUS
<1>1. d \in Cells /\ e \in Above[c] /\ Level[e] > Level[d] /\ Level[e] \in Int /\ Level[d] \in Int /\ Level[c] \in Int
  BY Chain
<1>2. d = c \/ Level[d] > Level[c]
  BY Chain
<1>3. e # c
  BY <1>1, <1>2
<1> QED
  BY <1>1, <1>3, Chain

\* Two cells above one cell with the same level are the same.
LEMMA OnePerLevel ==
    ASSUME NEW c \in Cells, NEW d \in Above[c], NEW e \in Above[c], Level[d] = Level[e]
    PROVE  d = e
<1>1. d \in Cells /\ e \in Cells /\ Level[d] \in Int /\ Level[e] \in Int
  BY Chain
<1>2. d = e \/ d \in Parents[e] \/ e \in Parents[d]
  BY Chain
<1>3. d \notin Parents[e] /\ e \notin Parents[d]
  BY <1>1, Chain
<1> QED
  BY <1>2, <1>3

LEMMA KeyFacts ==
    ASSUME NEW c \in Cells
    PROVE  /\ KeyOf[c] \in Above[c] /\ KeyOf[c] \in Cells /\ Level[KeyOf[c]] = RootLevel
           /\ Parents[KeyOf[c]] = {}
           /\ \A d \in Above[c] : Level[d] = RootLevel => d = KeyOf[c]
<1>1. \E k \in Above[c] : Level[k] = RootLevel
  <2>1. RootLevel \in Level[c] .. RootLevel
    BY Chain, RootLevelNat
  <2> QED
    BY <2>1, EveryLevel
<1>2. KeyOf[c] \in Above[c] /\ Level[KeyOf[c]] = RootLevel
  BY <1>1 DEF KeyOf
<1>3. KeyOf[c] \in Cells
  BY <1>2, Chain
<1>4. Parents[KeyOf[c]] = {}
  <2> SUFFICES ASSUME NEW d \in Parents[KeyOf[c]] PROVE FALSE
    OBVIOUS
  <2>1. Level[d] > RootLevel /\ Level[d] \in 0 .. RootLevel
    BY <1>2, <1>3, Chain
  <2> QED
    BY <2>1, RootLevelNat
<1> QED
  BY <1>2, <1>3, <1>4, OnePerLevel

\* A cell is an entry of the node just above it.
LEMMA SlotFacts ==
    ASSUME NEW c \in Cells, NEW s \in Slots[c]
    PROVE  /\ s \in Cells /\ c \in Parents[s] /\ Parents[s] = Parents[c] \union {c}
           /\ Level[s] = Level[c] - 1
<1>1. s \in Cells /\ c \in Parents[s] /\ Level[s] = Level[c] - 1
  BY DEF Slots, Below
<1>2. Parents[c] \subseteq Parents[s]
  BY <1>1, Chain, ParentsNested
<1>3. ASSUME NEW e \in Parents[s] PROVE e \in Parents[c] \union {c}
  <2>1. /\ e \in Cells /\ Level[e] > Level[s] /\ Level[e] \in Int /\ Level[c] \in Int
        /\ e = c \/ e \in Parents[c] \/ c \in Parents[e]
    BY <1>1, Chain
  <2>2. c \in Parents[e] => Level[c] > Level[e]
    BY <2>1, Chain
  <2> QED
    BY <1>1, <2>1, <2>2
<1> QED
  BY <1>1, <1>2, <1>3

LEMMA SlotTowards ==
    ASSUME NEW c \in Cells, NEW q \in Parents[c]
    PROVE  \E s \in Slots[q] : s \in Above[c]
<1>1. q \in Cells /\ q \in Above[c] /\ Level[q] > Level[c] /\ Level[q] \in 0 .. RootLevel /\ Level[c] \in 0 .. RootLevel
  BY Chain
<1>2. Level[q] - 1 \in Level[c] .. RootLevel
  BY <1>1, RootLevelNat
<1>3. PICK s \in Above[c] : Level[s] = Level[q] - 1
  BY <1>2, EveryLevel
<1>4. s \in Cells /\ (s = q \/ s \in Parents[q] \/ q \in Parents[s])
  BY <1>1, <1>3, Chain
<1>5. s # q /\ s \notin Parents[q]
  BY <1>1, <1>3, Chain
<1>6. s \in Slots[q]
  BY <1>1, <1>3, <1>4, <1>5 DEF Slots, Below
<1> QED
  BY <1>3, <1>6

LEMMA EntryOfParent ==
    ASSUME NEW c \in Cells
    PROVE  c = KeyOf[c] \/ \E q \in Parents[c] : c \in Slots[q]
<1>1. Level[c] \in 0 .. RootLevel /\ c \in Above[c] /\ RootLevel \in Nat
  BY Chain, RootLevelNat
<1>2. CASE Level[c] = RootLevel
  BY <1>1, <1>2, KeyFacts
<1>3. CASE Level[c] # RootLevel
  <2>1. Level[c] + 1 \in Level[c] .. RootLevel
    BY <1>1, <1>3
  <2>2. PICK q \in Above[c] : Level[q] = Level[c] + 1
    BY <2>1, EveryLevel
  <2>3. q # c /\ q \in Cells /\ Level[c] = Level[q] - 1
    BY <1>1, <2>2, Chain
  <2>4. q \in Parents[c]
    BY <2>2, <2>3, Chain
  <2>5. c \in Slots[q]
    BY <2>3, <2>4 DEF Slots, Below
  <2> QED
    BY <2>4, <2>5
<1> QED
  BY <1>2, <1>3

-------------------------------------------------------------------------------
(* What a tree says of a voxel.                                            *)

LEMMA Shape ==
    ASSUME NEW T, WellFormed(T), NEW c \in DOMAIN T
    PROVE  /\ c \in Cells /\ T[c] \in Tile \union {Child}
           /\ \A d \in Parents[c] : d \in DOMAIN T /\ T[d] = Child
           /\ T[c] = Child => Level[c] > 0 /\ Slots[c] \subseteq DOMAIN T
           /\ IsTile(T, c) <=> T[c] # Child
           /\ IsTile(T, c) => T[c] \in Tile
<1>1. c \in Cells /\ T[c] \in Tile \union {Child} /\ \A d \in Parents[c] : IsChild(T, d)
  BY DEF WellFormed
<1>2. T[c] = Child => Level[c] > 0 /\ Slots[c] \subseteq DOMAIN T
  BY DEF WellFormed
<1>3. IsTile(T, c) <=> T[c] # Child
  BY DEF IsTile
<1>4. \A d \in Parents[c] : d \in DOMAIN T /\ T[d] = Child
  BY <1>1 DEF IsChild
<1> QED
  BY <1>1, <1>2, <1>3, <1>4

\* The tiles of a tree do not overlap, so one at most covers a cell.
LEMMA OneTile ==
    ASSUME NEW T, WellFormed(T), NEW c \in Cells,
           NEW d \in Above[c], NEW e \in Above[c], IsTile(T, d), IsTile(T, e)
    PROVE  d = e
<1>1. d = e \/ d \in Parents[e] \/ e \in Parents[d]
  BY Chain
<1>2. d \in DOMAIN T /\ e \in DOMAIN T /\ T[d] # Child /\ T[e] # Child
  BY DEF IsTile
<1>3. d \notin Parents[e] /\ e \notin Parents[d]
  BY <1>2, Shape
<1> QED
  BY <1>1, <1>3

LEMMA StoredTile ==
    ASSUME NEW T, WellFormed(T), NEW c \in Cells, NEW d \in Above[c], IsTile(T, d)
    PROVE  Stored(T, c) = T[d]
<1>1. \E e \in Above[c] : IsTile(T, e)
  OBVIOUS
<1>2. PICK e \in Above[c] : /\ IsTile(T, e)
                            /\ e = CHOOSE f \in Above[c] : IsTile(T, f)
  BY <1>1
<1>3. e = d
  BY <1>2, OneTile
<1> QED
  BY <1>1, <1>2, <1>3 DEF Stored

LEMMA StoredNone ==
    ASSUME NEW T, NEW c, \A d \in Above[c] : ~ IsTile(T, d)
    PROVE  Stored(T, c) = BackgroundTile
  BY DEF Stored

LEMMA StoredType ==
    ASSUME NEW T, WellFormed(T), NEW c \in Cells, mBackground \in Values
    PROVE  Stored(T, c) \in Tile
<1>1. CASE \E d \in Above[c] : IsTile(T, d)
  <2>1. PICK d \in Above[c] : IsTile(T, d)
    BY <1>1
  <2>2. Stored(T, c) = T[d]
    BY <2>1, StoredTile
  <2> QED
    BY <2>1, <2>2, Shape DEF IsTile
<1>2. CASE \A d \in Above[c] : ~ IsTile(T, d)
  <2>1. BackgroundTile \in Tile
    BY DEF BackgroundTile, Off, Tile
  <2> QED
    BY <1>2, <2>1, StoredNone
<1> QED
  BY <1>1, <1>2

\* A voxel below an entry has a tile: the lowest entry above it.
LEMMA TileExists ==
    ASSUME NEW T, WellFormed(T), NEW x \in Voxels,
           NEW e \in Above[x], e \in DOMAIN T
    PROVE  \E d \in Above[x] : IsTile(T, d)
<1> DEFINE A == {d \in Above[x] : d \in DOMAIN T}
           L == {Level[d] : d \in A}
<1>1. x \in Cells /\ Level[x] = 0
  BY DEF Voxels
<1>2. L \in SUBSET Nat /\ L # {}
  BY <1>1, Chain
<1>3. PICK m \in L : \A k \in L : m <= k
  BY <1>2, Least
<1>4. PICK d \in A : Level[d] = m
  BY <1>3
<1>5. ASSUME T[d] = Child PROVE FALSE
  <2>1. d \in Cells /\ d \in DOMAIN T /\ d \in Above[x] /\ Level[d] > 0 /\ Slots[d] \subseteq DOMAIN T
    BY <1>1, <1>4, <1>5, Chain, Shape
  <2>2. d \in Parents[x]
    BY <1>1, <2>1, Chain
  <2>3. PICK s \in Slots[d] : s \in Above[x]
    BY <1>1, <2>2, SlotTowards
  <2>4. Level[s] = Level[d] - 1 /\ s \in A /\ Level[d] \in Nat
    BY <1>1, <2>1, <2>3, SlotFacts, Chain
  <2>5. Level[s] \in L
    BY <2>4
  <2> QED
    BY <1>3, <1>4, <2>4, <2>5
<1> QED
  BY <1>4, <1>5 DEF IsTile

-------------------------------------------------------------------------------
(* Reach.                                                                  *)

\* The way to a cell is made of cells with an entry of their own.
LEMMA OpenedFacts ==
    ASSUME NEW P \in SUBSET Cells
    PROVE  /\ \A p \in P : Parents[p] \subseteq Opened(P)
           /\ \A q \in Opened(P) : /\ q \in Cells /\ Parents[q] \subseteq Opened(P)
                                   /\ Level[q] > 0
                                   /\ \E p \in P : KeyOf[q] = KeyOf[p]
<1>1. \A p \in P : Parents[p] \subseteq Opened(P)
  BY DEF Opened
<1>2. ASSUME NEW q \in Opened(P)
      PROVE  /\ q \in Cells /\ Parents[q] \subseteq Opened(P) /\ Level[q] > 0
             /\ \E p \in P : KeyOf[q] = KeyOf[p]
  <2>1. PICK p \in P : q \in Parents[p]
    BY DEF Opened
  <2>2. q \in Cells /\ q \in Above[p] /\ Level[q] > Level[p] /\ Level[q] \in Int /\ Level[p] \in 0 .. RootLevel
    BY <2>1, Chain
  <2>3. Parents[q] \subseteq Opened(P)
    BY <1>1, <2>2, ParentsNested
  <2>4. Level[q] > 0
    BY <2>2, RootLevelNat
  <2>5. KeyOf[q] \in Above[p] /\ Level[KeyOf[q]] = RootLevel
    BY <2>2, KeyFacts, Chain
  <2>6. KeyOf[q] = KeyOf[p]
    BY <2>5, KeyFacts
  <2> QED
    BY <2>2, <2>3, <2>4, <2>6
<1> QED
  BY <1>1, <1>2

LEMMA ReachDomain ==
    ASSUME NEW T, NEW P \in SUBSET Cells
    PROVE  /\ \A c \in P : c \in DOMAIN Reach(T, P)
           /\ \A c \in Opened(P) : c \in DOMAIN Reach(T, P) /\ Reach(T, P)[c] = Child
           /\ \A c \in DOMAIN T : /\ c \in DOMAIN Reach(T, P)
                                  /\ c \notin Opened(P) => Reach(T, P)[c] = T[c]
           /\ \A c \in DOMAIN Reach(T, P) : c \notin DOMAIN T =>
                 /\ c \in Opened(P) \/ Reach(T, P)[c] = Stored(T, c)
                 /\ (\E q \in Opened(P) : c \in Slots[q]) \/ \E p \in P : c = KeyOf[p]
           /\ \A q \in Opened(P) : Slots[q] \subseteq DOMAIN Reach(T, P)
<1> DEFINE D == DOMAIN T \union (UNION {Slots[q] : q \in Opened(P)}) \union {KeyOf[p] : p \in P}
           R == Reach(T, P)
<1>1. R = [c \in D |-> IF c \in Opened(P) THEN Child
                       ELSE IF c \in DOMAIN T THEN T[c] ELSE Stored(T, c)]
  BY DEF Reach
<1>2. /\ DOMAIN T \subseteq D
      /\ \A q \in Opened(P) : \A c \in Slots[q] : c \in D
      /\ \A p \in P : KeyOf[p] \in D
  <2>1. ASSUME NEW q \in Opened(P), NEW c \in Slots[q] PROVE c \in D
    <3>1. Slots[q] \in {Slots[r] : r \in Opened(P)}
      OBVIOUS
    <3> QED
      BY <3>1
  <2>2. ASSUME NEW p \in P PROVE KeyOf[p] \in D
    OBVIOUS
  <2> QED
    BY <2>1, <2>2
<1>3. ASSUME NEW c \in D, c \notin DOMAIN T, \A p \in P : c # KeyOf[p]
      PROVE  \E q \in Opened(P) : c \in Slots[q]
  <2>1. c \in UNION {Slots[q] : q \in Opened(P)}
    BY <1>3
  <2> HIDE DEF D
  <2> QED
    BY <2>1
<1> HIDE DEF D, R
<1>4. ASSUME NEW c \in P PROVE c \in D
  <2>1. c = KeyOf[c] \/ \E q \in Parents[c] : c \in Slots[q]
    BY EntryOfParent
  <2>2. Parents[c] \subseteq Opened(P)
    BY OpenedFacts
  <2> QED
    BY <1>2, <2>1, <2>2
<1>5. ASSUME NEW c \in Opened(P) PROVE c \in D
  <2>1. c \in Cells /\ Parents[c] \subseteq Opened(P) /\ \E p \in P : KeyOf[c] = KeyOf[p]
    BY OpenedFacts
  <2>2. c = KeyOf[c] \/ \E q \in Parents[c] : c \in Slots[q]
    BY <2>1, EntryOfParent
  <2> QED
    BY <1>2, <2>1, <2>2
<1>6. DOMAIN R = D
  BY <1>1
<1>7. \A c \in D : R[c] = IF c \in Opened(P) THEN Child
                          ELSE IF c \in DOMAIN T THEN T[c] ELSE Stored(T, c)
  BY <1>1
<1>8. /\ \A c \in P : c \in DOMAIN R
      /\ \A c \in Opened(P) : c \in DOMAIN R /\ R[c] = Child
      /\ \A c \in DOMAIN T : c \in DOMAIN R /\ (c \notin Opened(P) => R[c] = T[c])
      /\ \A c \in DOMAIN R : c \notin DOMAIN T =>
            /\ c \in Opened(P) \/ R[c] = Stored(T, c)
            /\ (\E q \in Opened(P) : c \in Slots[q]) \/ \E p \in P : c = KeyOf[p]
      /\ \A q \in Opened(P) : Slots[q] \subseteq DOMAIN R
  <2>1. \A c \in P : c \in DOMAIN R
    BY <1>4, <1>6
  <2>2. \A c \in Opened(P) : c \in DOMAIN R /\ R[c] = Child
    BY <1>5, <1>6, <1>7
  <2>3. \A c \in DOMAIN T : c \in DOMAIN R /\ (c \notin Opened(P) => R[c] = T[c])
    BY <1>2, <1>6, <1>7
  <2>4. ASSUME NEW c \in DOMAIN R, c \notin DOMAIN T
        PROVE  /\ c \in Opened(P) \/ R[c] = Stored(T, c)
               /\ (\E q \in Opened(P) : c \in Slots[q]) \/ \E p \in P : c = KeyOf[p]
    BY <1>3, <1>6, <1>7, <2>4
  <2>5. \A q \in Opened(P) : Slots[q] \subseteq DOMAIN R
    BY <1>2, <1>6
  <2> QED
    BY <2>1, <2>2, <2>3, <2>4, <2>5
<1> QED
  BY <1>8 DEF R

\* Descending keeps the shape of the tree.
LEMMA ReachShape ==
    ASSUME NEW T, WellFormed(T), NEW P \in SUBSET Cells, mBackground \in Values
    PROVE  WellFormed(Reach(T, P))
<1> DEFINE open == Opened(P)
           R == Reach(T, P)
<1> HIDE DEF R, open
<1>1. /\ \A c \in P : c \in DOMAIN R
      /\ \A c \in open : c \in DOMAIN R /\ R[c] = Child
      /\ \A c \in DOMAIN T : c \in DOMAIN R /\ (c \notin open => R[c] = T[c])
      /\ \A c \in DOMAIN R : c \notin DOMAIN T =>
            /\ c \in open \/ R[c] = Stored(T, c)
            /\ (\E q \in open : c \in Slots[q]) \/ \E p \in P : c = KeyOf[p]
      /\ \A q \in open : Slots[q] \subseteq DOMAIN R
  BY ReachDomain DEF R, open
<1>2. \A q \in open : q \in Cells /\ Parents[q] \subseteq open /\ Level[q] > 0
  BY OpenedFacts DEF open
<1>3. ASSUME NEW c \in DOMAIN R
      PROVE  c \in Cells /\ R[c] \in Tile \union {Child}
  <2>1. CASE c \in DOMAIN T
    BY <1>1, <2>1, Shape
  <2>2. CASE c \notin DOMAIN T
    <3>1. c \in Cells
      BY <1>1, <1>2, <2>2, SlotFacts, KeyFacts
    <3>2. Stored(T, c) \in Tile
      BY <3>1, StoredType
    <3> QED
      BY <1>1, <2>2, <3>1, <3>2
  <2> QED
    BY <2>1, <2>2
<1>4. ASSUME NEW c \in DOMAIN R, NEW d \in Parents[c]
      PROVE  IsChild(R, d)
  <2>1. CASE c \in DOMAIN T
    <3>1. d \in DOMAIN T /\ T[d] = Child
      BY <2>1, Shape
    <3> QED
      BY <1>1, <3>1 DEF IsChild
  <2>2. CASE c \notin DOMAIN T
    <3>1. CASE \E q \in open : c \in Slots[q]
      <4>1. d \in open
        BY <1>2, <3>1, SlotFacts
      <4> QED
        BY <1>1, <4>1 DEF IsChild
    <3>2. CASE \E p \in P : c = KeyOf[p]
      BY <3>2, KeyFacts
    <3> QED
      BY <1>1, <2>2, <3>1, <3>2
  <2> QED
    BY <2>1, <2>2
<1>5. ASSUME NEW c \in DOMAIN R, R[c] = Child
      PROVE  Level[c] > 0 /\ Slots[c] \subseteq DOMAIN R
  <2>1. CASE c \in open
    BY <1>1, <1>2, <2>1
  <2>2. CASE c \notin open
    <3>1. c \in DOMAIN T /\ T[c] = Child
      <4>1. c \notin DOMAIN T => R[c] = Stored(T, c)
        BY <1>1, <2>2
      <4>2. Stored(T, c) \in Tile
        BY <1>3, StoredType
      <4> QED
        BY <1>1, <1>5, <2>2, <4>1, <4>2, ContentsTyped
    <3>2. Level[c] > 0 /\ Slots[c] \subseteq DOMAIN T
      BY <3>1, Shape
    <3> QED
      BY <1>1, <3>2
  <2> QED
    BY <2>1, <2>2
<1>6. WellFormed(R)
  BY <1>3, <1>4, <1>5 DEF WellFormed
<1> QED
  BY <1>6 DEF R

\* Descending changes no voxel: a tile is replaced by a node full of the same.
LEMMA ReachContents ==
    ASSUME NEW T, WellFormed(T), NEW P \in SUBSET Cells, mBackground \in Values,
           NEW x \in Voxels
    PROVE  Stored(Reach(T, P), x) = Stored(T, x)
<1> DEFINE open == Opened(P)
           R == Reach(T, P)
<1> HIDE DEF R, open
<1>1. /\ \A c \in open : c \in DOMAIN R /\ R[c] = Child
      /\ \A c \in DOMAIN T : c \in DOMAIN R /\ (c \notin open => R[c] = T[c])
      /\ \A c \in DOMAIN R : c \notin DOMAIN T => c \in open \/ R[c] = Stored(T, c)
  BY ReachDomain DEF R, open
<1>2. WellFormed(R) /\ x \in Cells
  BY ReachShape DEF R, Voxels
<1>3. ASSUME NEW c \in Above[x], IsTile(R, c)
      PROVE  R[c] = Stored(T, x)
  <2>1. c \in DOMAIN R /\ c \notin open /\ c \in Cells
    BY <1>1, <1>2, <1>3, Chain DEF IsTile
  <2>2. CASE c \in DOMAIN T
    <3>1. IsTile(T, c)
      BY <1>1, <1>3, <2>1, <2>2 DEF IsTile
    <3> QED
      BY <1>1, <1>2, <2>1, <2>2, <3>1, StoredTile
  <2>3. CASE c \notin DOMAIN T
    <3>1. R[c] = Stored(T, c)
      BY <1>1, <2>1, <2>3
    <3>2. CASE \E d \in Above[c] : IsTile(T, d)
      <4>1. PICK d \in Above[c] : IsTile(T, d)
        BY <3>2
      <4>2. d \in Above[x]
        BY <1>2, Chain
      <4> QED
        BY <1>2, <2>1, <3>1, <4>1, <4>2, StoredTile
    <3>3. CASE \A d \in Above[c] : ~ IsTile(T, d)
      <4>1. ASSUME NEW d \in Above[x], IsTile(T, d) PROVE FALSE
        <5>1. d = c \/ d \in Parents[c] \/ c \in Parents[d]
          BY <1>2, Chain
        <5>2. c \in Parents[d] => c \in DOMAIN T
          BY <4>1, Shape DEF IsTile
        <5>3. d \in Parents[c] => d \in Above[c]
          BY <2>1, Chain
        <5> QED
          BY <2>1, <2>3, <3>3, <4>1, <5>1, <5>2, <5>3 DEF IsTile
      <4> QED
        BY <3>1, <3>3, <4>1, StoredNone
    <3> QED
      BY <3>2, <3>3
  <2> QED
    BY <2>2, <2>3
<1>4. CASE \E c \in Above[x] : IsTile(R, c)
  BY <1>2, <1>3, <1>4, StoredTile DEF R
<1>5. CASE \A c \in Above[x] : ~ IsTile(R, c)
  <2>1. \A c \in Above[x] : c \notin DOMAIN R
    BY <1>2, <1>5, TileExists
  <2>2. \A c \in Above[x] : ~ IsTile(T, c)
    BY <1>1, <2>1 DEF IsTile
  <2> QED
    BY <1>5, <2>2, StoredNone DEF R
<1> QED
  BY <1>4, <1>5

-------------------------------------------------------------------------------
(* Nodes that become tiles: SetTiles, and the collapsing of Prune.         *)

\* Of some cells above a cell one is the highest.
LEMMA Topmost ==
    ASSUME NEW x \in Cells, NEW S \in SUBSET Above[x], S # {}
    PROVE  \E d \in S : Parents[d] \intersect S = {}
<1> DEFINE L == {RootLevel - Level[d] : d \in S}
<1>1. \A d \in S : d \in Cells /\ Level[d] \in 0 .. RootLevel
  BY Chain
<1>2. L \in SUBSET Nat /\ L # {}
  BY <1>1, RootLevelNat
<1>3. PICK m \in L : \A k \in L : m <= k
  BY <1>2, Least
<1>4. PICK d \in S : m = RootLevel - Level[d]
  BY <1>3
<1>5. ASSUME NEW e \in Parents[d], e \in S PROVE FALSE
  <2>1. Level[e] > Level[d]
    BY <1>1, Chain
  <2>2. m <= RootLevel - Level[e]
    BY <1>3, <1>5
  <2> QED
    BY <1>1, <1>4, <1>5, <2>1, <2>2, RootLevelNat
<1> QED
  BY <1>4, <1>5

\* U is what is left of T when the entries of N have become tiles.
MergedAt(T, N, U) ==
    /\ WellFormed(T)
    /\ N \subseteq Cells
    /\ DOMAIN U = {c \in DOMAIN T : Parents[c] \intersect N = {}}
    /\ \A c \in DOMAIN U : IF c \in N THEN U[c] \in Tile ELSE U[c] = T[c]

LEMMA MergedShape ==
    ASSUME NEW T, NEW N, NEW U, MergedAt(T, N, U)
    PROVE  WellFormed(U)
<1>1. WellFormed(T)
  BY DEF MergedAt
<1>2. ASSUME NEW c \in DOMAIN U
      PROVE  c \in DOMAIN T /\ Parents[c] \intersect N = {} /\ c \in Cells
  <2>1. c \in DOMAIN T /\ Parents[c] \intersect N = {}
    BY DEF MergedAt
  <2> QED
    BY <1>1, <2>1, Shape
<1>3. ASSUME NEW c \in DOMAIN U PROVE U[c] \in Tile \union {Child}
  <2>1. T[c] \in Tile \union {Child}
    BY <1>1, <1>2, Shape
  <2> QED
    BY <2>1 DEF MergedAt
<1>4. ASSUME NEW c \in DOMAIN U, NEW d \in Parents[c] PROVE IsChild(U, d)
  <2>1. d \in DOMAIN T /\ T[d] = Child
    BY <1>1, <1>2, Shape
  <2>2. d \in Above[c]
    BY <1>2, Chain
  <2>3. Parents[d] \intersect N = {} /\ d \notin N
    BY <1>2, <2>2, ParentsNested
  <2>4. d \in DOMAIN U
    BY <2>1, <2>3 DEF MergedAt
  <2> QED
    BY <2>1, <2>3, <2>4 DEF MergedAt, IsChild
<1>5. ASSUME NEW c \in DOMAIN U, U[c] = Child
      PROVE  Level[c] > 0 /\ Slots[c] \subseteq DOMAIN U
  <2>1. c \notin N /\ T[c] = Child
    BY <1>5, ContentsTyped DEF MergedAt
  <2>2. Level[c] > 0 /\ Slots[c] \subseteq DOMAIN T
    BY <1>1, <1>2, <2>1, Shape
  <2>3. \A s \in Slots[c] : Parents[s] \intersect N = {}
    BY <1>2, <2>1, SlotFacts
  <2> QED
    BY <2>2, <2>3 DEF MergedAt
<1> QED
  BY <1>2, <1>3, <1>4, <1>5 DEF WellFormed

\* A voxel below a new tile holds what the tile holds, another what it held.
LEMMA MergedContents ==
    ASSUME NEW T, NEW N, NEW U, MergedAt(T, N, U), NEW x \in Voxels
    PROVE  \/ \E d \in Above[x] \intersect N : d \in DOMAIN U /\ Stored(U, x) = U[d]
           \/ /\ \A d \in Above[x] \intersect N : d \notin DOMAIN T
              /\ Stored(U, x) = Stored(T, x)
<1> DEFINE S == {d \in Above[x] : d \in N /\ d \in DOMAIN T}
<1>1. WellFormed(T) /\ WellFormed(U) /\ x \in Cells
  BY MergedShape DEF MergedAt, Voxels
<1>2. CASE S # {}
  <2>1. PICK d \in S : Parents[d] \intersect S = {}
    BY <1>1, <1>2, Topmost
  <2>2. Parents[d] \intersect N = {}
    <3> SUFFICES ASSUME NEW n \in Parents[d], n \in N PROVE FALSE
      OBVIOUS
    <3>1. n \in DOMAIN T
      BY <1>1, Shape
    <3>2. n \in Above[x]
      BY <1>1, Chain
    <3> QED
      BY <2>1, <3>1, <3>2
  <2>3. d \in DOMAIN U /\ U[d] \in Tile
    BY <2>2 DEF MergedAt
  <2>4. IsTile(U, d)
    BY <2>3, ContentsTyped DEF IsTile
  <2> QED
    BY <1>1, <2>3, <2>4, StoredTile
<1>3. CASE S = {}
  <2>1. \A d \in Above[x] : d \in DOMAIN T => d \notin N
    BY <1>3
  <2>2. CASE \E d \in Above[x] : IsTile(T, d)
    <3>1. PICK d \in Above[x] : IsTile(T, d)
      BY <2>2
    <3>2. d \in DOMAIN T /\ T[d] # Child
      BY <3>1 DEF IsTile
    <3>3. \A n \in Parents[d] : n \in DOMAIN T /\ n \in Above[x]
      BY <1>1, <3>2, Shape, Chain
    <3>4. d \in DOMAIN U /\ U[d] = T[d]
      BY <2>1, <3>2, <3>3 DEF MergedAt
    <3>5. Stored(U, x) = U[d] /\ Stored(T, x) = T[d]
      BY <1>1, <3>1, <3>2, <3>4, StoredTile DEF IsTile
    <3> QED
      BY <2>1, <3>4, <3>5
  <2>3. CASE \A d \in Above[x] : ~ IsTile(T, d)
    <3>1. \A d \in Above[x] : d \notin DOMAIN T
      BY <1>1, <2>3, TileExists
    <3>2. \A d \in Above[x] : ~ IsTile(U, d)
      BY <3>1 DEF MergedAt, IsTile
    <3> QED
      BY <2>1, <2>3, <3>2, StoredNone
  <2> QED
    BY <2>2, <2>3
<1> QED
  BY <1>2, <1>3

\* What is not below a cell of N is not inside one.
LEMMA NotBelow ==
    ASSUME NEW D \in SUBSET Cells, NEW N \in SUBSET Cells
    PROVE  D \ UNION {Below[n] : n \in N} = {c \in D : Parents[c] \intersect N = {}}
<1>1. ASSUME NEW c \in D PROVE c \in UNION {Below[n] : n \in N} <=> \E n \in N : n \in Parents[c]
  <2>1. c \in UNION {Below[n] : n \in N} => \E n \in N : c \in Below[n]
    OBVIOUS
  <2>2. ASSUME NEW n \in N, c \in Below[n] PROVE c \in UNION {Below[m] : m \in N}
    <3>1. Below[n] \in {Below[m] : m \in N}
      OBVIOUS
    <3> QED
      BY <2>2, <3>1
  <2>3. \A n \in N : c \in Below[n] <=> n \in Parents[c]
    BY DEF Below
  <2> QED
    BY <2>1, <2>2, <2>3
<1> QED
  BY <1>1

LEMMA SetTilesMerged ==
    ASSUME NEW T, WellFormed(T), NEW P \in SUBSET Cells, NEW t \in Tile
    PROVE  MergedAt(T, P, SetTiles(T, P, t)) /\ \A c \in DOMAIN SetTiles(T, P, t) :
                                                 c \in P => SetTiles(T, P, t)[c] = t
<1> DEFINE U == SetTiles(T, P, t)
<1>1. DOMAIN T \subseteq Cells
  BY DEF WellFormed
<1>2. DOMAIN U = {c \in DOMAIN T : Parents[c] \intersect P = {}}
  BY <1>1, NotBelow DEF SetTiles
<1>3. \A c \in DOMAIN U : U[c] = IF c \in P THEN t ELSE T[c]
  BY DEF SetTiles
<1> QED
  BY <1>2, <1>3 DEF MergedAt

\* Put makes one tile of each cell of P and leaves every other voxel alone.
LEMMA PutLemma ==
    ASSUME NEW T, WellFormed(T), NEW P \in SUBSET Cells, NEW t \in Tile, mBackground \in Values
    PROVE  /\ WellFormed(Put(T, P, t))
           /\ \A x \in Voxels : Stored(Put(T, P, t), x)
                 = IF Above[x] \intersect P # {} THEN t ELSE Stored(T, x)
<1> DEFINE R == Reach(T, P)
           U == Put(T, P, t)
<1> HIDE DEF R, U
<1>1. WellFormed(R)
  BY ReachShape DEF R
<1>2. MergedAt(R, P, U) /\ \A c \in DOMAIN U : c \in P => U[c] = t
  BY <1>1, SetTilesMerged DEF Put, U, R
<1>3. WellFormed(U)
  BY <1>2, MergedShape
<1>4. \A c \in P : c \in DOMAIN R
  BY ReachDomain DEF R
<1>5. ASSUME NEW x \in Voxels
      PROVE  Stored(U, x) = IF Above[x] \intersect P # {} THEN t ELSE Stored(T, x)
  <2>1. Stored(R, x) = Stored(T, x)
    BY ReachContents DEF R
  <2>2. \/ \E d \in Above[x] \intersect P : d \in DOMAIN U /\ Stored(U, x) = U[d]
        \/ /\ \A d \in Above[x] \intersect P : d \notin DOMAIN R
           /\ Stored(U, x) = Stored(R, x)
    BY <1>2, MergedContents
  <2> QED
    BY <1>2, <1>4, <2>1, <2>2
<1> QED
  BY <1>3, <1>5 DEF U

-------------------------------------------------------------------------------
(* Operations on a voxel.                                                  *)

\* Above a voxel there is no other voxel.
LEMMA OneVoxel ==
    ASSUME NEW x \in Voxels, NEW y \in Voxels, x \in Above[y]
    PROVE  x = y
<1>1. x \in Cells /\ y \in Cells /\ Level[x] = 0 /\ Level[y] = 0
  BY DEF Voxels
<1> QED
  BY <1>1, Chain, OnePerLevel

LEMMA WriteLemma ==
    ASSUME NEW T, WellFormed(T), NEW x \in Voxels, NEW t \in Tile, mBackground \in Values
    PROVE  /\ WellFormed(Write(T, x, t))
           /\ \A y \in Voxels : Stored(Write(T, x, t), y) = IF y = x THEN t ELSE Stored(T, y)
<1>1. {x} \in SUBSET Cells /\ x \in Cells
  BY DEF Voxels
<1>2. WellFormed(Put(T, {x}, t))
  BY <1>1, PutLemma
<1>3. ASSUME NEW y \in Voxels
      PROVE  Stored(Put(T, {x}, t), y) = IF y = x THEN t ELSE Stored(T, y)
  <2>1. Stored(Put(T, {x}, t), y) = IF Above[y] \intersect {x} # {} THEN t ELSE Stored(T, y)
    BY <1>1, PutLemma
  <2>2. x \in Above[y] <=> y = x
    BY <1>1, OneVoxel, Chain
  <2> QED
    BY <2>1, <2>2
<1> QED
  BY <1>2, <1>3 DEF Write

LEMMA KeyAddedLemma ==
    ASSUME NEW T, WellFormed(T), NEW x \in Voxels, mBackground \in Values
    PROVE  /\ WellFormed(KeyAdded(T, x))
           /\ \A y \in Voxels : Stored(KeyAdded(T, x), y) = Stored(T, y)
           /\ WellFormed(Reach(T, Slots[KeyOf[x]]))
           /\ \A y \in Voxels : Stored(Reach(T, Slots[KeyOf[x]]), y) = Stored(T, y)
<1>1. KeyOf[x] \in Cells
  BY KeyFacts DEF Voxels
<1>2. Slots[KeyOf[x]] \in SUBSET Cells
  BY <1>1, SlotFacts
<1>3. WellFormed(Reach(T, Slots[KeyOf[x]]))
  BY <1>2, ReachShape
<1>4. \A y \in Voxels : Stored(Reach(T, Slots[KeyOf[x]]), y) = Stored(T, y)
  BY <1>2, ReachContents
<1> QED
  BY <1>3, <1>4 DEF KeyAdded

\* The functions the operations are given keep to the values of the tree.
LEMMA OpsTyped ==
    /\ \A op \in ModifyOps, v \in Values : op[v] \in Values
    /\ \A op \in StateOps, t \in Tile : op[t] \in Tile
    /\ \A v \in Values, on \in BOOLEAN : [value |-> v, active |-> on] \in Tile
    /\ \A v \in Values : Off(v) \in Tile
    /\ \A t \in Tile : t.value \in Values /\ t.active \in BOOLEAN
    /\ \A v \in Values : -v \in Values
<1>1. /\ \A v \in Values, on \in BOOLEAN : [value |-> v, active |-> on] \in Tile
      /\ \A v \in Values : Off(v) \in Tile
      /\ \A t \in Tile : t.value \in Values /\ t.active \in BOOLEAN
  BY DEF Off, Tile
<1>2. \A op \in ModifyOps, v \in Values : op[v] \in Values
  BY ContentsTyped
<1>3. \A op \in StateOps, t \in Tile : op[t] \in Tile
  BY ContentsTyped
<1>4. \A v \in Values : -v \in Values
  BY ContentsTyped
<1> QED
  BY <1>1, <1>2, <1>3, <1>4

\* The tiles that the operations on a voxel write are tiles.
LEMMA WrittenTyped ==
    ASSUME NEW old \in Tile
    PROVE  /\ \A v \in Values : [old EXCEPT !.value = v] \in Tile
           /\ \A on \in BOOLEAN : [old EXCEPT !.active = on] \in Tile
           /\ \A op \in ModifyOps : [value |-> op[old.value], active |-> TRUE] \in Tile
           /\ [old EXCEPT !.value = - @] \in Tile
           /\ [old EXCEPT !.active = TRUE] \in Tile
<1>1. old.value \in Values /\ old.active \in BOOLEAN /\ - old.value \in Values
  BY OpsTyped
<1>2. \A v \in Values, on \in BOOLEAN : [value |-> v, active |-> on] \in Tile
  BY OpsTyped
<1>3. old = [value |-> old.value, active |-> old.active]
  BY DEF Tile
<1>4. \A v \in Values : [old EXCEPT !.value = v] = [value |-> v, active |-> old.active]
  BY <1>3
<1>5. \A on \in BOOLEAN : [old EXCEPT !.active = on] = [value |-> old.value, active |-> on]
  BY <1>3
<1>6. \A op \in ModifyOps : op[old.value] \in Values
  BY <1>1, OpsTyped
<1>7. [old EXCEPT !.value = - @] = [value |-> - old.value, active |-> old.active]
  BY <1>3
<1>8. [old EXCEPT !.active = TRUE] = [value |-> old.value, active |-> TRUE]
  BY <1>5
<1>9. \A v \in Values : [old EXCEPT !.value = v] \in Tile
  BY <1>1, <1>2, <1>4
<1>10. \A on \in BOOLEAN : [old EXCEPT !.active = on] \in Tile
  BY <1>1, <1>2, <1>5
<1>11. \A op \in ModifyOps : [value |-> op[old.value], active |-> TRUE] \in Tile
  BY <1>2, <1>6
<1>12. [old EXCEPT !.value = - @] \in Tile
  BY <1>1, <1>2, <1>7
<1> QED
  BY <1>9, <1>10, <1>11, <1>12

\* Every operation on a voxel keeps the shape of the tree.
LEMMA VoxelOpsShape ==
    ASSUME WellFormed(tree), mBackground \in Values, NEW x \in Voxels
    PROVE  /\ \A v \in Values : /\ WellFormed(SetValueOn(tree, x, v))
                                /\ WellFormed(SetValueOff(tree, x, v))
                                /\ WellFormed(SetValueOnly(tree, x, v))
           /\ \A on \in BOOLEAN : WellFormed(SetActiveState(tree, x, on))
           /\ \A op \in ModifyOps : WellFormed(ModifyValue(tree, x, op))
           /\ \A op \in StateOps : WellFormed(ModifyValueAndActiveState(tree, x, op))
           /\ WellFormed(TouchLeaf(tree, x))
<1>1. x \in Cells
  BY DEF Voxels
<1>2. Stored(tree, x) \in Tile
  BY <1>1, StoredType
<1>3. \A v \in Values : /\ WellFormed(SetValueOn(tree, x, v))
                        /\ WellFormed(SetValueOff(tree, x, v))
  BY OpsTyped, WriteLemma DEF SetValueOn, SetValueOff
<1>4. \A v \in Values : WellFormed(SetValueOnly(tree, x, v))
  BY <1>2, WrittenTyped, WriteLemma, KeyAddedLemma DEF SetValueOnly
<1>5. \A on \in BOOLEAN : WellFormed(SetActiveState(tree, x, on))
  BY <1>2, WrittenTyped, WriteLemma DEF SetActiveState
<1>6. \A op \in ModifyOps : WellFormed(ModifyValue(tree, x, op))
  BY <1>2, WrittenTyped, WriteLemma DEF ModifyValue
<1>7. ASSUME NEW op \in StateOps
      PROVE  WellFormed(ModifyValueAndActiveState(tree, x, op))
  <2>1. op[Stored(tree, x)] \in Tile /\ {x} \in SUBSET Cells
    BY <1>1, <1>2, OpsTyped
  <2>2. \A T : WellFormed(T) => WellFormed(Put(T, {x}, op[Stored(tree, x)]))
    BY <2>1, PutLemma
  <2>3. WellFormed(Reach(tree, Slots[KeyOf[x]])) /\ WellFormed(KeyAdded(tree, x))
    BY KeyAddedLemma
  <2> QED
    BY <2>2, <2>3 DEF ModifyValueAndActiveState
<1>8. WellFormed(TouchLeaf(tree, x))
  BY <1>1, ReachShape DEF TouchLeaf
<1> QED
  BY <1>3, <1>4, <1>5, <1>6, <1>7, <1>8

\* What the operations on a voxel do to the voxels.
LEMMA VoxelOpsContents ==
    ASSUME WellFormed(tree), mBackground \in Values
    PROVE  VoxelOpsMeetContract
<1> SUFFICES ASSUME NEW x \in Voxels
    PROVE  /\ \A v \in Values :
                /\ Contents(SetValueOn(tree, x, v)) = Filled({x}, [value |-> v, active |-> TRUE])
                /\ Contents(SetValueOff(tree, x, v)) = Filled({x}, Off(v))
                /\ Contents(SetValueOnly(tree, x, v))
                     = Changed({x}, LAMBDA old : [old EXCEPT !.value = v])
           /\ \A on \in BOOLEAN : Contents(SetActiveState(tree, x, on))
                                  = Changed({x}, LAMBDA old : [old EXCEPT !.active = on])
           /\ \A op \in ModifyOps :
                Contents(ModifyValue(tree, x, op))
                  = Changed({x}, LAMBDA old : [value |-> op[old.value], active |-> TRUE])
  BY DEF VoxelOpsMeetContract
<1>1. Stored(tree, x) \in Tile /\ \A y \in Voxels : Map[y] = Stored(tree, y)
  BY StoredType DEF Map, Contents, Voxels
<1>2. ASSUME NEW v \in Values
      PROVE  Contents(SetValueOn(tree, x, v)) = Filled({x}, [value |-> v, active |-> TRUE])
  <2>1. [value |-> v, active |-> TRUE] \in Tile
    BY OpsTyped
  <2>2. \A y \in Voxels : Stored(SetValueOn(tree, x, v), y)
            = IF y \in {x} THEN [value |-> v, active |-> TRUE] ELSE Map[y]
    BY <1>1, <2>1, WriteLemma DEF SetValueOn
  <2> QED
    BY <2>2 DEF Contents, Filled, Changed
<1>3. ASSUME NEW v \in Values
      PROVE  Contents(SetValueOff(tree, x, v)) = Filled({x}, Off(v))
  <2>1. Off(v) \in Tile
    BY OpsTyped
  <2>2. \A y \in Voxels : Stored(SetValueOff(tree, x, v), y) = IF y \in {x} THEN Off(v) ELSE Map[y]
    BY <1>1, <2>1, WriteLemma DEF SetValueOff
  <2> QED
    BY <2>2 DEF Contents, Filled, Changed
<1>4. ASSUME NEW v \in Values
      PROVE  Contents(SetValueOnly(tree, x, v)) = Changed({x}, LAMBDA old : [old EXCEPT !.value = v])
  <2>1. [Stored(tree, x) EXCEPT !.value = v] \in Tile
    BY <1>1, WrittenTyped
  <2>2. \A y \in Voxels : Stored(SetValueOnly(tree, x, v), y)
            = IF y \in {x} THEN [Map[y] EXCEPT !.value = v] ELSE Map[y]
    BY <1>1, <2>1, WriteLemma, KeyAddedLemma DEF SetValueOnly
  <2> QED
    BY <2>2 DEF Contents, Changed
<1>5. ASSUME NEW on \in BOOLEAN
      PROVE  Contents(SetActiveState(tree, x, on)) = Changed({x}, LAMBDA old : [old EXCEPT !.active = on])
  <2>1. [Stored(tree, x) EXCEPT !.active = on] \in Tile
    BY <1>1, WrittenTyped
  <2>2. \A y \in Voxels : Stored(SetActiveState(tree, x, on), y)
            = IF y \in {x} THEN [Map[y] EXCEPT !.active = on] ELSE Map[y]
    BY <1>1, <2>1, WriteLemma DEF SetActiveState
  <2> QED
    BY <2>2 DEF Contents, Changed
<1>6. ASSUME NEW op \in ModifyOps
      PROVE  Contents(ModifyValue(tree, x, op))
               = Changed({x}, LAMBDA old : [value |-> op[old.value], active |-> TRUE])
  <2>1. [value |-> op[Stored(tree, x).value], active |-> TRUE] \in Tile
    BY <1>1, WrittenTyped
  <2>2. ASSUME NEW y \in Voxels
        PROVE  Stored(ModifyValue(tree, x, op), y)
                 = IF y \in {x} THEN [value |-> op[Map[y].value], active |-> TRUE] ELSE Map[y]
    <3>1. Stored(ModifyValue(tree, x, op), y)
            = IF y = x THEN [value |-> op[Stored(tree, x).value], active |-> TRUE]
                       ELSE Stored(tree, y)
      BY <2>1, WriteLemma DEF ModifyValue
    <3> QED
      BY <1>1, <3>1
  <2> QED
    BY <2>2 DEF Contents, Changed
<1> QED
  BY <1>2, <1>3, <1>4, <1>5, <1>6

-------------------------------------------------------------------------------
(* Prune, the root table, and operations that change entries in place.     *)

\* A cell that lies in a key lies in it alone.
LEMMA EraseKeysLemma ==
    ASSUME NEW T, WellFormed(T), NEW K \in SUBSET Keys
    PROVE  /\ WellFormed(EraseKeys(T, K))
           /\ \A x \in Voxels : Stored(EraseKeys(T, K), x)
                 = IF KeyOf[x] \in K THEN BackgroundTile ELSE Stored(T, x)
<1> DEFINE U == EraseKeys(T, K)
           E == UNION {{k} \union Below[k] : k \in K}
<1>1. DOMAIN U = DOMAIN T \ E /\ \A c \in DOMAIN U : U[c] = T[c]
  BY DEF EraseKeys
<1>2. ASSUME NEW c \in Cells PROVE c \in E <=> KeyOf[c] \in K
  <2>1. c \in E => \E k \in K : c \in {k} \union Below[k]
    OBVIOUS
  <2>2. ASSUME NEW k \in K, c \in {k} \union Below[k] PROVE c \in E
    <3>1. {k} \union Below[k] \in {{j} \union Below[j] : j \in K}
      OBVIOUS
    <3> QED
      BY <2>2, <3>1
  <2>3. ASSUME NEW k \in K PROVE c \in {k} \union Below[k] <=> k = KeyOf[c]
    <3>1. c \in {k} \union Below[k] <=> k \in Above[c]
      <4>1. k \in Cells
        BY DEF Keys
      <4>2. c \in Below[k] <=> k \in Parents[c]
        BY <4>1 DEF Below
      <4> QED
        BY <4>2, Chain
    <3>2. Level[k] = RootLevel
      BY DEF Keys
    <3> QED
      BY <3>1, <3>2, KeyFacts
  <2> QED
    BY <2>1, <2>2, <2>3
<1> HIDE DEF U, E
<1>3. \A c \in Cells : \A d \in Above[c] : KeyOf[d] = KeyOf[c]
  <2> SUFFICES ASSUME NEW c \in Cells, NEW d \in Above[c] PROVE KeyOf[d] = KeyOf[c]
    OBVIOUS
  <2>1. d \in Cells
    BY Chain
  <2>2. KeyOf[d] \in Above[c] /\ Level[KeyOf[d]] = RootLevel
    BY <2>1, KeyFacts, Chain
  <2> QED
    BY <2>2, KeyFacts
<1>4. \A c : c \in DOMAIN U <=> c \in DOMAIN T /\ KeyOf[c] \notin K
  BY <1>1, <1>2, Shape
<1>5. WellFormed(U)
  <2>1. ASSUME NEW c \in DOMAIN U
        PROVE  c \in Cells /\ U[c] \in Tile \union {Child}
    BY <1>1, <1>4, Shape
  <2>2. ASSUME NEW c \in DOMAIN U, NEW d \in Parents[c] PROVE IsChild(U, d)
    <3>1. d \in DOMAIN T /\ T[d] = Child /\ d \in Above[c]
      BY <1>4, <2>1, Shape, Chain
    <3>2. d \in DOMAIN U
      BY <1>3, <1>4, <2>1, <3>1
    <3> QED
      BY <1>1, <3>1, <3>2 DEF IsChild
  <2>3. ASSUME NEW c \in DOMAIN U, U[c] = Child
        PROVE  Level[c] > 0 /\ Slots[c] \subseteq DOMAIN U
    <3>1. Level[c] > 0 /\ Slots[c] \subseteq DOMAIN T
      BY <1>1, <1>4, <2>3, Shape
    <3>2. ASSUME NEW s \in Slots[c] PROVE KeyOf[s] = KeyOf[c]
      <4>1. s \in Cells /\ c \in Above[s]
        BY <2>1, SlotFacts, Chain
      <4> QED
        BY <1>3, <4>1
    <3> QED
      BY <1>4, <3>1, <3>2
  <2> QED
    BY <2>1, <2>2, <2>3 DEF WellFormed
<1>6. ASSUME NEW x \in Voxels
      PROVE  Stored(U, x) = IF KeyOf[x] \in K THEN BackgroundTile ELSE Stored(T, x)
  <2>1. x \in Cells
    BY DEF Voxels
  <2>2. \A d \in Above[x] : KeyOf[d] = KeyOf[x]
    BY <1>3, <2>1
  <2>3. CASE KeyOf[x] \in K
    <3>1. \A d \in Above[x] : ~ IsTile(U, d)
      BY <1>4, <2>2, <2>3 DEF IsTile
    <3> QED
      BY <2>3, <3>1, StoredNone
  <2>4. CASE KeyOf[x] \notin K
    <3>1. \A d \in Above[x] : (IsTile(U, d) <=> IsTile(T, d)) /\ (d \in DOMAIN T => U[d] = T[d])
      BY <1>1, <1>4, <2>2, <2>4 DEF IsTile
    <3>2. CASE \E d \in Above[x] : IsTile(T, d)
      <4>1. PICK d \in Above[x] : IsTile(T, d)
        BY <3>2
      <4>2. Stored(T, x) = T[d] /\ Stored(U, x) = U[d]
        BY <1>5, <2>1, <3>1, <4>1, StoredTile
      <4> QED
        BY <2>4, <3>1, <4>1, <4>2 DEF IsTile
    <3>3. CASE \A d \in Above[x] : ~ IsTile(T, d)
      BY <2>4, <3>1, <3>3, StoredNone
    <3> QED
      BY <3>2, <3>3
  <2> QED
    BY <2>3, <2>4
<1> QED
  BY <1>5, <1>6 DEF U

LEMMA BackgroundTyped == mBackground \in Values => BackgroundTile \in Tile /\ BackgroundTile # Child
  BY ContentsTyped, OpsTyped DEF BackgroundTile

\* Background tiles of the root table say what a missing key says.
LEMMA EraseBackgroundLemma ==
    ASSUME NEW T, WellFormed(T), mBackground \in Values
    PROVE  /\ WellFormed(EraseBackgroundTiles(T))
           /\ \A x \in Voxels : Stored(EraseBackgroundTiles(T), x) = Stored(T, x)
<1> DEFINE K == {k \in Keys : k \in DOMAIN T /\ T[k] = BackgroundTile}
<1>1. K \in SUBSET Keys
  OBVIOUS
<1>2. ASSUME NEW x \in Voxels, KeyOf[x] \in K PROVE Stored(T, x) = BackgroundTile
  <2>1. x \in Cells /\ KeyOf[x] \in Above[x]
    BY KeyFacts DEF Voxels
  <2>2. IsTile(T, KeyOf[x]) /\ T[KeyOf[x]] = BackgroundTile
    BY <1>2, BackgroundTyped DEF IsTile
  <2> QED
    BY <2>1, <2>2, StoredTile
<1> HIDE DEF K
<1>3. WellFormed(EraseKeys(T, K))
  BY <1>1, EraseKeysLemma
<1>4. \A x \in Voxels : Stored(EraseKeys(T, K), x) = Stored(T, x)
  BY <1>1, <1>2, EraseKeysLemma
<1> QED
  BY <1>3, <1>4 DEF EraseBackgroundTiles, K

\* Every cell has a voxel in it.
LEMMA VoxelInside ==
    ASSUME NEW c \in Cells
    PROVE  /\ VoxelsIn[c] \subseteq Voxels /\ VoxelsIn[c] # {}
           /\ \A x \in Voxels : x \in VoxelsIn[c] <=> c \in Above[x]
<1>1. \E x \in Cells : Level[x] = 0 /\ c \in Above[x]
  BY CellsNested
<1> QED
  BY <1>1 DEF VoxelsIn, Voxels

\* A node whose voxels all hold the same becomes a tile that holds it too.
LEMMA PruneLemma ==
    ASSUME NEW T, WellFormed(T), mBackground \in Values
    PROVE  /\ WellFormed(Prune(T))
           /\ \A x \in Voxels : Stored(Prune(T), x) = Stored(T, x)
<1> DEFINE N == {c \in Cells : /\ IsChild(T, c)
                               /\ \A x, y \in VoxelsIn[c] : Stored(T, x) = Stored(T, y)}
           U == [c \in DOMAIN T \ UNION {Below[d] : d \in N} |->
                   IF c \in N THEN Stored(T, CHOOSE x \in VoxelsIn[c] : TRUE) ELSE T[c]]
<1>1. N \in SUBSET Cells /\ DOMAIN T \in SUBSET Cells
  BY DEF WellFormed
<1>2. ASSUME NEW c \in N
      PROVE  /\ Stored(T, CHOOSE x \in VoxelsIn[c] : TRUE) \in Tile
             /\ \A x \in VoxelsIn[c] : Stored(T, x) = Stored(T, CHOOSE y \in VoxelsIn[c] : TRUE)
  <2>1. c \in Cells /\ \A x, y \in VoxelsIn[c] : Stored(T, x) = Stored(T, y)
    OBVIOUS
  <2>2. (CHOOSE x \in VoxelsIn[c] : TRUE) \in VoxelsIn[c]
    BY <2>1, VoxelInside
  <2>3. (CHOOSE x \in VoxelsIn[c] : TRUE) \in Cells
    BY <2>1, <2>2, VoxelInside DEF Voxels
  <2> QED
    BY <2>1, <2>2, <2>3, StoredType
<1> HIDE DEF N
<1>3. DOMAIN U = {c \in DOMAIN T : Parents[c] \intersect N = {}}
  BY <1>1, NotBelow
<1>4. \A c \in DOMAIN U : U[c] = IF c \in N THEN Stored(T, CHOOSE x \in VoxelsIn[c] : TRUE) ELSE T[c]
  OBVIOUS
<1> HIDE DEF U
<1>5. MergedAt(T, N, U)
  BY <1>1, <1>2, <1>3, <1>4 DEF MergedAt
<1>6. WellFormed(U)
  BY <1>5, MergedShape
<1>7. ASSUME NEW x \in Voxels PROVE Stored(U, x) = Stored(T, x)
  <2>1. CASE \E d \in Above[x] \intersect N : d \in DOMAIN U /\ Stored(U, x) = U[d]
    <3>1. PICK d \in Above[x] \intersect N : d \in DOMAIN U /\ Stored(U, x) = U[d]
      BY <2>1
    <3>2. x \in VoxelsIn[d]
      BY <1>1, <3>1, VoxelInside
    <3> QED
      BY <1>2, <1>4, <3>1, <3>2
  <2> QED
    BY <1>5, <2>1, MergedContents
<1>8. WellFormed(EraseBackgroundTiles(U)) /\ \A x \in Voxels : Stored(EraseBackgroundTiles(U), x) = Stored(T, x)
  BY <1>6, <1>7, EraseBackgroundLemma
<1>9. Prune(T) = EraseBackgroundTiles(U)
  BY DEF Prune, U, N
<1> QED
  BY <1>8, <1>9

\* An empty entry of the root table says what its absence says.
LEMMA ExpandLemma ==
    ASSUME NEW T, WellFormed(T), mBackground \in Values, NEW k \in Keys
    PROVE  /\ WellFormed(Expand(T, k))
           /\ \A x \in Voxels : Stored(Expand(T, k), x) = Stored(T, x)
<1> DEFINE U == Expand(T, k)
<1>1. /\ DOMAIN U = DOMAIN T \union {k}
      /\ \A c \in DOMAIN T : U[c] = T[c]
      /\ k \notin DOMAIN T => U[k] = BackgroundTile
  BY DEF Expand
<1> HIDE DEF U
<1>2. k \in Cells /\ Level[k] = RootLevel /\ k = KeyOf[k]
  BY KeyFacts, Chain DEF Keys
<1>3. WellFormed(U)
  <2>1. ASSUME NEW c \in DOMAIN U PROVE c \in Cells /\ U[c] \in Tile \union {Child}
    BY <1>1, <1>2, Shape, BackgroundTyped
  <2>2. ASSUME NEW c \in DOMAIN U, NEW d \in Parents[c] PROVE IsChild(U, d)
    <3>1. c \in DOMAIN T
      BY <1>1, <1>2, KeyFacts
    <3> QED
      BY <1>1, <3>1, Shape DEF IsChild
  <2>3. ASSUME NEW c \in DOMAIN U, U[c] = Child
        PROVE  Level[c] > 0 /\ Slots[c] \subseteq DOMAIN U
    <3>1. c \in DOMAIN T /\ T[c] = Child
      BY <1>1, <2>3, BackgroundTyped
    <3> QED
      BY <1>1, <3>1, Shape
  <2> QED
    BY <2>1, <2>2, <2>3 DEF WellFormed
<1>4. ASSUME NEW x \in Voxels PROVE Stored(U, x) = Stored(T, x)
  <2>1. x \in Cells
    BY DEF Voxels
  <2>2. CASE \E d \in Above[x] : IsTile(T, d)
    <3>1. PICK d \in Above[x] : IsTile(T, d)
      BY <2>2
    <3>2. IsTile(U, d) /\ U[d] = T[d]
      BY <1>1, <3>1 DEF IsTile
    <3> QED
      BY <1>3, <2>1, <3>1, <3>2, StoredTile
  <2>3. CASE \A d \in Above[x] : ~ IsTile(T, d)
    <3>1. CASE \E d \in Above[x] : IsTile(U, d)
      <4>1. PICK d \in Above[x] : IsTile(U, d)
        BY <3>1
      <4>2. U[d] = BackgroundTile
        BY <1>1, <2>3, <4>1 DEF IsTile
      <4> QED
        BY <1>3, <2>1, <2>3, <4>1, <4>2, StoredTile, StoredNone
    <3>2. CASE \A d \in Above[x] : ~ IsTile(U, d)
      BY <2>3, <3>2, StoredNone
    <3> QED
      BY <3>1, <3>2
  <2> QED
    BY <2>2, <2>3
<1> QED
  BY <1>3, <1>4 DEF U

\* A change of the tiles in place keeps the shape, and shows in the voxels.
LEMMA RetileLemma ==
    ASSUME NEW T, WellFormed(T), NEW U, DOMAIN U = DOMAIN T,
           \A c \in DOMAIN T : /\ T[c] = Child => U[c] = Child
                               /\ T[c] # Child => U[c] \in Tile
    PROVE  /\ WellFormed(U)
           /\ \A x \in Voxels : \/ \E d \in Above[x] : /\ IsTile(T, d)
                                                       /\ Stored(T, x) = T[d]
                                                       /\ Stored(U, x) = U[d]
                                \/ /\ \A d \in Above[x] : d \notin DOMAIN T
                                   /\ Stored(T, x) = BackgroundTile
                                   /\ Stored(U, x) = BackgroundTile
<1>1. \A c \in DOMAIN U : U[c] = Child <=> T[c] = Child
  BY ContentsTyped
<1>2. WellFormed(U)
  BY <1>1 DEF WellFormed, IsChild
<1>3. ASSUME NEW x \in Voxels
      PROVE  \/ \E d \in Above[x] : IsTile(T, d) /\ Stored(T, x) = T[d] /\ Stored(U, x) = U[d]
             \/ /\ \A d \in Above[x] : d \notin DOMAIN T
                /\ Stored(T, x) = BackgroundTile /\ Stored(U, x) = BackgroundTile
  <2>1. \A d \in Above[x] : IsTile(U, d) <=> IsTile(T, d)
    BY <1>1 DEF IsTile
  <2>2. x \in Cells
    BY DEF Voxels
  <2>3. CASE \E d \in Above[x] : IsTile(T, d)
    BY <1>2, <2>1, <2>2, <2>3, StoredTile
  <2>4. CASE \A d \in Above[x] : ~ IsTile(T, d)
    BY <2>1, <2>4, StoredNone, TileExists
  <2> QED
    BY <2>3, <2>4
<1> QED
  BY <1>2, <1>3

-------------------------------------------------------------------------------
(* Operations on boxes.                                                    *)

\* The chunks of a box cover the voxels of the box and no others.
LEMMA ChunksLemma ==
    ASSUME NEW B \in SUBSET Voxels
    PROVE  /\ Chunks(B) \in SUBSET Cells
           /\ \A c \in Chunks(B) : VoxelsIn[c] \subseteq B
           /\ \A x \in Voxels : Above[x] \intersect Chunks(B) # {} <=> x \in B
<1>1. Chunks(B) \in SUBSET Cells /\ \A c \in Chunks(B) : VoxelsIn[c] \subseteq B
  BY DEF Chunks
<1>2. ASSUME NEW x \in Voxels, NEW c \in Above[x], c \in Chunks(B) PROVE x \in B
  BY <1>1, <1>2, VoxelInside
<1>3. ASSUME NEW x \in B PROVE \E c \in Above[x] : c \in Chunks(B)
  <2> DEFINE S == {c \in Above[x] : VoxelsIn[c] \subseteq B}
  <2>1. x \in Voxels /\ x \in Cells /\ x \in Above[x]
    BY Chain DEF Voxels
  <2>2. VoxelsIn[x] \subseteq B
    BY <2>1, OneVoxel, VoxelInside
  <2>3. PICK c \in S : Parents[c] \intersect S = {}
    <3>1. S \in SUBSET Above[x] /\ S # {}
      BY <2>1, <2>2
    <3> QED
      BY <2>1, <3>1, Topmost
  <2>4. c \in Cells /\ Parents[c] \subseteq Above[x]
    BY <2>1, Chain
  <2>5. c \in Chunks(B)
    BY <2>3, <2>4 DEF Chunks
  <2> QED
    BY <2>5
<1> QED
  BY <1>1, <1>2, <1>3

LEMMA FillLemma ==
    ASSUME NEW T, WellFormed(T), mBackground \in Values,
           NEW B \in Regions, NEW t \in Tile
    PROVE  /\ WellFormed(SparseFill(T, B, t)) /\ WellFormed(DenseFill(T, B, t))
           /\ \A x \in Voxels :
                 /\ Stored(SparseFill(T, B, t), x) = IF x \in B THEN t ELSE Stored(T, x)
                 /\ Stored(DenseFill(T, B, t), x) = IF x \in B THEN t ELSE Stored(T, x)
<1>1. B \in SUBSET Voxels /\ B \in SUBSET Cells
  BY RegionsAreVoxels DEF Voxels
<1>2. WellFormed(SparseFill(T, B, t))
  BY <1>1, ChunksLemma, PutLemma DEF SparseFill
<1>3. ASSUME NEW x \in Voxels PROVE Stored(SparseFill(T, B, t), x) = IF x \in B THEN t ELSE Stored(T, x)
  <2>1. Stored(Put(T, Chunks(B), t), x) = IF Above[x] \intersect Chunks(B) # {} THEN t ELSE Stored(T, x)
    BY <1>1, ChunksLemma, PutLemma
  <2> QED
    BY <1>1, <2>1, ChunksLemma DEF SparseFill
<1>4. WellFormed(Put(T, B, t))
  BY <1>1, PutLemma
<1>5. ASSUME NEW x \in Voxels PROVE Stored(Put(T, B, t), x) = IF x \in B THEN t ELSE Stored(T, x)
  <2>1. Stored(Put(T, B, t), x) = IF Above[x] \intersect B # {} THEN t ELSE Stored(T, x)
    BY <1>1, PutLemma
  <2>2. Above[x] \intersect B # {} <=> x \in B
    BY <1>1, OneVoxel, Chain DEF Voxels
  <2> QED
    BY <2>1, <2>2
<1> DEFINE S == SparseFill(T, B, t)
<1>6. WellFormed(VoxelizeActiveTiles(S)) /\ \A x \in Voxels : Stored(VoxelizeActiveTiles(S), x) = Stored(S, x)
  <2>1. {x \in Voxels : Stored(S, x).active} \in SUBSET Cells
    BY DEF Voxels
  <2> QED
    BY <1>2, <2>1, ReachShape, ReachContents DEF VoxelizeActiveTiles
<1> QED
  BY <1>2, <1>3, <1>4, <1>5, <1>6 DEF DenseFill

LEMMA VoxelizeLemma ==
    ASSUME NEW T, WellFormed(T), mBackground \in Values
    PROVE  /\ WellFormed(VoxelizeActiveTiles(T))
           /\ \A x \in Voxels : /\ Stored(VoxelizeActiveTiles(T), x) = Stored(T, x)
                                /\ Stored(T, x).active => x \in DOMAIN VoxelizeActiveTiles(T)
<1> DEFINE P == {x \in Voxels : Stored(T, x).active}
<1>1. P \in SUBSET Cells
  BY DEF Voxels
<1>2. \A x \in Voxels : Stored(T, x).active => x \in P
  OBVIOUS
<1> HIDE DEF P
<1>3. WellFormed(Reach(T, P)) /\ \A x \in Voxels : Stored(Reach(T, P), x) = Stored(T, x)
  BY <1>1, ReachShape, ReachContents
<1>4. \A x \in P : x \in DOMAIN Reach(T, P)
  BY <1>1, ReachDomain
<1>5. VoxelizeActiveTiles(T) = Reach(T, P)
  BY DEF VoxelizeActiveTiles, P
<1> QED
  BY <1>2, <1>3, <1>4, <1>5

\* After clip() has split the tiles, no tile sits astride the boundary of the box.
LEMMA NoTileAstride ==
    ASSUME NEW T, WellFormed(T), mBackground \in Values, NEW B \in Regions,
           NEW x \in Voxels, x \notin B, NEW e \in Above[x],
           IsTile(Reach(T, Inside(T, B)), e)
    PROVE  VoxelsIn[e] \intersect B = {}
<1> DEFINE P == Inside(T, B)
           R == Reach(T, P)
<1>1. B \in SUBSET Voxels /\ x \in Cells
  BY RegionsAreVoxels DEF Voxels
<1>2. \A f \in Cut(T, B) : /\ f \in Cells /\ IsTile(T, f) /\ ~ VoxelsIn[f] \subseteq B
                           /\ VoxelsIn[f] \intersect B \in SUBSET Voxels
  BY <1>1 DEF Cut
<1>3. \A p \in P : \E f \in Cut(T, B) : p \in Chunks(VoxelsIn[f] \intersect B)
  BY DEF Inside
<1>4. ASSUME NEW f \in Cut(T, B), NEW p \in Chunks(VoxelsIn[f] \intersect B) PROVE p \in P
  <2>1. Chunks(VoxelsIn[f] \intersect B) \in {Chunks(VoxelsIn[c] \intersect B) : c \in Cut(T, B)}
    OBVIOUS
  <2> QED
    BY <2>1 DEF Inside
<1>5. \A p \in P : p \in Cells
  BY <1>2, <1>3, ChunksLemma
<1> HIDE DEF P, R
<1>6. e \in DOMAIN R /\ R[e] # Child /\ e \in Cells
  BY <1>1, Chain DEF IsTile, R, P
<1>7. e \notin Opened(P)
  BY <1>5, <1>6, ReachDomain DEF R
<1> SUFFICES ASSUME NEW y \in VoxelsIn[e], y \in B PROVE FALSE
  OBVIOUS
<1>8. y \in Voxels /\ y \in Cells /\ e \in Above[y] /\ x \in VoxelsIn[e]
  BY <1>6, VoxelInside DEF Voxels
<1>9. \E f \in Cut(T, B) : f \in Above[e]
  <2>1. CASE e \in DOMAIN T
    <3>1. T[e] = R[e]
      BY <1>5, <1>7, <2>1, ReachDomain DEF R
    <3>2. e \in Cut(T, B)
      BY <1>6, <1>8, <2>1, <3>1 DEF Cut, IsTile
    <3> QED
      BY <1>6, <3>2, Chain
  <2>2. CASE e \notin DOMAIN T
    <3>1. \/ \E q \in Opened(P) : e \in Slots[q]
          \/ \E p \in P : e = KeyOf[p]
      BY <1>5, <1>6, <2>2, ReachDomain DEF R
    <3>2. PICK p \in P : \/ \E q \in Parents[p] : e \in Slots[q]
                         \/ e = KeyOf[p]
      BY <3>1 DEF Opened
    <3>3. PICK f \in Cut(T, B) : p \in Chunks(VoxelsIn[f] \intersect B)
      BY <1>3
    <3>4. f \in Cells /\ p \in Cells /\ VoxelsIn[p] \subseteq VoxelsIn[f] \intersect B /\ ~ VoxelsIn[f] \subseteq B
      BY <1>2, <1>5, <3>3, ChunksLemma
    <3>5. f \in Parents[p]
      <4>1. PICK z \in VoxelsIn[p] : TRUE
        BY <3>4, VoxelInside
      <4>2. z \in Voxels /\ z \in Cells /\ p \in Above[z] /\ f \in Above[z]
        BY <3>4, <4>1, VoxelInside DEF Voxels
      <4>3. p = f \/ p \in Parents[f] \/ f \in Parents[p]
        BY <4>2, Chain
      <4>4. p \in Above[f] => VoxelsIn[f] \subseteq VoxelsIn[p]
        <5> SUFFICES ASSUME p \in Above[f], NEW w \in VoxelsIn[f] PROVE w \in VoxelsIn[p]
          OBVIOUS
        <5>1. w \in Voxels /\ w \in Cells /\ f \in Above[w]
          BY <3>4, VoxelInside DEF Voxels
        <5>2. p \in Above[w]
          BY <5>1, Chain
        <5> QED
          BY <3>4, <5>1, <5>2, VoxelInside
      <4> QED
        BY <3>4, <4>3, <4>4, Chain
    <3>6. f \in DOMAIN T /\ \A d \in Parents[f] : d \in DOMAIN T /\ T[d] = Child /\ Slots[d] \subseteq DOMAIN T
      BY <1>2, Shape DEF IsTile
    <3>7. CASE e = KeyOf[p]
      <4>1. f \in Above[p]
        BY <3>4, <3>5, Chain
      <4>2. e \in Above[p] /\ Level[e] = RootLevel /\ Parents[e] = {}
        BY <3>4, <3>7, KeyFacts
      <4>3. f = e \/ e \in Parents[f]
        BY <3>4, <4>1, <4>2, Chain
      <4> QED
        BY <2>2, <3>6, <4>3
    <3>8. CASE \E q \in Parents[p] : e \in Slots[q]
      <4>1. PICK q \in Parents[p] : e \in Slots[q]
        BY <3>8
      <4>2. q \in Cells /\ q \in Above[p] /\ f \in Above[p]
        BY <3>4, <3>5, Chain
      <4>3. f = q \/ f \in Parents[q] \/ q \in Parents[f]
        BY <3>4, <4>2, Chain
      <4>4. q \notin Parents[f]
        BY <2>2, <3>6, <4>1
      <4>5. f \in Parents[e]
        BY <4>1, <4>2, <4>3, <4>4, SlotFacts
      <4> QED
        BY <1>6, <4>5, Chain
    <3> QED
      BY <3>2, <3>7, <3>8
  <2> QED
    BY <2>1, <2>2
<1>10. PICK f \in Cut(T, B) : f \in Above[e]
  BY <1>9
<1>11. f \in Above[y] /\ f \in Cells /\ y \in VoxelsIn[f] \intersect B
  <2>1. f \in Above[y] /\ f \in Cells
    BY <1>8, <1>10, Chain
  <2> QED
    BY <1>8, <2>1, VoxelInside
<1>12. PICK c \in Above[y] : c \in Chunks(VoxelsIn[f] \intersect B)
  BY <1>2, <1>8, <1>11, ChunksLemma
<1>13. c \in P /\ c \in Cells /\ VoxelsIn[c] \subseteq B
  BY <1>2, <1>4, <1>5, <1>12, ChunksLemma
<1>14. c = e \/ c \in Parents[e] \/ e \in Parents[c]
  BY <1>8, <1>12, Chain
<1>15. e \notin Parents[c]
  BY <1>7, <1>13 DEF Opened
<1>16. c \in Above[x]
  BY <1>1, <1>6, <1>14, <1>15, Chain
<1> QED
  BY <1>13, <1>16, VoxelInside

LEMMA ClipLemma ==
    ASSUME NEW T, WellFormed(T), mBackground \in Values, NEW B \in Regions
    PROVE  /\ WellFormed(Clip(T, B))
           /\ \A x \in Voxels : Stored(Clip(T, B), x) = IF x \in B THEN Stored(T, x) ELSE BackgroundTile
<1> DEFINE R == Reach(T, Inside(T, B))
           out == {c \in DOMAIN R : VoxelsIn[c] \intersect B = {}}
           S == SetTiles(R, out, BackgroundTile)
           E == EraseKeys(S, Keys \intersect out)
<1>1. B \in SUBSET Voxels
  BY RegionsAreVoxels DEF Voxels
<1>2. Inside(T, B) \in SUBSET Cells
  <2>1. \A f \in Cut(T, B) : VoxelsIn[f] \intersect B \in SUBSET Voxels
    BY <1>1
  <2>2. \A f \in Cut(T, B) : Chunks(VoxelsIn[f] \intersect B) \subseteq Cells
    BY <2>1, ChunksLemma
  <2> QED
    BY <2>2 DEF Inside
<1>3. WellFormed(R) /\ \A x \in Voxels : Stored(R, x) = Stored(T, x)
  BY <1>2, ReachShape, ReachContents
<1> HIDE DEF R
<1>4. out \in SUBSET Cells
  BY <1>3 DEF WellFormed
<1>5. MergedAt(R, out, S) /\ \A c \in DOMAIN S : c \in out => S[c] = BackgroundTile
  BY <1>3, <1>4, BackgroundTyped, SetTilesMerged
<1>6. \A c : c \in out <=> c \in DOMAIN R /\ VoxelsIn[c] \intersect B = {}
  OBVIOUS
<1> HIDE DEF out, S
<1>7. WellFormed(S)
  BY <1>5, MergedShape
<1>8. WellFormed(E) /\ \A x \in Voxels : Stored(E, x)
         = IF KeyOf[x] \in Keys \intersect out THEN BackgroundTile ELSE Stored(S, x)
  BY <1>7, EraseKeysLemma
<1> HIDE DEF E
<1>9. ASSUME NEW x \in Voxels
      PROVE  Stored(E, x) = IF x \in B THEN Stored(T, x) ELSE BackgroundTile
  <2>1. x \in Cells
    BY DEF Voxels
  <2>2. ASSUME NEW d \in Above[x], d \in out PROVE x \notin B
    <3>1. x \in VoxelsIn[d]
      BY <1>4, <2>2, VoxelInside
    <3> QED
      BY <1>6, <2>2, <3>1
  <2>3. KeyOf[x] \in Keys \intersect out => x \notin B
    BY <2>1, <2>2, KeyFacts
  <2>4. Stored(S, x) = IF x \in B THEN Stored(T, x) ELSE BackgroundTile
    <3>1. CASE \E d \in Above[x] \intersect out : d \in DOMAIN S /\ Stored(S, x) = S[d]
      BY <1>5, <2>2, <3>1
    <3>2. CASE /\ \A d \in Above[x] \intersect out : d \notin DOMAIN R
               /\ Stored(S, x) = Stored(R, x)
      <4>1. CASE x \in B
        BY <1>3, <3>2, <4>1
      <4>2. CASE x \notin B
        <5>1. ASSUME NEW e \in Above[x], IsTile(R, e) PROVE FALSE
          <6>1. VoxelsIn[e] \intersect B = {}
            BY <4>2, <5>1, NoTileAstride DEF R
          <6> QED
            BY <1>6, <3>2, <5>1, <6>1 DEF IsTile
        <5> QED
          BY <3>2, <4>2, <5>1, StoredNone
      <4> QED
        BY <4>1, <4>2
    <3> QED
      BY <1>5, <3>1, <3>2, MergedContents
  <2> QED
    BY <1>8, <2>3, <2>4
<1>10. WellFormed(Prune(E)) /\ \A x \in Voxels : Stored(Prune(E), x) = Stored(E, x)
  BY <1>8, PruneLemma
<1>11. Clip(T, B) = Prune(E)
  BY DEF Clip, E, S, out, R
<1> QED
  BY <1>9, <1>10, <1>11

-------------------------------------------------------------------------------
(* Operations on nodes.                                                    *)

LEMMA AddTileLemma ==
    ASSUME NEW T, WellFormed(T), mBackground \in Values, NEW c \in Cells, NEW t \in Tile
    PROVE  /\ WellFormed(AddTile(T, c, t)) /\ WellFormed(AddNode(T, c, t))
           /\ \A x \in Voxels :
                 /\ Stored(AddTile(T, c, t), x) = IF x \in VoxelsIn[c] THEN t ELSE Stored(T, x)
                 /\ Stored(AddNode(T, c, t), x) = IF x \in VoxelsIn[c] THEN t ELSE Stored(T, x)
<1> DEFINE U == Put(T, {c}, t)
<1>1. {c} \in SUBSET Cells /\ Slots[c] \in SUBSET Cells
  BY SlotFacts
<1>2. WellFormed(U)
  BY <1>1, PutLemma
<1>3. ASSUME NEW x \in Voxels PROVE Stored(U, x) = IF x \in VoxelsIn[c] THEN t ELSE Stored(T, x)
  <2>1. Stored(U, x) = IF Above[x] \intersect {c} # {} THEN t ELSE Stored(T, x)
    BY <1>1, PutLemma
  <2> QED
    BY <2>1, VoxelInside
<1> HIDE DEF U
<1>4. WellFormed(Reach(U, Slots[c])) /\ \A x \in Voxels : Stored(Reach(U, Slots[c]), x) = Stored(U, x)
  BY <1>1, <1>2, ReachShape, ReachContents
<1>5. AddTile(T, c, t) = U /\ AddNode(T, c, t) = Reach(U, Slots[c])
  BY DEF AddTile, AddNode, U
<1> QED
  BY <1>2, <1>3, <1>4, <1>5

LEMMA StealLemma ==
    ASSUME NEW T, WellFormed(T), NEW N \in SUBSET Nodes(T), NEW t \in Tile
    PROVE  /\ WellFormed(Steal(T, N, t))
           /\ \A x \in Voxels : Stored(Steal(T, N, t), x)
                 = IF Above[x] \intersect N # {} THEN t ELSE Stored(T, x)
<1> DEFINE U == Steal(T, N, t)
<1>1. N \in SUBSET Cells /\ \A c \in N : c \in DOMAIN T
  BY DEF Nodes, IsChild
<1>2. MergedAt(T, N, U) /\ \A c \in DOMAIN U : c \in N => U[c] = t
  BY <1>1, SetTilesMerged DEF Steal
<1> HIDE DEF U
<1>3. WellFormed(U)
  BY <1>2, MergedShape
<1>4. ASSUME NEW x \in Voxels PROVE Stored(U, x) = IF Above[x] \intersect N # {} THEN t ELSE Stored(T, x)
  BY <1>1, <1>2, MergedContents
<1> QED
  BY <1>3, <1>4 DEF U

\* An operation on the entries below a node changes the voxels below it.
LEMMA BelowLemma ==
    ASSUME NEW T, WellFormed(T), NEW c \in Nodes(T), NEW U,
           DOMAIN U = DOMAIN T,
           \A d \in DOMAIN T : /\ T[d] = Child => U[d] = Child
                               /\ T[d] # Child => U[d] \in Tile
                               /\ d \notin Below[c] => U[d] = T[d],
           NEW x \in Voxels
    PROVE  \/ x \notin VoxelsIn[c] /\ Stored(U, x) = Stored(T, x)
           \/ /\ x \in VoxelsIn[c]
              /\ \E d \in Below[c] : IsTile(T, d) /\ Stored(T, x) = T[d] /\ Stored(U, x) = U[d]
<1>1. c \in Cells /\ c \in DOMAIN T /\ T[c] = Child /\ x \in Cells
  BY DEF Nodes, IsChild, Voxels
<1>2. \A d \in Cells : d \in Below[c] <=> c \in Parents[d]
  BY <1>1 DEF Below
<1>3. \/ \E d \in Above[x] : /\ IsTile(T, d)
                             /\ Stored(T, x) = T[d]
                             /\ Stored(U, x) = U[d]
      \/ /\ \A d \in Above[x] : d \notin DOMAIN T
         /\ Stored(T, x) = BackgroundTile
         /\ Stored(U, x) = BackgroundTile
  BY RetileLemma
<1>4. x \in VoxelsIn[c] <=> c \in Above[x]
  BY <1>1, VoxelInside
<1>5. CASE \A d \in Above[x] : d \notin DOMAIN T
  BY <1>1, <1>3, <1>4, <1>5 DEF IsTile
<1>6. CASE \E d \in Above[x] : IsTile(T, d) /\ Stored(T, x) = T[d] /\ Stored(U, x) = U[d]
  <2>1. PICK d \in Above[x] : IsTile(T, d) /\ Stored(T, x) = T[d] /\ Stored(U, x) = U[d]
    BY <1>6
  <2>2. d \in Cells /\ d \in DOMAIN T /\ T[d] # Child
    BY <1>1, <2>1, Chain DEF IsTile
  <2>3. CASE c \in Above[x]
    <3>1. c = d \/ c \in Parents[d] \/ d \in Parents[c]
      BY <1>1, <2>3, Chain
    <3>2. d \notin Parents[c]
      BY <1>1, <2>2, Shape
    <3> QED
      BY <1>1, <1>2, <1>4, <2>1, <2>2, <2>3, <3>1, <3>2
  <2>4. CASE c \notin Above[x]
    <3>1. d \notin Below[c]
      BY <1>1, <1>2, <2>2, <2>4, Chain
    <3> QED
      BY <1>4, <2>1, <2>2, <2>4, <3>1
  <2> QED
    BY <2>3, <2>4
<1> QED
  BY <1>3, <1>5, <1>6

LEMMA NegateLemma ==
    ASSUME NEW T, WellFormed(T), NEW c \in Nodes(T)
    PROVE  /\ WellFormed(Negate(T, c)) /\ WellFormed(SetValuesOn(T, c))
           /\ \A x \in Voxels :
                 /\ Stored(Negate(T, c), x) = IF x \in VoxelsIn[c]
                                              THEN [Stored(T, x) EXCEPT !.value = - @]
                                              ELSE Stored(T, x)
                 /\ Stored(SetValuesOn(T, c), x) = IF x \in VoxelsIn[c]
                                                   THEN [Stored(T, x) EXCEPT !.active = TRUE]
                                                   ELSE Stored(T, x)
<1> DEFINE U == Negate(T, c)
           V == SetValuesOn(T, c)
<1>1. DOMAIN U = DOMAIN T /\ DOMAIN V = DOMAIN T
  BY DEF Negate, SetValuesOn
<1>2. ASSUME NEW d \in DOMAIN T
      PROVE  /\ U[d] = IF d \in Below[c] /\ IsTile(T, d) THEN [T[d] EXCEPT !.value = - @] ELSE T[d]
             /\ V[d] = IF d \in Below[c] /\ IsTile(T, d) THEN [T[d] EXCEPT !.active = TRUE] ELSE T[d]
  BY DEF Negate, SetValuesOn
<1> HIDE DEF U, V
<1>3. ASSUME NEW d \in DOMAIN T
      PROVE  /\ T[d] = Child => U[d] = Child /\ V[d] = Child
             /\ T[d] # Child => U[d] \in Tile /\ V[d] \in Tile
             /\ d \notin Below[c] => U[d] = T[d] /\ V[d] = T[d]
  <2>1. IsTile(T, d) <=> T[d] # Child
    BY Shape
  <2>2. IsTile(T, d) => T[d] \in Tile
    BY Shape
  <2>3. IsTile(T, d) => [T[d] EXCEPT !.value = - @] \in Tile /\ [T[d] EXCEPT !.active = TRUE] \in Tile
    BY <2>2, WrittenTyped
  <2> QED
    BY <1>2, <2>1, <2>2, <2>3
<1>4. WellFormed(U) /\ WellFormed(V)
  BY <1>1, <1>3, RetileLemma
<1>5. ASSUME NEW x \in Voxels
      PROVE  /\ Stored(U, x) = IF x \in VoxelsIn[c] THEN [Stored(T, x) EXCEPT !.value = - @] ELSE Stored(T, x)
             /\ Stored(V, x) = IF x \in VoxelsIn[c] THEN [Stored(T, x) EXCEPT !.active = TRUE] ELSE Stored(T, x)
  <2>1. \/ x \notin VoxelsIn[c] /\ Stored(U, x) = Stored(T, x)
        \/ /\ x \in VoxelsIn[c]
           /\ \E d \in Below[c] : IsTile(T, d) /\ Stored(T, x) = T[d] /\ Stored(U, x) = U[d]
    BY <1>1, <1>3, BelowLemma
  <2>2. \/ x \notin VoxelsIn[c] /\ Stored(V, x) = Stored(T, x)
        \/ /\ x \in VoxelsIn[c]
           /\ \E d \in Below[c] : IsTile(T, d) /\ Stored(T, x) = T[d] /\ Stored(V, x) = V[d]
    BY <1>1, <1>3, BelowLemma
  <2>3. Stored(U, x) = IF x \in VoxelsIn[c] THEN [Stored(T, x) EXCEPT !.value = - @] ELSE Stored(T, x)
    BY <1>2, <2>1 DEF IsTile
  <2>4. Stored(V, x) = IF x \in VoxelsIn[c] THEN [Stored(T, x) EXCEPT !.active = TRUE] ELSE Stored(T, x)
    BY <1>2, <2>2 DEF IsTile
  <2> QED
    BY <2>3, <2>4
<1> QED
  BY <1>4, <1>5 DEF U, V

LEMMA ResetLemma ==
    ASSUME NEW T, WellFormed(T), mBackground \in Values, NEW b \in Values
    PROVE  WellFormed(ResetBackground(T, b))
<1> DEFINE U == ResetBackground(T, b)
<1>1. DOMAIN U = DOMAIN T
  BY DEF ResetBackground
<1>2. \A c \in DOMAIN T : U[c] = IF T[c] = BackgroundTile THEN Off(b)
                                 ELSE IF T[c] = Off(- mBackground) THEN Off(- b) ELSE T[c]
  BY DEF ResetBackground
<1> HIDE DEF U
<1>3. - mBackground \in Values /\ - b \in Values
  BY OpsTyped
<1>4. /\ BackgroundTile \in Tile /\ BackgroundTile # Child
      /\ Off(- mBackground) \in Tile /\ Off(- mBackground) # Child
      /\ Off(b) \in Tile /\ Off(- b) \in Tile
  BY <1>3, OpsTyped, BackgroundTyped, ContentsTyped
<1>5. ASSUME NEW c \in DOMAIN T
      PROVE  /\ T[c] = Child => U[c] = Child
             /\ T[c] # Child => U[c] \in Tile
  BY <1>2, <1>4, Shape
<1>6. WellFormed(U)
  BY <1>1, <1>5, RetileLemma
<1> QED
  BY <1>6 DEF U

-------------------------------------------------------------------------------
(* Theorems.                                                               *)

LEMMA TypeInit == Init => TypeOK
<1>1. WellFormed(Empty)
  BY DEF WellFormed, Empty
<1> QED
  BY <1>1, ContentsTyped DEF Init, TypeOK

LEMMA TypeStep == TypeOK /\ [Next]_vars => TypeOK'
<1> SUFFICES ASSUME TypeOK, [Next]_vars PROVE TypeOK'
  OBVIOUS
<1>1. WellFormed(tree) /\ mBackground \in Values
  BY DEF TypeOK
<1>2. ASSUME NEW T, WellFormed(T), Step(T) PROVE TypeOK'
  BY <1>1, <1>2 DEF TypeOK, Step, WellFormed, IsChild
<1>3. CASE VoxelOp
  <2>1. PICK x \in Voxels :
            \/ \E v \in Values : \/ Step(SetValueOn(tree, x, v))
                                 \/ Step(SetValueOff(tree, x, v))
                                 \/ Step(SetValueOnly(tree, x, v))
            \/ \E on \in BOOLEAN : Step(SetActiveState(tree, x, on))
            \/ \E op \in ModifyOps : Step(ModifyValue(tree, x, op))
            \/ \E op \in StateOps : Step(ModifyValueAndActiveState(tree, x, op))
            \/ Step(TouchLeaf(tree, x))
    BY <1>3 DEF VoxelOp
  <2>2. \E T : WellFormed(T) /\ Step(T)
    BY <1>1, <2>1, VoxelOpsShape
  <2> QED
    BY <1>2, <2>2
<1>4. CASE BoxOp
  <2>1. CASE \E B \in Regions, t \in Tile : Step(SparseFill(tree, B, t)) \/ Step(DenseFill(tree, B, t))
    BY <1>1, <1>2, <2>1, FillLemma
  <2>2. CASE \E B \in Regions : Step(Clip(tree, B))
    BY <1>1, <1>2, <2>2, ClipLemma
  <2>3. CASE Step(VoxelizeActiveTiles(tree))
    BY <1>1, <1>2, <2>3, VoxelizeLemma
  <2>4. CASE Step(Prune(tree))
    BY <1>1, <1>2, <2>4, PruneLemma
  <2> QED
    BY <1>4, <2>1, <2>2, <2>3, <2>4 DEF BoxOp
<1>5. CASE NodeOp
  <2>1. CASE \E c \in Cells, t \in Tile : Step(AddTile(tree, c, t))
    BY <1>1, <1>2, <2>1, AddTileLemma
  <2>2. CASE \E c \in Addable(tree), t \in Tile : Step(AddNode(tree, c, t))
    BY <1>1, <1>2, <2>2, AddTileLemma DEF Addable
  <2>3. CASE \E c \in Nodes(tree), t \in Tile : Step(Steal(tree, {c}, t))
    BY <1>1, <1>2, <2>3, StealLemma
  <2>4. CASE \E l \in 1 .. RootLevel, t \in Tile :
                 Step(Steal(tree, {c \in Nodes(tree) : Level[c] = l}, t))
    <3>1. PICK l \in 1 .. RootLevel, t \in Tile :
                 Step(Steal(tree, {c \in Nodes(tree) : Level[c] = l}, t))
      BY <2>4
    <3>2. {c \in Nodes(tree) : Level[c] = l} \in SUBSET Nodes(tree)
      OBVIOUS
    <3>3. WellFormed(Steal(tree, {c \in Nodes(tree) : Level[c] = l}, t))
      BY <1>1, <3>2, StealLemma
    <3> QED
      BY <1>2, <3>1, <3>3
  <2>5. CASE \E c \in Nodes(tree) : Step(Negate(tree, c)) \/ Step(SetValuesOn(tree, c))
    BY <1>1, <1>2, <2>5, NegateLemma
  <2> QED
    BY <1>5, <2>1, <2>2, <2>3, <2>4, <2>5 DEF NodeOp
<1>6. CASE RootOp
  <2>1. CASE Step(Empty)
    <3>1. WellFormed(Empty)
      BY DEF WellFormed, Empty
    <3> QED
      BY <1>2, <2>1, <3>1
  <2>2. CASE Step(EraseBackgroundTiles(tree))
    BY <1>1, <1>2, <2>2, EraseBackgroundLemma
  <2>3. CASE \E k \in Keys : Step(Expand(tree, k))
    BY <1>1, <1>2, <2>3, ExpandLemma
  <2>4. CASE \E k \in Keys : Step(DeleteChildOrTile(tree, k))
    <3>1. PICK k \in Keys : Step(EraseKeys(tree, {k}))
      BY <2>4 DEF DeleteChildOrTile
    <3>2. WellFormed(EraseKeys(tree, {k}))
      BY <1>1, EraseKeysLemma
    <3> QED
      BY <1>2, <3>1, <3>2
  <2> QED
    BY <1>6, <2>1, <2>2, <2>3, <2>4 DEF RootOp
<1>7. CASE \E b \in Values, update \in BOOLEAN : SetBackground(b, update)
  <2>1. PICK b \in Values, update \in BOOLEAN : SetBackground(b, update)
    BY <1>7
  <2>2. WellFormed(tree') /\ mBackground' \in Values
    BY <1>1, <2>1, ResetLemma DEF SetBackground
  <2> QED
    BY <2>2 DEF TypeOK, WellFormed, IsChild
<1>8. CASE UNCHANGED vars
  BY <1>1, <1>8 DEF vars, TypeOK, WellFormed, IsChild
<1> QED
  BY <1>3, <1>4, <1>5, <1>6, <1>7, <1>8 DEF Next

\* No sequence of operations leaves a tree that is not a tree: a child entry
\* without its node, entries below a tile, a node that lacks entries.
THEOREM TypeCorrect == Spec => []TypeOK
<1>1. Init => TypeOK
  BY TypeInit
<1>2. TypeOK /\ [Next]_vars => TypeOK'
  BY TypeStep
<1> QED
  BY <1>1, <1>2, PTL DEF Spec

\* In every reachable tree, touchLeaf, voxelizeActiveTiles, prune,
\* eraseBackgroundTiles and expand change no voxel.
THEOREM Transparent == Spec => []StorageIsTransparent
<1>1. TypeOK => StorageIsTransparent
  <2> SUFFICES ASSUME TypeOK PROVE StorageIsTransparent
    OBVIOUS
  <2>1. WellFormed(tree) /\ mBackground \in Values
    BY DEF TypeOK
  <2>2. \A U : (\A x \in Voxels : Stored(U, x) = Stored(tree, x)) => Contents(U) = Map
    BY DEF Map, Contents
  <2>3. ASSUME NEW x \in Voxels PROVE Contents(TouchLeaf(tree, x)) = Map
    <3>1. {x} \in SUBSET Cells
      BY DEF Voxels
    <3>2. \A y \in Voxels : Stored(TouchLeaf(tree, x), y) = Stored(tree, y)
      BY <2>1, <3>1, ReachContents DEF TouchLeaf
    <3> QED
      BY <2>2, <3>2
  <2>4. Contents(VoxelizeActiveTiles(tree)) = Map
    BY <2>1, <2>2, VoxelizeLemma
  <2>5. Contents(Prune(tree)) = Map
    BY <2>1, <2>2, PruneLemma
  <2>6. Contents(EraseBackgroundTiles(tree)) = Map
    BY <2>1, <2>2, EraseBackgroundLemma
  <2>7. \A k \in Keys : Contents(Expand(tree, k)) = Map
    BY <2>1, <2>2, ExpandLemma
  <2> QED
    BY <2>3, <2>4, <2>5, <2>6, <2>7 DEF StorageIsTransparent
<1> QED
  BY <1>1, TypeCorrect, PTL

\* In every reachable tree an operation on a voxel changes that voxel as it says
\* and no other.
THEOREM VoxelOpsCorrect == Spec => []VoxelOpsMeetContract
<1>1. TypeOK => VoxelOpsMeetContract
  BY VoxelOpsContents DEF TypeOK
<1> QED
  BY <1>1, TypeCorrect, PTL

\* In every reachable tree fill, denseFill and clip change the voxels of the box,
\* or the others, as they say.
THEOREM BoxOpsCorrect == Spec => []BoxOpsMeetContract
<1>1. TypeOK => BoxOpsMeetContract
  <2> SUFFICES ASSUME TypeOK, NEW B \in Regions
      PROVE  /\ \A t \in Tile : /\ Contents(SparseFill(tree, B, t)) = Filled(B, t)
                                /\ Contents(DenseFill(tree, B, t)) = Filled(B, t)
             /\ Contents(Clip(tree, B)) = Filled(Voxels \ B, BackgroundTile)
    BY DEF BoxOpsMeetContract
  <2>1. WellFormed(tree) /\ mBackground \in Values /\ \A x \in Voxels : Map[x] = Stored(tree, x)
    BY DEF TypeOK, Map, Contents
  <2>2. ASSUME NEW t \in Tile
        PROVE  /\ Contents(SparseFill(tree, B, t)) = Filled(B, t)
               /\ Contents(DenseFill(tree, B, t)) = Filled(B, t)
    <3>1. \A x \in Voxels : /\ Stored(SparseFill(tree, B, t), x) = IF x \in B THEN t ELSE Map[x]
                            /\ Stored(DenseFill(tree, B, t), x) = IF x \in B THEN t ELSE Map[x]
      BY <2>1, FillLemma
    <3> QED
      BY <3>1 DEF Contents, Filled, Changed
  <2>3. Contents(Clip(tree, B)) = Filled(Voxels \ B, BackgroundTile)
    <3>1. \A x \in Voxels : Stored(Clip(tree, B), x)
             = IF x \in Voxels \ B THEN BackgroundTile ELSE Map[x]
      BY <2>1, ClipLemma
    <3> QED
      BY <3>1 DEF Contents, Filled, Changed
  <2> QED
    BY <2>2, <2>3
<1> QED
  BY <1>1, TypeCorrect, PTL

\* In every reachable tree denseFill and voxelizeActiveTiles leave the voxels
\* they are for in leaf nodes.
THEOREM DenseFillCorrect == Spec => []DenseIsDense
<1>1. TypeOK => DenseIsDense
  <2> SUFFICES ASSUME TypeOK PROVE DenseIsDense
    OBVIOUS
  <2>1. WellFormed(tree) /\ mBackground \in Values /\ \A x \in Voxels : Map[x] = Stored(tree, x)
    BY DEF TypeOK, Map, Contents
  <2>2. \A x \in Voxels : Map[x].active => x \in DOMAIN VoxelizeActiveTiles(tree)
    BY <2>1, VoxelizeLemma
  <2>3. ASSUME NEW B \in Regions, NEW t \in Tile, NEW x \in B
        PROVE  x \in DOMAIN DenseFill(tree, B, t)
    <3>1. B \in SUBSET Voxels /\ B \in SUBSET Cells /\ x \in Voxels
      BY RegionsAreVoxels DEF Voxels
    <3>2. CASE t.active /\ tree = Empty
      <4>1. WellFormed(SparseFill(tree, B, t)) /\ Stored(SparseFill(tree, B, t), x) = t
        BY <2>1, <3>1, FillLemma
      <4>2. x \in DOMAIN VoxelizeActiveTiles(SparseFill(tree, B, t))
        BY <2>1, <3>1, <3>2, <4>1, VoxelizeLemma
      <4> QED
        BY <3>2, <4>2 DEF DenseFill
    <3>3. CASE ~ (t.active /\ tree = Empty)
      <4>1. x \in DOMAIN Reach(tree, B)
        BY <3>1, ReachDomain
      <4>2. \A b \in B : x \notin Below[b]
        BY <3>1, OneVoxel, Chain DEF Below, Voxels
      <4>3. x \notin UNION {Below[b] : b \in B}
        BY <4>2
      <4>4. x \in DOMAIN Put(tree, B, t)
        BY <4>1, <4>3 DEF Put, SetTiles
      <4> QED
        BY <3>3, <4>4 DEF DenseFill
    <3> QED
      BY <3>2, <3>3
  <2> QED
    BY <2>2, <2>3 DEF DenseIsDense
<1> QED
  BY <1>1, TypeCorrect, PTL

\* In every reachable tree an operation on a node changes what lies in its cell as
\* it says, and nothing else.
THEOREM NodeOpsCorrect == Spec => []NodeOpsMeetContract
<1>1. TypeOK => NodeOpsMeetContract
  <2> SUFFICES ASSUME TypeOK, NEW c \in Cells
      PROVE  /\ \A t \in Tile :
                  /\ Contents(AddTile(tree, c, t)) = Filled(VoxelsIn[c], t)
                  /\ c \in Addable(tree) => Contents(AddNode(tree, c, t)) = Filled(VoxelsIn[c], t)
                  /\ c \in Nodes(tree) => Contents(Steal(tree, {c}, t)) = Filled(VoxelsIn[c], t)
             /\ c \in Keys =>
                  Contents(DeleteChildOrTile(tree, c)) = Filled(VoxelsIn[c], BackgroundTile)
             /\ c \in Nodes(tree) =>
                  /\ Contents(Negate(tree, c))
                       = Changed(VoxelsIn[c], LAMBDA old : [old EXCEPT !.value = - @])
                  /\ Contents(SetValuesOn(tree, c))
                       = Changed(VoxelsIn[c], LAMBDA old : [old EXCEPT !.active = TRUE])
    BY DEF NodeOpsMeetContract
  <2>1. WellFormed(tree) /\ mBackground \in Values /\ \A x \in Voxels : Map[x] = Stored(tree, x)
    BY DEF TypeOK, Map, Contents
  <2>2. ASSUME NEW U, NEW t,
               \A x \in Voxels : Stored(U, x) = IF x \in VoxelsIn[c] THEN t ELSE Map[x]
        PROVE  Contents(U) = Filled(VoxelsIn[c], t)
    BY <2>2 DEF Contents, Filled, Changed
  <2>3. ASSUME NEW t \in Tile
        PROVE  /\ Contents(AddTile(tree, c, t)) = Filled(VoxelsIn[c], t)
               /\ Contents(AddNode(tree, c, t)) = Filled(VoxelsIn[c], t)
    <3>1. \A x \in Voxels : /\ Stored(AddTile(tree, c, t), x) = IF x \in VoxelsIn[c] THEN t ELSE Map[x]
                            /\ Stored(AddNode(tree, c, t), x) = IF x \in VoxelsIn[c] THEN t ELSE Map[x]
      BY <2>1, AddTileLemma
    <3> QED
      BY <2>2, <3>1
  <2>4. ASSUME NEW t \in Tile, c \in Nodes(tree)
        PROVE  Contents(Steal(tree, {c}, t)) = Filled(VoxelsIn[c], t)
    <3>1. {c} \in SUBSET Nodes(tree)
      BY <2>4
    <3>2. ASSUME NEW x \in Voxels
          PROVE  Stored(Steal(tree, {c}, t), x) = IF x \in VoxelsIn[c] THEN t ELSE Map[x]
      <4>1. Stored(Steal(tree, {c}, t), x) = IF Above[x] \intersect {c} # {} THEN t ELSE Stored(tree, x)
        BY <2>1, <3>1, StealLemma
      <4> QED
        BY <2>1, <4>1, VoxelInside
    <3> QED
      BY <2>2, <3>2
  <2>5. ASSUME c \in Keys
        PROVE  Contents(DeleteChildOrTile(tree, c)) = Filled(VoxelsIn[c], BackgroundTile)
    <3>1. ASSUME NEW x \in Voxels
          PROVE  Stored(EraseKeys(tree, {c}), x) = IF x \in VoxelsIn[c] THEN BackgroundTile ELSE Map[x]
      <4>1. Stored(EraseKeys(tree, {c}), x) = IF KeyOf[x] \in {c} THEN BackgroundTile ELSE Stored(tree, x)
        BY <2>1, <2>5, EraseKeysLemma
      <4>2. c \in Above[x] <=> KeyOf[x] = c
        BY <2>5, KeyFacts DEF Keys, Voxels
      <4> QED
        BY <2>1, <4>1, <4>2, VoxelInside
    <3> QED
      BY <2>2, <3>1 DEF DeleteChildOrTile
  <2>6. ASSUME c \in Nodes(tree)
        PROVE  /\ Contents(Negate(tree, c))
                    = Changed(VoxelsIn[c], LAMBDA old : [old EXCEPT !.value = - @])
               /\ Contents(SetValuesOn(tree, c))
                    = Changed(VoxelsIn[c], LAMBDA old : [old EXCEPT !.active = TRUE])
    <3>1. \A x \in Voxels :
             /\ Stored(Negate(tree, c), x) = IF x \in VoxelsIn[c]
                                             THEN [Map[x] EXCEPT !.value = - @] ELSE Map[x]
             /\ Stored(SetValuesOn(tree, c), x) = IF x \in VoxelsIn[c]
                                                  THEN [Map[x] EXCEPT !.active = TRUE] ELSE Map[x]
      BY <2>1, <2>6, NegateLemma
    <3> QED
      BY <3>1 DEF Contents, Changed
  <2> QED
    BY <2>3, <2>4, <2>5, <2>6
<1> QED
  BY <1>1, TypeCorrect, PTL

-------------------------------------------------------------------------------
(* Refinement: a tree is a map from voxels to values and active states.    *)

\* The contents of the tree that an operation leaves.
LEMMA MapStep ==
    ASSUME TypeOK, NEW T, WellFormed(T), Step(T)
    PROVE  /\ mBackground' = mBackground
           /\ Map' = [x \in Voxels |-> Map'[x]]
           /\ \A x \in Voxels : Map[x] = Stored(tree, x) /\ Map'[x] = Stored(T, x)
<1>1. tree' = T /\ mBackground' = mBackground
  BY DEF Step
<1>2. Map' = [x \in Voxels |-> Stored(T, x)]
  BY <1>1 DEF Map, Contents, Stored, IsTile, BackgroundTile
<1> QED
  BY <1>1, <1>2 DEF Map, Contents

\* A voxel that no key of the root table stands for is inactive background.
LEMMA NotInTable ==
    ASSUME TypeOK, NEW x \in Voxels \ InTable
    PROVE  Stored(tree, x) = BackgroundTile /\ \A d \in Above[x] : d \notin DOMAIN tree
<1>1. x \in Cells /\ WellFormed(tree) /\ KeyOf[x] \notin DOMAIN tree
  BY DEF TypeOK, InTable, Voxels
<1>2. ASSUME NEW d \in Above[x], d \in DOMAIN tree PROVE FALSE
  <2>1. d \in Cells /\ (d = KeyOf[x] \/ KeyOf[x] \in Parents[d])
    BY <1>1, <1>2, KeyFacts, Chain
  <2> QED
    BY <1>1, <1>2, <2>1 DEF WellFormed, IsChild
<1>3. Stored(tree, x) = BackgroundTile
  BY <1>1, <1>2, StoredNone DEF IsTile
<1> QED
  BY <1>2, <1>3

LEMMA UnstoredIsBackground ==
    TypeOK => /\ InTable \in SUBSET Voxels
              /\ \A x \in Voxels \ InTable : Map[x] = Promise!Off(mBackground)
  BY NotInTable DEF InTable, Map, Contents, BackgroundTile, Off, Promise!Off

LEMMA UnstoredAfter ==
    TypeOK' => /\ InTable' \in SUBSET Voxels
               /\ \A x \in Voxels \ InTable' : Map'[x] = Promise!Off(mBackground')
<1>1. TypeOK' => (/\ InTable \in SUBSET Voxels
                  /\ \A x \in Voxels \ InTable : Map[x] = Promise!Off(mBackground))'
  BY UnstoredIsBackground, PTL
<1> QED
  BY <1>1

\* An operation that changes the map as one of VoxelMap does is a step of VoxelMap.
LEMMA Framed ==
    ASSUME TypeOK, NEW T, WellFormed(T), Step(T),
           \/ Promise!Restructure \/ Promise!Clear \/ Promise!WriteVoxel
           \/ Promise!Negate \/ Promise!Activate
           \/ Promise!FillCubes \/ Promise!FillBox \/ Promise!Clip
    PROVE  Promise!Next
<1>1. TypeOK'
  BY DEF TypeOK, Step, WellFormed, IsChild
<1>2. mBackground' = mBackground
  BY DEF Step
<1>3. /\ InTable' \in SUBSET Voxels
      /\ \A x \in Voxels \ InTable' : Map'[x] = Promise!Off(mBackground')
  BY <1>1, UnstoredAfter
<1> QED
  BY <1>2, <1>3 DEF Promise!Next

\* A step that gives the voxels of S one content, and leaves the others.
LEMMA FillStep ==
    ASSUME TypeOK, NEW T, WellFormed(T), Step(T), NEW S, NEW t,
           \A x \in Voxels : Stored(T, x) = IF x \in S THEN t ELSE Stored(tree, x)
    PROVE  Map' = Promise!Filled(S, t)
<1>1. \A x \in Voxels : Map'[x] = IF x \in S THEN t ELSE Map[x]
  BY MapStep
<1>2. Map' = [x \in Voxels |-> Map'[x]]
  BY MapStep
<1> QED
  BY <1>1, <1>2 DEF Promise!Filled, Promise!Changed

\* A step that changes no voxel is one of VoxelMap.
LEMMA StoreStep ==
    ASSUME TypeOK, NEW T, WellFormed(T), Step(T),
           \A x \in Voxels : Stored(T, x) = Stored(tree, x)
    PROVE  Promise!Next
<1>1. Map' = [x \in Voxels |-> Map[x]]
  BY MapStep
<1>2. Promise!Restructure
  BY <1>1 DEF Promise!Restructure, Map, Contents
<1> QED
  BY <1>2, Framed

LEMMA ContentIsTile == Promise!Content = Tile
  BY DEF Promise!Content, Tile

\* A step that changes one voxel at most.
LEMMA VoxelStep ==
    ASSUME TypeOK, NEW T, WellFormed(T), Step(T), NEW x \in Voxels, NEW t \in Tile,
           \A y \in Voxels : Stored(T, y) = IF y = x THEN t ELSE Stored(tree, y)
    PROVE  Promise!Next
<1>1. Map' = Promise!Filled({x}, t)
  <2>1. \A y \in Voxels : Stored(T, y) = IF y \in {x} THEN t ELSE Stored(tree, y)
    OBVIOUS
  <2> QED
    BY <2>1, FillStep
<1>2. Promise!WriteVoxel
  BY <1>1, ContentIsTile DEF Promise!WriteVoxel
<1> QED
  BY <1>2, Framed

LEMMA VoxelOpRefines == TypeOK /\ VoxelOp => Promise!Next
<1> SUFFICES ASSUME TypeOK, VoxelOp PROVE Promise!Next
  OBVIOUS
<1>1. WellFormed(tree) /\ mBackground \in Values
  BY DEF TypeOK
<1>2. PICK x \in Voxels :
          \/ \E v \in Values : \/ Step(SetValueOn(tree, x, v))
                               \/ Step(SetValueOff(tree, x, v))
                               \/ Step(SetValueOnly(tree, x, v))
          \/ \E on \in BOOLEAN : Step(SetActiveState(tree, x, on))
          \/ \E op \in ModifyOps : Step(ModifyValue(tree, x, op))
          \/ \E op \in StateOps : Step(ModifyValueAndActiveState(tree, x, op))
          \/ Step(TouchLeaf(tree, x))
  BY DEF VoxelOp
<1>3. Stored(tree, x) \in Tile /\ {x} \in SUBSET Cells
  BY <1>1, StoredType DEF Voxels
<1>4. ASSUME NEW t \in Tile, Step(Write(tree, x, t)) PROVE Promise!Next
  <2>1. /\ WellFormed(Write(tree, x, t))
        /\ \A y \in Voxels : Stored(Write(tree, x, t), y) = IF y = x THEN t ELSE Stored(tree, y)
    BY <1>1, WriteLemma
  <2> QED
    BY <1>4, <2>1, VoxelStep
<1>5. ASSUME NEW v \in Values, Step(SetValueOnly(tree, x, v)) PROVE Promise!Next
  <2> DEFINE t == [Stored(tree, x) EXCEPT !.value = v]
  <2>1. t \in Tile
    BY <1>3, WrittenTyped
  <2> HIDE DEF t
  <2>2. SetValueOnly(tree, x, v) = Write(KeyAdded(tree, x), x, t)
    BY DEF SetValueOnly, t
  <2>3. /\ WellFormed(KeyAdded(tree, x))
        /\ \A y \in Voxels : Stored(KeyAdded(tree, x), y) = Stored(tree, y)
    BY <1>1, KeyAddedLemma
  <2>4. /\ WellFormed(Write(KeyAdded(tree, x), x, t))
        /\ \A y \in Voxels : Stored(Write(KeyAdded(tree, x), x, t), y)
                               = IF y = x THEN t ELSE Stored(tree, y)
    BY <1>1, <2>1, <2>3, WriteLemma
  <2> QED
    BY <1>5, <2>1, <2>2, <2>4, VoxelStep
<1>6. ASSUME NEW op \in StateOps, Step(ModifyValueAndActiveState(tree, x, op)) PROVE Promise!Next
  <2> DEFINE t == op[Stored(tree, x)]
             U == ModifyValueAndActiveState(tree, x, op)
  <2>1. t \in Tile
    BY <1>3, OpsTyped
  <2> HIDE DEF t
  <2>2. PICK T : /\ WellFormed(T) /\ \A y \in Voxels : Stored(T, y) = Stored(tree, y)
                 /\ U = T \/ U = Put(T, {x}, t)
    BY <1>1, KeyAddedLemma DEF ModifyValueAndActiveState, t
  <2>3. CASE U = T
    BY <1>6, <2>2, <2>3, StoreStep
  <2>4. CASE U = Put(T, {x}, t)
    <3>1. /\ WellFormed(Put(T, {x}, t))
          /\ \A y \in Voxels : Stored(Put(T, {x}, t), y)
                = IF Above[y] \intersect {x} # {} THEN t ELSE Stored(T, y)
      BY <1>1, <1>3, <2>1, <2>2, PutLemma
    <3>2. \A y \in Voxels : Above[y] \intersect {x} # {} <=> y = x
      BY OneVoxel, Chain DEF Voxels
    <3>3. WellFormed(U) /\ \A y \in Voxels : Stored(U, y) = IF y = x THEN t ELSE Stored(tree, y)
      BY <2>2, <2>4, <3>1, <3>2
    <3> HIDE DEF U
    <3>4. Step(U)
      BY <1>6 DEF U
    <3> QED
      BY <2>1, <3>3, <3>4, VoxelStep
  <2> QED
    BY <2>2, <2>3, <2>4
<1>7. ASSUME Step(TouchLeaf(tree, x)) PROVE Promise!Next
  <2>1. WellFormed(TouchLeaf(tree, x)) /\ \A y \in Voxels : Stored(TouchLeaf(tree, x), y) = Stored(tree, y)
    BY <1>1, <1>3, ReachShape, ReachContents DEF TouchLeaf
  <2> QED
    BY <1>7, <2>1, StoreStep
<1>8. CASE \E v \in Values : Step(SetValueOn(tree, x, v)) \/ Step(SetValueOff(tree, x, v))
  BY <1>4, <1>8, OpsTyped DEF SetValueOn, SetValueOff
<1>9. CASE \E on \in BOOLEAN : Step(SetActiveState(tree, x, on))
  BY <1>3, <1>4, <1>9, WrittenTyped DEF SetActiveState
<1>10. CASE \E op \in ModifyOps : Step(ModifyValue(tree, x, op))
  BY <1>3, <1>4, <1>10, WrittenTyped DEF ModifyValue
<1> QED
  BY <1>2, <1>5, <1>6, <1>7, <1>8, <1>9, <1>10

LEMMA BoxOpRefines == TypeOK /\ BoxOp => Promise!Next
<1> SUFFICES ASSUME TypeOK, BoxOp PROVE Promise!Next
  OBVIOUS
<1>1. WellFormed(tree) /\ mBackground \in Values /\ BackgroundTile = Promise!Off(mBackground)
  BY DEF TypeOK, BackgroundTile, Off, Promise!Off
<1>2. ASSUME NEW B \in Regions, NEW t \in Tile,
             Step(SparseFill(tree, B, t)) \/ Step(DenseFill(tree, B, t))
      PROVE  Promise!Next
  <2>1. PICK T : /\ WellFormed(T) /\ Step(T)
                 /\ \A x \in Voxels : Stored(T, x) = IF x \in B THEN t ELSE Stored(tree, x)
    BY <1>1, <1>2, FillLemma
  <2>2. Map' = Promise!Filled(B, t)
    BY <2>1, FillStep
  <2>3. Promise!FillBox
    BY <2>2, ContentIsTile DEF Promise!FillBox
  <2> QED
    BY <2>1, <2>3, Framed
<1>3. ASSUME NEW B \in Regions, Step(Clip(tree, B)) PROVE Promise!Next
  <2>1. /\ WellFormed(Clip(tree, B))
        /\ \A x \in Voxels : Stored(Clip(tree, B), x)
              = IF x \in Voxels \ B THEN BackgroundTile ELSE Stored(tree, x)
    BY <1>1, ClipLemma
  <2>2. Map' = Promise!Filled(Voxels \ B, BackgroundTile)
    BY <1>3, <2>1, FillStep
  <2>3. Promise!Clip
    BY <1>1, <2>2 DEF Promise!Clip
  <2> QED
    BY <1>3, <2>1, <2>3, Framed
<1>4. CASE Step(VoxelizeActiveTiles(tree))
  BY <1>1, <1>4, VoxelizeLemma, StoreStep
<1>5. CASE Step(Prune(tree))
  BY <1>1, <1>5, PruneLemma, StoreStep
<1> QED
  BY <1>2, <1>3, <1>4, <1>5 DEF BoxOp

\* The cubes of nodes, as VoxelMap is told them.
NodeCubes == [l \in 1 .. RootLevel |-> {VoxelsIn[c] : c \in {d \in Cells : Level[d] = l}}]

\* A step that fills the cubes of some nodes of one level, or one voxel.
LEMMA CubeStep ==
    ASSUME TypeOK, NEW T, WellFormed(T), Step(T), NEW l \in 1 .. RootLevel,
           NEW N \in SUBSET {d \in Cells : Level[d] = l}, NEW t \in Tile,
           \A x \in Voxels : Stored(T, x) = IF Above[x] \intersect N # {} THEN t ELSE Stored(tree, x)
    PROVE  Promise!Next
<1> DEFINE C == {VoxelsIn[c] : c \in N}
<1>1. \A x \in Voxels : x \in UNION C <=> Above[x] \intersect N # {}
  <2>1. \A c \in N : \A x \in Voxels : x \in VoxelsIn[c] <=> c \in Above[x]
    BY VoxelInside
  <2> QED
    BY <2>1
<1>2. Map' = Promise!Filled(UNION C, t)
  <2>1. \A x \in Voxels : Stored(T, x) = IF x \in UNION C THEN t ELSE Stored(tree, x)
    BY <1>1
  <2> HIDE DEF C
  <2> QED
    BY <2>1, FillStep
<1>3. l \in DOMAIN NodeCubes /\ C \in SUBSET NodeCubes[l]
  BY DEF NodeCubes
<1>4. Promise!FillCubes
  <2> HIDE DEF C
  <2> QED
    BY <1>2, <1>3, ContentIsTile DEF Promise!FillCubes, NodeCubes
<1> QED
  BY <1>4, Framed

\* The cell of an operation is a voxel or has a cube.
LEMMA CellStep ==
    ASSUME TypeOK, NEW T, WellFormed(T), Step(T), NEW c \in Cells, NEW t \in Tile,
           \A x \in Voxels : Stored(T, x) = IF x \in VoxelsIn[c] THEN t ELSE Stored(tree, x)
    PROVE  Promise!Next
<1>1. \A x \in Voxels : x \in VoxelsIn[c] <=> c \in Above[x]
  BY VoxelInside
<1>2. CASE Level[c] = 0
  <2>1. c \in Voxels
    BY <1>2 DEF Voxels
  <2>2. \A x \in Voxels : c \in Above[x] <=> x = c
    BY <2>1, OneVoxel, Chain DEF Voxels
  <2> QED
    BY <1>1, <2>1, <2>2, VoxelStep
<1>3. CASE Level[c] # 0
  <2>1. Level[c] \in 1 .. RootLevel /\ {c} \in SUBSET {d \in Cells : Level[d] = Level[c]}
    BY <1>3, CellsNested
  <2>2. \A x \in Voxels : Above[x] \intersect {c} # {} <=> x \in VoxelsIn[c]
    BY <1>1
  <2>3. PICK N : N = {c}
    OBVIOUS
  <2>4. \A x \in Voxels : Stored(T, x) = IF Above[x] \intersect N # {} THEN t ELSE Stored(tree, x)
    BY <2>2, <2>3
  <2>5. N \in SUBSET {d \in Cells : Level[d] = Level[c]}
    BY <2>1, <2>3
  <2> QED
    BY <2>1, <2>4, <2>5, CubeStep
<1> QED
  BY <1>2, <1>3

LEMMA NodeOpRefines == TypeOK /\ NodeOp => Promise!Next
<1> SUFFICES ASSUME TypeOK, NodeOp PROVE Promise!Next
  OBVIOUS
<1>1. WellFormed(tree) /\ mBackground \in Values
  BY DEF TypeOK
<1>2. ASSUME NEW c \in Cells, NEW t \in Tile, Step(AddTile(tree, c, t)) \/ Step(AddNode(tree, c, t))
      PROVE  Promise!Next
  <2>1. PICK T : /\ WellFormed(T) /\ Step(T)
                 /\ \A x \in Voxels : Stored(T, x) = IF x \in VoxelsIn[c] THEN t ELSE Stored(tree, x)
    BY <1>1, <1>2, AddTileLemma
  <2> QED
    BY <2>1, CellStep
<1>3. ASSUME NEW l \in 1 .. RootLevel, NEW N \in SUBSET {c \in Nodes(tree) : Level[c] = l},
             NEW t \in Tile, Step(Steal(tree, N, t))
      PROVE  Promise!Next
  <2>1. N \in SUBSET Nodes(tree) /\ N \in SUBSET {c \in Cells : Level[c] = l}
    BY DEF Nodes
  <2>2. /\ WellFormed(Steal(tree, N, t))
        /\ \A x \in Voxels : Stored(Steal(tree, N, t), x)
              = IF Above[x] \intersect N # {} THEN t ELSE Stored(tree, x)
    BY <1>1, <2>1, StealLemma
  <2> QED
    BY <1>3, <2>1, <2>2, CubeStep
<1>4. ASSUME NEW c \in Nodes(tree)
      PROVE  c \in Cells /\ Level[c] \in 1 .. RootLevel /\ VoxelsIn[c] \in NodeCubes[Level[c]]
  <2>1. c \in Cells /\ Level[c] > 0
    BY <1>1 DEF Nodes, IsChild, WellFormed
  <2>2. Level[c] \in 1 .. RootLevel
    BY <2>1, CellsNested
  <2> QED
    BY <2>1, <2>2 DEF NodeCubes
<1>5. ASSUME NEW c \in Nodes(tree), Step(Negate(tree, c)) \/ Step(SetValuesOn(tree, c))
      PROVE  Promise!Next
  <2>1. WellFormed(Negate(tree, c)) /\ WellFormed(SetValuesOn(tree, c))
    BY <1>1, NegateLemma
  <2>2. CASE Step(Negate(tree, c))
    <3>1. /\ Map' = [x \in Voxels |-> Map'[x]]
          /\ \A x \in Voxels : Map'[x] = IF x \in VoxelsIn[c] THEN [Map[x] EXCEPT !.value = - @]
                                         ELSE Map[x]
      BY <1>1, <2>1, <2>2, NegateLemma, MapStep
    <3>2. Map' = Promise!Changed(VoxelsIn[c], LAMBDA old : [old EXCEPT !.value = - @])
      BY <3>1 DEF Promise!Changed
    <3>3. Promise!Negate
      BY <1>4, <3>2 DEF Promise!Negate, NodeCubes
    <3> QED
      BY <2>1, <2>2, <3>3, Framed
  <2>3. CASE Step(SetValuesOn(tree, c))
    <3>1. /\ Map' = [x \in Voxels |-> Map'[x]]
          /\ \A x \in Voxels : Map'[x] = IF x \in VoxelsIn[c] THEN [Map[x] EXCEPT !.active = TRUE]
                                         ELSE Map[x]
      <4>1. \A x \in Voxels : Stored(SetValuesOn(tree, c), x)
               = IF x \in VoxelsIn[c] THEN [Stored(tree, x) EXCEPT !.active = TRUE] ELSE Stored(tree, x)
        BY <1>1, NegateLemma
      <4>2. /\ Map' = [x \in Voxels |-> Map'[x]]
            /\ \A x \in Voxels : Map[x] = Stored(tree, x) /\ Map'[x] = Stored(SetValuesOn(tree, c), x)
        BY <2>1, <2>3, MapStep
      <4> QED
        BY <4>1, <4>2
    <3>2. Map' = Promise!Changed(VoxelsIn[c], LAMBDA old : [old EXCEPT !.active = TRUE])
      BY <3>1 DEF Promise!Changed
    <3>3. Promise!Activate
      BY <1>4, <3>2 DEF Promise!Activate, NodeCubes
    <3> QED
      BY <2>1, <2>3, <3>3, Framed
  <2> QED
    BY <1>5, <2>2, <2>3
<1>6. CASE \E c \in Cells, t \in Tile : Step(AddTile(tree, c, t))
  BY <1>2, <1>6
<1>7. CASE \E c \in Addable(tree), t \in Tile : Step(AddNode(tree, c, t))
  BY <1>2, <1>7 DEF Addable
<1>8. CASE \E c \in Nodes(tree), t \in Tile : Step(Steal(tree, {c}, t))
  <2>1. PICK c \in Nodes(tree), t \in Tile : Step(Steal(tree, {c}, t))
    BY <1>8
  <2>2. {c} \in SUBSET {d \in Nodes(tree) : Level[d] = Level[c]}
    OBVIOUS
  <2> QED
    BY <1>3, <1>4, <2>1, <2>2
<1>9. CASE \E l \in 1 .. RootLevel, t \in Tile :
               Step(Steal(tree, {c \in Nodes(tree) : Level[c] = l}, t))
  <2>1. PICK l \in 1 .. RootLevel, t \in Tile :
            Step(Steal(tree, {c \in Nodes(tree) : Level[c] = l}, t))
    BY <1>9
  <2>2. {c \in Nodes(tree) : Level[c] = l} \in SUBSET {c \in Nodes(tree) : Level[c] = l}
    OBVIOUS
  <2> QED
    BY <1>3, <2>1, <2>2
<1>10. CASE \E c \in Nodes(tree) : Step(Negate(tree, c)) \/ Step(SetValuesOn(tree, c))
  BY <1>5, <1>10
<1> QED
  BY <1>6, <1>7, <1>8, <1>9, <1>10 DEF NodeOp

LEMMA RootOpRefines == TypeOK /\ RootOp => Promise!Next
<1> SUFFICES ASSUME TypeOK, RootOp PROVE Promise!Next
  OBVIOUS
<1>1. WellFormed(tree) /\ mBackground \in Values /\ BackgroundTile \in Tile
  BY BackgroundTyped DEF TypeOK
<1>2. CASE Step(Empty)
  <2>1. WellFormed(Empty)
    BY DEF WellFormed, Empty
  <2>2. \A x \in Voxels : Stored(Empty, x) = IF x \in Voxels THEN BackgroundTile ELSE Stored(tree, x)
    BY StoredNone DEF Empty, IsTile
  <2>3. Map' = Promise!Filled(Voxels, BackgroundTile)
    BY <1>2, <2>1, <2>2, FillStep
  <2>4. Promise!Clear
    BY <2>3 DEF Promise!Clear, BackgroundTile, Off, Promise!Off
  <2> QED
    BY <1>2, <2>1, <2>4, Framed
<1>3. CASE Step(EraseBackgroundTiles(tree))
  BY <1>1, <1>3, EraseBackgroundLemma, StoreStep
<1>4. CASE \E k \in Keys : Step(Expand(tree, k))
  BY <1>1, <1>4, ExpandLemma, StoreStep
<1>5. CASE \E k \in Keys : Step(DeleteChildOrTile(tree, k))
  <2>1. PICK k \in Keys : Step(EraseKeys(tree, {k}))
    BY <1>5 DEF DeleteChildOrTile
  <2>2. k \in Cells /\ {k} \in SUBSET Keys
    BY DEF Keys
  <2>3. /\ WellFormed(EraseKeys(tree, {k}))
        /\ \A x \in Voxels : Stored(EraseKeys(tree, {k}), x)
              = IF KeyOf[x] \in {k} THEN BackgroundTile ELSE Stored(tree, x)
    BY <1>1, <2>2, EraseKeysLemma
  <2>4. \A x \in Voxels : KeyOf[x] = k <=> x \in VoxelsIn[k]
    BY <2>2, VoxelInside, KeyFacts DEF Voxels, Keys
  <2>5. \A x \in Voxels : Stored(EraseKeys(tree, {k}), x)
              = IF x \in VoxelsIn[k] THEN BackgroundTile ELSE Stored(tree, x)
    BY <2>3, <2>4
  <2> QED
    BY <1>1, <2>1, <2>2, <2>3, <2>5, CellStep
<1> QED
  BY <1>2, <1>3, <1>4, <1>5 DEF RootOp

\* What a change of background does to every voxel.
LEMMA BackgroundStep ==
    ASSUME TypeOK, NEW b \in Values, NEW update \in BOOLEAN, SetBackground(b, update)
    PROVE  /\ InTable' = InTable /\ Map' = [x \in Voxels |-> Map'[x]]
           /\ \A x \in Voxels :
                 Map'[x] = IF update
                           THEN IF Map[x] = Off(mBackground) THEN Off(b)
                                ELSE IF Map[x] = Off(-mBackground) THEN Off(-b) ELSE Map[x]
                           ELSE IF x \in InTable THEN Map[x] ELSE Off(b)
<1> DEFINE U == IF update THEN ResetBackground(tree, b) ELSE tree
<1>1. WellFormed(tree) /\ mBackground \in Values /\ tree' = U /\ mBackground' = b
  BY DEF TypeOK, SetBackground
<1>2. WellFormed(U)
  BY <1>1, ResetLemma
<1>3. InTable' = InTable
  BY <1>1 DEF InTable, ResetBackground
<1>4. DOMAIN U = DOMAIN tree /\ \A c \in DOMAIN tree : U[c] =
         IF ~ update THEN tree[c]
         ELSE IF tree[c] = BackgroundTile THEN Off(b)
         ELSE IF tree[c] = Off(- mBackground) THEN Off(- b) ELSE tree[c]
  BY DEF ResetBackground
<1> HIDE DEF U
<1>5. \A c \in DOMAIN tree : U[c] = Child <=> tree[c] = Child
  <2>1. Off(b) # Child /\ Off(- b) # Child /\ BackgroundTile # Child /\ Off(- mBackground) # Child
    BY <1>1, OpsTyped, BackgroundTyped, ContentsTyped
  <2> QED
    BY <1>4, <2>1
<1>6. ASSUME NEW x \in Voxels
      PROVE  IF x \in InTable
             THEN \E d \in DOMAIN tree : tree[d] # Child /\ Map[x] = tree[d] /\ Map'[x] = U[d]
             ELSE Map[x] = BackgroundTile /\ Map'[x] = Off(b)
  <2>1. Map[x] = Stored(tree, x)
    BY DEF Map, Contents
  <2>2. Map'[x] = IF \E d \in Above[x] : IsTile(U, d)
                  THEN U[CHOOSE d \in Above[x] : IsTile(U, d)]
                  ELSE Off(b)
    BY <1>1 DEF Map, Contents, Stored, IsTile, BackgroundTile
  <2>3. \A d \in Above[x] : IsTile(U, d) <=> IsTile(tree, d)
    BY <1>4, <1>5 DEF IsTile
  <2>4. x \in Cells
    BY DEF Voxels
  <2>5. CASE x \in InTable
    <3>1. PICK d \in Above[x] : IsTile(tree, d)
      <4>1. KeyOf[x] \in Above[x] /\ KeyOf[x] \in DOMAIN tree
        BY <2>4, <2>5, KeyFacts DEF InTable
      <4> QED
        BY <1>1, <4>1, TileExists
    <3>2. Stored(tree, x) = tree[d] /\ Stored(U, x) = U[d]
      BY <1>1, <1>2, <2>3, <2>4, <3>1, StoredTile
    <3>3. Map'[x] = U[d]
      BY <2>2, <2>3, <3>1, <3>2 DEF Stored
    <3>4. d \in DOMAIN tree /\ tree[d] # Child
      BY <3>1 DEF IsTile
    <3> QED
      BY <2>1, <2>5, <3>2, <3>3, <3>4
  <2>6. CASE x \notin InTable
    <3>1. Stored(tree, x) = BackgroundTile /\ \A d \in Above[x] : ~ IsTile(tree, d)
      BY <2>6, NotInTable DEF IsTile
    <3> QED
      BY <2>1, <2>2, <2>3, <2>6, <3>1
  <2> QED
    BY <2>5, <2>6
<1>7. Map' = [x \in Voxels |-> Map'[x]]
  BY DEF Map, Contents
<1>8. ASSUME NEW x \in Voxels
      PROVE  Map'[x] = IF update
                       THEN IF Map[x] = Off(mBackground) THEN Off(b)
                            ELSE IF Map[x] = Off(-mBackground) THEN Off(-b) ELSE Map[x]
                       ELSE IF x \in InTable THEN Map[x] ELSE Off(b)
  <2>1. BackgroundTile = Off(mBackground)
    BY DEF BackgroundTile
  <2>2. CASE update
    BY <1>4, <1>6, <2>1, <2>2
  <2>3. CASE ~ update
    BY <1>4, <1>6, <2>3
  <2> QED
    BY <2>2, <2>3
<1> QED
  BY <1>3, <1>7, <1>8

LEMMA SetBackgroundRefines ==
    ASSUME TypeOK, NEW b \in Values, NEW update \in BOOLEAN, SetBackground(b, update)
    PROVE  Promise!Next
<1>1. TypeOK' /\ mBackground' = b
  BY TypeStep DEF Next, SetBackground
<1>2. /\ InTable' = InTable
      /\ \A x \in Voxels \ InTable' : Map'[x] = Promise!Off(mBackground')
  BY <1>1, BackgroundStep, UnstoredAfter
<1>3. \A v : Off(v) = Promise!Off(v)
  BY DEF Off, Promise!Off
<1>4. CASE update
  <2>1. Promise!Rebase(b)
    BY <1>3, <1>4, BackgroundStep DEF Promise!Rebase
  <2> QED
    BY <1>1, <1>2, <2>1 DEF Promise!Next
<1>5. CASE ~ update
  <2>1. Map' = [x \in Voxels |-> IF x \in Voxels \ InTable THEN Off(b) ELSE Map[x]]
    BY <1>5, BackgroundStep
  <2>2. Promise!RebaseUnstored(b)
    BY <1>3, <2>1 DEF Promise!RebaseUnstored, Promise!Filled, Promise!Changed
  <2> QED
    BY <1>1, <1>2, <2>2 DEF Promise!Next
<1> QED
  BY <1>4, <1>5

\* setBackground moves exactly the voxels it is to move, with and without an update
\* of the nodes, in trees of any depth.
THEOREM BackgroundCorrect == Spec => BackgroundMeetsContract
<1>1. TypeOK /\ [Next]_vars
        => [\A b \in Values :
               /\ SetBackground(b, TRUE) =>
                     Map' = [x \in Voxels |-> IF Map[x] = Off(mBackground) THEN Off(b)
                                              ELSE IF Map[x] = Off(-mBackground) THEN Off(-b)
                                              ELSE Map[x]]
               /\ SetBackground(b, FALSE) => Map' = Filled(Voxels \ InTable, Off(b))]_vars
  <2> SUFFICES ASSUME TypeOK, NEW b \in Values
               PROVE  /\ SetBackground(b, TRUE) =>
                            Map' = [x \in Voxels |-> IF Map[x] = Off(mBackground) THEN Off(b)
                                                     ELSE IF Map[x] = Off(-mBackground) THEN Off(-b)
                                                     ELSE Map[x]]
                      /\ SetBackground(b, FALSE) => Map' = Filled(Voxels \ InTable, Off(b))
    OBVIOUS
  <2>1. ASSUME SetBackground(b, TRUE)
        PROVE  Map' = [x \in Voxels |-> IF Map[x] = Off(mBackground) THEN Off(b)
                                        ELSE IF Map[x] = Off(-mBackground) THEN Off(-b)
                                        ELSE Map[x]]
    BY <2>1, BackgroundStep
  <2>2. ASSUME SetBackground(b, FALSE) PROVE Map' = Filled(Voxels \ InTable, Off(b))
    <3>1. Map' = [x \in Voxels |-> IF x \in Voxels \ InTable THEN Off(b) ELSE Map[x]]
      BY <2>2, BackgroundStep
    <3> QED
      BY <3>1 DEF Filled, Changed
  <2> QED
    BY <2>1, <2>2
<1> QED
  BY <1>1, TypeCorrect, PTL DEF Spec, BackgroundMeetsContract

\* The contracts on regions, boxes and cells of nodes, as the run checks them.
THEOREM RegionOpsCorrect == Spec => []RegionOpsMeetContract
<1>1. BoxOpsMeetContract /\ DenseIsDense /\ NodeOpsMeetContract => RegionOpsMeetContract
  BY DEF RegionOpsMeetContract
<1> QED
  BY <1>1, BoxOpsCorrect, DenseFillCorrect, NodeOpsCorrect, PTL

\* The tree implements the map: every operation, whatever it does to the nodes,
\* is a step of VoxelMap or changes nothing a user can see.
THEOREM TreeImplementsMap == Spec => KeepsPromise
<1>1. Init => Promise!Init
  <2> SUFFICES ASSUME Init PROVE Promise!Init
    OBVIOUS
  <2>1. tree = Empty /\ mBackground = Background
    BY DEF Init
  <2>2. \A x \in Voxels : Stored(tree, x) = BackgroundTile
    BY <2>1, StoredNone DEF Empty, IsTile
  <2>3. BackgroundTile = Promise!Off(Background)
    BY <2>1 DEF BackgroundTile, Off, Promise!Off
  <2>4. InTable = {}
    BY <2>1 DEF InTable, Empty
  <2> QED
    BY <2>1, <2>2, <2>3, <2>4 DEF Map, Contents, Promise!Init
<1>2. TypeOK /\ [Next]_vars => [Promise!Next]_(Promise!vars)
  <2> SUFFICES ASSUME TypeOK, [Next]_vars PROVE [Promise!Next]_(Promise!vars)
    OBVIOUS
  <2>1. CASE Next
    <3>1. CASE \E b \in Values, update \in BOOLEAN : SetBackground(b, update)
      BY <3>1, SetBackgroundRefines
    <3> QED
      BY <2>1, <3>1, VoxelOpRefines, BoxOpRefines, NodeOpRefines, RootOpRefines DEF Next
  <2>2. CASE UNCHANGED vars
    BY <2>2 DEF vars, Promise!vars, Map, Contents, Stored, IsTile, BackgroundTile, InTable
  <2> QED
    BY <2>1, <2>2
<1> QED
  BY <1>1, <1>2, TypeCorrect, PTL DEF KeepsPromise, Spec, Promise!Spec

-------------------------------------------------------------------------------
(* modifyValueAndActiveState, for every function.                          *)

\* One voxel holds what the function makes of it, the others what they held; but
\* nothing changes where the guess of a node is that the function changes nothing.
LEMMA FunctorLemma ==
    ASSUME WellFormed(tree), mBackground \in Values, NEW x \in Voxels, NEW op \in StateOps,
           NEW y \in Voxels
    PROVE  Stored(ModifyValueAndActiveState(tree, x, op), y)
             = IF y = x /\ (x \in DOMAIN tree
                            \/ op[[Stored(tree, x) EXCEPT !.active = ~ @]] # Stored(tree, x))
               THEN op[Stored(tree, x)] ELSE Stored(tree, y)
<1> DEFINE t == Stored(tree, x)
           new == op[t]
           split == op[[t EXCEPT !.active = ~ @]] # t
           entered == IF IsTile(tree, KeyOf[x]) /\ new # t
                      THEN Reach(tree, Slots[KeyOf[x]])
                      ELSE KeyAdded(tree, x)
           result == IF IsChild(entered, KeyOf[x]) /\ (x \in DOMAIN entered \/ split)
                     THEN Put(entered, {x}, new)
                     ELSE entered
<1>1. x \in Cells /\ {x} \in SUBSET Cells /\ y \in Cells
  BY DEF Voxels
<1>2. t \in Tile /\ new \in Tile
  BY <1>1, StoredType, OpsTyped
\* Entering makes no leaf node, since the root node is at least two levels above.
<1>3. x \in DOMAIN entered <=> x \in DOMAIN tree
  <2> DEFINE k == KeyOf[x]
             reached == Reach(tree, Slots[k])
  <2>1. k \in Cells /\ Level[k] = RootLevel /\ Parents[k] = {} /\ Slots[k] \in SUBSET Cells
    BY <1>1, KeyFacts, SlotFacts
  <2>2. \A q \in Opened(Slots[k]) : q = k
    <3>1. \A s \in Slots[k] : Parents[s] = Parents[k] \union {k}
      BY <2>1, SlotFacts
    <3> QED
      BY <2>1, <3>1 DEF Opened
  <2>3. \A s \in Slots[k] : Level[s] = RootLevel - 1 /\ s \in Cells
    BY <2>1 DEF Slots, Below
  <2>4. \A s \in Slots[k] : Level[KeyOf[s]] = RootLevel
    BY <2>3, KeyFacts
  <2>5. Level[x] = 0
    BY DEF Voxels
  <2>6. x \notin Slots[k] /\ \A s \in Slots[k] : x # KeyOf[s]
    BY <2>3, <2>4, <2>5, RootLevelNat
  <2>7. DOMAIN reached = DOMAIN tree \union (UNION {Slots[q] : q \in Opened(Slots[k])})
                           \union {KeyOf[p] : p \in Slots[k]}
    BY DEF Reach
  <2>8. x \in DOMAIN reached <=> x \in DOMAIN tree
    BY <2>2, <2>6, <2>7
  <2> QED
    BY <2>8 DEF KeyAdded
<1>4. ModifyValueAndActiveState(tree, x, op) = result
  BY DEF ModifyValueAndActiveState
<1> HIDE DEF split
<1>5. WellFormed(entered) /\ Stored(entered, y) = Stored(tree, y) /\ Stored(entered, x) = t
  BY KeyAddedLemma
<1>6. x \in Above[y] <=> y = x
  BY <1>1, OneVoxel, Chain
<1> HIDE DEF t, new
<1>7. Stored(Put(entered, {x}, new), y) = IF y = x THEN new ELSE Stored(tree, y)
  <2> HIDE DEF entered
  <2>1. Stored(Put(entered, {x}, new), y)
          = IF Above[y] \intersect {x} # {} THEN new ELSE Stored(entered, y)
    BY <1>1, <1>2, <1>5, PutLemma
  <2> QED
    BY <1>5, <1>6, <2>1
\* Without a voxel written, the function changes nothing, or the guess has said so.
<1>8. ASSUME new # t, x \in DOMAIN tree \/ split,
             ~ (IsChild(entered, KeyOf[x]) /\ (x \in DOMAIN entered \/ split))
      PROVE  FALSE
  <2>1. ~ IsChild(entered, KeyOf[x])
    BY <1>3, <1>8
  <2>2. KeyOf[x] \in Cells /\ Slots[KeyOf[x]] \in SUBSET Cells
    BY <1>1, KeyFacts, SlotFacts
  <2>3. IsChild(Reach(tree, Slots[KeyOf[x]]), KeyOf[x])
    <3>1. KeyOf[x] \in Above[x] /\ Level[KeyOf[x]] # Level[x]
      BY <1>1, KeyFacts, RootLevelNat DEF Voxels
    <3>2. KeyOf[x] \in Parents[x]
      <4>1. KeyOf[x] # x /\ Above[x] = Parents[x] \union {x}
        BY <1>1, <3>1, Chain
      <4> QED
        BY <3>1, <4>1
    <3>3. PICK s \in Slots[KeyOf[x]] : s \in Above[x]
      BY <1>1, <3>2, SlotTowards
    <3>4. KeyOf[x] \in Parents[s]
      BY <2>2, <3>3, SlotFacts
    <3>5. KeyOf[x] \in Opened(Slots[KeyOf[x]])
      BY <2>2, <3>3, <3>4, OpenedFacts
    <3> QED
      BY <2>2, <3>5, ReachDomain DEF IsChild
  <2>4. CASE KeyOf[x] \in DOMAIN tree
    <3>1. IsTile(tree, KeyOf[x]) \/ IsChild(tree, KeyOf[x])
      BY <2>4 DEF IsTile, IsChild
    <3>2. CASE IsTile(tree, KeyOf[x])
      BY <1>8, <2>1, <2>3, <3>2
    <3>3. CASE IsChild(tree, KeyOf[x])
      <4>1. ~ IsTile(tree, KeyOf[x])
        BY <3>3 DEF IsTile, IsChild
      <4>2. KeyAdded(tree, x) = tree
        BY <2>4 DEF KeyAdded
      <4> QED
        BY <2>1, <3>3, <4>1, <4>2
    <3> QED
      BY <3>1, <3>2, <3>3
  <2>5. CASE KeyOf[x] \notin DOMAIN tree
    <3>1. ~ IsTile(tree, KeyOf[x]) /\ KeyAdded(tree, x) = Reach(tree, Slots[KeyOf[x]])
      BY <2>5 DEF IsTile, KeyAdded
    <3> QED
      BY <2>1, <2>3, <3>1
  <2> QED
    BY <2>4, <2>5
<1>9. Stored(result, y) = IF y = x /\ (x \in DOMAIN tree \/ split) THEN new ELSE Stored(tree, y)
  <2>1. CASE IsChild(entered, KeyOf[x]) /\ (x \in DOMAIN entered \/ split)
    <3>1. x \in DOMAIN tree \/ split
      BY <1>3, <2>1
    <3>2. result = Put(entered, {x}, new)
      BY <2>1
    <3> HIDE DEF entered, result
    <3> QED
      BY <1>7, <3>1, <3>2
  <2>2. CASE ~ (IsChild(entered, KeyOf[x]) /\ (x \in DOMAIN entered \/ split))
    <3>1. (x \in DOMAIN tree \/ split) => new = t
      BY <1>8, <2>2
    <3>2. result = entered
      BY <2>2
    <3>3. t = Stored(tree, x)
      BY DEF t
    <3> HIDE DEF entered, result
    <3> QED
      BY <1>5, <3>1, <3>2, <3>3
  <2> QED
    BY <2>1, <2>2
<1> QED
  BY <1>4, <1>9 DEF new, t, split

\* In every reachable tree, and for every function, modifyValueAndActiveState applies
\* the function to one voxel, whatever tiles it has to split on the way; the one case
\* in which it does not, and then changes no voxel, is that an internal node guesses
\* that the function leaves the tile as it is.
THEOREM FunctorCorrect == Spec => []FunctorSkippedByGuessOnly
<1>1. TypeOK => FunctorSkippedByGuessOnly
  <2> SUFFICES ASSUME TypeOK, NEW x \in Voxels, NEW op \in StateOps
               PROVE  Contents(ModifyValueAndActiveState(tree, x, op))
                        = IF x \in DOMAIN tree \/ op[[Map[x] EXCEPT !.active = ~ @]] # Map[x]
                          THEN Changed({x}, LAMBDA old : op[old])
                          ELSE Map
    BY DEF FunctorSkippedByGuessOnly
  <2> DEFINE applied == x \in DOMAIN tree \/ op[[Map[x] EXCEPT !.active = ~ @]] # Map[x]
  <2>1. \A y \in Voxels : Map[y] = Stored(tree, y)
    BY DEF Map, Contents
  <2>2. \A y \in Voxels : Stored(ModifyValueAndActiveState(tree, x, op), y)
            = IF y = x /\ applied THEN op[Stored(tree, x)] ELSE Stored(tree, y)
    BY <2>1, FunctorLemma DEF TypeOK
  <2> HIDE DEF applied
  <2>3. CASE applied
    <3>1. \A y \in Voxels : Stored(ModifyValueAndActiveState(tree, x, op), y)
              = IF y \in {x} THEN op[Map[y]] ELSE Map[y]
      BY <2>1, <2>2, <2>3
    <3> QED
      BY <2>3, <3>1 DEF Contents, Changed, applied
  <2>4. CASE ~ applied
    <3>1. \A y \in Voxels : Stored(ModifyValueAndActiveState(tree, x, op), y) = Stored(tree, y)
      BY <2>2, <2>4
    <3> QED
      BY <2>4, <3>1 DEF Contents, Map, applied
  <2> QED
    BY <2>3, <2>4
<1> QED
  BY <1>1, TypeCorrect, PTL
===============================================================================
