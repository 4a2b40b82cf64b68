-------------------------- MODULE TreeToolsProofs ---------------------------
(***************************************************************************)
(* Proofs about TreePrune and TreeTools, for every index space, depth and  *)
(* set of values: the tools leave a tree, the prune functions merge all    *)
(* that there is to merge, at once, and nothing else, and the flood fill   *)
(* gives every inactive voxel of a closed narrow band its sign.            *)
(***************************************************************************)
EXTENDS TreeTools, VoxelTreeProofs, FiniteSetTheorems

-------------------------------------------------------------------------------
(* One level of nodes.                                                     *)

\* Induction from one level to the next.
LEMMA Climb ==
    ASSUME NEW lo \in Nat, NEW hi \in Nat, NEW S, lo \in S,
           \A l \in lo + 1 .. hi : l - 1 \in S => l \in S
    PROVE  \A l \in lo .. hi : l \in S
<1> DEFINE bad == {l \in lo .. hi : l \notin S}
<1>1. ASSUME bad # {} PROVE FALSE
  <2>1. bad \in SUBSET Nat
    OBVIOUS
  <2>2. PICK m \in bad : \A k \in bad : m <= k
    BY <1>1, <2>1, Least
  <2>3. m \in lo + 1 .. hi /\ m - 1 \in lo .. hi /\ ~ (m <= m - 1)
    BY <2>2
  <2>4. m - 1 \in S
    BY <2>2, <2>3
  <2> QED
    BY <2>2, <2>3, <2>4
<1> QED
  BY <1>1

\* U is what is left of T when the nodes N of level l, which have no children, have
\* become tiles.
Pass(T, U, l, N) ==
    /\ N \subseteq {n \in Nodes(T) : Level[n] = l}
    /\ \A n \in N : \A s \in Slots[n] : IsTile(T, s)
    /\ DOMAIN U = DOMAIN T \ UNION {Slots[n] : n \in N}
    /\ \A c \in DOMAIN U : IF c \in N THEN U[c] \in Tile ELSE U[c] = T[c]

\* Only what is in one of those nodes goes.
LEMMA PassMerges ==
    ASSUME NEW T, WellFormed(T), NEW U, NEW l, NEW N, Pass(T, U, l, N)
    PROVE  MergedAt(T, N, U) /\ WellFormed(U)
<1>1. N \subseteq Cells
  BY DEF Pass, Nodes
<1>2. ASSUME NEW c \in DOMAIN T
      PROVE  c \in UNION {Slots[n] : n \in N} <=> Parents[c] \intersect N # {}
  <2>1. c \in Cells
    BY Shape
  <2>2. ASSUME NEW n \in N, c \in Slots[n] PROVE n \in Parents[c]
    BY <1>1, <2>2, SlotFacts
  <2>3. ASSUME NEW n \in N, n \in Parents[c] PROVE c \in Slots[n]
    <3>1. PICK s \in Slots[n] : s \in Above[c]
      BY <2>1, <2>3, SlotTowards
    <3>2. s \in DOMAIN T /\ T[s] # Child
      BY <3>1 DEF Pass, IsTile
    <3>3. s \notin Parents[c]
      BY <3>2, Shape
    <3>4. s = c
      BY <2>1, <3>1, <3>3, Chain
    <3> QED
      BY <3>1, <3>4
  <2>4. c \in UNION {Slots[n] : n \in N} <=> \E n \in N : c \in Slots[n]
    OBVIOUS
  <2> QED
    BY <2>2, <2>3, <2>4
<1>3. DOMAIN U = {c \in DOMAIN T : Parents[c] \intersect N = {}}
  BY <1>2 DEF Pass
<1>4. MergedAt(T, N, U)
  BY <1>1, <1>3 DEF Pass, MergedAt
<1> QED
  BY <1>4, MergedShape

\* Above a voxel there is one of those nodes, with one of its tiles, or nothing changes.
LEMMA PassHeld ==
    ASSUME NEW T, WellFormed(T), NEW U, NEW l, NEW N, Pass(T, U, l, N), NEW x \in Voxels
    PROVE  \/ \E n \in N : \E s \in Slots[n] :
                 /\ n \in Above[x] /\ s \in Above[x]
                 /\ Stored(T, x) = T[s] /\ Stored(U, x) = U[n]
                 /\ n \in DOMAIN U
           \/ /\ \A n \in N : n \notin Above[x]
              /\ Stored(U, x) = Stored(T, x)
<1>1. MergedAt(T, N, U) /\ WellFormed(U) /\ x \in Cells /\ Level[x] = 0
  BY PassMerges DEF Voxels
<1>2. ASSUME NEW n \in N, n \in Above[x]
      PROVE  \E s \in Slots[n] : /\ s \in Above[x]
                                 /\ Stored(T, x) = T[s] /\ Stored(U, x) = U[n]
                                 /\ n \in DOMAIN U
  <2>1. n \in Cells /\ n \in DOMAIN T /\ T[n] = Child /\ Level[n] = l
    BY DEF Pass, Nodes, IsChild
  <2>2. Level[n] > 0 /\ n # x
    BY <1>1, <2>1, Shape
  <2>3. n \in Parents[x]
    BY <1>1, <1>2, <2>2, Chain
  <2>4. PICK s \in Slots[n] : s \in Above[x]
    BY <1>1, <2>3, SlotTowards
  <2>5. Stored(T, x) = T[s]
    BY <1>1, <2>4, StoredTile DEF Pass
  <2>6. Parents[n] \intersect N = {}
    <3>1. \A m \in Parents[n] : Level[m] > Level[n] /\ Level[m] \in Int /\ Level[n] \in Int
      BY <2>1, Chain
    <3>2. \A m \in N : Level[m] = Level[n]
      BY <2>1 DEF Pass
    <3> QED
      BY <3>1, <3>2
  <2>7. n \in DOMAIN U
    BY <1>1, <2>1, <2>6 DEF MergedAt
  <2>8. U[n] \in Tile
    BY <2>7 DEF Pass
  <2>9. IsTile(U, n)
    BY <2>7, <2>8, ContentsTyped DEF IsTile
  <2>10. Stored(U, x) = U[n]
    BY <1>1, <1>2, <2>9, StoredTile
  <2> QED
    BY <2>4, <2>5, <2>7, <2>10
<1>3. CASE \E n \in N : n \in Above[x]
  BY <1>2, <1>3
<1>4. CASE \A n \in N : n \notin Above[x]
  BY <1>1, <1>4, MergedContents
<1> QED
  BY <1>3, <1>4

\* The other nodes stay, with their entries.
LEMMA PassNodes ==
    ASSUME NEW T, WellFormed(T), NEW U, NEW l, NEW N, Pass(T, U, l, N)
    PROVE  /\ Nodes(U) = Nodes(T) \ N
           /\ \A c \in DOMAIN U : c \in DOMAIN T /\ (c \notin N => U[c] = T[c])
<1>1. \A c \in DOMAIN U : c \in DOMAIN T /\ (c \notin N => U[c] = T[c])
  BY DEF Pass
<1>2. ASSUME NEW n \in Nodes(U) PROVE n \in Nodes(T) \ N
  <2>1. n \in Cells /\ n \in DOMAIN U /\ U[n] = Child
    BY DEF Nodes, IsChild
  <2>2. n \notin N
    BY <2>1, ContentsTyped DEF Pass
  <2> QED
    BY <1>1, <2>1, <2>2 DEF Nodes, IsChild
<1>3. ASSUME NEW n \in Nodes(T) \ N PROVE n \in Nodes(U)
  <2>1. n \in Cells /\ n \in DOMAIN T /\ T[n] = Child
    BY DEF Nodes, IsChild
  <2>2. \A m \in N : n \notin Slots[m]
    BY <2>1 DEF Pass, IsTile
  <2>3. n \in DOMAIN U
    BY <2>1, <2>2 DEF Pass
  <2> QED
    BY <1>1, <2>1, <2>3 DEF Nodes, IsChild
<1> QED
  BY <1>1, <1>2, <1>3

-------------------------------------------------------------------------------
(* All levels, from the one above lo to the root table.                    *)

\* up[l] is what is left of up[lo] when the levels up to l have been visited, and
\* con[l] are the nodes of level l that became tiles.
Passes(up, con, lo) ==
    /\ lo \in Nat /\ lo <= RootLevel
    /\ WellFormed(up[lo])
    /\ \A l \in lo + 1 .. RootLevel : Pass(up[l - 1], up[l], l, con[l])

\* There is a well-formed tree after every level.
LEMMA PassesShape ==
    ASSUME NEW up, NEW con, NEW lo, Passes(up, con, lo)
    PROVE  \A l \in lo .. RootLevel : WellFormed(up[l])
<1> DEFINE S == {l \in Nat : WellFormed(up[l])}
<1>1. lo \in Nat /\ RootLevel \in Nat /\ lo \in S
  BY RootLevelNat DEF Passes
<1>2. ASSUME NEW l \in lo + 1 .. RootLevel, l - 1 \in S PROVE l \in S
  <2>1. WellFormed(up[l - 1]) /\ Pass(up[l - 1], up[l], l, con[l])
    BY <1>2 DEF Passes
  <2>2. WellFormed(up[l])
    BY <2>1, PassMerges
  <2> QED
    BY <1>1, <2>2
<1> HIDE DEF S
<1>3. \A l \in lo .. RootLevel : l \in S
  BY <1>1, <1>2, Climb
<1> QED
  BY <1>3 DEF S

\* A node that is left in the end was there all the time.
LEMMA PassesNodes ==
    ASSUME NEW up, NEW con, NEW lo, Passes(up, con, lo), NEW k \in lo .. RootLevel
    PROVE  \A m \in k .. RootLevel : Nodes(up[m]) \subseteq Nodes(up[k])
<1> DEFINE S == {m \in Nat : Nodes(up[m]) \subseteq Nodes(up[k])}
<1>1. lo \in Nat /\ RootLevel \in Nat /\ k \in Nat /\ k \in S
  BY RootLevelNat DEF Passes
<1>2. ASSUME NEW m \in k + 1 .. RootLevel, m - 1 \in S PROVE m \in S
  <2>1. m \in lo + 1 .. RootLevel /\ m - 1 \in lo .. RootLevel /\ m \in Nat
    BY <1>1
  <2>2. WellFormed(up[m - 1]) /\ Pass(up[m - 1], up[m], m, con[m])
    BY <2>1, PassesShape DEF Passes
  <2>3. Nodes(up[m]) \subseteq Nodes(up[m - 1])
    BY <2>2, PassNodes
  <2> QED
    BY <1>2, <2>1, <2>3
<1> HIDE DEF S
<1>3. \A m \in k .. RootLevel : m \in S
  BY <1>1, <1>2, Climb
<1> QED
  BY <1>3 DEF S

\* A node that is left in the end was none of those that became tiles, and has the
\* entries it had when its level was visited.
LEMMA PassesLeave ==
    ASSUME NEW up, NEW con, NEW lo, Passes(up, con, lo),
           NEW c \in Nodes(up[RootLevel]), Level[c] > lo
    PROVE  /\ Level[c] \in lo + 1 .. RootLevel
           /\ c \in Nodes(up[Level[c] - 1]) /\ c \notin con[Level[c]]
           /\ \A s \in Slots[c] : /\ s \in DOMAIN up[RootLevel]
                                  /\ s \in DOMAIN up[Level[c] - 1]
                                  /\ up[RootLevel][s] = up[Level[c] - 1][s]
<1> DEFINE k == Level[c]
<1>1. lo \in Nat /\ RootLevel \in Nat /\ c \in Cells /\ k \in Nat /\ k <= RootLevel
  BY RootLevelNat, Chain DEF Passes, Nodes
<1>2. k \in lo + 1 .. RootLevel /\ k - 1 \in lo .. RootLevel /\ k \in lo .. RootLevel
      /\ RootLevel \in k .. RootLevel /\ RootLevel \in k - 1 .. RootLevel /\ k - 1 \in Nat
  BY <1>1
<1> HIDE DEF k
<1>3. c \in Nodes(up[k]) /\ c \in Nodes(up[k - 1])
  BY <1>2, PassesNodes
<1>4. c \notin con[k]
  <2>1. WellFormed(up[k - 1]) /\ Pass(up[k - 1], up[k], k, con[k])
    BY <1>2, PassesShape DEF Passes
  <2>2. Nodes(up[k]) = Nodes(up[k - 1]) \ con[k]
    BY <2>1, PassNodes
  <2> QED
    BY <1>3, <2>2
<1>5. ASSUME NEW s \in Slots[c]
      PROVE  /\ s \in DOMAIN up[RootLevel] /\ s \in DOMAIN up[k - 1]
             /\ up[RootLevel][s] = up[k - 1][s]
  <2> DEFINE S == {m \in Nat : s \in DOMAIN up[m] /\ up[m][s] = up[k - 1][s]}
  <2>1. \A m \in k - 1 .. RootLevel : WellFormed(up[m]) /\ c \in Nodes(up[m])
    <3>1. ASSUME NEW m \in k - 1 .. RootLevel PROVE WellFormed(up[m]) /\ c \in Nodes(up[m])
      <4>1. m \in lo .. RootLevel /\ RootLevel \in m .. RootLevel
        BY <1>1, <1>2
      <4> QED
        BY <4>1, PassesShape, PassesNodes
    <3> QED
      BY <3>1
  <2>2. \A m \in k - 1 .. RootLevel : s \in DOMAIN up[m]
    BY <2>1, Shape DEF Nodes, IsChild
  <2>3. s \in Cells /\ Level[s] = k - 1
    BY <1>1, SlotFacts DEF k
  <2>4. k - 1 \in S
    BY <1>2, <2>2
  <2>5. ASSUME NEW m \in k - 1 + 1 .. RootLevel, m - 1 \in S PROVE m \in S
    <3>1. m \in lo + 1 .. RootLevel /\ m \in k - 1 .. RootLevel /\ m \in Nat /\ m # k - 1
          /\ m - 1 \in k - 1 .. RootLevel
      BY <1>1, <1>2
    <3>2. Pass(up[m - 1], up[m], m, con[m])
      BY <3>1 DEF Passes
    <3>3. s \notin con[m]
      BY <2>3, <3>1, <3>2 DEF Pass
    <3>4. s \in DOMAIN up[m]
      BY <2>2, <3>1
    <3>5. up[m][s] = up[m - 1][s]
      BY <3>2, <3>3, <3>4 DEF Pass
    <3> QED
      BY <2>5, <3>1, <3>4, <3>5
  <2> HIDE DEF S
  <2>6. \A m \in k - 1 .. RootLevel : m \in S
    BY <1>1, <1>2, <2>4, <2>5, Climb
  <2>7. RootLevel \in S
    BY <1>2, <2>6
  <2> QED
    BY <1>2, <2>2, <2>7 DEF S
<1> QED
  BY <1>2, <1>3, <1>4, <1>5 DEF k

\* Erasing background tiles keeps the nodes that are left, with their entries.
LEMMA ErasedNodes ==
    ASSUME NEW T, WellFormed(T), mBackground \in Values
    PROVE  \A c \in Nodes(EraseBackgroundTiles(T)) :
              /\ c \in Nodes(T)
              /\ \A s \in Slots[c] : /\ s \in DOMAIN T
                                     /\ s \in DOMAIN EraseBackgroundTiles(T)
                                     /\ EraseBackgroundTiles(T)[s] = T[s]
<1> DEFINE E == EraseBackgroundTiles(T)
<1>1. WellFormed(E)
  BY EraseBackgroundLemma
<1>2. \A c \in DOMAIN E : c \in DOMAIN T /\ E[c] = T[c]
  BY DEF EraseBackgroundTiles, EraseKeys
<1> HIDE DEF E
<1>3. ASSUME NEW c \in Nodes(E)
      PROVE  /\ c \in Nodes(T)
             /\ \A s \in Slots[c] : s \in DOMAIN T /\ s \in DOMAIN E /\ E[s] = T[s]
  <2>1. c \in Cells /\ c \in DOMAIN E /\ E[c] = Child
    BY DEF Nodes, IsChild
  <2>2. c \in Nodes(T)
    BY <1>2, <2>1 DEF Nodes, IsChild
  <2>3. Slots[c] \subseteq DOMAIN E
    BY <1>1, <2>1, Shape
  <2> QED
    BY <1>2, <2>2, <2>3
<1> QED
  BY <1>3 DEF E

\* A node has entries; the first of them is one of them.
LEMMA FirstFacts ==
    ASSUME NEW n \in Cells, Level[n] > 0
    PROVE  Slots[n] # {} /\ First[n] \in Slots[n]
<1>1. PICK x \in Voxels : x \in Cells /\ n \in Above[x]
  BY VoxelInside DEF Voxels
<1>2. Level[x] = 0 /\ n # x
  BY <1>1 DEF Voxels
<1>3. n \in Parents[x]
  BY <1>1, <1>2, Chain
<1>4. Slots[n] # {}
  BY <1>1, <1>3, SlotTowards
<1> DEFINE S == {Offset[c] : c \in Slots[n]}
<1>5. \A c \in Slots[n] : c \in Cells /\ Offset[c] \in Nat
  BY SlotFacts, OffsetsAssumption
<1>6. S \in SUBSET Nat /\ S # {}
  BY <1>4, <1>5
<1>7. PICK m \in S : \A k \in S : m <= k
  BY <1>6, Least
<1>8. PICK c \in Slots[n] : Offset[c] = m
  OBVIOUS
<1>9. \A d \in Slots[n] : Offset[c] <= Offset[d]
  BY <1>7, <1>8
<1>10. First[n] = CHOOSE d \in Slots[n] : \A e \in Slots[n] : Offset[d] <= Offset[e]
  BY DEF First
<1> QED
  BY <1>4, <1>9, <1>10

-------------------------------------------------------------------------------
(* What the voxels hold after all levels.                                  *)

\* The distances of two steps add up.
LEMMA NearAdds ==
    ASSUME NEW l \in Nat, NEW t \in Nat, NEW a \in Int, NEW b \in Int, NEW c \in Int,
           l > 0, Near(a, b, (l - 1) * t), Near(c, a, t)
    PROVE  Near(c, b, l * t)
<1>1. (l - 1) * t + t = l * t /\ (l - 1) * t \in Int /\ l * t \in Int
  OBVIOUS
<1> DEFINE p == (l - 1) * t
           q == l * t
<1>2. p \in Int /\ q \in Int /\ p + t = q
  BY <1>1
<1>3. Near(a, b, p) /\ Near(c, a, t)
  OBVIOUS
<1> HIDE DEF p, q
<1>4. Near(c, b, q)
  BY <1>2, <1>3 DEF Near
<1> QED
  BY <1>4 DEF q

\* No distance is a distance.
LEMMA NearSelf ==
    ASSUME NEW l \in Nat, NEW t \in Nat, NEW a \in Int
    PROVE  Near(a, a, l * t)
<1>1. l * t \in Int /\ l * t >= 0
  OBVIOUS
<1> DEFINE q == l * t
<1>2. q \in Int /\ q >= 0
  BY <1>1
<1> HIDE DEF q
<1>3. Near(a, a, q)
  BY <1>2 DEF Near
<1> QED
  BY <1>3 DEF q

\* What a voxel holds in a well-formed tree.
LEMMA HeldTyped ==
    ASSUME NEW T, WellFormed(T), mBackground \in Values, NEW x \in Voxels
    PROVE  /\ Stored(T, x) \in Tile /\ Stored(T, x).value \in Int
           /\ Stored(T, x).active \in BOOLEAN
<1>1. x \in Cells
  BY DEF Voxels
<1>2. Stored(T, x) \in Tile
  BY <1>1, StoredType
<1> QED
  BY <1>2, ContentsTyped DEF Tile

\* If every tile has the active state of what it replaces, and its value to within
\* the tolerance, then so has every voxel, with the tolerance for every level.
LEMMA PassesDrift ==
    ASSUME NEW up, NEW con, NEW lo, Passes(up, con, lo), mBackground \in Values,
           NEW t \in Nat,
           \A l \in lo + 1 .. RootLevel : \A n \in con[l] : \A s \in Slots[n] :
              /\ up[l][n].active = up[l - 1][s].active
              /\ Near(up[l][n].value, up[l - 1][s].value, t),
           NEW x \in Voxels
    PROVE  /\ Stored(up[RootLevel], x).active = Stored(up[lo], x).active
           /\ Near(Stored(up[RootLevel], x).value, Stored(up[lo], x).value, RootLevel * t)
<1> DEFINE S == {l \in Nat : /\ Stored(up[l], x).active = Stored(up[lo], x).active
                             /\ Near(Stored(up[l], x).value, Stored(up[lo], x).value, l * t)}
<1>1. lo \in Nat /\ RootLevel \in Nat /\ RootLevel \in lo .. RootLevel /\ lo \in lo .. RootLevel
  BY RootLevelNat DEF Passes
<1>2. \A l \in lo .. RootLevel : WellFormed(up[l])
  BY PassesShape
<1>3. \A l \in lo .. RootLevel : Stored(up[l], x).value \in Int
  BY <1>2, HeldTyped
<1>4. lo \in S
  <2>1. Stored(up[lo], x).value \in Int
    BY <1>1, <1>3
  <2>2. Near(Stored(up[lo], x).value, Stored(up[lo], x).value, lo * t)
    BY <1>1, <2>1, NearSelf
  <2> QED
    BY <1>1, <2>2
<1>5. ASSUME NEW l \in lo + 1 .. RootLevel, l - 1 \in S PROVE l \in S
  <2>1. l \in Nat /\ l > 0 /\ l \in lo .. RootLevel /\ l - 1 \in lo .. RootLevel
    BY <1>1
  <2> DEFINE a == Stored(up[l - 1], x)
             b == Stored(up[lo], x)
             c == Stored(up[l], x)
  <2>2. a.value \in Int /\ b.value \in Int /\ c.value \in Int
    BY <1>1, <1>3, <2>1
  <2>3. a.active = b.active /\ Near(a.value, b.value, (l - 1) * t)
    BY <1>5
  <2>4. c.active = a.active /\ Near(c.value, a.value, t)
    <3>1. WellFormed(up[l - 1]) /\ Pass(up[l - 1], up[l], l, con[l])
      BY <1>2, <2>1 DEF Passes
    <3>2. CASE \E n \in con[l] : \E s \in Slots[n] : a = up[l - 1][s] /\ c = up[l][n]
      <4>1. PICK n \in con[l] : \E s \in Slots[n] : a = up[l - 1][s] /\ c = up[l][n]
        BY <3>2
      <4>2. PICK s \in Slots[n] : a = up[l - 1][s] /\ c = up[l][n]
        BY <4>1
      <4> HIDE DEF a, c
      <4>3. /\ up[l][n].active = up[l - 1][s].active
            /\ Near(up[l][n].value, up[l - 1][s].value, t)
        OBVIOUS
      <4> QED
        BY <4>2, <4>3
    <3>3. CASE c = a
      <4>1. t = 1 * t /\ 1 \in Nat
        OBVIOUS
      <4> HIDE DEF a, c
      <4>2. Near(a.value, a.value, 1 * t)
        BY <2>2, <4>1, NearSelf
      <4> QED
        BY <3>3, <4>1, <4>2
    <3>4. \/ \E n \in con[l] : \E s \in Slots[n] : a = up[l - 1][s] /\ c = up[l][n]
          \/ c = a
      <4> HIDE DEF a, c
      <4> QED
        BY <3>1, PassHeld DEF a, c
    <3> QED
      BY <3>2, <3>3, <3>4
  <2> HIDE DEF a, b, c
  <2>5. Near(c.value, b.value, l * t)
    BY <2>1, <2>2, <2>3, <2>4, NearAdds
  <2> QED
    BY <2>1, <2>3, <2>4, <2>5 DEF a, b, c
<1> HIDE DEF S
<1>6. \A l \in lo .. RootLevel : l \in S
  BY <1>1, <1>4, <1>5, Climb
<1>7. RootLevel \in S
  BY <1>1, <1>6
<1> QED
  BY <1>7 DEF S

\* If only inactive entries are replaced, by inactive tiles, then active voxels hold
\* what they held, and inactive ones stay inactive.
LEMMA PassesActive ==
    ASSUME NEW up, NEW con, NEW lo, Passes(up, con, lo), mBackground \in Values,
           \A l \in lo + 1 .. RootLevel : \A n \in con[l] :
              /\ up[l][n].active = FALSE
              /\ \A s \in Slots[n] : up[l - 1][s].active = FALSE,
           NEW x \in Voxels
    PROVE  /\ Stored(up[RootLevel], x).active = Stored(up[lo], x).active
           /\ Stored(up[lo], x).active => Stored(up[RootLevel], x) = Stored(up[lo], x)
<1> DEFINE S == {l \in Nat : /\ Stored(up[l], x).active = Stored(up[lo], x).active
                             /\ Stored(up[lo], x).active => Stored(up[l], x) = Stored(up[lo], x)}
<1>1. lo \in Nat /\ RootLevel \in Nat /\ RootLevel \in lo .. RootLevel
  BY RootLevelNat DEF Passes
<1>2. \A l \in lo .. RootLevel : WellFormed(up[l])
  BY PassesShape
<1>3. lo \in S
  BY <1>1
<1>4. ASSUME NEW l \in lo + 1 .. RootLevel, l - 1 \in S PROVE l \in S
  <2>1. l \in Nat /\ l - 1 \in lo .. RootLevel
    BY <1>1
  <2> DEFINE a == Stored(up[l - 1], x)
             b == Stored(up[lo], x)
             c == Stored(up[l], x)
  <2>2. WellFormed(up[l - 1]) /\ Pass(up[l - 1], up[l], l, con[l])
    BY <1>2, <2>1 DEF Passes
  <2>3. \/ \E n \in con[l] : \E s \in Slots[n] : a = up[l - 1][s] /\ c = up[l][n]
        \/ c = a
    <3> HIDE DEF a, c
    <3> QED
      BY <2>2, PassHeld DEF a, c
  <2>4. a.active = b.active /\ (b.active => a = b)
    BY <1>4
  <2> HIDE DEF a, b, c
  <2>5. c = a \/ (a.active = FALSE /\ c.active = FALSE)
    <3>1. ASSUME NEW n \in con[l], NEW s \in Slots[n], a = up[l - 1][s], c = up[l][n]
          PROVE  a.active = FALSE /\ c.active = FALSE
      <4>1. up[l][n].active = FALSE /\ up[l - 1][s].active = FALSE
        OBVIOUS
      <4> QED
        BY <3>1, <4>1, Zenon
    <3> QED
      BY <2>3, <3>1
  <2>6. c.active = b.active /\ (b.active => c = b)
    BY <2>4, <2>5, Zenon
  <2> QED
    BY <2>1, <2>6 DEF a, b, c
<1> HIDE DEF S
<1>5. \A l \in lo .. RootLevel : l \in S
  BY <1>1, <1>3, <1>4, Climb
<1>6. RootLevel \in S
  BY <1>1, <1>5
<1> QED
  BY <1>6 DEF S

-------------------------------------------------------------------------------
(* TreePrune: the recursion of the nodes.                                  *)

\* The levels of PruneWithin, one from the other.
LEMMA PruneWithinLevels ==
    ASSUME NEW T, NEW tolerance
    PROVE  \E up : /\ up[0] = T
                   /\ \A l \in 1 .. RootLevel : up[l] = PruneLevel(up[l - 1], l, tolerance)
                   /\ PruneWithin(T, tolerance) = EraseBackgroundTiles(up[RootLevel])
<1> DEFINE Next1(f, l) == IF l = 0 THEN T ELSE PruneLevel(f[l - 1], l, tolerance)
           S == {m \in Nat : \E f : f = [l \in 0 .. m |-> Next1(f, l)]}
<1>1. RootLevel \in Nat /\ RootLevel > 1
  BY RootLevelNat
<1>2. 0 \in S
  <2> DEFINE f == [l \in 0 .. 0 |-> T]
  <2>1. f = [l \in 0 .. 0 |-> Next1(f, l)]
    OBVIOUS
  <2> QED
    BY <2>1
<1>3. ASSUME NEW m \in 0 + 1 .. RootLevel, m - 1 \in S PROVE m \in S
  <2>1. m \in Nat /\ m - 1 \in Nat
    BY <1>1
  <2>2. PICK f : f = [l \in 0 .. m - 1 |-> Next1(f, l)]
    BY <1>3
  <2> DEFINE g == [l \in 0 .. m |-> IF l = m THEN PruneLevel(f[m - 1], m, tolerance) ELSE f[l]]
  <2>3. \A l \in 0 .. m - 1 : g[l] = f[l]
    BY <2>1
  <2>4. \A l \in 0 .. m : g[l] = Next1(g, l)
    <3>1. ASSUME NEW l \in 0 .. m PROVE g[l] = Next1(g, l)
      <4>1. CASE l = m
        <5>1. g[l] = PruneLevel(f[m - 1], m, tolerance) /\ g[m - 1] = f[m - 1] /\ l # 0
          BY <2>1, <2>3, <4>1
        <5> HIDE DEF g
        <5> QED
          BY <4>1, <5>1
      <4>2. CASE l = 0
        BY <1>3, <2>1, <2>2, <2>3, <4>2
      <4>3. CASE l \in 1 .. m - 1
        <5>1. l \in 0 .. m - 1 /\ l - 1 \in 0 .. m - 1 /\ l # 0
          BY <2>1, <4>3
        <5>2. g[l] = f[l] /\ g[l - 1] = f[l - 1]
          BY <2>3, <5>1
        <5>3. f[l] = Next1(f, l)
          BY <2>2, <5>1
        <5> HIDE DEF g
        <5> QED
          BY <5>1, <5>2, <5>3
      <4> QED
        BY <2>1, <4>1, <4>2, <4>3
    <3> QED
      BY <3>1
  <2>5. g = [l \in 0 .. m |-> Next1(g, l)]
    <3>1. g = [l \in 0 .. m |-> g[l]]
      OBVIOUS
    <3> HIDE DEF g
    <3> QED
      BY <2>4, <3>1
  <2> HIDE DEF g
  <2> QED
    BY <2>1, <2>5
<1> HIDE DEF S
<1>4. RootLevel \in S
  <2>1. \A l \in 0 .. RootLevel : l \in S
    BY <1>1, <1>2, <1>3, Climb
  <2> QED
    BY <1>1, <2>1
<1> DEFINE up == CHOOSE f : f = [l \in 0 .. RootLevel |-> Next1(f, l)]
<1>5. up = [l \in 0 .. RootLevel |-> Next1(up, l)]
  BY <1>4 DEF S
<1>6. PruneWithin(T, tolerance) = EraseBackgroundTiles(up[RootLevel])
  BY DEF PruneWithin
<1> HIDE DEF up
<1>7. up[0] = T /\ \A l \in 1 .. RootLevel : up[l] = PruneLevel(up[l - 1], l, tolerance)
  BY <1>1, <1>5
<1> QED
  BY <1>6, <1>7

\* The nodes of a level that prune() replaces.
ConstantNodes(T, l, tolerance) == {c \in Nodes(T) : Level[c] = l /\ IsConstant(T, c, tolerance)}

\* A level of prune() is a pass, and its tiles are the first entries of the nodes.
LEMMA PruneLevelPass ==
    ASSUME NEW T, WellFormed(T), NEW l \in 1 .. RootLevel, NEW tolerance
    PROVE  /\ Pass(T, PruneLevel(T, l, tolerance), l, ConstantNodes(T, l, tolerance))
           /\ \A n \in ConstantNodes(T, l, tolerance) :
                 PruneLevel(T, l, tolerance)[n] = T[First[n]]
<1> DEFINE N == ConstantNodes(T, l, tolerance)
           U == PruneLevel(T, l, tolerance)
<1>1. /\ N \subseteq {n \in Nodes(T) : Level[n] = l}
      /\ \A n \in N : \A s \in Slots[n] : IsTile(T, s)
  BY DEF ConstantNodes, IsConstant
<1>2. /\ DOMAIN U = DOMAIN T \ UNION {Slots[n] : n \in N}
      /\ \A c \in DOMAIN U : U[c] = IF c \in N THEN T[First[c]] ELSE T[c]
  BY DEF PruneLevel, ConstantNodes
<1> HIDE DEF N, U
<1>3. ASSUME NEW n \in N PROVE T[First[n]] \in Tile /\ n \in DOMAIN U
  <2>1. n \in Cells /\ n \in DOMAIN T /\ T[n] = Child
    BY <1>1 DEF Nodes, IsChild
  <2>2. Level[n] > 0
    BY <2>1, Shape
  <2>3. IsTile(T, First[n])
    BY <1>1, <2>1, <2>2, FirstFacts
  <2>4. T[First[n]] \in Tile
    BY <2>3, Shape DEF IsTile
  <2>5. \A m \in N : n \notin Slots[m]
    BY <1>1, <2>1 DEF IsTile
  <2> QED
    BY <1>2, <2>1, <2>4, <2>5
<1>4. Pass(T, U, l, N)
  BY <1>1, <1>2, <1>3 DEF Pass
<1>5. \A n \in N : U[n] = T[First[n]]
  BY <1>2, <1>3
<1> QED
  BY <1>4, <1>5 DEF N, U

\* prune() is a chain of passes.
LEMMA PruneWithinPasses ==
    ASSUME NEW T, WellFormed(T), NEW tolerance
    PROVE  \E up, con :
              /\ Passes(up, con, 0)
              /\ up[0] = T
              /\ PruneWithin(T, tolerance) = EraseBackgroundTiles(up[RootLevel])
              /\ \A l \in 1 .. RootLevel :
                    /\ con[l] = ConstantNodes(up[l - 1], l, tolerance)
                    /\ up[l] = PruneLevel(up[l - 1], l, tolerance)
                    /\ \A n \in con[l] : up[l][n] = up[l - 1][First[n]]
<1>1. PICK up : /\ up[0] = T
                /\ \A l \in 1 .. RootLevel : up[l] = PruneLevel(up[l - 1], l, tolerance)
                /\ PruneWithin(T, tolerance) = EraseBackgroundTiles(up[RootLevel])
  BY PruneWithinLevels
<1> DEFINE con == [l \in 1 .. RootLevel |-> ConstantNodes(up[l - 1], l, tolerance)]
<1>2. \A l \in 1 .. RootLevel : con[l] = ConstantNodes(up[l - 1], l, tolerance)
  OBVIOUS
<1> HIDE DEF con
<1>3. RootLevel \in Nat /\ RootLevel > 1
  BY RootLevelNat
<1> DEFINE S == {l \in Nat : WellFormed(up[l])}
<1>4. ASSUME NEW l \in 1 .. RootLevel, WellFormed(up[l - 1])
      PROVE  /\ Pass(up[l - 1], up[l], l, con[l])
             /\ \A n \in con[l] : up[l][n] = up[l - 1][First[n]]
  BY <1>1, <1>2, <1>4, PruneLevelPass
<1>5. ASSUME NEW l \in 0 + 1 .. RootLevel, l - 1 \in S PROVE l \in S
  <2>1. l \in 1 .. RootLevel /\ l \in Nat /\ WellFormed(up[l - 1])
    BY <1>3, <1>5
  <2>2. WellFormed(up[l])
    BY <1>4, <2>1, PassMerges
  <2> QED
    BY <2>1, <2>2
<1>6. 0 \in S
  BY <1>1
<1> HIDE DEF S
<1>7. \A l \in 0 .. RootLevel : l \in S
  BY <1>3, <1>5, <1>6, Climb
<1>8. \A l \in 1 .. RootLevel : l - 1 \in 0 .. RootLevel
  BY <1>3
<1>9. \A l \in 1 .. RootLevel : WellFormed(up[l - 1])
  BY <1>7, <1>8 DEF S
<1>10. Passes(up, con, 0)
  <2>1. \A l \in 0 + 1 .. RootLevel : Pass(up[l - 1], up[l], l, con[l])
    BY <1>4, <1>9
  <2> QED
    BY <1>1, <1>3, <2>1 DEF Passes
<1>11. \A l \in 1 .. RootLevel :
          /\ con[l] = ConstantNodes(up[l - 1], l, tolerance)
          /\ up[l] = PruneLevel(up[l - 1], l, tolerance)
          /\ \A n \in con[l] : up[l][n] = up[l - 1][First[n]]
  BY <1>1, <1>2, <1>4, <1>9
<1> QED
  BY <1>1, <1>10, <1>11

\* Whether a node is constant depends on its entries alone.
LEMMA ConstantByEntries ==
    ASSUME NEW T, NEW U, NEW c \in Cells, Level[c] > 0, NEW tolerance,
           \A s \in Slots[c] : s \in DOMAIN T /\ s \in DOMAIN U /\ U[s] = T[s],
           IsConstant(U, c, tolerance)
    PROVE  IsConstant(T, c, tolerance)
<1>1. First[c] \in Slots[c]
  BY FirstFacts
<1>2. U[First[c]] = T[First[c]] /\ First[c] \in DOMAIN T
  BY <1>1
<1> QED
  BY <1>1, <1>2 DEF IsConstant, IsTile

\* prune() leaves no node that it could replace.
LEMMA OneCallLemma ==
    ASSUME NEW T, WellFormed(T), mBackground \in Values, NEW tolerance,
           NEW c \in Nodes(PruneWithin(T, tolerance))
    PROVE  ~ IsConstant(PruneWithin(T, tolerance), c, tolerance)
<1>1. PICK up, con :
          /\ Passes(up, con, 0)
          /\ up[0] = T
          /\ PruneWithin(T, tolerance) = EraseBackgroundTiles(up[RootLevel])
          /\ \A l \in 1 .. RootLevel :
                /\ con[l] = ConstantNodes(up[l - 1], l, tolerance)
                /\ up[l] = PruneLevel(up[l - 1], l, tolerance)
                /\ \A n \in con[l] : up[l][n] = up[l - 1][First[n]]
  BY PruneWithinPasses
<1> DEFINE V == up[RootLevel]
           E == PruneWithin(T, tolerance)
<1>2. RootLevel \in 0 .. RootLevel
  BY RootLevelNat
<1>3. WellFormed(V)
  BY <1>1, <1>2, PassesShape
<1>4. /\ c \in Nodes(V)
      /\ \A s \in Slots[c] : s \in DOMAIN V /\ s \in DOMAIN E /\ E[s] = V[s]
  BY <1>1, <1>3, ErasedNodes
<1>5. c \in Cells /\ Level[c] > 0
  BY <1>3, <1>4, Shape DEF Nodes, IsChild
<1>6. /\ Level[c] \in 0 + 1 .. RootLevel
      /\ c \in Nodes(up[Level[c] - 1]) /\ c \notin con[Level[c]]
      /\ \A s \in Slots[c] : /\ s \in DOMAIN V /\ s \in DOMAIN up[Level[c] - 1]
                             /\ V[s] = up[Level[c] - 1][s]
  BY <1>1, <1>4, <1>5, PassesLeave
<1> HIDE DEF V, E
<1>7. ASSUME IsConstant(E, c, tolerance) PROVE FALSE
  <2>1. \A s \in Slots[c] : /\ s \in DOMAIN up[Level[c] - 1] /\ s \in DOMAIN E
                            /\ E[s] = up[Level[c] - 1][s]
    BY <1>4, <1>6
  <2>2. IsConstant(up[Level[c] - 1], c, tolerance)
    BY <1>5, <1>7, <2>1, ConstantByEntries
  <2>3. con[Level[c]] = ConstantNodes(up[Level[c] - 1], Level[c], tolerance)
    BY <1>1, <1>6
  <2> QED
    BY <1>6, <2>2, <2>3 DEF ConstantNodes
<1> QED
  BY <1>7 DEF E

\* prune() keeps active states, and moves a value by at most the tolerance for
\* every level.
LEMMA ErrorLemma ==
    ASSUME NEW T, WellFormed(T), mBackground \in Values, NEW tolerance \in Nat, NEW x \in Voxels
    PROVE  /\ Stored(PruneWithin(T, tolerance), x).active = Stored(T, x).active
           /\ Near(Stored(PruneWithin(T, tolerance), x).value, Stored(T, x).value,
                   RootLevel * tolerance)
<1>1. PICK up, con :
          /\ Passes(up, con, 0)
          /\ up[0] = T
          /\ PruneWithin(T, tolerance) = EraseBackgroundTiles(up[RootLevel])
          /\ \A l \in 1 .. RootLevel :
                /\ con[l] = ConstantNodes(up[l - 1], l, tolerance)
                /\ up[l] = PruneLevel(up[l - 1], l, tolerance)
                /\ \A n \in con[l] : up[l][n] = up[l - 1][First[n]]
  BY PruneWithinPasses
<1>2. RootLevel \in Nat /\ RootLevel \in 0 .. RootLevel
  BY RootLevelNat
<1>3. ASSUME NEW l \in 0 + 1 .. RootLevel, NEW n \in con[l], NEW s \in Slots[n]
      PROVE  /\ up[l][n].active = up[l - 1][s].active
             /\ Near(up[l][n].value, up[l - 1][s].value, tolerance)
  <2> DEFINE F == up[l - 1][First[n]]
             G == up[l - 1][s]
  <2>1. l \in 1 .. RootLevel /\ l - 1 \in 0 .. RootLevel
    BY <1>2
  <2>2. WellFormed(up[l - 1])
    BY <1>1, <2>1, PassesShape
  <2>3. n \in ConstantNodes(up[l - 1], l, tolerance) /\ up[l][n] = F
    BY <1>1, <2>1
  <2>4. IsConstant(up[l - 1], n, tolerance)
    BY <2>3 DEF ConstantNodes
  <2>5. /\ IsTile(up[l - 1], s) /\ IsTile(up[l - 1], First[n])
        /\ G.active = F.active /\ Near(G.value, F.value, tolerance)
    BY <2>4 DEF IsConstant
  <2>6. F \in Tile /\ G \in Tile
    BY <2>2, <2>5, Shape DEF IsTile
  <2> HIDE DEF F, G
  <2>7. F.value \in Int /\ G.value \in Int
    BY <2>6, ContentsTyped DEF Tile
  <2>8. Near(F.value, G.value, tolerance)
    BY <2>5, <2>7 DEF Near
  <2> QED
    BY <2>3, <2>5, <2>8 DEF G
<1> DEFINE V == up[RootLevel]
<1>4. /\ Stored(V, x).active = Stored(up[0], x).active
      /\ Near(Stored(V, x).value, Stored(up[0], x).value, RootLevel * tolerance)
  BY <1>1, <1>3, PassesDrift
<1>5. WellFormed(V)
  BY <1>1, <1>2, PassesShape
<1> HIDE DEF V
<1>6. Stored(EraseBackgroundTiles(V), x) = Stored(V, x)
  BY <1>5, EraseBackgroundLemma
<1> QED
  BY <1>1, <1>4, <1>6 DEF V

\* Two tiles without any distance between their values, and with one active state,
\* are the same.
LEMMA NearNothing ==
    ASSUME NEW t \in Tile, NEW u \in Tile
    PROVE  (t.active = u.active /\ Near(t.value, u.value, 0)) <=> t = u
<1>1. t = [value |-> t.value, active |-> t.active] /\ u = [value |-> u.value, active |-> u.active]
  BY DEF Tile
<1>2. t.value \in Int /\ u.value \in Int
  BY ContentsTyped DEF Tile
<1>3. Near(t.value, u.value, 0) <=> t.value = u.value
  <2> DEFINE z == 0
  <2>1. z \in Int /\ z <= 0 /\ z >= 0
    OBVIOUS
  <2> HIDE DEF z
  <2>2. Near(t.value, u.value, z) <=> t.value = u.value
    BY <1>2, <2>1 DEF Near
  <2> QED
    BY <2>2 DEF z
<1> QED
  BY <1>1, <1>3

\* The nodes whose voxels all hold the same: those that Prune replaces.
UniformNodes(T) ==
    {c \in Cells : IsChild(T, c) /\ \A x, y \in VoxelsIn[c] : Stored(T, x) = Stored(T, y)}

\* The voxels in an entry are voxels in its node, and what a tile holds they hold.
LEMMA VoxelsOfSlot ==
    ASSUME NEW n \in Cells, NEW s \in Slots[n]
    PROVE  /\ VoxelsIn[s] # {}
           /\ \A x \in VoxelsIn[s] : x \in Voxels /\ x \in VoxelsIn[n] /\ s \in Above[x]
<1>1. s \in Cells /\ n \in Parents[s]
  BY SlotFacts
<1>2. n \in Above[s]
  BY <1>1, Chain
<1>3. ASSUME NEW x \in VoxelsIn[s] PROVE x \in Voxels /\ x \in VoxelsIn[n] /\ s \in Above[x]
  <2>1. x \in Voxels /\ s \in Above[x] /\ x \in Cells
    BY <1>1, VoxelInside DEF Voxels
  <2>2. n \in Above[x]
    BY <1>2, <2>1, Chain
  <2> QED
    BY <2>1, <2>2, VoxelInside
<1> QED
  BY <1>1, <1>3, VoxelInside

\* With no tolerance a node is constant when its voxels all hold the same, once its
\* children have been looked at: U is what they left of T.
LEMMA ConstantIsUniform ==
    ASSUME NEW T, WellFormed(T), NEW U, WellFormed(U), mBackground \in Values,
           \A x \in Voxels : Stored(U, x) = Stored(T, x),
           NEW n \in Nodes(U), n \in Nodes(T),
           \A s \in Slots[n] : s \in Nodes(U) => s \in Nodes(T) /\ s \notin UniformNodes(T)
    PROVE  IsConstant(U, n, 0) <=> n \in UniformNodes(T)
<1>1. n \in Cells /\ IsChild(T, n) /\ n \in DOMAIN U /\ U[n] = Child
  BY DEF Nodes, IsChild
<1>2. Level[n] > 0 /\ Slots[n] \subseteq DOMAIN U
  BY <1>1, Shape
<1>3. First[n] \in Slots[n]
  BY <1>1, <1>2, FirstFacts
<1>4. \A s \in Slots[n] : s \in Cells
  BY <1>1, SlotFacts
<1>5. ASSUME NEW s \in Slots[n], IsTile(U, s), NEW x \in VoxelsIn[s]
      PROVE  x \in VoxelsIn[n] /\ Stored(T, x) = U[s] /\ U[s] \in Tile
  <2>1. x \in Voxels /\ x \in VoxelsIn[n] /\ s \in Above[x] /\ x \in Cells
    BY <1>1, VoxelsOfSlot DEF Voxels
  <2>2. Stored(U, x) = U[s]
    BY <1>5, <2>1, StoredTile
  <2>3. U[s] \in Tile
    BY <1>5, Shape DEF IsTile
  <2> QED
    BY <2>1, <2>2, <2>3
<1>6. ASSUME IsConstant(U, n, 0) PROVE n \in UniformNodes(T)
  <2>1. ASSUME NEW x \in VoxelsIn[n] PROVE Stored(T, x) = U[First[n]]
    <3>1. x \in Voxels /\ x \in Cells /\ n \in Above[x] /\ Level[x] = 0
      BY <1>1, VoxelInside DEF Voxels
    <3>2. n \in Parents[x]
      BY <1>2, <3>1, Chain
    <3>3. PICK s \in Slots[n] : s \in Above[x]
      BY <3>1, <3>2, SlotTowards
    <3>4. IsTile(U, s) /\ IsTile(U, First[n]) /\ U[s].active = U[First[n]].active
          /\ Near(U[s].value, U[First[n]].value, 0)
      BY <1>6, <3>3 DEF IsConstant
    <3>5. x \in VoxelsIn[s]
      BY <1>4, <3>1, <3>3, VoxelInside
    <3>6. Stored(T, x) = U[s]
      BY <1>5, <3>3, <3>4, <3>5
    <3>7. U[s] \in Tile /\ U[First[n]] \in Tile
      BY <3>4, Shape DEF IsTile
    <3>8. U[s] = U[First[n]]
      BY <3>4, <3>7, NearNothing
    <3> QED
      BY <3>6, <3>8
  <2> QED
    BY <1>1, <2>1 DEF UniformNodes
<1>7. ASSUME n \in UniformNodes(T) PROVE IsConstant(U, n, 0)
  <2>1. \A x, y \in VoxelsIn[n] : Stored(T, x) = Stored(T, y)
    BY <1>7 DEF UniformNodes
  <2>2. ASSUME NEW s \in Slots[n] PROVE IsTile(U, s)
    <3>1. ASSUME ~ IsTile(U, s) PROVE FALSE
      <4>1. s \in Nodes(U)
        BY <1>2, <1>4, <3>1 DEF IsTile, IsChild, Nodes
      <4>2. s \in Nodes(T) /\ s \notin UniformNodes(T)
        BY <4>1
      <4>3. \A x, y \in VoxelsIn[s] : Stored(T, x) = Stored(T, y)
        BY <1>1, <2>1, VoxelsOfSlot
      <4> QED
        BY <4>2, <4>3 DEF UniformNodes, Nodes
    <3> QED
      BY <3>1
  <2>3. ASSUME NEW s \in Slots[n] PROVE U[s] = U[First[n]] /\ U[s] \in Tile
    <3>1. PICK x \in VoxelsIn[s] : TRUE
      BY <1>1, VoxelsOfSlot
    <3>2. PICK y \in VoxelsIn[First[n]] : TRUE
      BY <1>1, <1>3, VoxelsOfSlot
    <3>3. x \in VoxelsIn[n] /\ Stored(T, x) = U[s] /\ U[s] \in Tile
      BY <1>5, <2>2
    <3>4. y \in VoxelsIn[n] /\ Stored(T, y) = U[First[n]]
      BY <1>3, <1>5, <2>2
    <3> QED
      BY <2>1, <3>3, <3>4
  <2>4. ASSUME NEW s \in Slots[n]
        PROVE  /\ IsTile(U, s) /\ IsTile(U, First[n])
               /\ U[s].active = U[First[n]].active
               /\ Near(U[s].value, U[First[n]].value, 0)
    <3>1. U[s] = U[First[n]] /\ U[s] \in Tile /\ U[First[n]] \in Tile
      BY <1>3, <2>3
    <3>2. U[s].active = U[First[n]].active /\ Near(U[s].value, U[First[n]].value, 0)
      BY <3>1, NearNothing
    <3> QED
      BY <1>3, <2>2, <3>2
  <2> QED
    BY <2>4 DEF IsConstant
<1> QED
  BY <1>6, <1>7

\* Those of the lowest levels, and what Prune makes of the tree.
UniformTo(T, l) == {c \in UniformNodes(T) : Level[c] <= l}

Merged(T) == [c \in DOMAIN T \ UNION {Below[d] : d \in UniformNodes(T)} |->
                IF c \in UniformNodes(T) THEN Stored(T, CHOOSE x \in VoxelsIn[c] : TRUE) ELSE T[c]]

\* U is T with its uniform nodes merged, up to those of level l.
MergedTo(T, U, l) ==
    /\ \A x \in Voxels : Stored(U, x) = Stored(T, x)
    /\ Nodes(U) = Nodes(T) \ UniformTo(T, l)
    /\ DOMAIN U = {c \in DOMAIN T : Parents[c] \intersect UniformTo(T, l) = {}}
    /\ \A c \in DOMAIN U : c \notin UniformTo(T, l) => U[c] = T[c]

\* A pass without tolerance merges the uniform nodes of its level.
LEMMA MergedStep ==
    ASSUME NEW T, WellFormed(T), NEW U, WellFormed(U), NEW V, WellFormed(V),
           mBackground \in Values, NEW l \in 1 .. RootLevel, MergedTo(T, U, l - 1),
           NEW N, N = ConstantNodes(U, l, 0), Pass(U, V, l, N), \A n \in N : V[n] = U[First[n]]
    PROVE  MergedTo(T, V, l)
<1>1. l \in Int /\ \A c \in UniformNodes(T) : c \in Cells /\ Level[c] \in Int /\ c \in Nodes(T)
  BY RootLevelNat, Chain DEF UniformNodes, Nodes
<1>2. UniformTo(T, l) = UniformTo(T, l - 1) \union {c \in UniformNodes(T) : Level[c] = l}
  BY <1>1 DEF UniformTo
<1>3. \A c \in UniformTo(T, l - 1) : Level[c] # l
  BY <1>1 DEF UniformTo
<1>4. Nodes(U) = Nodes(T) \ UniformTo(T, l - 1) /\ \A x \in Voxels : Stored(U, x) = Stored(T, x)
  BY DEF MergedTo
<1>5. ASSUME NEW n \in Nodes(U), Level[n] = l
      PROVE  IsConstant(U, n, 0) <=> n \in UniformNodes(T)
  <2>1. n \in Nodes(T) /\ n \in Cells
    BY <1>4 DEF Nodes
  <2>2. ASSUME NEW s \in Slots[n], s \in Nodes(U)
        PROVE  s \in Nodes(T) /\ s \notin UniformNodes(T)
    <3>1. Level[s] = l - 1
      BY <1>5, <2>1, SlotFacts
    <3>2. s \in Nodes(T) /\ s \notin UniformTo(T, l - 1)
      BY <1>4, <2>2
    <3> QED
      BY <1>1, <3>1, <3>2 DEF UniformTo
  <2> QED
    BY <1>4, <2>1, <2>2, ConstantIsUniform
<1>6. N = {c \in UniformNodes(T) : Level[c] = l}
  <2>1. ASSUME NEW n \in N PROVE n \in UniformNodes(T) /\ Level[n] = l
    BY <1>5 DEF ConstantNodes
  <2>2. ASSUME NEW c \in UniformNodes(T), Level[c] = l PROVE c \in N
    <3>1. c \in Nodes(U)
      BY <1>1, <1>3, <1>4, <2>2
    <3> QED
      BY <1>5, <2>2, <3>1 DEF ConstantNodes
  <2> QED
    BY <2>1, <2>2
<1>7. UniformTo(T, l) = UniformTo(T, l - 1) \union N
  BY <1>2, <1>6
<1>8. Nodes(V) = Nodes(T) \ UniformTo(T, l)
  <2>1. Nodes(V) = Nodes(U) \ N
    BY PassNodes
  <2> QED
    BY <1>4, <1>7, <2>1
<1>9. DOMAIN V = {c \in DOMAIN T : Parents[c] \intersect UniformTo(T, l) = {}}
  <2>1. DOMAIN V = {c \in DOMAIN U : Parents[c] \intersect N = {}}
    <3>1. MergedAt(U, N, V)
      BY PassMerges
    <3> QED
      BY <3>1 DEF MergedAt
  <2>2. DOMAIN U = {c \in DOMAIN T : Parents[c] \intersect UniformTo(T, l - 1) = {}}
    BY DEF MergedTo
  <2> QED
    BY <1>7, <2>1, <2>2
<1>10. ASSUME NEW c \in DOMAIN V, c \notin UniformTo(T, l) PROVE V[c] = T[c]
  <2>1. c \in DOMAIN U /\ V[c] = U[c]
    BY <1>7, <1>10, PassNodes
  <2> QED
    BY <1>7, <1>10, <2>1 DEF MergedTo
<1>11. ASSUME NEW x \in Voxels PROVE Stored(V, x) = Stored(T, x)
  <2>1. CASE \E n \in N : \E s \in Slots[n] : Stored(U, x) = U[s] /\ Stored(V, x) = V[n]
    <3>1. PICK n \in N : \E s \in Slots[n] : Stored(U, x) = U[s] /\ Stored(V, x) = V[n]
      BY <2>1
    <3>2. PICK s \in Slots[n] : Stored(U, x) = U[s] /\ Stored(V, x) = V[n]
      BY <3>1
    <3>3. IsConstant(U, n, 0) /\ V[n] = U[First[n]]
      BY DEF ConstantNodes
    <3>4. /\ IsTile(U, s) /\ IsTile(U, First[n]) /\ U[s].active = U[First[n]].active
          /\ Near(U[s].value, U[First[n]].value, 0)
      BY <3>3 DEF IsConstant
    <3>5. U[s] \in Tile /\ U[First[n]] \in Tile
      BY <3>4, Shape DEF IsTile
    <3>6. U[s] = U[First[n]]
      BY <3>4, <3>5, NearNothing
    <3> QED
      BY <1>4, <3>2, <3>3, <3>6
  <2>2. CASE Stored(V, x) = Stored(U, x)
    BY <1>4, <2>2
  <2>3. \/ \E n \in N : \E s \in Slots[n] : Stored(U, x) = U[s] /\ Stored(V, x) = V[n]
        \/ Stored(V, x) = Stored(U, x)
    BY PassHeld
  <2> QED
    BY <2>1, <2>2, <2>3
<1> QED
  BY <1>8, <1>9, <1>10, <1>11 DEF MergedTo

\* prune() with no tolerance leaves what Prune says.
LEMMA RecursionLemma ==
    ASSUME NEW T, WellFormed(T), mBackground \in Values
    PROVE  PruneWithin(T, 0) = Prune(T)
<1>1. PICK up, con :
          /\ Passes(up, con, 0)
          /\ up[0] = T
          /\ PruneWithin(T, 0) = EraseBackgroundTiles(up[RootLevel])
          /\ \A l \in 1 .. RootLevel :
                /\ con[l] = ConstantNodes(up[l - 1], l, 0)
                /\ up[l] = PruneLevel(up[l - 1], l, 0)
                /\ \A n \in con[l] : up[l][n] = up[l - 1][First[n]]
  BY PruneWithinPasses
<1>2. RootLevel \in Nat /\ RootLevel > 1 /\ RootLevel \in 0 .. RootLevel /\ RootLevel \in 1 .. RootLevel
  BY RootLevelNat
<1> DEFINE S == {l \in Nat : MergedTo(T, up[l], l)}
<1>3. 0 \in S
  <2>1. UniformTo(T, 0) = {}
    <3>1. ASSUME NEW c \in UniformNodes(T) PROVE ~ (Level[c] <= 0)
      <4>1. c \in Cells /\ c \in DOMAIN T /\ T[c] = Child
        BY DEF UniformNodes, IsChild
      <4>2. Level[c] > 0 /\ Level[c] \in Int
        BY <4>1, Shape, Chain
      <4> QED
        BY <4>2
    <3> QED
      BY <3>1 DEF UniformTo
  <2>2. MergedTo(T, T, 0)
    BY <2>1 DEF MergedTo
  <2> QED
    BY <1>1, <2>2
<1>4. ASSUME NEW l \in 0 + 1 .. RootLevel, l - 1 \in S PROVE l \in S
  <2>1. l \in 1 .. RootLevel /\ l \in 0 .. RootLevel /\ l - 1 \in 0 .. RootLevel /\ l \in Nat
    BY <1>2
  <2>2. WellFormed(up[l - 1]) /\ WellFormed(up[l]) /\ MergedTo(T, up[l - 1], l - 1)
    BY <1>1, <1>4, <2>1, PassesShape
  <2>3. /\ Pass(up[l - 1], up[l], l, con[l])
        /\ con[l] = ConstantNodes(up[l - 1], l, 0)
        /\ \A n \in con[l] : up[l][n] = up[l - 1][First[n]]
    BY <1>1, <2>1 DEF Passes
  <2>4. MergedTo(T, up[l], l)
    BY <2>1, <2>2, <2>3, MergedStep
  <2> QED
    BY <2>1, <2>4
<1> HIDE DEF S
<1>5. \A l \in 0 .. RootLevel : l \in S
  BY <1>2, <1>3, <1>4, Climb
<1> DEFINE V == up[RootLevel]
<1>6. MergedTo(T, V, RootLevel)
  BY <1>2, <1>5 DEF S
<1>7. WellFormed(V)
  BY <1>1, <1>2, PassesShape
<1>8. V = [c \in DOMAIN V |-> V[c]]
  <2>1. V = PruneLevel(up[RootLevel - 1], RootLevel, 0)
    BY <1>1, <1>2
  <2> HIDE DEF V
  <2> QED
    BY <2>1 DEF PruneLevel
<1> HIDE DEF V
<1>9. UniformTo(T, RootLevel) = UniformNodes(T)
  BY Chain DEF UniformTo, UniformNodes
<1>10. DOMAIN V = DOMAIN T \ UNION {Below[d] : d \in UniformNodes(T)}
  <2>1. DOMAIN T \in SUBSET Cells /\ UniformNodes(T) \in SUBSET Cells
    BY DEF WellFormed, UniformNodes
  <2>2. DOMAIN T \ UNION {Below[d] : d \in UniformNodes(T)}
          = {c \in DOMAIN T : Parents[c] \intersect UniformNodes(T) = {}}
    BY <2>1, NotBelow
  <2> QED
    BY <1>6, <1>9, <2>2 DEF MergedTo
<1>11. ASSUME NEW c \in DOMAIN V, c \in UniformNodes(T)
       PROVE  V[c] = Stored(T, CHOOSE x \in VoxelsIn[c] : TRUE)
  <2> DEFINE y == CHOOSE x \in VoxelsIn[c] : TRUE
  <2>1. c \in Cells
    BY <1>11 DEF UniformNodes
  <2>2. y \in VoxelsIn[c]
    BY <2>1, VoxelInside
  <2> HIDE DEF y
  <2>3. y \in Voxels /\ y \in Cells /\ c \in Above[y]
    BY <2>1, <2>2, VoxelInside DEF Voxels
  <2>4. c \notin Nodes(V)
    BY <1>6, <1>9, <1>11 DEF MergedTo
  <2>5. IsTile(V, c)
    BY <2>1, <2>4 DEF Nodes, IsChild, IsTile
  <2>6. Stored(V, y) = V[c]
    BY <1>7, <2>3, <2>5, StoredTile
  <2>7. Stored(V, y) = Stored(T, y)
    BY <1>6, <2>3 DEF MergedTo
  <2> QED
    BY <2>6, <2>7 DEF y
<1>12. \A c \in DOMAIN V : c \notin UniformNodes(T) => V[c] = T[c]
  BY <1>6, <1>9 DEF MergedTo
<1>13. V = Merged(T)
  <2>1. Merged(T) = [c \in DOMAIN V |-> IF c \in UniformNodes(T)
                                        THEN Stored(T, CHOOSE x \in VoxelsIn[c] : TRUE) ELSE T[c]]
    BY <1>10 DEF Merged
  <2>2. \A c \in DOMAIN V : V[c] = IF c \in UniformNodes(T)
                                   THEN Stored(T, CHOOSE x \in VoxelsIn[c] : TRUE) ELSE T[c]
    BY <1>11, <1>12
  <2> QED
    BY <1>8, <2>1, <2>2, Zenon
<1>14. Prune(T) = EraseBackgroundTiles(Merged(T))
  BY DEF Prune, Merged, UniformNodes
<1> QED
  BY <1>1, <1>13, <1>14 DEF V

-------------------------------------------------------------------------------
(* TreeTools: the prune functions.                                         *)

\* A finite set of entries has one with the largest value.
LEMMA Largest ==
    ASSUME NEW S, IsFiniteSet(S), S # {}, NEW f \in [S -> Int]
    PROVE  \E a \in S : \A b \in S : f[b] <= f[a]
<1> DEFINE larger(a) == {b \in S : f[b] > f[a]}
           D == {Cardinality(larger(a)) : a \in S}
<1>1. \A a \in S : IsFiniteSet(larger(a)) /\ Cardinality(larger(a)) \in Nat
  BY FS_Subset, FS_CardinalityType
<1>2. D \in SUBSET Nat /\ D # {}
  BY <1>1
<1>3. PICK m \in D : \A k \in D : m <= k
  BY <1>2, Least
<1>4. PICK a \in S : Cardinality(larger(a)) = m
  OBVIOUS
<1>5. ASSUME NEW b \in S, f[b] > f[a] PROVE FALSE
  <2>1. larger(b) \subseteq larger(a) /\ b \in larger(a) /\ b \notin larger(b)
    BY <1>5
  <2> HIDE DEF larger
  <2>2. Cardinality(larger(b)) < Cardinality(larger(a))
    BY <1>1, <2>1, FS_Subset
  <2>3. m <= Cardinality(larger(b))
    BY <1>3
  <2> QED
    BY <1>1, <1>4, <2>2, <2>3
<1> QED
  BY <1>5

\* The entries of a node that are smaller than v, and those that are not larger.
Smaller(T, n, v) == {c \in Slots[n] : T[c].value < v}
UpTo(T, n, v) == {c \in Slots[n] : T[c].value <= v}

\* There is a lower median.
LEMMA MedianExists ==
    ASSUME NEW T, NEW n \in Cells, Level[n] > 0, \A c \in Slots[n] : T[c].value \in Int
    PROVE  \E a \in Slots[n] :
              /\ Cardinality(Smaller(T, n, T[a].value)) <= (Cardinality(Slots[n]) - 1) \div 2
              /\ (Cardinality(Slots[n]) - 1) \div 2 < Cardinality(UpTo(T, n, T[a].value))
<1> DEFINE k == Cardinality(Slots[n])
           middle == (k - 1) \div 2
           W == {c \in Slots[n] : middle < Cardinality(UpTo(T, n, T[c].value))}
<1>1. IsFiniteSet(Slots[n]) /\ Slots[n] # {}
  BY ToolsAssumption, FirstFacts
<1>2. k \in Nat /\ k # 0
  BY <1>1, FS_CardinalityType, FS_EmptySet
<1> HIDE DEF k
<1>3. middle \in Nat /\ middle < k
  BY <1>2
<1> HIDE DEF middle
<1>4. \A v : /\ IsFiniteSet(Smaller(T, n, v)) /\ IsFiniteSet(UpTo(T, n, v))
             /\ Cardinality(Smaller(T, n, v)) \in Nat /\ Cardinality(UpTo(T, n, v)) \in Nat
  <2>1. \A v : Smaller(T, n, v) \subseteq Slots[n] /\ UpTo(T, n, v) \subseteq Slots[n]
    BY DEF Smaller, UpTo
  <2> QED
    BY <1>1, <2>1, FS_Subset, FS_CardinalityType
<1>5. W # {}
  <2> DEFINE f == [c \in Slots[n] |-> T[c].value]
  <2>1. f \in [Slots[n] -> Int]
    OBVIOUS
  <2>2. PICK a \in Slots[n] : \A b \in Slots[n] : f[b] <= f[a]
    BY <1>1, <2>1, Largest
  <2>3. UpTo(T, n, T[a].value) = Slots[n]
    BY <2>2 DEF UpTo
  <2>4. a \in W
    BY <1>3, <2>3 DEF k
  <2> QED
    BY <2>4
<1>6. PICK a \in W : \A b \in W : T[a].value <= T[b].value
  <2> DEFINE f == [c \in W |-> -T[c].value]
  <2>1. W \subseteq Slots[n]
    OBVIOUS
  <2>2. IsFiniteSet(W)
    BY <1>1, <2>1, FS_Subset
  <2>3. f \in [W -> Int]
    BY <2>1
  <2> HIDE DEF W
  <2>4. PICK a \in W : \A b \in W : f[b] <= f[a]
    <3> HIDE DEF f
    <3> QED
      BY <1>5, <2>2, <2>3, Largest
  <2>5. ASSUME NEW b \in W PROVE T[a].value <= T[b].value
    <3>1. f[b] <= f[a] /\ f[b] = -T[b].value /\ f[a] = -T[a].value
      BY <2>4
    <3>2. T[a].value \in Int /\ T[b].value \in Int
      BY <2>1
    <3> QED
      BY <3>1, <3>2
  <2> QED
    BY <2>5
<1>7. a \in Slots[n] /\ middle < Cardinality(UpTo(T, n, T[a].value))
  OBVIOUS
<1>8. ASSUME middle < Cardinality(Smaller(T, n, T[a].value)) PROVE FALSE
  <2> DEFINE B == Smaller(T, n, T[a].value)
             f == [c \in B |-> T[c].value]
  <2>1. B \subseteq Slots[n] /\ \A b \in B : T[b].value < T[a].value
    BY DEF Smaller
  <2>2. B # {}
    BY <1>3, <1>8, FS_EmptySet
  <2>3. IsFiniteSet(B)
    BY <1>4
  <2>4. f \in [B -> Int]
    BY <2>1
  <2>5. PICK b \in B : \A c \in B : T[c].value <= T[b].value
    <3>1. PICK b \in B : \A c \in B : f[c] <= f[b]
      <4> HIDE DEF f, B
      <4> QED
        BY <2>2, <2>3, <2>4, Largest
    <3> QED
      BY <3>1
  <2>6. B = UpTo(T, n, T[b].value)
    <3>1. T[b].value < T[a].value /\ T[a].value \in Int /\ T[b].value \in Int
      BY <1>7, <2>1
    <3>2. ASSUME NEW c \in Slots[n] PROVE c \in B <=> T[c].value <= T[b].value
      <4>1. T[c].value \in Int
        OBVIOUS
      <4>2. c \in B => T[c].value <= T[b].value
        BY <2>5
      <4>3. c \in B <=> T[c].value < T[a].value
        BY DEF Smaller
      <4> QED
        BY <3>1, <4>1, <4>2, <4>3
    <3> QED
      BY <2>1, <3>2 DEF UpTo
  <2>7. b \in W
    BY <1>8, <2>1, <2>6
  <2>8. T[a].value <= T[b].value /\ T[b].value < T[a].value
    BY <1>6, <2>1, <2>7
  <2> QED
    BY <1>7, <2>1, <2>8
<1>9. Cardinality(Smaller(T, n, T[a].value)) <= middle
  BY <1>3, <1>4, <1>8
<1> QED
  BY <1>7, <1>9 DEF middle, k

\* The median is the value of an entry.
LEMMA MedianFacts ==
    ASSUME NEW T, NEW n \in Cells, Level[n] > 0, \A c \in Slots[n] : T[c].value \in Int
    PROVE  \E a \in Slots[n] : Median(T, n) = T[a].value
<1> DEFINE M == {T[c].value : c \in Slots[n]}
           middle == (Cardinality(Slots[n]) - 1) \div 2
           P(v) == Cardinality(Smaller(T, n, v)) <= middle /\ middle < Cardinality(UpTo(T, n, v))
<1>1. \E v \in M : P(v)
  <2>1. PICK a \in Slots[n] : P(T[a].value)
    BY MedianExists
  <2> QED
    BY <2>1
<1>2. Median(T, n) = CHOOSE v \in M : P(v)
  BY DEF Median, Smaller, UpTo
<1> HIDE DEF P
<1>3. Median(T, n) \in M
  BY <1>1, <1>2
<1> QED
  BY <1>3

\* The nodes that a pruner replaces at one level, and what it leaves of the tree.
PrunedNodes(T, l, pruner) == {n \in Nodes(T) : Level[n] = l /\ IsPruned(T, n, pruner)}

PrunedLevel(T, l, pruner) ==
    [c \in DOMAIN T \ UNION {Slots[n] : n \in PrunedNodes(T, l, pruner)} |->
        IF c \in PrunedNodes(T, l, pruner) THEN PruneTile(T, c, pruner) ELSE T[c]]

\* The levels of Pruned, one from the other.
LEMMA PrunedLevels ==
    ASSUME NEW T, NEW pruner, NEW lowest \in 1 .. 2
    PROVE  \E up : /\ up[lowest - 1] = T
                   /\ \A l \in lowest .. RootLevel : up[l] = PrunedLevel(up[l - 1], l, pruner)
                   /\ Pruned(T, pruner, lowest) = EraseBackgroundTiles(up[RootLevel])
<1> DEFINE lo == lowest - 1
           Next1(f, l) == IF l < lowest THEN T ELSE PrunedLevel(f[l - 1], l, pruner)
           S == {m \in Nat : \E f : f = [l \in lo .. m |-> Next1(f, l)]}
<1>1. RootLevel \in Nat /\ RootLevel > 1 /\ lowest \in Nat /\ lo \in Nat /\ lo < lowest
      /\ lo + 1 = lowest /\ lo <= RootLevel
  BY RootLevelNat
<1>2. lo \in S
  <2> DEFINE f == [l \in lo .. lo |-> T]
  <2>1. f = [l \in lo .. lo |-> Next1(f, l)]
    BY <1>1
  <2> QED
    BY <1>1, <2>1
<1>3. ASSUME NEW m \in lo + 1 .. RootLevel, m - 1 \in S PROVE m \in S
  <2>1. m \in Nat /\ m - 1 \in Nat /\ m > lo /\ m >= lowest
    BY <1>1
  <2>2. PICK f : f = [l \in lo .. m - 1 |-> Next1(f, l)]
    BY <1>3
  <2> DEFINE g == [l \in lo .. m |-> IF l = m THEN PrunedLevel(f[m - 1], m, pruner) ELSE f[l]]
  <2>3. \A l \in lo .. m - 1 : g[l] = f[l]
    BY <1>1, <2>1
  <2>4. ASSUME NEW l \in lo .. m PROVE g[l] = Next1(g, l)
    <3>1. CASE l = m
      <4>1. m - 1 \in lo .. m - 1 /\ ~ (l < lowest)
        BY <1>1, <2>1, <3>1
      <4>2. g[l] = PrunedLevel(f[m - 1], m, pruner) /\ g[m - 1] = f[m - 1]
        BY <2>3, <3>1, <4>1
      <4> HIDE DEF g
      <4> QED
        BY <3>1, <4>1, <4>2
    <3>2. CASE l = lo
      <4>1. l \in lo .. m - 1 /\ l < lowest
        BY <1>1, <2>1, <3>2
      <4>2. g[l] = f[l] /\ f[l] = Next1(f, l)
        BY <2>2, <2>3, <4>1
      <4> HIDE DEF g
      <4> QED
        BY <4>1, <4>2
    <3>3. CASE l \in lowest .. m - 1
      <4>1. l \in lo .. m - 1 /\ l - 1 \in lo .. m - 1 /\ ~ (l < lowest)
        BY <1>1, <2>1, <3>3
      <4>2. g[l] = f[l] /\ g[l - 1] = f[l - 1]
        BY <2>3, <4>1
      <4>3. f[l] = Next1(f, l)
        BY <2>2, <4>1
      <4> HIDE DEF g
      <4> QED
        BY <4>1, <4>2, <4>3
    <3> QED
      BY <1>1, <2>1, <3>1, <3>2, <3>3
  <2>5. g = [l \in lo .. m |-> Next1(g, l)]
    <3>1. g = [l \in lo .. m |-> g[l]]
      OBVIOUS
    <3> HIDE DEF g
    <3> QED
      BY <2>4, <3>1
  <2> HIDE DEF g
  <2> QED
    BY <2>1, <2>5
<1> HIDE DEF S
<1>4. RootLevel \in S
  <2> HIDE DEF lo
  <2>1. \A l \in lo .. RootLevel : l \in S
    BY <1>1, <1>2, <1>3, Climb
  <2> QED
    BY <1>1, <2>1
<1> DEFINE up == CHOOSE f : f = [l \in lo .. RootLevel |-> Next1(f, l)]
<1>5. up = [l \in lo .. RootLevel |-> Next1(up, l)]
  BY <1>4 DEF S
<1>6. Pruned(T, pruner, lowest) = EraseBackgroundTiles(up[RootLevel])
  BY DEF Pruned, PrunedLevel, PrunedNodes
<1> HIDE DEF up
<1>7. up[lo] = T /\ \A l \in lowest .. RootLevel : up[l] = PrunedLevel(up[l - 1], l, pruner)
  BY <1>1, <1>5
<1> QED
  BY <1>6, <1>7

\* What the pruners are.
LEMMA PrunerKinds ==
    ASSUME NEW pruner \in Pruners
    PROVE  \/ pruner.kind = "tolerance" /\ pruner.tolerance \in Nat
           \/ pruner.kind = "inactive" /\ pruner.value \in Values
           \/ pruner.kind = "levelset" /\ pruner.inside \in Values /\ pruner.outside \in Values
<1>1. CASE pruner \in [kind : {"tolerance"}, tolerance : Tolerances]
  BY <1>1, OffsetsAssumption
<1>2. CASE pruner \in [kind : {"inactive"}, value : Values]
  BY <1>2
<1>3. CASE \E w \in Widths : pruner = [kind |-> "levelset", outside |-> w.outside, inside |-> w.inside]
  BY <1>3, ToolsAssumption
<1> QED
  BY <1>1, <1>2, <1>3 DEF Pruners

\* The tile of a pruner stands for the entries of the node: with the same active
\* state and a value within the tolerance, or all of them are inactive.
LEMMA PruneTileFacts ==
    ASSUME NEW T, WellFormed(T), NEW n \in Nodes(T), NEW pruner \in Pruners,
           IsPruned(T, n, pruner)
    PROVE  /\ PruneTile(T, n, pruner) \in Tile
           /\ \A s \in Slots[n] :
                 /\ IsTile(T, s)
                 /\ pruner.kind = "tolerance" =>
                       /\ PruneTile(T, n, pruner).active = T[s].active
                       /\ Near(PruneTile(T, n, pruner).value, T[s].value, pruner.tolerance)
                 /\ pruner.kind # "tolerance" =>
                       PruneTile(T, n, pruner).active = FALSE /\ T[s].active = FALSE
<1>1. n \in Cells /\ n \in DOMAIN T /\ T[n] = Child
  BY DEF Nodes, IsChild
<1>2. Level[n] > 0 /\ Slots[n] \subseteq DOMAIN T
  BY <1>1, Shape
<1>3. First[n] \in Slots[n]
  BY <1>1, <1>2, FirstFacts
<1>4. ASSUME NEW s \in Slots[n] PROVE IsTile(T, s) /\ T[s] \in Tile
  <2>1. IsTile(T, s)
    BY DEF IsPruned, IsLevel, IsInactive
  <2> QED
    BY <1>2, <2>1, Shape
<1>5. \A s \in Slots[n] : /\ T[s].value \in Values /\ T[s].value \in Int
                          /\ T[s].active \in BOOLEAN
  BY <1>4, ContentsTyped DEF Tile
<1>6. CASE pruner.kind = "tolerance"
  <2> DEFINE t == PruneTile(T, n, pruner)
  <2>1. t = [value |-> Median(T, n), active |-> T[First[n]].active]
    BY <1>6 DEF PruneTile
  <2>2. PICK a \in Slots[n] : Median(T, n) = T[a].value
    BY <1>1, <1>2, <1>5, MedianFacts
  <2>3. IsLevel(T, n, pruner.tolerance)
    BY <1>6 DEF IsPruned
  <2> HIDE DEF t
  <2>4. t \in Tile
    BY <1>3, <1>5, <2>1, <2>2 DEF Tile
  <2>5. ASSUME NEW s \in Slots[n]
        PROVE  t.active = T[s].active /\ Near(t.value, T[s].value, pruner.tolerance)
    BY <1>3, <2>1, <2>2, <2>3 DEF IsLevel
  <2> QED
    BY <1>4, <1>6, <2>4, <2>5 DEF t
<1>7. CASE pruner.kind = "inactive" /\ pruner.value \in Values
  <2>1. PruneTile(T, n, pruner) = Off(pruner.value)
    BY <1>7 DEF PruneTile
  <2>2. Off(pruner.value) \in Tile /\ Off(pruner.value).active = FALSE
    BY <1>7 DEF Off, Tile
  <2>3. \A s \in Slots[n] : T[s].active = FALSE
    BY <1>5, <1>7 DEF IsPruned, IsInactive
  <2> QED
    BY <1>4, <1>7, <2>1, <2>2, <2>3
<1>8. CASE pruner.kind = "levelset" /\ pruner.inside \in Values /\ pruner.outside \in Values
  <2>1. PruneTile(T, n, pruner) = Off(pruner.inside) \/ PruneTile(T, n, pruner) = Off(pruner.outside)
    BY <1>8 DEF PruneTile
  <2>2. \A v \in Values : Off(v) \in Tile /\ Off(v).active = FALSE
    BY DEF Off, Tile
  <2>3. \A s \in Slots[n] : T[s].active = FALSE
    BY <1>5, <1>8 DEF IsPruned, IsInactive
  <2>4. PruneTile(T, n, pruner) \in Tile /\ PruneTile(T, n, pruner).active = FALSE
    BY <1>8, <2>1, <2>2
  <2> QED
    BY <1>4, <1>8, <2>3, <2>4
<1> QED
  BY <1>6, <1>7, <1>8, PrunerKinds

\* A level of a pruner is a pass.
LEMMA PrunedLevelPass ==
    ASSUME NEW T, WellFormed(T), NEW l \in 1 .. RootLevel, NEW pruner \in Pruners
    PROVE  /\ Pass(T, PrunedLevel(T, l, pruner), l, PrunedNodes(T, l, pruner))
           /\ \A n \in PrunedNodes(T, l, pruner) :
                 PrunedLevel(T, l, pruner)[n] = PruneTile(T, n, pruner)
<1> DEFINE N == PrunedNodes(T, l, pruner)
           U == PrunedLevel(T, l, pruner)
<1>1. /\ N \subseteq {n \in Nodes(T) : Level[n] = l}
      /\ \A n \in N : PruneTile(T, n, pruner) \in Tile /\ \A s \in Slots[n] : IsTile(T, s)
  BY PruneTileFacts DEF PrunedNodes
<1>2. /\ DOMAIN U = DOMAIN T \ UNION {Slots[n] : n \in N}
      /\ \A c \in DOMAIN U : U[c] = IF c \in N THEN PruneTile(T, c, pruner) ELSE T[c]
  BY DEF PrunedLevel
<1> HIDE DEF N, U
<1>3. ASSUME NEW n \in N PROVE n \in DOMAIN U
  <2>1. n \in Cells /\ n \in DOMAIN T /\ T[n] = Child
    BY <1>1 DEF Nodes, IsChild
  <2>2. \A m \in N : n \notin Slots[m]
    BY <1>1, <2>1 DEF IsTile
  <2> QED
    BY <1>2, <2>1, <2>2
<1>4. Pass(T, U, l, N)
  BY <1>1, <1>2 DEF Pass
<1>5. \A n \in N : U[n] = PruneTile(T, n, pruner)
  BY <1>2, <1>3
<1> QED
  BY <1>4, <1>5 DEF N, U

\* The trees and the nodes of the levels of a pruner.
PrunerRun(T, pruner, lowest, up, con) ==
    /\ Passes(up, con, lowest - 1)
    /\ up[lowest - 1] = T
    /\ Pruned(T, pruner, lowest) = EraseBackgroundTiles(up[RootLevel])
    /\ \A l \in lowest .. RootLevel :
          /\ con[l] = PrunedNodes(up[l - 1], l, pruner)
          /\ \A n \in con[l] : up[l][n] = PruneTile(up[l - 1], n, pruner)

\* A pruner is a chain of passes.
LEMMA PrunedPasses ==
    ASSUME NEW T, WellFormed(T), NEW pruner \in Pruners, NEW lowest \in 1 .. 2
    PROVE  \E up, con : PrunerRun(T, pruner, lowest, up, con)
<1>1. PICK up : /\ up[lowest - 1] = T
                /\ \A l \in lowest .. RootLevel : up[l] = PrunedLevel(up[l - 1], l, pruner)
                /\ Pruned(T, pruner, lowest) = EraseBackgroundTiles(up[RootLevel])
  BY PrunedLevels
<1> DEFINE lo == lowest - 1
           con == [l \in lowest .. RootLevel |-> PrunedNodes(up[l - 1], l, pruner)]
           S == {l \in Nat : WellFormed(up[l])}
<1>2. \A l \in lowest .. RootLevel : con[l] = PrunedNodes(up[l - 1], l, pruner)
  OBVIOUS
<1> HIDE DEF con
<1>3. RootLevel \in Nat /\ RootLevel > 1 /\ lowest \in Nat /\ lo \in Nat /\ lo + 1 = lowest
      /\ lo <= RootLevel
  BY RootLevelNat
<1>4. ASSUME NEW l \in lowest .. RootLevel, WellFormed(up[l - 1])
      PROVE  /\ Pass(up[l - 1], up[l], l, con[l])
             /\ \A n \in con[l] : up[l][n] = PruneTile(up[l - 1], n, pruner)
  <2>1. l \in 1 .. RootLevel
    BY <1>3
  <2> QED
    BY <1>1, <1>2, <1>4, <2>1, PrunedLevelPass
<1>5. ASSUME NEW l \in lo + 1 .. RootLevel, l - 1 \in S PROVE l \in S
  <2>1. l \in lowest .. RootLevel /\ l \in Nat /\ WellFormed(up[l - 1])
    BY <1>3, <1>5
  <2>2. WellFormed(up[l])
    BY <1>4, <2>1, PassMerges
  <2> QED
    BY <2>1, <2>2
<1>6. lo \in S
  BY <1>1, <1>3
<1> HIDE DEF S, lo
<1>7. \A l \in lo .. RootLevel : l \in S
  BY <1>3, <1>5, <1>6, Climb
<1>8. \A l \in lowest .. RootLevel : l - 1 \in lo .. RootLevel
  BY <1>3
<1>9. \A l \in lowest .. RootLevel : WellFormed(up[l - 1])
  BY <1>7, <1>8 DEF S
<1>10. Passes(up, con, lo)
  <2>1. \A l \in lo + 1 .. RootLevel : Pass(up[l - 1], up[l], l, con[l])
    BY <1>3, <1>4, <1>9
  <2> QED
    BY <1>1, <1>3, <2>1 DEF Passes, lo
<1>11. \A l \in lowest .. RootLevel :
          /\ con[l] = PrunedNodes(up[l - 1], l, pruner)
          /\ \A n \in con[l] : up[l][n] = PruneTile(up[l - 1], n, pruner)
  BY <1>2, <1>4, <1>9
<1> QED
  BY <1>1, <1>10, <1>11 DEF lo, PrunerRun

\* Whether a pruner replaces a node depends on the entries of the node alone.
LEMMA PrunedByEntries ==
    ASSUME NEW T, NEW U, NEW c, NEW pruner,
           \A s \in Slots[c] : s \in DOMAIN T /\ s \in DOMAIN U /\ U[s] = T[s],
           IsPruned(U, c, pruner)
    PROVE  IsPruned(T, c, pruner)
BY DEF IsPruned, IsLevel, IsInactive, IsTile

\* A pruner leaves a tree.
LEMMA PrunedShape ==
    ASSUME NEW T, WellFormed(T), mBackground \in Values, NEW pruner \in Pruners,
           NEW lowest \in 1 .. 2
    PROVE  WellFormed(Pruned(T, pruner, lowest))
<1>1. PICK up, con : /\ Passes(up, con, lowest - 1)
                     /\ Pruned(T, pruner, lowest) = EraseBackgroundTiles(up[RootLevel])
  BY PrunedPasses DEF PrunerRun
<1>2. RootLevel \in lowest - 1 .. RootLevel
  BY RootLevelNat
<1> QED
  BY <1>1, <1>2, PassesShape, EraseBackgroundLemma

\* So does prune().
LEMMA PruneWithinShape ==
    ASSUME NEW T, WellFormed(T), mBackground \in Values, NEW tolerance
    PROVE  WellFormed(PruneWithin(T, tolerance))
<1>1. PICK up, con : /\ Passes(up, con, 0)
                     /\ PruneWithin(T, tolerance) = EraseBackgroundTiles(up[RootLevel])
  BY PruneWithinPasses
<1>2. RootLevel \in 0 .. RootLevel
  BY RootLevelNat
<1> QED
  BY <1>1, <1>2, PassesShape, EraseBackgroundLemma

\* A pruner leaves no node that it could replace.
LEMMA PrunedLeavesNone ==
    ASSUME NEW T, WellFormed(T), mBackground \in Values, NEW pruner \in Pruners,
           NEW lowest \in 1 .. 2, NEW c \in Nodes(Pruned(T, pruner, lowest)), Level[c] >= lowest
    PROVE  ~ IsPruned(Pruned(T, pruner, lowest), c, pruner)
<1>0. PICK up, con : PrunerRun(T, pruner, lowest, up, con)
  BY PrunedPasses
<1>1. /\ Passes(up, con, lowest - 1)
      /\ up[lowest - 1] = T
      /\ Pruned(T, pruner, lowest) = EraseBackgroundTiles(up[RootLevel])
      /\ \A l \in lowest .. RootLevel :
            /\ con[l] = PrunedNodes(up[l - 1], l, pruner)
            /\ \A n \in con[l] : up[l][n] = PruneTile(up[l - 1], n, pruner)
  BY <1>0 DEF PrunerRun
<1> DEFINE V == up[RootLevel]
           E == Pruned(T, pruner, lowest)
           lo == lowest - 1
<1>2. RootLevel \in lo .. RootLevel /\ lo \in Int /\ lo + 1 = lowest
  BY RootLevelNat
<1>3. WellFormed(V)
  BY <1>1, <1>2, PassesShape
<1>4. /\ c \in Nodes(V)
      /\ \A s \in Slots[c] : s \in DOMAIN V /\ s \in DOMAIN E /\ E[s] = V[s]
  BY <1>1, <1>3, ErasedNodes
<1>5. c \in Cells /\ Level[c] > lo
  BY <1>2, <1>4, Chain DEF Nodes
<1> HIDE DEF lo
<1>6. /\ Level[c] \in lowest .. RootLevel
      /\ c \in Nodes(up[Level[c] - 1]) /\ c \notin con[Level[c]]
      /\ \A s \in Slots[c] : /\ s \in DOMAIN V /\ s \in DOMAIN up[Level[c] - 1]
                             /\ V[s] = up[Level[c] - 1][s]
  <2>1. Passes(up, con, lo) /\ c \in Nodes(up[RootLevel])
    BY <1>1, <1>4 DEF lo
  <2> QED
    BY <1>2, <1>5, <2>1, PassesLeave
<1> HIDE DEF V, E
<1>7. ASSUME IsPruned(E, c, pruner) PROVE FALSE
  <2>1. \A s \in Slots[c] : /\ s \in DOMAIN up[Level[c] - 1] /\ s \in DOMAIN E
                            /\ E[s] = up[Level[c] - 1][s]
    BY <1>4, <1>6
  <2>2. IsPruned(up[Level[c] - 1], c, pruner)
    BY <1>7, <2>1, PrunedByEntries
  <2>3. con[Level[c]] = PrunedNodes(up[Level[c] - 1], Level[c], pruner)
    BY <1>1, <1>6
  <2> QED
    BY <1>6, <2>2, <2>3 DEF PrunedNodes
<1> QED
  BY <1>7 DEF E

\* A pruner keeps active states; with a tolerance it moves values by no more than
\* that for every level, otherwise it changes no active value.
LEMMA PrunedContents ==
    ASSUME NEW T, WellFormed(T), mBackground \in Values, NEW pruner \in Pruners,
           NEW lowest \in 1 .. 2, NEW x \in Voxels
    PROVE  /\ Stored(Pruned(T, pruner, lowest), x).active = Stored(T, x).active
           /\ pruner.kind = "tolerance" =>
                 Near(Stored(Pruned(T, pruner, lowest), x).value, Stored(T, x).value,
                      RootLevel * pruner.tolerance)
           /\ pruner.kind # "tolerance" =>
                 (Stored(T, x).active => Stored(Pruned(T, pruner, lowest), x) = Stored(T, x))
<1>0. PICK up, con : PrunerRun(T, pruner, lowest, up, con)
  BY PrunedPasses
<1>1. /\ Passes(up, con, lowest - 1)
      /\ up[lowest - 1] = T
      /\ Pruned(T, pruner, lowest) = EraseBackgroundTiles(up[RootLevel])
      /\ \A l \in lowest .. RootLevel :
            /\ con[l] = PrunedNodes(up[l - 1], l, pruner)
            /\ \A n \in con[l] : up[l][n] = PruneTile(up[l - 1], n, pruner)
  BY <1>0 DEF PrunerRun
<1> DEFINE V == up[RootLevel]
           lo == lowest - 1
<1>2. RootLevel \in lo .. RootLevel /\ RootLevel \in Nat /\ lo \in Nat /\ lo + 1 = lowest
  BY RootLevelNat
<1>3. WellFormed(V) /\ Passes(up, con, lo)
  BY <1>1, <1>2, PassesShape
<1>4. ASSUME NEW l \in lo + 1 .. RootLevel, NEW n \in con[l]
      PROVE  /\ n \in Nodes(up[l - 1]) /\ WellFormed(up[l - 1])
             /\ IsPruned(up[l - 1], n, pruner) /\ up[l][n] = PruneTile(up[l - 1], n, pruner)
  <2>1. l \in lowest .. RootLevel /\ l - 1 \in lo .. RootLevel
    BY <1>2
  <2>2. n \in PrunedNodes(up[l - 1], l, pruner) /\ up[l][n] = PruneTile(up[l - 1], n, pruner)
    BY <1>1, <2>1
  <2>3. WellFormed(up[l - 1])
    <3> HIDE DEF lo
    <3> QED
      BY <1>3, <2>1, PassesShape
  <2> QED
    BY <2>2, <2>3 DEF PrunedNodes
<1>5. Stored(EraseBackgroundTiles(V), x) = Stored(V, x)
  <2> HIDE DEF V
  <2> QED
    BY <1>3, EraseBackgroundLemma
<1>6. Stored(Pruned(T, pruner, lowest), x) = Stored(V, x) /\ Stored(up[lo], x) = Stored(T, x)
  BY <1>1, <1>5
<1> HIDE DEF lo
<1>7. CASE pruner.kind = "tolerance"
  <2>1. pruner.tolerance \in Nat
    BY <1>7, PrunerKinds
  <2>2. ASSUME NEW l \in lo + 1 .. RootLevel, NEW n \in con[l], NEW s \in Slots[n]
        PROVE  /\ up[l][n].active = up[l - 1][s].active
               /\ Near(up[l][n].value, up[l - 1][s].value, pruner.tolerance)
    <3>1. /\ n \in Nodes(up[l - 1]) /\ WellFormed(up[l - 1])
          /\ IsPruned(up[l - 1], n, pruner) /\ up[l][n] = PruneTile(up[l - 1], n, pruner)
      BY <1>4
    <3>2. /\ PruneTile(up[l - 1], n, pruner).active = up[l - 1][s].active
          /\ Near(PruneTile(up[l - 1], n, pruner).value, up[l - 1][s].value, pruner.tolerance)
      BY <1>7, <3>1, PruneTileFacts
    <3> QED
      BY <3>1, <3>2
  <2>3. /\ Stored(up[RootLevel], x).active = Stored(up[lo], x).active
        /\ Near(Stored(up[RootLevel], x).value, Stored(up[lo], x).value,
                RootLevel * pruner.tolerance)
    BY <1>3, <2>1, <2>2, PassesDrift
  <2> QED
    BY <1>6, <1>7, <2>3
<1>8. CASE pruner.kind # "tolerance"
  <2>1. ASSUME NEW l \in lo + 1 .. RootLevel, NEW n \in con[l]
        PROVE  /\ up[l][n].active = FALSE
               /\ \A s \in Slots[n] : up[l - 1][s].active = FALSE
    <3>1. /\ n \in Nodes(up[l - 1]) /\ WellFormed(up[l - 1])
          /\ IsPruned(up[l - 1], n, pruner) /\ up[l][n] = PruneTile(up[l - 1], n, pruner)
      BY <1>4
    <3>2. \A s \in Slots[n] : /\ PruneTile(up[l - 1], n, pruner).active = FALSE
                              /\ up[l - 1][s].active = FALSE
      BY <1>8, <3>1, PruneTileFacts
    <3>3. n \in Cells /\ Level[n] > 0
      BY <3>1, Shape DEF Nodes, IsChild
    <3>4. First[n] \in Slots[n]
      BY <3>3, FirstFacts
    <3>5. PruneTile(up[l - 1], n, pruner).active = FALSE
      BY <3>2, <3>4
    <3> QED
      BY <3>1, <3>2, <3>5
  <2>2. /\ Stored(up[RootLevel], x).active = Stored(up[lo], x).active
        /\ Stored(up[lo], x).active => Stored(up[RootLevel], x) = Stored(up[lo], x)
    BY <1>3, <2>1, PassesActive
  <2> QED
    BY <1>6, <1>8, <2>2
<1> QED
  BY <1>7, <1>8

\* What the prune functions promise, for a tree.
LEMMA PruneContract == TypeOK => PruneMeetsContract
<1> SUFFICES ASSUME TypeOK PROVE PruneMeetsContract
  OBVIOUS
<1>1. WellFormed(tree) /\ mBackground \in Values
  BY DEF TypeOK
<1>2. \A x \in Voxels : Map[x] = Stored(tree, x)
  BY DEF Map, Contents
<1>3. RecursionMeetsReference
  BY <1>1, RecursionLemma DEF RecursionMeetsReference
<1>4. OneCallSuffices
  BY <1>1, OneCallLemma DEF OneCallSuffices
<1>5. ErrorBounded
  <2>1. ASSUME NEW tolerance \in Tolerances, NEW x \in Voxels
        PROVE  /\ Stored(PruneWithin(tree, tolerance), x).active = Map[x].active
               /\ Near(Stored(PruneWithin(tree, tolerance), x).value, Map[x].value,
                       RootLevel * tolerance)
    <3>1. tolerance \in Nat
      BY OffsetsAssumption
    <3>2. Map[x] = Stored(tree, x)
      BY <1>2
    <3>3. /\ Stored(PruneWithin(tree, tolerance), x).active = Stored(tree, x).active
          /\ Near(Stored(PruneWithin(tree, tolerance), x).value, Stored(tree, x).value,
                  RootLevel * tolerance)
      BY <1>1, <3>1, ErrorLemma
    <3> QED
      BY <3>2, <3>3
  <2> QED
    BY <2>1 DEF ErrorBounded
<1>6. PrunersMeetContract
  <2> SUFFICES ASSUME NEW pruner \in Pruners, NEW lowest \in 1 .. 2
               PROVE  /\ \A n \in Nodes(Pruned(tree, pruner, lowest)) :
                            Level[n] >= lowest => ~ IsPruned(Pruned(tree, pruner, lowest), n, pruner)
                      /\ \A x \in Voxels :
                            /\ Stored(Pruned(tree, pruner, lowest), x).active = Map[x].active
                            /\ IF pruner.kind = "tolerance"
                               THEN Near(Stored(Pruned(tree, pruner, lowest), x).value, Map[x].value,
                                         RootLevel * pruner.tolerance)
                               ELSE Map[x].active =>
                                       Stored(Pruned(tree, pruner, lowest), x) = Map[x]
    BY DEF PrunersMeetContract
  <2>1. ASSUME NEW n \in Nodes(Pruned(tree, pruner, lowest)), Level[n] >= lowest
        PROVE  ~ IsPruned(Pruned(tree, pruner, lowest), n, pruner)
    BY <1>1, <2>1, PrunedLeavesNone
  <2>2. ASSUME NEW x \in Voxels
        PROVE  /\ Stored(Pruned(tree, pruner, lowest), x).active = Map[x].active
               /\ IF pruner.kind = "tolerance"
                  THEN Near(Stored(Pruned(tree, pruner, lowest), x).value, Map[x].value,
                            RootLevel * pruner.tolerance)
                  ELSE Map[x].active => Stored(Pruned(tree, pruner, lowest), x) = Map[x]
    <3>1. Map[x] = Stored(tree, x)
      BY <1>2
    <3>2. /\ Stored(Pruned(tree, pruner, lowest), x).active = Stored(tree, x).active
          /\ pruner.kind = "tolerance" =>
                Near(Stored(Pruned(tree, pruner, lowest), x).value, Stored(tree, x).value,
                     RootLevel * pruner.tolerance)
          /\ pruner.kind # "tolerance" =>
                (Stored(tree, x).active => Stored(Pruned(tree, pruner, lowest), x) = Stored(tree, x))
      BY <1>1, PrunedContents
    <3> QED
      BY <3>1, <3>2
  <2> QED
    BY <2>1, <2>2
<1> QED
  BY <1>3, <1>4, <1>5, <1>6 DEF PruneMeetsContract

-------------------------------------------------------------------------------
(* TreeTools: every tool leaves a tree.                                    *)

\* The absolute widths are values.
LEMMA WidthTyped ==
    ASSUME NEW w \in Widths
    PROVE  /\ w.inside \in Values /\ w.outside \in Values
           /\ Width(w).inside \in Values /\ Width(w).outside \in Values
BY ToolsAssumption, OpsTyped DEF Width

\* The flood fill of one level changes values of tiles.
LEMMA FloodLevelShape ==
    ASSUME NEW T, WellFormed(T), NEW l, NEW w, w.inside \in Values, w.outside \in Values
    PROVE  WellFormed(FloodLevel(T, l, w))
<1> DEFINE U == FloodLevel(T, l, w)
           N == {c \in Nodes(T) : Level[c] = l}
           flooded(c) == \E n \in N : c \in Slots[n] \ Stops(T, n)
<1>1. DOMAIN U = DOMAIN T
  BY DEF FloodLevel
<1>2. ASSUME NEW c \in DOMAIN T
      PROVE  \/ U[c] = T[c]
             \/ flooded(c) /\ \E v \in Values : U[c] = [T[c] EXCEPT !.value = v]
  <2>1. CASE flooded(c)
    <3>1. \/ U[c] = [T[c] EXCEPT !.value = w.inside]
          \/ U[c] = [T[c] EXCEPT !.value = w.outside]
      BY <2>1 DEF FloodLevel
    <3> QED
      BY <2>1, <3>1
  <2>2. CASE ~ flooded(c)
    BY <2>2 DEF FloodLevel
  <2> QED
    BY <2>1, <2>2
<1> HIDE DEF U
<1>3. ASSUME NEW c \in DOMAIN T
      PROVE  (T[c] = Child => U[c] = Child) /\ (T[c] # Child => U[c] \in Tile)
  <2>1. T[c] = Child => ~ flooded(c)
    BY DEF Stops, IsChild
  <2>2. T[c] # Child => T[c] \in Tile
    BY Shape
  <2>3. ASSUME T[c] # Child, NEW v \in Values PROVE [T[c] EXCEPT !.value = v] \in Tile
    BY <2>2, <2>3, WrittenTyped
  <2> QED
    BY <1>2, <2>1, <2>2, <2>3
<1>4. WellFormed(U)
  BY <1>1, <1>3, RetileLemma
<1> QED
  BY <1>4 DEF U

\* The flood fill of the root table adds tiles.
LEMMA FloodRootShape ==
    ASSUME NEW T, WellFormed(T), mBackground \in Values, NEW w, w.inside \in Values
    PROVE  WellFormed(FloodRoot(T, w))
<1>1. Sandwiched(T) \in SUBSET Cells
  BY DEF Sandwiched, Keys
<1>2. Off(w.inside) \in Tile
  BY OpsTyped
<1> QED
  BY <1>1, <1>2, PutLemma DEF FloodRoot

\* The levels of Flooded, one from the other.
LEMMA FloodedLevels ==
    ASSUME NEW T, NEW w, NEW minLevel
    PROVE  \E up : /\ up[0] = T
                   /\ \A l \in 1 .. RootLevel :
                         up[l] = IF l - 1 < minLevel THEN up[l - 1]
                                 ELSE FloodLevel(up[l - 1], l, Width(w))
                   /\ Flooded(T, w, minLevel) = FloodRoot(up[RootLevel], Width(w))
<1> DEFINE step(f, l) == IF l - 1 < minLevel THEN f[l - 1]
                         ELSE FloodLevel(f[l - 1], l, Width(w))
           Next1(f, l) == IF l = 0 THEN T ELSE step(f, l)
           S == {m \in Nat : \E f : f = [l \in 0 .. m |-> Next1(f, l)]}
<1>1. RootLevel \in Nat /\ RootLevel > 1
  BY RootLevelNat
<1>2. 0 \in S
  <2> DEFINE f == [l \in 0 .. 0 |-> T]
  <2>1. f = [l \in 0 .. 0 |-> Next1(f, l)]
    OBVIOUS
  <2> QED
    BY <2>1
<1>3. ASSUME NEW m \in 0 + 1 .. RootLevel, m - 1 \in S PROVE m \in S
  <2>1. m \in Nat /\ m - 1 \in Nat
    BY <1>1
  <2>2. PICK f : f = [l \in 0 .. m - 1 |-> Next1(f, l)]
    BY <1>3
  <2> DEFINE g == [l \in 0 .. m |-> IF l = m THEN step(f, m) ELSE f[l]]
  <2>3. \A l \in 0 .. m - 1 : g[l] = f[l]
    BY <2>1
  <2>4. ASSUME NEW l \in 0 .. m PROVE g[l] = Next1(g, l)
    <3>1. CASE l = m
      <4>1. g[l] = step(f, m) /\ g[m - 1] = f[m - 1] /\ l # 0
        BY <2>1, <2>3, <3>1
      <4> HIDE DEF g
      <4> QED
        BY <3>1, <4>1
    <3>2. CASE l = 0
      BY <1>3, <2>1, <2>2, <2>3, <3>2
    <3>3. CASE l \in 1 .. m - 1
      <4>1. l \in 0 .. m - 1 /\ l - 1 \in 0 .. m - 1 /\ l # 0
        BY <2>1, <3>3
      <4>2. g[l] = f[l] /\ g[l - 1] = f[l - 1]
        BY <2>3, <4>1
      <4>3. f[l] = Next1(f, l)
        BY <2>2, <4>1
      <4> HIDE DEF g
      <4> QED
        BY <4>1, <4>2, <4>3
    <3> QED
      BY <2>1, <3>1, <3>2, <3>3
  <2>5. g = [l \in 0 .. m |-> Next1(g, l)]
    <3>1. g = [l \in 0 .. m |-> g[l]]
      OBVIOUS
    <3> HIDE DEF g
    <3> QED
      BY <2>4, <3>1
  <2> HIDE DEF g
  <2> QED
    BY <2>1, <2>5
<1> HIDE DEF S
<1>4. RootLevel \in S
  <2>1. \A l \in 0 .. RootLevel : l \in S
    BY <1>1, <1>2, <1>3, Climb
  <2> QED
    BY <1>1, <2>1
<1> DEFINE up == CHOOSE f : f = [l \in 0 .. RootLevel |-> Next1(f, l)]
<1>5. up = [l \in 0 .. RootLevel |-> Next1(up, l)]
  BY <1>4 DEF S
<1>6. Flooded(T, w, minLevel) = FloodRoot(up[RootLevel], Width(w))
  BY DEF Flooded
<1> HIDE DEF up
<1>7. up[0] = T
  BY <1>1, <1>5
<1>8. ASSUME NEW l \in 1 .. RootLevel
      PROVE  up[l] = IF l - 1 < minLevel THEN up[l - 1]
                     ELSE FloodLevel(up[l - 1], l, Width(w))
  <2>1. up[l] = Next1(up, l) /\ l # 0
    BY <1>1, <1>5
  <2> QED
    BY <2>1
<1> QED
  BY <1>6, <1>7, <1>8

\* The flood fill leaves a tree.
LEMMA FloodedShape ==
    ASSUME NEW T, WellFormed(T), mBackground \in Values, NEW w \in Widths, NEW minLevel
    PROVE  WellFormed(Flooded(T, w, minLevel))
<1>1. PICK up : /\ up[0] = T
                /\ \A l \in 1 .. RootLevel : \/ up[l] = up[l - 1]
                                             \/ up[l] = FloodLevel(up[l - 1], l, Width(w))
                /\ Flooded(T, w, minLevel) = FloodRoot(up[RootLevel], Width(w))
  BY FloodedLevels
<1> DEFINE S == {l \in Nat : WellFormed(up[l])}
<1>2. RootLevel \in Nat
  BY RootLevelNat
<1>3. 0 \in S
  BY <1>1
<1>4. ASSUME NEW l \in 0 + 1 .. RootLevel, l - 1 \in S PROVE l \in S
  <2>1. l \in 1 .. RootLevel /\ l \in Nat /\ WellFormed(up[l - 1])
    BY <1>2, <1>4
  <2>2. WellFormed(FloodLevel(up[l - 1], l, Width(w)))
    BY <2>1, FloodLevelShape, WidthTyped
  <2> QED
    BY <1>1, <2>1, <2>2
<1> HIDE DEF S
<1>5. \A l \in 0 .. RootLevel : l \in S
  BY <1>2, <1>3, <1>4, Climb
<1>6. WellFormed(up[RootLevel])
  BY <1>2, <1>5 DEF S
<1> QED
  BY <1>1, <1>6, FloodRootShape, WidthTyped

\* The tools that look at one entry at a time leave a tree.
LEMMA EntryToolsShape ==
    ASSUME NEW T, WellFormed(T), mBackground \in Values
    PROVE  /\ \A v \in Values : WellFormed(BackgroundChanged(T, v))
           /\ \A w \in Widths : WellFormed(LevelSetBackgroundChanged(T, w))
           /\ \A v \in Values, tolerance \in Tolerances, active \in BOOLEAN :
                 WellFormed(Activated(T, v, tolerance, active))
<1>1. ASSUME NEW v \in Values PROVE WellFormed(BackgroundChanged(T, v))
  <2> DEFINE U == BackgroundChanged(T, v)
  <2>1. DOMAIN U = DOMAIN T
    BY DEF BackgroundChanged
  <2>2. \A c \in DOMAIN T : \/ U[c] = T[c]
                            \/ /\ T[c] \in {BackgroundTile, Off(-mBackground)}
                               /\ U[c] \in {Off(v), Off(-v)}
    BY DEF BackgroundChanged
  <2> HIDE DEF U
  <2>3. Off(v) \in Tile /\ Off(-v) \in Tile
    BY OpsTyped
  <2>4. BackgroundTile # Child /\ Off(-mBackground) # Child
    BY BackgroundTyped, OpsTyped, ContentsTyped
  <2>5. ASSUME NEW c \in DOMAIN T
        PROVE  (T[c] = Child => U[c] = Child) /\ (T[c] # Child => U[c] \in Tile)
    <3>1. T[c] # Child => T[c] \in Tile
      BY Shape
    <3> QED
      BY <2>2, <2>3, <2>4, <3>1
  <2>6. WellFormed(U)
    BY <2>1, <2>5, RetileLemma
  <2> QED
    BY <2>6 DEF U
<1>2. ASSUME NEW w \in Widths PROVE WellFormed(LevelSetBackgroundChanged(T, w))
  <2> DEFINE U == LevelSetBackgroundChanged(T, w)
  <2>1. DOMAIN U = DOMAIN T
    BY DEF LevelSetBackgroundChanged
  <2>2. \A c \in DOMAIN T : \/ U[c] = T[c]
                            \/ T[c] # Child /\ U[c] = [T[c] EXCEPT !.value = w.inside]
                            \/ T[c] # Child /\ U[c] = [T[c] EXCEPT !.value = w.outside]
    BY DEF LevelSetBackgroundChanged
  <2> HIDE DEF U
  <2>3. w.inside \in Values /\ w.outside \in Values
    BY WidthTyped
  <2>4. ASSUME NEW c \in DOMAIN T
        PROVE  (T[c] = Child => U[c] = Child) /\ (T[c] # Child => U[c] \in Tile)
    <3>1. T[c] # Child => T[c] \in Tile
      BY Shape
    <3>2. T[c] # Child => /\ [T[c] EXCEPT !.value = w.inside] \in Tile
                          /\ [T[c] EXCEPT !.value = w.outside] \in Tile
      BY <2>3, <3>1, WrittenTyped
    <3> QED
      BY <2>2, <3>1, <3>2
  <2>5. WellFormed(U)
    BY <2>1, <2>4, RetileLemma
  <2> QED
    BY <2>5 DEF U
<1>3. ASSUME NEW v \in Values, NEW tolerance \in Tolerances, NEW active \in BOOLEAN
      PROVE  WellFormed(Activated(T, v, tolerance, active))
  <2> DEFINE U == Activated(T, v, tolerance, active)
  <2>1. DOMAIN U = DOMAIN T
    BY DEF Activated
  <2>2. \A c \in DOMAIN T : \/ U[c] = T[c]
                            \/ T[c] # Child /\ U[c] = [T[c] EXCEPT !.active = active]
    BY DEF Activated
  <2> HIDE DEF U
  <2>3. ASSUME NEW c \in DOMAIN T
        PROVE  (T[c] = Child => U[c] = Child) /\ (T[c] # Child => U[c] \in Tile)
    <3>1. T[c] # Child => T[c] \in Tile
      BY Shape
    <3>2. T[c] # Child => [T[c] EXCEPT !.active = active] \in Tile
      BY <3>1, WrittenTyped
    <3> QED
      BY <2>2, <3>1, <3>2
  <2>4. WellFormed(U)
    BY <2>1, <2>3, RetileLemma
  <2> QED
    BY <2>4 DEF U
<1> QED
  BY <1>1, <1>2, <1>3

-------------------------------------------------------------------------------
(* TreeTools: the level set tools.                                         *)

\* G makes of a function on D another one, and what it makes of d depends only on what
\* has a smaller rank.
ByRank(D, V, rank, bound, G) ==
    /\ V # {} /\ bound \in Nat
    /\ rank \in [D -> Nat]
    /\ \A d \in D : rank[d] <= bound
    /\ G \in [[D -> V] -> [D -> V]]
    /\ \A f, g \in [D -> V] : \A d \in D :
          (\A e \in D : rank[e] < rank[d] => f[e] = g[e]) => G[f][d] = G[g][d]

\* A function that is defined by recursion exists.
LEMMA Recursion ==
    ASSUME NEW D, NEW V, NEW rank, NEW bound, NEW G, ByRank(D, V, rank, bound, G)
    PROVE  \E f \in [D -> V] : f = G[f]
<1> USE DEF ByRank
<1> DEFINE S == {m \in Nat : \E f \in [D -> V] : \A d \in D : rank[d] < m => f[d] = G[f][d]}
<1>1. 0 \in S
  <2>1. [d \in D |-> CHOOSE v \in V : TRUE] \in [D -> V]
    OBVIOUS
  <2>2. \A d \in D : ~ (rank[d] < 0)
    OBVIOUS
  <2> QED
    BY <2>1, <2>2
<1>2. ASSUME NEW m \in 0 + 1 .. bound + 1, m - 1 \in S PROVE m \in S
  <2>1. PICK f \in [D -> V] : \A d \in D : rank[d] < m - 1 => f[d] = G[f][d]
    BY <1>2
  <2>2. G[f] \in [D -> V]
    OBVIOUS
  <2>3. ASSUME NEW d \in D, rank[d] < m PROVE G[f][d] = G[G[f]][d]
    <3>1. \A e \in D : rank[e] < rank[d] => f[e] = G[f][e]
      <4>1. \A e \in D : rank[e] < rank[d] => rank[e] < m - 1
        BY <2>3
      <4> QED
        BY <2>1, <4>1
    <3> QED
      BY <2>2, <3>1
  <2> QED
    BY <2>2, <2>3
<1> HIDE DEF S
<1>3. \A m \in 0 .. bound + 1 : m \in S
  <2>1. bound + 1 \in Nat /\ 0 \in Nat
    OBVIOUS
  <2> QED
    BY <1>1, <1>2, <2>1, Climb
<1>4. bound + 1 \in S
  BY <1>3
<1>5. PICK f \in [D -> V] : \A d \in D : rank[d] < bound + 1 => f[d] = G[f][d]
  BY <1>4 DEF S
<1>6. \A d \in D : f[d] = G[f][d]
  BY <1>5
<1>7. G[f] \in [D -> V]
  OBVIOUS
<1>8. f = G[f]
  BY <1>6, <1>7
<1> QED
  BY <1>8

-------------------------------------------------------------------------------
(* The signs that reach voxels.                                            *)

Active == {x \in Voxels : Map[x].active}

Sources == {<<x, Map[x].value < 0>> : x \in Active} \union ((Edge \ Active) \X {FALSE})

Spread(S) == UNION {{p} \union {<<y, p[2]>> : y \in Neighbours[p[1]] \ Active} : p \in S}

SignPairs == Voxels \X BOOLEAN

\* Steps of Reaching.
LEMMA ReachingSteps ==
    /\ Cardinality(Voxels) \in Nat
    /\ \E spread : /\ spread[0] = Sources
                   /\ \A n \in 1 .. Cardinality(Voxels) : spread[n] = Spread(spread[n - 1])
                   /\ Reaching = spread[Cardinality(Voxels)]
<1> DEFINE N == Cardinality(Voxels)
           D == 0 .. N
           V == SUBSET SignPairs
           rank == [n \in D |-> n]
           Body(f, n) == IF n = 0 THEN Sources ELSE Spread(f[n - 1])
           G == [f \in [D -> V] |-> [n \in D |-> Body(f, n)]]
<1>1. N \in Nat
  BY ScanlinesAssumption, FS_CardinalityType
<1>2. Neighbours \in [Voxels -> SUBSET Voxels] /\ Edge \subseteq Voxels
  BY ToolsAssumption
<1>3. Sources \in V
  <2>1. ASSUME NEW x \in Active PROVE <<x, Map[x].value < 0>> \in SignPairs
    <3>1. x \in Voxels
      BY DEF Active
    <3>2. (Map[x].value < 0) \in BOOLEAN
      OBVIOUS
    <3> QED
      BY <3>1, <3>2 DEF SignPairs
  <2> QED
    BY <1>2, <2>1 DEF Sources, SignPairs, Active
<1>4. ASSUME NEW S \in V PROVE Spread(S) \in V
  <2>1. ASSUME NEW p \in S PROVE p \in SignPairs /\ \A y \in Neighbours[p[1]] : <<y, p[2]>> \in SignPairs
    BY <1>2 DEF SignPairs
  <2> QED
    BY <2>1 DEF Spread
<1> HIDE DEF N
<1>5. G \in [[D -> V] -> [D -> V]]
  <2>1. ASSUME NEW f \in [D -> V], NEW n \in D PROVE Body(f, n) \in V
    <3>1. CASE n = 0
      BY <1>3, <3>1
    <3>2. CASE n # 0
      <4>1. n - 1 \in D
        BY <1>1, <3>2
      <4>2. f[n - 1] \in V
        BY <4>1
      <4> QED
        BY <1>4, <3>2, <4>2
    <3> QED
      BY <3>1, <3>2
  <2> QED
    BY <2>1
<1>6. ASSUME NEW f \in [D -> V], NEW g \in [D -> V], NEW n \in D,
             \A e \in D : rank[e] < rank[n] => f[e] = g[e]
      PROVE  G[f][n] = G[g][n]
  <2>1. n # 0 => n - 1 \in D /\ rank[n - 1] < rank[n]
    BY <1>1
  <2>2. Body(f, n) = Body(g, n)
    BY <1>6, <2>1
  <2> QED
    BY <2>2
<1>7. rank \in [D -> Nat] /\ (\A d \in D : rank[d] <= N) /\ V # {}
  BY <1>1
<1>8. \E f \in [D -> V] : f = G[f]
  <2> HIDE DEF D, V, rank, G
  <2>1. \A f, g \in [D -> V] : \A n \in D :
           (\A e \in D : rank[e] < rank[n] => f[e] = g[e]) => G[f][n] = G[g][n]
    BY <1>6
  <2>2. ByRank(D, V, rank, N, G)
    BY <1>1, <1>5, <1>7, <2>1 DEF ByRank
  <2> QED
    BY <2>2, Recursion
<1>9. PICK f0 \in [D -> V] : f0 = [n \in D |-> Body(f0, n)]
  BY <1>8
<1> DEFINE spread == CHOOSE f : f = [n \in D |-> Body(f, n)]
<1>10. spread = [n \in D |-> Body(spread, n)]
  BY <1>9
<1>11. Reaching = spread[N]
  BY DEF Reaching, Active, Sources, Spread, N
<1> HIDE DEF spread
<1>12. spread[0] = Sources
  BY <1>1, <1>10
<1>13. \A n \in 1 .. N : spread[n] = Spread(spread[n - 1])
  BY <1>1, <1>10
<1> QED
  BY <1>1, <1>11, <1>12, <1>13 DEF N

\* What is known of the signs that reach voxels: they start at active voxels and at
\* the edge, and go on through inactive ones.
SignsSpread(R) ==
    /\ R \subseteq SignPairs
    /\ \A x \in Active : <<x, Map[x].value < 0>> \in R
    /\ \A x \in Edge \ Active : <<x, FALSE>> \in R
    /\ \A x \in Voxels : \A s \in BOOLEAN : \A y \in Neighbours[x] \ Active :
          <<x, s>> \in R => <<y, s>> \in R

\* After as many steps as there are voxels there is nowhere left to go.
LEMMA ReachingSpread == SignsSpread(Reaching)
<1> DEFINE N == Cardinality(Voxels)
<1>1. N \in Nat /\ IsFiniteSet(Voxels)
  BY ReachingSteps, ScanlinesAssumption
<1>2. PICK spread : /\ spread[0] = Sources
                    /\ \A n \in 1 .. N : spread[n] = Spread(spread[n - 1])
                    /\ Reaching = spread[N]
  BY ReachingSteps
<1>3. Neighbours \in [Voxels -> SUBSET Voxels] /\ Edge \subseteq Voxels
  BY ToolsAssumption
<1> HIDE DEF N
<1>4. Sources \subseteq SignPairs
  <2>1. ASSUME NEW x \in Active PROVE <<x, Map[x].value < 0>> \in SignPairs
    <3>1. x \in Voxels
      BY DEF Active
    <3>2. (Map[x].value < 0) \in BOOLEAN
      OBVIOUS
    <3> QED
      BY <3>1, <3>2 DEF SignPairs
  <2> QED
    BY <1>3, <2>1 DEF Sources, SignPairs
<1>5. ASSUME NEW S, S \subseteq SignPairs PROVE Spread(S) \subseteq SignPairs /\ S \subseteq Spread(S)
  <2>1. ASSUME NEW p \in S PROVE p \in SignPairs /\ \A y \in Neighbours[p[1]] : <<y, p[2]>> \in SignPairs
    BY <1>3, <1>5 DEF SignPairs
  <2> QED
    BY <2>1 DEF Spread
<1>6. ASSUME NEW S, S \subseteq SignPairs, NEW x \in Voxels, NEW s \in BOOLEAN
      PROVE  /\ \A y \in Neighbours[x] \ Active : <<x, s>> \in S => <<y, s>> \in Spread(S)
             /\ <<x, s>> \in Spread(S) =>
                   \/ <<x, s>> \in S
                   \/ \E z \in Voxels : <<z, s>> \in S /\ x \in Neighbours[z] \ Active
  <2>1. ASSUME NEW y \in Neighbours[x] \ Active, <<x, s>> \in S PROVE <<y, s>> \in Spread(S)
    BY <2>1 DEF Spread
  <2>2. ASSUME <<x, s>> \in Spread(S), <<x, s>> \notin S
        PROVE  \E z \in Voxels : <<z, s>> \in S /\ x \in Neighbours[z] \ Active
    <3>1. PICK p \in S : \E y \in Neighbours[p[1]] \ Active : <<x, s>> = <<y, p[2]>>
      BY <2>2 DEF Spread
    <3>2. p[1] \in Voxels /\ p = <<p[1], p[2]>>
      BY <1>6 DEF SignPairs
    <3>3. p = <<p[1], s>> /\ x \in Neighbours[p[1]] \ Active
      BY <3>1, <3>2
    <3> QED
      BY <3>2, <3>3
  <2> QED
    BY <2>1, <2>2
<1> DEFINE I == {n \in Nat : Sources \subseteq spread[n] /\ spread[n] \subseteq SignPairs}
<1>7. \A n \in 0 .. N : n \in I
  <2>1. 0 \in I
    BY <1>2, <1>4
  <2>2. ASSUME NEW n \in 0 + 1 .. N, n - 1 \in I PROVE n \in I
    <3>1. spread[n] = Spread(spread[n - 1]) /\ n \in Nat
      BY <1>1, <1>2
    <3> QED
      BY <1>5, <2>2, <3>1
  <2> HIDE DEF I
  <2> QED
    BY <1>1, <2>1, <2>2, Climb
<1>8. ASSUME NEW s \in BOOLEAN, NEW x \in Voxels, NEW y \in Neighbours[x] \ Active,
             <<x, s>> \in Reaching
      PROVE  <<y, s>> \in Reaching
  <2> DEFINE At(n) == {v \in Voxels : <<v, s>> \in spread[n]}
             still(n) == \A v \in At(n) : Neighbours[v] \ Active \subseteq At(n)
             J == {n \in Nat : still(n) \/ Cardinality(At(n)) > n}
  <2>1. \A n : IsFiniteSet(At(n)) /\ Cardinality(At(n)) \in Nat /\ Cardinality(At(n)) <= N
    BY <1>1, FS_Subset, FS_CardinalityType DEF N
  <2>2. 0 \in J
    <3>1. CASE At(0) = {}
      BY <3>1
    <3>2. CASE At(0) # {}
      <4>1. Cardinality(At(0)) # 0
        BY <2>1, <3>2, FS_EmptySet
      <4> QED
        BY <2>1, <4>1
    <3> QED
      BY <3>1, <3>2
  <2>3. ASSUME NEW n \in 0 + 1 .. N, n - 1 \in J PROVE n \in J
    <3>1. n \in Nat /\ n - 1 \in 0 .. N /\ spread[n] = Spread(spread[n - 1])
      BY <1>1, <1>2
    <3>2. spread[n - 1] \subseteq SignPairs
      BY <1>7, <3>1
    <3>3. At(n - 1) \subseteq At(n)
      BY <1>5, <3>1, <3>2
    <3>4. CASE still(n - 1)
      <4>1. ASSUME NEW v \in At(n) PROVE v \in At(n - 1)
        <5>1. v \in Voxels /\ <<v, s>> \in Spread(spread[n - 1])
          BY <3>1
        <5>2. \/ <<v, s>> \in spread[n - 1]
              \/ \E z \in Voxels : <<z, s>> \in spread[n - 1] /\ v \in Neighbours[z] \ Active
          BY <1>6, <3>2, <5>1
        <5> QED
          BY <3>4, <5>1, <5>2
      <4>2. At(n) = At(n - 1)
        BY <3>3, <4>1
      <4> HIDE DEF At
      <4>3. still(n)
        BY <3>4, <4>2
      <4> QED
        BY <3>1, <4>3
    <3>5. CASE ~ still(n - 1)
      <4>1. PICK v \in At(n - 1) : \E z \in Neighbours[v] \ Active : z \notin At(n - 1)
        BY <3>5
      <4>2. PICK z \in Neighbours[v] \ Active : z \notin At(n - 1)
        BY <4>1
      <4>3. v \in Voxels /\ <<v, s>> \in spread[n - 1] /\ z \in Voxels
        BY <1>3, <4>1
      <4>4. z \in At(n)
        BY <1>6, <3>1, <3>2, <4>2, <4>3
      <4>5. At(n - 1) # At(n)
        BY <4>2, <4>4
      <4>6. Cardinality(At(n - 1)) > n - 1
        BY <2>3, <3>5
      <4> HIDE DEF At
      <4>7. Cardinality(At(n - 1)) < Cardinality(At(n))
        BY <2>1, <3>3, <4>5, FS_Subset
      <4>8. Cardinality(At(n)) > n
        BY <2>1, <3>1, <4>6, <4>7
      <4> QED
        BY <3>1, <4>8
    <3> QED
      BY <3>4, <3>5
  <2>4. N \in J
    <3> HIDE DEF J
    <3>1. \A n \in 0 .. N : n \in J
      BY <1>1, <2>2, <2>3, Climb
    <3> QED
      BY <1>1, <3>1
  <2> HIDE DEF still, At
  <2>5. still(N)
    <3>1. ~ (Cardinality(At(N)) > N)
      BY <1>1, <2>1
    <3> QED
      BY <2>4, <3>1
  <2>6. x \in At(N)
    BY <1>2, <1>8 DEF At
  <2>7. y \in At(N)
    BY <1>8, <2>5, <2>6 DEF still
  <2> QED
    BY <1>2, <2>7 DEF At
<1>9. Sources \subseteq Reaching /\ Reaching \subseteq SignPairs
  BY <1>1, <1>2, <1>7
<1>10. \A x \in Active : <<x, Map[x].value < 0>> \in Reaching
  BY <1>9 DEF Sources
<1>11. \A x \in Edge \ Active : <<x, FALSE>> \in Reaching
  BY <1>9 DEF Sources
<1> QED
  BY <1>8, <1>9, <1>10, <1>11 DEF SignsSpread

\* All voxels of a cube without active ones are of one sign.
Signed(R, c, s) == VoxelsIn[c] \X {s} \subseteq R

Quiet(c) == VoxelsIn[c] \intersect Active = {}

\* A sign that reaches a voxel of such a cube reaches all of them.
LEMMA CubeSign ==
    ASSUME NEW R, SignsSpread(R), NEW c \in Cells, Quiet(c),
           NEW x \in VoxelsIn[c], NEW s \in BOOLEAN, <<x, s>> \in R
    PROVE  Signed(R, c, s)
<1> DEFINE S == {y \in VoxelsIn[c] : <<y, s>> \in R}
<1>1. VoxelsIn[c] \subseteq Voxels
  BY VoxelInside
<1>2. S # {} /\ S \in SUBSET VoxelsIn[c]
  OBVIOUS
<1>3. ASSUME NEW y \in S PROVE Neighbours[y] \intersect VoxelsIn[c] \subseteq S
  BY <1>1 DEF SignsSpread, Quiet
<1>4. S = VoxelsIn[c]
  <2> HIDE DEF S
  <2> QED
    BY <1>2, <1>3, ScanlinesAssumption
<1> QED
  BY <1>4 DEF Signed

\* It comes from a neighbour of one of them.
LEMMA CarriedOver ==
    ASSUME NEW R, SignsSpread(R), NEW c \in Cells, Quiet(c),
           NEW x \in Voxels, NEW s \in BOOLEAN, <<x, s>> \in R,
           Neighbours[x] \intersect VoxelsIn[c] # {}
    PROVE  Signed(R, c, s)
<1>1. PICK y \in Neighbours[x] : y \in VoxelsIn[c]
  OBVIOUS
<1>2. y \notin Active
  BY <1>1 DEF Quiet
<1>3. <<y, s>> \in R
  BY <1>2 DEF SignsSpread
<1> QED
  BY <1>1, <1>3, CubeSign

-------------------------------------------------------------------------------
(* The corners of a cell.                                                  *)

Ends == {First, Last}

\* The last entry of a node is one of its entries too.
LEMMA EndFacts ==
    ASSUME NEW Which \in Ends, NEW n \in Cells, Level[n] > 0
    PROVE  Which[n] \in Slots[n]
<1>1. Slots[n] # {} /\ First[n] \in Slots[n]
  BY FirstFacts
<1>2. Last[n] \in Slots[n]
  <2> DEFINE f == [c \in Slots[n] |-> Offset[c]]
  <2>1. f \in [Slots[n] -> Int]
    <3>1. \A c \in Slots[n] : c \in Cells
      BY SlotFacts
    <3> QED
      BY <3>1, OffsetsAssumption
  <2>2. IsFiniteSet(Slots[n])
    BY ToolsAssumption
  <2>3. \E c \in Slots[n] : \A d \in Slots[n] : f[d] <= f[c]
    <3> HIDE DEF f
    <3> QED
      BY <1>1, <2>1, <2>2, Largest
  <2>4. \A c \in Slots[n] : Offset[c] \in Int
    <3>1. \A c \in Slots[n] : c \in Cells
      BY SlotFacts
    <3> QED
      BY <3>1, OffsetsAssumption
  <2>5. \E c \in Slots[n] : \A d \in Slots[n] : Offset[c] >= Offset[d]
    BY <2>3, <2>4
  <2>6. Last[n] = CHOOSE c \in Slots[n] : \A d \in Slots[n] : Offset[c] >= Offset[d]
    BY DEF Last
  <2> QED
    BY <2>5, <2>6
<1> QED
  BY <1>1, <1>2 DEF Ends

\* A corner of an end of a node is a corner of the node.
LEMMA CornerUp ==
    ASSUME NEW Which \in Ends, NEW n \in Cells, Level[n] > 0,
           NEW x \in Voxels, IsCorner(x, Which[n], Which)
    PROVE  IsCorner(x, n, Which)
<1> DEFINE d == Which[n]
<1>1. d \in Slots[n] /\ d \in Cells /\ n \in Parents[d] /\ Parents[d] = Parents[n] \union {n}
      /\ x \in Cells
  BY EndFacts, SlotFacts DEF Voxels
<1> HIDE DEF d
<1>2. x \in VoxelsIn[d] /\ d \in Above[x]
  BY <1>1, VoxelInside DEF IsCorner, d
<1>3. n \in Above[x]
  BY <1>1, <1>2, Chain
<1>4. ASSUME NEW p \in Above[x] \ {x}, p \in {n} \union Below[n] PROVE Which[p] \in Above[x]
  <2>1. CASE p = n
    BY <1>2, <2>1 DEF d
  <2>2. CASE p \in Below[n]
    <3>1. p \in Cells /\ n \in Parents[p]
      BY <2>2 DEF Below
    <3>2. p \notin Parents[n] /\ p # n
      BY <3>1, Chain
    <3>3. p = d \/ d \in Parents[p]
      BY <1>1, <1>2, <3>2, Chain
    <3>4. p \in {d} \union Below[d]
      BY <1>1, <3>1, <3>3 DEF Below
    <3> QED
      BY <3>4 DEF IsCorner, d
  <2> QED
    BY <1>4, <2>1, <2>2
<1>5. x \in VoxelsIn[n]
  BY <1>3, VoxelInside
<1> QED
  BY <1>4, <1>5 DEF IsCorner

\* A voxel is its own corner.
LEMMA CornerOfVoxel ==
    ASSUME NEW x \in Voxels, NEW Which
    PROVE  IsCorner(x, x, Which)
<1>1. x \in Cells /\ Level[x] = 0
  BY DEF Voxels
<1>2. x \in VoxelsIn[x]
  BY <1>1, Chain, VoxelInside
<1>3. ASSUME NEW p \in Above[x] \ {x} PROVE p \notin {x} \union Below[x]
  <2>1. p \in Parents[x]
    BY <1>1, Chain
  <2>2. x \notin Parents[p]
    BY <1>1, <2>1, Chain
  <2> QED
    BY <1>1, <1>3, <2>2 DEF Below
<1> QED
  BY <1>2, <1>3 DEF IsCorner

\* Every cell has corners.
LEMMA CornerExists ==
    ASSUME NEW Which \in Ends, NEW c \in Cells
    PROVE  \E x \in VoxelsIn[c] : x \in Voxels /\ IsCorner(x, c, Which)
<1> DEFINE S == {l \in Nat : \A d \in Cells : Level[d] = l => \E x \in Voxels : IsCorner(x, d, Which)}
<1>1. RootLevel \in Nat
  BY RootLevelNat
<1>2. 0 \in S
  <2>1. ASSUME NEW d \in Cells, Level[d] = 0 PROVE d \in Voxels /\ IsCorner(d, d, Which)
    BY <2>1, CornerOfVoxel DEF Voxels
  <2> QED
    BY <2>1
<1>3. ASSUME NEW l \in 0 + 1 .. RootLevel, l - 1 \in S PROVE l \in S
  <2>1. ASSUME NEW d \in Cells, Level[d] = l PROVE \E x \in Voxels : IsCorner(x, d, Which)
    <3>1. Level[d] > 0 /\ Level[d] - 1 = l - 1
      BY <2>1
    <3>2. Which[d] \in Cells /\ Level[Which[d]] = l - 1
      BY <3>1, EndFacts, SlotFacts
    <3>3. PICK x \in Voxels : IsCorner(x, Which[d], Which)
      BY <1>3, <3>2
    <3> QED
      BY <3>1, <3>3, CornerUp
  <2>2. l \in Nat
    OBVIOUS
  <2> QED
    BY <2>1, <2>2
<1> HIDE DEF S
<1>4. \A l \in 0 .. RootLevel : l \in S
  BY <1>1, <1>2, <1>3, Climb
<1>5. Level[c] \in 0 .. RootLevel
  BY Chain
<1>6. PICK x \in Voxels : IsCorner(x, c, Which)
  BY <1>4, <1>5 DEF S
<1> QED
  BY <1>6 DEF IsCorner

\* Corner looks at the tile over a corner of the cell.
LEMMA CornerHeld ==
    ASSUME NEW T, WellFormed(T), NEW c \in DOMAIN T, NEW Which \in Ends
    PROVE  \E x \in VoxelsIn[c] : \E e \in {c} \union Below[c] :
              /\ x \in Voxels /\ IsCorner(x, c, Which)
              /\ e \in Above[x] /\ IsTile(T, e)
              /\ Corner(T, c, Which) = T[e].value
<1> DEFINE D == {c} \union Below[c]
           V == {T[d].value : d \in D}
           rank == [d \in D |-> Level[d]]
           Body(f, d) == IF IsChild(T, d) THEN f[Which[d]] ELSE T[d].value
           G == [f \in [D -> V] |-> [d \in D |-> Body(f, d)]]
<1>1. c \in Cells /\ RootLevel \in Nat /\ Slots \in [Cells -> SUBSET Cells]
  BY Shape, RootLevelNat DEF Slots, Below
<1>2. \A d \in D : d \in Cells /\ Level[d] \in 0 .. RootLevel
  BY <1>1, Chain DEF Below
<1>3. ASSUME NEW d \in D, IsChild(T, d)
      PROVE  /\ Level[d] > 0 /\ Which[d] \in Slots[d] /\ Slots[d] \subseteq DOMAIN T
             /\ Which[d] \in D /\ Level[Which[d]] = Level[d] - 1
  <2>1. d \in DOMAIN T /\ T[d] = Child /\ d \in Cells
    BY <1>2, <1>3 DEF IsChild
  <2>2. Level[d] > 0 /\ Slots[d] \subseteq DOMAIN T
    BY <2>1, Shape
  <2>3. Which[d] \in Slots[d]
    BY <2>1, <2>2, EndFacts
  <2>4. Which[d] \in Cells /\ Parents[Which[d]] = Parents[d] \union {d}
        /\ Level[Which[d]] = Level[d] - 1
    BY <2>1, <2>3, SlotFacts
  <2>5. c \in Parents[Which[d]]
    BY <1>1, <2>4 DEF Below
  <2> QED
    BY <1>1, <2>2, <2>3, <2>4, <2>5 DEF Below
<1>4. G \in [[D -> V] -> [D -> V]]
  <2>1. ASSUME NEW f \in [D -> V], NEW d \in D PROVE Body(f, d) \in V
    BY <1>3
  <2> QED
    BY <2>1
<1>5. ASSUME NEW f \in [D -> V], NEW g \in [D -> V], NEW d \in D,
             \A e \in D : rank[e] < rank[d] => f[e] = g[e]
      PROVE  G[f][d] = G[g][d]
  <2>1. CASE IsChild(T, d)
    <3>1. Which[d] \in D /\ rank[Which[d]] < rank[d]
      BY <1>2, <1>3, <2>1
    <3>2. Body(f, d) = Body(g, d)
      BY <1>5, <3>1
    <3> QED
      BY <3>2
  <2>2. CASE ~ IsChild(T, d)
    BY <2>2
  <2> QED
    BY <2>1, <2>2
<1>6. rank \in [D -> Nat] /\ (\A d \in D : rank[d] <= RootLevel) /\ V # {}
  BY <1>1, <1>2
<1>7. \E f \in [D -> V] : f = G[f]
  <2> HIDE DEF D, V, rank, G
  <2>1. \A f, g \in [D -> V] : \A d \in D :
           (\A e \in D : rank[e] < rank[d] => f[e] = g[e]) => G[f][d] = G[g][d]
    BY <1>5
  <2>2. ByRank(D, V, rank, RootLevel, G)
    BY <1>1, <1>4, <1>6, <2>1 DEF ByRank
  <2> QED
    BY <2>2, Recursion
<1>8. PICK f0 \in [D -> V] : f0 = [d \in D |-> Body(f0, d)]
  BY <1>7
<1> DEFINE at == CHOOSE f : f = [d \in D |-> Body(f, d)]
<1>9. at = [d \in D |-> Body(at, d)]
  BY <1>8
<1>10. Corner(T, c, Which) = at[c]
  BY DEF Corner
<1> HIDE DEF at
<1>11. \A d \in D : at[d] = Body(at, d)
  BY <1>9
<1> HIDE DEF G, V, rank
<1> DEFINE Held(d) == \E x \in Voxels : \E e \in {d} \union Below[d] :
                         /\ IsCorner(x, d, Which) /\ e \in Above[x] /\ IsTile(T, e)
                         /\ at[d] = T[e].value
           S == {l \in Nat : \A d \in D \intersect DOMAIN T : Level[d] = l => Held(d)}
<1>12. ASSUME NEW d \in D \intersect DOMAIN T, ~ IsChild(T, d) PROVE Held(d)
  <2>1. d \in Cells /\ IsTile(T, d)
    BY <1>2, <1>12 DEF IsChild, IsTile
  <2>2. PICK x \in VoxelsIn[d] : x \in Voxels /\ IsCorner(x, d, Which)
    BY <2>1, CornerExists
  <2>3. d \in Above[x]
    BY <2>1, <2>2, VoxelInside
  <2>4. at[d] = T[d].value
    BY <1>11, <1>12
  <2> QED
    BY <2>1, <2>2, <2>3, <2>4
<1>13. 0 \in S
  <2>1. ASSUME NEW d \in D \intersect DOMAIN T, Level[d] = 0 PROVE Held(d)
    <3>1. ~ IsChild(T, d)
      BY <1>3, <2>1
    <3> QED
      BY <1>12, <3>1
  <2> QED
    BY <2>1
<1>14. ASSUME NEW l \in 0 + 1 .. RootLevel, l - 1 \in S PROVE l \in S
  <2>1. ASSUME NEW d \in D \intersect DOMAIN T, Level[d] = l, IsChild(T, d) PROVE Held(d)
    <3>1. /\ d \in Cells /\ Level[d] > 0 /\ Which[d] \in Slots[d] /\ Which[d] \in DOMAIN T
          /\ Which[d] \in D /\ Level[Which[d]] = l - 1
      BY <1>2, <1>3, <2>1
    <3>2. Held(Which[d])
      BY <1>14, <3>1
    <3>3. PICK x \in Voxels, e \in {Which[d]} \union Below[Which[d]] :
             /\ IsCorner(x, Which[d], Which) /\ e \in Above[x] /\ IsTile(T, e)
             /\ at[Which[d]] = T[e].value
      BY <3>2
    <3>4. IsCorner(x, d, Which)
      BY <3>1, <3>3, CornerUp
    <3>5. at[d] = T[e].value
      BY <1>11, <2>1, <3>3
    <3>6. e \in Below[d]
      <4>1. Which[d] \in Cells /\ Parents[Which[d]] = Parents[d] \union {d}
        BY <3>1, SlotFacts
      <4>2. e \in Cells /\ (e = Which[d] \/ Which[d] \in Parents[e])
        BY <3>3, <4>1 DEF Below
      <4>3. d \in Parents[e]
        <5>1. CASE e = Which[d]
          BY <4>1, <5>1
        <5>2. CASE Which[d] \in Parents[e]
          BY <4>1, <4>2, <5>2, Chain, ParentsNested
        <5> QED
          BY <4>2, <5>1, <5>2
      <4> QED
        BY <3>1, <4>2, <4>3 DEF Below
    <3> QED
      BY <3>3, <3>4, <3>5, <3>6
  <2>2. l \in Nat
    OBVIOUS
  <2> QED
    BY <1>12, <2>1, <2>2
<1> HIDE DEF S
<1>15. \A l \in 0 .. RootLevel : l \in S
  BY <1>1, <1>13, <1>14, Climb
<1>16. c \in D /\ Level[c] \in 0 .. RootLevel
  BY <1>2
<1>17. Held(c)
  BY <1>15, <1>16 DEF S
<1> QED
  BY <1>10, <1>17 DEF IsCorner

\* In a tile it looks at the tile.
LEMMA TileCorner ==
    ASSUME NEW T, WellFormed(T), NEW c, IsTile(T, c), NEW Which \in Ends
    PROVE  Corner(T, c, Which) = T[c].value
<1>1. c \in DOMAIN T /\ c \in Cells /\ T[c] # Child
  BY Shape DEF IsTile
<1>2. PICK x \in VoxelsIn[c], e \in {c} \union Below[c] :
         x \in Voxels /\ e \in Above[x] /\ IsTile(T, e) /\ Corner(T, c, Which) = T[e].value
  BY <1>1, CornerHeld
<1>3. x \in Cells /\ c \in Above[x]
  BY <1>1, <1>2, VoxelInside DEF Voxels
<1> QED
  BY <1>2, <1>3, OneTile

\* Every tile at a cell and below it has one sign.
TilesSigned(T, c, R) ==
    \A e \in {c} \union Below[c] : IsTile(T, e) => Signed(R, e, T[e].value < 0)

\* The sign that Corner finds reaches a corner.
LEMMA CornerSign ==
    ASSUME NEW T, WellFormed(T), NEW R, NEW c \in DOMAIN T, TilesSigned(T, c, R), NEW Which \in Ends
    PROVE  \E x \in VoxelsIn[c] : /\ x \in Voxels /\ IsCorner(x, c, Which)
                                  /\ <<x, IsInside(T, c, Which)>> \in R
<1>1. PICK x \in VoxelsIn[c], e \in {c} \union Below[c] :
         /\ x \in Voxels /\ IsCorner(x, c, Which)
         /\ e \in Above[x] /\ IsTile(T, e) /\ Corner(T, c, Which) = T[e].value
  BY CornerHeld
<1>2. e \in Cells
  BY <1>1, Shape DEF IsTile
<1>3. x \in VoxelsIn[e]
  BY <1>1, <1>2, VoxelInside
<1>4. <<x, T[e].value < 0>> \in R
  BY <1>1, <1>3 DEF TilesSigned, Signed
<1> QED
  BY <1>1, <1>4 DEF IsInside

-------------------------------------------------------------------------------
(* A scanline.                                                             *)

\* It goes on with the sign at the last voxel of an entry, ...
LEMMA ScanForward ==
    ASSUME NEW R, SignsSpread(R), NEW c \in Cells, Before[c] # c, Quiet(c),
           NEW x \in Voxels, IsCorner(x, Before[c], Last),
           NEW s \in BOOLEAN, <<x, s>> \in R
    PROVE  Signed(R, c, s)
BY ScanlinesAssumption, CarriedOver

\* ... and comes from the sign at the first.
LEMMA ScanBackward ==
    ASSUME NEW R, SignsSpread(R), NEW c \in Cells, Before[c] # c, Quiet(Before[c]),
           NEW x \in Voxels, IsCorner(x, c, First),
           NEW s \in BOOLEAN, <<x, s>> \in R
    PROVE  Signed(R, Before[c], s)
BY ScanlinesAssumption, ToolsAssumption, CarriedOver

\* Between entries without active voxels.
LEMMA ScanQuiet ==
    ASSUME NEW R, SignsSpread(R), NEW c \in Cells, Before[c] # c,
           Quiet(c), Quiet(Before[c]), NEW s \in BOOLEAN
    PROVE  Signed(R, c, s) <=> Signed(R, Before[c], s)
<1>1. Before[c] \in Cells
  BY ToolsAssumption
<1>2. ASSUME Signed(R, c, s) PROVE Signed(R, Before[c], s)
  <2>1. PICK x \in VoxelsIn[c] : x \in Voxels /\ IsCorner(x, c, First)
    BY CornerExists DEF Ends
  <2> QED
    BY <1>2, <2>1, ScanBackward DEF Signed
<1>3. ASSUME Signed(R, Before[c], s) PROVE Signed(R, c, s)
  <2>1. PICK x \in VoxelsIn[Before[c]] : x \in Voxels /\ IsCorner(x, Before[c], Last)
    BY <1>1, CornerExists DEF Ends
  <2> QED
    BY <1>3, <2>1, ScanForward DEF Signed
<1> QED
  BY <1>2, <1>3

\* The entries of a node are those of its scanlines.
LEMMA BeforeSlot ==
    ASSUME NEW n \in Cells, NEW c \in Slots[n]
    PROVE  /\ c \in Cells /\ Offset[c] \in Nat
           /\ Before[c] \in Slots[n]
           /\ Before[c] # c => Offset[Before[c]] < Offset[c]
           /\ Before[c] = c => c = First[n]
<1>1. c \in Cells /\ n \in Parents[c] /\ Level[c] = Level[n] - 1
  BY SlotFacts
<1>2. Before[c] \in Cells
  BY <1>1, ToolsAssumption
<1>3. Before[c] # c => Before[c] \in Slots[n] /\ Offset[Before[c]] < Offset[c]
  BY <1>1, <1>2, ScanlinesAssumption DEF Slots, Below
<1>4. Before[c] = c => c = First[n]
  BY ScanlinesAssumption
<1> QED
  BY <1>1, <1>3, <1>4, OffsetsAssumption

\* The sign before the first stop of a node.
Start(T, n) == IF Stops(T, n) = {} THEN IsInside(T, First[n], First)
               ELSE IsInside(T, LowestOffset(Stops(T, n)), First)

\* Signs are one of two.
LEMMA SignTyped ==
    ASSUME NEW T
    PROVE  /\ \A c, Which : IsInside(T, c, Which) \in BOOLEAN
           /\ \A n : Start(T, n) \in BOOLEAN
<1>1. ASSUME NEW c, NEW Which PROVE IsInside(T, c, Which) \in BOOLEAN
  BY DEF IsInside
<1>2. ASSUME NEW n PROVE Start(T, n) \in BOOLEAN
  BY <1>1 DEF Start
<1> QED
  BY <1>1, <1>2

\* Steps of Insides.
LEMMA InsidesSteps ==
    ASSUME NEW T, NEW n \in Cells, Level[n] > 0
    PROVE  \A c \in Slots[n] :
              /\ Insides(T, n)[c] \in BOOLEAN
              /\ Insides(T, n)[c] = IF c \in Stops(T, n) THEN IsInside(T, c, Last)
                                    ELSE IF Before[c] = c THEN Start(T, n)
                                    ELSE Insides(T, n)[Before[c]]
<1> DEFINE D == Slots[n]
           V == BOOLEAN
           rank == [c \in D |-> Offset[c]]
           Body(f, c) == IF c \in Stops(T, n) THEN IsInside(T, c, Last)
                         ELSE IF Before[c] = c THEN Start(T, n)
                         ELSE f[Before[c]]
           G == [f \in [D -> V] |-> [c \in D |-> Body(f, c)]]
<1>1. \A c \in D : /\ Offset[c] \in Nat /\ Before[c] \in D
                   /\ Before[c] # c => Offset[Before[c]] < Offset[c]
  BY BeforeSlot
<1>2. Start(T, n) \in BOOLEAN /\ \A c \in D : IsInside(T, c, Last) \in BOOLEAN
  BY SignTyped
<1>3. \E bound \in Nat : \A c \in D : rank[c] <= bound
  <2>1. rank \in [D -> Int]
    BY <1>1
  <2>2. IsFiniteSet(D) /\ D # {}
    BY ToolsAssumption, FirstFacts
  <2>3. PICK a \in D : \A c \in D : rank[c] <= rank[a]
    <3> HIDE DEF D, rank
    <3> QED
      BY <2>1, <2>2, Largest
  <2>4. rank[a] \in Nat
    BY <1>1
  <2> QED
    BY <2>3, <2>4
<1>4. PICK bound \in Nat : \A c \in D : rank[c] <= bound
  BY <1>3
<1>5. G \in [[D -> V] -> [D -> V]]
  <2>1. ASSUME NEW f \in [D -> V], NEW c \in D PROVE Body(f, c) \in V
    <3> HIDE DEF D
    <3>1. f[Before[c]] \in V
      BY <1>1
    <3> QED
      BY <1>2, <3>1
  <2> HIDE DEF Body, D
  <2> QED
    BY <2>1
<1>6. ASSUME NEW f \in [D -> V], NEW g \in [D -> V], NEW c \in D,
             \A e \in D : rank[e] < rank[c] => f[e] = g[e]
      PROVE  G[f][c] = G[g][c]
  <2>1. Before[c] # c => f[Before[c]] = g[Before[c]]
    BY <1>1, <1>6
  <2>2. Body(f, c) = Body(g, c)
    BY <2>1
  <2> QED
    BY <2>2
<1>7. rank \in [D -> Nat] /\ V # {}
  BY <1>1
<1>8. \E f \in [D -> V] : f = G[f]
  <2> HIDE DEF D, V, rank, G
  <2>1. \A f, g \in [D -> V] : \A c \in D :
           (\A e \in D : rank[e] < rank[c] => f[e] = g[e]) => G[f][c] = G[g][c]
    BY <1>6
  <2>2. ByRank(D, V, rank, bound, G)
    BY <1>4, <1>5, <1>7, <2>1 DEF ByRank
  <2> QED
    BY <2>2, Recursion
<1>9. PICK f0 \in [D -> V] : f0 = [c \in D |-> Body(f0, c)]
  BY <1>8
<1> DEFINE inside == CHOOSE f : f = [c \in D |-> Body(f, c)]
<1>10. inside = [c \in D |-> Body(inside, c)]
  BY <1>9
<1>11. Insides(T, n) = inside
  BY DEF Insides, Start
<1> HIDE DEF inside
<1>12. \A c \in D : inside[c] = Body(inside, c)
  BY <1>10
<1>13. ASSUME NEW c \in D, inside[c] \notin BOOLEAN PROVE FALSE
  <2> DEFINE bad == {Offset[e] : e \in {b \in D : inside[b] \notin BOOLEAN}}
  <2>1. bad \in SUBSET Nat /\ bad # {}
    BY <1>1, <1>13
  <2>2. PICK m \in bad : \A k \in bad : m <= k
    BY <2>1, Least
  <2>3. PICK e \in D : inside[e] \notin BOOLEAN /\ Offset[e] = m
    BY <2>2
  <2>4. e \notin Stops(T, n) /\ Before[e] # e /\ inside[e] = inside[Before[e]]
    BY <1>2, <1>12, <2>3
  <2>5. Before[e] \in D /\ Offset[Before[e]] < m /\ Offset[Before[e]] \in Nat /\ m \in Nat
    BY <1>1, <2>3, <2>4
  <2>6. Offset[Before[e]] \in bad
    BY <2>3, <2>4, <2>5
  <2> QED
    BY <2>2, <2>5, <2>6
<1> QED
  BY <1>11, <1>12, <1>13

\* In a node of which the children and the active voxels have the right signs, and no
\* other entry has an active voxel, every other entry gets the sign that reaches it.
LEMMA InsidesRight ==
    ASSUME NEW T, WellFormed(T), NEW R, SignsSpread(R), NEW n \in Nodes(T),
           \A c \in Stops(T, n) : TilesSigned(T, c, R),
           \A c \in Slots[n] \ Stops(T, n) : Quiet(c),
           Stops(T, n) = {} => Signed(R, First[n], IsInside(T, First[n], First))
    PROVE  \A c \in Slots[n] \ Stops(T, n) :
              Insides(T, n)[c] \in BOOLEAN /\ Signed(R, c, Insides(T, n)[c])
<1> DEFINE inside == Insides(T, n)
           free == Slots[n] \ Stops(T, n)
<1>1. n \in Cells /\ Level[n] > 0 /\ Slots[n] \subseteq DOMAIN T
  BY Shape DEF Nodes, IsChild
<1>2. Stops(T, n) \subseteq Slots[n]
  BY DEF Stops
<1>3. \A c \in Slots[n] :
         /\ inside[c] \in BOOLEAN
         /\ inside[c] = IF c \in Stops(T, n) THEN IsInside(T, c, Last)
                        ELSE IF Before[c] = c THEN Start(T, n)
                        ELSE inside[Before[c]]
  BY <1>1, InsidesSteps
<1> HIDE DEF inside
<1>4. \A c \in Slots[n] : /\ c \in Cells /\ Offset[c] \in Nat
                          /\ Before[c] \in Slots[n]
                          /\ Before[c] # c => Offset[Before[c]] < Offset[c]
                          /\ Before[c] = c => c = First[n]
  BY <1>1, BeforeSlot
<1>5. ASSUME NEW c \in Stops(T, n), NEW Which \in Ends
      PROVE  \E x \in VoxelsIn[c] : /\ x \in Voxels /\ IsCorner(x, c, Which)
                                    /\ <<x, IsInside(T, c, Which)>> \in R
  BY <1>1, <1>2, <1>5, CornerSign
<1>6. Start(T, n) \in BOOLEAN /\ \A c, Which : IsInside(T, c, Which) \in BOOLEAN
  BY SignTyped
<1>7. ASSUME First[n] \in free PROVE Signed(R, First[n], Start(T, n))
  <2>1. CASE Stops(T, n) = {}
    BY <2>1 DEF Start
  <2>2. CASE Stops(T, n) # {}
    <3> DEFINE f == LowestOffset(Stops(T, n))
               offsets == {Offset[c] : c \in Stops(T, n)}
    <3>1. offsets \in SUBSET Nat /\ offsets # {}
      BY <1>2, <1>4, <2>2
    <3>2. PICK m \in offsets : \A k \in offsets : m <= k
      BY <3>1, Least
    <3>3. \E c \in Stops(T, n) : \A d \in Stops(T, n) : Offset[c] <= Offset[d]
      BY <3>2
    <3>4. f \in Stops(T, n) /\ \A d \in Stops(T, n) : Offset[f] <= Offset[d]
      BY <3>3 DEF LowestOffset
    <3>5. Start(T, n) = IsInside(T, f, First)
      BY <2>2 DEF Start
    <3> HIDE DEF f, offsets
    <3> DEFINE reached(c) == c = f \/ (c \in free /\ Signed(R, c, Start(T, n)))
               Q == {Offset[c] : c \in {d \in Slots[n] : reached(d) /\ Offset[d] <= Offset[f]}}
    <3>6. Q \in SUBSET Nat /\ Offset[f] \in Q
      BY <1>2, <1>4, <3>4
    <3>7. PICK q \in Q : \A k \in Q : q <= k
      BY <3>6, Least
    <3>8. PICK c \in Slots[n] : reached(c) /\ Offset[c] <= Offset[f] /\ Offset[c] = q
      BY <3>7
    <3>9. CASE Before[c] = c
      <4>1. c = First[n] /\ c # f
        BY <1>4, <1>7, <3>4, <3>9
      <4> QED
        BY <3>8, <4>1
    <3>10. CASE Before[c] # c
      <4> DEFINE b == Before[c]
      <4>1. b \in Slots[n] /\ c \in Cells /\ Offset[b] < Offset[c] /\ Offset[b] \in Nat
            /\ Offset[c] \in Nat /\ Offset[f] \in Nat
        BY <1>2, <1>4, <3>4, <3>10
      <4>2. b \in free
        <5>1. ~ (Offset[f] <= Offset[b])
          BY <3>8, <4>1
        <5> QED
          BY <3>4, <4>1, <5>1
      <4>3. Quiet(b)
        BY <4>2
      <4>4. PICK x \in VoxelsIn[c] : /\ x \in Voxels /\ IsCorner(x, c, First)
                                     /\ <<x, Start(T, n)>> \in R
        <5>1. First \in Ends
          BY DEF Ends
        <5>2. CASE c = f
          BY <1>5, <3>4, <3>5, <5>1, <5>2
        <5>3. CASE c # f
          <6>1. PICK x \in VoxelsIn[c] : x \in Voxels /\ IsCorner(x, c, First)
            BY <4>1, <5>1, CornerExists
          <6> QED
            BY <3>8, <5>3, <6>1 DEF Signed
        <5> QED
          BY <5>2, <5>3
      <4>5. Signed(R, b, Start(T, n))
        BY <1>6, <3>10, <4>1, <4>3, <4>4, ScanBackward
      <4>6. Offset[b] \in Q
        <5>1. reached(b)
          BY <4>2, <4>5
        <5>2. Offset[b] <= Offset[f]
          BY <3>8, <4>1
        <5> HIDE DEF reached, b
        <5> QED
          BY <4>1, <5>1, <5>2
      <4> QED
        BY <3>7, <3>8, <4>1, <4>6
    <3> QED
      BY <3>9, <3>10
  <2> QED
    BY <2>1, <2>2
<1>8. ASSUME NEW w \in free, ~ Signed(R, w, inside[w]) PROVE FALSE
  <2> DEFINE wrong(c) == c \in free /\ ~ Signed(R, c, inside[c])
             bad == {Offset[c] : c \in {d \in Slots[n] : wrong(d)}}
  <2>1. bad \in SUBSET Nat /\ bad # {}
    BY <1>4, <1>8
  <2>2. PICK m \in bad : \A k \in bad : m <= k
    BY <2>1, Least
  <2>3. PICK c \in Slots[n] : wrong(c) /\ Offset[c] = m
    BY <2>2
  <2>4. CASE Before[c] = c
    <3>1. c = First[n] /\ inside[c] = Start(T, n)
      BY <1>3, <1>4, <2>3, <2>4
    <3> QED
      BY <1>7, <2>3, <3>1
  <2>5. CASE Before[c] # c
    <3> DEFINE b == Before[c]
    <3>1. b \in Slots[n] /\ b \in Cells /\ c \in Cells /\ Offset[b] < Offset[c]
          /\ Offset[b] \in Nat /\ Offset[c] \in Nat
      BY <1>4, <2>5
    <3>2. inside[c] = inside[b]
      BY <1>3, <2>3, <2>5
    <3>3. ~ (m <= Offset[b])
      BY <2>3, <3>1
    <3>4. Offset[b] \notin bad
      BY <2>2, <3>3
    <3>5. ~ wrong(b)
      <4> HIDE DEF wrong, b
      <4> QED
        BY <3>1, <3>4
    <3>6. \E x \in Voxels : IsCorner(x, b, Last) /\ <<x, inside[b]>> \in R
      <4>1. Last \in Ends
        BY DEF Ends
      <4>2. CASE b \in Stops(T, n)
        <5>1. inside[b] = IsInside(T, b, Last)
          BY <1>3, <3>1, <4>2
        <5> QED
          BY <1>5, <4>1, <4>2, <5>1
      <4>3. CASE b \notin Stops(T, n)
        <5>1. Signed(R, b, inside[b])
          BY <3>1, <3>5, <4>3
        <5>2. PICK x \in VoxelsIn[b] : x \in Voxels /\ IsCorner(x, b, Last)
          BY <3>1, <4>1, CornerExists
        <5> QED
          BY <5>1, <5>2 DEF Signed
      <4> QED
        BY <4>2, <4>3
    <3>7. Quiet(c) /\ inside[b] \in BOOLEAN
      BY <1>3, <2>3, <3>1
    <3>8. Signed(R, c, inside[b])
      BY <2>5, <3>1, <3>6, <3>7, ScanForward
    <3> QED
      BY <2>3, <3>2, <3>8
  <2> QED
    BY <2>4, <2>5
<1> QED
  BY <1>3, <1>8 DEF inside

-------------------------------------------------------------------------------
(* All levels of nodes.                                                    *)

\* What is known of the signs before the flood fill.
Floodable(R, W) ==
    /\ WellFormed(tree) /\ mBackground \in Values
    /\ SignsSpread(R) /\ Closed(R) /\ SignsKnown(R)
    /\ W.inside \in Values /\ W.outside \in Values /\ W.inside < 0 /\ W.outside >= 0

\* A tile has active voxels, or none; the former have their own sign.
LEMMA TileSigns ==
    ASSUME WellFormed(tree), NEW R, SignsSpread(R), NEW c, IsTile(tree, c)
    PROVE  /\ \A x \in VoxelsIn[c] : x \in Voxels /\ Map[x] = tree[c]
           /\ tree[c].active => Signed(R, c, tree[c].value < 0)
           /\ ~ tree[c].active => Quiet(c)
<1>1. c \in Cells
  BY Shape DEF IsTile
<1>2. \A x \in VoxelsIn[c] : x \in Voxels /\ c \in Above[x] /\ x \in Cells
  BY <1>1, VoxelInside DEF Voxels
<1>3. \A x \in VoxelsIn[c] : x \in Voxels /\ Map[x] = tree[c]
  <2>1. ASSUME NEW x \in VoxelsIn[c] PROVE Stored(tree, x) = tree[c]
    BY <1>2, StoredTile
  <2> QED
    BY <1>2, <2>1 DEF Map, Contents
<1>4. ASSUME tree[c].active PROVE Signed(R, c, tree[c].value < 0)
  <2>1. \A x \in VoxelsIn[c] : x \in Active /\ Map[x].value = tree[c].value
    BY <1>3, <1>4 DEF Active
  <2> QED
    BY <2>1 DEF Signed, SignsSpread
<1>5. ~ tree[c].active => Quiet(c)
  BY <1>3 DEF Active, Quiet
<1> QED
  BY <1>3, <1>4, <1>5

\* U is what the flood fill has made of the tree when the entries below level m have
\* got their signs.
FloodedTo(U, m, R, W) ==
    /\ WellFormed(U) /\ DOMAIN U = DOMAIN tree
    /\ \A c \in DOMAIN tree :
          /\ IsChild(U, c) <=> IsChild(tree, c)
          /\ IsTile(tree, c) /\ tree[c].active => U[c] = tree[c]
          /\ Level[c] >= m => U[c] = tree[c]
          /\ IsTile(tree, c) /\ ~ tree[c].active /\ Level[c] < m =>
                U[c] \in {Off(W.inside), Off(W.outside)} /\ Signed(R, c, U[c].value < 0)

\* Below a child or an active voxel, all signs are right.
LEMMA FloodedBelow ==
    ASSUME NEW R, NEW W, Floodable(R, W), NEW T, NEW m \in Int, FloodedTo(T, m, R, W),
           NEW c \in DOMAIN T, Level[c] <= m, ~ IsChild(T, c) => tree[c].active
    PROVE  TilesSigned(T, c, R)
<1>1. WellFormed(tree) /\ WellFormed(T) /\ DOMAIN T = DOMAIN tree /\ SignsSpread(R)
  BY DEF Floodable, FloodedTo
<1>2. c \in Cells
  BY <1>1, Shape
<1>3. ASSUME NEW e \in {c} \union Below[c], IsTile(T, e) PROVE Signed(R, e, T[e].value < 0)
  <2>1. e \in DOMAIN tree /\ T[e] # Child
    BY <1>1, <1>3 DEF IsTile
  <2>2. IsTile(tree, e)
    BY <2>1 DEF IsTile, IsChild, FloodedTo
  <2>3. CASE tree[e].active
    <3>1. T[e] = tree[e]
      BY <2>1, <2>2, <2>3 DEF FloodedTo
    <3> QED
      BY <1>1, <2>2, <2>3, <3>1, TileSigns
  <2>4. CASE ~ tree[e].active
    <3>1. e # c
      BY <1>3, <2>1, <2>4 DEF IsChild, IsTile
    <3>2. e \in Cells /\ c \in Parents[e]
      BY <1>2, <1>3, <3>1 DEF Below
    <3>3. Level[e] < Level[c] /\ Level[e] \in Int /\ Level[c] \in Int
      BY <1>2, <3>2, Chain
    <3>4. Level[e] < m
      BY <3>3
    <3> QED
      BY <2>1, <2>2, <2>4, <3>4 DEF FloodedTo
  <2> QED
    BY <2>3, <2>4
<1> QED
  BY <1>3 DEF TilesSigned

\* The entries of one node get their signs.
LEMMA FloodedNode ==
    ASSUME NEW R, NEW W, Floodable(R, W), NEW l \in 1 .. RootLevel,
           NEW T, FloodedTo(T, l - 1, R, W), NEW n \in Nodes(T), Level[n] = l
    PROVE  \A c \in Slots[n] \ Stops(T, n) :
              /\ Insides(T, n)[c] \in BOOLEAN /\ Signed(R, c, Insides(T, n)[c])
              /\ IsTile(tree, c) /\ ~ tree[c].active /\ T[c] = tree[c]
<1>1. WellFormed(tree) /\ WellFormed(T) /\ DOMAIN T = DOMAIN tree /\ SignsSpread(R)
  BY DEF Floodable, FloodedTo
<1>2. n \in Cells /\ n \in DOMAIN T /\ T[n] = Child
  BY DEF Nodes, IsChild
<1>3. ASSUME NEW c \in Slots[n]
      PROVE c \in Cells /\ c \in DOMAIN T /\ Level[c] = l - 1 /\ T[c] = tree[c]
  <2>1. c \in Cells /\ Level[c] = l - 1 /\ c \in DOMAIN T
    BY <1>1, <1>2, SlotFacts, Shape
  <2>2. Level[c] >= l - 1
    BY <2>1
  <2> QED
    BY <1>1, <2>1, <2>2 DEF FloodedTo
<1>4. \A c \in Stops(T, n) : TilesSigned(T, c, R)
  <2>1. ASSUME NEW c \in Stops(T, n) PROVE TilesSigned(T, c, R)
    <3>1. c \in Slots[n] /\ (~ IsChild(T, c) => T[c].active)
      BY DEF Stops
    <3>2. c \in DOMAIN T /\ Level[c] <= l - 1 /\ (~ IsChild(T, c) => tree[c].active)
      BY <1>3, <3>1
    <3>3. l - 1 \in Int
      OBVIOUS
    <3> QED
      BY <3>2, <3>3, FloodedBelow
  <2> QED
    BY <2>1
<1>5. ASSUME NEW c \in Slots[n] \ Stops(T, n)
      PROVE  IsTile(tree, c) /\ ~ tree[c].active /\ T[c] = tree[c] /\ Quiet(c)
  <2>1. T[c] = tree[c] /\ c \in DOMAIN tree /\ ~ IsChild(T, c) /\ ~ (Level[c] = 0 /\ T[c].active)
    BY <1>1, <1>3 DEF Stops
  <2>2. IsTile(tree, c)
    BY <1>1, <2>1 DEF IsTile, IsChild
  <2>3. ~ tree[c].active
    BY <2>1, <2>2 DEF Floodable, Closed
  <2> QED
    BY <1>1, <2>1, <2>2, <2>3, TileSigns
<1>6. ASSUME Stops(T, n) = {} PROVE Signed(R, First[n], IsInside(T, First[n], First))
  <2>1. First[n] \in Slots[n]
    BY <1>1, <1>2, Shape, FirstFacts
  <2>2. \A c \in Slots[n] : IsChild(T, c) <=> IsChild(tree, c)
    BY <1>1, <1>3 DEF IsChild
  <2>3. Stops(tree, n) = {}
    BY <1>3, <1>6, <2>2 DEF Stops
  <2>4. n \in Nodes(tree)
    BY <1>1, <1>2 DEF Nodes, IsChild, FloodedTo
  <2>5. Signed(R, First[n], IsInside(tree, First[n], First))
    BY <2>3, <2>4 DEF Floodable, SignsKnown, Signed
  <2>6. IsTile(tree, First[n]) /\ T[First[n]] = tree[First[n]]
    BY <1>5, <1>6, <2>1
  <2>7. IsTile(T, First[n])
    BY <1>1, <2>6 DEF IsTile
  <2>8. First \in Ends
    BY DEF Ends
  <2>9. Corner(T, First[n], First) = Corner(tree, First[n], First)
    BY <1>1, <2>6, <2>7, <2>8, TileCorner
  <2> QED
    BY <2>5, <2>9 DEF IsInside
<1>7. \A c \in Slots[n] \ Stops(T, n) :
         Insides(T, n)[c] \in BOOLEAN /\ Signed(R, c, Insides(T, n)[c])
  BY <1>1, <1>4, <1>5, <1>6, InsidesRight
<1> QED
  BY <1>5, <1>7

\* Levels are numbers.
LEMMA LevelNat == \A c \in Cells : Level[c] \in Nat
<1>1. ASSUME NEW c \in Cells PROVE Level[c] \in Nat
  <2>1. Level[c] \in 0 .. RootLevel
    BY Chain
  <2> QED
    BY <2>1
<1> QED
  BY <1>1

\* A new value in an inactive tile.
LEMMA OffWith ==
    ASSUME NEW t \in Tile, ~ t.active, NEW v
    PROVE  [t EXCEPT !.value = v] = Off(v)
<1>1. PICK a \in Values, on \in BOOLEAN : t = [value |-> a, active |-> on]
  BY DEF Tile
<1>2. t.active = on
  BY <1>1
<1>3. [t EXCEPT !.value = v] = [value |-> v, active |-> on]
  BY <1>1
<1>4. on = FALSE
  BY <1>2
<1> QED
  BY <1>3, <1>4, Zenon DEF Off

\* The flood fill of one level.
LEMMA FloodStep ==
    ASSUME NEW R, NEW W, Floodable(R, W), NEW l \in 1 .. RootLevel,
           NEW T, FloodedTo(T, l - 1, R, W)
    PROVE  FloodedTo(FloodLevel(T, l, W), l, R, W)
<1> DEFINE U == FloodLevel(T, l, W)
           N == {c \in Nodes(T) : Level[c] = l}
           insides == [n \in N |-> Insides(T, n)]
           free(c) == \E n \in N : c \in Slots[n] \ Stops(T, n)
           new(c) == Off(IF insides[CHOOSE m \in N : c \in Slots[m]][c]
                         THEN W.inside ELSE W.outside)
<1>1. /\ WellFormed(tree) /\ WellFormed(T) /\ DOMAIN T = DOMAIN tree /\ SignsSpread(R)
      /\ W.inside \in Values /\ W.outside \in Values /\ W.inside < 0 /\ W.outside >= 0
      /\ W.inside \in Int /\ W.outside \in Int /\ RootLevel \in Nat
  BY ContentsTyped, RootLevelNat DEF Floodable, FloodedTo
<1>2. WellFormed(U)
  BY <1>1, FloodLevelShape
<1>3. DOMAIN U = DOMAIN tree
  BY <1>1 DEF FloodLevel
<1>4. \A n \in N : n \in Cells
  BY DEF Nodes
<1>5. ASSUME NEW n \in N, NEW c \in Slots[n] \ Stops(T, n)
      PROVE  /\ c \in DOMAIN tree /\ Level[c] = l - 1
             /\ IsTile(tree, c) /\ ~ tree[c].active /\ T[c] = tree[c]
             /\ U[c] = new(c)
             /\ U[c] \in {Off(W.inside), Off(W.outside)}
             /\ Signed(R, c, U[c].value < 0)
  <2>1. n \in Nodes(T) /\ Level[n] = l
    OBVIOUS
  <2>2. /\ insides[n][c] \in BOOLEAN /\ Signed(R, c, insides[n][c])
        /\ IsTile(tree, c) /\ ~ tree[c].active /\ T[c] = tree[c]
    BY <2>1, FloodedNode
  <2>3. c \in Cells /\ c \in DOMAIN tree /\ Level[c] = l - 1 /\ n \in Parents[c]
    BY <1>4, <2>2, SlotFacts DEF IsTile
  <2>4. \A m \in N : c \in Slots[m] => m = n
    <3>1. \A m \in N : c \in Slots[m] => m \in Parents[c]
      BY <1>4, SlotFacts
    <3>2. \A m \in Parents[c] : m \in Above[c]
      BY <2>3, Chain
    <3> QED
      BY <2>1, <2>3, <3>1, <3>2, OnePerLevel
  <2>5. (CHOOSE m \in N : c \in Slots[m]) = n
    BY <2>4
  <2>6. U[c] = [T[c] EXCEPT !.value = IF insides[CHOOSE m \in N : c \in Slots[m]][c]
                                      THEN W.inside ELSE W.outside]
    <3>1. free(c) /\ c \in DOMAIN T
      BY <1>1, <2>3
    <3> QED
      BY <3>1 DEF FloodLevel
  <2>7. T[c] \in Tile
    BY <1>1, <2>2, Shape DEF IsTile
  <2>8. ASSUME NEW v PROVE [T[c] EXCEPT !.value = v] = Off(v)
    BY <2>2, <2>7, OffWith
  <2> HIDE DEF insides, U, N
  <2>9. U[c] = new(c)
    BY <2>6, <2>8
  <2>10. new(c) = IF insides[n][c] THEN Off(W.inside) ELSE Off(W.outside)
    BY <2>5
  <2>11. (U[c].value < 0) = insides[n][c]
    <3>1. CASE insides[n][c]
      <4>1. U[c].value = W.inside
        BY <2>9, <2>10, <3>1 DEF Off
      <4> QED
        BY <1>1, <2>2, <3>1, <4>1
    <3>2. CASE ~ insides[n][c]
      <4>1. U[c].value = W.outside
        BY <2>9, <2>10, <3>2 DEF Off
      <4>2. ~ (U[c].value < 0)
        BY <1>1, <4>1
      <4> QED
        BY <2>2, <3>2, <4>2
    <3> QED
      BY <3>1, <3>2
  <2> HIDE DEF new
  <2>12. Signed(R, c, U[c].value < 0)
    BY <2>2, <2>11
  <2>13. U[c] \in {Off(W.inside), Off(W.outside)}
    BY <2>9, <2>10
  <2> QED
    BY <2>2, <2>3, <2>9, <2>12, <2>13
<1>6. ASSUME NEW c \in DOMAIN tree, ~ free(c) PROVE U[c] = T[c]
  BY <1>1, <1>6 DEF FloodLevel
<1>7. ASSUME NEW c \in DOMAIN tree, IsTile(tree, c), ~ tree[c].active, Level[c] = l - 1
      PROVE  free(c)
  <2>1. c \in Cells /\ Level[c] # RootLevel /\ Level[c] >= l - 1
    BY <1>1, <1>7, Shape
  <2>2. c # KeyOf[c]
    BY <2>1, KeyFacts
  <2>3. PICK q \in Parents[c] : c \in Slots[q]
    BY <2>1, <2>2, EntryOfParent
  <2>4. q \in Cells /\ q \in DOMAIN T /\ T[q] = Child /\ Level[c] = Level[q] - 1
        /\ Level[q] \in Int
    BY <1>1, <2>1, <2>3, Shape, SlotFacts, Chain
  <2>5. q \in N
    BY <1>7, <2>4 DEF Nodes, IsChild
  <2>6. T[c] = tree[c]
    BY <2>1 DEF FloodedTo
  <2>7. c \notin Stops(T, q)
    BY <1>7, <2>6 DEF Stops, IsChild, IsTile
  <2> QED
    BY <2>3, <2>5, <2>7
<1>8. \A c \in DOMAIN tree : Level[c] \in Int
  <2>1. \A c \in DOMAIN tree : c \in Cells
    BY <1>1, Shape
  <2>2. \A c \in DOMAIN tree : Level[c] \in Nat
    BY <2>1, LevelNat
  <2> QED
    BY <2>2
<1> HIDE DEF U, new, insides, N
<1>9. \A c \in DOMAIN tree : free(c) => /\ IsTile(tree, c) /\ ~ tree[c].active
                                      /\ Level[c] = l - 1
                                      /\ U[c] \in {Off(W.inside), Off(W.outside)}
                                      /\ Signed(R, c, U[c].value < 0)
  BY <1>5
<1> HIDE DEF free
<1>10. ASSUME NEW c \in DOMAIN tree
       PROVE  /\ IsChild(U, c) <=> IsChild(tree, c)
              /\ IsTile(tree, c) /\ tree[c].active => U[c] = tree[c]
              /\ Level[c] >= l => U[c] = tree[c]
              /\ IsTile(tree, c) /\ ~ tree[c].active /\ Level[c] < l =>
                    U[c] \in {Off(W.inside), Off(W.outside)} /\ Signed(R, c, U[c].value < 0)
  <2>1. Level[c] \in Int
    BY <1>8
  <2>2. CASE free(c)
    <3>1. /\ IsTile(tree, c) /\ ~ tree[c].active /\ Level[c] = l - 1
          /\ U[c] \in {Off(W.inside), Off(W.outside)} /\ Signed(R, c, U[c].value < 0)
      BY <1>9, <2>2
    <3>2. Off(W.inside) # Child /\ Off(W.outside) # Child
      BY <1>1, OpsTyped, ContentsTyped
    <3>3. ~ IsChild(U, c) /\ ~ IsChild(tree, c)
      BY <3>1, <3>2 DEF IsChild, IsTile
    <3>4. ~ (Level[c] >= l)
      BY <3>1
    <3> QED
      BY <3>1, <3>3, <3>4
  <2>3. CASE ~ free(c)
    <3>1. U[c] = T[c]
      BY <1>6, <2>3
    <3>2. IsChild(U, c) <=> IsChild(T, c)
      BY <1>1, <1>3, <3>1 DEF IsChild
    <3>3. IsTile(tree, c) /\ ~ tree[c].active => Level[c] # l - 1
      BY <1>7, <2>3
    <3>4. (Level[c] >= l => Level[c] >= l - 1) /\ (Level[c] < l /\ Level[c] # l - 1 => Level[c] < l - 1)
      BY <2>1
    <3> QED
      BY <3>1, <3>2, <3>3, <3>4 DEF FloodedTo
  <2> QED
    BY <2>2, <2>3
<1>11. FloodedTo(U, l, R, W)
  BY <1>2, <1>3, <1>10 DEF FloodedTo
<1> QED
  BY <1>11 DEF U

\* The flood fill of all levels, before that of the root table.
LEMMA FloodedUp ==
    ASSUME NEW R, NEW w \in Widths, Floodable(R, Width(w))
    PROVE  \E U : /\ FloodedTo(U, RootLevel, R, Width(w))
                  /\ Flooded(tree, w, 0) = FloodRoot(U, Width(w))
<1>1. PICK up : /\ up[0] = tree
                /\ \A l \in 1 .. RootLevel :
                      up[l] = IF l - 1 < 0 THEN up[l - 1]
                              ELSE FloodLevel(up[l - 1], l, Width(w))
                /\ Flooded(tree, w, 0) = FloodRoot(up[RootLevel], Width(w))
  BY FloodedLevels
<1> DEFINE S == {l \in Nat : FloodedTo(up[l], l, R, Width(w))}
<1>2. RootLevel \in Nat
  BY RootLevelNat
<1>3. 0 \in S
  <2>1. WellFormed(tree)
    BY DEF Floodable
  <2>2. \A c \in DOMAIN tree : ~ (Level[c] < 0)
    <3>1. \A c \in DOMAIN tree : c \in Cells
      BY <2>1, Shape
    <3>2. \A c \in DOMAIN tree : Level[c] \in Nat
      BY <3>1, LevelNat
    <3> QED
      BY <3>2
  <2>3. FloodedTo(tree, 0, R, Width(w))
    BY <2>1, <2>2 DEF FloodedTo
  <2> QED
    BY <1>1, <2>3
<1>4. ASSUME NEW l \in 0 + 1 .. RootLevel, l - 1 \in S PROVE l \in S
  <2>1. l \in 1 .. RootLevel /\ l \in Nat /\ ~ (l - 1 < 0)
    BY <1>2
  <2>2. up[l] = FloodLevel(up[l - 1], l, Width(w))
    BY <1>1, <2>1
  <2>3. FloodedTo(up[l - 1], l - 1, R, Width(w))
    BY <1>4
  <2>4. FloodedTo(up[l], l, R, Width(w))
    BY <2>1, <2>2, <2>3, FloodStep
  <2> QED
    BY <2>1, <2>4
<1> HIDE DEF S
<1>5. \A l \in 0 .. RootLevel : l \in S
  BY <1>2, <1>3, <1>4, Climb
<1>6. FloodedTo(up[RootLevel], RootLevel, R, Width(w))
  BY <1>2, <1>5 DEF S
<1> QED
  BY <1>1, <1>6

-------------------------------------------------------------------------------
(* The scanline of the keys.                                               *)

\* There are as many keys as the voxels need.
LEMMA KeysFinite == IsFiniteSet(Keys)
<1> DEFINE f == [x \in Voxels |-> KeyOf[x]]
<1>1. ASSUME NEW x \in Voxels PROVE f[x] \in Keys
  BY KeyFacts DEF Voxels, Keys
<1>2. ASSUME NEW k \in Keys PROVE \E x \in Voxels : f[x] = k
  <2>1. k \in Cells /\ Level[k] = RootLevel
    BY DEF Keys
  <2>2. PICK x \in VoxelsIn[k] : x \in Voxels /\ k \in Above[x]
    BY <2>1, VoxelInside
  <2>3. x \in Cells
    BY <2>2 DEF Voxels
  <2>4. k = KeyOf[x]
    BY <2>1, <2>2, <2>3, KeyFacts
  <2> QED
    BY <2>2, <2>4
<1>3. f \in [Voxels -> Keys]
  BY <1>1
<1>4. f \in Surjection(Voxels, Keys)
  <2> HIDE DEF f
  <2> QED
    BY <1>2, <1>3 DEF Surjection
<1>5. IsFiniteSet(Voxels)
  BY ScanlinesAssumption
<1> HIDE DEF f
<1> QED
  BY <1>4, <1>5, FS_Surjection

\* Cells can be taken in the order of their offsets, from the lowest, ...
LEMMA LeastOffset ==
    ASSUME NEW S, S \subseteq Cells, S # {}
    PROVE  \E c \in S : \A d \in S : Offset[c] <= Offset[d]
<1> DEFINE offsets == {Offset[c] : c \in S}
<1>1. offsets \in SUBSET Nat /\ offsets # {}
  BY OffsetsAssumption
<1>2. PICK m \in offsets : \A k \in offsets : m <= k
  BY <1>1, Least
<1> QED
  BY <1>2

\* ... and keys from the highest.
LEMMA GreatestOffset ==
    ASSUME NEW S, S \subseteq Keys, S # {}
    PROVE  \E c \in S : \A d \in S : Offset[d] <= Offset[c]
<1> DEFINE f == [c \in S |-> Offset[c]]
<1>1. f \in [S -> Int]
  BY OffsetsAssumption DEF Keys
<1>2. IsFiniteSet(S)
  BY KeysFinite, FS_Subset
<1> HIDE DEF f
<1>3. PICK a \in S : \A b \in S : f[b] <= f[a]
  BY <1>1, <1>2, Largest
<1> QED
  BY <1>3 DEF f

\* A scanline of keys is made of keys.
LEMMA BeforeKey ==
    ASSUME NEW k \in Keys
    PROVE  /\ k \in Cells /\ Offset[k] \in Nat
           /\ Before[k] \in Keys
           /\ Before[k] # k => Offset[Before[k]] < Offset[k]
<1>1. k \in Cells /\ Level[k] = RootLevel
  BY DEF Keys
<1>2. Before[k] \in Cells
  BY <1>1, ToolsAssumption
<1>3. Before[k] # k => Level[Before[k]] = Level[k] /\ Offset[Before[k]] < Offset[k]
  BY <1>1, ScanlinesAssumption
<1>4. Offset[k] \in Nat
  BY <1>1, OffsetsAssumption
<1> QED
  BY <1>1, <1>2, <1>3, <1>4 DEF Keys

\* Steps of KeysBefore.
LEMMA KeysBeforeSteps ==
    ASSUME NEW k \in Keys
    PROVE  /\ KeysBefore[k] = IF Before[k] = k THEN {} ELSE KeysBefore[Before[k]] \union {Before[k]}
           /\ KeysBefore[k] \subseteq Keys
<1> DEFINE D == Keys
           V == SUBSET Keys
           rank == [c \in D |-> Offset[c]]
           Body(f, c) == IF Before[c] = c THEN {} ELSE f[Before[c]] \union {Before[c]}
           G == [f \in [D -> V] |-> [c \in D |-> Body(f, c)]]
<1>1. \A c \in D : /\ Offset[c] \in Nat /\ Before[c] \in D
                   /\ Before[c] # c => Offset[Before[c]] < Offset[c]
  BY BeforeKey
<1>2. PICK a \in D : \A c \in D : Offset[c] <= Offset[a]
  <2>1. D # {}
    OBVIOUS
  <2> QED
    BY <2>1, GreatestOffset
<1> DEFINE bound == Offset[a]
<1>3. bound \in Nat /\ \A c \in D : rank[c] <= bound
  BY <1>1, <1>2
<1>4. G \in [[D -> V] -> [D -> V]]
  <2>1. ASSUME NEW f \in [D -> V], NEW c \in D PROVE Body(f, c) \in V
    <3> HIDE DEF D
    <3>1. Before[c] \in D /\ f[Before[c]] \in V
      BY <1>1
    <3> QED
      BY <3>1 DEF D
  <2> HIDE DEF Body, D
  <2> QED
    BY <2>1
<1>5. ASSUME NEW f \in [D -> V], NEW g \in [D -> V], NEW c \in D,
             \A e \in D : rank[e] < rank[c] => f[e] = g[e]
      PROVE  G[f][c] = G[g][c]
  <2>1. Before[c] # c => f[Before[c]] = g[Before[c]]
    BY <1>1, <1>5
  <2>2. Body(f, c) = Body(g, c)
    BY <2>1
  <2> QED
    BY <2>2
<1>6. rank \in [D -> Nat] /\ V # {}
  BY <1>1
<1>7. \E f \in [D -> V] : f = G[f]
  <2> HIDE DEF D, V, rank, G, bound
  <2>1. \A f, g \in [D -> V] : \A c \in D :
           (\A e \in D : rank[e] < rank[c] => f[e] = g[e]) => G[f][c] = G[g][c]
    BY <1>5
  <2>2. ByRank(D, V, rank, bound, G)
    BY <1>3, <1>4, <1>6, <2>1 DEF ByRank
  <2> QED
    BY <2>2, Recursion
<1>8. PICK f0 \in [D -> V] : f0 = [c \in D |-> Body(f0, c)]
  BY <1>7
<1> DEFINE upto == CHOOSE f : f = [c \in D |-> Body(f, c)]
<1>9. upto = [c \in D |-> Body(upto, c)]
  BY <1>8
<1>10. KeysBefore = upto
  BY DEF KeysBefore
<1> HIDE DEF upto
<1>11. \A c \in D : upto[c] = Body(upto, c)
  BY <1>9
<1>12. ASSUME ~ (upto[k] \subseteq Keys) PROVE FALSE
  <2> DEFINE bad == {c \in D : ~ (upto[c] \subseteq Keys)}
  <2>1. bad \subseteq Cells /\ bad # {}
    BY <1>12 DEF Keys
  <2>2. PICK c \in bad : \A d \in bad : Offset[c] <= Offset[d]
    <3> HIDE DEF bad
    <3> QED
      BY <2>1, LeastOffset
  <2>3. Before[c] # c /\ Before[c] \in D /\ upto[c] = upto[Before[c]] \union {Before[c]}
    BY <1>1, <1>11
  <2>4. ~ (Offset[c] <= Offset[Before[c]])
    BY <1>1, <2>3
  <2>5. upto[Before[c]] \subseteq Keys
    BY <2>2, <2>3, <2>4
  <2> QED
    BY <2>3, <2>5
<1> QED
  BY <1>10, <1>11, <1>12

\* The keys before a key follow each other.
LEMMA KeyOrder ==
    ASSUME NEW k \in Keys
    PROVE  /\ \A j \in KeysBefore[k] : /\ j \in Keys /\ Offset[j] < Offset[k]
                                       /\ KeysBefore[j] \subseteq KeysBefore[k]
           /\ \A i, j \in KeysBefore[k] : i = j \/ i \in KeysBefore[j] \/ j \in KeysBefore[i]
<1> DEFINE ordered(c) ==
              /\ \A j \in KeysBefore[c] : /\ j \in Keys /\ Offset[j] < Offset[c]
                                          /\ KeysBefore[j] \subseteq KeysBefore[c]
              /\ \A i, j \in KeysBefore[c] : i = j \/ i \in KeysBefore[j] \/ j \in KeysBefore[i]
           bad == {c \in Keys : ~ ordered(c)}
<1>1. SUFFICES ASSUME ~ ordered(k) PROVE FALSE
  OBVIOUS
<1>2. bad \subseteq Cells /\ bad # {}
  BY <1>1 DEF Keys
<1>3. PICK c \in bad : \A d \in bad : Offset[c] <= Offset[d]
  <2> HIDE DEF bad
  <2> QED
    BY <1>2, LeastOffset
<1> DEFINE b == Before[c]
<1>4. /\ Offset[c] \in Nat /\ b \in Keys /\ Offset[b] \in Nat
      /\ b # c => Offset[b] < Offset[c]
  BY BeforeKey
<1>5. CASE b = c
  <2>1. KeysBefore[c] = {}
    BY <1>5, KeysBeforeSteps
  <2>2. ordered(c)
    BY <2>1
  <2> QED
    BY <1>3, <2>2
<1>6. CASE b # c
  <2>1. KeysBefore[c] = KeysBefore[b] \union {b}
    BY <1>6, KeysBeforeSteps
  <2>2. ~ (Offset[c] <= Offset[b])
    BY <1>4, <1>6
  <2>3. ordered(b)
    <3>1. b \notin bad
      BY <1>3, <2>2
    <3> HIDE DEF ordered, b
    <3> QED
      BY <1>4, <3>1
  <2>4. ASSUME NEW j \in KeysBefore[c]
        PROVE  /\ j \in Keys /\ Offset[j] < Offset[c]
               /\ KeysBefore[j] \subseteq KeysBefore[c]
    <3>1. CASE j = b
      BY <1>4, <1>6, <2>1, <3>1
    <3>2. CASE j \in KeysBefore[b]
      <4>1. j \in Keys /\ Offset[j] < Offset[b] /\ KeysBefore[j] \subseteq KeysBefore[b]
        BY <2>3, <3>2
      <4>2. Offset[j] \in Nat
        BY <4>1, BeforeKey
      <4> QED
        BY <1>4, <1>6, <2>1, <4>1, <4>2
    <3> QED
      BY <2>1, <3>1, <3>2
  <2>5. \A i, j \in KeysBefore[c] : i = j \/ i \in KeysBefore[j] \/ j \in KeysBefore[i]
    BY <2>1, <2>3
  <2>6. ordered(c)
    BY <2>4, <2>5
  <2> QED
    BY <1>3, <2>6
<1> QED
  BY <1>5, <1>6

\* A tree with the right signs below its keys.
KeysReady(U, R) ==
    /\ WellFormed(U) /\ SignsSpread(R)
    /\ \A k \in Keys : IF IsChild(U, k) THEN TilesSigned(U, k, R) ELSE Quiet(k)

\* The sign at the end of the last child before a key reaches the key, ...
LEMMA SignFromBefore ==
    ASSUME NEW U, NEW R, KeysReady(U, R), NEW k \in Keys, ~ IsChild(U, k),
           NEW a \in KeysBefore[k], IsChild(U, a),
           \A j \in KeysBefore[k] : IsChild(U, j) => j \in KeysBefore[a] \union {a}
    PROVE  Signed(R, k, IsInside(U, a, Last))
<1> DEFINE s == IsInside(U, a, Last)
           between == {j \in KeysBefore[k] \union {k} : a \in KeysBefore[j]}
           bad == {j \in between : ~ Signed(R, j, s)}
<1>1. s \in BOOLEAN /\ WellFormed(U) /\ SignsSpread(R) /\ Last \in Ends
  BY SignTyped DEF KeysReady, Ends
<1> HIDE DEF s
<1>2. ASSUME NEW j \in between PROVE j \in Keys /\ ~ IsChild(U, j) /\ Quiet(j) /\ j \in Cells
  <2>1. j \in Keys
    BY KeyOrder
  <2>2. ~ IsChild(U, j)
    <3>1. CASE j = k
      BY <3>1
    <3>2. CASE j \in KeysBefore[k] /\ IsChild(U, j)
      <4>1. j \in KeysBefore[a] \union {a} /\ a \in Keys
        BY <3>2, KeyOrder
      <4>2. Offset[a] < Offset[j] /\ Offset[j] \in Nat /\ Offset[a] \in Nat
        BY <2>1, <4>1, KeyOrder, BeforeKey
      <4>3. j \in KeysBefore[a] => Offset[j] < Offset[a]
        BY <4>1, KeyOrder
      <4> QED
        BY <4>1, <4>2, <4>3
    <3> QED
      BY <3>1, <3>2
  <2> QED
    BY <2>1, <2>2, BeforeKey DEF KeysReady
<1>3. k \in between
  OBVIOUS
<1>4. ASSUME bad # {} PROVE FALSE
  <2>1. bad \subseteq Cells
    BY <1>2
  <2>2. PICK j \in bad : \A d \in bad : Offset[j] <= Offset[d]
    <3> HIDE DEF bad
    <3> QED
      BY <1>4, <2>1, LeastOffset
  <2> DEFINE b == Before[j]
  <2>3. j \in between /\ j \in Keys /\ Quiet(j) /\ j \in Cells
    BY <1>2, <2>2
  <2>4. b # j /\ KeysBefore[j] = KeysBefore[b] \union {b}
    BY <2>3, KeysBeforeSteps
  <2>5. b \in Keys /\ b \in Cells /\ ~ (Offset[j] <= Offset[b])
    BY <2>3, <2>4, BeforeKey
  <2>6. b \in KeysBefore[k]
    BY <2>3, <2>4, KeyOrder
  <2>7. \E x \in Voxels : IsCorner(x, b, Last) /\ <<x, s>> \in R
    <3>1. CASE b = a
      <4>1. a \in DOMAIN U /\ TilesSigned(U, a, R)
        BY <2>5, <3>1 DEF KeysReady, IsChild
      <4> QED
        BY <1>1, <3>1, <4>1, CornerSign DEF s
    <3>2. CASE b # a
      <4>1. b \in between
        BY <2>3, <2>4, <2>6, <3>2
      <4>2. Signed(R, b, s)
        BY <2>2, <2>5, <4>1
      <4>3. PICK x \in VoxelsIn[b] : x \in Voxels /\ IsCorner(x, b, Last)
        BY <1>1, <2>5, CornerExists
      <4> QED
        BY <4>2, <4>3 DEF Signed
    <3> QED
      BY <3>1, <3>2
  <2>8. Signed(R, j, s)
    BY <1>1, <2>3, <2>4, <2>7, ScanForward
  <2> QED
    BY <2>2, <2>8
<1> QED
  BY <1>3, <1>4 DEF s

\* ... that at the begin of the first child behind it reaches it too, ...
LEMMA SignFromBehind ==
    ASSUME NEW U, NEW R, KeysReady(U, R), NEW k \in Keys, ~ IsChild(U, k),
           NEW b \in Keys, IsChild(U, b), k \in KeysBefore[b],
           \A j \in KeysBefore[b] : IsChild(U, j) => k \notin KeysBefore[j]
    PROVE  Signed(R, k, IsInside(U, b, First))
<1> DEFINE s == IsInside(U, b, First)
           between == {j \in KeysBefore[b] : j = k \/ k \in KeysBefore[j]}
           Q == {j \in Keys : j = b \/ (j \in between /\ Signed(R, j, s))}
<1>1. s \in BOOLEAN /\ WellFormed(U) /\ SignsSpread(R) /\ First \in Ends
  BY SignTyped DEF KeysReady, Ends
<1> HIDE DEF s
<1>2. ASSUME NEW j \in between PROVE j \in Keys /\ ~ IsChild(U, j) /\ Quiet(j) /\ j \in Cells
  <2>1. j \in Keys /\ ~ IsChild(U, j)
    BY KeyOrder
  <2> QED
    BY <2>1, BeforeKey DEF KeysReady
<1>3. Q \subseteq Cells /\ b \in Q
  BY BeforeKey
<1>4. PICK j \in Q : \A d \in Q : Offset[j] <= Offset[d]
  <2> HIDE DEF Q
  <2> QED
    BY <1>3, LeastOffset
<1>5. j \in Keys /\ j \in Cells
  BY BeforeKey
<1>6. CASE j = k
  <2>1. j # b
    <3>1. Offset[k] < Offset[b] /\ Offset[k] \in Nat
      BY KeyOrder, BeforeKey
    <3> QED
      BY <1>6, <3>1
  <2> QED
    BY <1>4, <1>6, <2>1 DEF s
<1>7. CASE j # k
  <2> DEFINE p == Before[j]
  <2>1. k \in KeysBefore[j]
    BY <1>4, <1>7
  <2>2. p # j /\ KeysBefore[j] = KeysBefore[p] \union {p}
    BY <1>5, <2>1, KeysBeforeSteps
  <2>3. p \in Keys /\ p \in Cells /\ ~ (Offset[j] <= Offset[p])
    BY <1>5, <2>2, BeforeKey
  <2>4. p \in between
    <3>1. p \in KeysBefore[b]
      BY <1>4, <2>2, KeyOrder
    <3> QED
      BY <2>1, <2>2, <3>1
  <2>5. Quiet(p)
    BY <1>2, <2>4
  <2>6. \E x \in Voxels : IsCorner(x, j, First) /\ <<x, s>> \in R
    <3>1. CASE j = b
      <4>1. b \in DOMAIN U /\ TilesSigned(U, b, R)
        BY DEF KeysReady, IsChild
      <4> QED
        BY <1>1, <3>1, <4>1, CornerSign DEF s
    <3>2. CASE j # b
      <4>1. PICK x \in VoxelsIn[j] : x \in Voxels /\ IsCorner(x, j, First)
        BY <1>1, <1>5, CornerExists
      <4> QED
        BY <1>4, <3>2, <4>1 DEF Signed
    <3> QED
      BY <3>1, <3>2
  <2>7. Signed(R, p, s)
    BY <1>1, <1>5, <2>2, <2>5, <2>6, ScanBackward
  <2>8. p \in Q
    BY <2>3, <2>4, <2>7
  <2> QED
    BY <1>4, <2>3, <2>8
<1> QED
  BY <1>6, <1>7

\* ... and where there is no child before a key, or none behind it, the sign at the
\* edge does.
LEMMA SignFromEdge ==
    ASSUME NEW U, NEW R, KeysReady(U, R), NEW k \in Keys, Quiet(k),
           Edge \intersect VoxelsIn[k] # {}
    PROVE  Signed(R, k, FALSE)
<1>1. PICK x \in VoxelsIn[k] : x \in Edge \ Active
  BY DEF Quiet
<1>2. <<x, FALSE>> \in R /\ SignsSpread(R)
  BY <1>1 DEF KeysReady, SignsSpread
<1>3. k \in Cells
  BY BeforeKey
<1> QED
  BY <1>2, <1>3, CubeSign

\* No child before the key.
LEMMA SignFromStart ==
    ASSUME NEW U, NEW R, KeysReady(U, R), NEW k \in Keys, ~ IsChild(U, k),
           \A j \in KeysBefore[k] : ~ IsChild(U, j)
    PROVE  Signed(R, k, FALSE)
<1> DEFINE bad == {j \in KeysBefore[k] \union {k} : ~ Signed(R, j, FALSE)}
<1>1. \A j \in KeysBefore[k] \union {k} : j \in Keys
  BY KeyOrder
<1>2. \A j \in KeysBefore[k] \union {k} : j \in Cells /\ Quiet(j)
  BY <1>1, BeforeKey DEF KeysReady
<1>3. ASSUME bad # {} PROVE FALSE
  <2>1. bad \subseteq Cells
    BY <1>2
  <2>2. PICK j \in bad : \A d \in bad : Offset[j] <= Offset[d]
    <3> HIDE DEF bad
    <3> QED
      BY <1>3, <2>1, LeastOffset
  <2>3. j \in Keys /\ j \in Cells /\ Quiet(j)
    BY <1>1, <1>2
  <2>4. CASE Before[j] = j
    <3>1. Edge \intersect VoxelsIn[j] # {}
      BY <2>3, <2>4, ScanlinesAssumption
    <3>2. Signed(R, j, FALSE)
      BY <2>3, <3>1, SignFromEdge
    <3> QED
      BY <2>2, <3>2
  <2>5. CASE Before[j] # j
    <3> DEFINE b == Before[j]
    <3>1. b \in KeysBefore[j] /\ b \in Keys /\ b \in Cells /\ ~ (Offset[j] <= Offset[b])
      <4>1. KeysBefore[j] = KeysBefore[b] \union {b}
        BY <2>3, <2>5, KeysBeforeSteps
      <4>2. b \in Keys /\ ~ (Offset[j] <= Offset[b])
        BY <2>3, <2>5, BeforeKey
      <4> QED
        BY <4>1, <4>2, BeforeKey
    <3>2. b \in KeysBefore[k]
      BY <3>1, KeyOrder
    <3>3. Signed(R, b, FALSE) /\ Quiet(b)
      BY <1>2, <2>2, <3>1, <3>2
    <3>4. Signed(R, j, FALSE)
      BY <2>3, <2>5, <3>3, ScanQuiet DEF KeysReady
    <3> QED
      BY <2>2, <3>4
  <2> QED
    BY <2>4, <2>5
<1>4. k \notin bad
  BY <1>3
<1> QED
  BY <1>4

\* No child behind the key.
LEMMA SignFromEnd ==
    ASSUME NEW U, NEW R, KeysReady(U, R), NEW k \in Keys, ~ IsChild(U, k),
           \A b \in Keys : k \in KeysBefore[b] => ~ IsChild(U, b)
    PROVE  Signed(R, k, FALSE)
<1> DEFINE A == {j \in Keys : j = k \/ k \in KeysBefore[j]}
           Q == {j \in A : Signed(R, j, FALSE)}
<1>1. A \subseteq Keys /\ k \in A
  OBVIOUS
<1>2. \A j \in A : Quiet(j) /\ j \in Keys /\ j \in Cells
  BY BeforeKey DEF KeysReady
<1>3. PICK e \in A : \A j \in A : Offset[j] <= Offset[e]
  <2> HIDE DEF A
  <2> QED
    BY <1>1, GreatestOffset
<1>4. ASSUME NEW b \in Keys, Before[b] = e PROVE b = e
  <2>1. CASE b # e
    <3>1. KeysBefore[b] = KeysBefore[e] \union {e}
      BY <1>4, <2>1, KeysBeforeSteps
    <3>2. b \in A
      BY <1>3, <3>1
    <3>3. Offset[e] < Offset[b] /\ Offset[b] \in Nat /\ Offset[e] \in Nat
      BY <1>2, <1>4, <2>1, BeforeKey
    <3> QED
      BY <1>3, <3>2, <3>3
  <2> QED
    BY <2>1
<1>5. Edge \intersect VoxelsIn[e] # {}
  BY <1>2, <1>4, ScanlinesAssumption
<1>6. e \in Q
  BY <1>2, <1>5, SignFromEdge
<1>7. Q \subseteq Cells
  BY <1>2
<1>8. PICK j \in Q : \A d \in Q : Offset[j] <= Offset[d]
  <2> HIDE DEF Q
  <2> QED
    BY <1>6, <1>7, LeastOffset
<1>9. CASE j = k
  BY <1>8, <1>9
<1>10. CASE j # k
  <2> DEFINE p == Before[j]
  <2>1. k \in KeysBefore[j] /\ j \in Keys /\ j \in Cells /\ Quiet(j)
    BY <1>2, <1>10
  <2>2. p # j /\ KeysBefore[j] = KeysBefore[p] \union {p}
    BY <2>1, KeysBeforeSteps
  <2>3. p \in Keys /\ ~ (Offset[j] <= Offset[p])
    BY <2>1, <2>2, BeforeKey
  <2>4. p \in A
    BY <2>1, <2>2, <2>3
  <2>5. Signed(R, p, FALSE)
    BY <1>2, <1>8, <2>1, <2>2, <2>4, ScanQuiet DEF KeysReady
  <2> QED
    BY <1>8, <2>3, <2>4, <2>5
<1> QED
  BY <1>9, <1>10

\* The keys that the flood fill makes tiles inside of are inside, the other keys
\* without a child are not.
LEMMA SandwichedRight ==
    ASSUME NEW U, NEW R, KeysReady(U, R), NEW k \in Keys
    PROVE  /\ k \in Sandwiched(U) => ~ IsChild(U, k) /\ Signed(R, k, TRUE)
           /\ ~ IsChild(U, k) /\ k \notin Sandwiched(U) => Signed(R, k, FALSE)
<1> DEFINE children == Keys \intersect Nodes(U)
           follow(a, b) == /\ a \in KeysBefore[b]
                           /\ k \in KeysBefore[b] \ (KeysBefore[a] \union {a})
                           /\ children \intersect KeysBefore[b] \subseteq KeysBefore[a] \union {a}
           around(a, b) == IsInside(U, a, Last) /\ IsInside(U, b, First)
<1>1. \A j \in Keys : j \in children <=> IsChild(U, j)
  BY DEF Nodes, Keys
<1>2. k \in Sandwiched(U) <=> \E a, b \in children : follow(a, b) /\ around(a, b)
  BY DEF Sandwiched
<1> HIDE DEF around
<1>3. ASSUME k \in Sandwiched(U) PROVE ~ IsChild(U, k) /\ Signed(R, k, TRUE)
  <2>1. PICK a \in children, b \in children : follow(a, b) /\ around(a, b)
    BY <1>2, <1>3
  <2>2. ~ IsChild(U, k)
    BY <1>1, <2>1
  <2>3. ASSUME NEW j \in KeysBefore[b], IsChild(U, j) PROVE k \notin KeysBefore[j]
    <3>1. j \in Keys /\ a \in Keys
      BY <2>1, KeyOrder
    <3>2. j \in KeysBefore[a] \union {a}
      BY <1>1, <2>1, <2>3, <3>1
    <3>3. KeysBefore[j] \subseteq KeysBefore[a]
      BY <3>1, <3>2, KeyOrder
    <3> QED
      BY <2>1, <3>3
  <2>4. b \in Keys /\ IsChild(U, b) /\ k \in KeysBefore[b]
    BY <1>1, <2>1
  <2>5. Signed(R, k, IsInside(U, b, First))
    BY <2>2, <2>3, <2>4, SignFromBehind
  <2>6. IsInside(U, b, First) = TRUE
    BY <2>1, SignTyped DEF around
  <2> QED
    BY <2>2, <2>5, <2>6
<1>4. ASSUME ~ IsChild(U, k), k \notin Sandwiched(U) PROVE Signed(R, k, FALSE)
  <2> DEFINE left == {j \in KeysBefore[k] : IsChild(U, j)}
             right == {j \in Keys : k \in KeysBefore[j] /\ IsChild(U, j)}
  <2>1. CASE left = {}
    BY <1>4, <2>1, SignFromStart
  <2>2. CASE right = {}
    BY <1>4, <2>2, SignFromEnd
  <2>3. CASE left # {} /\ right # {}
    <3>1. left \subseteq Keys /\ right \subseteq Cells
      BY KeyOrder, BeforeKey
    <3>2. PICK a \in left : \A j \in left : Offset[j] <= Offset[a]
      <4> HIDE DEF left
      <4> QED
        BY <2>3, <3>1, GreatestOffset
    <3>3. PICK b \in right : \A j \in right : Offset[b] <= Offset[j]
      <4> HIDE DEF right
      <4> QED
        BY <2>3, <3>1, LeastOffset
    <3>4. a \in Keys /\ b \in Keys /\ IsChild(U, a) /\ IsChild(U, b)
          /\ a \in KeysBefore[k] /\ k \in KeysBefore[b] /\ a \in KeysBefore[b]
      BY <3>1, KeyOrder
    <3>5. ASSUME NEW j \in KeysBefore[k], IsChild(U, j) PROVE j \in KeysBefore[a] \union {a}
      <4>1. j \in Keys /\ Offset[j] <= Offset[a] /\ Offset[j] \in Nat /\ Offset[a] \in Nat
        BY <3>2, <3>4, <3>5, KeyOrder, BeforeKey
      <4>2. a \in KeysBefore[j] => Offset[a] < Offset[j]
        BY <4>1, KeyOrder
      <4>3. j = a \/ j \in KeysBefore[a] \/ a \in KeysBefore[j]
        BY <3>4, KeyOrder
      <4> QED
        BY <4>1, <4>2, <4>3
    <3>6. ASSUME NEW j \in KeysBefore[b], IsChild(U, j) PROVE k \notin KeysBefore[j]
      <4>1. j \in Keys /\ Offset[j] < Offset[b] /\ Offset[j] \in Nat /\ Offset[b] \in Nat
        BY <3>4, KeyOrder, BeforeKey
      <4>2. j \notin right
        BY <3>3, <4>1
      <4> QED
        BY <3>6, <4>1, <4>2
    <3>7. Signed(R, k, IsInside(U, a, Last))
      BY <1>4, <3>4, <3>5, SignFromBefore
    <3>8. Signed(R, k, IsInside(U, b, First))
      BY <1>4, <3>4, <3>6, SignFromBehind
    <3>9. follow(a, b)
      <4>1. k \notin KeysBefore[a] \union {a}
        <5>1. Offset[a] < Offset[k] /\ Offset[a] \in Nat /\ Offset[k] \in Nat
          BY <3>4, KeyOrder, BeforeKey
        <5>2. k \in KeysBefore[a] => Offset[k] < Offset[a]
          BY <3>4, KeyOrder
        <5> QED
          BY <5>1, <5>2
      <4>2. ASSUME NEW j \in children \intersect KeysBefore[b] PROVE j \in KeysBefore[a] \union {a}
        <5>1. IsChild(U, j) /\ j # k
          BY <1>1, <1>4
        <5>2. k \notin KeysBefore[j]
          BY <3>6, <5>1
        <5>3. j \in KeysBefore[k]
          BY <3>4, <5>1, <5>2, KeyOrder
        <5> QED
          BY <3>5, <5>1, <5>3
      <4> QED
        BY <3>4, <4>1, <4>2
    <3>10. a \in children /\ b \in children
      BY <1>1, <3>4
    <3>11. ~ around(a, b)
      BY <1>2, <1>4, <3>9, <3>10
    <3>12. IsInside(U, a, Last) = FALSE \/ IsInside(U, b, First) = FALSE
      BY <3>11, SignTyped DEF around
    <3> QED
      BY <3>7, <3>8, <3>12
  <2> QED
    BY <2>1, <2>2, <2>3
<1> QED
  BY <1>3, <1>4

-------------------------------------------------------------------------------
(* The whole flood fill.                                                   *)

\* Tiles at keys without a child.
LEMMA PutKeys ==
    ASSUME NEW T, WellFormed(T), NEW S, S \subseteq Keys, \A k \in S : ~ IsChild(T, k),
           NEW t \in Tile
    PROVE  /\ DOMAIN Put(T, S, t) = DOMAIN T \union S
           /\ \A c \in DOMAIN T \union S : Put(T, S, t)[c] = IF c \in S THEN t ELSE T[c]
<1>1. \A k \in S : k \in Cells /\ Level[k] = RootLevel
  BY DEF Keys
<1>2. ASSUME NEW k \in S PROVE Parents[k] = {} /\ KeyOf[k] = k
  <2>1. k \in Above[k]
    BY <1>1, Chain
  <2>2. KeyOf[k] = k
    BY <1>1, <2>1, KeyFacts
  <2> QED
    BY <1>1, <2>2, KeyFacts
<1>3. Opened(S) = {}
  BY <1>2 DEF Opened
<1>4. {KeyOf[p] : p \in S} = S
  BY <1>2
<1> DEFINE V == Reach(T, S)
<1>5. DOMAIN V = DOMAIN T \union S /\ \A c \in DOMAIN T : V[c] = T[c]
  BY <1>3, <1>4 DEF Reach
<1> HIDE DEF V
<1>6. ASSUME NEW c \in DOMAIN V, NEW k \in S PROVE c \notin Below[k]
  <2>1. ASSUME c \in Below[k] PROVE FALSE
    <3>1. c \in Cells /\ k \in Parents[c]
      BY <1>1, <2>1 DEF Below
    <3>2. c \in DOMAIN T
      <4>1. c \notin S
        BY <1>2, <3>1
      <4> QED
        BY <1>5, <4>1
    <3>3. k \in DOMAIN T /\ T[k] = Child
      BY <3>1, <3>2, Shape
    <3> QED
      BY <3>3 DEF IsChild
  <2> QED
    BY <2>1
<1>7. DOMAIN V \ UNION {Below[p] : p \in S} = DOMAIN T \union S
  BY <1>5, <1>6
<1>8. Put(T, S, t) = [c \in DOMAIN T \union S |-> IF c \in S THEN t ELSE V[c]]
  BY <1>7 DEF Put, SetTiles, V
<1> QED
  BY <1>5, <1>8

\* Without a key there is nothing above a voxel.
LEMMA MissingKey ==
    ASSUME NEW T, WellFormed(T), NEW x \in Voxels, KeyOf[x] \notin DOMAIN T
    PROVE  \A d \in Above[x] : d \notin DOMAIN T
<1>1. x \in Cells
  BY DEF Voxels
<1>2. ASSUME NEW d \in Above[x], d \in DOMAIN T PROVE FALSE
  <2>1. d = KeyOf[x] \/ KeyOf[x] \in Parents[d]
    <3>1. KeyOf[x] \in Above[x] /\ Parents[KeyOf[x]] = {}
      BY <1>1, KeyFacts
    <3> QED
      BY <1>1, <3>1, Chain
  <2> QED
    BY <1>2, <2>1, Shape
<1> QED
  BY <1>2

\* The levels of nodes leave the root table ready.
LEMMA FloodedKeysReady ==
    ASSUME NEW R, NEW W, Floodable(R, W), NEW U, FloodedTo(U, RootLevel, R, W)
    PROVE  KeysReady(U, R)
<1>1. WellFormed(tree) /\ WellFormed(U) /\ DOMAIN U = DOMAIN tree /\ SignsSpread(R)
      /\ RootLevel \in Nat /\ RootLevel > 1
  BY RootLevelNat DEF Floodable, FloodedTo
<1>2. ASSUME NEW k \in Keys PROVE IF IsChild(U, k) THEN TilesSigned(U, k, R) ELSE Quiet(k)
  <2>1. k \in Cells /\ Level[k] = RootLevel /\ Level[k] <= RootLevel
    BY <1>1 DEF Keys
  <2>2. CASE IsChild(U, k)
    <3>1. k \in DOMAIN U
      BY <2>2 DEF IsChild
    <3>2. TilesSigned(U, k, R)
      BY <1>1, <2>1, <2>2, <3>1, FloodedBelow
    <3> QED
      BY <2>2, <3>2
  <2>3. CASE ~ IsChild(U, k) /\ k \in DOMAIN tree
    <3>1. IsTile(tree, k)
      BY <2>3 DEF FloodedTo, IsChild, IsTile
    <3>2. ~ tree[k].active
      BY <1>1, <2>1, <2>3, <3>1 DEF Floodable, Closed
    <3>3. Quiet(k)
      BY <1>1, <3>1, <3>2, TileSigns
    <3> QED
      BY <2>3, <3>3
  <2>4. CASE ~ IsChild(U, k) /\ k \notin DOMAIN tree
    <3>1. ASSUME NEW x \in VoxelsIn[k] PROVE x \notin Active
      <4>1. x \in Voxels /\ k \in Above[x] /\ x \in Cells
        BY <2>1, VoxelInside DEF Voxels
      <4>2. KeyOf[x] = k
        BY <2>1, <4>1, KeyFacts
      <4>3. \A d \in Above[x] : ~ IsTile(tree, d)
        BY <1>1, <2>4, <4>1, <4>2, MissingKey DEF IsTile
      <4>4. Stored(tree, x) = BackgroundTile
        BY <4>3, StoredNone
      <4>5. Map[x] = BackgroundTile
        BY <4>1, <4>4 DEF Map, Contents
      <4> QED
        BY <4>5 DEF Active, BackgroundTile, Off
    <3>2. Quiet(k)
      BY <3>1 DEF Quiet
    <3> QED
      BY <2>4, <3>2
  <2> QED
    BY <2>2, <2>3, <2>4
<1> QED
  BY <1>1, <1>2 DEF KeysReady

\* What the flood fill owes to a voxel.
VoxelFlooded(R, flooded, w, x) ==
    LET result == FloodedValue(flooded, w, x)
        inside == Off(Width(w).inside)
    IN  IF Map[x].active THEN result = Map[x]
        ELSE /\ <<x, result.value < 0>> \in R
             /\ IF IsTile(flooded, KeyOf[x]) THEN result \in {Map[x], inside}
                ELSE result \in {inside, Off(Width(w).outside)}

\* The flood fill keeps the contract, voxel by voxel.
LEMMA FloodContract ==
    ASSUME NEW R, NEW w \in Widths, Floodable(R, Width(w)), NEW x \in Voxels
    PROVE  VoxelFlooded(R, Flooded(tree, w, 0), w, x)
<1> DEFINE W == Width(w)
           in == Off(W.inside)
           out == Off(W.outside)
           F == Flooded(tree, w, 0)
           k == KeyOf[x]
           result == FloodedValue(F, w, x)
<1>1. /\ WellFormed(tree) /\ SignsSpread(R)
      /\ W.inside \in Values /\ W.outside \in Values /\ W.inside < 0 /\ W.outside >= 0
      /\ W.inside \in Int /\ W.outside \in Int
  BY ContentsTyped DEF Floodable
<1>2. PICK U : FloodedTo(U, RootLevel, R, W) /\ F = FloodRoot(U, W)
  BY FloodedUp
<1>3. WellFormed(U) /\ DOMAIN U = DOMAIN tree /\ KeysReady(U, R)
  BY <1>2, FloodedKeysReady DEF FloodedTo
<1> DEFINE S == Sandwiched(U)
<1>4. S \subseteq Keys /\ \A j \in S : ~ IsChild(U, j)
  <2>1. S \subseteq Keys
    BY DEF Sandwiched
  <2> QED
    BY <1>3, <2>1, SandwichedRight
<1>5. in \in Tile /\ out \in Tile /\ in # Child
  BY <1>1, OpsTyped, ContentsTyped
<1>6. /\ DOMAIN F = DOMAIN U \union S
      /\ \A c \in DOMAIN U \union S : F[c] = IF c \in S THEN in ELSE U[c]
  <2> HIDE DEF S, in
  <2>1. F = Put(U, S, in)
    BY <1>2 DEF FloodRoot, S, in
  <2>2. WellFormed(U) /\ S \subseteq Keys /\ (\A j \in S : ~ IsChild(U, j)) /\ in \in Tile
    BY <1>3, <1>4, <1>5
  <2>3. /\ DOMAIN Put(U, S, in) = DOMAIN U \union S
        /\ \A c \in DOMAIN U \union S : Put(U, S, in)[c] = IF c \in S THEN in ELSE U[c]
    BY <2>2, PutKeys
  <2> HIDE DEF F
  <2> QED
    BY <2>1, <2>3
<1>7. WellFormed(F)
  <2>1. mBackground \in Values
    BY DEF Floodable
  <2> QED
    BY <1>1, <2>1, FloodedShape
<1>8. x \in Cells /\ k \in Above[x] /\ k \in Keys /\ k \in Cells /\ Level[k] = RootLevel
      /\ x \in VoxelsIn[k] /\ \A d \in Above[x] : Level[d] = RootLevel => d = k
  <2>1. x \in Cells
    BY DEF Voxels
  <2>2. k \in Above[x] /\ k \in Cells /\ Level[k] = RootLevel
        /\ \A d \in Above[x] : Level[d] = RootLevel => d = k
    BY <2>1, KeyFacts
  <2> QED
    BY <2>1, <2>2, VoxelInside DEF Keys
<1>9. (in.value < 0) = TRUE /\ (out.value < 0) = FALSE
  <2>1. in.value = W.inside /\ out.value = W.outside
    BY DEF Off
  <2> HIDE DEF in, out, W
  <2> QED
    BY <1>1, <2>1
<1>10. ASSUME NEW d \in Above[x], IsTile(F, d) PROVE result = F[d]
  <2>1. Stored(F, x) = F[d]
    BY <1>7, <1>8, <1>10, StoredTile
  <2> HIDE DEF F
  <2> QED
    BY <1>10, <2>1 DEF FloodedValue
<1>11. Quiet(k) => ~ Map[x].active
  BY <1>8 DEF Quiet, Active
<1> HIDE DEF S, in, F, result
<1>12. CASE k \in S
  <2>1. IsTile(F, k) /\ F[k] = in
    BY <1>5, <1>6, <1>12 DEF IsTile
  <2>2. result = in
    BY <1>8, <1>10, <2>1
  <2>3. ~ Map[x].active
    BY <1>3, <1>4, <1>8, <1>11, <1>12 DEF KeysReady
  <2>4. <<x, TRUE>> \in R
    BY <1>3, <1>8, <1>12, SandwichedRight DEF Signed, S
  <2> QED
    BY <1>9, <2>1, <2>2, <2>3, <2>4 DEF VoxelFlooded, result, in, F
<1>13. CASE k \notin S /\ k \notin DOMAIN U
  <2>1. ~ IsChild(U, k)
    BY <1>13 DEF IsChild
  <2>2. ~ Map[x].active
    BY <1>3, <1>8, <1>11, <2>1 DEF KeysReady
  <2>3. <<x, FALSE>> \in R
    BY <1>3, <1>8, <1>13, <2>1, SandwichedRight DEF Signed, S
  <2>4. k \notin DOMAIN F
    BY <1>6, <1>13
  <2>5. \A d \in Above[x] : ~ IsTile(F, d)
    BY <1>7, <2>4, MissingKey DEF IsTile
  <2>6. result = out /\ ~ IsTile(F, k)
    BY <1>8, <2>5 DEF result, FloodedValue
  <2> QED
    BY <1>9, <2>2, <2>3, <2>6 DEF VoxelFlooded, result, F
<1>14. CASE k \notin S /\ IsTile(U, k)
  <2>1. k \in DOMAIN tree /\ U[k] = tree[k] /\ U[k] # Child /\ ~ IsChild(U, k)
    <3>1. k \in DOMAIN tree /\ U[k] # Child
      BY <1>3, <1>14 DEF IsTile
    <3>2. Level[k] >= RootLevel
      BY <1>8, RootLevelNat
    <3> QED
      BY <1>2, <3>1, <3>2 DEF FloodedTo, IsChild
  <2>2. IsTile(tree, k)
    BY <2>1 DEF IsTile
  <2>3. Map[x] = tree[k]
    BY <1>1, <1>8, <2>2, TileSigns
  <2>4. F[k] = tree[k] /\ IsTile(F, k)
    BY <1>6, <1>14, <2>1 DEF IsTile
  <2>5. result = Map[x]
    BY <1>8, <1>10, <2>3, <2>4
  <2>6. ~ Map[x].active
    BY <1>3, <1>8, <1>11, <2>1 DEF KeysReady
  <2>7. <<x, tree[k].value < 0>> \in R
    <3>1. CASE Signed(R, k, tree[k].value < 0)
      BY <1>8, <3>1 DEF Signed
    <3>2. CASE Signed(R, k, TRUE)
      <4>1. Signed(R, k, FALSE)
        BY <1>3, <1>8, <1>14, <2>1, SandwichedRight DEF S
      <4>2. <<x, TRUE>> \in R /\ <<x, FALSE>> \in R
        BY <1>8, <3>2, <4>1 DEF Signed
      <4>3. <<x, TRUE>> = <<x, FALSE>>
        BY <4>2 DEF Floodable, Closed
      <4> QED
        BY <4>3
    <3>3. Signed(R, k, tree[k].value < 0) \/ Signed(R, k, TRUE)
      BY <1>8, <2>2 DEF Floodable, SignsKnown, Signed
    <3> QED
      BY <3>1, <3>2, <3>3
  <2> QED
    BY <2>3, <2>4, <2>5, <2>6, <2>7 DEF VoxelFlooded, result, F
<1>15. CASE k \notin S /\ IsChild(U, k)
  <2>1. k \in DOMAIN U /\ U[k] = Child
    BY <1>15 DEF IsChild
  <2>2. PICK d \in Above[x] : IsTile(U, d)
    BY <1>3, <1>8, <2>1, TileExists
  <2>3. d \in DOMAIN tree /\ U[d] # Child /\ d # k
    BY <1>3, <2>1, <2>2 DEF IsTile
  <2>4. IsTile(tree, d)
    BY <1>2, <2>3 DEF IsTile, IsChild, FloodedTo
  <2>5. d \in Cells /\ x \in VoxelsIn[d]
    BY <1>8, <2>2, Chain, VoxelInside
  <2>6. Map[x] = tree[d]
    BY <1>1, <2>4, <2>5, TileSigns
  <2>7. d \notin S
    BY <1>4, <1>8, <2>2, <2>3 DEF Keys
  <2>8. F[d] = U[d] /\ IsTile(F, d)
    BY <1>3, <1>6, <2>3, <2>7 DEF IsTile
  <2>9. result = U[d]
    BY <1>10, <2>2, <2>8
  <2>10. ~ IsTile(F, k)
    BY <1>3, <1>6, <1>15, <2>1 DEF IsTile
  <2>11. CASE tree[d].active
    <3>1. U[d] = tree[d]
      BY <1>2, <2>3, <2>4, <2>11 DEF FloodedTo
    <3> QED
      BY <2>6, <2>9, <2>11, <3>1 DEF VoxelFlooded, result, F
  <2>12. CASE ~ tree[d].active
    <3>1. Level[d] < RootLevel
      <4>1. Level[d] # RootLevel
        BY <1>8, <2>2, <2>3
      <4>2. Level[d] \in 0 .. RootLevel
        BY <2>5, Chain
      <4> QED
        BY <4>1, <4>2, RootLevelNat
    <3>2. U[d] \in {in, out} /\ Signed(R, d, U[d].value < 0)
      BY <1>2, <2>3, <2>4, <2>12, <3>1 DEF FloodedTo, in
    <3>3. <<x, U[d].value < 0>> \in R
      BY <2>5, <3>2 DEF Signed
    <3> QED
      BY <2>6, <2>9, <2>10, <2>12, <3>2, <3>3 DEF VoxelFlooded, result, F, in
  <2> QED
    BY <2>11, <2>12
<1>16. k \notin DOMAIN U \/ IsTile(U, k) \/ IsChild(U, k)
  BY DEF IsTile, IsChild
<1> QED
  BY <1>12, <1>13, <1>14, <1>15, <1>16

-------------------------------------------------------------------------------
(* Tools that leave the signs as they are.                                 *)

Negative(t) == t.value < 0

\* So is the sign of a content.
LEMMA NegativeTyped == \A t : Negative(t) \in BOOLEAN
<1>1. ASSUME NEW t PROVE Negative(t) \in BOOLEAN
  BY DEF Negative
<1> QED
  BY <1>1

\* The widths of the level set pruner.
LEMMA LevelSetKind ==
    ASSUME NEW pruner \in Pruners, pruner.kind = "levelset"
    PROVE  /\ pruner.inside \in Values /\ pruner.outside \in Values
           /\ pruner.inside < 0 /\ pruner.outside >= 0
           /\ pruner.inside \in Int /\ pruner.outside \in Int
           /\ Width(pruner).outside = pruner.outside
<1>1. PICK w \in Widths : /\ w.outside >= 0 /\ w.inside < 0
                          /\ pruner = [kind |-> "levelset", outside |-> w.outside, inside |-> w.inside]
  <2>1. pruner \notin [kind : {"tolerance"}, tolerance : Tolerances]
    OBVIOUS
  <2>2. pruner \notin [kind : {"inactive"}, value : Values]
    OBVIOUS
  <2> QED
    BY <2>1, <2>2 DEF Pruners
<1>2. pruner.inside = w.inside /\ pruner.outside = w.outside
  BY <1>1
<1>3. w.inside \in Values /\ w.outside \in Values /\ w.inside \in Int /\ w.outside \in Int
  BY ToolsAssumption, ContentsTyped
<1>4. ~ (pruner.outside < 0)
  BY <1>1, <1>2, <1>3
<1> QED
  BY <1>1, <1>2, <1>3, <1>4 DEF Width

\* changeLevelSetBackground().
LEMMA BackgroundKeepsSigns ==
    ASSUME WellFormed(tree), mBackground \in Values, mBackground >= 0,
           NEW pruner \in Pruners, pruner.kind = "levelset", NEW x \in Voxels
    PROVE  Negative(FloodedValue(LevelSetBackgroundChanged(tree, pruner), pruner, x)) = Negative(Map[x])
<1> DEFINE U == LevelSetBackgroundChanged(tree, pruner)
<1>1. /\ pruner.inside \in Values /\ pruner.outside \in Values
      /\ pruner.inside < 0 /\ pruner.outside >= 0
      /\ pruner.inside \in Int /\ pruner.outside \in Int
      /\ Width(pruner).outside = pruner.outside
  BY LevelSetKind
<1>2. DOMAIN U = DOMAIN tree
  BY DEF LevelSetBackgroundChanged
<1>3. \A c \in DOMAIN tree :
         \/ U[c] = tree[c]
         \/ /\ tree[c] # Child
            /\ U[c] = [tree[c] EXCEPT !.value = IF @ < 0 THEN pruner.inside ELSE pruner.outside]
  BY DEF LevelSetBackgroundChanged
<1> HIDE DEF U
<1>4. ASSUME NEW c \in DOMAIN tree, tree[c] # Child
      PROVE  U[c] \in Tile /\ Negative(U[c]) = Negative(tree[c])
  <2>1. tree[c] \in Tile
    BY <1>4, Shape
  <2>2. PICK a \in Values, on \in BOOLEAN : tree[c] = [value |-> a, active |-> on]
    BY <2>1 DEF Tile
  <2>3. a \in Int
    BY ContentsTyped
  <2> DEFINE v == IF a < 0 THEN pruner.inside ELSE pruner.outside
  <2>4. v \in Values /\ ((v < 0) = (a < 0))
    <3>1. CASE a < 0
      BY <1>1, <3>1
    <3>2. CASE ~ (a < 0)
      BY <1>1, <3>2
    <3> QED
      BY <3>1, <3>2
  <2>5. U[c] = tree[c] \/ U[c] = [value |-> v, active |-> on]
    BY <1>3, <2>2
  <2> HIDE DEF v
  <2>6. CASE U[c] = tree[c]
    BY <2>1, <2>6
  <2>7. CASE U[c] = [value |-> v, active |-> on]
    <3>1. U[c].value = v /\ tree[c].value = a
      BY <2>2, <2>7
    <3>2. U[c] \in Tile
      BY <2>4, <2>7 DEF Tile
    <3> QED
      BY <2>4, <3>1, <3>2 DEF Negative
  <2> QED
    BY <2>5, <2>6, <2>7
<1>5. ASSUME NEW c \in DOMAIN tree, tree[c] = Child PROVE U[c] = Child
  BY <1>3, <1>5
<1>6. /\ WellFormed(U)
      /\ \/ \E d \in Above[x] : /\ IsTile(tree, d)
                                /\ Stored(tree, x) = tree[d]
                                /\ Stored(U, x) = U[d]
         \/ /\ \A d \in Above[x] : d \notin DOMAIN tree
            /\ Stored(tree, x) = BackgroundTile
            /\ Stored(U, x) = BackgroundTile
  BY <1>2, <1>4, <1>5, RetileLemma
<1>7. Map[x] = Stored(tree, x)
  BY DEF Map, Contents
<1>8. CASE \E d \in Above[x] : IsTile(tree, d) /\ Stored(tree, x) = tree[d] /\ Stored(U, x) = U[d]
  <2>1. PICK d \in Above[x] : IsTile(tree, d) /\ Stored(tree, x) = tree[d] /\ Stored(U, x) = U[d]
    BY <1>8
  <2>2. d \in DOMAIN tree /\ tree[d] # Child
    BY <2>1 DEF IsTile
  <2>3. U[d] \in Tile /\ Negative(U[d]) = Negative(tree[d])
    BY <1>4, <2>2
  <2>4. IsTile(U, d)
    BY <1>2, <2>2, <2>3, ContentsTyped DEF IsTile
  <2>5. FloodedValue(U, pruner, x) = U[d]
    BY <2>1, <2>4 DEF FloodedValue
  <2> QED
    BY <1>7, <2>1, <2>3, <2>5 DEF U
<1>9. CASE (\A d \in Above[x] : d \notin DOMAIN tree) /\ Stored(tree, x) = BackgroundTile
  <2>1. FloodedValue(U, pruner, x) = Off(pruner.outside)
    BY <1>1, <1>2, <1>9 DEF FloodedValue, IsTile
  <2>2. FloodedValue(U, pruner, x).value = pruner.outside /\ Map[x].value = mBackground
    BY <1>7, <1>9, <2>1 DEF Off, BackgroundTile
  <2>3. mBackground \in Int
    BY ContentsTyped
  <2>4. Negative(FloodedValue(U, pruner, x)) = FALSE
    BY <1>1, <2>2 DEF Negative
  <2>5. Negative(Map[x]) = FALSE
    BY <2>2, <2>3 DEF Negative
  <2> QED
    BY <2>4, <2>5 DEF U
<1> QED
  BY <1>6, <1>8, <1>9

\* Where every voxel has the sign that reaches it, and only one does.
OneSign(R) ==
    /\ SignsSpread(R)
    /\ \A p, q \in R : p[1] = q[1] => p = q
    /\ \A x \in Voxels : <<x, Negative(Map[x])>> \in R

\* A cube without active voxels has one sign.
LEMMA OneSignInside ==
    ASSUME NEW R, OneSign(R), NEW c \in Cells, Quiet(c), NEW x \in VoxelsIn[c], NEW y \in VoxelsIn[c]
    PROVE  Negative(Map[x]) = Negative(Map[y])
<1>1. x \in Voxels /\ y \in Voxels
  BY VoxelInside
<1>2. <<x, Negative(Map[x])>> \in R /\ <<y, Negative(Map[y])>> \in R /\ SignsSpread(R)
  BY <1>1 DEF OneSign
<1>3. Signed(R, c, Negative(Map[y]))
  BY <1>2, CubeSign, NegativeTyped
<1>4. <<x, Negative(Map[y])>> \in R
  BY <1>3 DEF Signed
<1>5. <<x, Negative(Map[y])>> = <<x, Negative(Map[x])>>
  BY <1>2, <1>4 DEF OneSign
<1> QED
  BY <1>5

\* pruneLevelSet().
LEMMA PruneKeepsSigns ==
    ASSUME WellFormed(tree), mBackground \in Values, NEW R, OneSign(R),
           NEW pruner \in Pruners, pruner.kind = "levelset", NEW v \in Voxels
    PROVE  Negative(Stored(Pruned(tree, pruner, 1), v)) = Negative(Map[v])
<1> DEFINE kept(T) == \A x \in Voxels : /\ Stored(T, x).active = Map[x].active
                                       /\ Negative(Stored(T, x)) = Negative(Map[x])
<1>1. PICK up, con : PrunerRun(tree, pruner, 1, up, con)
  BY PrunedPasses
<1>2. Passes(up, con, 0) /\ up[0] = tree /\ RootLevel \in Nat
      /\ Pruned(tree, pruner, 1) = EraseBackgroundTiles(up[RootLevel])
  BY <1>1, RootLevelNat DEF PrunerRun
<1>3. \A l \in 0 .. RootLevel : WellFormed(up[l])
  BY <1>2, PassesShape
<1>4. /\ pruner.inside \in Int /\ pruner.outside \in Int
      /\ pruner.inside < 0 /\ pruner.outside >= 0
  BY LevelSetKind
<1>5. ASSUME NEW l \in 1 .. RootLevel, kept(up[l - 1]) PROVE kept(up[l])
  <2> DEFINE T == up[l - 1]
             U == up[l]
             N == con[l]
  <2>1. WellFormed(T) /\ Pass(T, U, l, N)
    <3>1. l - 1 \in 0 .. RootLevel /\ l \in 0 + 1 .. RootLevel
      BY <1>2
    <3> QED
      BY <1>2, <1>3, <3>1 DEF Passes
  <2>2. N = PrunedNodes(T, l, pruner) /\ \A n \in N : U[n] = PruneTile(T, n, pruner)
    BY <1>1 DEF PrunerRun
  <2>3. kept(T)
    BY <1>5
  <2> HIDE DEF T, U, N
  <2>4. ASSUME NEW n \in N
        PROVE  /\ n \in Cells /\ Quiet(n) /\ U[n].active = FALSE
               /\ \A x \in VoxelsIn[n] : Negative(U[n]) = Negative(Map[x])
    <3>1. n \in Nodes(T) /\ IsPruned(T, n, pruner) /\ U[n] = PruneTile(T, n, pruner)
      BY <2>2 DEF PrunedNodes
    <3>2. n \in Cells /\ n \in DOMAIN T /\ T[n] = Child
      BY <3>1 DEF Nodes, IsChild
    <3>3. Level[n] > 0 /\ First[n] \in Slots[n]
      BY <2>1, <3>2, Shape, FirstFacts
    <3>4. U[n].active = FALSE /\ \A s \in Slots[n] : IsTile(T, s) /\ T[s].active = FALSE
      <4>1. pruner.kind # "tolerance"
        OBVIOUS
      <4>2. \A s \in Slots[n] : /\ IsTile(T, s) /\ T[s].active = FALSE
                                /\ PruneTile(T, n, pruner).active = FALSE
        BY <2>1, <3>1, <4>1, PruneTileFacts
      <4> QED
        BY <3>1, <3>3, <4>2
    <3>5. ASSUME NEW x \in VoxelsIn[n] PROVE x \in Voxels /\ ~ Map[x].active
      <4>1. x \in Voxels /\ n \in Above[x] /\ x \in Cells /\ Level[x] = 0
        BY <3>2, VoxelInside DEF Voxels
      <4>2. n \in Parents[x]
        BY <3>3, <4>1, Chain
      <4>3. PICK s \in Slots[n] : s \in Above[x]
        BY <4>1, <4>2, SlotTowards
      <4>4. Stored(T, x) = T[s] /\ T[s].active = FALSE
        BY <2>1, <3>4, <4>1, <4>3, StoredTile
      <4>5. Stored(T, x).active = Map[x].active
        BY <2>3, <4>1
      <4> QED
        BY <4>1, <4>4, <4>5
    <3>6. Quiet(n)
      BY <3>5 DEF Quiet, Active
    <3> DEFINE f == First[n]
    <3>7. f \in Cells /\ n \in Parents[f] /\ IsTile(T, f) /\ First \in Ends
      BY <3>2, <3>3, <3>4, SlotFacts DEF Ends
    <3>8. PICK y \in VoxelsIn[f] : y \in Voxels /\ f \in Above[y]
      BY <3>7, VoxelInside
    <3>9. y \in VoxelsIn[n]
      <4>1. y \in Cells /\ n \in Above[y]
        BY <3>7, <3>8, Chain DEF Voxels
      <4> QED
        BY <3>2, <3>8, <4>1, VoxelInside
    <3>10. Stored(T, y) = T[f]
      BY <2>1, <3>7, <3>8, StoredTile DEF Voxels
    <3>11. Negative(T[f]) = Negative(Map[y])
      BY <2>3, <3>8, <3>10
    <3>12. IsInside(T, f, First) = Negative(T[f])
      BY <2>1, <3>7, TileCorner DEF IsInside, Negative
    <3> HIDE DEF f
    <3>13. U[n] = IF IsInside(T, f, First) THEN Off(pruner.inside) ELSE Off(pruner.outside)
      BY <3>1 DEF PruneTile, f
    <3>14. Negative(U[n]) = IsInside(T, f, First)
      <4>1. CASE IsInside(T, f, First)
        <5>1. U[n].value = pruner.inside
          BY <3>13, <4>1 DEF Off
        <5>2. U[n].value < 0
          BY <1>4, <5>1
        <5> QED
          BY <4>1, <5>2, SignTyped DEF Negative
      <4>2. CASE ~ IsInside(T, f, First)
        <5>1. U[n].value = pruner.outside
          BY <3>13, <4>2 DEF Off
        <5>2. ~ (U[n].value < 0)
          BY <1>4, <5>1
        <5> QED
          BY <4>2, <5>2, SignTyped DEF Negative
      <4> QED
        BY <4>1, <4>2
    <3>15. \A x \in VoxelsIn[n] : Negative(U[n]) = Negative(Map[x])
      BY <3>2, <3>6, <3>9, <3>11, <3>12, <3>14, OneSignInside
    <3> QED
      BY <3>2, <3>4, <3>6, <3>15
  <2>5. ASSUME NEW x \in Voxels
        PROVE  /\ Stored(U, x).active = Map[x].active
               /\ Negative(Stored(U, x)) = Negative(Map[x])
    <3>1. \/ \E n \in N : \E s \in Slots[n] :
                /\ n \in Above[x] /\ s \in Above[x]
                /\ Stored(T, x) = T[s] /\ Stored(U, x) = U[n]
                /\ n \in DOMAIN U
          \/ Stored(U, x) = Stored(T, x)
      BY <2>1, PassHeld
    <3>2. CASE \E n \in N : n \in Above[x] /\ Stored(U, x) = U[n]
      <4>1. PICK n \in N : n \in Above[x] /\ Stored(U, x) = U[n]
        BY <3>2
      <4>2. x \in VoxelsIn[n]
        BY <2>4, <4>1, VoxelInside
      <4>3. x \notin Active /\ Map[x].active \in BOOLEAN
        <5>1. Stored(T, x).active \in BOOLEAN
          BY <2>1, HeldTyped
        <5>2. x \notin Active
          BY <2>4, <4>2 DEF Quiet
        <5> QED
          BY <2>3, <5>1, <5>2
      <4>4. Map[x].active = FALSE
        BY <4>3 DEF Active
      <4> QED
        BY <2>4, <4>1, <4>2, <4>4
    <3>3. CASE Stored(U, x) = Stored(T, x)
      BY <2>3, <3>3
    <3> QED
      BY <3>1, <3>2, <3>3
  <2> QED
    BY <2>5 DEF U
<1> HIDE DEF kept
<1> DEFINE S == {l \in Nat : kept(up[l])}
<1>6. 0 \in S
  BY <1>2 DEF kept, Map, Contents
<1>7. ASSUME NEW l \in 0 + 1 .. RootLevel, l - 1 \in S PROVE l \in S
  <2>1. l \in 1 .. RootLevel /\ l \in Nat
    BY <1>2
  <2> QED
    BY <1>5, <1>7, <2>1
<1> HIDE DEF S
<1>8. \A l \in 0 .. RootLevel : l \in S
  BY <1>2, <1>6, <1>7, Climb
<1>9. RootLevel \in 0 .. RootLevel
  BY <1>2
<1>10. kept(up[RootLevel]) /\ WellFormed(up[RootLevel])
  BY <1>3, <1>8, <1>9 DEF S
<1>11. Stored(Pruned(tree, pruner, 1), v) = Stored(up[RootLevel], v)
  BY <1>2, <1>10, EraseBackgroundLemma
<1> QED
  BY <1>10, <1>11 DEF kept

\* The contract of the level set tools follows from the shape of the tree.
LEMMA LevelSetContract == TypeOK => LevelSetToolsMeetContract
<1> SUFFICES ASSUME TypeOK PROVE LevelSetToolsMeetContract
  OBVIOUS
<1> DEFINE R == Reaching
<1>1. WellFormed(tree) /\ mBackground \in Values /\ SignsSpread(R)
  BY ReachingSpread DEF TypeOK
<1> HIDE DEF R
<1>2. ASSUME Closed(R), SignsKnown(R), NEW w \in Widths, Width(w).inside < 0, NEW x \in Voxels
      PROVE  VoxelFlooded(R, Flooded(tree, w, 0), w, x)
  <2>1. Width(w).outside >= 0
    <3>1. w.outside \in Int
      BY WidthTyped, ContentsTyped
    <3> QED
      BY <3>1 DEF Width
  <2>2. Floodable(R, Width(w))
    BY <1>1, <1>2, <2>1, WidthTyped DEF Floodable
  <2> QED
    BY <2>2, FloodContract
<1>3. ASSUME Closed(R), \A x \in Voxels : <<x, Map[x].value < 0>> \in R,
             NEW pruner \in Pruners, pruner.kind = "levelset", NEW x \in Voxels
      PROVE  /\ (Stored(Pruned(tree, pruner, 1), x).value < 0) = (Map[x].value < 0)
             /\ (FloodedValue(LevelSetBackgroundChanged(tree, pruner), pruner, x).value < 0)
                  = (Map[x].value < 0)
  <2>1. OneSign(R)
    BY <1>1, <1>3 DEF OneSign, Closed, Negative
  <2>2. mBackground >= 0
    BY <1>3 DEF Closed
  <2>3. Negative(Stored(Pruned(tree, pruner, 1), x)) = Negative(Map[x])
    BY <1>1, <1>3, <2>1, PruneKeepsSigns
  <2>4. Negative(FloodedValue(LevelSetBackgroundChanged(tree, pruner), pruner, x)) = Negative(Map[x])
    BY <1>1, <1>3, <2>2, BackgroundKeepsSigns
  <2> QED
    BY <2>3, <2>4 DEF Negative
<1>4. Closed(R) => (SignsKnown(R) =>
         \A w \in {v \in Widths : Width(v).inside < 0} : \A x \in Voxels :
            VoxelFlooded(R, Flooded(tree, w, 0), w, x))
  BY <1>2
<1>5. Closed(R) => ((\A x \in Voxels : <<x, Map[x].value < 0>> \in R) =>
         \A pruner \in {p \in Pruners : p.kind = "levelset"} : \A x \in Voxels :
            /\ (Stored(Pruned(tree, pruner, 1), x).value < 0) = (Map[x].value < 0)
            /\ (FloodedValue(LevelSetBackgroundChanged(tree, pruner), pruner, x).value < 0)
                 = (Map[x].value < 0))
  BY <1>3
<1> QED
  BY <1>4, <1>5 DEF LevelSetToolsMeetContract, VoxelFlooded, R

-------------------------------------------------------------------------------
(* TreeTools: the theorems.                                                *)

LEMMA ToolsTypeInit == ToolsInit => TypeOK
BY ToolsAssumption, ContentsTyped DEF ToolsInit, TypeOK

LEMMA ToolsTypeStep == TypeOK /\ [ToolsNext]_toolsVars => TypeOK'
<1> SUFFICES ASSUME TypeOK, [ToolsNext]_toolsVars PROVE TypeOK'
  OBVIOUS
<1>1. WellFormed(tree) /\ mBackground \in Values
  BY DEF TypeOK
<1>2. ASSUME NEW w \in Widths, NEW minLevel \in 0 .. RootLevel, SignedFloodFill(w, minLevel)
      PROVE  TypeOK'
  <2>1. WellFormed(Flooded(tree, w, minLevel)) /\ Width(w).outside \in Values
    BY <1>1, FloodedShape, WidthTyped
  <2>2. tree' = Flooded(tree, w, minLevel)
        /\ (mBackground' = Width(w).outside \/ mBackground' = mBackground)
    BY <1>2 DEF SignedFloodFill
  <2>3. WellFormed(tree')
    BY <2>1, <2>2
  <2> QED
    BY <1>1, <2>1, <2>2, <2>3 DEF TypeOK, WellFormed, IsChild
<1>3. ASSUME NEW T, WellFormed(T), Step(T) PROVE TypeOK'
  <2>1. tree' = T /\ mBackground' = mBackground
    BY <1>3 DEF Step
  <2>2. WellFormed(tree')
    BY <1>3, <2>1
  <2> QED
    BY <1>1, <2>1, <2>2 DEF TypeOK, WellFormed, IsChild
<1>4. ASSUME NEW tolerance \in Tolerances, Step(PruneWithin(tree, tolerance)) PROVE TypeOK'
  BY <1>1, <1>3, <1>4, PruneWithinShape
<1>5. ASSUME NEW pruner \in Pruners, NEW lowest \in 1 .. 2, Step(Pruned(tree, pruner, lowest))
      PROVE  TypeOK'
  BY <1>1, <1>3, <1>5, PrunedShape
<1>6. ASSUME NEW v \in Values, ChangeBackground(v) PROVE TypeOK'
  <2>1. WellFormed(BackgroundChanged(tree, v))
    BY <1>1, EntryToolsShape
  <2>2. WellFormed(tree') /\ mBackground' = v
    BY <1>6, <2>1 DEF ChangeBackground
  <2> QED
    BY <2>2 DEF TypeOK, WellFormed, IsChild
<1>7. ASSUME NEW w \in Widths, ChangeLevelSetBackground(w) PROVE TypeOK'
  <2>1. WellFormed(LevelSetBackgroundChanged(tree, w)) /\ w.outside \in Values
    BY <1>1, EntryToolsShape, WidthTyped
  <2>2. WellFormed(tree') /\ mBackground' = w.outside
    BY <1>7, <2>1 DEF ChangeLevelSetBackground
  <2> QED
    BY <2>1, <2>2 DEF TypeOK, WellFormed, IsChild
<1>8. ASSUME NEW v \in Values, NEW tolerance \in Tolerances, NEW active \in BOOLEAN,
             Step(Activated(tree, v, tolerance, active))
      PROVE  TypeOK'
  BY <1>1, <1>3, <1>8, EntryToolsShape
<1>9. ASSUME NEW tolerance \in Tolerances,
             Step(Pruned(tree, [kind |-> "tolerance", tolerance |-> tolerance], 2))
      PROVE  TypeOK'
  <2>1. [kind |-> "tolerance", tolerance |-> tolerance] \in Pruners /\ 2 \in 1 .. 2
    BY DEF Pruners
  <2> QED
    BY <1>5, <1>9, <2>1
<1>10. CASE UNCHANGED toolsVars
  BY <1>10 DEF toolsVars, TypeOK, WellFormed, IsChild
<1>11. CASE Tool
  <2>1. \A pruner \in Pruners : Step(Pruned(tree, pruner, 1)) => TypeOK'
    BY <1>5
  <2> QED
    BY <1>2, <1>4, <1>6, <1>7, <1>8, <1>9, <1>11, <2>1 DEF Tool
<1> QED
  BY <1>10, <1>11 DEF ToolsNext

\* The tools leave a tree: the entry of a child node, and it alone, has the entries
\* of its node below it, and values and background stay in their sets
\* (SignedFloodFillOp, the prune functions, changeBackground, activate).
THEOREM ToolsTypeCorrect == ToolsSpec => []TypeOK
<1>1. ToolsInit => TypeOK
  BY ToolsTypeInit
<1>2. TypeOK /\ [ToolsNext]_toolsVars => TypeOK'
  BY ToolsTypeStep
<1> QED
  BY <1>1, <1>2, PTL DEF ToolsSpec

\* Whatever the tools have made of a tree, prune() with no tolerance merges the
\* nodes whose voxels all hold the same and no others; one call of a prune function
\* merges all there is to merge; active states stay, and values move by at most the
\* tolerance for every level, or not at all where only inactive nodes are merged
\* (RootNode, InternalNode::prune, TolerancePruneOp, InactivePruneOp,
\* LevelSetPruneOp).
THEOREM PruneCorrect == ToolsSpec => []PruneMeetsContract
<1>1. TypeOK => PruneMeetsContract
  BY PruneContract
<1> QED
  BY <1>1, ToolsTypeCorrect, PTL

\* In a closed narrow-band level set the flood fill gives every inactive voxel the
\* sign of the active voxels around its region and leaves active voxels alone, and
\* neither pruneLevelSet() nor changeLevelSetBackground() changes a sign that is
\* right (SignedFloodFillOp, LevelSetPruneOp, ChangeLevelSetBackgroundOp).
THEOREM LevelSetToolsCorrect == ToolsSpec => []LevelSetToolsMeetContract
<1>1. TypeOK => LevelSetToolsMeetContract
  BY LevelSetContract
<1> QED
  BY <1>1, ToolsTypeCorrect, PTL
===============================================================================
