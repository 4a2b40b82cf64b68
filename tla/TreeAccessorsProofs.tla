-------------------------- MODULE TreeAccessorsProofs -------------------------
(***************************************************************************)
(* The registry of every tree is exact.  Pointers of accessors begin to    *)
(* dangle only where addLeaf, addTile and combine delete or take the node, *)
(* and every operation through an accessor that starts at a node that is   *)
(* there does what the operation of the tree does.                         *)
(***************************************************************************)
EXTENDS TreeAccessors, TLAPS

-------------------------------------------------------------------------------
(* The registry.                                                           *)

\* The types that the registry's invariant rests on.
RegistryTyped == /\ mAccessorRegistry \in [Trees -> SUBSET Accessors]
                 /\ mTree \in [Accessors -> Trees \union {None}]

RegistryInv == RegistryTyped /\ RegistryExact

\* Construction, assignment and destruction of accessors keep the registry exact.
LEMMA LifeKeepsRegistry ==
    ASSUME RegistryInv, NEW a \in Accessors, AccessorLife(a)
    PROVE  RegistryInv'
<1> USE CachesTyped DEF RegistryInv, RegistryTyped, RegistryExact
<1>1. ASSUME NEW t \in Trees, Construct(a, t) PROVE RegistryInv'
  BY <1>1 DEF Construct
<1>2. ASSUME NEW b \in Accessors, Assign(a, b) PROVE RegistryInv'
  BY <1>2 DEF Assign, Reregistered
<1>3. CASE Destruct(a)
  BY <1>3 DEF Destruct
<1>4. ASSUME NEW L, Erase(a, L) PROVE RegistryInv'
  BY <1>4 DEF Erase
<1> QED BY <1>1, <1>2, <1>3, <1>4 DEF AccessorLife

\* The deletion of a tree releases its accessors.
LEMMA DeleteKeepsRegistry ==
    ASSUME RegistryInv, NEW t \in Trees, Delete(t)
    PROVE  RegistryInv'
  BY CachesTyped DEF RegistryInv, RegistryTyped, RegistryExact, Delete, Registered

\* No other operation touches the registry.
LEMMA OthersKeepRegistry ==
    ASSUME RegistryInv, UNCHANGED <<mAccessorRegistry, mTree>>
    PROVE  RegistryInv'
  BY DEF RegistryInv, RegistryTyped, RegistryExact

LEMMA RegistryStep == RegistryInv /\ [Next]_vars => RegistryInv'
<1> SUFFICES ASSUME RegistryInv, [Next]_vars PROVE RegistryInv'
  OBVIOUS
<1>1. ASSUME NEW a \in Accessors, AccessorOp(a) PROVE RegistryInv'
  BY <1>1, OthersKeepRegistry DEF AccessorOp, Lookup, Write, AddLeaf, AddTile, Through, vars
<1>2. ASSUME NEW a \in Accessors, AccessorLife(a) PROVE RegistryInv'
  BY <1>2, LifeKeepsRegistry
<1>3. ASSUME NEW t \in Trees, TreeOp(t) PROVE RegistryInv'
  <2>1. CASE Delete(t)
    BY <2>1, DeleteKeepsRegistry
  <2>2. CASE ~ Delete(t)
    BY <1>3, <2>2, OthersKeepRegistry
    DEF TreeOp, Rebuild, Merge, Combine, Directly, TreeAddLeaf, TreeAddTile
  <2> QED BY <2>1, <2>2
<1>4. CASE UNCHANGED vars
  BY <1>4, OthersKeepRegistry DEF vars
<1> QED BY <1>1, <1>2, <1>3, <1>4 DEF Next

\* The registry of a tree has exactly the accessors that point to it
\* (Tree::attachAccessor, releaseAccessor, releaseAllAccessors).
THEOREM RegistryCorrect == Spec => []RegistryExact
<1>1. Init => RegistryInv
  BY CachesTyped DEF Init, RegistryInv, RegistryTyped, RegistryExact
<1>2. RegistryInv => RegistryExact
  BY DEF RegistryInv
<1> QED BY <1>1, <1>2, RegistryStep, PTL DEF Spec

-------------------------------------------------------------------------------
(* Sets of nodes: every operation leaves a set in which nodes have parents. *)

\* The branch above the node where an operation starts is there.
BranchThere(N, x, hits) == Above[x] \ Branch(x, hits, 0) \subseteq N

\* Making the missing nodes of a branch gives every node its parent, and gives the
\* same nodes wherever on the branch one starts.
LEMMA DensifiedNested ==
    ASSUME NEW N \in NodeSets, NEW x \in Cells, NEW hits \in SUBSET CacheLevels,
           NEW low \in Nat, BranchThere(N, x, hits)
    PROVE  /\ Densified(N, x, hits, low) \in NodeSets
           /\ Densified(N, x, hits, low) = Densified(N, x, {}, low)
<1> USE NodesNested, CachesTyped
<1>1. Densified(N, x, hits, low) \in SUBSET Cells
  BY DEF Densified, Branch, NodeSets
<1>2. ASSUME NEW c \in Densified(N, x, hits, low), NEW d \in Above[c]
      PROVE  d \in Densified(N, x, hits, low)
  <2>1. CASE c \in N
    BY <1>2, <2>1 DEF NodeSets, Densified
  <2>2. CASE c \in Branch(x, hits, low)
    <3>1. c \in Cells /\ d \in Cells /\ d \in Above[x] /\ low <= Level[d]
      BY <1>2, <2>2 DEF Branch
    <3>2. d \in Branch(x, hits, 0) => d \in Branch(x, hits, low)
      BY <3>1 DEF Branch
    <3> QED BY <3>1, <3>2 DEF BranchThere, Densified
  <2> QED BY <1>2, <2>1, <2>2 DEF Densified
<1>3. ASSUME NEW c \in Branch(x, {}, low) PROVE c \in Densified(N, x, hits, low)
  <2>1. c \in Above[x] /\ c \in Cells /\ low <= Level[c] /\ Level[c] \in Nat
    BY DEF Branch
  <2>2. c \in Branch(x, hits, 0) => c \in Branch(x, hits, low)
    BY <2>1 DEF Branch
  <2> QED BY <2>1, <2>2 DEF BranchThere, Densified
<1>4. Branch(x, hits, low) \subseteq Branch(x, {}, low)
  BY DEF Branch
<1> QED BY <1>1, <1>2, <1>3, <1>4 DEF NodeSets, Densified

\* A node that is deleted takes all that is below it along.
LEMMA DeletedBelow ==
    ASSUME NEW N \in NodeSets, NEW x \in Cells, NEW level \in Nat
    PROVE  N \ Deleted(x, level) \in NodeSets
<1>1. ASSUME NEW c \in N \ Deleted(x, level), NEW d \in Above[c], d \in Deleted(x, level)
      PROVE  FALSE
  <2>1. c \in Cells /\ d \in Cells
    BY NodesNested DEF NodeSets
  <2>2. PICK e \in Above[x] : Level[e] = level - 1 /\ d \in Within[e]
    BY <1>1 DEF Deleted
  <2>3. e \in Cells /\ e \in Above[d]
    BY <2>2, NodesNested DEF Within
  <2>4. c \in Within[e]
    BY <2>1, <2>3, NodesNested DEF Within
  <2> QED BY <2>2, <2>4 DEF Deleted
<1> QED BY <1>1 DEF NodeSets

\* addTile() leaves the nodes it inserts into the cache.
LEMMA DeletedApart ==
    ASSUME NEW x \in Cells, NEW hits \in SUBSET CacheLevels, NEW level \in Nat
    PROVE  Branch(x, hits, level) \intersect Deleted(x, level) = {}
<1> SUFFICES ASSUME NEW d \in Branch(x, hits, level), d \in Deleted(x, level) PROVE FALSE
  OBVIOUS
<1>1. PICK e \in Above[x] : Level[e] = level - 1 /\ d \in Within[e]
  BY DEF Deleted
<1>2. d \in Cells /\ e \in Cells /\ e \in Above[d] /\ Level[d] >= level
  BY <1>1, NodesNested DEF Within, Branch
<1>3. Level[e] >= Level[d] /\ Level[d] \in Int /\ Level[e] \in Int
  BY <1>2, NodesNested
<1> QED BY <1>1, <1>2, <1>3

-------------------------------------------------------------------------------
(* The caches.                                                             *)

\* The types of the nodes and the caches: what TypeOK says beyond RegistryTyped.
CacheTyped ==
    /\ nodes \in [Trees -> NodeSets]
    /\ mNodes \in [Accessors -> [CacheLevels -> Node \union {None}]]
    /\ lost \in [Accessors -> SUBSET CacheLevels]
    /\ \A a \in Accessors, l \in CacheLevels :
          IF mNodes[a][l] = None THEN l \notin lost[a] ELSE Level[mNodes[a][l].at] = l

\* A pointer of an accessor is to a node of its tree, and if it does not dangle,
\* the node is there.
CacheSound ==
    \A a \in Accessors : \A l \in CacheLevels :
        mNodes[a][l] # None =>
            /\ mNodes[a][l].tree = mTree[a]
            /\ l \notin lost[a] => mNodes[a][l].at \in nodes[mTree[a]]

CacheInv == RegistryInv /\ CacheTyped /\ CacheSound

\* The pointers that an operation deletes the nodes of.
LEMMA PointersInTree ==
    ASSUME CacheInv, NEW b \in Accessors, NEW t \in Trees, NEW D, NEW l \in PointingInto(b, t, D)
    PROVE  l \in CacheLevels /\ mTree[b] = t /\ mNodes[b][l].at \in D
  BY CachesTyped DEF CacheInv, CacheTyped, CacheSound, PointingInto, Node

\* The node that an operation starts at, and those above it, are in the tree.
LEMMA StartsAtNode ==
    ASSUME CacheInv, NEW a \in Accessors, mTree[a] # None, NEW x \in Cells, NEW from \in Nat,
           SafeStart(a, Hits(a, x, from))
    PROVE  /\ Hits(a, x, from) \in SUBSET CacheLevels
           /\ BranchThere(nodes[mTree[a]], x, Hits(a, x, from))
<1>1. Hits(a, x, from) \in SUBSET CacheLevels
  BY DEF Hits
<1>2. ASSUME NEW d \in Above[x], d \notin Branch(x, Hits(a, x, from), 0)
      PROVE  d \in nodes[mTree[a]]
  <2>1. d \in Cells /\ Level[d] \in Nat
    BY NodesNested
  <2>0. PICK k \in Hits(a, x, from) : ~ Level[d] < k
    BY <1>2, <2>1 DEF Branch
  <2>2. PICK l \in Hits(a, x, from) : l \notin lost[a] /\ l <= k
    BY <2>0 DEF SafeStart
  <2> DEFINE e == mNodes[a][l].at
  <2>3. l \in CacheLevels /\ l \in Int /\ k \in Int /\ mNodes[a][l] # None /\ e \in Above[x]
    BY <2>0, <2>2, CachesTyped DEF Hits, IsHashed
  <2>4. Level[e] = l /\ e \in nodes[mTree[a]] /\ mTree[a] \in Trees
    BY <2>2, <2>3 DEF CacheInv, CacheTyped, CacheSound, RegistryInv, RegistryTyped
  <2>5. e \in Cells
    BY <2>3, NodesNested
  <2>6. d \in Above[e]
    BY <2>0, <2>1, <2>2, <2>3, <2>4, <2>5, NodesNested
  <2>7. Above[e] \subseteq nodes[mTree[a]]
    BY <2>4 DEF CacheInv, CacheTyped, NodeSets
  <2> QED BY <2>6, <2>7
<1> QED BY <1>1, <1>2 DEF BranchThere

\* An operation through an accessor that deletes no node outside D, and caches nodes
\* that are in the tree afterwards.
LEMMA ThroughKeepsCaches ==
    ASSUME CacheInv, NEW a \in Accessors, mTree[a] # None, NEW x \in Cells,
           NEW S \in SUBSET Above[x], NEW N \in NodeSets, NEW D,
           S \subseteq N, nodes[mTree[a]] \ D \subseteq N, Through(a, S, N, D)
    PROVE  CacheTyped' /\ CacheSound'
<1> DEFINE t == mTree[a]
<1>1. t \in Trees
  BY DEF CacheInv, RegistryInv, RegistryTyped
<1>3. S \subseteq Cells
  BY NodesNested
<1>4. /\ lost' = [b \in Accessors |->
                     (IF b = a THEN lost[b] \ {Level[d] : d \in S} ELSE lost[b])
                     \union {l \in PointingInto(b, t, D) : b # a \/ l \notin {Level[d] : d \in S}}]
      /\ nodes' = [nodes EXCEPT ![t] = N]
      /\ mNodes' = [mNodes EXCEPT ![a] = Inserted(a, S)]
      /\ mTree' = mTree
  BY DEF Through
<1>5. ASSUME NEW l \in CacheLevels
      PROVE  \/ /\ \E d \in S : Level[d] = l /\ Inserted(a, S)[l] = [tree |-> t, at |-> d]
                /\ l \in {Level[d] : d \in S}
             \/ Inserted(a, S)[l] = mNodes[a][l] /\ l \notin {Level[d] : d \in S}
  <2>1. CASE \E d \in S : Level[d] = l
    <3>1. PICK d \in S : Level[d] = l /\ d = CHOOSE e \in S : Level[e] = l
      BY <2>1
    <3>2. Inserted(a, S)[l] = [tree |-> t, at |-> d]
      BY <2>1, <3>1 DEF Inserted
    <3> QED BY <3>1, <3>2
  <2>2. CASE ~ \E d \in S : Level[d] = l
    BY <2>2 DEF Inserted
  <2> QED BY <2>1, <2>2
<1>6. Inserted(a, S) \in [CacheLevels -> Node \union {None}]
  <2>1. ASSUME NEW l \in CacheLevels PROVE Inserted(a, S)[l] \in Node \union {None}
    <3>1. CASE \E d \in S : Inserted(a, S)[l] = [tree |-> t, at |-> d]
      BY <1>1, <1>3, <3>1 DEF Node
    <3>2. CASE Inserted(a, S)[l] = mNodes[a][l]
      BY <3>2 DEF CacheInv, CacheTyped
    <3> QED BY <1>5, <3>1, <3>2
  <2> QED BY <2>1 DEF Inserted
<1>7. CacheTyped'
  <2>1. nodes' \in [Trees -> NodeSets]
    BY <1>1, <1>4 DEF CacheInv, CacheTyped
  <2>2. mNodes' \in [Accessors -> [CacheLevels -> Node \union {None}]]
    BY <1>4, <1>6 DEF CacheInv, CacheTyped
  <2>3. lost' \in [Accessors -> SUBSET CacheLevels]
    BY <1>4 DEF CacheInv, CacheTyped, PointingInto
  <2>4. ASSUME NEW b \in Accessors, NEW l \in CacheLevels
        PROVE  IF mNodes'[b][l] = None THEN l \notin lost'[b] ELSE Level[mNodes'[b][l].at] = l
    <3>1. CASE b # a
      BY <1>4, <3>1 DEF CacheInv, CacheTyped, PointingInto
    <3>2. CASE b = a
      <4>1. mNodes'[b] = Inserted(a, S)
        BY <1>4, <3>2 DEF CacheInv, CacheTyped
      <4>2. CASE \E d \in S : Level[d] = l /\ Inserted(a, S)[l] = [tree |-> t, at |-> d]
        <5>1. [tree |-> t, at |-> mNodes'[b][l].at] = mNodes'[b][l] /\ Level[mNodes'[b][l].at] = l
          BY <4>1, <4>2
        <5>2. mNodes'[b][l] # None
          BY <1>1, <1>3, <4>1, <4>2, CachesTyped
        <5> QED BY <5>1, <5>2
      <4>3. CASE Inserted(a, S)[l] = mNodes[a][l]
        BY <1>4, <3>2, <4>1, <4>3 DEF CacheInv, CacheTyped, PointingInto
      <4> QED BY <1>5, <4>2, <4>3
    <3> QED BY <3>1, <3>2
  <2> QED BY <2>1, <2>2, <2>3, <2>4 DEF CacheTyped
<1>8. ASSUME NEW b \in Accessors, NEW l \in CacheLevels, mNodes'[b][l] # None
      PROVE  /\ mNodes'[b][l].tree = mTree'[b]
             /\ l \notin lost'[b] => mNodes'[b][l].at \in nodes'[mTree'[b]]
  <2>1. nodes'[t] = N /\ \A u \in Trees : u # t => nodes'[u] = nodes[u]
    BY <1>1, <1>4 DEF CacheInv, CacheTyped
  <2>2. CASE mNodes'[b][l] = mNodes[b][l] /\ (b = a => l \notin {Level[d] : d \in S})
    <3>1. mNodes[b][l].tree = mTree[b] /\ mTree[b] \in Trees
      BY <1>8, <2>2 DEF CacheInv, CacheTyped, CacheSound, Node
    <3>2. ASSUME l \notin lost'[b] PROVE mNodes[b][l].at \in nodes'[mTree[b]]
      <4>1. l \notin lost[b] /\ l \notin PointingInto(b, t, D)
        BY <1>4, <2>2, <3>2
      <4>2. mNodes[b][l].at \in nodes[mTree[b]]
        BY <1>8, <2>2, <4>1 DEF CacheInv, CacheSound
      <4>3. CASE mTree[b] = t
        <5>1. mNodes[b][l].at \notin D
          BY <1>8, <2>2, <3>1, <4>1, <4>3 DEF PointingInto
        <5> QED BY <2>1, <4>2, <4>3, <5>1
      <4> QED BY <2>1, <3>1, <4>2, <4>3
    <3> QED BY <1>4, <2>2, <3>1, <3>2
  <2>3. CASE b = a /\ l \in {Level[d] : d \in S}
             /\ \E d \in S : Level[d] = l /\ Inserted(a, S)[l] = [tree |-> t, at |-> d]
    BY <1>4, <2>1, <2>3 DEF CacheInv, CacheTyped
  <2>4. CASE b # a
    BY <1>4, <2>2, <2>4 DEF CacheInv, CacheTyped
  <2>5. CASE b = a
    <3>1. mNodes'[b] = Inserted(a, S)
      BY <1>4, <2>5 DEF CacheInv, CacheTyped
    <3> QED BY <1>5, <2>2, <2>3, <2>5, <3>1
  <2> QED BY <2>4, <2>5
<1> QED BY <1>7, <1>8 DEF CacheSound

\* An operation of a tree that deletes no node outside D, and clears no accessor.
LEMMA DirectlyKeepsCaches ==
    ASSUME CacheInv, NEW t \in Trees, NEW N \in NodeSets, NEW D,
           nodes[t] \ D \subseteq N, Directly(t, N, D)
    PROVE  CacheTyped' /\ CacheSound'
<1>1. /\ mNodes' = mNodes /\ mTree' = mTree /\ nodes' = [nodes EXCEPT ![t] = N]
      /\ lost' = [b \in Accessors |-> lost[b] \union PointingInto(b, t, D)]
  BY DEF Directly
<1>2. CacheTyped'
  BY <1>1 DEF CacheInv, CacheTyped, PointingInto
<1>3. ASSUME NEW b \in Accessors, NEW l \in CacheLevels, mNodes[b][l] # None, l \notin lost'[b]
      PROVE  mNodes[b][l].at \in nodes'[mTree[b]]
  <2>1. l \notin lost[b] /\ l \notin PointingInto(b, t, D)
    BY <1>1, <1>3
  <2>2. mNodes[b][l].tree = mTree[b] /\ mNodes[b][l].at \in nodes[mTree[b]] /\ mTree[b] \in Trees
    BY <1>3, <2>1 DEF CacheInv, CacheTyped, CacheSound, Node
  <2>3. mTree[b] = t => mNodes[b][l].at \notin D
    BY <1>3, <2>1, <2>2 DEF PointingInto
  <2>4. nodes'[mTree[b]] = IF mTree[b] = t THEN N ELSE nodes[mTree[b]]
    BY <1>1, <2>2 DEF CacheInv, CacheTyped
  <2> QED BY <2>2, <2>3, <2>4
<1> QED BY <1>1, <1>2, <1>3 DEF CacheInv, CacheSound

\* An operation that clears some accessors and then deletes or moves any nodes of
\* the trees of U.
LEMMA ClearingKeepsCaches ==
    ASSUME CacheInv, NEW A \in SUBSET Accessors, NEW U \in SUBSET Trees,
           NEW N \in [Trees -> NodeSets], \A t \in Trees \ U : N[t] = nodes[t],
           \A b \in Accessors \ A : mTree'[b] = mTree[b],
           ClearThenLose(A, U, N)
    PROVE  CacheTyped' /\ CacheSound'
<1>1. \A b \in Accessors :
         /\ b \in A => mNodes'[b] = NothingCached /\ lost'[b] = {}
         /\ b \notin A => /\ mNodes'[b] = mNodes[b]
                         /\ lost'[b] = lost[b] \union UNION {PointingInto(b, u, nodes[u]) : u \in U}
  BY DEF ClearThenLose
<1>2. nodes' = N
  BY DEF ClearThenLose
<1>3. CacheTyped'
  <2>1. mNodes' \in [Accessors -> [CacheLevels -> Node \union {None}]]
    BY <1>1 DEF ClearThenLose, CacheInv, CacheTyped, NothingCached
  <2>2. lost' \in [Accessors -> SUBSET CacheLevels]
    BY <1>1 DEF ClearThenLose, CacheInv, CacheTyped, PointingInto
  <2>3. ASSUME NEW b \in Accessors, NEW l \in CacheLevels
        PROVE  IF mNodes'[b][l] = None THEN l \notin lost'[b] ELSE Level[mNodes'[b][l].at] = l
    BY <1>1 DEF CacheInv, CacheTyped, NothingCached, PointingInto
  <2> QED BY <1>2, <2>1, <2>2, <2>3 DEF CacheTyped
<1>4. ASSUME NEW b \in Accessors, NEW l \in CacheLevels, mNodes'[b][l] # None
      PROVE  /\ mNodes'[b][l].tree = mTree'[b]
             /\ l \notin lost'[b] => mNodes'[b][l].at \in nodes'[mTree'[b]]
  <2>1. b \notin A
    BY <1>1, <1>4 DEF NothingCached
  <2>2. mNodes'[b][l] = mNodes[b][l] /\ mTree'[b] = mTree[b]
        /\ mNodes[b][l].tree = mTree[b] /\ mTree[b] \in Trees
    BY <1>1, <1>4, <2>1 DEF CacheInv, CacheTyped, CacheSound, Node
  <2>3. ASSUME l \notin lost'[b] PROVE mNodes[b][l].at \in N[mTree[b]]
    <3>1. l \notin lost[b] /\ \A u \in U : l \notin PointingInto(b, u, nodes[u])
      BY <1>1, <2>1, <2>3
    <3>2. mNodes[b][l].at \in nodes[mTree[b]]
      BY <1>4, <2>2, <3>1 DEF CacheInv, CacheSound
    <3>3. mTree[b] \notin U
      BY <1>4, <2>2, <3>1, <3>2 DEF PointingInto
    <3> QED BY <2>2, <3>2, <3>3
  <2> QED BY <1>2, <2>2, <2>3
<1> QED BY <1>3, <1>4 DEF CacheSound

\* No operation through an accessor breaks the caches of any.
LEMMA AccessorOpKeepsCaches ==
    ASSUME CacheInv, NEW a \in Accessors, AccessorOp(a)
    PROVE  CacheTyped' /\ CacheSound'
<1> DEFINE N == nodes[mTree[a]]
<1>1. N \in NodeSets /\ mTree[a] # None
  BY DEF AccessorOp, CacheInv, RegistryInv, RegistryTyped, CacheTyped
<1>2. RootLevel \in Nat
  BY NodesNested
<1>3. ASSUME NEW x \in Leaves, NEW level \in 0 .. RootLevel - 1, Lookup(a, x, level)
      PROVE  CacheTyped' /\ CacheSound'
  <2>1. Through(a, Branch(x, Hits(a, x, level), level) \intersect N, N, {})
    BY <1>3 DEF Lookup
  <2> QED BY <1>1, <2>1, ThroughKeepsCaches DEF Branch, Leaves
<1>4. ASSUME NEW x \in Leaves, NEW level \in 0 .. RootLevel, Write(a, x, level)
      PROVE  CacheTyped' /\ CacheSound'
  <2> DEFINE hits == Hits(a, x, 0)
             M == Densified(N, x, hits, level)
  <2>1. x \in Cells /\ level \in Nat
    BY <1>2 DEF Leaves
  <2>2. M \in NodeSets /\ N \ {} \subseteq M
    BY <1>1, <1>4, <2>1, StartsAtNode, DensifiedNested DEF Densified, Write
  <2>3. Through(a, Branch(x, hits, 0) \intersect M, M, {})
    BY <1>4 DEF Write
  <2>4. Branch(x, hits, 0) \intersect M \in SUBSET Above[x]
    BY DEF Branch
  <2> HIDE DEF M, hits, N
  <2> QED BY <1>1, <2>1, <2>2, <2>3, <2>4, ThroughKeepsCaches DEF N
<1>5. ASSUME NEW x \in Leaves, AddLeaf(a, x)
      PROVE  CacheTyped' /\ CacheSound'
  <2> DEFINE hits == Hits(a, x, 1)
             M == Densified(N, x, hits, 0)
  <2>1. x \in Cells
    BY DEF Leaves
  <2>2. M \in NodeSets /\ N \ {x} \subseteq M
    BY <1>1, <1>5, <2>1, StartsAtNode, DensifiedNested DEF Densified, AddLeaf
  <2>3. Through(a, Branch(x, hits, 1), M, {x})
    BY <1>5 DEF AddLeaf
  <2>4. Branch(x, hits, 1) \in SUBSET Above[x] /\ Branch(x, hits, 1) \subseteq M
    BY <2>1, NodesNested DEF Branch, Densified
  <2> HIDE DEF M, hits, N
  <2> QED BY <1>1, <2>1, <2>2, <2>3, <2>4, ThroughKeepsCaches DEF N
<1>6. ASSUME NEW x \in Leaves, NEW level \in 0 .. RootLevel, AddTile(a, x, level)
      PROVE  CacheTyped' /\ CacheSound'
  <2> DEFINE hits == Hits(a, x, 1)
             D == Deleted(x, level)
             B == Branch(x, hits, level)
             M == Densified(N, x, hits, level)
  <2>1. x \in Cells /\ level \in Nat
    BY <1>2 DEF Leaves
  <2>2. hits \in SUBSET CacheLevels /\ M \in NodeSets /\ N \subseteq M
    BY <1>1, <1>6, <2>1, StartsAtNode, DensifiedNested DEF Densified, AddTile
  <2>3. N \ D \subseteq M \ D
    BY <2>2
  <2>4. B \subseteq M /\ B \intersect D = {} /\ B \in SUBSET Above[x]
    BY <2>1, <2>2, DeletedApart DEF Branch, Densified
  <2>5. M \ D \in NodeSets
    BY <2>1, <2>2, DeletedBelow
  <2>6. CASE Reaches(hits, level)
    <3>1. Through(a, B, M \ D, D)
      BY <1>6, <2>6 DEF AddTile, Tiled
    <3> HIDE DEF M, D, B, hits, N
    <3> QED BY <1>1, <2>1, <2>2, <2>3, <2>4, <2>5, <3>1, ThroughKeepsCaches DEF N
  <2>7. CASE ~ Reaches(hits, level)
    <3>1. UNCHANGED vars
      BY <1>6, <2>7 DEF AddTile
    <3> QED BY <3>1 DEF vars, CacheInv, CacheTyped, CacheSound
  <2> QED BY <2>6, <2>7
<1> QED BY <1>3, <1>4, <1>5, <1>6 DEF AccessorOp

\* Nor does the life of an accessor.
LEMMA LifeKeepsCaches ==
    ASSUME CacheInv, NEW a \in Accessors, AccessorLife(a)
    PROVE  CacheTyped' /\ CacheSound'
<1> USE DEF CacheInv, RegistryInv, RegistryTyped, CacheTyped, CacheSound
<1>1. ASSUME NEW t \in Trees, Construct(a, t) PROVE CacheTyped' /\ CacheSound'
  BY <1>1 DEF Construct, NothingCached
<1>2. ASSUME NEW b \in Accessors, Assign(a, b) PROVE CacheTyped' /\ CacheSound'
  BY <1>2 DEF Assign
<1>3. CASE Destruct(a)
  BY <1>3 DEF Destruct, NothingCached
<1>4. ASSUME NEW L, Erase(a, L) PROVE CacheTyped' /\ CacheSound'
  BY <1>4 DEF Erase
<1> QED BY <1>1, <1>2, <1>3, <1>4 DEF AccessorLife

\* Nor does an operation of a tree.
LEMMA TreeOpKeepsCaches ==
    ASSUME CacheInv, NEW t \in Trees, TreeOp(t)
    PROVE  CacheTyped' /\ CacheSound'
<1>1. /\ nodes \in [Trees -> NodeSets] /\ RootLevel \in Nat /\ {} \in NodeSets
      /\ \A u \in Trees : /\ Registered(u) \in SUBSET Accessors
                          /\ \A b \in Accessors : mTree[b] = u => b \in Registered(u)
  BY NodesNested DEF CacheInv, CacheTyped, RegistryInv, RegistryTyped, RegistryExact, Registered, NodeSets
<1>2. ASSUME NEW N \in NodeSets, Rebuild(t, N) PROVE CacheTyped' /\ CacheSound'
  <2>1. ClearThenLose(Registered(t), {t}, [nodes EXCEPT ![t] = N]) /\ mTree' = mTree
    BY <1>2 DEF Rebuild
  <2> DEFINE A == Registered(t)
             U == {t}
             F == [nodes EXCEPT ![t] = N]
  <2>2. A \in SUBSET Accessors /\ U \in SUBSET Trees
    BY <1>1
  <2>3. F \in [Trees -> NodeSets] /\ \A v \in Trees \ U : F[v] = nodes[v]
    BY <1>1
  <2>4. \A b \in Accessors \ A : mTree'[b] = mTree[b]
    BY <1>1, <2>1
  <2>5. ClearThenLose(A, U, F)
    BY <2>1
  <2> HIDE DEF A, U, F
  <2> QED BY <2>2, <2>3, <2>4, <2>5, ClearingKeepsCaches
<1>3. ASSUME NEW u \in Trees, NEW N \in NodeSets, NEW M \in NodeSets, Merge(t, u, N, M)
      PROVE  CacheTyped' /\ CacheSound'
  <2>1. /\ ClearThenLose(Registered(t) \union Registered(u), {t, u},
                         [nodes EXCEPT ![t] = N, ![u] = M])
        /\ mTree' = mTree
    BY <1>3 DEF Merge
  <2> DEFINE A == Registered(t) \union Registered(u)
             U == {t, u}
             F == [nodes EXCEPT ![t] = N, ![u] = M]
  <2>2. A \in SUBSET Accessors /\ U \in SUBSET Trees
    BY <1>1
  <2>3. F \in [Trees -> NodeSets] /\ \A v \in Trees \ U : F[v] = nodes[v]
    BY <1>1
  <2>4. \A b \in Accessors \ A : mTree'[b] = mTree[b]
    BY <1>1, <2>1
  <2>5. ClearThenLose(A, U, F)
    BY <2>1
  <2> HIDE DEF A, U, F
  <2> QED BY <2>2, <2>3, <2>4, <2>5, ClearingKeepsCaches
<1>4. ASSUME NEW u \in Trees, NEW N \in NodeSets, Combine(t, u, N)
      PROVE  CacheTyped' /\ CacheSound'
  <2>1. /\ ClearThenLose(Registered(t), {t, u}, [nodes EXCEPT ![t] = N, ![u] = {}])
        /\ mTree' = mTree
    BY <1>4 DEF Combine
  <2> DEFINE A == Registered(t)
             U == {t, u}
             F == [nodes EXCEPT ![t] = N, ![u] = {}]
  <2>2. A \in SUBSET Accessors /\ U \in SUBSET Trees
    BY <1>1
  <2>3. F \in [Trees -> NodeSets] /\ \A v \in Trees \ U : F[v] = nodes[v]
    BY <1>1
  <2>4. \A b \in Accessors \ A : mTree'[b] = mTree[b]
    BY <1>1, <2>1
  <2>5. ClearThenLose(A, U, F)
    BY <2>1
  <2> HIDE DEF A, U, F
  <2> QED BY <2>2, <2>3, <2>4, <2>5, ClearingKeepsCaches
<1>5. ASSUME Delete(t) PROVE CacheTyped' /\ CacheSound'
  <2>1. /\ ClearThenLose(Registered(t), {t}, [nodes EXCEPT ![t] = {}])
        /\ \A b \in Accessors \ Registered(t) : mTree'[b] = mTree[b]
    BY <1>5 DEF Delete
  <2> DEFINE A == Registered(t)
             U == {t}
             F == [nodes EXCEPT ![t] = {}]
  <2>2. A \in SUBSET Accessors /\ U \in SUBSET Trees
    BY <1>1
  <2>3. F \in [Trees -> NodeSets] /\ \A v \in Trees \ U : F[v] = nodes[v]
    BY <1>1
  <2>4. \A b \in Accessors \ A : mTree'[b] = mTree[b]
    BY <1>1, <2>1
  <2>5. ClearThenLose(A, U, F)
    BY <2>1
  <2> HIDE DEF A, U, F
  <2> QED BY <2>2, <2>3, <2>4, <2>5, ClearingKeepsCaches
<1>6. ASSUME NEW x \in Leaves, NEW hits \in SUBSET CacheLevels, hits = {}
      PROVE  BranchThere(nodes[t], x, hits)
  BY <1>6, NodesNested DEF BranchThere, Branch, Leaves
<1>7. ASSUME NEW x \in Leaves, NEW level \in Nat
      PROVE  Densified(nodes[t], x, {}, level) \in NodeSets
  BY <1>1, <1>6, <1>7, DensifiedNested DEF Leaves
<1>8. ASSUME NEW x \in Leaves, NEW level \in 0 .. RootLevel - 1,
             Directly(t, Densified(nodes[t], x, {}, level), {})
      PROVE  CacheTyped' /\ CacheSound'
  <2>1. level \in Nat /\ nodes[t] \ {} \subseteq Densified(nodes[t], x, {}, level)
    BY <1>1 DEF Densified
  <2> QED BY <1>7, <1>8, <2>1, DirectlyKeepsCaches
<1>9. ASSUME NEW x \in Leaves, TreeAddLeaf(t, x) PROVE CacheTyped' /\ CacheSound'
  <2>1. /\ Directly(t, Densified(nodes[t], x, {}, 0), {x})
        /\ nodes[t] \ {x} \subseteq Densified(nodes[t], x, {}, 0)
    BY <1>9 DEF TreeAddLeaf, Densified
  <2> QED BY <1>7, <2>1, DirectlyKeepsCaches
<1>10. ASSUME NEW x \in Leaves, NEW level \in 0 .. RootLevel, TreeAddTile(t, x, level)
       PROVE  CacheTyped' /\ CacheSound'
  <2> DEFINE D == Deleted(x, level)
             M == Densified(nodes[t], x, {}, level)
  <2>1. level \in Nat /\ x \in Cells
    BY <1>1 DEF Leaves
  <2>2. M \ D \in NodeSets
    BY <1>7, <2>1, DeletedBelow
  <2>3. Directly(t, M \ D, D)
    BY <1>10 DEF TreeAddTile, Tiled, Reaches
  <2>4. nodes[t] \ D \subseteq M \ D
    BY <2>3 DEF Densified
  <2> HIDE DEF M, D
  <2> QED BY <2>2, <2>3, <2>4, DirectlyKeepsCaches
<1> QED BY <1>2, <1>3, <1>4, <1>5, <1>8, <1>9, <1>10 DEF TreeOp

LEMMA CacheStep == CacheInv /\ [Next]_vars => CacheInv'
<1> SUFFICES ASSUME CacheInv, [Next]_vars PROVE CacheInv'
  OBVIOUS
<1>1. RegistryInv'
  BY RegistryStep DEF CacheInv
<1>2. CASE UNCHANGED vars
  BY <1>1, <1>2 DEF vars, CacheInv, CacheTyped, CacheSound
<1>3. ASSUME NEW a \in Accessors, AccessorOp(a) PROVE CacheTyped' /\ CacheSound'
  BY <1>3, AccessorOpKeepsCaches
<1>4. ASSUME NEW a \in Accessors, AccessorLife(a) PROVE CacheTyped' /\ CacheSound'
  BY <1>4, LifeKeepsCaches
<1>5. ASSUME NEW t \in Trees, TreeOp(t) PROVE CacheTyped' /\ CacheSound'
  BY <1>5, TreeOpKeepsCaches
<1> QED BY <1>1, <1>2, <1>3, <1>4, <1>5 DEF Next, CacheInv

LEMMA CacheStart == Init => CacheInv
<1> SUFFICES ASSUME Init PROVE CacheInv
  OBVIOUS
<1>1. RegistryInv
  BY CachesTyped DEF Init, RegistryInv, RegistryTyped, RegistryExact
<1>2. CacheTyped /\ CacheSound
  BY DEF Init, CacheTyped, CacheSound, NodeSets, NothingCached
<1> QED BY <1>1, <1>2 DEF CacheInv

\* The invariant that the theorems below rest on.
LEMMA CachesSound == Spec => []CacheInv
<1>1. Init => CacheInv
  BY CacheStart
<1>2. CacheInv /\ [Next]_vars => CacheInv'
  BY CacheStep
<1> QED BY <1>1, <1>2, PTL DEF Spec

-------------------------------------------------------------------------------

\* Nodes have parents, and caches the nodes of their levels (TypeOK).
THEOREM TypeCorrect == Spec => []TypeOK
<1>1. CacheInv => TypeOK
  BY DEF CacheInv, RegistryInv, RegistryTyped, CacheTyped, TypeOK
<1> QED BY <1>1, CachesSound, PTL

\* What an operation of a tree may do to the pointers of an accessor.
PointersCleared(a) ==
    \A l \in lost'[a] \ lost[a] :
       \/ \E b \in Accessors : Assign(a, b) /\ l \in lost[b]
       \/ \E t \in Trees, N \in NodeSets : Combine(t, mTree[a], N)
       \/ \E x \in Leaves : mNodes[a][l].at = x /\ AddsLeaf(mTree[a], x)
       \/ \E x \in Leaves, level \in 0 .. RootLevel :
             mNodes[a][l].at \in Deleted(x, level) /\ AddsTile(mTree[a], x, level)

\* The pointers that an operation through an accessor, or one of a tree that clears
\* no accessor, makes dangle are into the nodes it deletes.
LEMMA LostByAdding ==
    ASSUME CacheInv, NEW a \in Accessors, NEW t \in Trees, NEW N, NEW D,
           \/ Directly(t, N, D)
           \/ \E b \in Accessors, S \in SUBSET Cells : mTree[b] = t /\ Through(b, S, N, D),
           NEW l \in lost'[a] \ lost[a]
    PROVE  mTree[a] = t /\ mNodes[a][l].at \in D
<1>1. l \in PointingInto(a, t, D)
  BY DEF Directly, Through
<1> QED BY <1>1, PointersInTree

\* Those that an operation makes dangle that clears the accessors of A first are of
\* other accessors.
LEMMA LostByClearing ==
    ASSUME CacheInv, NEW a \in Accessors, NEW A, NEW U \in SUBSET Trees, NEW N,
           ClearThenLose(A, U, N), NEW l \in lost'[a] \ lost[a]
    PROVE  a \notin A /\ mTree[a] \in U
<1>1. a \notin A /\ \E u \in U : l \in PointingInto(a, u, nodes[u])
  BY DEF ClearThenLose
<1> QED BY <1>1, PointersInTree

\* Every step of the trees and accessors clears the pointers to a node before the
\* node goes, but for those that ClearedBeforeDeleted names.
LEMMA ClearingStep ==
    ASSUME CacheInv, [Next]_vars, NEW a \in Accessors
    PROVE  PointersCleared(a)
<1> SUFFICES ASSUME NEW l \in lost'[a] \ lost[a]
             PROVE  \/ \E b \in Accessors : Assign(a, b) /\ l \in lost[b]
                    \/ \E t \in Trees, N \in NodeSets : Combine(t, mTree[a], N)
                    \/ \E x \in Leaves : mNodes[a][l].at = x /\ AddsLeaf(mTree[a], x)
                    \/ \E x \in Leaves, level \in 0 .. RootLevel :
                          mNodes[a][l].at \in Deleted(x, level) /\ AddsTile(mTree[a], x, level)
  BY DEF PointersCleared
<1>1. /\ lost \in [Accessors -> SUBSET CacheLevels]
      /\ mTree \in [Accessors -> Trees \union {None}]
      /\ \A u \in Trees, b \in Accessors : mTree[b] = u => b \in Registered(u)
      /\ RootLevel \in Nat
  BY NodesNested DEF CacheInv, CacheTyped, RegistryInv, RegistryTyped, RegistryExact, Registered
<1>2. ASSUME NEW b \in Accessors, AccessorOp(b),
             NEW x \in Leaves
      PROVE  /\ x \in Cells /\ mTree[b] \in Trees
             /\ \A hits, low : Branch(x, hits, low) \in SUBSET Cells
  BY <1>1, <1>2, NodesNested DEF AccessorOp, Leaves, Branch
<1>3. ASSUME NEW b \in Accessors, AccessorOp(b), NEW x \in Leaves, NEW level \in 0 .. RootLevel,
             Lookup(b, x, level) \/ Write(b, x, level)
      PROVE  FALSE
  <2>1. PICK S \in SUBSET Cells : \E N : Through(b, S, N, {})
    <3>1. ASSUME NEW hits, NEW low, NEW M PROVE Branch(x, hits, low) \intersect M \in SUBSET Cells
      BY <1>2, <1>3
    <3> QED BY <1>3, <3>1 DEF Lookup, Write
  <2>2. PICK N : Through(b, S, N, {})
    BY <2>1
  <2>3. mTree[b] \in Trees
    BY <1>2, <1>3
  <2>4. mNodes[a][l].at \in {}
    BY <2>2, <2>3, LostByAdding
  <2> QED BY <2>4
<1>4. ASSUME NEW b \in Accessors, AccessorOp(b), NEW x \in Leaves, AddLeaf(b, x)
      PROVE  mNodes[a][l].at = x /\ AddsLeaf(mTree[a], x)
  <2>1. mTree[b] \in Trees /\ \A hits, low : Branch(x, hits, low) \in SUBSET Cells
    BY <1>2, <1>4
  <2>2. PICK S \in SUBSET Cells : \E N : Through(b, S, N, {x})
    BY <1>4, <2>1 DEF AddLeaf
  <2>3. PICK N : Through(b, S, N, {x})
    BY <2>2
  <2>4. mTree[a] = mTree[b] /\ mNodes[a][l].at \in {x}
    BY <2>1, <2>3, LostByAdding
  <2> QED BY <1>4, <2>4 DEF AddsLeaf
<1>5. ASSUME NEW b \in Accessors, AccessorOp(b), NEW x \in Leaves, NEW level \in 0 .. RootLevel,
             AddTile(b, x, level)
      PROVE  mNodes[a][l].at \in Deleted(x, level) /\ AddsTile(mTree[a], x, level)
  <2>1. ~ UNCHANGED vars
    BY DEF vars
  <2>2. mTree[b] \in Trees /\ \A hits, low : Branch(x, hits, low) \in SUBSET Cells
    BY <1>2, <1>5
  <2>3. PICK S \in SUBSET Cells : \E N : Through(b, S, N, Deleted(x, level))
    BY <1>5, <2>1, <2>2 DEF AddTile
  <2>4. PICK N : Through(b, S, N, Deleted(x, level))
    BY <2>3
  <2>5. mTree[a] = mTree[b] /\ mNodes[a][l].at \in Deleted(x, level)
    BY <2>2, <2>4, LostByAdding
  <2> QED BY <1>5, <2>5 DEF AddsTile
<1>6. ASSUME NEW b \in Accessors, AccessorLife(b)
      PROVE  \E c \in Accessors : Assign(a, c) /\ l \in lost[c]
  <2>1. ASSUME NEW c \in Accessors, Assign(b, c) PROVE b = a /\ l \in lost[c]
    BY <1>1, <2>1 DEF Assign
  <2>2. ASSUME NEW t \in Trees, Construct(b, t) PROVE FALSE
    BY <1>1, <2>2 DEF Construct
  <2>3. CASE Destruct(b)
    BY <1>1, <2>3 DEF Destruct
  <2>4. ASSUME NEW L, Erase(b, L) PROVE FALSE
    BY <1>1, <2>4 DEF Erase
  <2> QED BY <1>6, <2>1, <2>2, <2>3, <2>4 DEF AccessorLife
<1>7. ASSUME NEW t \in Trees, NEW u \in Trees, NEW N \in NodeSets, NEW M \in NodeSets,
             Rebuild(t, N) \/ Merge(t, u, N, M) \/ Delete(t)
      PROVE  FALSE
  <2>1. CASE Rebuild(t, N) \/ Delete(t)
    <3>1. PICK F : ClearThenLose(Registered(t), {t}, F)
      BY <2>1 DEF Rebuild, Delete
    <3>2. a \notin Registered(t) /\ mTree[a] \in {t}
      <4>1. {t} \in SUBSET Trees
        OBVIOUS
      <4> QED BY <3>1, <4>1, LostByClearing
    <3> QED BY <1>1, <3>2
  <2>2. CASE Merge(t, u, N, M)
    <3>1. PICK A, U, F : /\ A = Registered(t) \union Registered(u) /\ U = {t, u}
                         /\ ClearThenLose(A, U, F)
      BY <2>2 DEF Merge
    <3>2. U \in SUBSET Trees
      BY <3>1
    <3>3. ClearThenLose(A, U, F)
      BY <3>1
    <3>4. a \notin A /\ mTree[a] \in U
      BY <3>2, <3>3, LostByClearing
    <3> QED BY <1>1, <3>1, <3>4
  <2> QED BY <1>7, <2>1, <2>2
<1>8. ASSUME NEW t \in Trees, NEW u \in Trees, NEW N \in NodeSets, Combine(t, u, N)
      PROVE  Combine(t, mTree[a], N)
  <2>1. PICK F : ClearThenLose(Registered(t), {t, u}, F)
    BY <1>8 DEF Combine
  <2>2. a \notin Registered(t) /\ mTree[a] \in {t, u}
    <3>1. {t, u} \in SUBSET Trees
      OBVIOUS
    <3> QED BY <2>1, <3>1, LostByClearing
  <2> QED BY <1>1, <1>8, <2>2
<1>9. ASSUME NEW t \in Trees, NEW N, Directly(t, N, {})
      PROVE  FALSE
  BY <1>9, LostByAdding
<1>10. ASSUME NEW t \in Trees, NEW x \in Leaves, TreeAddLeaf(t, x)
       PROVE  mNodes[a][l].at = x /\ AddsLeaf(mTree[a], x)
  <2>1. mTree[a] = t /\ mNodes[a][l].at \in {x}
    BY <1>10, LostByAdding DEF TreeAddLeaf
  <2> QED BY <1>10, <2>1 DEF AddsLeaf
<1>11. ASSUME NEW t \in Trees, NEW x \in Leaves, NEW level \in 0 .. RootLevel, TreeAddTile(t, x, level)
       PROVE  mNodes[a][l].at \in Deleted(x, level) /\ AddsTile(mTree[a], x, level)
  <2>1. mTree[a] = t /\ mNodes[a][l].at \in Deleted(x, level)
    BY <1>11, LostByAdding DEF TreeAddTile
  <2> QED BY <1>11, <2>1 DEF AddsTile
<1>12. CASE UNCHANGED vars
  BY <1>12 DEF vars
<1>13. ASSUME NEW b \in Accessors, AccessorOp(b)
       PROVE  \/ \E x \in Leaves : mNodes[a][l].at = x /\ AddsLeaf(mTree[a], x)
              \/ \E x \in Leaves, level \in 0 .. RootLevel :
                    mNodes[a][l].at \in Deleted(x, level) /\ AddsTile(mTree[a], x, level)
  <2>1. PICK x \in Leaves :
           \/ \E level \in 0 .. RootLevel - 1 : Lookup(b, x, level)
           \/ \E level \in 0 .. RootLevel : Write(b, x, level) \/ AddTile(b, x, level)
           \/ AddLeaf(b, x)
    BY <1>13 DEF AccessorOp
  <2>2. \A level \in 0 .. RootLevel - 1 : level \in 0 .. RootLevel
    BY <1>1
  <2> QED BY <1>3, <1>4, <1>5, <1>13, <2>1, <2>2
<1>14. ASSUME NEW t \in Trees, TreeOp(t)
       PROVE  \/ \E N \in NodeSets : Combine(t, mTree[a], N)
              \/ \E x \in Leaves : mNodes[a][l].at = x /\ AddsLeaf(mTree[a], x)
              \/ \E x \in Leaves, level \in 0 .. RootLevel :
                    mNodes[a][l].at \in Deleted(x, level) /\ AddsTile(mTree[a], x, level)
  <2>1. {} \in NodeSets
    BY DEF NodeSets
  <2> QED BY <1>7, <1>8, <1>9, <1>10, <1>11, <1>14, <2>1 DEF TreeOp
<1> QED BY <1>6, <1>12, <1>13, <1>14 DEF Next

\* However many accessors and trees there are, and whatever is called: a pointer of
\* an accessor begins to dangle only if addLeaf or addTile deletes its node, or
\* combine takes it (Tree::clearAllAccessors is called in time everywhere else).
THEOREM NoDangling == Spec => ClearedBeforeDeleted
<1>1. CacheInv /\ [Next]_vars
         => [\A a \in Accessors : \A l \in lost'[a] \ lost[a] :
               \/ \E b \in Accessors : Assign(a, b) /\ l \in lost[b]
               \/ \E t \in Trees, N \in NodeSets : Combine(t, mTree[a], N)
               \/ \E x \in Leaves : mNodes[a][l].at = x /\ AddsLeaf(mTree[a], x)
               \/ \E x \in Leaves, level \in 0 .. RootLevel :
                     mNodes[a][l].at \in Deleted(x, level) /\ AddsTile(mTree[a], x, level)]_vars
  BY ClearingStep DEF PointersCleared
<1> QED BY <1>1, CachesSound, PTL DEF Spec, ClearedBeforeDeleted

\* Operations through an accessor that start at a node that is there find and leave
\* the nodes that the operations of its tree would, for every set of cached levels
\* and whatever other pointers dangle (ValueAccessorImpl).
THEOREM Agreement == Spec => []AccessorsAgree
<1>1. CacheInv => AccessorsAgree
  <2> SUFFICES ASSUME CacheInv, NEW a \in Accessors, mTree[a] # None, NEW x \in Leaves
               PROVE  LET N == nodes[mTree[a]] IN
                      /\ \A level \in 0 .. RootLevel - 1 :
                            SafeStart(a, Hits(a, x, level)) =>
                                Above[x] \ Branch(x, Hits(a, x, level), 0) \subseteq N
                      /\ SafeStart(a, Hits(a, x, 0)) =>
                            \A level \in 0 .. RootLevel :
                                Densified(N, x, Hits(a, x, 0), level) = Densified(N, x, {}, level)
                      /\ SafeStart(a, Hits(a, x, 1)) =>
                            /\ Densified(N, x, Hits(a, x, 1), 0) = Densified(N, x, {}, 0)
                            /\ \A level \in 0 .. RootLevel :
                                  (\A l \in CacheLevels : l >= 1 => level <= l) =>
                                      Tiled(N, x, Hits(a, x, 1), level) = Tiled(N, x, {}, level)
    BY DEF AccessorsAgree
  <2> DEFINE N == nodes[mTree[a]]
  <2>1. N \in NodeSets /\ x \in Cells /\ RootLevel \in Nat
    BY NodesNested DEF CacheInv, RegistryInv, RegistryTyped, CacheTyped, Leaves
  <2>2. \A from \in Nat : SafeStart(a, Hits(a, x, from)) =>
           /\ Hits(a, x, from) \in SUBSET CacheLevels
           /\ BranchThere(N, x, Hits(a, x, from))
    BY <2>1, StartsAtNode
  <2>3. \A from, level \in Nat : SafeStart(a, Hits(a, x, from)) =>
           Densified(N, x, Hits(a, x, from), level) = Densified(N, x, {}, level)
    BY <2>1, <2>2, DensifiedNested
  <2>4. ASSUME SafeStart(a, Hits(a, x, 1)),
               NEW level \in 0 .. RootLevel, \A l \in CacheLevels : l >= 1 => level <= l
        PROVE  Tiled(N, x, Hits(a, x, 1), level) = Tiled(N, x, {}, level)
    <3>1. Reaches(Hits(a, x, 1), level) /\ Reaches({}, level)
      BY <2>1, <2>4, CachesTyped DEF Reaches, Hits
    <3>2. Densified(N, x, Hits(a, x, 1), level) = Densified(N, x, {}, level)
      BY <2>1, <2>3, <2>4
    <3> QED BY <3>1, <3>2 DEF Tiled
  <2>5. \A level \in 0 .. RootLevel - 1 : SafeStart(a, Hits(a, x, level)) =>
           Above[x] \ Branch(x, Hits(a, x, level), 0) \subseteq N
    BY <2>1, <2>2 DEF BranchThere
  <2>6. \A level \in 0 .. RootLevel : level \in Nat
    BY <2>1
  <2> HIDE DEF N
  <2> QED BY <2>3, <2>4, <2>5, <2>6 DEF N
<1> QED BY <1>1, CachesSound, PTL
===============================================================================
