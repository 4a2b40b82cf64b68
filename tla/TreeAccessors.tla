----------------------------- MODULE TreeAccessors ----------------------------
(***************************************************************************)
(* The caching accessors of a tree: tree::ValueAccessorImpl, its base      *)
(* ValueAccessorBase, and the registry of accessors in tree::Tree.         *)
(*                                                                         *)
(* An accessor remembers, for every level of nodes that it caches, the     *)
(* node it went through last and the cube of index space that the node     *)
(* covers.  The next operation starts at the lowest remembered node whose  *)
(* cube has the coordinate, or at the root node.  A tree keeps a registry  *)
(* of its accessors, to clear them before it deletes nodes.                *)
(*                                                                         *)
(* A tree is here the set of the nodes below its root node, a node the     *)
(* cell it stands for, and a coordinate the leaf cell it lies in.  What    *)
(* the nodes hold is the subject of VoxelTree.                             *)
(*                                                                         *)
(* Not every deletion clears the accessors: addLeaf, addTile and combine   *)
(* leave pointers to nodes that are gone.  What an operation that starts   *)
(* at such a pointer does is undefined, and it is no step; accessors whose *)
(* other pointers are good go on, and are cleared, assigned and destroyed. *)
(***************************************************************************)
EXTENDS Integers

CONSTANTS Trees,        \* the trees
          Accessors,    \* the accessors
          Cells,        \* the cells that nodes stand for
          Above,        \* Above[c]: the cells that c lies in, c included
          Level,        \* Level[c]: the LEVEL of the node at c, 0 for a leaf
          RootLevel,    \* the LEVEL of the root node
          CacheLevels,  \* the levels that the accessors cache
          None          \* the null pointer

VARIABLES nodes,              \* the nodes of every tree
          mAccessorRegistry,  \* both registries of Tree, for accessors and const accessors
          mTree,              \* ValueAccessorBase::mTree
          mNodes,             \* mKeys and mNodes: for every level, the tree and cell of a node
          lost                \* the levels whose pointer is to a node that is no longer there

vars == <<nodes, mAccessorRegistry, mTree, mNodes, lost>>

ASSUME NodesNested ==
    /\ RootLevel \in Nat /\ RootLevel > 1
    /\ Level \in [Cells -> 0 .. RootLevel - 1]
    /\ Above \in [Cells -> SUBSET Cells]
    /\ \A c \in Cells :
          /\ c \in Above[c]
          /\ \A d \in Above[c] : Above[d] \subseteq Above[c]
          /\ \A d \in Above[c] \ {c} : Level[d] > Level[c]
          /\ \A d, e \in Above[c] : d \in Above[e] \/ e \in Above[d]

ASSUME CachesTyped ==
    /\ CacheLevels \subseteq 0 .. RootLevel - 1
    /\ None \notin Trees
    /\ None \notin [tree : Trees, at : Cells]

Leaves == {c \in Cells : Level[c] = 0}
Node == [tree : Trees, at : Cells]
Within == [c \in Cells |-> {d \in Cells : c \in Above[d]}]
NodeSets == {N \in SUBSET Cells : \A c \in N : Above[c] \subseteq N}

NothingCached == [l \in CacheLevels |-> None]

-------------------------------------------------------------------------------
(* Where an operation starts, and what it does to nodes and cache.         *)

\* Mutant of IsHashed: the key is compared without the level's dimension, so a
\* leaf matches every coordinate of its parent.
IsHashedCoarsely(a, x, l) ==
    /\ mNodes[a][l] # None
    /\ \E d \in Above[x] : d \in Above[mNodes[a][l].at]

IsHashed(a, x, l) == mNodes[a][l] # None /\ mNodes[a][l].at \in Above[x]

\* The cached levels from the given one upwards whose node has x below it.  An
\* operation is passed to the lowest of these nodes (evalFirstCached), and to the
\* root node if there is none.
Hits(a, x, from) == {l \in CacheLevels : l >= from /\ IsHashed(a, x, l)}

\* The pointer that the operation starts at is to a node that is there, or there is
\* none.
SafeStart(a, hits) == hits = {} \/ \E l \in hits \ lost[a] : \A m \in hits : l <= m

\* The cells of the nodes that lead from below that node down to the level low.
Branch(x, hits, low) == {d \in Above[x] : low <= Level[d] /\ \A l \in hits : Level[d] < l}

\* Mutant of Densified: the child of the node where the operation starts is not made.
DensifiedBelow(N, x, hits, low) == N \union {d \in Branch(x, hits, low) : Level[d] < RootLevel - 1}

\* The nodes N and those that are missing on the branch, made out of tiles.
Densified(N, x, hits, low) == N \union Branch(x, hits, low)

\* Deleting the child of level l - 1 at x, with everything below it.
Deleted(x, l) == UNION {Within[d] : d \in {e \in Above[x] : Level[e] = l - 1}}

\* Does addTileAndCache(level) do anything at the node it is passed to?
Reaches(hits, level) == \A l \in hits : l >= level

Tiled(N, x, hits, level) ==
    IF Reaches(hits, level) THEN Densified(N, x, hits, level) \ Deleted(x, level) ELSE N

\* insert(), for the nodes of S: those of a level that is not cached are ignored.
Inserted(a, S) ==
    [l \in CacheLevels |-> IF \E d \in S : Level[d] = l
                           THEN [tree |-> mTree[a], at |-> CHOOSE d \in S : Level[d] = l]
                           ELSE mNodes[a][l]]

\* The levels of the accessor b that point into the nodes D of the tree t.
PointingInto(b, t, D) ==
    {l \in CacheLevels : mNodes[b][l] # None /\ mNodes[b][l].tree = t /\ mNodes[b][l].at \in D}

-------------------------------------------------------------------------------
(* Operations through an accessor.                                         *)

\* The accessor a inserts S, in a tree whose nodes become N and lose those of D.
Through(a, S, N, D) ==
    /\ nodes' = [nodes EXCEPT ![mTree[a]] = N]
    /\ mNodes' = [mNodes EXCEPT ![a] = Inserted(a, S)]
    /\ lost' = [b \in Accessors |->
                  (IF b = a THEN lost[b] \ {Level[d] : d \in S} ELSE lost[b])
                  \union {l \in PointingInto(b, mTree[a], D) :
                            b # a \/ l \notin {Level[d] : d \in S}}]
    /\ UNCHANGED <<mAccessorRegistry, mTree>>

\* getValue, isValueOn, probeValue, getValueDepth (level 0), and probeNode of a
\* node type of the given level.
Lookup(a, x, level) ==
    LET hits == Hits(a, x, level)
    IN  /\ SafeStart(a, hits)
        /\ Through(a, Branch(x, hits, level) \intersect nodes[mTree[a]], nodes[mTree[a]], {})

\* setValue, setValueOnly, setValueOff, setActiveState, modifyValue and
\* modifyValueAndActiveState make the nodes down to some level, by what they find
\* there (RootLevel: none); touchLeaf makes them all.
Write(a, x, level) ==
    LET hits == Hits(a, x, 0)
        N == Densified(nodes[mTree[a]], x, hits, level)
    IN  /\ SafeStart(a, hits)
        /\ Through(a, Branch(x, hits, 0) \intersect N, N, {})

\* addLeaf starts above the leaves; a leaf that is there is deleted, and the new one
\* is not cached.
AddLeaf(a, x) ==
    LET hits == Hits(a, x, 1) IN
    /\ SafeStart(a, hits)
    /\ Through(a, Branch(x, hits, 1), Densified(nodes[mTree[a]], x, hits, 0), {x})

\* addTile starts above the leaves too, and deletes the nodes below the tile.
AddTile(a, x, level) ==
    LET hits == Hits(a, x, 1)
        N == nodes[mTree[a]]
    IN  /\ SafeStart(a, hits)
        /\ IF Reaches(hits, level)
           THEN Through(a, Branch(x, hits, level), Tiled(N, x, hits, level), Deleted(x, level))
           ELSE UNCHANGED vars

AccessorOp(a) ==
    /\ mTree[a] # None
    /\ \E x \in Leaves :
          \/ \E level \in 0 .. RootLevel - 1 : Lookup(a, x, level)
          \/ \E level \in 0 .. RootLevel : Write(a, x, level) \/ AddTile(a, x, level)
          \/ AddLeaf(a, x)

-------------------------------------------------------------------------------
(* The life of an accessor.                                                *)

\* The constructor attaches the accessor and clears it.
Construct(a, t) ==
    /\ mTree[a] = None
    /\ mTree' = [mTree EXCEPT ![a] = t]
    /\ mAccessorRegistry' = [mAccessorRegistry EXCEPT ![t] = @ \union {a}]
    /\ mNodes' = [mNodes EXCEPT ![a] = NothingCached]
    /\ lost' = [lost EXCEPT ![a] = {}]
    /\ UNCHANGED nodes

\* Mutant of Reregistered: the copy is attached to the new tree and not released
\* from the old one.
AttachedOnly(a, t) ==
    [u \in Trees |-> IF u = t THEN mAccessorRegistry[u] \union {a} ELSE mAccessorRegistry[u]]

\* operator= releases the accessor from its tree and attaches it to the other's.
Reregistered(a, t) ==
    [u \in Trees |-> IF u = t THEN mAccessorRegistry[u] \union {a}
                     ELSE mAccessorRegistry[u] \ {a}]

\* Assignment, and copy construction where a has no tree yet.
Assign(a, b) ==
    /\ a # b
    /\ mAccessorRegistry' = Reregistered(a, mTree[b])
    /\ mTree' = [mTree EXCEPT ![a] = mTree[b]]
    /\ mNodes' = [mNodes EXCEPT ![a] = mNodes[b]]
    /\ lost' = [lost EXCEPT ![a] = lost[b]]
    /\ UNCHANGED nodes

Destruct(a) ==
    /\ mTree[a] # None
    /\ mAccessorRegistry' = [mAccessorRegistry EXCEPT ![mTree[a]] = @ \ {a}]
    /\ mTree' = [mTree EXCEPT ![a] = None]
    /\ mNodes' = [mNodes EXCEPT ![a] = NothingCached]
    /\ lost' = [lost EXCEPT ![a] = {}]
    /\ UNCHANGED nodes

\* eraseNode() of some levels, and clear() of all.
Erase(a, L) ==
    /\ mNodes' = [mNodes EXCEPT ![a] = [l \in CacheLevels |-> IF l \in L THEN None ELSE @[l]]]
    /\ lost' = [lost EXCEPT ![a] = @ \ L]
    /\ UNCHANGED <<nodes, mAccessorRegistry, mTree>>

AccessorLife(a) ==
    \/ \E t \in Trees : Construct(a, t)
    \/ \E b \in Accessors : Assign(a, b)
    \/ Destruct(a)
    \/ \E l \in CacheLevels : Erase(a, {l})
    \/ Erase(a, CacheLevels)

-------------------------------------------------------------------------------
(* Operations of trees.                                                    *)

\* The accessors in A are cleared; then the nodes of D, of the tree t, are gone.
\* They may all be: an operation that keeps some leaves fewer pointers lost.
ClearThenLose(A, U, N) ==
    /\ nodes' = N
    /\ mNodes' = [b \in Accessors |-> IF b \in A THEN NothingCached ELSE mNodes[b]]
    /\ lost' = [b \in Accessors |->
                  IF b \in A THEN {}
                  ELSE lost[b] \union UNION {PointingInto(b, u, nodes[u]) : u \in U}]

\* The accessors that clearAllAccessors() clears.
Registered(t) == mAccessorRegistry[t]

\* stealNode(s), clear, prune, clip, sparseFill, denseFill, voxelizeActiveTiles,
\* topologyUnion, topologyIntersection, topologyDifference, combine2, the read
\* functions: whatever nodes they leave, they clear the accessors first.
Rebuild(t, N) ==
    /\ ClearThenLose(Registered(t), {t}, [nodes EXCEPT ![t] = N])
    /\ UNCHANGED <<mAccessorRegistry, mTree>>

\* Mutant of Merge: the accessors of the other tree are not cleared.
MergeOneSided(t, u, N, M) ==
    /\ t # u
    /\ ClearThenLose(Registered(t), {t, u}, [nodes EXCEPT ![t] = N, ![u] = M])
    /\ UNCHANGED <<mAccessorRegistry, mTree>>

\* merge() takes nodes of the other tree and clears the accessors of both.
Merge(t, u, N, M) ==
    /\ t # u
    /\ ClearThenLose(Registered(t) \union Registered(u), {t, u},
                     [nodes EXCEPT ![t] = N, ![u] = M])
    /\ UNCHANGED <<mAccessorRegistry, mTree>>

\* combine() takes nodes of the other tree too, and leaves it empty, but clears
\* only the accessors of the tree it is called on.
Combine(t, u, N) ==
    /\ t # u
    /\ ClearThenLose(Registered(t), {t, u}, [nodes EXCEPT ![t] = N, ![u] = {}])
    /\ UNCHANGED <<mAccessorRegistry, mTree>>

\* ~Tree() clears the tree and releases its accessors.
Delete(t) ==
    /\ ClearThenLose(Registered(t), {t}, [nodes EXCEPT ![t] = {}])
    /\ mTree' = [a \in Accessors |-> IF a \in Registered(t) THEN None ELSE mTree[a]]
    /\ mAccessorRegistry' = [mAccessorRegistry EXCEPT ![t] = {}]

\* setValue and the like, touchLeaf, addLeaf and addTile of the tree make the
\* same nodes as an accessor that has nothing cached, and clear no accessor.
Directly(t, N, D) ==
    /\ nodes' = [nodes EXCEPT ![t] = N]
    /\ lost' = [b \in Accessors |-> lost[b] \union PointingInto(b, t, D)]
    /\ UNCHANGED <<mAccessorRegistry, mTree, mNodes>>

TreeAddLeaf(t, x) == Directly(t, Densified(nodes[t], x, {}, 0), {x})

TreeAddTile(t, x, level) == Directly(t, Tiled(nodes[t], x, {}, level), Deleted(x, level))

TreeOp(t) ==
    \/ \E N \in NodeSets : Rebuild(t, N)
    \/ \E u \in Trees : \E N, M \in NodeSets : Merge(t, u, N, M)
    \/ \E u \in Trees : \E N \in NodeSets : Combine(t, u, N)
    \/ Delete(t)
    \/ \E x \in Leaves :
          \/ \E level \in 0 .. RootLevel - 1 :
                Directly(t, Densified(nodes[t], x, {}, level), {})
          \/ TreeAddLeaf(t, x)
          \/ \E level \in 0 .. RootLevel : TreeAddTile(t, x, level)

-------------------------------------------------------------------------------

Init == /\ nodes = [t \in Trees |-> {}]
        /\ mAccessorRegistry = [t \in Trees |-> {}]
        /\ mTree = [a \in Accessors |-> None]
        /\ mNodes = [a \in Accessors |-> NothingCached]
        /\ lost = [a \in Accessors |-> {}]

Next == \/ \E a \in Accessors : AccessorOp(a) \/ AccessorLife(a)
        \/ \E t \in Trees : TreeOp(t)

Spec == Init /\ [][Next]_vars

-------------------------------------------------------------------------------
(* Properties.                                                             *)

\* The types of the variables: every node has its parent (setChildNode), a
\* cached node is of the level it is cached under (insert), and no pointer is
\* lost that is null.
TypeOK ==
    /\ nodes \in [Trees -> NodeSets]
    /\ mAccessorRegistry \in [Trees -> SUBSET Accessors]
    /\ mTree \in [Accessors -> Trees \union {None}]
    /\ mNodes \in [Accessors -> [CacheLevels -> Node \union {None}]]
    /\ lost \in [Accessors -> SUBSET CacheLevels]
    /\ \A a \in Accessors, l \in CacheLevels :
          IF mNodes[a][l] = None THEN l \notin lost[a] ELSE Level[mNodes[a][l].at] = l

\* The registry of a tree has exactly the accessors that point to it, through
\* construction, assignment and destruction of accessors and trees
\* (attachAccessor, releaseAccessor, releaseAllAccessors).
RegistryExact == \A t \in Trees : mAccessorRegistry[t] = {a \in Accessors : mTree[a] = t}

\* A node that an accessor has cached is a node of its tree, and still the one it
\* was when it was cached ("Registered accessors are automatically cleared whenever
\* one of this tree's nodes is deleted", Tree).  The code does not keep this:
\* addLeaf and addTile clear no accessor, and combine not those of the other tree.
NoDanglingCache ==
    \A a \in Accessors : \A l \in CacheLevels :
        mNodes[a][l] # None =>
            /\ l \notin lost[a]
            /\ mNodes[a][l].tree = mTree[a]
            /\ mNodes[a][l].at \in nodes[mTree[a]]

\* A leaf, or a tile of some level, is added to t, directly or through an accessor.
AddsLeaf(t, x) == TreeAddLeaf(t, x) \/ \E b \in Accessors : mTree[b] = t /\ AddLeaf(b, x)
AddsTile(t, x, level) ==
    TreeAddTile(t, x, level) \/ \E b \in Accessors : mTree[b] = t /\ AddTile(b, x, level)

\* A pointer begins to dangle in three ways and no other: the leaf it points to is
\* replaced by addLeaf, the node it points to lies below a tile that addTile puts in
\* place of nodes, or another tree has combined with the tree and taken its nodes.
\* Every other operation that deletes nodes, or moves them to another tree, has
\* cleared all accessors with pointers to them first, whichever accessors those are
\* by then; and a copy of an accessor has the pointers of the original.
ClearedBeforeDeleted ==
    [][\A a \in Accessors : \A l \in lost'[a] \ lost[a] :
          \/ \E b \in Accessors : Assign(a, b) /\ l \in lost[b]
          \/ \E t \in Trees, N \in NodeSets : Combine(t, mTree[a], N)
          \/ \E x \in Leaves : mNodes[a][l].at = x /\ AddsLeaf(mTree[a], x)
          \/ \E x \in Leaves, level \in 0 .. RootLevel :
                mNodes[a][l].at \in Deleted(x, level) /\ AddsTile(mTree[a], x, level)]_vars

\* Through an accessor, whatever it has cached, an operation that starts at a node
\* that is there finds and leaves the nodes that the operation of the tree would,
\* also if other pointers of the accessor dangle: a lookup finds the nodes of the
\* branch, a write makes the missing ones, and addLeaf and addTile (of a level
\* that every start can reach) do what they do from the root.
AccessorsAgree ==
    \A a \in Accessors : mTree[a] # None =>
        LET N == nodes[mTree[a]] IN
        \A x \in Leaves :
            /\ \A level \in 0 .. RootLevel - 1 :
                  SafeStart(a, Hits(a, x, level)) =>
                      Above[x] \ Branch(x, Hits(a, x, level), 0) \subseteq N
            /\ SafeStart(a, Hits(a, x, 0)) =>
                  \A level \in 0 .. RootLevel :
                      Densified(N, x, Hits(a, x, 0), level) = Densified(N, x, {}, level)
            /\ SafeStart(a, Hits(a, x, 1)) =>
                  /\ Densified(N, x, Hits(a, x, 1), 0) = Densified(N, x, {}, 0)
                  /\ \A level \in 0 .. RootLevel :
                        (\A l \in CacheLevels : l >= 1 => level <= l) =>
                            Tiled(N, x, Hits(a, x, 1), level) = Tiled(N, x, {}, level)
===============================================================================
