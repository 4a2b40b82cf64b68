---------------------------- MODULE TreeIterators ----------------------------
(***************************************************************************)
(* The iterators of tree/TreeIterator.h over the tiles and voxels, over    *)
(* the nodes and over the leaf nodes of a tree, and IteratorRange, which   *)
(* shares one of them out among threads.                                   *)
(*                                                                         *)
(* An iterator is a list of iterators over one node each, one for every    *)
(* level, of which those from the present level up are in use.  A value    *)
(* iterator has two such lists, of which one goes along the children of    *)
(* the nodes, the other along their values.  The position of an iterator   *)
(* over a node is the cell of its entry, or End.                           *)
(***************************************************************************)
EXTENDS VoxelTree, Sequences

CONSTANTS Offset,       \* Offset[c]: the offset of the entry for c in its node
          Root,         \* the root node
          End,          \* the position of an iterator that is exhausted
          GrainSize,    \* what a range must hold more of, to be split
          Trees,        \* the trees to iterate over
          MaxChanges    \* bound on changes of depth bounds and of values

VARIABLES iters,        \* the iterator, or the iterators of the ranges
          sizes,        \* IteratorRange::mSize, <<>> if there are no ranges
          left,         \* what the iterators visit if they are run on: an auxiliary variable
          changes       \* the changes so far

iterVars == <<vars, iters, sizes, left, changes>>

Levels == 0 .. RootLevel
ValueKinds == {"on", "off", "all"}
Iterators == [kind : ValueKinds \union {"node", "leaf"}, level : Levels, low : Levels,
              high : Levels, done : BOOLEAN, node : [Levels -> Cells \union {Root}],
              child : [Levels -> Cells \union {End}], value : [Levels -> Cells \union {End}]]

ASSUME IteratorAssumption ==
    /\ GrainSize \in Nat /\ MaxChanges \in Nat
    /\ Root \notin Cells /\ End \notin Cells
    /\ \A c, d \in Cells : c # d /\ Parents[c] = Parents[d] => Offset[c] # Offset[d]

-------------------------------------------------------------------------------
(* Iterators over the entries of one node.                                 *)

Entries(T, n) == IF n = Root THEN Keys \intersect DOMAIN T ELSE Slots[n]

ChildrenOf(T, n) == {c \in Entries(T, n) : IsChild(T, c)}

\* Those over inactive values of internal nodes stop at children too.
ValuesOf(T, n, kind) ==
    {c \in Entries(T, n) :
        CASE kind = "on"  -> IsTile(T, c) /\ T[c].active
          [] kind = "off" -> IF IsTile(T, c) THEN ~ T[c].active ELSE n # Root
          [] kind = "all" -> IsTile(T, c)
          [] OTHER        -> FALSE}

Precedes(c, d) == c # End /\ (d = End \/ Offset[c] < Offset[d])
Lowest(S) == CHOOSE c \in S \union {End} : \A d \in S : c = d \/ Precedes(c, d)
Following(S, c) == Lowest({d \in S : Precedes(c, d)})

\* IterListItem::next() and down().
NextChild(T, i, l) == [i EXCEPT !.child[l] = Following(ChildrenOf(T, i.node[l]), @)]
NextValue(T, i) ==
    [i EXCEPT !.value[i.level] = Following(ValuesOf(T, i.node[i.level], i.kind), @)]

Enter(T, i, n, l) ==
    [i EXCEPT !.level = l, !.node[l] = n, !.child[l] = Lowest(ChildrenOf(T, n)),
              !.value[l] = Lowest(ValuesOf(T, n, i.kind))]
Down(T, i) == Enter(T, i, i.child[i.level], i.level - 1)

\* An iterator as it is constructed, at the root node.
AtRoot(T, kind) ==
    Enter(T, [kind |-> kind, level |-> RootLevel, low |-> 0, high |-> RootLevel, done |-> FALSE,
              node |-> [l \in Levels |-> Root], child |-> [l \in Levels |-> End],
              value |-> [l \in Levels |-> End]], Root, RootLevel)

-------------------------------------------------------------------------------
(* TreeValueIteratorBase.                                                  *)

\* The iterator over values moves past the child that is next.
SkipChild(T, i) ==
    LET skip[j \in Iterators] ==
            IF j.value[j.level] = j.child[j.level] THEN NextValue(T, j) ELSE j
    IN  skip[i]

\* Mutant of PassChild: the iterator over values may stop at the child after that.
PassChildOnly(T, i) == NextChild(T, i, i.level)

\* At the lowest level, children are passed.
PassChild(T, i) == SkipChild(T, NextChild(T, i, i.level))

\* Down to the level where the next value comes before the next child.
DescendedValue(T, i) ==
    LET descend[j \in Iterators] ==
            IF ~ Precedes(j.child[j.level], j.value[j.level]) THEN j
            ELSE IF j.level = j.low THEN descend[PassChild(T, j)]
            ELSE descend[SkipChild(T, Down(T, j))]
    IN  descend[i]

Exhausted(i) == i.child[i.level] = End /\ i.value[i.level] = End

\* Up to the nearest level where something is left.
Ascended(T, i) ==
    LET ascend[j \in Iterators] ==
            IF j.level = RootLevel \/ ~ Exhausted(j) THEN j
            ELSE ascend[NextChild(T, [j EXCEPT !.level = @ + 1], j.level + 1)]
    IN  ascend[i]

\* From a position to the value that comes next there, at any level.
Settled(T, i) ==
    LET settle[j \in Iterators] ==
            IF ~ Exhausted(j) \/ j.level = RootLevel THEN j
            ELSE settle[DescendedValue(T, SkipChild(T, Ascended(T, j)))]
    IN  settle[DescendedValue(T, i)]

\* advance(): past the value, or else to the next child.
Advanced(T, i) ==
    LET next[s \in Iterators] == IF Precedes(s.value[s.level], s.child[s.level])
                                THEN SkipChild(T, NextValue(T, s)) ELSE NextChild(T, s, s.level)
    IN  Settled(T, next[SkipChild(T, i)])

NextValueWithin(T, i) ==
    LET next[j \in Iterators] ==
            IF Exhausted(j) \/ j.level \in j.low .. j.high THEN j ELSE next[Advanced(T, j)]
    IN  next[Advanced(T, i)]

-------------------------------------------------------------------------------
(* NodeIteratorBase.                                                       *)

NextNode(T, i) ==
    LET ascend[j \in Iterators] ==
            IF j.child[j.level] # End THEN Down(T, j)
            ELSE IF j.level = RootLevel THEN [j EXCEPT !.done = TRUE]
            ELSE ascend[NextChild(T, [j EXCEPT !.level = @ + 1], j.level + 1)]
        next[j \in Iterators] ==
            LET n == IF j.done THEN j ELSE ascend[j]
            IN  IF n.done \/ n.level \in n.low .. n.high THEN n ELSE next[n]
    IN  next[i]

-------------------------------------------------------------------------------
(* LeafIteratorBase.  Its level is that of the loop in next(), and 0 on a  *)
(* leaf node.                                                              *)

DescendedLeaf(T, i, lowest) ==
    LET descend[j \in Iterators] ==
            IF j.level > lowest /\ j.child[j.level] # End THEN descend[Down(T, j)] ELSE j
    IN  descend[i]

\* From a branch that has ended at its level, to the next one that has a leaf node.
NextBranch(T, i) ==
    LET ascend[j \in Iterators] ==
            IF j.child[j.level] # End \/ j.level = RootLevel THEN j
            ELSE ascend[NextChild(T, [j EXCEPT !.level = @ + 1], j.level + 1)]
        branch[j \in Iterators] ==
            IF j.child[1] # End THEN Down(T, j)
            ELSE LET u == ascend[j]
                 IN  IF u.child[u.level] = End THEN u ELSE branch[DescendedLeaf(T, u, 1)]
    IN  branch[i]

NextLeaf(T, i) == NextBranch(T, NextChild(T, [i EXCEPT !.level = 1], 1))

-------------------------------------------------------------------------------
Start(T, kind) ==
    LET i == AtRoot(T, kind)
        first == DescendedLeaf(T, i, 0)
    IN  CASE kind \in ValueKinds -> Settled(T, SkipChild(T, i))
          [] kind = "node" -> i
          [] kind = "leaf" -> IF first.level = 0 THEN first ELSE NextLeaf(T, first)

NextItem(T, i) == CASE i.kind \in ValueKinds -> NextValueWithin(T, i)
                    [] i.kind = "node" -> NextNode(T, i)
                    [] i.kind = "leaf" -> NextLeaf(T, i)

\* test(), and the tile, voxel or node that the iterator points to.
Test(i) == CASE i.kind \in ValueKinds -> i.value[i.level] # End
             [] i.kind = "node" -> ~ i.done
             [] i.kind = "leaf" -> i.child[1] # End
Item(i) == IF i.kind \in ValueKinds THEN i.value[i.level] ELSE i.node[i.level]

\* What an iterator visits in its next n steps, or in all of them if n < 0.
Visits(T, i, n) ==
    LET rest[j \in Iterators, m \in Int] ==
            IF Test(j) /\ m # 0 THEN <<Item(j)>> \o rest[NextItem(T, j), m - 1] ELSE <<>>
    IN  rest[i, n]

-------------------------------------------------------------------------------
Ranged == sizes # <<>>

\* What is left follows from the iterators and the sizes of ranges.
Counted ==
    /\ left' = [p \in DOMAIN iters' |-> Visits(tree', iters'[p], IF Ranged' THEN sizes'[p] ELSE -1)]
    /\ UNCHANGED mBackground

IterInit ==
    /\ tree \in Trees /\ mBackground = Background
    /\ iters = <<>> /\ sizes = <<>> /\ left = <<>> /\ changes = 0

\* beginValueOn() and so on.
Begin(kind) ==
    /\ iters = <<>> /\ iters' = <<Start(tree, kind)>>
    /\ UNCHANGED <<tree, sizes, changes>> /\ Counted

AtItem(p) == Test(iters[p]) /\ (Ranged => sizes[p] > 0)

Increment(p) ==
    /\ AtItem(p)
    /\ iters' = [iters EXCEPT ![p] = NextItem(tree, @)]
    /\ sizes' = IF Ranged THEN [sizes EXCEPT ![p] = @ - 1] ELSE sizes
    /\ UNCHANGED <<tree, changes>> /\ Counted

Changing == changes < MaxChanges /\ changes' = changes + 1

\* A range does not let the bounds of its iterator be changed.
Bounded == Len(iters) = 1 /\ ~ Ranged /\ iters[1].kind # "leaf"

SetMinDepth(depth) ==
    /\ Bounded /\ Changing
    /\ LET i == [iters[1] EXCEPT !.high = RootLevel - depth]
       IN  iters' = <<IF i.level > i.high THEN NextItem(tree, i) ELSE i>>
    /\ UNCHANGED <<tree, sizes>> /\ Counted

SetMaxDepth(depth) ==
    /\ Bounded /\ Changing
    /\ LET i == [iters[1] EXCEPT !.low = RootLevel - depth]
       IN  iters' = <<IF i.level < i.low THEN NextItem(tree, i) ELSE i>>
    /\ UNCHANGED <<tree, sizes>> /\ Counted

\* setActiveState(), and modifyValue(), which makes voxels active but not tiles.
Change(p, t) ==
    /\ AtItem(p) /\ iters[p].kind \in ValueKinds /\ Changing
    /\ tree' = [tree EXCEPT ![Item(iters[p])] = t]
    /\ UNCHANGED <<iters, sizes>> /\ Counted

SetCurrentState(p, on) == Change(p, [tree[Item(iters[p])] EXCEPT !.active = on])

ModifyCurrent(p, op) ==
    Change(p, [value |-> op[tree[Item(iters[p])].value],
               active |-> iters[p].level = 0 \/ tree[Item(iters[p])].active])

\* IteratorRange counts what is left to visit.
MakeRange ==
    /\ Len(iters) = 1 /\ ~ Ranged
    /\ sizes' = <<Len(Visits(tree, iters[1], -1))>>
    /\ UNCHANGED <<tree, iters, changes>> /\ Counted

Times(T, i, n) == LET skip[k \in 0 .. n] == IF k = 0 THEN i ELSE NextItem(T, skip[k - 1])
                  IN  skip[n]

\* The new range gets the first half, and the other one goes on after it.
Split(p) ==
    /\ Ranged /\ sizes[p] > GrainSize
    /\ LET half == sizes[p] \div 2
       IN  /\ iters' = Append([iters EXCEPT ![p] = Times(tree, @, half)], iters[p])
           /\ sizes' = Append([sizes EXCEPT ![p] = @ - half], half)
    /\ UNCHANGED <<tree, changes>> /\ Counted

IterNext ==
    \/ \E kind \in ValueKinds \union {"node", "leaf"} : Begin(kind)
    \/ \E depth \in Levels : SetMinDepth(depth) \/ SetMaxDepth(depth)
    \/ MakeRange
    \/ \E p \in DOMAIN iters : Increment(p)
    \/ \E p \in DOMAIN iters : Split(p)
    \/ \E p \in DOMAIN iters, on \in BOOLEAN : SetCurrentState(p, on)
    \/ \E p \in DOMAIN iters, op \in ModifyOps : ModifyCurrent(p, op)

IterSpec == IterInit /\ [][IterNext]_iterVars

-------------------------------------------------------------------------------
(* Properties.                                                             *)

Contract == INSTANCE TraversalContract WITH
    bounds <- IF iters = <<>> THEN [kind |-> "leaf", low |-> 0, high |-> RootLevel]
              ELSE [kind |-> iters[1].kind, low |-> iters[1].low, high |-> iters[1].high]

\* Every iterator visits the values, nodes or leaf nodes of the tree in the order of
\* traversal, each once, within the bounds on depths that hold when it moves on,
\* whatever states of visited values are changed; and ranges split it without loss
\* (TreeValueIteratorBase, NodeIteratorBase, LeafIteratorBase, IteratorRange).
KeepsTraversalContract == Contract!Spec
===============================================================================
