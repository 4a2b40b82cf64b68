--------------------------- MODULE PointAttributes ---------------------------
(***************************************************************************)
(* Attributes and groups of trees of points: points::AttributeSet, its     *)
(* Descriptor, and the functions that append, drop, rename and reorder     *)
(* attributes and groups in all leaves of a tree.                          *)
(*                                                                         *)
(* Every leaf has an attribute set: a descriptor, which gives attributes   *)
(* their positions and groups their offsets, and an array per position.    *)
(* Copies of a tree share descriptors and arrays until one of them is      *)
(* changed.  A group is one bit of one of the group arrays: offsets count  *)
(* the bits of all group arrays, in the order of their positions.          *)
(***************************************************************************)
EXTENDS Integers, FiniteSets, SequencesExt

CONSTANTS Trees,          \* trees of points
          Leaves,         \* the leaf nodes of a tree
          PointsIn,       \* the points in each leaf
          Names,          \* names of attributes, numbered in their order as strings
          GroupNames,     \* the names among them that appendGroup() gives to arrays
          Groups,         \* names of groups, numbered in their order as strings
          GroupBits,      \* the bits of an element of a group array
          Values,         \* values of other attributes
          Initial,        \* the value that new arrays are filled with
          InitialDescriptors, \* what trees may start with
          InitialBits,    \* bits that their group arrays may start with
          MaxArrays,      \* bound on the arrays of a set
          MaxChanges      \* bound on the changes of trees

VARIABLES descriptors,    \* the descriptors in use, by address
          attributeSets,  \* per tree and leaf, the address mDescr and the arrays mAttrs
          arrays,         \* the attribute arrays in use, by address
          changes         \* the changes so far

vars == <<descriptors, attributeSets, arrays, changes>>

\* The attribute that is first in every leaf and cannot be dropped, "P".
Position == 0

ASSUME AttributesAssumption ==
    /\ Names \subseteq Nat /\ GroupNames \subseteq Names /\ Groups \subseteq Nat
    /\ Position \in Names \ GroupNames
    /\ GroupBits \in Nat \ {0} /\ Initial \in Values
    /\ IsFiniteSet(Trees) /\ Leaves # {} /\ IsFiniteSet(Leaves)
    \* uniqueName() does not run out of names.
    /\ IsFiniteSet(Groups) /\ IsFiniteSet(GroupNames)
    /\ Cardinality(Groups) <= Cardinality(GroupNames)

LeastOf(S) == CHOOSE n \in S : \A m \in S : n <= m

\* The numbers of S before p, and the number with k of them before it.
Before(S, p) == {q \in S : q < p}
Ranked(S, k) == CHOOSE p \in S : Cardinality(Before(S, p)) = k

With(f, x, v) == [y \in DOMAIN f \union {x} |-> IF y = x THEN v ELSE f[y]]
Without(f, S) == [x \in DOMAIN f \ S |-> f[x]]

-------------------------------------------------------------------------------
(* Descriptors.  names[pos] is the name at a position (the code counts from *)
(* zero), groups[g] the offset of a group.                                  *)

GroupPositions(D) == {pos \in DOMAIN D.names : D.names[pos] \in GroupNames}

Find(D, name) == CHOOSE pos \in DOMAIN D.names : D.names[pos] = name

UnusedGroups(D) == GroupBits * Cardinality(GroupPositions(D)) - Cardinality(DOMAIN D.groups)

Offsets(D) == {D.groups[g] : g \in DOMAIN D.groups}

UnusedGroupOffset(D) == LeastOf((0 .. Cardinality(DOMAIN D.groups)) \ Offsets(D))

\* Attributes have different names and groups different bits, of arrays there are.
WellFormed(D) ==
    /\ IsInjective(D.names) /\ IsInjective(D.groups)
    /\ Offsets(D) \subseteq 0 .. GroupBits * Cardinality(GroupPositions(D)) - 1

\* What a client may start with.
ASSUME InitialAssumption ==
    /\ \A D \in InitialDescriptors :
        /\ D = [names |-> D.names, groups |-> D.groups] /\ WellFormed(D)
        /\ D.names \in Seq(Names) /\ Position \in ToSet(D.names)
        /\ D.groups \in [DOMAIN D.groups -> Nat] /\ DOMAIN D.groups \subseteq Groups
    /\ InitialBits \subseteq SUBSET (0 .. GroupBits - 1)

\* groupIndex(): the position of the array and the bit in it.
GroupArray(D, offset) == Ranked(GroupPositions(D), offset \div GroupBits)

Bit(offset) == offset % GroupBits

\* uniqueName("__group").
UniqueName(D) == LeastOf(GroupNames \ {D.names[pos] : pos \in DOMAIN D.names})

WithGroup(D, g, offset) == [D EXCEPT !.groups = With(@, g, offset)]

WithoutGroups(D, S) == [D EXCEPT !.groups = Without(@, S)]

\* eraseIndices().
Erased(seq, drop) == LET kept == DOMAIN seq \ drop
                     IN  [i \in 1 .. Cardinality(kept) |-> seq[Ranked(kept, i - 1)]]

\* Mutant of DuplicateDrop: the groups of all arrays behind a dropped one go with it.
DuplicateDropBehind(D, drop) ==
    LET kept == {g \in DOMAIN D.groups : GroupArray(D, D.groups[g]) < LeastOf(drop)}
    IN  [names |-> Erased(D.names, drop), groups |-> [g \in kept |-> D.groups[g]]]

\* The groups of dropped arrays go with them, and the offsets of the groups in
\* later arrays follow their arrays.
DuplicateDrop(D, drop) ==
    LET array(g) == GroupArray(D, D.groups[g])
        dropped == GroupPositions(D) \intersect drop
    IN  [names |-> Erased(D.names, drop),
         groups |-> [g \in {h \in DOMAIN D.groups : array(h) \notin drop} |->
                        D.groups[g]
                          - GroupBits * Cardinality(Before(dropped, array(g)))]]

-------------------------------------------------------------------------------
(* A world is everything that the sets of all trees point to.              *)

World == [descriptors |-> descriptors, sets |-> attributeSets, arrays |-> arrays]

Attrs(W, t, l) == W.sets[<<t, l>>].mAttrs

Content(W, t, l, pos) == W.arrays[Attrs(W, t, l)[pos]]

DescriptorOf(W, t, l) == W.descriptors[W.sets[<<t, l>>].mDescr]

\* Functions on trees read the descriptor of the first leaf.
Descriptor(W, t) == DescriptorOf(W, t, CHOOSE l \in Leaves : TRUE)

\* Shared pointers free what no set points to any more.
Settled(W) ==
    LET described == {W.sets[s].mDescr : s \in DOMAIN W.sets}
        stored == UNION {{W.sets[s].mAttrs[i] : i \in DOMAIN W.sets[s].mAttrs} :
                            s \in DOMAIN W.sets}
    IN  [W EXCEPT !.descriptors = [d \in described |-> W.descriptors[d]],
                  !.arrays = [a \in stored |-> W.arrays[a]]]

\* Mutant of Described: the descriptor is changed in place.
DescribedInPlace(W, t, D) ==
    [W EXCEPT !.descriptors[W.sets[<<t, CHOOSE l \in Leaves : TRUE>>].mDescr] = D]

\* makeDescriptorUnique(), and the change that is made to the new descriptor.
Described(W, t, D) ==
    LET n == LeastOf({k \in 0 .. Cardinality(DOMAIN W.descriptors) :
                        <<t, k>> \notin DOMAIN W.descriptors})
    IN  Settled([W EXCEPT
            !.descriptors = [d \in DOMAIN W.descriptors \union {<<t, n>>} |->
                                IF d = <<t, n>> THEN D ELSE W.descriptors[d]],
            !.sets = [s \in DOMAIN W.sets |->
                        IF s[1] = t THEN [W.sets[s] EXCEPT !.mDescr = <<t, n>>]
                        ELSE W.sets[s]]])

NewArray(W, t, l) ==
    <<t, l, LeastOf({k \in 0 .. Cardinality(DOMAIN W.arrays) :
                        <<t, l, k>> \notin DOMAIN W.arrays})>>

\* Mutant of IsShared: a use count of two is taken for one.
IsSharedByMany(W, t, l, pos) ==
    Cardinality({s \in DOMAIN W.sets : \E i \in DOMAIN W.sets[s].mAttrs :
                    W.sets[s].mAttrs[i] = Attrs(W, t, l)[pos]}) > 2

IsShared(W, t, l, pos) ==
    \E s \in DOMAIN W.sets : \E i \in DOMAIN W.sets[s].mAttrs :
        /\ <<s, i>> # <<<<t, l>>, pos>>
        /\ W.sets[s].mAttrs[i] = Attrs(W, t, l)[pos]

\* makeUnique() of an array in every leaf, which then holds content[l].
Written(W, t, pos, content) ==
    LET to == [l \in Leaves |-> IF IsShared(W, t, l, pos) THEN NewArray(W, t, l)
                                ELSE Attrs(W, t, l)[pos]]
    IN  Settled([W EXCEPT
            !.sets = [s \in DOMAIN W.sets |->
                        IF s[1] = t THEN [W.sets[s] EXCEPT !.mAttrs[pos] = to[s[2]]]
                        ELSE W.sets[s]],
            !.arrays = [a \in DOMAIN W.arrays \union {to[l] : l \in Leaves} |->
                          IF \E l \in Leaves : to[l] = a
                          THEN content[CHOOSE l \in Leaves : to[l] = a]
                          ELSE W.arrays[a]]])

\* appendAttribute().  The size of the new array is read from the first one through
\* an access that makes it unique.
Appended(W, t, name) ==
    LET unique == Written(W, t, 1, [l \in Leaves |-> Content(W, t, l, 1)])
        blank == IF name \in GroupNames THEN {} ELSE Initial
        D == Descriptor(W, t)
        new(l) == NewArray(unique, t, l)
    IN  Described(
            [unique EXCEPT
               !.sets = [s \in DOMAIN unique.sets |->
                           IF s[1] = t
                           THEN [unique.sets[s] EXCEPT !.mAttrs = Append(@, new(s[2]))]
                           ELSE unique.sets[s]],
               !.arrays = [a \in DOMAIN unique.arrays \union {new(l) : l \in Leaves} |->
                             IF a \in DOMAIN unique.arrays THEN unique.arrays[a]
                             ELSE [p \in PointsIn[a[2]] |-> blank]]],
            t, [D EXCEPT !.names = Append(@, name)])

\* dropAttributes().
Dropped(W, t, drop) ==
    IF drop = {} THEN W
    ELSE Described([W EXCEPT !.sets = [s \in DOMAIN W.sets |->
                       IF s[1] = t THEN [W.sets[s] EXCEPT !.mAttrs = Erased(@, drop)]
                       ELSE W.sets[s]]],
                   t, DuplicateDrop(Descriptor(W, t), drop))

\* renameAttributes().
Renamed(W, t, from, to) ==
    LET D == Descriptor(W, t)
    IN  Described(W, t, [D EXCEPT !.names[Find(D, from)] = to])

\* reorderAttributes() to a descriptor with the same attributes and groups.
Reordered(W, t, names) ==
    LET D == Descriptor(W, t)
    IN  Described([W EXCEPT !.sets = [s \in DOMAIN W.sets |->
                      IF s[1] = t
                      THEN [W.sets[s] EXCEPT
                              !.mAttrs = [i \in DOMAIN names |-> @[Find(D, names[i])]]]
                      ELSE W.sets[s]]],
                  t, [D EXCEPT !.names = names])

-------------------------------------------------------------------------------
(* Groups.                                                                 *)

\* The points of a tree with a bit set.
Members(W, t, offset) ==
    {m \in UNION {{l} \X PointsIn[l] : l \in Leaves} :
        Bit(offset) \in
            Content(W, t, m[1], GroupArray(DescriptorOf(W, t, m[1]), offset))[m[2]]}

\* Sets the bit for the points of M, and clears it for all others.
WithMembers(W, t, offset, M) ==
    LET pos == GroupArray(Descriptor(W, t), offset)
    IN  Written(W, t, pos, [l \in Leaves |->
            [p \in PointsIn[l] |->
                IF <<l, p>> \in M THEN Content(W, t, l, pos)[p] \union {Bit(offset)}
                ELSE Content(W, t, l, pos)[p] \ {Bit(offset)}]])

\* setGroup() from an index, where remove tells whether all other points leave the
\* group; setGroupByFilter() leaves them, and setGroup() of a flag takes all or none.
SetGroup(W, t, g, M, remove) ==
    LET offset == Descriptor(W, t).groups[g]
    IN  WithMembers(W, t, offset, IF remove THEN M ELSE M \union Members(W, t, offset))

\* Mutant of AppendGroup: an unused bit is taken as it is.
AppendGroupUncleared(W, t, g) ==
    LET D == Descriptor(W, t)
        appended == Appended(W, t, UniqueName(D))
    IN  IF g \in DOMAIN D.groups THEN W
        ELSE IF UnusedGroups(D) > 0
        THEN Described(W, t, WithGroup(D, g, UnusedGroupOffset(D)))
        ELSE Described(appended, t,
                       WithGroup(Descriptor(appended, t), g, UnusedGroupOffset(D)))

\* appendGroup() takes a bit that is not used, and clears it, or else appends an
\* array.
AppendGroup(W, t, g) ==
    LET D == Descriptor(W, t)
        appended == Appended(W, t, UniqueName(D))
    IN  IF g \in DOMAIN D.groups THEN W
        ELSE IF UnusedGroups(D) > 0
        THEN WithMembers(Described(W, t, WithGroup(D, g, UnusedGroupOffset(D))),
                         t, UnusedGroupOffset(D), {})
        ELSE Described(appended, t,
                       WithGroup(Descriptor(appended, t), g, UnusedGroupOffset(D)))

\* One turn of the loop in compactGroups(): the first group behind an unused offset
\* moves there (requiresGroupMove() and CopyGroupOp).
OneMoved(W, t) ==
    LET D == Descriptor(W, t)
        target == UnusedGroupOffset(D)
        late == {g \in DOMAIN D.groups : D.groups[g] >= target}
        g == LeastOf(late)
    IN  IF UnusedGroups(D) = 0 \/ late = {} THEN W
        ELSE Described(WithMembers(W, t, target, Members(W, t, D.groups[g])),
                       t, WithGroup(D, g, target))

\* Every turn leaves one group where it stays.
Moved(W, t) ==
    LET turns[n \in Nat] == IF n = 0 THEN W ELSE OneMoved(turns[n - 1], t)
    IN  turns[Cardinality(DOMAIN Descriptor(W, t).groups)]

\* groupAttributeIndices() lists group arrays in the order of their names: the last n.
LastArrays(D, n) ==
    {pos \in GroupPositions(D) :
        Cardinality({q \in GroupPositions(D) : D.names[q] > D.names[pos]}) < n}

\* compactGroups(): if an array can be spared.
CompactGroups(W, t) ==
    LET D == Descriptor(W, t)
    IN  IF UnusedGroups(D) < GroupBits THEN W
        ELSE Dropped(Moved(Described(W, t, D), t), t,
                     LastArrays(D, UnusedGroups(D) \div GroupBits))

\* dropGroup() and dropGroups() of some groups.
DropGroups(W, t, S, compact) ==
    LET dropped == Described(W, t, WithoutGroups(Descriptor(W, t), S))
    IN  IF compact THEN CompactGroups(dropped, t) ELSE dropped

\* dropGroups() of all groups.
DropAllGroups(W, t) ==
    LET D == Descriptor(W, t)
    IN  Dropped(Described(W, t, WithoutGroups(D, DOMAIN D.groups)), t, GroupPositions(D))

-------------------------------------------------------------------------------
(* The actions.  A call that throws changes nothing and is not a step.     *)

Become(W) == /\ descriptors' = W.descriptors
             /\ attributeSets' = W.sets
             /\ arrays' = W.arrays

InitialArrays(D) == {<<t, l, i>> : t \in Trees, l \in Leaves, i \in DOMAIN D.names}

\* Trees start with a descriptor, and with some bits set in the group arrays: those
\* of dropped groups stay set.
Init ==
    \E D \in InitialDescriptors, bits \in InitialBits :
        /\ descriptors = [d \in Trees \X {0} |-> D]
        /\ attributeSets = [s \in Trees \X Leaves |->
             [mDescr |-> <<s[1], 0>>,
              mAttrs |-> [i \in DOMAIN D.names |-> <<s[1], s[2], i>>]]]
        /\ arrays = [a \in InitialArrays(D) |->
             [p \in PointsIn[a[2]] |->
                IF a[3] \in GroupPositions(D) THEN bits ELSE Initial]]
        /\ changes = 0

Ordinary == Names \ GroupNames

NamesOf(t) == ToSet(Descriptor(World, t).names)

AppendAttribute(t, name) ==
    /\ name \notin NamesOf(t)
    /\ Become(Appended(World, t, name))

DropAttributes(t, drop) ==
    /\ Find(Descriptor(World, t), Position) \notin drop
    /\ Become(Dropped(World, t, drop))

RenameAttributes(t, from, to) ==
    /\ from \in NamesOf(t) /\ to \notin NamesOf(t)
    /\ Become(Renamed(World, t, from, to))

\* The map of groups has to be the same in both descriptors: a client keeps the
\* arrays that its offsets count in their order.
Orders(D) ==
    {names \in SetToSeqs(ToSet(D.names)) :
        \A i, j \in DOMAIN names :
            i < j /\ {names[i], names[j]} \subseteq GroupNames
                => Find(D, names[i]) < Find(D, names[j])}

ReorderAttributes(t, names) == Become(Reordered(World, t, names))

\* collapseAttribute(), which stands for all writes of values.
Collapsed(W, t, name, v) ==
    Written(W, t, Find(Descriptor(W, t), name), [l \in Leaves |-> [p \in PointsIn[l] |-> v]])

CollapseAttribute(t, name, v) ==
    /\ name \in NamesOf(t)
    /\ Become(Collapsed(World, t, name, v))

SetMembers(t, g, M, remove) ==
    /\ g \in DOMAIN Descriptor(World, t).groups
    /\ Become(SetGroup(World, t, g, M, remove))

Points == UNION {{l} \X PointsIn[l] : l \in Leaves}

Room(t) == Len(Descriptor(World, t).names) < MaxArrays

Change(t) ==
    /\ changes < MaxChanges /\ changes' = changes + 1
    /\ \/ \E name \in Ordinary : Room(t) /\ AppendAttribute(t, name)
       \/ \E drop \in SUBSET (1 .. Len(Descriptor(World, t).names)) :
            DropAttributes(t, drop)
       \/ \E from, to \in Ordinary \ {Position} : RenameAttributes(t, from, to)
       \/ \E names \in Orders(Descriptor(World, t)) : ReorderAttributes(t, names)
       \/ \E name \in Ordinary, v \in Values : CollapseAttribute(t, name, v)
       \/ \E g \in Groups : Room(t) /\ Become(AppendGroup(World, t, g))
       \/ \E g \in Groups, M \in SUBSET Points, remove \in BOOLEAN :
            SetMembers(t, g, M, remove)
       \/ \E S \in SUBSET Groups, compact \in BOOLEAN :
            Become(DropGroups(World, t, S, compact))
       \/ Become(DropAllGroups(World, t))
       \/ Become(CompactGroups(World, t))

\* A copy of a tree shares the descriptor and the arrays of every leaf.
CopyTree(t, u) ==
    /\ changes < MaxChanges /\ UNCHANGED changes
    /\ t # u
    /\ Become(Settled([World EXCEPT
            !.sets = [s \in DOMAIN World.sets |->
                        IF s[1] = u THEN World.sets[<<t, s[2]>>] ELSE World.sets[s]]]))

Next == \/ \E t \in Trees : Change(t)
        \/ \E t, u \in Trees : CopyTree(t, u)

Spec == Init /\ [][Next]_vars

-------------------------------------------------------------------------------
(* Properties.                                                             *)

\* What a client sees of a tree: values by name, and the members of groups.
Seen(W, t) ==
    LET D == Descriptor(W, t)
    IN  [values |-> [name \in ToSet(D.names) \ GroupNames |->
                        [l \in Leaves |-> Content(W, t, l, Find(D, name))]],
         groups |-> [g \in DOMAIN D.groups |-> Members(W, t, D.groups[g])]]

InNameOrder(D) == \A p, q \in GroupPositions(D) : p < q => D.names[p] < D.names[q]

\* Descriptors give attributes and groups places of their own; the leaves of a tree
\* have the same descriptor, and an array for each of its positions.
SetsInStep ==
    /\ \A d \in DOMAIN descriptors : WellFormed(descriptors[d])
    /\ \A t \in Trees, l \in Leaves :
        /\ attributeSets[<<t, l>>].mDescr \in DOMAIN descriptors
        /\ \A m \in Leaves :
            attributeSets[<<t, l>>].mDescr = attributeSets[<<t, m>>].mDescr
        /\ Len(Attrs(World, t, l)) = Len(DescriptorOf(World, t, l).names)
        /\ ToSet(Attrs(World, t, l)) \subseteq DOMAIN arrays
        /\ \A pos \in DOMAIN Attrs(World, t, l) :
            LET group == DescriptorOf(World, t, l).names[pos] \in GroupNames
            IN  Content(World, t, l, pos) \in
                    [PointsIn[l] -> IF group THEN SUBSET (0 .. GroupBits - 1) ELSE Values]

\* A change of one tree never shows in another, although the two share descriptors
\* and arrays: what is shared is copied before it is written.
CopiesAreIndependent ==
    [][\E t \in Trees : \A u \in Trees \ {t} : Seen(World', u) = Seen(World, u)]_vars

Filled(v) == [l \in Leaves |-> [p \in PointsIn[l] |-> v]]

\* Attributes are appended, dropped, renamed, reordered and written by name: whatever
\* the positions become, all other attributes keep their values and all groups their
\* members, but the groups in a dropped group array are gone with it.
AttributesMeetContract ==
    \A t \in Trees :
        LET D == Descriptor(World, t)
            seen == Seen(World, t)
        IN  /\ \A name \in Ordinary \ ToSet(D.names) :
                 Seen(Appended(World, t, name), t)
                   = [seen EXCEPT !.values = With(@, name, Filled(Initial))]
            /\ \A drop \in SUBSET (2 .. Len(D.names)) :
                 Seen(Dropped(World, t, drop), t)
                   = [values |-> Without(seen.values, {D.names[pos] : pos \in drop}),
                      groups |-> Without(seen.groups,
                        {g \in DOMAIN D.groups : GroupArray(D, D.groups[g]) \in drop})]
            /\ \A from \in ToSet(D.names) \ GroupNames, to \in Ordinary \ ToSet(D.names) :
                 Seen(Renamed(World, t, from, to), t)
                   = [seen EXCEPT !.values = With(Without(@, {from}), to, @[from])]
            /\ \A names \in Orders(D) : Seen(Reordered(World, t, names), t) = seen
            /\ \A name \in ToSet(D.names) \ GroupNames, v \in Values :
                 Seen(Collapsed(World, t, name, v), t)
                   = [seen EXCEPT !.values[name] = Filled(v)]

\* Compaction moves groups to the bits in front and drops the arrays behind: where
\* the names of the group arrays have the order of their positions, every group keeps
\* its members and no array is left that could be spared.
Compaction(t) ==
    LET after == CompactGroups(World, t)
    IN  InNameOrder(Descriptor(World, t)) =>
            /\ Seen(after, t) = Seen(World, t)
            /\ UnusedGroups(Descriptor(after, t)) < GroupBits

\* A new group is empty, though its bit may have belonged to a group before; setting
\* or dropping groups leaves the members of all others as they are; so does compaction.
GroupsMeetContract ==
    \A t \in Trees :
        LET D == Descriptor(World, t)
            seen == Seen(World, t)
        IN  /\ \A g \in Groups :
                 Seen(AppendGroup(World, t, g), t)
                   = [seen EXCEPT !.groups = IF g \in DOMAIN @ THEN @ ELSE With(@, g, {})]
            /\ \A g \in DOMAIN D.groups, M \in SUBSET Points, remove \in BOOLEAN :
                 Seen(SetGroup(World, t, g, M, remove), t)
                   = [seen EXCEPT !.groups[g] = IF remove THEN M ELSE @ \union M]
            /\ \A S \in SUBSET Groups :
                 Seen(DropGroups(World, t, S, FALSE), t)
                   = [seen EXCEPT !.groups = Without(@, S)]
            /\ Seen(DropAllGroups(World, t), t) = [seen EXCEPT !.groups = Without(@, DOMAIN @)]
            /\ Compaction(t)

\* "Compacts existing groups of a VDB Tree to use less memory if possible"
\* (PointGroup.h:82): it loses none of them.
CompactionKeepsGroups ==
    \A t \in Trees :
        Seen(CompactGroups(World, t), t).groups = Seen(World, t).groups
===============================================================================
