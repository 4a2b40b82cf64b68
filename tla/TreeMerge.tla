------------------------------- MODULE TreeMerge -------------------------------
(***************************************************************************)
(* The operators of tools/Merge.h, which a DynamicNodeManager applies to a *)
(* tree from the root node down: union and intersection of the insides of  *)
(* level sets, with any number of other trees, difference with one, and    *)
(* the sum with one.                                                       *)
(*                                                                         *)
(* Union and intersection are one operator in the code: what wins is what  *)
(* is inside for the one, and outside for the other.  Here that is a sign, *)
(* 1 for the union and -1 for the intersection.                            *)
(*                                                                         *)
(* The other trees are not changed (DeepCopy).  A branch is copied from    *)
(* one of them once; from then on this tree has no node there to merge.    *)
(***************************************************************************)
EXTENDS TreePairs, TreePrune, Sequences, FiniteSetsExt

CONSTANTS Thirds,       \* trees, with their backgrounds, to merge after the other one
          MaxCalls      \* bound on the calls

VARIABLE calls          \* the calls so far

mergeVars == <<pairVars, calls>>

ASSUME ThirdsAssumption ==
    /\ MaxCalls \in Nat
    /\ \A S \in Thirds : /\ S = [tree |-> S.tree, background |-> S.background]
                          /\ WellFormed(S.tree) /\ S.background \in Values

\* A sum may be no value of the tree, but it is never taken for a child.
ASSUME SumsAreNoChild == Child \notin [value : Int, active : BOOLEAN]

Wins(sign, t)  == sign * t.value < 0
Loses(sign, t) == sign * t.value > 0

\* A copy of the branch of another tree.
Copied(S, c) == Rebased(Branch(S.tree, c), S.background, mBackground)

\* The trees of a list, this one first, without its background tiles.
RootsOf(T, list) ==
    <<[tree |-> EraseBackgroundTiles(T), background |-> mBackground]>> \o list

-------------------------------------------------------------------------------
(* CsgUnionOrIntersectionOp.                                               *)

HasTile(roots, k) == \E i \in DOMAIN roots : IsTile(roots[i].tree, k)

\* Mutant of RootTile: the first tile counts, whatever the others are.
FirstRootTile(roots, k, sign) ==
    roots[Min({i \in DOMAIN roots : IsTile(roots[i].tree, k)})].tree[k]

\* The tile that counts at a key: the first one, or if that has lost, a later one that
\* wins.
RootTile(roots, k, sign) ==
    LET tiles == {i \in DOMAIN roots : IsTile(roots[i].tree, k)}
        winners == {i \in tiles : Wins(sign, roots[i].tree[k])}
        first == roots[Min(tiles)].tree[k]
    IN  IF Loses(sign, first) /\ winners # {} THEN roots[Min(winners)].tree[k] ELSE first

\* The tree whose child counts at a key, or 0.  A tile that has won replaces what this
\* tree has; an active one then gives way to a child of another tree.
ChildFrom(roots, k, sign) ==
    LET won == HasTile(roots, k) /\ Wins(sign, RootTile(roots, k, sign))
        children == {i \in DOMAIN roots :
                        /\ IsChild(roots[i].tree, k)
                        /\ won => i > 1 /\ RootTile(roots, k, sign).active}
    IN  IF children = {} THEN 0 ELSE Min(children)

\* The root node.  An intersection leaves the keys that all trees have.
CsgRoot(roots, sign) ==
    LET keys == {k \in Keys : IF sign = 1 THEN \E i \in DOMAIN roots : k \in DOMAIN roots[i].tree
                              ELSE \A i \in DOMAIN roots : k \in DOMAIN roots[i].tree}
        branch == [k \in keys |->
            LET from == ChildFrom(roots, k, sign)
                t == RootTile(roots, k, sign)
            IN  IF from # 0 THEN Copied(roots[from], k)
                ELSE IF Wins(sign, t) THEN OneTileAt(k, [t EXCEPT !.value = -sign * mBackground])
                ELSE IF Loses(sign, t) THEN OneTileAt(k, [t EXCEPT !.value = sign * mBackground])
                ELSE Branch(roots[1].tree, k)]
    IN  EraseBackgroundTiles(
            [d \in UNION {DOMAIN branch[k] : k \in keys} |-> branch[KeyOf[d]][d]])

\* Leaf nodes whose values are the negative of each other.
Cancel(T, S, n) == \A x \in Slots[n] : T[x].value = -S[x].value

\* Below the root node, one tree of the list after the other.
CsgNodes(T, S, sign, prune) ==
    Joined(T, S.tree, [c \in Met(T, S.tree) |->
        LET s == S.tree[c] IN
        IF c \in Keys \/ c \notin DOMAIN S.tree THEN Branch(T, c)
        ELSE IF Level[c] = 0
        THEN OneTileAt(c,
                IF prune /\ \E n \in Parents[c] : Level[n] = 1 /\ Cancel(T, S.tree, n)
                THEN Off(-sign * mBackground)
                ELSE IF sign * s.value < sign * T[c].value THEN s ELSE T[c])
        ELSE IF IsTile(T, c) /\ Wins(sign, T[c]) THEN Branch(T, c)
        ELSE IF s # Child /\ Wins(sign, s)
        THEN OneTileAt(c, [s EXCEPT !.value = -sign * mBackground])
        ELSE IF s = Child /\ IsTile(T, c) /\ Loses(sign, T[c]) THEN Copied(S, c)
        ELSE Branch(T, c)])

\* What is left to merge of a tree of the list, when its children at some keys have been
\* copied.
Remaining(roots, i, sign) ==
    LET copied == {k \in Keys : ChildFrom(roots, k, sign) = i}
    IN  [roots[i] EXCEPT !.tree = [d \in {e \in DOMAIN @ : KeyOf[e] \notin copied} |-> @[d]]]

Csg(T, list, sign, prune) ==
    LET roots == RootsOf(T, list)
        merged[i \in DOMAIN roots] ==
            IF i = 1 THEN CsgRoot(roots, sign)
            ELSE CsgNodes(merged[i - 1], Remaining(roots, i, sign), sign, prune)
    IN  merged[Len(roots)]

-------------------------------------------------------------------------------
(* CsgDifferenceOp.                                                        *)

\* Where this tree is inside and the other one has a node, its negative is copied.
CsgDifference(T, S, prune) ==
    LET own == EraseBackgroundTiles(T) IN
    EraseBackgroundTiles(Joined(own, S.tree, [c \in Met(own, S.tree) |->
        LET s == S.tree[c]
            inside == IsTile(own, c) /\ own[c].value < 0
        IN  IF c \notin DOMAIN S.tree THEN Branch(own, c)
            ELSE IF Level[c] = 0
            THEN OneTileAt(c,
                    IF prune /\ \E n \in Parents[c] :
                                   Level[n] = 1 /\ \A x \in Slots[n] : own[x].value = S.tree[x].value
                    THEN BackgroundTile
                    ELSE IF own[c].value < -s.value THEN [s EXCEPT !.value = -@] ELSE own[c])
            ELSE IF s # Child /\ s.value < 0 /\ (inside \/ IsChild(own, c))
            THEN OneTileAt(c, [s EXCEPT !.value = mBackground])
            ELSE IF s = Child /\ inside
            THEN Retiled(Copied(S, c), LAMBDA t : [t EXCEPT !.value = -@])
            ELSE Branch(own, c)]))

-------------------------------------------------------------------------------
(* SumMergeOp, for one tree.                                               *)

Sum2(t, u) == [value |-> t.value + u.value, active |-> t.active \/ u.active]

\* The branch of the other tree that is copied into a tile.  The nodes of the copy are
\* visited afterwards: those that begin with a child, and leaf nodes, are known to have
\* been copied, but the others get the tile that they begin with once more.
SumCopied(S, c, t) ==
    LET again == {n \in {c} \union Below[c] : /\ IsChild(S.tree, n) /\ Level[n] > 1
                                              /\ IsTile(S.tree, First[n])}
    IN  [d \in DOMAIN Branch(S.tree, c) |->
            IF S.tree[d] = Child THEN Child
            ELSE IF \E n \in again : d \in Slots[n]
            THEN LET n == CHOOSE m \in again : d \in Slots[m]
                 IN  Sum2(Sum2(S.tree[d], t), S.tree[First[n]])
            ELSE Sum2(S.tree[d], t)]

SumMerge(T, S) ==
    Joined(T, S.tree, [c \in Met(T, S.tree) |->
        IF IsChild(S.tree, c) THEN SumCopied(S, c, Stored(T, c))
        ELSE LET s == Held(S.tree, S.background, c)
             IN  Retiled(IF c \in DOMAIN T THEN Branch(T, c) ELSE OneTileAt(c, BackgroundTile),
                         LAMBDA t : Sum2(t, s))])

-------------------------------------------------------------------------------

Other == [tree |-> other, background |-> otherBackground]

\* The lists that union and intersection are called with.
Lists == {<<Other>>} \union {<<Other, S>> : S \in Thirds}

MergeInit == PairInit /\ calls = 0

CsgUnionOrIntersection(list, sign, prune) == Topology(Csg(tree, list, sign, prune))

CsgDifferenceWith(prune) == Topology(CsgDifference(tree, Other, prune))

\* The bound keeps to the values of the model.
Sum ==
    /\ mBackground' = mBackground + otherBackground /\ mBackground' \in Values
    /\ tree' = SumMerge(tree, Other)
    /\ \A c \in DOMAIN tree' : tree'[c] # Child => tree'[c].value \in Values
    /\ UNCHANGED <<other, otherBackground>>

MergeTool ==
    \/ \E list \in Lists, sign \in {-1, 1}, prune \in BOOLEAN :
          CsgUnionOrIntersection(list, sign, prune)
    \/ \E prune \in BOOLEAN : CsgDifferenceWith(prune)
    \/ Sum

MergeNext == calls < MaxCalls /\ calls' = calls + 1 /\ (PairNext \/ MergeTool)

MergeSpec == MergeInit /\ [][MergeNext]_mergeVars

-------------------------------------------------------------------------------
(* Properties.                                                             *)

\* A level set without active tiles: tiles are background inside and outside.
IsLevelSet(T, b) ==
    /\ b > 0
    /\ \A c \in DOMAIN T : IsTile(T, c) =>
          IF Level[c] > 0 THEN T[c] \in {Off(b), Off(-b)} ELSE T[c].value \in -b .. b

\* The union of level sets is inside where one of them is, their intersection where
\* all are, and their difference where the first is and the second is outside,
\* however many trees are merged at once and whatever nodes and tiles they have.
\* If they have one background, every voxel gets the smallest value, or the largest,
\* or that of the first against the negative second, with the state that goes with
\* it; where leaf nodes cancel each other it becomes background instead
\* (CsgUnionOrIntersectionOp, CsgDifferenceOp).
CsgMeetsContract ==
    (IsLevelSet(tree, mBackground) /\ IsLevelSet(other, otherBackground)) =>
    /\ \A list \in {l \in Lists : \A i \in DOMAIN l : IsLevelSet(l[i].tree, l[i].background)},
          sign \in {-1, 1}, prune \in BOOLEAN :
        LET merged == Csg(tree, list, sign, prune)
            level == \A i \in DOMAIN list : list[i].background = mBackground
        IN  \A x \in Voxels :
            LET held == {Map[x]} \union {Held(list[i].tree, list[i].background, x) : i \in DOMAIN list}
                result == Stored(merged, x)
                cancelled == /\ prune /\ result = Off(-sign * mBackground)
                             /\ \E t, u \in held : t.value = -u.value
            IN  cancelled \/
                /\ Wins(sign, result) = (\E t \in held : Wins(sign, t))
                /\ Loses(sign, result) = (\A t \in held : Loses(sign, t))
                /\ level => /\ result \in held
                            /\ \A t \in held : sign * result.value <= sign * t.value
    /\ \A prune \in BOOLEAN :
        LET merged == CsgDifference(tree, Other, prune)
        IN  \A x \in Voxels :
            LET result == Stored(merged, x)
                negative == [Theirs(x) EXCEPT !.value = -@]
                cancelled == prune /\ result = BackgroundTile /\ Map[x].value = Theirs(x).value
            IN  cancelled \/
                /\ (result.value < 0) = (Map[x].value < 0 /\ Theirs(x).value > 0)
                /\ mBackground = otherBackground =>
                      /\ result \in {Map[x], negative}
                      /\ result.value >= Map[x].value /\ result.value >= negative.value

\* The sum holds at every voxel what the two trees held there together, and is active
\* where either was, if no internal node that is copied begins with a tile that holds
\* anything (SumMergeOp).
SumMeetsContract ==
    LET summed == SumMerge(tree, Other) IN
    (\A n \in Nodes(other) \ Nodes(tree) :
        Level[n] > 1 => other[First[n]] \in {Child, Off(0)}) =>
    \A x \in Voxels :
        Held(summed, mBackground + otherBackground, x) = Sum2(Map[x], Theirs(x))

\* The operators of tools/Merge.h do to the voxels of the tree what they say.
MergeToolsMeetContract == CsgMeetsContract /\ SumMeetsContract
===============================================================================
