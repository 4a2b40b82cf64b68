------------------------------ MODULE TreePairs ------------------------------
(***************************************************************************)
(* Operations of tree::Tree that take a second tree: copies, merge, the    *)
(* unions, intersections and differences of topology, and combine.         *)
(*                                                                         *)
(* All of them descend into the nodes that both trees have, and decide at  *)
(* the first entries where one of the trees has no node: there a branch is *)
(* kept, made, deleted, or stolen from the other tree.                     *)
(***************************************************************************)
EXTENDS VoxelTree

CONSTANTS Starts,           \* the two trees and their backgrounds at first
          CombineOps,       \* the functors passed to combineExtended
          CopyValues        \* the values that topologies are copied with

VARIABLES other,            \* the root table of the other tree and all below it
          otherBackground   \* its mBackground

pairVars == <<tree, mBackground, other, otherBackground>>

ASSUME PairsTyped ==
    /\ \A s \in Starts : /\ WellFormed(s.tree) /\ WellFormed(s.other)
                          /\ {s.background, s.otherBackground} \subseteq Values
    /\ CombineOps \subseteq [Tile \X Tile -> Tile] /\ CopyValues \subseteq Values

\* The arguments of merge() and topologyUnion().
Policies == {"MERGE_ACTIVE_STATES", "MERGE_NODES", "MERGE_ACTIVE_STATES_AND_NODES"}

-------------------------------------------------------------------------------
(* Branches: an entry and everything below it.                             *)

\* What the voxels hold in a tree whose background is b.
Held(T, b, c) == IF \E d \in Above[c] : IsTile(T, d)
                 THEN T[CHOOSE d \in Above[c] : IsTile(T, d)]
                 ELSE Off(b)

Theirs(c) == Held(other, otherBackground, c)

Branch(T, c) == [d \in DOMAIN T \intersect ({c} \union Below[c]) |-> T[d]]

OneTileAt(c, t) == [d \in {c} |-> t]

\* A branch with the same nodes, and other values or states in its tiles.
Retiled(B, f(_)) == [d \in DOMAIN B |-> IF B[d] = Child THEN Child ELSE f(B[d])]

\* TopologyCopy: the nodes and states of a branch, all values being v.
TopologyCopy(B, v) == Retiled(B, LAMBDA t : [t EXCEPT !.value = v])

\* resetBackground(from, to) of a node.
Rebased(B, from, to) ==
    Retiled(B, LAMBDA t : IF t = Off(from) THEN Off(to)
                          ELSE IF t = Off(-from) THEN Off(-to) ELSE t)

\* setValuesOn() of a node.
Activated(B) == Retiled(B, LAMBDA t : [t EXCEPT !.active = TRUE])

\* Mutant of MergedWithTile: children, which are no active values, are replaced.
MergedOverChildren(B, v) ==
    [d \in DOMAIN B |-> IF B[d] # Child /\ B[d].active THEN B[d]
                        ELSE [value |-> v, active |-> TRUE]]

\* merge() of a node with an active tile of value v: what is inactive follows it.
MergedWithTile(B, v) ==
    Retiled(B, LAMBDA t : IF t.active THEN t ELSE [value |-> v, active |-> TRUE])

-------------------------------------------------------------------------------
(* The descent into two trees.                                             *)

Both(T, S) == Nodes(T) \intersect Nodes(S)

\* The entries at which the descent ends: not both trees have a node there, but
\* both have one above.
Met(T, S) ==
    LET both == Both(T, S)
    IN  {c \in DOMAIN T \union DOMAIN S : Parents[c] \subseteq both /\ c \notin both}

\* The tree that has, where the descent ends at c, the branch branch[c].
Joined(T, S, branch) ==
    LET both == Both(T, S)
    IN  [d \in both \union UNION {DOMAIN branch[c] : c \in DOMAIN branch} |->
            IF d \in both THEN Child
            ELSE branch[CHOOSE c \in DOMAIN branch : c \in Above[d]][d]]

\* A node is deleted: an internal node keeps an inactive tile in its place, the
\* root table has no entry any more.
Deleted(c) == IF c \in Keys THEN Empty ELSE OneTileAt(c, BackgroundTile)

ActiveIn(T, c) == IsTile(T, c) /\ T[c].active

\* The node of the other tree at c, moved to this tree.  The root node passes
\* its own background to the nodes below it in the place of the other one, and
\* the other way round.
Stolen(S, c) == IF c \in Keys
                THEN Rebased(Branch(S, c), otherBackground, mBackground)
                ELSE Rebased(Branch(S, c), mBackground, otherBackground)

\* Mutant of Steals: an active tile gives way to a node under every policy.
StealsAlways(T, c, policy) == TRUE

\* Whether merge<policy>() replaces a tile, or a missing key, by a node of the
\* other tree.
Steals(T, c, policy) == ~ ActiveIn(T, c) \/ policy # "MERGE_ACTIVE_STATES"

\* merge<policy>().
Merged(T, S, policy) ==
    Joined(T, S, [c \in Met(T, S) |->
        IF IsChild(S, c)
        THEN IF ~ Steals(T, c, policy) THEN Branch(T, c)
             ELSE IF ActiveIn(T, c) /\ policy = "MERGE_ACTIVE_STATES_AND_NODES"
             THEN MergedWithTile(Stolen(S, c), T[c].value)
             ELSE Stolen(S, c)
        ELSE IF ActiveIn(S, c) /\ ~ ActiveIn(T, c) /\ policy # "MERGE_NODES"
        THEN IF IsChild(T, c) /\ policy = "MERGE_ACTIVE_STATES_AND_NODES"
             THEN MergedWithTile(Branch(T, c), S[c].value)
             ELSE OneTileAt(c, S[c])
        ELSE Branch(T, c)])

\* Mutant of Densified: the new node has the states of the other tree only.
DensifiedForgetful(T, S, c) == TopologyCopy(Branch(S, c), Stored(T, c).value)

\* topologyUnion() puts a node in the place of a tile or of a missing key: it is
\* like the node of the other tree, and active throughout if the tile was.
Densified(T, S, c) ==
    IF ActiveIn(T, c) THEN Activated(TopologyCopy(Branch(S, c), T[c].value))
    ELSE TopologyCopy(Branch(S, c), Stored(T, c).value)

\* topologyUnion(other, preserveTiles).
Union(T, S, preserveTiles) ==
    Joined(T, S, [c \in Met(T, S) |->
        IF IsChild(S, c)
        THEN IF ActiveIn(T, c) /\ preserveTiles THEN Branch(T, c) ELSE Densified(T, S, c)
        ELSE IF ActiveIn(S, c)
        THEN IF IsChild(T, c) THEN Activated(Branch(T, c))
             ELSE OneTileAt(c, [Stored(T, c) EXCEPT !.active = TRUE])
        ELSE Branch(T, c)])

\* topologyIntersection().
Intersection(T, S) ==
    Joined(T, S, [c \in Met(T, S) |->
        IF IsChild(T, c) THEN IF ActiveIn(S, c) THEN Branch(T, c) ELSE Deleted(c)
        ELSE IF ActiveIn(T, c)
        THEN IF IsChild(S, c) THEN TopologyCopy(Branch(S, c), T[c].value)
             ELSE OneTileAt(c, [T[c] EXCEPT !.active = ActiveIn(S, c)])
        ELSE Branch(T, c)])

\* topologyDifference().
Difference(T, S) ==
    Joined(T, S, [c \in Met(T, S) |->
        IF IsChild(T, c) THEN IF ActiveIn(S, c) THEN Deleted(c) ELSE Branch(T, c)
        ELSE IF ActiveIn(T, c) /\ IsChild(S, c)
        THEN Retiled(Branch(S, c), LAMBDA t : [value |-> T[c].value, active |-> ~ t.active])
        ELSE IF ActiveIn(T, c) /\ ActiveIn(S, c)
        THEN OneTileAt(c, Off(T[c].value))
        ELSE Branch(T, c)])

\* Mutant of CombinedSwapped: the functor is called as for a node of this tree.
CombinedUnswapped(B, a, op) == Retiled(B, LAMBDA t : op[t, a])

\* SwappedCombineOp, for a branch of the other tree and a tile of this one.
CombinedSwapped(B, a, op) == Retiled(B, LAMBDA t : op[a, t])

\* combine() without pruning, and combine2() below the keys of its two arguments.
Combined(T, S, op) ==
    Joined(T, S, [c \in Met(T, S) |->
        IF IsChild(T, c) THEN Retiled(Branch(T, c), LAMBDA t : op[t, Theirs(c)])
        ELSE IF IsChild(S, c) THEN CombinedSwapped(Branch(S, c), Stored(T, c), op)
        ELSE OneTileAt(c, op[Stored(T, c), Theirs(c)])])

\* prune() of every child of the root node: the root table stays as it is.
PruneChildren(T) ==
    LET constant == {c \in Nodes(T) \ Keys :
                        \A x, y \in VoxelsIn[c] : Stored(T, x) = Stored(T, y)}
    IN  [c \in DOMAIN T \ UNION {Below[d] : d \in constant} |->
           IF c \in constant THEN Stored(T, CHOOSE x \in VoxelsIn[c] : TRUE) ELSE T[c]]

MaybePruned(T, prune) == IF prune THEN PruneChildren(T) ELSE T

\* combine2() writes to a tree R of its own, where keys that neither of the
\* arguments has stay.
CombinedInto(R, T, S, op, prune) ==
    LET result == MaybePruned(Combined(T, S, op), prune)
        kept == {d \in DOMAIN R : KeyOf[d] \notin DOMAIN T \union DOMAIN S}
    IN  [d \in DOMAIN result \union kept |-> IF d \in kept THEN R[d] ELSE result[d]]

\* The background values are combined last, with the active states that the last
\* key at which both trees have tiles has left in the arguments of the functor.
StatesLeft(T, S) ==
    LET left == {<<Stored(T, k).active, Theirs(k).active>> :
                    k \in (Keys \intersect (DOMAIN T \union DOMAIN S))
                            \ (Nodes(T) \union Nodes(S))}
    IN  IF left = {} THEN {<<FALSE, FALSE>>} ELSE left

CombinedBackground(op, states) ==
    op[[value |-> mBackground, active |-> states[1]],
       [value |-> otherBackground, active |-> states[2]]].value

-------------------------------------------------------------------------------

PairInit == \E s \in Starts :
               /\ tree = s.tree /\ mBackground = s.background
               /\ other = s.other /\ otherBackground = s.otherBackground

\* merge() and combine() empty the other tree, which keeps its background.
Merge(policy) == /\ tree' = Merged(tree, other, policy)
                 /\ other' = Empty
                 /\ UNCHANGED <<mBackground, otherBackground>>

Combine(op, prune) == /\ tree' = MaybePruned(Combined(tree, other, op), prune)
                      /\ \E states \in StatesLeft(tree, other) :
                            mBackground' = CombinedBackground(op, states)
                      /\ other' = Empty
                      /\ UNCHANGED otherBackground

\* combine2() into a tree that takes the place of this one.
Combine2(R, op, prune) ==
    /\ tree' = CombinedInto(R, tree, other, op, prune)
    /\ \E states \in StatesLeft(tree, other) : mBackground' = CombinedBackground(op, states)
    /\ UNCHANGED <<other, otherBackground>>

Topology(T) == tree' = T /\ UNCHANGED <<mBackground, other, otherBackground>>

\* Assignment, and the construction with the topology of the other tree.
CopyTree == /\ tree' = other /\ mBackground' = otherBackground
            /\ UNCHANGED <<other, otherBackground>>

CopyTopology(off, on) ==
    /\ tree' = Retiled(other, LAMBDA t : [t EXCEPT !.value = IF t.active THEN on ELSE off])
    /\ mBackground' = off
    /\ UNCHANGED <<other, otherBackground>>

PairNext ==
    \/ \E policy \in Policies : Merge(policy)
    \/ \E op \in CombineOps, prune \in BOOLEAN :
          Combine(op, prune) \/ \E R \in {Empty, other} : Combine2(R, op, prune)
    \/ \E preserveTiles \in BOOLEAN : Topology(Union(tree, other, preserveTiles))
    \/ Topology(Intersection(tree, other))
    \/ Topology(Difference(tree, other))
    \/ CopyTree
    \/ \E off, on \in CopyValues : CopyTopology(off, on)

PairSpec == PairInit /\ [][PairNext]_pairVars

-------------------------------------------------------------------------------
(* Properties.  They look at every operation in every pair of trees.       *)

\* The types of the variables: every operation leaves two trees, although nodes
\* move from one to the other (RootNode::stealChild, InternalNode::merge).
PairTypeOK == /\ WellFormed(tree) /\ mBackground \in Values
              /\ WellFormed(other) /\ otherBackground \in Values

\* topologyUnion(), topologyIntersection() and topologyDifference() make active
\* states the union, intersection and difference of those of the two trees, for
\* every voxel and however the two store it; values stay, but that a voxel turned
\* inactive may become background with the branch it was in.  The union has the
\* nodes of both trees, but where active tiles are to be preserved; the intersection
\* stores a voxel for what was a voxel and stays active.
TopologyMeetsContract ==
    LET all == Nodes(tree) \union Nodes(other)
        union == [preserve \in BOOLEAN |-> Union(tree, other, preserve)]
        common == Intersection(tree, other)
        rest == Difference(tree, other)
    IN  /\ \A x \in Voxels :
           /\ \A preserve \in BOOLEAN :
                 Stored(union[preserve], x) = [Map[x] EXCEPT !.active = @ \/ Theirs(x).active]
           /\ Stored(common, x).active = (Map[x].active /\ Theirs(x).active)
           /\ Stored(rest, x).active = (Map[x].active /\ ~ Theirs(x).active)
           /\ \A T \in {common, rest} :
                 Stored(T, x).value = Map[x].value \/ Stored(T, x) = BackgroundTile
        /\ Nodes(union[FALSE]) = all
        /\ Nodes(union[TRUE]) = {c \in all : ~ \E d \in Above[c] : ActiveIn(tree, d)}
        /\ {x \in Voxels \intersect (DOMAIN tree \union DOMAIN other) :
               Map[x].active /\ Theirs(x).active} \subseteq DOMAIN common

\* After merge() every voxel holds what one of the two trees held, is active if
\* either was (unless only nodes are merged), and keys of this tree alone are
\* untouched; the policies that merge nodes keep the nodes of both.  Inactive voxels
\* are compared if the backgrounds agree.
MergeMeetsContract ==
    \A policy \in Policies :
        LET merged == Merged(tree, other, policy)
        IN  /\ \A x \in Voxels :
               LET result == Stored(merged, x) IN
               /\ policy # "MERGE_NODES" => result.active = (Map[x].active \/ Theirs(x).active)
               /\ result.active \/ mBackground = otherBackground
                     => result \in {Map[x], Theirs(x)}
               /\ KeyOf[x] \notin DOMAIN other => result = Map[x]
            /\ policy # "MERGE_ACTIVE_STATES"
                  => Nodes(merged) = Nodes(tree) \union Nodes(other)

\* combine() and combine2() apply the functor to what the two trees hold at every
\* voxel that either stores, the value of this tree first, whichever of the two
\* has the node that the result is written to; pruning does not show; and
\* combine2() leaves the other keys of its result alone.
CombineMeetsContract ==
    \A op \in CombineOps, prune \in BOOLEAN :
        LET combined == MaybePruned(Combined(tree, other, op), prune)
            into == [R \in {Empty, other} |-> CombinedInto(R, tree, other, op, prune)]
        IN  \A x \in Voxels :
            LET stored == KeyOf[x] \in DOMAIN tree \union DOMAIN other
                result == op[Map[x], Theirs(x)]
            IN  /\ stored => Stored(combined, x) = result
                /\ \A R \in {Empty, other} :
                      Stored(into[R], x) = IF stored THEN result ELSE Stored(R, x)

\* Merging moves the background of the other tree to that of this one: what was
\* background in the other tree is background afterwards, if merge() takes it from
\* there (RootNode::merge, and resetBackground() in InternalNode::merge).
MergeFollowsBackground ==
    \A policy \in Policies :
        LET merged == Merged(tree, other, policy) IN
        \A x \in Voxels : Theirs(x) = Off(otherBackground)
                            => Stored(merged, x) \in {Map[x], BackgroundTile}
===============================================================================
