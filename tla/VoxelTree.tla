------------------------------- MODULE VoxelTree ------------------------------
(***************************************************************************)
(* The tree of a grid: openvdb::tree::RootNode, InternalNode and LeafNode, *)
(* and the operations of tree::Tree on one tree.                           *)
(*                                                                         *)
(* A cell is a cube of index space that an entry of some node can stand    *)
(* for: a voxel (an entry of a LeafNode), a tile or child of an            *)
(* InternalNode, or a key of the root table.  The level of a cell is the   *)
(* LEVEL of the node that has the entry, as in addTile().  The tree is the *)
(* function from the cells it has an entry for, to what the entry holds: a *)
(* child node, or a value and an active state.  An entry that is a child   *)
(* has its bit of mChildMask on and its bit of mValueMask off; the two     *)
(* masks and the union of value and pointer are this one function.         *)
(***************************************************************************)
EXTENDS Integers

CONSTANTS Cells,        \* the cells of index space
          Above,        \* Above[c]: the cells that c lies in, c included
          Level,        \* Level[c]: the LEVEL of the node that has the entry for c
          RootLevel,    \* the LEVEL of the root node
          Values,       \* the values of the tree
          Background,   \* the background value the tree is constructed with
          Child,        \* what the entry of a child node holds
          Regions,      \* the boxes that fill and clip are called with
          ModifyOps,    \* the functions passed to modifyValue
          StateOps      \* the functions passed to modifyValueAndActiveState

VARIABLES tree,         \* the root table and every node below it
          mBackground   \* RootNode::mBackground

vars == <<tree, mBackground>>

Tile == [value : Values, active : BOOLEAN]

ASSUME CellsNested ==
    /\ RootLevel \in Nat /\ RootLevel > 1
    /\ Level \in [Cells -> 0 .. RootLevel]
    /\ Above \in [Cells -> SUBSET Cells]
    /\ \A c \in Cells :
          /\ c \in Above[c]
          /\ \A d \in Above[c] : Above[d] \subseteq Above[c]
          /\ \A d \in Above[c] \ {c} : Level[d] > Level[c]
          /\ \A l \in Level[c] .. RootLevel : \E d \in Above[c] : Level[d] = l
          /\ \A d, e \in Above[c] : d \in Above[e] \/ e \in Above[d]
          /\ \E x \in Cells : Level[x] = 0 /\ c \in Above[x]

ASSUME ContentsTyped ==
    /\ Values \subseteq Int /\ \A v \in Values : -v \in Values
    /\ Background \in Values
    /\ Child \notin Tile
    /\ ModifyOps \subseteq [Values -> Values]
    /\ StateOps \subseteq [Tile -> Tile]

ASSUME RegionsAreVoxels ==
    \A B \in Regions : B # {} /\ B \subseteq {c \in Cells : Level[c] = 0}

Voxels == {c \in Cells : Level[c] = 0}
Keys   == {c \in Cells : Level[c] = RootLevel}

\* The strict ancestors of a cell, what lies strictly inside it, the entries of
\* the node it becomes when it is a child, its voxels, and its key.
Parents  == [c \in Cells |-> Above[c] \ {c}]
Below    == [c \in Cells |-> {d \in Cells : c \in Parents[d]}]
Slots    == [c \in Cells |-> {d \in Below[c] : Level[d] = Level[c] - 1}]
VoxelsIn == [c \in Cells |-> {x \in Voxels : c \in Above[x]}]
KeyOf    == [c \in Cells |-> CHOOSE k \in Above[c] : Level[k] = RootLevel]

\* The largest cells that lie inside a box: the chunks of RootNode::fill and
\* InternalNode::fill that the box encloses completely.
Chunks(B) == {c \in Cells : /\ VoxelsIn[c] \subseteq B
                            /\ \A d \in Parents[c] : ~ VoxelsIn[d] \subseteq B}

Off(v) == [value |-> v, active |-> FALSE]
BackgroundTile == Off(mBackground)

-------------------------------------------------------------------------------
(* What an entry, or the lack of one, says of the cells inside it.         *)

Empty == [c \in {} |-> Child]

IsTile(T, c)  == c \in DOMAIN T /\ T[c] # Child
IsChild(T, c) == c \in DOMAIN T /\ T[c] = Child

\* getValue() and isValueOn(): the tile or voxel that covers the cell, and the
\* background where the root table has no key.
Stored(T, c) == IF \E d \in Above[c] : IsTile(T, d)
                THEN T[CHOOSE d \in Above[c] : IsTile(T, d)]
                ELSE BackgroundTile

-------------------------------------------------------------------------------
(* The two steps that every operation is made of.                          *)

\* The nodes on the way to the cells of P.
Opened(P) == UNION {Parents[p] : p \in P}

\* Mutant of Reach: a new child is filled with background, not with its tile.
ReachBlank(T, P) ==
    [c \in DOMAIN T \union (UNION {Slots[q] : q \in Opened(P)}) \union {KeyOf[p] : p \in P} |->
        IF c \in Opened(P) THEN Child
        ELSE IF c \in DOMAIN T THEN T[c] ELSE BackgroundTile]

\* Descend to the cells of P: every tile on the way is replaced by a child
\* filled with its value and active state (setChild, setChildNode), and a
\* missing key by a child filled with inactive background.
Reach(T, P) ==
    LET opened == Opened(P) IN
    [c \in DOMAIN T \union (UNION {Slots[q] : q \in opened}) \union {KeyOf[p] : p \in P} |->
        IF c \in opened THEN Child
        ELSE IF c \in DOMAIN T THEN T[c] ELSE Stored(T, c)]

\* Mutant of SetTiles: the nodes below a new tile are left where they are.
SetTilesLeak(T, P, t) == [c \in DOMAIN T |-> IF c \in P THEN t ELSE T[c]]

\* The entries of P become tiles (setTile, makeChildNodeEmpty, setValue); the
\* nodes they held are deleted with everything below them.
SetTiles(T, P, t) ==
    [c \in DOMAIN T \ UNION {Below[p] : p \in P} |-> IF c \in P THEN t ELSE T[c]]

Put(T, P, t) == SetTiles(Reach(T, P), P, t)

-------------------------------------------------------------------------------
(* Operations on one voxel: the tree they make of the tree T.              *)

\* A child is made on the way only if the voxel does not hold t already.
Write(T, x, t) == IF Stored(T, x) = t THEN T ELSE Put(T, {x}, t)

\* The branch of an operation that finds no entry for the key of x: it makes the
\* child of the root table before it looks at any value.
KeyAdded(T, x) == IF KeyOf[x] \in DOMAIN T THEN T ELSE Reach(T, Slots[KeyOf[x]])

SetValueOn(T, x, v) == Write(T, x, [value |-> v, active |-> TRUE])

\* Mutant of SetValueOff: a tile of the same value is left as it is, active or not.
SetValueOffByValue(T, x, v) == IF Stored(T, x).value = v THEN T ELSE Write(T, x, Off(v))

SetValueOff(T, x, v) == Write(T, x, Off(v))

SetValueOnly(T, x, v) == Write(KeyAdded(T, x), x, [Stored(T, x) EXCEPT !.value = v])

\* setActiveState(x, on); setValueOff(x) is the case of on = FALSE.
SetActiveState(T, x, on) == Write(T, x, [Stored(T, x) EXCEPT !.active = on])

ModifyValue(T, x, op) == Write(T, x, [value |-> op[Stored(T, x).value], active |-> TRUE])

\* Mutant of ModifyValueAndActiveState: no node asks whether op changes a tile
\* before it makes a child of it, and the root node makes none.
ModifyStoredVoxels(T, x, op) == IF x \in DOMAIN T THEN Put(T, {x}, op[T[x]]) ELSE T

\* The root node asks whether op changes a tile.  An internal node asks whether
\* op makes the tile out of its value and the opposite of its active state, and
\* makes no child if so.  A leaf applies op to the voxel.
ModifyValueAndActiveState(T, x, op) ==
    LET t == Stored(T, x)
        entered == IF IsTile(T, KeyOf[x]) /\ op[t] # t
                   THEN Reach(T, Slots[KeyOf[x]])
                   ELSE KeyAdded(T, x)
        split == op[[t EXCEPT !.active = ~ @]] # t
    IN  IF IsChild(entered, KeyOf[x]) /\ (x \in DOMAIN entered \/ split)
        THEN Put(entered, {x}, op[t])
        ELSE entered

TouchLeaf(T, x) == Reach(T, {x})

-------------------------------------------------------------------------------
(* Operations on boxes.                                                    *)

SparseFill(T, B, t) == Put(T, Chunks(B), t)

VoxelizeActiveTiles(T) == Reach(T, {x \in Voxels : Stored(T, x).active})

DenseFill(T, B, t) ==
    IF t.active /\ T = Empty
    THEN VoxelizeActiveTiles(SparseFill(T, B, t))
    ELSE Put(T, B, t)

EraseKeys(T, K) == [c \in DOMAIN T \ UNION {{k} \union Below[k] : k \in K} |-> T[c]]

EraseBackgroundTiles(T) ==
    EraseKeys(T, {k \in Keys : k \in DOMAIN T /\ T[k] = BackgroundTile})

\* What prune() leaves with the default tolerance of zero: every node whose
\* voxels all hold the same has become a tile, from the leaves upwards, and the
\* background tiles of the root table are erased.  (TreePrune has the recursion,
\* the tolerance, and the comparison of the two.)
Prune(T) ==
    LET constant == {c \in Cells : /\ IsChild(T, c)
                                   /\ \A x, y \in VoxelsIn[c] : Stored(T, x) = Stored(T, y)}
    IN  EraseBackgroundTiles(
            [c \in DOMAIN T \ UNION {Below[d] : d \in constant} |->
               IF c \in constant
               THEN Stored(T, CHOOSE x \in VoxelsIn[c] : TRUE)
               ELSE T[c]])

\* The tiles that the boundary of a box cuts, and the parts of them inside it.
Cut(T, B) == {c \in Cells : /\ IsTile(T, c)
                            /\ VoxelsIn[c] \intersect B # {}
                            /\ ~ VoxelsIn[c] \subseteq B}
Inside(T, B) == UNION {Chunks(VoxelsIn[c] \intersect B) : c \in Cut(T, B)}

\* Mutant of Clip: a tile that the box cuts is left as it is.
ClipUncut(T, B) ==
    LET out == {c \in DOMAIN T : VoxelsIn[c] \intersect B = {}} IN
    Prune(EraseKeys(SetTiles(T, out, BackgroundTile), Keys \intersect out))

\* A tile the box cuts is filled with background, then the part inside the box
\* with what the tile held; entries outside the box become background, in the
\* root table they are erased; the tree is pruned.
Clip(T, B) ==
    LET split == Reach(T, Inside(T, B))
        out == {c \in DOMAIN split : VoxelsIn[c] \intersect B = {}}
    IN  Prune(EraseKeys(SetTiles(split, out, BackgroundTile), Keys \intersect out))

-------------------------------------------------------------------------------
(* Operations on nodes and on the root table.                              *)

\* addTile(level, xyz, value, state), for the cell of that level at xyz.
AddTile(T, c, t) == Put(T, {c}, t)

\* addLeaf(), RootNode::addChild and InternalNode::addChild of a node that is
\* filled with t; a node already there is deleted.
AddNode(T, c, t) == Reach(Put(T, {c}, t), Slots[c])

\* The cells a node can be added at: addLeaf() makes the branch, addChild() is
\* called on the node above.
Addable(T) == {c \in Cells : \/ Level[c] = 1
                             \/ Level[c] > 1 /\ \A d \in Parents[c] : IsChild(T, d)}

Nodes(T) == {c \in Cells : IsChild(T, c)}

\* stealNode() and stealNodes(): the nodes at N are replaced by tiles.
Steal(T, N, t) == SetTiles(T, N, t)

\* expand(): an inactive background tile where the root table has no entry.
Expand(T, k) ==
    [c \in DOMAIN T \union {k} |-> IF c \in DOMAIN T THEN T[c] ELSE BackgroundTile]

DeleteChildOrTile(T, k) == EraseKeys(T, {k})

\* Mutant of ResetBackground: the voxels of leaf nodes are forgotten.
ResetTiles(T, b) ==
    [c \in DOMAIN T |-> IF Level[c] = 0 THEN T[c]
                        ELSE IF T[c] = BackgroundTile THEN Off(b)
                        ELSE IF T[c] = Off(-mBackground) THEN Off(-b) ELSE T[c]]

\* Mutant of ResetBackground: active values follow the background too.
ResetByValue(T, b) == [c \in DOMAIN T |-> IF IsTile(T, c) /\ T[c].value = mBackground
                                          THEN [T[c] EXCEPT !.value = b] ELSE T[c]]

\* resetBackground() of every node, and the same loop over the root table.
ResetBackground(T, b) ==
    [c \in DOMAIN T |-> IF T[c] = BackgroundTile THEN Off(b)
                        ELSE IF T[c] = Off(-mBackground) THEN Off(-b) ELSE T[c]]

\* InternalNode::negate and LeafNode::negate, for the node at c.
Negate(T, c) == [d \in DOMAIN T |-> IF d \in Below[c] /\ IsTile(T, d)
                                    THEN [T[d] EXCEPT !.value = - @] ELSE T[d]]

\* InternalNode::setValuesOn and LeafNode::setValuesOn, for the node at c.
SetValuesOn(T, c) == [d \in DOMAIN T |-> IF d \in Below[c] /\ IsTile(T, d)
                                         THEN [T[d] EXCEPT !.active = TRUE] ELSE T[d]]

-------------------------------------------------------------------------------

Init == tree = Empty /\ mBackground = Background

Step(T) == tree' = T /\ UNCHANGED mBackground

VoxelOp == \E x \in Voxels :
    \/ \E v \in Values : \/ Step(SetValueOn(tree, x, v))
                         \/ Step(SetValueOff(tree, x, v))
                         \/ Step(SetValueOnly(tree, x, v))
    \/ \E on \in BOOLEAN : Step(SetActiveState(tree, x, on))
    \/ \E op \in ModifyOps : Step(ModifyValue(tree, x, op))
    \/ \E op \in StateOps : Step(ModifyValueAndActiveState(tree, x, op))
    \/ Step(TouchLeaf(tree, x))

BoxOp == \/ \E B \in Regions :
               \/ \E t \in Tile : Step(SparseFill(tree, B, t)) \/ Step(DenseFill(tree, B, t))
               \/ Step(Clip(tree, B))
         \/ Step(VoxelizeActiveTiles(tree))
         \/ Step(Prune(tree))

NodeOp == \/ \E c \in Cells, t \in Tile : Step(AddTile(tree, c, t))
          \/ \E c \in Addable(tree), t \in Tile : Step(AddNode(tree, c, t))
          \/ \E c \in Nodes(tree), t \in Tile : Step(Steal(tree, {c}, t))
          \/ \E l \in 1 .. RootLevel, t \in Tile :
                Step(Steal(tree, {c \in Nodes(tree) : Level[c] = l}, t))
          \/ \E c \in Nodes(tree) : Step(Negate(tree, c)) \/ Step(SetValuesOn(tree, c))

RootOp == \/ Step(Empty)
          \/ Step(EraseBackgroundTiles(tree))
          \/ \E k \in Keys : Step(Expand(tree, k)) \/ Step(DeleteChildOrTile(tree, k))

SetBackground(b, updateChildNodes) ==
    /\ mBackground' = b
    /\ tree' = IF updateChildNodes THEN ResetBackground(tree, b) ELSE tree

Next == \/ VoxelOp \/ BoxOp \/ NodeOp \/ RootOp
        \/ \E b \in Values, update \in BOOLEAN : SetBackground(b, update)

Spec == Init /\ [][Next]_vars

-------------------------------------------------------------------------------
(* Properties.                                                             *)

\* The types of the variables, and the shape of the tree: the entry of a child
\* node, and it alone, has entries below it, all those of its node (RootNode,
\* InternalNode::mChildMask).
WellFormed(T) ==
    /\ DOMAIN T \subseteq Cells
    /\ \A c \in DOMAIN T :
          /\ T[c] \in Tile \union {Child}
          /\ \A d \in Parents[c] : IsChild(T, d)
          /\ T[c] = Child => Level[c] > 0 /\ Slots[c] \subseteq DOMAIN T

TypeOK == WellFormed(tree) /\ mBackground \in Values

\* What the voxels hold in the tree T, and in the tree.
Contents(T) == [x \in Voxels |-> Stored(T, x)]
Map == Contents(tree)

\* What the voxels hold once those of S have been changed by f.
Changed(S, f(_)) == [x \in Voxels |-> IF x \in S THEN f(Map[x]) ELSE Map[x]]
Filled(S, t) == Changed(S, LAMBDA old : t)

\* An operation on a voxel changes that voxel as it says and no other, whatever
\* tiles, children and missing keys it meets on its way (setValueOn,
\* setValueOff, setValueOnly, setActiveState, modifyValue).
VoxelOpsMeetContract ==
    \A x \in Voxels :
        /\ \A v \in Values :
              /\ Contents(SetValueOn(tree, x, v)) = Filled({x}, [value |-> v, active |-> TRUE])
              /\ Contents(SetValueOff(tree, x, v)) = Filled({x}, Off(v))
              /\ Contents(SetValueOnly(tree, x, v))
                   = Changed({x}, LAMBDA old : [old EXCEPT !.value = v])
        /\ \A on \in BOOLEAN : Contents(SetActiveState(tree, x, on))
                               = Changed({x}, LAMBDA old : [old EXCEPT !.active = on])
        /\ \A op \in ModifyOps :
              Contents(ModifyValue(tree, x, op))
                = Changed({x}, LAMBDA old : [value |-> op[old.value], active |-> TRUE])

\* modifyValueAndActiveState(x, op) applies op to what the voxel x holds
\* (Tree.h, "Apply a functor to the voxel at the given coordinates").  The code does
\* not keep this: see FunctorSkippedByGuessOnly.
FunctorApplied ==
    \A x \in Voxels, op \in StateOps :
        Contents(ModifyValueAndActiveState(tree, x, op))
          = Changed({x}, LAMBDA old : op[old])

\* Whatever functor modifyValueAndActiveState is given, and whatever tiles it meets,
\* the voxel becomes what op makes of it and no other voxel changes, if the voxel is
\* in a leaf node or op, asked about its tile in the opposite state, says that the
\* tile must be split.  Otherwise no voxel changes, also where op would have changed
\* this one: this is the only case in which op is not applied, and it is never
\* applied to the wrong voxels, to half of an entry, or twice.
FunctorSkippedByGuessOnly ==
    \A x \in Voxels, op \in StateOps :
        Contents(ModifyValueAndActiveState(tree, x, op))
          = IF x \in DOMAIN tree \/ op[[Map[x] EXCEPT !.active = ~ @]] # Map[x]
            THEN Changed({x}, LAMBDA old : op[old])
            ELSE Map

\* fill() and denseFill() set the voxels of the box and no others; clip() turns
\* the others into background, although it splits tiles, refills them and prunes.
BoxOpsMeetContract ==
    \A B \in Regions :
        /\ \A t \in Tile : /\ Contents(SparseFill(tree, B, t)) = Filled(B, t)
                           /\ Contents(DenseFill(tree, B, t)) = Filled(B, t)
        /\ Contents(Clip(tree, B)) = Filled(Voxels \ B, BackgroundTile)

\* denseFill() represents every voxel of the box at the leaf level, and
\* voxelizeActiveTiles() every active voxel: both ways of denseFill() agree.
DenseIsDense ==
    /\ \A B \in Regions, t \in Tile : B \subseteq DOMAIN DenseFill(tree, B, t)
    /\ \A x \in Voxels : Map[x].active => x \in DOMAIN VoxelizeActiveTiles(tree)

\* Operations on the representation alone never change what a voxel holds:
\* touchLeaf, voxelizeActiveTiles, prune, eraseBackgroundTiles and expand.
StorageIsTransparent ==
    /\ \A x \in Voxels : Contents(TouchLeaf(tree, x)) = Map
    /\ Contents(VoxelizeActiveTiles(tree)) = Map
    /\ Contents(Prune(tree)) = Map
    /\ Contents(EraseBackgroundTiles(tree)) = Map
    /\ \A k \in Keys : Contents(Expand(tree, k)) = Map

\* addTile(), addLeaf(), addChild(), stealNode(), deleteChildOrTile(), negate()
\* and setValuesOn() change what lies in their cell as they say, and nothing else.
NodeOpsMeetContract ==
    \A c \in Cells :
        /\ \A t \in Tile :
              /\ Contents(AddTile(tree, c, t)) = Filled(VoxelsIn[c], t)
              /\ c \in Addable(tree) => Contents(AddNode(tree, c, t)) = Filled(VoxelsIn[c], t)
              /\ c \in Nodes(tree) => Contents(Steal(tree, {c}, t)) = Filled(VoxelsIn[c], t)
        /\ c \in Keys =>
              Contents(DeleteChildOrTile(tree, c)) = Filled(VoxelsIn[c], BackgroundTile)
        /\ c \in Nodes(tree) =>
              /\ Contents(Negate(tree, c))
                   = Changed(VoxelsIn[c], LAMBDA old : [old EXCEPT !.value = - @])
              /\ Contents(SetValuesOn(tree, c))
                   = Changed(VoxelsIn[c], LAMBDA old : [old EXCEPT !.active = TRUE])

\* The operations on boxes, fill(), denseFill() and clip(), and on the cells of nodes,
\* addTile() and the like, change their region as they say and nothing else; and what
\* denseFill() fills is stored in leaf nodes.
RegionOpsMeetContract == BoxOpsMeetContract /\ DenseIsDense /\ NodeOpsMeetContract

\* The voxels that some entry stands for, in the root table or below it.
InTable == {x \in Voxels : KeyOf[x] \in DOMAIN tree}

\* setBackground(b, true) moves every inactive voxel that holds the old background
\* or its negative to the new one or its negative, in leaf nodes, in tiles of every
\* level and where there is nothing, and no other voxel; setBackground(b, false)
\* moves those that the root table has no key for, and no other (RootNode.h, "Change
\* inactive tiles or voxels with a value equal to +/- the old background").
BackgroundMeetsContract ==
    [][\A b \in Values :
          /\ SetBackground(b, TRUE) =>
                Map' = [x \in Voxels |-> IF Map[x] = Off(mBackground) THEN Off(b)
                                         ELSE IF Map[x] = Off(-mBackground) THEN Off(-b)
                                         ELSE Map[x]]
          /\ SetBackground(b, FALSE) => Map' = Filled(Voxels \ InTable, Off(b))]_vars

\* A tree is, through all its operations, a map from voxels to values and active
\* states that changes in exactly the voxels an operation names: one voxel, a box,
\* the outside of a box, the cubes of nodes, all voxels, or those that a change of
\* background moves; and a voxel that nothing is stored for is inactive background.
Promise == INSTANCE VoxelMap WITH
    map <- Map, stored <- InTable, background <- mBackground, Boxes <- Regions,
    Cubes <- [l \in 1 .. RootLevel |-> {VoxelsIn[c] : c \in {d \in Cells : Level[d] = l}}]
KeepsPromise == Promise!Spec
===============================================================================
