------------------------------- MODULE TreeTools -------------------------------
(***************************************************************************)
(* The tools that visit all nodes of one tree through a NodeManager, level *)
(* by level: openvdb::tools::signedFloodFill, the prune functions,         *)
(* changeBackground, activate and deactivate.                              *)
(*                                                                         *)
(* In a level set negative values are inside and positive ones outside.    *)
(* The voxels near the surface are active; what is inactive only has a     *)
(* sign, which the flood fill finds again from the active voxels.          *)
(***************************************************************************)
EXTENDS TreePrune, FiniteSets

CONSTANTS Trees,        \* the trees that the tools start from
          Before,       \* Before[c]: the entry from which a scanline goes on to c, or c
          Neighbours,   \* Neighbours[x]: the voxels next to x
          Edge,         \* the voxels at the ends of the scanline of keys
          Widths,       \* the widths outside and inside that the tools are called with
          MaxCalls      \* bound on the calls

VARIABLE calls          \* the calls so far

toolsVars == <<tree, mBackground, calls>>

ASSUME ToolsAssumption ==
    /\ \A T \in Trees : WellFormed(T)
    /\ Before \in [Cells -> Cells] /\ Neighbours \in [Voxels -> SUBSET Voxels]
    /\ Edge \subseteq Voxels /\ MaxCalls \in Nat
    /\ \A w \in Widths : w.outside \in Values /\ w.inside \in Values
    /\ \A n \in Cells : IsFiniteSet(Slots[n])

\* The voxel at which getFirstValue() or getLastValue() of an entry looks.
IsCorner(x, c, Which) ==
    x \in VoxelsIn[c] /\ \A p \in Above[x] \ {x} : p \in {c} \union Below[c] => Which[p] \in Above[x]

\* Voxels have neighbours on both sides, and a cube hangs together.  A scanline goes on
\* from the last voxel of an entry into the next one, and back from the first; in a node
\* it comes from the first entry, among the keys from one edge to the other.
ASSUME ScanlinesAssumption ==
    /\ IsFiniteSet(Voxels)
    /\ \A x \in Voxels : \A y \in Neighbours[x] : x \in Neighbours[y]
    /\ \A c \in Cells : \A S \in SUBSET VoxelsIn[c] :
          S # {} /\ (\A x \in S : Neighbours[x] \intersect VoxelsIn[c] \subseteq S) => S = VoxelsIn[c]
    /\ \A c \in Cells : Before[c] # c =>
          /\ Level[Before[c]] = Level[c] /\ Parents[Before[c]] = Parents[c]
          /\ Offset[Before[c]] < Offset[c]
          /\ \A x \in Voxels : IsCorner(x, Before[c], Last) =>
                Neighbours[x] \intersect VoxelsIn[c] # {}
          /\ \A x \in Voxels : IsCorner(x, c, First) =>
                Neighbours[x] \intersect VoxelsIn[Before[c]] # {}
    /\ \A n \in Cells : \A c \in Slots[n] : Before[c] = c => c = First[n]
    /\ \A k \in Keys : (Before[k] = k \/ \A b \in Keys : Before[b] = k => b = k) =>
          Edge \intersect VoxelsIn[k] # {}

\* getFirstValue() and getLastValue() of an entry, through its children.
Corner(T, c, Which) ==
    LET at[d \in {c} \union Below[c]] == IF IsChild(T, d) THEN at[Which[d]] ELSE T[d].value
    IN  at[c]

IsInside(T, c, Which) == Corner(T, c, Which) < 0

-------------------------------------------------------------------------------
(* signedFloodFill.                                                        *)

\* Where a scanline takes its sign from: active voxels and children.
Stops(T, n) == {c \in Slots[n] : IsChild(T, c) \/ (Level[c] = 0 /\ T[c].active)}

LowestOffset(S) == CHOOSE c \in S : \A d \in S : Offset[c] <= Offset[d]

\* Mutant of Insides: a scanline goes on with the sign that a child begins with.
InsidesOfFirst(T, n) ==
    LET stops == Stops(T, n)
        start == IF stops = {} THEN IsInside(T, First[n], First)
                 ELSE IsInside(T, LowestOffset(stops), First)
        inside[c \in Slots[n]] == IF c \in stops THEN IsInside(T, c, First)
                                  ELSE IF Before[c] = c THEN start
                                  ELSE inside[Before[c]]
    IN  inside

\* Which entries of a node are inside: every scanline goes on with the sign of the
\* last stop; before the first one it is that of the first stop of the node, and
\* without any that of the first entry.
Insides(T, n) ==
    LET stops == Stops(T, n)
        start == IF stops = {} THEN IsInside(T, First[n], First)
                 ELSE IsInside(T, LowestOffset(stops), First)
        inside[c \in Slots[n]] == IF c \in stops THEN IsInside(T, c, Last)
                                  ELSE IF Before[c] = c THEN start
                                  ELSE inside[Before[c]]
    IN  inside

\* The leaf nodes, or the internal nodes of one level: tiles lose their values,
\* active ones too.
FloodLevel(T, l, w) ==
    LET insides == [n \in {c \in Nodes(T) : Level[c] = l} |-> Insides(T, n)] IN
    [c \in DOMAIN T |->
        IF \E n \in DOMAIN insides : c \in Slots[n] \ Stops(T, n)
        THEN LET n == CHOOSE m \in DOMAIN insides : c \in Slots[m]
             IN  [T[c] EXCEPT !.value = IF insides[n][c] THEN w.inside ELSE w.outside]
        ELSE T[c]]

\* The keys before a key in its scanline.
KeysBefore == LET upto[k \in Keys] == IF Before[k] = k THEN {}
                                      ELSE upto[Before[k]] \union {Before[k]}
              IN  upto

\* The keys between two children that follow each other and are both inside where
\* they face each other.
Sandwiched(T) ==
    LET children == Keys \intersect Nodes(T)
    IN  {k \in Keys : \E a, b \in children :
            /\ a \in KeysBefore[b]
            /\ k \in KeysBefore[b] \ (KeysBefore[a] \union {a})
            /\ children \intersect KeysBefore[b] \subseteq KeysBefore[a] \union {a}
            /\ IsInside(T, a, Last) /\ IsInside(T, b, First)}

FloodRoot(T, w) == Put(T, Sandwiched(T), Off(w.inside))

\* SignedFloodFillOp takes the absolute values.
Width(w) == [outside |-> IF w.outside < 0 THEN -w.outside ELSE w.outside,
             inside |-> IF w.inside < 0 THEN w.inside ELSE -w.inside]

\* The nodes of level minLevel and above, from the leaf nodes up.
Flooded(T, w, minLevel) ==
    LET up[l \in 0 .. RootLevel] ==
            IF l = 0 THEN T
            ELSE IF l - 1 < minLevel THEN up[l - 1]
            ELSE FloodLevel(up[l - 1], l, Width(w))
    IN  FloodRoot(up[RootLevel], Width(w))

-------------------------------------------------------------------------------
(* The prune functions.  A pruner says which nodes it replaces by which tile. *)

\* isInactive(): no children, and nothing active.
IsInactive(T, n) == \A c \in Slots[n] : IsTile(T, c) /\ ~ T[c].active

\* isConstant() of the smallest and largest value: they differ by the tolerance.
IsLevel(T, n, tolerance) ==
    \A c, d \in Slots[n] : /\ IsTile(T, c) /\ IsTile(T, d)
                           /\ T[c].active = T[d].active
                           /\ Near(T[c].value, T[d].value, tolerance)

\* The lower median of the values of a node.
Median(T, n) ==
    LET below(v) == Cardinality({c \in Slots[n] : T[c].value < v})
        upTo(v) == Cardinality({c \in Slots[n] : T[c].value <= v})
        middle == (Cardinality(Slots[n]) - 1) \div 2
    IN  CHOOSE v \in {T[c].value : c \in Slots[n]} : below(v) <= middle /\ middle < upTo(v)

\* TolerancePruneOp, InactivePruneOp and LevelSetPruneOp.
Pruners == [kind : {"tolerance"}, tolerance : Tolerances]
             \union [kind : {"inactive"}, value : Values]
             \union {[kind |-> "levelset", outside |-> w.outside, inside |-> w.inside] :
                        w \in {v \in Widths : v.outside >= 0 /\ v.inside < 0}}

IsPruned(T, n, pruner) == IF pruner.kind = "tolerance" THEN IsLevel(T, n, pruner.tolerance)
                          ELSE IsInactive(T, n)

\* The tile that takes the place of a node.
PruneTile(T, n, pruner) ==
    CASE pruner.kind = "tolerance" -> [value |-> Median(T, n), active |-> T[First[n]].active]
      [] pruner.kind = "inactive" -> Off(pruner.value)
      [] pruner.kind = "levelset" ->
            Off(IF IsInside(T, First[n], First) THEN pruner.inside ELSE pruner.outside)

\* The nodes at cells of the lowest level and above, from there up to the root table:
\* prune() begins with leaf nodes, pruneTiles() with the nodes above them.
Pruned(T, pruner, lowest) ==
    LET up[l \in lowest - 1 .. RootLevel] ==
            IF l < lowest THEN T
            ELSE LET below == up[l - 1]
                     pruned == {n \in Nodes(below) : Level[n] = l /\ IsPruned(below, n, pruner)}
                 IN  [c \in DOMAIN below \ UNION {Slots[n] : n \in pruned} |->
                        IF c \in pruned THEN PruneTile(below, c, pruner) ELSE below[c]]
    IN  EraseBackgroundTiles(up[RootLevel])

-------------------------------------------------------------------------------
(* Tools that look at one entry at a time.                                 *)

\* ChangeBackgroundOp: what is inactive and equals the background or its negative.
BackgroundChanged(T, v) ==
    [c \in DOMAIN T |-> IF T[c] = BackgroundTile THEN Off(v)
                        ELSE IF T[c] = Off(-mBackground) THEN Off(-v)
                        ELSE T[c]]

\* ChangeLevelSetBackgroundOp: what is inactive, by its sign, and the active tiles of
\* internal nodes too.
LevelSetBackgroundChanged(T, w) ==
    [c \in DOMAIN T |->
        IF T[c] # Child /\ (T[c].active => Level[c] \in 1 .. RootLevel - 1)
        THEN [T[c] EXCEPT !.value = IF @ < 0 THEN w.inside ELSE w.outside]
        ELSE T[c]]

\* ActivateOp and DeactivateOp.
Activated(T, v, tolerance, active) ==
    [c \in DOMAIN T |-> IF T[c] # Child /\ Near(T[c].value, v, tolerance)
                        THEN [T[c] EXCEPT !.active = active]
                        ELSE T[c]]

-------------------------------------------------------------------------------

ToolsInit == tree \in Trees /\ mBackground = Background /\ calls = 0

\* Without a child the root node returns before it sets the background.
SignedFloodFill(w, minLevel) ==
    /\ tree' = Flooded(tree, w, minLevel)
    /\ mBackground' = IF minLevel <= RootLevel /\ Keys \intersect Nodes(tree) # {}
                      THEN Width(w).outside ELSE mBackground

ChangeBackground(v) == tree' = BackgroundChanged(tree, v) /\ mBackground' = v

ChangeLevelSetBackground(w) ==
    /\ w.outside >= 0 /\ w.inside < 0
    /\ tree' = LevelSetBackgroundChanged(tree, w)
    /\ mBackground' = w.outside

Tool ==
    \/ \E w \in Widths, minLevel \in 0 .. RootLevel : SignedFloodFill(w, minLevel)
    \/ \E tolerance \in Tolerances : Step(PruneWithin(tree, tolerance))
    \/ \E pruner \in Pruners : Step(Pruned(tree, pruner, 1))
    \/ \E tolerance \in Tolerances :
          Step(Pruned(tree, [kind |-> "tolerance", tolerance |-> tolerance], 2))
    \/ \E v \in Values : ChangeBackground(v)
    \/ \E w \in Widths : ChangeLevelSetBackground(w)
    \/ \E v \in Values, tolerance \in Tolerances, active \in BOOLEAN :
          Step(Activated(tree, v, tolerance, active))

ToolsNext == calls < MaxCalls /\ calls' = calls + 1 /\ Tool

ToolsSpec == ToolsInit /\ [][ToolsNext]_toolsVars

-------------------------------------------------------------------------------
(* Properties.                                                             *)

\* The signs that reach voxels from active ones, and from the outside of the
\* scanline, through inactive voxels: pairs of a voxel and whether it is inside.
Reaching ==
    LET active == {x \in Voxels : Map[x].active}
        from == {<<x, Map[x].value < 0>> : x \in active} \union ((Edge \ active) \X {FALSE})
        spread[n \in 0 .. Cardinality(Voxels)] ==
            IF n = 0 THEN from
            ELSE UNION {{p} \union {<<y, p[2]>> : y \in Neighbours[p[1]] \ active} :
                           p \in spread[n - 1]}
    IN  spread[Cardinality(Voxels)]

\* A closed narrow band: the surface is between active voxels everywhere.
Closed(reaching) ==
    /\ mBackground >= 0
    /\ \A c \in DOMAIN tree : IsTile(tree, c) /\ tree[c].active => Level[c] = 0
    /\ \A x \in Edge : Map[x].active => Map[x].value >= 0
    /\ \A p, q \in reaching : p[1] = q[1] => p = q

\* Nodes without active voxels and children have the sign of their first entry, and
\* root tiles theirs, but for those inside between two children.
SignsKnown(reaching) ==
    /\ \A n \in Nodes(tree) : Stops(tree, n) = {} =>
          VoxelsIn[First[n]] \X {IsInside(tree, First[n], First)} \subseteq reaching
    /\ \A k \in Keys : IsTile(tree, k) =>
          \/ VoxelsIn[k] \X {tree[k].value < 0} \subseteq reaching
          \/ /\ VoxelsIn[k] \X {TRUE} \subseteq reaching
             /\ \E a, b \in Keys \intersect Nodes(tree) :
                   a \in KeysBefore[k] /\ k \in KeysBefore[b]

\* What a flood-filled tree holds: where it has no entry, its new background.
FloodedValue(flooded, w, x) == IF \E c \in Above[x] : IsTile(flooded, c) THEN Stored(flooded, x)
                               ELSE Off(Width(w).outside)

\* In a closed narrow-band level set the flood fill gives every inactive voxel the
\* sign of the active voxels around its region, whether a leaf node, a tile or no
\* entry stands for it, and leaves active voxels alone (SignedFloodFillOp), if the
\* inside has a width, without which its value has no sign.  Once
\* the signs are right, neither pruneLevelSet() nor changeLevelSetBackground()
\* changes one of them.
LevelSetToolsMeetContract ==
    LET reaching == Reaching
        right == \A x \in Voxels : <<x, Map[x].value < 0>> \in reaching
    IN  Closed(reaching) =>
        /\ SignsKnown(reaching) =>
              \A w \in {v \in Widths : Width(v).inside < 0} :
                  LET flooded == Flooded(tree, w, 0) IN
                  \A x \in Voxels :
                      LET result == FloodedValue(flooded, w, x)
                          inside == Off(Width(w).inside)
                      IN  IF Map[x].active THEN result = Map[x]
                          ELSE /\ <<x, result.value < 0>> \in reaching
                               /\ IF IsTile(flooded, KeyOf[x]) THEN result \in {Map[x], inside}
                                  ELSE result \in {inside, Off(Width(w).outside)}
        /\ right =>
              \A pruner \in {p \in Pruners : p.kind = "levelset"} :
                  LET pruned == Pruned(tree, pruner, 1)
                      changed == LevelSetBackgroundChanged(tree, pruner)
                  IN  \A x \in Voxels :
                        /\ (Stored(pruned, x).value < 0) = (Map[x].value < 0)
                        /\ (FloodedValue(changed, pruner, x).value < 0) = (Map[x].value < 0)

\* The prune functions leave no node that they could have replaced, keep all active
\* states, and change values by no more than the tolerance for every level; those
\* that prune inactive nodes change no active value (TolerancePruneOp,
\* InactivePruneOp, LevelSetPruneOp).
PrunersMeetContract ==
    \A pruner \in Pruners, lowest \in 1 .. 2 :
        LET pruned == Pruned(tree, pruner, lowest) IN
        /\ \A n \in Nodes(pruned) : Level[n] >= lowest => ~ IsPruned(pruned, n, pruner)
        /\ \A x \in Voxels :
              LET result == Stored(pruned, x) IN
              /\ result.active = Map[x].active
              /\ IF pruner.kind = "tolerance"
                 THEN Near(result.value, Map[x].value, RootLevel * pruner.tolerance)
                 ELSE Map[x].active => result = Map[x]

\* Pruning by the tree itself and by the tools: all there is to merge, all of it at
\* once, and nothing else.
PruneMeetsContract ==
    /\ RecursionMeetsReference
    /\ OneCallSuffices
    /\ ErrorBounded
    /\ PrunersMeetContract
===============================================================================
