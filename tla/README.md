# OpenVDB and NanoVDB: TLA+ specifications

TLA+ models of the stateful core of OpenVDB, the TLC runs that check them on
small instances, and TLAPS proofs of their main results for all instances.

1. [The system](#1-the-system): its parts, their state, how they interact, what is hard
2. [Plan](#2-plan): which modules there are, and which come next
3. [The modules](#3-the-modules): state and actions against the code
4. [The runs](#4-the-runs): what is checked, with which bounds
5. [The proofs](#5-the-proofs): what is proved, and how
6. [Observations](#6-observations): where code and documentation disagree
7. [What is not modelled](#7-what-is-not-modelled)

To check a run: `tlc -config OutputQueue.cfg MCOutputQueue.tla` (each `.cfg`
names the module to use in the table of section 4). To check proofs:
`tlapm IoProofs.tla`.

## 1. The system

A *grid* is a sparse volume: a transform, metadata and a *tree*. A tree has a
root table of *keys* and, below them, internal nodes and leaf nodes of fixed
dimensions; every entry of a node is a child or a *tile*, one value and one
active state for the whole cube. A missing key is background. Clients work on
the tree directly or through *accessors*, which remember the nodes of the last
access. Tools work on all leaves in parallel. Points are kept in leaves as sets
of attribute arrays. Files hold grids one after another, with tables of
offsets; grids are written directly or by an asynchronous queue. NanoVDB keeps
read-only images of trees in buffers cut from a memory pool.

| component | state | operations | interacts with |
|---|---|---|---|
| `io::Queue` | next id, count and status of tasks, notifiers, capacity, timeout | `write`, `status`, `addNotifier`, `removeNotifier`, `clearNotifiers`, destructor | the TBB arena that runs a task per grid; callbacks; `io::Archive` |
| `tree::RootNode`, `InternalNode`, `LeafNode` | root table, child and value masks, entries, background | set, modify, fill, denseFill, clip, prune, addTile, addLeaf, stealNode, expand, setBackground, ... | accessors (cleared before nodes are deleted), tools, I/O |
| `tree::ValueAccessor` | tree, and per level a node and its key | get, set, touch, probe, add; attach and release | the registry of its tree |
| operations on two trees | the nodes of both | copies, merge, topology union, intersection and difference, combine; the operators of `tools/Merge.h` | both trees and their accessors |
| tools on one tree | the tree, level by level | signedFloodFill, the prune functions, changeBackground, activate | `NodeManager` |
| tree iterators | per level an iterator over one node, depth bounds | begin, next, setMinDepth, setMaxDepth, split a range | the tree while it is changed; threads with a range each |
| `tree::LeafManager`, `NodeManager` | arrays of leaves and nodes, auxiliary buffers | rebuild, swap, foreach, reduce | threads that share the arrays |
| `util::PagedArray` | page table, size; a page per buffer | push_back, flush, resize, shrink, merge | threads with a buffer each |
| `points::AttributeSet`, `AttributeArray` | arrays shared on write, descriptor, groups in bits | append, drop, reorder, rename, makeUnique | leaves of point trees |
| `io::Archive`, `File`, `Stream`, `GridDescriptor` | header, descriptors, instances, offsets, grids that open() has read | open, read, write, close | streams, grids, codecs |
| `nanovdb::HostBuffer` | pool, address and size; register of a pool | create, move, clear, init, reset, resize | threads that create grids in one pool |
| registries | maps from type name to factory | register, initialize, create | static initialization |
| tools, math, AX, command line, bindings | | | the trees above |

What is hard, and therefore what the properties are about:

- **Interleavings.** A worker of the queue may finish a task before the client
  has counted it; notifiers change while they are called; the destructor waits
  for a counter that workers decrement last. Threads flush buffers into a
  paged array, or create buffers in a pool, whose free pointer is read before
  the mutex is taken.
- **Stale pointers.** An accessor keeps pointers to nodes that operations
  delete, steal and replace; buffers keep addresses into a block that moves.
- **Representation.** A missing key, a background tile and a child full of
  background mean the same, and every operation has a branch for each. What a
  user sees must not depend on how the tree came to be.
- **Order of branches.** Operations on two trees meet a child, a tile or nothing
  on either side at every level; scanlines carry a sign from node to node; an
  iterator keeps a position per level, and one wrong step shows far away.
- **Sharing.** Point sets share arrays and descriptors until one of them is
  changed; grids of a file share trees, which are written once.
- **Boundaries.** Boxes cut tiles, pages are full to the last value, alignment
  leaves gaps, capacities are 0.
- **Time.** The queue polls with a timeout that races with the end of a task.

Per component, what makes it correct:

- Queue: every accepted grid gets one outcome, which the client can learn;
  callbacks are called in order, once, and not after removal; the capacity is
  respected; nobody uses a destroyed queue; calls return and tasks complete.
- Tree: it is a map from voxels to values and states, whatever is stored where.
- Accessors: no dangling pointer; every operation finds and leaves what the
  same operation of the tree would.
- Paged array: every value pushed is found once, among the first `size()`.
- Pool: buffers are disjoint, aligned, in the pool, and keep their content.
- Two trees: the result is the union, intersection, difference or combination
  of two maps, with the nodes the documentation promises.
- Tools: pruning merges all it may and nothing else, and no tool loses the sign
  of a voxel.
- Iterators: what is iterated over is visited in order and once, within the
  bounds, and the parts of a split range share it out.
- Attribute sets: sets that share arrays do not see each other's changes;
  positions, names and groups stay in step.
- Archives: what is read is what was written, with shared trees shared again
  and names told apart.
- Managers (not modelled): the arrays have every node once, in order, until the
  tree changes.

## 2. Plan

Modules are ordered by how much depends on the component and by how hard its
behaviour is to test.

| | modules | status |
|---|---|---|
| 1 | `OutputQueue` implements `QueueContract`; proofs | done |
| 2 | `VoxelTree` implements `VoxelMap`; proofs | done |
| 3 | `TreeAccessors`: which nodes exist and which are cached; proofs | done |
| 4 | `PagedArray`; proofs | done |
| 5 | `HostBuffer`; proofs | done |
| 6 | `TreePrune`, `TreeTools`: pruning, flood fill, change of background, activation; proofs | done |
| 7 | `TreePairs`, `TreeMerge`: operations on two and more trees; proofs | done |
| 8 | `TreeIterators` implements `TraversalContract` | model-checked |
| 9 | `PointAttributes`: shared arrays and descriptors, groups in bits; proofs | done |
| 10 | `Archive`: names, shared trees, files that fail to open, streams; proofs | done |
| 11 | `LeafManager`: leaves and auxiliary buffers under concurrent swaps, with leaf buffers that have no memory; morphology; `NodeMask` and `Coord` as functions | planned |

Composition: `TreePrune` extends `VoxelTree`, and `TreeTools` extends that;
`TreePairs` extends `VoxelTree` with a second tree, and `TreeMerge` extends
both `TreePairs` and `TreePrune`; `TreeIterators` extends `VoxelTree`.
`TreeAccessors` stands beside them, since it needs only which nodes exist, and
abstracts what they hold.

Abstract specifications: `QueueContract` (a ticket per grid), `VoxelMap` (voxels
to values) and `TraversalContract` (what is left to visit) are modules of their
own. Pairs of trees, tools, attributes and archives are checked against
contracts stated on their states.

Runs whose question a proof has settled have given way to runs of the components added
since; a few whose counterexample is recorded in section 6 are kept as configurations.

## 3. The modules

### OutputQueue, QueueContract (`openvdb/io/Queue.cc`)

Three kinds of actors: the **client** that owns the queue and makes one call at
a time, a **worker** per task, and **monitors** that call `status()`,
`addNotifier()`, `removeNotifier()` and `clearNotifiers()` at any time.

| model | code |
|---|---|
| `mStatus`, `mNumTasks`, `mCapacity`, `mNextId`, `mNotifiers`, `mNextNotifierId`, `mNotifierMutex` | the members of `Queue::Impl`; no entry in the status map is `UNKNOWN` |
| `client`, `sleeps` | where the call of `writeGrid` or of the destructor is |
| `task`, `toCall`, `didNotify` | where each worker is in `setStatusWithNotification` |
| `outcome`, `called`, `reported` | what the task ended with, callbacks made, outcomes told |
| `WriteGrid`, `Sleep`, `Wake`, `TimeOut`, `SetPending`, `ArenaEnqueue`, `CountTask` | `Queue::writeGridVec`, `Impl::enqueue` |
| `RecordStatus`, `LockNotifiers`, `CallNotifier`, `UnlockNotifiers`, `EraseStatus`, `Finish` | `OutputTask::execute`, `setStatusWithNotification`, the decrement |
| `BeginDestroy`, `Destroy` | `~Queue` |

A step of a worker is what it does between two accesses to shared state.
`QueueContract` knows only tickets: asked, refused or accepted, completed,
told. The refinement mapping `Contract` computes a ticket's state (`Ticket`) from the
phase of the task, its outcome and whether the client has learnt it; a task that the
queue has taken from the client counts as pending when the arena has it. Most steps
of workers, and those of the client's waiting, change no ticket.

### VoxelTree, VoxelMap, TreePrune (`openvdb/tree/`)

A **cell** is a cube that an entry can stand for; its `Level` is the `LEVEL` of
the node with that entry, 0 for a voxel in a leaf. `tree` maps the cells that
have an entry to `Child` or to a tile. So one function stands for the root
table, the child masks, the value masks and the union of pointer and value;
`TypeOK` (through `WellFormed`) says that they are in step: a child entry has a
node with all its entries, nothing lies below a tile. Index space is a
parameter (`Cells`, `Above`, `Level` with the assumption `CellsNested`): any
depth, branching and dimension.

Every operation is an operator from a tree to a tree, composed the way the code
descends: `Reach` splits tiles down to a cell as `setChildNode` and the
allocation of nodes from a tile do, `SetTiles` puts tiles and deletes what was
below, `Put` does both. The actions are grouped as `VoxelOp` (set, modify,
touch one voxel), `BoxOp` (fill, denseFill, clip), `NodeOp` (addTile, addLeaf,
addChild, stealNode, negate, setValuesOn, voxelizeActiveTiles, prune) and
`RootOp` (clear, erase, expand, deleteChildOrTile), and `SetBackground`.
Values are integers with negation, which the background operations need for the
two sides of a narrow band. `VoxelMap` has no nodes; the mapping reads the
stored tile of every voxel, and which voxels have a key in the root table
(`InTable`), since a change of background without an update shows just that.
Each step of it changes exactly one voxel, a box, all outside a box, the cubes of
nodes of one level, or what a new background moves.

The functors that `modifyValueAndActiveState` is called with (`StateOps`) are any
functions from tiles to tiles: an internal node decides whether it splits a tile by
what the functor makes of the tile in the opposite state, and the model does too.

### TreePrune, TreeTools (`tree/InternalNode.h`, `tools/Prune.h`, `tools/SignedFloodFill.h`, `tools/ChangeBackground.h`, `tools/Activate.h`)

`TreePrune` has `prune(tolerance)` as the nodes recurse, against the one-step
`Prune` of `VoxelTree`. `TreeTools` has what a `NodeManager` runs over the
levels. `FloodLevel` and `FloodRoot` are the operator of `signedFloodFill` on the
nodes of one level and on the root; `Insides` is its scan through a node, where
`Before[c]` is the entry from which the scan goes on to `c` (a node is scanned
along z inside y inside x). `Pruned` takes the functor as a `pruner` record: any
value within a tolerance, inactive nodes, or level-set nodes. A tool is one
action of `Tool`, over all levels, since nothing else may touch the tree.

### TreePairs, TreeMerge (`tree/Tree.h`, `RootNode.h`, `InternalNode.h`, `LeafNode.h`, `tools/Merge.h`)

`other` and `otherBackground` are the second tree. A **branch** is an entry with
all below it; the operations differ only in which branch a place gets where one
of the trees has no node. `Both` are the places where both have a node, `Met`
the first entries where one has not, and `Joined` puts a branch at each of
those. `Merged`, `Union`, `Intersection`, `Difference` and `Combined` give that
branch for `merge` (three policies, nodes are stolen), the topology operations
and `combine`, `combineExtended`, `combine2`; `CopyTree` and `CopyTopology` are the
constructors and assignments. `TreeMerge` has the three operators of
`tools/Merge.h` for a list of trees: `CsgRoot` and `CsgNodes` for union and
intersection, which differ in a sign, `CsgDifference`, and `SumMerge`, where a
copied node meets its own tree again (observation 24).

### TreeIterators, TraversalContract (`tree/TreeIterator.h`)

| model | code |
|---|---|
| `level`, `low`, `high`, `done` | `mLevel`, `mMinLevel`, `mMaxLevel`, `mDone` |
| `node[l]`, `child[l]`, `value[l]` | the entries of `mIterList`, or of `mChildIterList` and `mValueIterList`, at level `l`; `End` is an iterator that is exhausted |
| `DescendedValue`, `Ascended`, `Settled`, `Advanced`, `NextValueWithin` | the loops of `TreeValueIteratorBase::advance` and `next` |
| `NextNode`, `NextLeaf` | `next` of `NodeIteratorBase` and `LeafIteratorBase` |
| `sizes`, `MakeRange`, `Split`, `Increment` | `IteratorRange::mSize`, its constructors and `increment` |

`SkipChild` is what the code does in four places because iterators over inactive
values stop at children. `left` is an auxiliary variable: what each iterator
would visit if it were run on now. `TraversalContract` has only the tree, the
bounds and `left`, and says what may become of it: all items in order at first,
then one less per step, the same again after a change of the visited value, two
halves after a split. Ranges of several threads are the parts; a thread's step
is `Increment`.

### PointAttributes (`points/AttributeSet.cc`, `AttributeArray.h`, `PointAttribute.h`, `PointGroup.h`, `PointGroupImpl.h`)

`descriptors` and `arrays` are the objects in use by address, `attributeSets[t][l]`
the address of the descriptor and the arrays of leaf `l` of tree `t`: two trees
that share have the same address. A descriptor has the names in the order of
positions and the offsets of groups; a group array has a bit per group and
point. The whole of one function on a tree (`appendAttribute`, `dropAttributes`,
`renameAttributes`, reorder, collapse, `appendGroup`, `setGroup`, `dropGroups`,
`compactGroups`) is one action; `Written` makes arrays unique as the code does
before it writes. One leaf has a point and another none, because functions that
take a tree's descriptor from its first leaf go wrong in others.

### Archive (`io/Archive.cc`, `File.cc`, `Stream.cc`, `GridDescriptor.cc`)

`disk` is the file with the list it was written from (`writes = 0` if there is none
yet), `file[f]` a `File` object: its descriptors, and the grids that `open()` has
read if the file has no offsets. Descriptors are kept as they were inserted, and
`ByName` gives the order in which the multimap is gone through. A name is a stem
with numbers in brackets. `Written` gives each grid a unique name and makes it an
instance of the grid its tree was `LastWritten` for.
`OpenWithOffsets`, `OpenWithoutOffsets`, `OpenThrows`, `Close`, `Assign`, `Write`
and `WriteStream` are the actions; what `getGrids`, `readGrid`, `readGrids` and
`hasGrid` return is evaluated in every state. Nobody writes the file while a
`File` is open on it. A grid's `region` says by which transform it is clipped.
An `open()` of a file without offsets adds to the descriptors that the `File` has
already, of an `open()` that threw or of an open `File` it is a copy of. A `File` is
one of the `Readers` while it is open and its table has no descriptor that is not in the
file, some perhaps several times (`Fresh` says that none is). Of the other open Files
nothing is promised: `OpenFileComplete` shows what goes wrong. `InTheWay` and
`Unambiguous` are about the names that do not lead to a grid, of which `NumberedFound`
shows one. `OneTree` takes over that the code forgets a tree that is written at another
precision in between (observation 20).

### TreeAccessors (`openvdb/tree/ValueAccessor.h`, `Tree.h`)

`nodes[t]` are the cells that have a node in tree `t`; `mNodes[a][l]` is the
node that accessor `a` caches at level `l`; `mTree` and `mAccessorRegistry` are
the registration. `lost[a]` are the levels whose pointer was to a node that is
gone: it is what a dangling pointer looks like. `Through` is what every
operation of an accessor does: start at the lowest cached node that covers the
coordinate, insert the nodes passed, make or delete nodes. `AccessorLife` has
construction, assignment and destruction; `TreeOp` has the operations of the
tree, with what each clears first (`ClearThenLose`).

`addLeaf` and `addTile` clear no accessor, and `combine` not those of the tree
it takes nodes from, so pointers do begin to dangle. An operation that would
start at a dangling pointer is undefined and no step (`SafeStart`); the accessor
goes on with its other pointers and can be cleared, assigned and destroyed.
`ClearedBeforeDeleted` says that those three are the only ways, and
`AccessorsAgree` holds for all that starts at good pointers.

### PagedArray (`openvdb/util/PagedArray.h`)

`mPageTable[p]` is the sequence of the entries of all pages, one after the
other; `buffered[b]` is the page of a value buffer. `Flush` hands the page to
`add_full` or `add_partially_full` under the growth mutex, as one step.
`Merge`, `Resize`, `ShrinkToFit`, `Clear` and `PushBackUnsafe` are documented as
not safe for threads and are whole steps. `held` counts what was put in for
good. `Shrinking` lets clients resize so that whole pages are left over, which
breaks the array (section 6).

### HostBuffer (`nanovdb/HostBuffer.h`)

`mPool`, `mSize`, `mData` are the members of a buffer, `pool` and `mRegister`
those of a pool. An address is an offset into the pool's block; the first
`padding` bytes are skipped for alignment, and the allocator may choose any
padding. `memory` has for every byte who wrote it and `wrote` what the owner
of a buffer expects to find; owners fill buffers as they get them.

`StartCreate` is `Pool::add` before the mutex, where it reads the free pointer
and checks the room; `FinishCreate` is its critical section. `Move` is the move
constructor and assignment, `Clear` also the destructor; the last holder
destroys the pool (`Surviving`). `ResizeInPlace`, `ResizeManaged` and
`ResizeElsewhere` are the outcomes of `resizePool`: `realloc` that stays, one
that moves, perhaps to another alignment, and changes from or to external
memory. A call that throws changes nothing and is not a step. `reset` and
`resize` are called while nobody is creating, the first because it is documented
as not safe for threads, the second because it takes no lock either. Creations
in one pool overlap freely, as nothing in the code prevents it; the auxiliary
variable `raced` remembers in which pools they have, until the pool is reset or
destroyed. It constrains no step. `BuffersDisjoint` is what the mutex is there
for, and fails; `MemorySafe` and `ContentKept` say what such a race cannot harm:
alignment and the bounds of the pool anywhere, and everything in other pools.

## 4. The runs

| run | module, cfg | question | bounds |
|---|---|---|---|
| `output_queue` | `MCOutputQueue`, `OutputQueue.cfg` | all safety and liveness properties of the queue, and that it implements `QueueContract` | 2 tasks, 2 notifiers, 2 sleeps, capacities 0 and 2 (and 1, which `setCapacity` makes of 0) |
| `voxel_tree` | `MCVoxelTree`, `VoxelTree.cfg` | every operation in every reachable tree does what it says, and the tree implements `VoxelMap` | one key, two levels of nodes of two entries, 4 voxels; values -1 and 1, every box; functors that scale and deactivate, take a maximum, activate and toggle |
| `tree_tools` | `MCTreeTools`, `TreeTools.cfg` | pruning merges all that it can in one call and nothing else; signs of a narrow band are found again and kept | three keys in one scanline, leaf nodes of 2 by 2 voxels, values -2 to 2, tolerances 0 and 1, every tree of `MCTrees`, one call |
| `tree_pairs` | `MCTreePairs`, `TreePairs.cfg` | every operation of two trees leaves the voxels, states and nodes it promises | all pairs of trees of one key with tiles of two values and both states, a few with a second key; level sets of backgrounds 1 and 2; one call, then every operation in the pair it leaves |
| `tree_pairs_background` | `MCTreePairs`, `TreePairsBackground.cfg` | counterexample: nodes taken by `merge` keep the other background | trees of one voxel, backgrounds -2 to 2 |
| `tree_iterators` | `MCTreeIterators`, `TreeIterators.cfg` | every iterator visits what `TraversalContract` visits, once and in order, and ranges split it without loss | 15 trees of two keys, three levels of nodes, every pair of depth bounds, one change at any moment, grain size 3 |
| `tree_accessors` | `MCTreeAccessors`, `TreeAccessors.cfg` | registry, which operations leave pointers dangling, agreement | two trees, two accessors, three levels, levels 0 and 2 cached |
| `paged_array` | `MCPagedArray`, `PagedArray.cfg` | nothing lost, pages tight, full pages stay | pages of 4, 7 elements, two arrays, three buffers, two values |
| `host_buffer` | `MCHostBuffer`, `HostBuffer.cfg` | register, alignment, bounds; disjointness and content where no creations overlapped | three buffers, two pools, buffers of 1 in pools of 3 and 4, or of all of one of 1, alignment 2, so that a byte is skipped behind every buffer |
| `point_attributes` | `MCPointAttributes`, `PointAttributes.cfg` | operations on attributes and groups do what they say to one tree and nothing to its copies | two trees of two leaf nodes, one point, two groups in arrays of two bits, 4 arrays, two changes after the start |
| `point_groups_compact` | `MCPointAttributes`, `PointAttributesCompact.cfg` | counterexample: compacting loses groups | one tree, one point, three groups, 3 arrays, five changes |
| `archive` | `MCArchive`, `Archive.cfg` | readers whose table has nothing but the file get each grid that was written, with its own tree, by the names that lead to it | two `File`s, two writes, lists of up to two grids of any kind, chosen lists of three and four; two descriptors in a table that is added to |

Beside the runs, six configurations each show one promise of a header or comment that the
code does not keep. They use the modules of the runs, and `tlc -config X.cfg M` ends with the
counterexample (section 6). The properties of the runs say that nothing else goes wrong.

| module, cfg | promise | counterexample |
|---|---|---|
| `MCVoxelTree`, `VoxelTreeFunctor.cfg` | `FunctorApplied` | toggling the state of a voxel does nothing at a tile |
| `MCTreeAccessors`, `TreeAccessorsStale.cfg` | `NoDanglingCache` | a tile is added over a cached leaf node |
| `MCHostBuffer`, `HostBufferRace.cfg` | `BuffersDisjoint` | overlapping creations share memory |
| `MCArchive`, `ArchiveNames.cfg` | `NumberedFound` | a numbered grid is not found by the name it is listed by |
| `MCArchive`, `ArchiveReopened.cfg` | `NamedOnce` | a grid is read twice after an `open()` that threw |
| `MCArchive`, `ArchiveRewritten.cfg` | `OpenFileComplete` | instances of an older file are connected in the new one |

Some properties have several named parts, which a reader can check one by one:
`PruneMeetsContract` (`RecursionMeetsReference`, `OneCallSuffices`,
`ErrorBounded`, `PrunersMeetContract`), `MergeToolsMeetContract`
(`CsgMeetsContract`, `SumMeetsContract`), `PagesExact` (`NothingLost`,
`TightlyPaged`), `CallbacksMeetContract` (`NoCallAfterRemoval`, `CalledInOrder`),
`RegionOpsMeetContract` (`BoxOpsMeetContract`, `DenseIsDense`,
`NodeOpsMeetContract`), `MemorySafe` (`WithinPool`,
`OwnMemory`) and `GridsMeetContract` (whole lists, `AllOfName`, `NamesFound`).

Why these bounds are enough to meet the interesting cases:

- *Queue*: two tasks are one that is being counted while another runs; two
  notifiers are one removed while another is called; capacity 1 is full with
  the first task, 0 always, 2 never. The proofs cover any number.
- *Tree*: every tree of one key is reachable, so every mixture of child, tile
  and missing key is met by every operation; keys do not interact in the code
  but for `fill` and `clip`, which iterate over them, and the proofs cover any
  number. The properties evaluate each operation in each reachable tree, and
  are not restricted to the steps TLC happens to take.
- *Tools*: three values and tolerance 1 make a chain -1, 0, 1 whose ends are
  further apart than the tolerance; two levels are enough for it to add up. The
  flood fill passes a sign from voxel to voxel, row to row, entry to entry and
  key to key, each at least once, over a missing key and over tiles. Its contract
  assumes what the code's comments assume: a closed narrow band, known where a
  node does not touch it, without active tiles and with a background >= 0.
- *Pairs*: entries of a node do not interact in these operations, so the second
  entry takes few values while the first takes all. Every case of "child, tile or
  nothing here" against "child, tile or nothing there", by level and by state, is a
  pair of initial trees. The invariants try every operation in every pair, so
  one step is enough for pairs that are results themselves.
- *Iterators*: three levels of nodes are an innermost, a middle and an outermost
  one, so a bound can cut either side and leave one. A change may come
  before any step; a second one meets a situation the first could have met.
- *Accessors*: caching levels 0 and 2 of three has a level that is passed
  through uncached, and two trees have assignment from one to the other.
- *Paged array*: 7 elements in pages of 4 are a full page and a partial one;
  two buffers meet at the boundary.
- *Pool*: alignment 2 with size 1 leaves a gap; pools of 3 and 4 have room for two
  buffers, are resized from one size to the other with both, and the larger has a byte left
  that a third does not fit in; two pools have
  assignment between pools, and a third buffer is a handle or a neighbour.
  Sizes are bounds on data; the proofs cover any size and alignment.
- *Points*: arrays of two bits are full with two groups, so groups spread over
  two arrays, have holes and are compacted. Initial descriptors are ones that a
  few calls have made, in the order of names and in the other. A copy is taken
  before the last change, which is to be seen in one tree only. `compactGroups`
  is held to its contract where arrays are in the order of their names
  (`InNameOrder`); outside it fails, see `point_groups_compact`.
- *Archive*: names that are equal, anonymous or look like a unique one (`a[0]`), shared
  and own trees, both precisions and two transforms make all cases of one or
  two grids; instances of instances and suffixes beyond 0 need three or four.
  Two Files are one open while another is opened or copied; nobody writes while a
  File is open, which the library leaves to the client. Two descriptors left over are
  one that is there twice later, an instance with its parent, or a whole file of two
  grids; after that another `open()` can fail or succeed. More would repeat the same
  descriptors; the proofs cover any number. Only the two lists of `Again` are written
  over one another: what a table brings along from an older file is out of the scope of the
  properties.

Deadlock is checked where somebody always has a step to take: `output_queue`
(`Gone` is the step of its end), `voxel_tree`, `tree_accessors`, `paged_array`,
`host_buffer`, `archive` and `tree_pairs_background`. `tree_tools`, `tree_pairs`,
`tree_iterators` and the two runs of points have
`CHECK_DEADLOCK FALSE`: they are calls of a client on its own data, which may
stop after any of them, and does at the bound on calls, changes or arrays.

**Fairness.** Only the queue has it. Every worker is weakly fair: TBB runs every
task in its arena and a task has no wait but for the notifier mutex, whose
holder is a worker too. The client continues a call it has begun (weak
fairness of `ClientContinues`, the steps inside `enqueue` and the destructor):
they are a loop around a bounded sleep. The client need not make calls, and
monitors need not do anything. `Progress` says that each accepted task
finishes and that each call of the client returns, the destructor included; the
fairness of `QueueContract` is checked with `KeepsContract`. The other parts are
sequences of calls that a client may break off; that a call ends is part of the
definitions, which are functions.

Each property is broken by at least one altered definition (`Mutant of ...`) in
the module, such as a dropped guard, a wrong order or an off-by-one that a
plausible edit of the code could bring in.

## 5. The proofs

Eight modules of proofs, for all values of the constants that satisfy the named
assumptions. The properties of the runs are theorems but for the three that the end
of this section names.

**`IoProofs`, the queue.** The counter is read while workers move it. `Accounting`
says that it equals the live tasks but for the one that the client has handed
to the arena and not yet counted, in which case it is one too low and can be
-1. It is inductive with `CallInProgress` (in which phase of a call which task
is where), and gives `DestructorSafe`: the destructor returns only when nobody
uses the queue; and with `RoomInv`, `CapacityKept`. `NotifyInv` ties the mutex
holder to the callbacks still to call (`MutexHeld`) and gives `RemovalSafe` and
`OrderKept`, together `CallbacksCorrect`. `OutcomesKept` needs `NotificationDue`: a status may be erased only
if a callback has told it.
`QueueImplementsContract` is the refinement, up to fairness: every step of the queue is
one of `QueueContract` on the ticket of the task it is about (`OneTicket`), or changes
no ticket (`NoTicket`). It needs two invariants more: `OutcomesHonest`, that
`status()` returns what the worker recorded and nothing is told before, and
`OneRequest`, that only the client's own call is waiting for an answer.

**`IoProofs`, the archive.** `DiskInv` says that the file holds what was written for
its list, and `FileInv` that an open `File` has every descriptor of it and, without
offsets, the grids of the file as `open()` has connected them by its table, whatever was
opened, copied, closed or has thrown before and has left descriptors in the table; the
two are inductive (`ArchiveTypeCorrect`). What readers get then follows from what the
descriptors of a file are. `WrittenFile`
follows the loop that writes: every unique name is given once (`UniqueNameFacts`
finds a number that is left), and each instance names the grid that stores its
tree. `RootFacts` says that two grids have the same such grid exactly if they had
one tree (`OneTree`). The loop that connects instances is described by what it
has done so far (`LinkedUpTo`), in any order of descriptors, so that `Connected`
gives the same in file order (`Stream`), by name (`getGrids`) and for the grids of
one name with parents that are read along and dropped (`WithParents`). A table may have
a descriptor several times (`Links`): connecting twice is connecting once (`TreeTwice`), and
the descriptors of a name are those of the file, in any order (`TableRange`). Every
reading function then `Reads` or `Delivers` the grids at certain places of the
list. `GridsCorrect` and `SharingCorrect` follow; names are the last part
(`NamesInv`): what is found is called or listed as was asked (`CalledSo`, `FoundFacts`), and
the grid of a listed name is found (`ReadAsListed`). The scope of both theorems is that of
their properties, `Readers`, and of names that lead to a grid; that both limits are
needed is what `ArchiveRewritten.cfg` and `ArchiveNames.cfg` show, and that the order holds
only of tables that are the file's, `ArchiveReopened.cfg`. Assumed of the
constants is what they stand for: lists are finite sequences of grids that have a
tree, and names are a stem and a sequence of numbers.

**`VoxelTreeProofs`.** First geometry: ancestors form a chain with one cell per
level (`Chain`, `OnePerLevel`), and every voxel of a well-formed tree with its
key is in exactly one tile (`OneTile`). Then four lemmas say for the building
blocks what shape and what contents they leave: `ReachShape` and
`ReachContents` (splitting changes no voxel), `MergedShape` and
`MergedContents` (putting tiles changes exactly the voxels in them),
`EraseKeysLemma`, and `RetileLemma` (changing tiles in place). Each operation is
a combination, so `TypeCorrect` and the contracts `VoxelOpsCorrect`,
`RegionOpsCorrect` (boxes, dense boxes and, by `NodeOpsCorrect`, nodes) and `Transparent`
follow for each in a few steps; `clip` needs that no tile is astride the box after
splitting (`NoTileAstride`). `TreeImplementsMap` is the refinement: with
`TypeOK` as invariant, every group of actions maps to a step of `VoxelMap` in the
very voxels it names (`VoxelStep`, `CubeStep`, `FillStep`), or changes none
(`StoreStep`), and a voxel without a key is inactive background (`NotInTable`).
`BackgroundCorrect` says what `setBackground` does to each voxel with and without
an update. `FunctorCorrect` is about every function: the voxel becomes what
the function makes of it, but where the guess of an internal node is that the
function leaves the tile alone nothing changes (observation 1). Entering the tree at
the root makes no leaf node, so the guess decides exactly for voxels without one.

**`TreeAccessorsProofs`.** No theorem assumes anything of clients. `CacheInv`
(registry, types, and `CacheSound`: what an accessor points to and has not lost is
a node of its tree) is inductive: `ThroughKeepsCaches` for operations through an
accessor, where what is deleted under other accessors, or under higher pointers of
its own, is marked as lost; `ClearingKeepsCaches` for operations of a tree, which
clear the registered accessors first, and by `RegistryExact` those are all.
`NoDangling` goes through the actions and says which can make a pointer dangle.
`Agreement`: a good start lies on the branch from the root to the coordinate, so
the nodes found and left are those of the tree's own operation, for every set of
cached levels.

**`HostBufferProofs`.** No theorem assumes anything of the order in which threads
run. `RegisterCorrect`: a buffer
is in the register of a pool exactly if it has memory of it. Its invariant adds
that buffers without a pool are vacant and those being created have a size.
`MemoryInv` adds for each pool that the free pointer is between padding and
end, that registered buffers are aligned and within the largest pool behind the
padding (`PlacedAt`), and that what a thread read before it took the mutex leaves
room for its buffer; and for pools not in `raced` that only one thread is
between its reading and the mutex, behind the free pointer, and that buffers lie
before that and are disjoint (`MemoryAt`). `RacedStays`: a race is
forgotten only when no buffer is registered any more. `Carried` is the argument that
moves, clears and moved blocks share: the register after the step has buffers
with the memory of different ones before, all shifted by the same distance.
`AlignUpAligns` is the arithmetic of alignment. `TypeCorrect` and `MemoryCorrect`
follow. `ContentCorrect`: a buffer of a pool not in `raced` holds what its owner
wrote. `ContentKept` is inductive together with `MemoryInv` and with
`WroteOwn`, that a buffer that was written uses memory and is not in the middle of
an allocation. A step either leaves the bytes where they are (`Apart`: written
buffers share no byte, so a write to one disturbs no other) or copies them. For
copies `ContentMoved` says that a buffer keeps its content if the bytes have moved
exactly as far as the buffer, and `Placed` that its memory lies below the free
pointer, so that the copy of the used part includes it; `ContentRelocated` is
the case of a pool that is given another block, also at another alignment.

**`TreePairsProofs`.** The operations of two trees differ in what they put where
the descent into both ends, and in nothing else. `Met` is the set of those
cells, and `MetOnce` and `MetAbove` say that every voxel of either tree lies
below exactly one of them. A branch `Fits` at such a cell if it is a tile or a
whole node (or nothing, at a key); then `JoinedShape` says that the result is a
tree and which nodes it has, and `JoinedHeld` that each voxel holds what it
holds in its branch. One lemma per operation remains, about one cell: `UnionEnd`,
`IntersectionEnd`, `DifferenceEnd`, `MergeEnd` and `CombineEnd`, case by case over
what the two trees have there; conversions of a branch are functions on its
tiles (`NodeMapped`). `combine2` joins its result with the other keys of the tree
it writes to (`IntoLemma`), and pruning is `MergedShape` and `MergedContents` again.
The contracts follow in every state with `PairTypeOK`, which `PairTypeCorrect`
shows to be invariant (`PairTypeStep` needs the shape part of each of these
lemmas): `TopologyCorrect`, `MergeCorrect`, `CombineCorrect`, theorems of `PairSpec`.
The rest is about `TreeMerge`, whose specification adds the merge tools
(`MergeTypeCorrect`). `MergeToolsCorrect` is an induction over the list of trees that are
merged. A CSG union or intersection first makes a root table from all of them, then
goes through the trees one after the other, and at each voxel the one that wins
decides; `Stage` says what each voxel holds in terms of the trees taken so far
(`Settled`). `RootMeets` starts it, and `CsgStep` carries it over one tree: where the descent
ends, `MeetsWon`, `MeetsLost` and `MeetsCopied` are the cases of the three branches that
the code puts there. A difference is one step (`CutHeld`). A sum puts sums in the tiles of
branches whose nodes are known, so that `JoinedSame` gives the shape and `SumEnd` the voxels. Assumed of the constants is
that the trees of a list are trees, and that the mark for a child is no tile
(`SumsAreNoChild`).

**`TreeToolsProofs`.** `ToolsTypeCorrect`: every tool leaves a tree. `PruneCorrect` says of
the prune functions what `PruneMeetsContract` names. A prune function works up from the
leaves, each level on what the one below has left; `Passes` says what one level may
do, whatever the criterion: nodes of this level whose entries meet it become
tiles, and nothing else changes (`PassHeld`, `PassNodes`). So what is true of one pass goes up the
levels (`Climb`, a least counterexample). `RecursionLemma` is that the recursion gives what the
one-step definition of pruning gives for tolerance 0, with `MergedTo` as
what is done up to a level; `OneCallLemma` that no node that could be merged is left,
since the entries of a node change no more once its level has been passed;
`ErrorLemma` that a value drifts by at most the tolerance per level. For the
functor of `tools::prune`, the median of finitely many values is one of them
(`MedianFacts`, from the largest element of a finite set). Assumed are finite nodes and
offsets that number the entries of a node.

`LevelSetToolsCorrect` is about the signs of a closed narrow band
(`LevelSetToolsMeetContract`). What the contract asks of the flood fill is a sign that reaches
an inactive voxel from an active one or from the edge of the index space, through
inactive voxels that are neighbours; what the code does follows scanlines of entries, into
the first or last voxel of each child. The two meet in cubes: a cube
hangs together, so a sign that reaches a voxel of a cube without active voxels reaches
all of it (`SignsSpread`, `CubeSign`), and it is enough to know the sign at a corner. From
the leaves up, `FloodedTo` says that in a tree filled up to a level every inactive
voxel in a node of these levels has the sign that reaches it. So a child that is asked
for its last value answers with the sign there (`CornerHeld`, `CornerSign`), a tile takes
over the sign of the entry that its scanline comes from (`ScanForward`, and `ScanBackward` for
what lies before the first such entry), the signs of one node are right
(`InsidesRight`), and one level more is filled (`FloodStep`). A tile of the root gets the inside
sign only between children that are inside on both sides (`SandwichedRight`). With
right signs, one value speaks for the branch that `pruneLevelSet` makes a tile of
(`PruneKeepsSigns`), and `changeLevelSetBackground` writes no sign that was not there
(`BackgroundKeepsSigns`). Scanlines and corners are recursive functions, over offsets and
levels; that one exists which is what its definition says is shown once,
by a least counterexample in a rank (`Recursion`). Assumed is what
`ScanlinesAssumption` says of cubes: finitely many voxels, neighbours on both sides, cubes that
hang together, and scanlines that go on from the last voxel of an entry into the next one and
back from the first (SignedFloodFill.h:106-178), which any box of voxels that is split
into equal boxes meets.

**`PagedArrayProofs`.** `PagesCorrect` and `FullPagesCorrect`, for any page size above
2, any number of arrays and buffers and any order of flushes, assume that no resize
leaves whole pages over (`~Shrinking`, observation 4). The invariant `PagesInv` says
of each array that its table is whole pages, of which only the last may have room
(`Paged`), and that each value is among the first `size` entries exactly as often as it
was put in. Values are counted as places in the table (`CountTo`), so that a
lemma about joined sequences (`CountJoin`) is all the counting there is: `AddFullLemma`
and `AddPartialLemma` say of a flush that the elements stay where they are, or
move with their whole last page, and that those of the buffer are behind them.
`MergeStep` combines the two.

**`PointAttributesProofs`.** Four theorems, for any numbers of trees, leaves, points,
attributes, groups and bits. `AttributesInv` is the inductive invariant: every
pointer points to something there is, every descriptor is good (`Sound`), and the
leaves of a tree share one descriptor and have an array of the right kind for each
of its names, "P" among them (`Formed`). `SetsCorrect` is part of it. Each operation is
described in two parts. `Becomes` says which descriptor and content it leaves and that
every other tree has the descriptor, the arrays and the content it had; the
second part is what makes copies independent (`CopiesCorrect`), and holds
because the arrays that are written are new or not shared (`RearrangedLemma`,
`WrittenLemma`). `Turns` says what is then seen by name, which is a fact about
descriptors and contents alone: `DropLemma`, `AppendLemma`, `RenameLemma` and
`ReorderLemma` follow every group to its array and bit while positions and offsets
change. `AttributesCorrect` and `GroupsCorrect` are the contracts. For compaction, each
turn of the loop uses one more of the bits in front (`InFront`), so that after a turn
per group the groups fill the first bits; where names are in the order of positions,
the arrays that are dropped are then the ones without groups (`LastLemma`,
`SparedLemma`). The loop is a recursive function, whose existence is shown by
a least counterexample (`LoopedExists`). Assumed are what a client starts with
(`InitialAssumption`), that names and groups are finite in number, and that
`uniqueName` does not run out of names.

Model-checked only, and why:

- `Progress`, and the fairness part of `KeepsContract`: temporal reasoning with
  `ENABLED`.
- `KeepsTraversalContract` (`TreeIterators`): a refinement of a traversal by skips over
  subtrees. It rests on the order of nodes that a whole walk gives, a sequence built
  by recursion over the tree, and on every iterator being at one place of it.
  Its proof would need that order first as a theorem about all trees.

No module that is proved about has a `RECURSIVE` operator.

## 6. Observations

Disagreements between the code and its documentation that the runs and the further
configurations of section 4 exhibit:

- `tree_pairs_background`: `RootNode::merge` calls `merge(child, other.mBackground,
  mBackground)` (RootNode.h:3166, 3193, 3222), while InternalNode.h:594 declares the
  own background first. A node taken below a node of both trees keeps the inactive
  values of the other background (InternalNode.h:2743, 846).
- `point_groups_compact`: `compactGroups` fills arrays in the order of their
  positions (AttributeSet.cc:1128) and drops the last in the order of their
  names (AttributeSet.cc:257, PointGroupImpl.h:423-431). The orders differ once a
  name is used again, or from the tenth array on ("__group10" is less than
  "__group2"), and an array with groups in it is dropped.
- `HostBufferRace.cfg`: `Pool::add` reads the free pointer and checks the room before it
  takes the mutex that is "for updating mRegister and mFree" (HostBuffer.h:382, 395,
  330). Two threads that read it before either moves it are given the same memory.
- `VoxelTreeFunctor.cfg`: `modifyValueAndActiveState` calls the functor with the *opposite*
  state of an internal tile to decide whether to split it (InternalNode.h:2154, 2174),
  where its comment (2157) speaks of "applying the functor to the tile". A functor that
  toggles the state is therefore never applied there, against Tree.h:452; already
  in an empty tree. The root node passes the state itself (RootNode.h:2091).
- `TreeAccessorsStale.cfg`: Tree.h:684 says "Registered accessors are automatically cleared
  whenever one of this tree's nodes is deleted". `addTile` deletes the child under
  the new tile (InternalNode.h:1660) and clears no accessor. The same goes for
  `addLeaf` over a leaf node (InternalNode.h:1567) and, for the accessors of the other
  tree, for `combine` and `combineExtended` (Tree.h:1836, RootNode.h:3402, 3417); the
  specification has these steps too.

- `ArchiveNames.cfg`: File.h:165 says "If "density[1]" is searched, it is tested against the
  unique name, so it matches the second "density" grid". If grids are really called
  "density[1]" and are numbered themselves, `findDescriptor` looks at those and at no
  others (File.cc:645-683): of a, a, a[1], a[1] the second is listed as a[1] and, with
  offsets, `readGrid` of that name throws. Without offsets it is read while `hasGrid` denies
  it.
- `ArchiveReopened.cfg`: the branch of `open()` for files without offsets resets the grids
  (File.cc:232-233) and not the descriptors (244; 251 does). After an `open()` that threw
  half way the table has descriptors twice, and `readGrids` returns those grids twice, against
  File.h:111.
- `ArchiveRewritten.cfg`: for the same reason a copy of an open `File` keeps the descriptors
  of the file as it was. When the file is written again and the copy opened, an instance
  descriptor of the old one is connected (File.cc:247-249), and a grid that has a tree of its
  own is given another's, against File.h:89. `OpenThrows` also has the case in which the
  old parent is missing.

Others, seen while modelling, that nothing here exhibits. The constants in brackets
make a model show them.

1. (exhibited by `VoxelTreeFunctor.cfg`, above)
2. (exhibited by `TreeAccessorsStale.cfg`, above)
3. Through an accessor, `addTile(level)` does nothing if a node below that level is
   cached for the coordinate (InternalNode.h:1642); ValueAccessor.h:743.
4. `resize` and `shrink_to_fit` of a paged array leave pages behind the end, and
   buffers then append behind those (PagedArray.h:469, 507, 530;
   `Shrinking = TRUE`).
5. (exhibited by `HostBufferRace.cfg`, above)
6. `isValueOff(xyz)` of an internal node returns `isValueMaskOn` at a tile, the
   opposite of its documentation (InternalNode.h:1781, 341).
7. `io::Queue::empty()` looks at the counter, which a task enters only after the arena
   has it (Queue.cc:182-183, Queue.h:121): the queue may be "empty" while a
   task is running, if another thread asks. A callback that calls `removeNotifier`
   locks a mutex its worker holds (Queue.cc:137).
8. The example of Queue.h (47, 83-97) adds the id of a grid to its map after
   `writeGrid` has returned it, when the callback may have been called already.
9. `prune(tolerance)` applies the tolerance at every level to values that the level below has
   rounded (InternalNode.h:1279), so that the error grows with depth
   (`ErrorBounded`); Tree.h:532-535 speaks of one tolerance.
10. (`combine`, exhibited with `TreeAccessorsStale.cfg`, above)
11. `PagedArray::copy(count)` with a multiple of the page size copies one page more,
    or returns false if there is none (PagedArray.h:255-271).
12. `PagedArray::merge` takes its partial page out of the table and adds the values again; the
    page is not deleted on all paths (PagedArray.h:496, 519-526).
13. `HostBuffer::init` on a buffer that has memory drops its pool without leaving the
    register (HostBuffer.h:545): the assertion of `~Pool` (360) fails, or a pool
    that others share writes to the buffer later.
14. `HostBuffer::create(0, &pool)` registers a buffer of size 0 that a move does not re-register
    (HostBuffer.h:531, 561).
15. `resizePool` of a managed pool to the size it has throws "allocation failed"
    (HostBuffer.h:446, 454), which HostBuffer.h:318 does not list.
16. (exhibited by `ArchiveReopened.cfg` and `ArchiveRewritten.cfg`, above)
17. `combine` and `combine2` evaluate the functor at backgrounds with the active flags of
    the last tile (RootNode.h:3418-3421); `combine2` leaves keys that neither argument has.
18. InternalNode.h:641 says `topologyDifference` "modifies only active states, not
    values"; a child that it deletes becomes a tile of the background.
19. Points: `reorderAttributes` that permutes group arrays exchanges their groups
    (AttributeSet.cc:431); `appendAttribute` of a name that exists pushes an array
    without a position in the descriptor; reading the size through the non-const
    `get(0)` makes "P" unique.
20. Files: without grid offsets `readGrid("a")` of two grids "a" throws `KeyError` while
    `hasGrid("a")` is true (File.cc:366); two grids whose names really are "a[1]" are
    listed as "a[1][0]" and "a[1][1]" and cannot be read so (GridDescriptor.cc:185). A list
    full, half, full precision writes one tree three times (Archive.cc:1176); errors of the
    output stream are not looked at (File.cc:617-635).
21. `signedFloodFill` leaves tiles of the root that lie between no inside children,
    returns before `setBackground` when the root has no child
    (SignedFloodFill.h:195), and like `changeLevelSetBackground` overwrites active
    tiles of internal nodes, although the comments speak of inactive ones.
    `signedFloodFillWithValues` takes an inside width of 0, with which the inside is
    no longer negative (SignedFloodFill.h:98-103), where
    `changeAsymmetricLevelSetBackground` throws (ChangeBackground.h:171); the contract is
    about inside values below 0.
22. tools/Merge.h: a tile of a sum may be added twice when several trees are summed,
    because `addTile` does nothing where a node is (1394-1395); the root's test
    for an inside tile looks at inactive ones only; nodes of trees with different
    backgrounds are merged leaf by leaf without rescaling.
23. TreeIterator.h:679-681 says that `setValue` marks the entry as active; it does not
    (InternalNode.h:163, LeafNode.h:242-253). `modifyValue` activates voxels
    (LeafNode.h:269) and not tiles.
24. In a sum, a node that is copied from the other tree meets that tree again,
    because the probe is at the node's origin (Merge.h:1455): a non-zero tile
    there is added a second time.
25. `clearAllAccessors` iterates over a concurrent map while other threads may attach
    accessors (Tree.h:1425); `clipUnallocatedNodes` replaces a leaf node by
    `addTile` at level 0, which sets one voxel (Tree.h:1672).

## 7. What is not modelled

`PROJECT.json` lists every part with its reason. In the modelled parts:

- *Queue*: what writing a grid does (its outcome is a choice), callbacks that
  throw, several client threads (the members are not made for it).
- *Tree*: serialization, leaf buffers that are out of core or have no memory;
  values are small integers.
- *Tools*: morphology (dilation and erosion work on the masks of whole
  neighbourhoods of leaf nodes) and the clip tools; the threads of the node
  manager, whose tasks share no node.
- *Two trees*: merging by stealing nodes, sums of several trees, values other than
  small integers.
- *Iterators*: the iterators over one node are modelled by the entries they stop
  at; copies of an iterator.
- *Accessors*: the cached leaf buffer pointer, accessors that do not register,
  `ValueAccessorRW`, and operations of other threads inside one operation.
- *Paged array*: `fill`, `sort`, iterators; a page is written by whole flushes.
- *Pool*: failing allocations, sizes of 0, `init` of a registered buffer.
- *Points*: metadata, default values, conversion, compression and the locks of
  `AttributeArray`; groups written by several threads.
- *Archive*: bytes, compression, delayed loading, `readGridMetadata`, streams that
  fail while reading or writing, null grids. Instancing is fixed for a File; an open
  that fails is modelled for files without grid offsets, where it leaves a state.

Outside: floating-point tools, codecs, AX, bindings, CUDA and the command line
have no protocol a model checker can enumerate, or need a model of another
system. The managers of nodes and leaf buffers are next in the plan, then
`NodeMask` and `Coord` as pure functions.
