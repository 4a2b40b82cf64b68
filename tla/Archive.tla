------------------------------- MODULE Archive -------------------------------
(***************************************************************************)
(* io::Archive, io::File and io::Stream: how grids get their names in a    *)
(* file, how grids that share a tree are written once and connected again  *)
(* when they are read, and what File objects remember between open(),      *)
(* close(), copies and open() that throws.                                 *)
(*                                                                         *)
(* A tree, a transform and a stem of a name are values that are only       *)
(* compared.  A name is a stem with a sequence of numbers in brackets, as  *)
(* "a[1]"; a unique name is a name with a suffix, as the code writes with  *)
(* a separator that no name contains.  Bytes, compression, metadata other  *)
(* than names, conversions of the value type and partial reading are left  *)
(* out; the position of a grid is its descriptor.                          *)
(***************************************************************************)
EXTENDS Naturals, FiniteSets, Sequences, SequencesExt

CONSTANTS
    Files,      \* the File objects, all of one file name
    Lists,      \* the lists of grids that are written
    Rewrites,   \* bound: the lists that are written over one another
    Alphabet,   \* the names of grids in the order of std::string
    Anonymous,  \* the empty name
    Queries,    \* the names that grids are looked up by
    MaxWrites,  \* bound: files written
    MaxStale,   \* bound: descriptors in a table that open() adds to
    Whole,      \* the region of a tree that is not clipped
    Nothing     \* the tree of a grid that is stored without one

ASSUME ArchiveAssumption ==
    /\ MaxWrites \in Nat /\ MaxStale \in Nat
    /\ Rewrites \subseteq Lists
    /\ Alphabet \in Seq(Range(Alphabet)) /\ Anonymous \in Range(Alphabet)
    /\ \A name \in Range(Alphabet) \union Queries :
          name = [stem |-> name.stem, brackets |-> name.brackets] /\ name.brackets \in Seq(Nat)
    /\ \A list \in Lists :
          /\ list \in Seq(Range(list))
          /\ \A i \in DOMAIN list : /\ list[i].name \in Range(Alphabet)
                                    /\ list[i].half \in BOOLEAN
                                    /\ list[i].tree # Nothing

VARIABLES
    disk,   \* the file, with the list and the writer's flag that it came from
    file,   \* each File object
    writes  \* how often the file was written: there is none before

archiveVars == <<disk, file, writes>>

------------------------------------------------------------------------------
(* Parts of sequences.                                                      *)

\* The n-th of these positions.
Nth(positions, n) == CHOOSE i \in positions : Cardinality({j \in positions : j <= i}) = n

\* The elements at these positions, in their order.
Part(seq, positions) == [n \in 1 .. Cardinality(positions) |-> seq[Nth(positions, n)]]

------------------------------------------------------------------------------
(* Names.                                                                   *)

Plain(name) == [name |-> name, suffix |-> <<>>]

AddSuffix(name, n) == [name |-> name, suffix |-> <<n>>]

StripSuffix(unique) == unique.name

NameAsString(unique) == [unique.name EXCEPT !.brackets = @ \o unique.suffix]

\* Mutant: an index in brackets is not looked for.
StringVerbatim(name) == Plain(name)

StringAsUniqueName(name) ==
    [name |-> [name EXCEPT !.brackets = <<>>], suffix |-> name.brackets]

\* A descriptor without a parent names the empty string.
NoParent == Plain(Anonymous)

IsInstance(d) == d.parent # NoParent

------------------------------------------------------------------------------
(* Writing: descriptors with what is stored behind them.                    *)

\* The name for a grid, when the descriptors of out are written.
UniqueName(list, out, name) ==
    LET used == {out[i].unique : i \in DOMAIN out}
        repeated == \E i, j \in DOMAIN list : i # j /\ list[i].name = name /\ list[j].name = name
        first == IF name = Anonymous \/ repeated THEN AddSuffix(name, 0) ELSE Plain(name)
    IN  IF first \notin used THEN first
        ELSE CHOOSE u \in {AddSuffix(name, n) : n \in 1 .. Len(list)} :
                 /\ u \notin used
                 /\ \A n \in 1 .. u.suffix[1] - 1 : AddSuffix(name, n) \in used

\* Mutant: a tree that is written again is not remembered.
FirstWritten(out, tree) == SelectInSeq(out, LAMBDA d : d.stored = tree)

\* Where the tree was last written in full.
LastWritten(out, tree) == SelectLastInSeq(out, LAMBDA d : d.stored = tree)

\* Mutant: the precision is not compared.
ShareableAlways(owner, grid) == TRUE

Shareable(owner, grid) == owner.half = grid.half

\* Mutant: the parent is named by its grid name.
DescribedByGridName(list, instancing, out, i) ==
    LET grid == list[i]
        at == LastWritten(out, grid.tree)
        instance == instancing /\ at # 0 /\ Shareable(out[at], grid)
    IN  [unique    |-> UniqueName(list, out, grid.name),
         half      |-> grid.half,
         parent    |-> IF instance THEN Plain(StripSuffix(out[at].unique)) ELSE NoParent,
         id        |-> i,
         transform |-> grid.transform,
         stored    |-> IF instance THEN Nothing ELSE grid.tree]

\* The descriptor of one more grid, which is an instance if its tree is there.
Described(list, instancing, out, i) ==
    LET grid == list[i]
        at == LastWritten(out, grid.tree)
        instance == instancing /\ at # 0 /\ Shareable(out[at], grid)
    IN  [unique    |-> UniqueName(list, out, grid.name),
         half      |-> grid.half,
         parent    |-> IF instance THEN out[at].unique ELSE NoParent,
         id        |-> i,
         transform |-> grid.transform,
         stored    |-> IF instance THEN Nothing ELSE grid.tree]

Written(list, instancing) ==
    LET out[n \in 0 .. Len(list)] ==
            IF n = 0 THEN <<>>
            ELSE Append(out[n - 1], Described(list, instancing, out[n - 1], n))
    IN  out[Len(list)]

------------------------------------------------------------------------------
(* Reading.  A grid that was read has the identity of its tree, which is    *)
(* the name of the grid that it was read for, and the tree's content.       *)

\* The multimap of descriptors, which are kept here as inserted, is gone through by
\* name, and those of one name as inserted.
ByName(descriptors) ==
    LET Rank(i) == SelectInSeq(Alphabet, LAMBDA name : name = StripSuffix(descriptors[i].unique))
        UpTo(i) == {j \in DOMAIN descriptors :
                        Rank(j) < Rank(i) \/ (Rank(j) = Rank(i) /\ j <= i)}
    IN  [n \in DOMAIN descriptors |->
            descriptors[CHOOSE i \in DOMAIN descriptors : Cardinality(UpTo(i)) = n]]

OfName(descriptors, name) ==
    Part(descriptors, {i \in DOMAIN descriptors : StripSuffix(descriptors[i].unique) = name})

\* Archive::readGrid: an instance is read without a tree.
ReadFrom(d, region) ==
    [id |-> d.id, unique |-> d.unique, transform |-> d.transform, owner |-> d.unique,
     content |-> [tree |-> d.stored, half |-> d.half, region |-> region]]

ReadAll(descriptors) == [i \in DOMAIN descriptors |-> ReadFrom(descriptors[i], Whole)]

\* The map of grids by unique name, in which the last one of a name counts.
Named(grids, unique) == SelectLastInSeq(grids, LAMBDA g : g.unique = unique)

\* A tree is shared, or copied if instancing is disabled.
WithTreeOf(grid, parent, instancing) ==
    [grid EXCEPT !.content = parent.content,
                 !.owner = IF instancing THEN parent.owner ELSE @]

ConnectInstance(grids, d, instancing) ==
    LET g == Named(grids, d.unique)
        p == Named(grids, d.parent)
    IN  IF IsInstance(d) /\ g # 0
        THEN [grids EXCEPT ![g] = WithTreeOf(@, grids[p], instancing)]
        ELSE grids

\* connectInstance() throws.
ParentMissing(grids, descriptors) ==
    \E d \in Range(descriptors) :
        IsInstance(d) /\ Named(grids, d.unique) # 0 /\ Named(grids, d.parent) = 0

Connected(grids, descriptors, instancing) ==
    LET after[n \in 0 .. Len(descriptors)] ==
            IF n = 0 THEN grids ELSE ConnectInstance(after[n - 1], descriptors[n], instancing)
    IN  after[Len(descriptors)]

\* Stream::Stream(std::istream&).
Streamed(descriptors, instancing) ==
    Connected(ReadAll(descriptors), descriptors, instancing)

------------------------------------------------------------------------------
(* Looking up and reading from a File that is open.                         *)

FindDescriptorByUniqueName(table, unique) == SelectInSeq(table, LAMBDA d : d.unique = unique)

\* The first position in the table of the descriptor that is meant, 0 if there is none.
FindDescriptor(table, name) ==
    LET unique == StringAsUniqueName(name)
        group == IF \E d \in Range(table) : StripSuffix(d.unique) = name
                 THEN name ELSE StripSuffix(unique)
    IN  SelectInSeq(table, LAMBDA d :
            /\ StripSuffix(d.unique) = group
            /\ unique = Plain(name) \/ d.unique \in {unique, Plain(name)})

HasGrid(f, name) == FindDescriptor(file[f].descriptors, name) # 0

\* The index of a grid among those that open() has read, 0 if there is none.
RetrieveCachedGrid(f, name) ==
    LET unique == Named(file[f].grids, StringAsUniqueName(name))
    IN  IF unique # 0 THEN unique ELSE Named(file[f].grids, Plain(name))

\* A clip goes by the transform of each grid.
Clipped(grid) == [grid EXCEPT !.content.region = grid.transform]

Region(d, clip) == IF clip THEN d.transform ELSE Whole

\* The parent of an instance is read whole, for it alone, and the instance is clipped.
ReadGridFromDescriptor(f, d, clip) ==
    LET table == file[f].descriptors
        parent == table[FindDescriptorByUniqueName(table, d.parent)]
        whole == WithTreeOf(ReadFrom(d, Whole), ReadFrom(parent, Whole), FALSE)
    IN  IF IsInstance(d) THEN IF clip THEN Clipped(whole) ELSE whole
        ELSE ReadFrom(d, Region(d, clip))

\* resolveCachedGrids() for a clip: grids of one tree share the clipped one if they
\* have the transform of the first of them.
ClippedCached(grids, instancing) ==
    LET First(i) == SelectInSeq(grids, LAMBDA g : g.owner = grids[i].owner)
        Model(i) == IF instancing /\ grids[First(i)].transform = grids[i].transform
                    THEN First(i) ELSE i
    IN  [i \in DOMAIN grids |-> [Clipped(grids[i]) EXCEPT !.owner = grids[Model(i)].unique]]

ResolveCachedGrids(grids, instancing, clip) ==
    IF clip THEN ClippedCached(grids, instancing) ELSE grids

GetGrids(f, clip) ==
    LET table == ByName(file[f].descriptors)
    IN  IF ~ file[f].offsets
        THEN ResolveCachedGrids(file[f].grids, file[f].instancing, clip)
        ELSE IF clip
        THEN [i \in DOMAIN table |-> ReadGridFromDescriptor(f, table[i], TRUE)]
        ELSE Streamed(table, file[f].instancing)

\* A sequence of at most one grid, empty where the code throws.
ReadGrid(f, name, clip) ==
    LET cached == RetrieveCachedGrid(f, name)
        found == FindDescriptor(file[f].descriptors, name)
    IN  IF ~ file[f].offsets
        THEN IF cached = 0 THEN <<>>
             ELSE ResolveCachedGrids(<<file[f].grids[cached]>>, FALSE, clip)
        ELSE IF found = 0 THEN <<>>
        ELSE <<ReadGridFromDescriptor(f, file[f].descriptors[found], clip)>>

\* The descriptors of the parents that are not among those to be read.
ParentsOf(table, range) ==
    Part(table, {FindDescriptorByUniqueName(table, d.parent) :
                     d \in {c \in Range(range) : /\ IsInstance(c)
                                                /\ \A e \in Range(range) : e.unique # c.parent}})

\* The grids of one name; the parents are read to connect instances and dropped.
ReadGrids(f, name, clip) ==
    LET range == OfName(file[f].descriptors, name)
        cached == Part(range, {i \in DOMAIN range : Named(file[f].grids, range[i].unique) # 0})
        read == ReadAll(range) \o ReadAll(ParentsOf(file[f].descriptors, range))
    IN  IF ~ file[f].offsets
        THEN ResolveCachedGrids(
                 [i \in DOMAIN cached |-> file[f].grids[Named(file[f].grids, cached[i].unique)]],
                 file[f].instancing, clip)
        ELSE IF clip
        THEN [i \in DOMAIN range |-> ReadGridFromDescriptor(f, range[i], TRUE)]
        ELSE SubSeq(Connected(read, range, file[f].instancing), 1, Len(range))

------------------------------------------------------------------------------
(* Clients.  None writes the file while a File has it open.                 *)

NewFile(instancing) ==
    [isOpen |-> FALSE, offsets |-> TRUE, instancing |-> instancing,
     descriptors |-> <<>>, grids |-> <<>>]

ArchiveInit ==
    /\ disk = [offsets |-> TRUE, descriptors |-> <<>>, list |-> <<>>, instancing |-> FALSE]
    /\ file \in [Files -> {NewFile(instancing) : instancing \in BOOLEAN}]
    /\ writes = 0

Store(list, instancing, offsets) ==
    /\ writes < MaxWrites
    /\ \A f \in Files : ~ file[f].isOpen
    /\ \/ writes = 0 /\ list \in Lists
       \/ {disk.list, list} \subseteq Rewrites
    /\ disk' = [offsets |-> offsets, descriptors |-> Written(list, instancing),
                list |-> list, instancing |-> instancing]
    /\ writes' = writes + 1
    /\ UNCHANGED file

\* File::write.
Write(f, list) == Store(list, file[f].instancing, TRUE)

\* A Stream writes to the file, without offsets.
WriteStream(list, instancing) == Store(list, instancing, FALSE)

\* open() of a file with offsets reads the descriptors only.
OpenWithOffsets(f) ==
    /\ ~ file[f].isOpen
    /\ writes > 0 /\ disk.offsets
    /\ file' = [file EXCEPT ![f] = [@ EXCEPT !.isOpen = TRUE, !.offsets = TRUE,
                                             !.descriptors = disk.descriptors]]
    /\ UNCHANGED <<disk, writes>>

\* Mutant: the grids that were read before are kept.
LoadingOnTop(f, n) ==
    [file[f] EXCEPT !.offsets = FALSE,
                    !.descriptors = @ \o SubSeq(disk.descriptors, 1, n),
                    !.grids = @ \o ReadAll(SubSeq(disk.descriptors, 1, n))]

\* What open() of a file without offsets has read after n grids: the descriptors come
\* after those that the table has, of an open() that threw or of the File that was copied.
Loading(f, n) ==
    [file[f] EXCEPT !.offsets = FALSE,
                    !.descriptors = @ \o SubSeq(disk.descriptors, 1, n),
                    !.grids = ReadAll(SubSeq(disk.descriptors, 1, n))]

Loaded(f) == Loading(f, Len(disk.descriptors))

OpenWithoutOffsets(f) ==
    /\ ~ file[f].isOpen
    /\ writes > 0 /\ ~ disk.offsets
    /\ Len(file[f].descriptors) <= MaxStale
    /\ ~ ParentMissing(Loaded(f).grids, Loaded(f).descriptors)
    /\ file' = [file EXCEPT ![f] =
                   [Loaded(f) EXCEPT !.isOpen = TRUE,
                                     !.grids = Connected(@, ByName(Loaded(f).descriptors), file[f].instancing)]]
    /\ UNCHANGED <<disk, writes>>

\* open() throws: at a grid whose type is not registered (yet), or at an instance.
OpenThrows(f, n) ==
    /\ ~ file[f].isOpen
    /\ writes > 0 /\ ~ disk.offsets
    /\ Len(file[f].descriptors) <= MaxStale
    /\ \/ n < Len(disk.descriptors)
       \/ n = Len(disk.descriptors) /\ ParentMissing(Loaded(f).grids, Loaded(f).descriptors)
    /\ file' = [file EXCEPT ![f] = Loading(f, n)]
    /\ UNCHANGED <<disk, writes>>

Close(f) ==
    /\ file' = [file EXCEPT ![f] = NewFile(@.instancing)]
    /\ UNCHANGED <<disk, writes>>

\* Assignment; a copy is a File that was constructed and assigned.
Assign(f, other) ==
    /\ f # other
    /\ file' = [file EXCEPT ![f] = [file[other] EXCEPT !.isOpen = FALSE]]
    /\ UNCHANGED <<disk, writes>>

ArchiveNext ==
    \/ \E f \in Files, list \in Lists : Write(f, list)
    \/ \E list \in Lists, instancing \in BOOLEAN : WriteStream(list, instancing)
    \/ \E f \in Files :
        \/ OpenWithOffsets(f)
        \/ OpenWithoutOffsets(f)
        \/ \E n \in 0 .. Len(disk.descriptors) : OpenThrows(f, n)
        \/ Close(f)
        \/ \E other \in Files : Assign(f, other)

ArchiveSpec == ArchiveInit /\ [][ArchiveNext]_archiveVars

------------------------------------------------------------------------------
(* Type invariant.                                                          *)

Descriptors ==
    LET unique == [name : Range(Alphabet), suffix : Seq(Nat)]
        grids == UNION {Range(list) : list \in Lists}
    IN  [unique : unique, half : BOOLEAN, parent : unique, id : Nat,
         transform : {g.transform : g \in grids},
         stored : {g.tree : g \in grids} \union {Nothing}]

\* The state has its type.  In the file, what has no tree is an instance and names an
\* earlier grid that has one; an open File knows whether it has offsets, and its table
\* has every descriptor.
ArchiveTypeOK ==
    /\ writes \in 0 .. MaxWrites
    /\ Range(disk.descriptors) \subseteq Descriptors
    /\ \A i \in DOMAIN disk.descriptors :
          LET d == disk.descriptors[i]
          IN  IF d.stored = Nothing
              THEN \E k \in 1 .. i - 1 : /\ disk.descriptors[k].unique = d.parent
                                        /\ disk.descriptors[k].stored # Nothing
              ELSE ~ IsInstance(d)
    /\ \A f \in Files :
          /\ Range(file[f].descriptors) \subseteq Descriptors
          /\ file[f].isOpen => /\ writes > 0
                               /\ file[f].offsets = disk.offsets
                               /\ Range(disk.descriptors) \subseteq Range(file[f].descriptors)

------------------------------------------------------------------------------
(* What was written is what is read.                                        *)

Source == disk.list

\* The Files that are open and whose table has no descriptor that is not in the file.  The
\* others are open too, and go wrong: OpenFileComplete.
Readers == {f \in Files : file[f].isOpen /\ Range(file[f].descriptors) \subseteq Range(disk.descriptors)}

\* The table is the file's.  Otherwise it has descriptors twice: open() of a file without
\* offsets does not clear it (File.cc:244), and an open() that threw, or an open File that
\* this one is a copy of, has left some there.  Then NamedOnce is violated.
Fresh(f) == file[f].descriptors = disk.descriptors

\* The content of a grid, as it was written.
HasItsContent(grid, clip) ==
    LET g == Source[grid.id]
    IN  grid.content = [tree |-> g.tree, half |-> g.half, region |-> IF clip THEN g.transform ELSE Whole]

Complete(grids, clip) ==
    /\ Len(grids) = Len(Source)
    /\ {grid.id : grid \in Range(grids)} = DOMAIN Source
    /\ \A grid \in Range(grids) : HasItsContent(grid, clip)

IdsOf(name) ==
    Part([i \in DOMAIN Source |-> i], {i \in DOMAIN Source : Source[i].name = name})

\* The grids of a name in the file's order; in any order and several times, if the table
\* is not the file's.
AllOfName(f, name, clip) ==
    LET grids == ReadGrids(f, name, clip)
        ids == [i \in DOMAIN grids |-> grids[i].id]
    IN  /\ IF Fresh(f) THEN ids = IdsOf(name) ELSE Range(ids) = Range(IdsOf(name))
        /\ \A grid \in Range(grids) : HasItsContent(grid, clip)

\* The name that NameIterator shows is that of no other grid, and is read as the unique
\* name that it was made from: a number was not added to a name in brackets.
Unambiguous(d) ==
    /\ d.suffix = <<>> \/ d.name.brackets = <<>>
    /\ \A e \in Range(disk.descriptors) :
          e.unique # d => NameAsString(e.unique) # NameAsString(d)

\* Numbered grids are called so: a File with offsets looks at those and at no others
\* (File::findDescriptor), and so does hasGrid() of any File.
InTheWay(name) ==
    \E e \in Range(disk.descriptors) : StripSuffix(e.unique) = name /\ e.unique # Plain(name)

\* File::readGrid() finds no grid but one that is called as was asked, or listed so.  The
\* name that the file lists a grid by leads to that grid, if the name is unambiguous and,
\* for a File with offsets, no numbered grids are called so; of the other names nothing is
\* said here, NumberedFound is about them.  What readGrid() finds, hasGrid() does not
\* deny, if no numbered grids are called so.  A name without an index leads to the first
\* grid of that name, if the file has offsets.
NamesFound ==
    \A f \in Readers, clip \in BOOLEAN :
        /\ \A i \in DOMAIN disk.descriptors :
              LET unique == disk.descriptors[i].unique
                  grids == ReadGrid(f, NameAsString(unique), clip)
              IN  Unambiguous(unique) /\ ~ (file[f].offsets /\ InTheWay(NameAsString(unique))) =>
                    grids # <<>> /\ grids[1].id = i /\ HasItsContent(grids[1], clip)
        /\ \A name \in Queries :
              LET grids == ReadGrid(f, name, clip)
              IN  /\ grids # <<>> =>
                        /\ name \in {StripSuffix(grids[1].unique), NameAsString(grids[1].unique)}
                        /\ HasItsContent(grids[1], clip)
                        /\ InTheWay(name) \/ HasGrid(f, name)
                  /\ file[f].offsets /\ name.brackets = <<>> =>
                        IF IdsOf(name) = <<>> THEN grids = <<>>
                        ELSE grids # <<>> /\ grids[1].id = IdsOf(name)[1]

\* Reading gives what was written, of Files that show nothing but the file (Readers):
\* File::getGrids and Stream give every grid once, with the tree and the precision that it
\* had, whether its own tree was stored or that of an instance parent, and clipped by its
\* own transform, with and without grid offsets.  File::readGrids gives all grids of
\* exactly the given name, although the parents of instances may have other names, in file
\* order and once if the File's table is the file's (Fresh).  File::readGrid() finds grids
\* by their names as NamesFound says, with its conditions.
GridsMeetContract ==
    /\ NamesFound
    /\ \A f \in Readers, clip \in BOOLEAN :
          /\ Complete(GetGrids(f, clip), clip)
          /\ \A name \in Range(Alphabet) : AllOfName(f, name, clip)
    /\ \A instancing \in BOOLEAN : Complete(Streamed(disk.descriptors, instancing), FALSE)

\* Grids that had one tree and one precision, and none of that tree with the other
\* precision between them: the writer has then forgotten the first (Archive.cc:1176).
OneTree(i, j) ==
    \A k \in (IF i < j THEN i .. j ELSE j .. i) :
        /\ Source[i].tree = Source[j].tree
        /\ Source[k].tree = Source[i].tree => Source[k].half = Source[i].half

\* Sharing was enabled (Archive::isInstancingEnabled) on both sides.
Shared(grids, instancing) ==
    \A i, j \in DOMAIN grids :
        (grids[i].owner = grids[j].owner)
            <=> (grids[i].id = grids[j].id
                 \/ (instancing /\ disk.instancing /\ OneTree(grids[i].id, grids[j].id)))

\* Grids share a tree after reading exactly if they did when they were written, if both
\* sides have enabled it: otherwise a change of one grid is a change of another, or memory
\* is taken twice.  A clip only takes sharing away.  Of Files that show nothing but the
\* file.
SharingMeetsContract ==
    /\ \A f \in Readers :
          /\ Shared(GetGrids(f, FALSE), file[f].instancing)
          /\ \A name \in Range(Alphabet) : Shared(ReadGrids(f, name, FALSE), file[f].instancing)
          /\ LET clipped == GetGrids(f, TRUE)
             IN  \A i, j \in DOMAIN clipped :
                    clipped[i].id # clipped[j].id /\ clipped[i].owner = clipped[j].owner =>
                        OneTree(clipped[i].id, clipped[j].id) /\ file[f].instancing /\ disk.instancing
    /\ \A instancing \in BOOLEAN : Shared(Streamed(disk.descriptors, instancing), instancing)

------------------------------------------------------------------------------
(* What the headers say of every File that is open.  Each is violated.      *)

\* File.h:165 says that "density[1]" is tested against the unique name, "so it matches
\* the second density grid": a grid that was numbered, and that has no index in its own
\* name, is there for hasGrid() and readGrid() by the name that the file lists it by, or
\* one that is listed alike is.
NumberedFound ==
    \A f \in Files, i \in DOMAIN disk.descriptors :
        LET unique == disk.descriptors[i].unique
            name == NameAsString(unique)
            grids == ReadGrid(f, name, FALSE)
        IN  file[f].isOpen /\ unique.suffix # <<>> /\ unique.name.brackets = <<>> =>
              HasGrid(f, name) /\ grids # <<>> /\ NameAsString(grids[1].unique) = name

\* File.h:111 says that readGrids() reads "all grids whose grid name is exactly name, in
\* file order".
NamedOnce ==
    \A f \in Files, name \in Range(Alphabet) :
        LET grids == ReadGrids(f, name, FALSE)
        IN  file[f].isOpen => [i \in DOMAIN grids |-> grids[i].id] = IdsOf(name)

\* File.h:89 says that getGrids() reads "the entire contents of the file".
OpenFileComplete ==
    \A f \in Files : file[f].isOpen => Complete(GetGrids(f, FALSE), FALSE)
===============================================================================
