------------------------------ MODULE PagedArray ------------------------------
(***************************************************************************)
(* util::PagedArray, an array made of pages that threads append to through *)
(* buffers of one page each (PagedArray::ValueBuffer).                     *)
(*                                                                         *)
(* The page table is the sequence of the entries of its pages, one page    *)
(* after the other; an entry that was never written, or that lies behind   *)
(* the end after a resize, is Unset.  add() and merge() run under          *)
(* mGrowthMutex, each is one step here; the operations that are documented *)
(* as not safe for threads are called while no other operation runs.       *)
(***************************************************************************)
EXTENDS Naturals, Sequences, FiniteSetsExt

CONSTANTS Arrays,      \* the paged arrays
          Buffers,     \* the value buffers
          Parent,      \* ValueBuffer::mParent
          Values,      \* the values pushed
          Unset,       \* an entry that holds no value
          PageSize,    \* Page::Size
          MaxSize,     \* bounds the elements of all arrays and buffers
          Shrinking    \* do clients resize arrays so that whole pages are left over?

VARIABLES mPageTable,  \* the entries of all pages of every array
          mSize,       \* PagedArray::mSize
          buffered,    \* the values in every buffer
          held         \* how often every value was put into the array for good

vars == <<mPageTable, mSize, buffered, held>>

ASSUME PagedArrayAssumption ==
    /\ PageSize \in Nat /\ PageSize > 2
    /\ MaxSize \in Nat
    /\ Parent \in [Buffers -> Arrays]
    /\ Unset \notin Values
    /\ Shrinking \in BOOLEAN

NewPage == [i \in 1 .. PageSize |-> Unset]
Smaller(m, n) == IF m < n THEN m ELSE n

\* How often a value is in a sequence.
Count(s, v) == Cardinality({i \in 1 .. Len(s) : s[i] = v})

\* The elements of an array, and where its last page starts.
Elements(p) == SubSeq(mPageTable[p], 1, mSize[p])
LastPage(T) == Len(T) - PageSize

\* The elements that all arrays have, or will have once the buffers are flushed.
Pending == FoldSet(LAMBDA p, n : n + mSize[p], 0, Arrays)
         + FoldSet(LAMBDA b, n : n + Len(buffered[b]), 0, Buffers)

-------------------------------------------------------------------------------
(* What the private operations make of a page table T with n elements.     *)

\* Mutant of AddFull: the full page and the last page do not change places.
AddFullAtEnd(T, n, s) == T \o s

\* add_full(): a full page goes before the last page if that is partially full.
AddFull(T, n, s) ==
    IF n % PageSize # 0
    THEN SubSeq(T, 1, LastPage(T)) \o s \o SubSeq(T, LastPage(T) + 1, Len(T))
    ELSE T \o s

\* The entries of T from the index i upwards are overwritten by s.
Overwritten(T, i, s) ==
    [j \in 1 .. Len(T) |-> IF j > i /\ j <= i + Len(s) THEN s[j - i] ELSE T[j]]

\* add_partially_full(): the values fill up the last page, what is left goes to a
\* new one; if the last page is full, the buffer's page becomes the last.
AddPartiallyFull(T, n, s) ==
    LET fits == Smaller(n + Len(s), Len(T)) - n
        grown == Overwritten(T, LastPage(T) + (n % PageSize), SubSeq(s, 1, fits))
    IN  IF n % PageSize = 0 THEN T \o Overwritten(NewPage, 0, s)
        ELSE IF n + Len(s) > Len(T)
             THEN grown \o Overwritten(NewPage, 0, SubSeq(s, fits + 1, Len(s)))
             ELSE grown

\* add()
Added(T, n, s) ==
    IF Len(s) = PageSize THEN AddFull(T, n, s)
    ELSE IF s # <<>> THEN AddPartiallyFull(T, n, s)
    ELSE T

\* Mutant of Merged: the pages of the other array go before those of this one.
MergedBefore(T, n, U, m) ==
    LET left == n % PageSize
        full == IF left > 0 THEN SubSeq(T, 1, LastPage(T)) ELSE T
        taken == IF left > 0 THEN SubSeq(T, LastPage(T) + 1, LastPage(T) + left) ELSE <<>>
    IN  IF taken = <<>> THEN U \o full
        ELSE AddPartiallyFull(U \o full, n - left + m, taken)

\* merge(): the last page is taken out if it is partially full, the pages of the
\* other array are appended, and the values taken out are added again.
Merged(T, n, U, m) ==
    LET left == n % PageSize
        full == IF left > 0 THEN SubSeq(T, 1, LastPage(T)) ELSE T
        taken == IF left > 0 THEN SubSeq(T, LastPage(T) + 1, LastPage(T) + left) ELSE <<>>
    IN  IF taken = <<>> THEN full \o U
        ELSE AddPartiallyFull(full \o U, n - left + m, taken)

\* shrink_to_fit() frees one page, if there is more than one page behind the one
\* with the end of the array, or if that end is at the start of a page.
ShrunkToFit(T, n) ==
    IF Len(T) \div PageSize > n \div PageSize + 1 THEN SubSeq(T, 1, LastPage(T)) ELSE T

\* grow(size - 1), for a size above the capacity.
Grown(T, size) ==
    T \o [i \in 1 .. ((size - 1) \div PageSize + 1) * PageSize - Len(T) |-> Unset]

-------------------------------------------------------------------------------

Init == /\ mPageTable = [p \in Arrays |-> <<>>]
        /\ mSize = [p \in Arrays |-> 0]
        /\ buffered = [b \in Buffers |-> <<>>]
        /\ held = [p \in Arrays |-> [v \in Values |-> 0]]

\* add() of what a buffer holds, which leaves the buffer empty.
Add(b, s) ==
    LET p == Parent[b] IN
    /\ mPageTable' = [mPageTable EXCEPT ![p] = Added(@, mSize[p], s)]
    /\ mSize' = [mSize EXCEPT ![p] = @ + Len(s)]
    /\ buffered' = [buffered EXCEPT ![b] = <<>>]
    /\ held' = [held EXCEPT ![p] = [v \in Values |-> @[v] + Count(s, v)]]

\* ValueBuffer::push_back flushes the buffer when it has become full.
BufferPushBack(b, v) ==
    LET s == Append(buffered[b], v) IN
    /\ Pending < MaxSize
    /\ IF Len(s) = PageSize
       THEN Add(b, s)
       ELSE /\ buffered' = [buffered EXCEPT ![b] = s]
            /\ UNCHANGED <<mPageTable, mSize, held>>

\* flush() and ~ValueBuffer()
Flush(b) == Add(b, buffered[b])

PushBackUnsafe(p, v) ==
    LET T == IF mSize[p] >= Len(mPageTable[p]) THEN mPageTable[p] \o NewPage ELSE mPageTable[p] IN
    /\ Pending < MaxSize
    /\ mPageTable' = [mPageTable EXCEPT ![p] = [T EXCEPT ![mSize[p] + 1] = v]]
    /\ mSize' = [mSize EXCEPT ![p] = @ + 1]
    /\ held' = [held EXCEPT ![p][v] = @ + 1]
    /\ UNCHANGED buffered

Resize(p, size) ==
    LET kept == SubSeq(Elements(p), 1, Smaller(size, mSize[p]))
        T == [i \in 1 .. Len(mPageTable[p]) |-> IF i <= Len(kept) THEN kept[i] ELSE Unset]
    IN  /\ Pending + size <= MaxSize + mSize[p]
        /\ Shrinking \/ size + PageSize > Len(mPageTable[p])
        /\ mPageTable' = [mPageTable EXCEPT ![p] =
                            IF size > Len(@) THEN Grown(T, size) ELSE ShrunkToFit(T, size)]
        /\ mSize' = [mSize EXCEPT ![p] = size]
        /\ held' = [held EXCEPT ![p] = [v \in Values |-> Count(kept, v)]]
        /\ UNCHANGED buffered

ShrinkToFit(p) ==
    /\ mPageTable' = [mPageTable EXCEPT ![p] = ShrunkToFit(@, mSize[p])]
    /\ UNCHANGED <<mSize, buffered, held>>

Clear(p) ==
    /\ mPageTable' = [mPageTable EXCEPT ![p] = <<>>]
    /\ mSize' = [mSize EXCEPT ![p] = 0]
    /\ held' = [held EXCEPT ![p] = [v \in Values |-> 0]]
    /\ UNCHANGED buffered

Merge(p, q) ==
    /\ p # q /\ mSize[q] # 0
    /\ mPageTable' = [mPageTable EXCEPT ![p] = Merged(@, mSize[p], mPageTable[q], mSize[q]),
                                        ![q] = <<>>]
    /\ mSize' = [mSize EXCEPT ![p] = @ + mSize[q], ![q] = 0]
    /\ held' = [held EXCEPT ![p] = [v \in Values |-> @[v] + held[q][v]],
                            ![q] = [v \in Values |-> 0]]
    /\ UNCHANGED buffered

Next ==
    \/ \E b \in Buffers : Flush(b) \/ \E v \in Values : BufferPushBack(b, v)
    \/ \E p \in Arrays :
          \/ \E v \in Values : PushBackUnsafe(p, v)
          \/ \E size \in 0 .. MaxSize : Resize(p, size)
          \/ ShrinkToFit(p)
          \/ Clear(p)
          \/ \E q \in Arrays : Merge(p, q)

Spec == Init /\ [][Next]_vars

-------------------------------------------------------------------------------
(* Properties.                                                             *)

\* The elements of an array are all that was pushed or merged into it, as often
\* as it was, in whatever order partially full pages were moved; resize() keeps
\* those up to the new size ("push_back will insert after them").
NothingLost == \A p \in Arrays, v \in Values : Count(Elements(p), v) = held[p][v]

\* There is no page behind the one with the last element (TestUtil.cc,
\* "pageCount - 1 = max index >> log2PageSize"): a buffer appends pages at the
\* end of the table, and fills up the last of them.
TightlyPaged == \A p \in Arrays : Len(mPageTable[p]) - mSize[p] < PageSize

\* The array holds what it was given, and its last page has the last element.
PagesExact == NothingLost /\ TightlyPaged

\* Elements in full pages stay where they are when elements are added or another
\* array is merged ("must allow multiple threads to call operator[] as long as
\* only one thread calls push_back").
FullPagesStay ==
    [][\A p \in Arrays :
          LET full == (mSize[p] \div PageSize) * PageSize IN
          mSize'[p] > mSize[p] =>
             SubSeq(mPageTable'[p], 1, full) = SubSeq(mPageTable[p], 1, full)]_vars
===============================================================================
