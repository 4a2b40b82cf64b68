----------------------------- MODULE HostBuffer -----------------------------
(***************************************************************************)
(* nanovdb::HostBuffer (nanovdb/nanovdb/HostBuffer.h): buffers that take   *)
(* their memory from a shared bump pool.  A pool is one block of memory;   *)
(* buffers are cut off its front one after another and give nothing back   *)
(* until the pool is reset.  The pool keeps a register of its buffers, so  *)
(* that it can tell them when the block moves (resizePool) or is taken     *)
(* from them (reset).                                                      *)
(*                                                                         *)
(* Several threads create, move and clear buffers of one pool.  Creating   *)
(* takes two steps: Pool::add reads the free pointer before it takes the   *)
(* mutex, and moves it while it holds it; nothing keeps two threads from   *)
(* reading the same free pointer.  The other operations that touch the     *)
(* register are one critical section each.  resize() and reset() take no   *)
(* lock: their caller sees to it that nobody is creating.                  *)
(*                                                                         *)
(* An address is an offset in bytes from the start of the pool's block;    *)
(* the first `mPadding' bytes of the block are skipped so that the rest is *)
(* aligned.  The owner of a buffer fills it when it gets it; a byte that   *)
(* no buffer uses may hold anything, and is recorded as Unwritten.         *)
(***************************************************************************)
EXTENDS Integers, FiniteSets

CONSTANTS Buffers,        \* the HostBuffer objects of the program
          Pools,          \* the Pool objects
          BufferSizes,    \* the sizes asked for, of buffers
          PoolSizes,      \* and of pools
          MaxSize,        \* bound: no size is larger
          Alignment,      \* NANOVDB_DATA_ALIGNMENT
          NoPool, NullPtr, NotAdding, Unwritten

ASSUME SizeAssumption == /\ MaxSize \in Nat /\ Alignment \in Nat \ {0}
                         /\ BufferSizes \subseteq 1 .. MaxSize /\ PoolSizes \subseteq 1 .. MaxSize
ASSUME NoneAssumption == NoPool \notin Pools /\ Unwritten \notin Buffers
                         /\ NullPtr \notin Int
                         /\ NotAdding \notin Int

VARIABLES mPool,      \* the pool each buffer shares, or NoPool
          mSize,      \* its size in bytes; 0 for a handle of the pool itself
          mData,      \* its memory
          adding,     \* what a thread in Pool::add read before taking the mutex
          mRegister,  \* the buffers each pool has registered
          pool,       \* the fields of each pool
          memory,     \* what was written to each byte of its block, and by whom
          wrote,      \* what each buffer's owner last wrote to it
          raced       \* auxiliary: the pools in which creations have overlapped

vars == <<mPool, mSize, mData, adding, mRegister, pool, memory, wrote, raced>>

Sizes   == BufferSizes \union PoolSizes
Padding == 0 .. Alignment - 1
Bytes   == 0 .. MaxSize + Alignment - 1
Garbage == [i \in Bytes |-> Unwritten]

\* The pool that nobody holds: its memory is freed.
Freed == [size |-> 0, managed |-> FALSE, padding |-> 0, free |-> 0]

\* A pool of n bytes, in memory of its own or in external memory, which the
\* constructor accepts only if it is aligned.
NewPool(n, managed, padding) ==
  [size |-> n, managed |-> managed, padding |-> padding, free |-> padding]

Holders(p) == {b \in Buffers : mPool[b] = p}
Adding(p) == {b \in Holders(p) : adding[b] /= NotAdding}
Idle(b) == adding[b] = NotAdding
Constructible(b) == mPool[b] = NoPool
Fresh == {p \in Pools : Holders(p) = {}}

\* The next aligned address of a block.
AlignUp(at, padding) == at + ((padding - at) % Alignment)

Usage(p) == pool[p].free - pool[p].padding

\* What becomes of the pools when buffers let go of them: the last holder's
\* shared_ptr destroys the pool and frees its memory.
Surviving(pools, holds) ==
  [p \in Pools |-> IF \E b \in Buffers : holds[b] = p THEN pools[p] ELSE Freed]
Remaining(mem, holds) ==
  [p \in Pools |-> IF \E b \in Buffers : holds[b] = p THEN mem[p] ELSE Garbage]
StillHeld(pools, holds) == {p \in pools : \E b \in Buffers : holds[b] = p}

\* The memory of a pool after n bytes of it were filled for buffer b, and after
\* b gave up what it had.
Filled(p, at, n, b) == [i \in Bytes |-> IF i - at \in 0 .. n - 1 THEN b ELSE memory[p][i]]
GivenUp(p, b) == IF mSize[b] = 0 THEN memory[p]
                 ELSE Filled(p, mData[b], mSize[b], Unwritten)

-----------------------------------------------------------------------------
Init ==
  /\ mPool = [b \in Buffers |-> NoPool]
  /\ mSize = [b \in Buffers |-> 0]
  /\ mData = [b \in Buffers |-> NullPtr]
  /\ adding = [b \in Buffers |-> NotAdding]
  /\ mRegister = [p \in Pools |-> {}]
  /\ pool = [p \in Pools |-> Freed]
  /\ memory = [p \in Pools |-> Garbage]
  /\ wrote = [b \in Buffers |-> Unwritten]
  /\ raced = {}

\* createPool: a handle of a new pool, not registered since it uses no memory.
CreatePool(b, p, n, managed, padding) ==
  /\ Constructible(b) /\ p \in Fresh
  /\ managed \/ padding = 0
  /\ mPool' = [mPool EXCEPT ![b] = p]
  /\ pool' = [pool EXCEPT ![p] = NewPool(n, managed, padding)]
  /\ mRegister' = [mRegister EXCEPT ![p] = {}]
  /\ UNCHANGED <<mSize, mData, adding, memory, wrote, raced>>

\* createFull, create() without a pool and the constructor: a buffer that
\* takes all the memory of a pool of its own.
CreateFull(b, p, n, managed, padding) ==
  /\ Constructible(b) /\ p \in Fresh
  /\ managed \/ padding = 0
  /\ mPool' = [mPool EXCEPT ![b] = p]
  /\ mSize' = [mSize EXCEPT ![b] = n]
  /\ mData' = [mData EXCEPT ![b] = padding]
  /\ pool' = [pool EXCEPT ![p] = [NewPool(n, managed, padding) EXCEPT !.free = padding + n]]
  /\ mRegister' = [mRegister EXCEPT ![p] = {b}]
  /\ memory' = [memory EXCEPT ![p] = Filled(p, padding, n, b)]
  /\ wrote' = [wrote EXCEPT ![b] = b]
  /\ UNCHANGED <<adding, raced>>

\* Mutant of StartCreate: the room is counted from the free pointer, not from the
\* next aligned address.
StartUnaligned(b, p, n) ==
  /\ Constructible(b) /\ Holders(p) /= {}
  /\ pool[p].free + n <= pool[p].padding + pool[p].size
  /\ adding' = [adding EXCEPT ![b] = AlignUp(pool[p].free, pool[p].padding)]
  /\ mPool' = [mPool EXCEPT ![b] = p]
  /\ mSize' = [mSize EXCEPT ![b] = n]
  /\ raced' = IF Adding(p) = {} THEN raced ELSE raced \union {p}
  /\ UNCHANGED <<mData, mRegister, pool, memory, wrote>>

\* create() with a pool, up to the mutex of Pool::add: the room is checked
\* against the free pointer read here, also while another thread is between its
\* own reading and the mutex.  Without room add() throws, and the buffer that
\* never got memory is destroyed.
StartCreate(b, p, n) ==
  /\ Constructible(b) /\ Holders(p) /= {}
  /\ LET alignedFree == AlignUp(pool[p].free, pool[p].padding)
     IN  /\ alignedFree + n <= pool[p].padding + pool[p].size
         /\ adding' = [adding EXCEPT ![b] = alignedFree]
  /\ mPool' = [mPool EXCEPT ![b] = p]
  /\ mSize' = [mSize EXCEPT ![b] = n]
  /\ raced' = IF Adding(p) = {} THEN raced ELSE raced \union {p}
  /\ UNCHANGED <<mData, mRegister, pool, memory, wrote>>

\* Mutant of FinishCreate: the free pointer is advanced by the size, and the
\* bytes skipped for alignment are not counted.
FinishUnaligned(b) ==
  /\ ~Idle(b)
  /\ LET p == mPool[b]
     IN  /\ mRegister' = [mRegister EXCEPT ![p] = @ \union {b}]
         /\ mData' = [mData EXCEPT ![b] = adding[b]]
         /\ pool' = [pool EXCEPT ![p].free = @ + mSize[b]]
         /\ memory' = [memory EXCEPT ![p] = Filled(p, adding[b], mSize[b], b)]
  /\ adding' = [adding EXCEPT ![b] = NotAdding]
  /\ wrote' = [wrote EXCEPT ![b] = b]
  /\ UNCHANGED <<mPool, mSize, raced>>

\* The critical section of Pool::add, after which the owner fills the buffer.
FinishCreate(b) ==
  /\ ~Idle(b)
  /\ LET p == mPool[b]
     IN  /\ mRegister' = [mRegister EXCEPT ![p] = @ \union {b}]
         /\ mData' = [mData EXCEPT ![b] = adding[b]]
         /\ pool' = [pool EXCEPT ![p].free = adding[b] + mSize[b]]
         /\ memory' = [memory EXCEPT ![p] = Filled(p, adding[b], mSize[b], b)]
  /\ adding' = [adding EXCEPT ![b] = NotAdding]
  /\ wrote' = [wrote EXCEPT ![b] = b]
  /\ UNCHANGED <<mPool, mSize, raced>>

\* Mutant of Reregistered: the register still lists the buffer that was
\* assigned to.
ReregisteredOnly(dst, src) ==
  [p \in Pools |-> IF mPool[src] = p /\ mSize[src] /= 0
                   THEN (mRegister[p] \ {src}) \union {dst} ELSE mRegister[p]]

\* The register after dst, if it held a pool, was removed from it and, if src
\* has memory, was put in the place of src.
Reregistered(dst, src) ==
  [p \in Pools |->
     LET others == IF mPool[dst] = p THEN mRegister[p] \ {dst} ELSE mRegister[p]
     IN  IF mPool[src] = p /\ mSize[src] /= 0 THEN (others \ {src}) \union {dst} ELSE others]

\* The move constructor (dst holds nothing) and move assignment.
Move(dst, src) ==
  LET holds == [mPool EXCEPT ![dst] = mPool[src], ![src] = NoPool]
  IN  /\ dst /= src /\ Idle(dst) /\ Idle(src)
      /\ mRegister' = Reregistered(dst, src)
      /\ mPool' = holds
      /\ mSize' = [mSize EXCEPT ![dst] = mSize[src], ![src] = 0]
      /\ mData' = [mData EXCEPT ![dst] = mData[src], ![src] = NullPtr]
      /\ wrote' = [wrote EXCEPT ![dst] = wrote[src], ![src] = Unwritten]
      /\ pool' = Surviving(pool, holds)
      /\ raced' = StillHeld(raced, holds)
      /\ memory' = Remaining(IF mPool[dst] = NoPool THEN memory
                             ELSE [memory EXCEPT ![mPool[dst]] = GivenUp(mPool[dst], dst)], holds)
      /\ UNCHANGED adding

\* clear() and the destructor.
Clear(b) ==
  LET holds == [mPool EXCEPT ![b] = NoPool]
  IN  /\ mPool[b] /= NoPool /\ Idle(b)
      /\ mRegister' = [mRegister EXCEPT ![mPool[b]] = @ \ {b}]
      /\ mPool' = holds
      /\ mSize' = [mSize EXCEPT ![b] = 0]
      /\ mData' = [mData EXCEPT ![b] = NullPtr]
      /\ wrote' = [wrote EXCEPT ![b] = Unwritten]
      /\ pool' = Surviving(pool, holds)
      /\ raced' = StillHeld(raced, holds)
      /\ memory' = Remaining([memory EXCEPT ![mPool[b]] = GivenUp(mPool[b], b)], holds)
      /\ UNCHANGED adding

\* init(): a full buffer in a new pool.  The pool held before is given up
\* without removing the buffer from its register, so only a buffer that is
\* not registered may be initialized.
Reinit(b, p, n, managed, padding) ==
  LET holds == [mPool EXCEPT ![b] = p]
  IN  /\ mPool[b] /= NoPool /\ Idle(b) /\ mSize[b] = 0
      /\ p \in Fresh
      /\ managed \/ padding = 0
      /\ mPool' = holds
      /\ mSize' = [mSize EXCEPT ![b] = n]
      /\ mData' = [mData EXCEPT ![b] = padding]
      /\ mRegister' = [mRegister EXCEPT ![p] = {b}]
      /\ raced' = StillHeld(raced, holds)
      /\ pool' = Surviving([pool EXCEPT ![p] = [NewPool(n, managed, padding) EXCEPT !.free = padding + n]],
                           holds)
      /\ memory' = Remaining([memory EXCEPT ![p] = Filled(p, padding, n, b)], holds)
      /\ wrote' = [wrote EXCEPT ![b] = b]
      /\ UNCHANGED adding

\* reset(), called on a handle of the pool: every registered buffer loses its
\* memory, and the pool is empty again.
Reset(b) ==
  LET p == mPool[b]
      holds == [c \in Buffers |-> IF c \in mRegister[p] THEN NoPool ELSE mPool[c]]
  IN  /\ p /= NoPool /\ mSize[b] = 0 /\ Adding(p) = {}
      /\ mPool' = holds
      /\ mSize' = [c \in Buffers |-> IF c \in mRegister[p] THEN 0 ELSE mSize[c]]
      /\ mData' = [c \in Buffers |-> IF c \in mRegister[p] THEN NullPtr ELSE mData[c]]
      /\ wrote' = [c \in Buffers |-> IF c \in mRegister[p] THEN Unwritten ELSE wrote[c]]
      /\ mRegister' = [mRegister EXCEPT ![p] = {}]
      /\ pool' = [pool EXCEPT ![p].free = pool[p].padding]
      /\ memory' = [memory EXCEPT ![p] = Garbage]
      /\ raced' = raced \ {p}
      /\ UNCHANGED adding

-----------------------------------------------------------------------------
\* What memory holds after the `usage' bytes behind the padding were copied to
\* where they are behind the new padding.
Copied(from, padding, newPadding, usage) ==
  [i \in Bytes |-> IF i - newPadding \in 0 .. usage - 1 THEN from[i - newPadding + padding]
                                                        ELSE Unwritten]

\* Mutant of Reallocated: the used part stays where the old padding put it.
ReallocatedOnly(from, padding, newPadding, usage, n) ==
  [i \in Bytes |-> IF i < n + Alignment THEN from[i] ELSE Unwritten]

\* realloc() copies the block as it is, padding included; if the new block needs
\* another padding, the used part is moved within it.
Reallocated(from, padding, newPadding, usage, n) ==
  LET raw == [i \in Bytes |-> IF i < n + Alignment THEN from[i] ELSE Unwritten]
  IN  IF newPadding = padding THEN raw
      ELSE Copied(raw, padding, newPadding, usage)

\* The registered buffers and the free pointer follow a block that moved.
Relocate(p, n, managed, padding) ==
  /\ mData' = [b \in Buffers |->
       IF b \in mRegister[p]
       THEN padding + (mData[b] - pool[p].padding)
       ELSE mData[b]]
  /\ pool' = [pool EXCEPT ![p] = [size |-> n, managed |-> managed, padding |-> padding,
                                  free |-> padding + Usage(p)]]

\* resizePool throws, and changes nothing, without a pool, without room for the
\* used memory, and for a managed pool that has the size already.
Resizable(b, n) ==
  /\ mPool[b] /= NoPool
  /\ Adding(mPool[b]) = {}
  /\ Usage(mPool[b]) <= n

\* Managed memory of another size, where the block stays in its place.
ResizeInPlace(b, n) ==
  LET p == mPool[b]
  IN  /\ Resizable(b, n) /\ Idle(b)
      /\ pool[p].managed => n /= pool[p].size
      /\ pool' = [pool EXCEPT ![p].size = n]
      /\ memory' = [memory EXCEPT ![p] =
           IF pool[p].managed THEN Reallocated(@, pool[p].padding, pool[p].padding, Usage(p), n) ELSE @]
      /\ UNCHANGED <<mPool, mSize, adding, mRegister, mData, wrote, raced>>

\* Managed memory of another size, in a block elsewhere.
ResizeManaged(b, n, padding) ==
  LET p == mPool[b]
  IN  /\ Resizable(b, n) /\ Idle(b)
      /\ pool[p].managed /\ n /= pool[p].size
      /\ Relocate(p, n, TRUE, padding)
      /\ memory' = [memory EXCEPT ![p] = Reallocated(@, pool[p].padding, padding, Usage(p), n)]
      /\ UNCHANGED <<mPool, mSize, adding, mRegister, wrote, raced>>

\* From or to external memory.
ResizeElsewhere(b, n, managed, padding) ==
  LET p == mPool[b]
  IN  /\ Resizable(b, n) /\ Idle(b)
      /\ ~(pool[p].managed /\ managed)
      /\ managed \/ padding = 0
      /\ Relocate(p, n, managed, padding)
      /\ memory' = [memory EXCEPT ![p] = Copied(@, pool[p].padding, padding, Usage(p))]
      /\ UNCHANGED <<mPool, mSize, adding, mRegister, wrote, raced>>

Next ==
  \E b \in Buffers :
    \/ FinishCreate(b)
    \/ Clear(b)
    \/ Reset(b)
    \/ \E src \in Buffers : Move(b, src)
    \/ \E n \in BufferSizes, p \in Pools : StartCreate(b, p, n)
    \/ \E n \in PoolSizes :
         \/ ResizeInPlace(b, n)
         \/ \E padding \in Padding :
              \/ ResizeManaged(b, n, padding)
              \/ \E managed \in BOOLEAN : ResizeElsewhere(b, n, managed, padding)
    \/ \E p \in Pools, managed \in BOOLEAN, padding \in Padding :
         \/ \E n \in PoolSizes : CreatePool(b, p, n, managed, padding)
         \/ \E n \in BufferSizes : \/ CreateFull(b, p, n, managed, padding)
                                  \/ Reinit(b, p, n, managed, padding)

Spec == Init /\ [][Next]_vars

-----------------------------------------------------------------------------
\* Every variable has its type.
TypeOK ==
  /\ mPool \in [Buffers -> Pools \union {NoPool}]
  /\ mSize \in [Buffers -> Sizes \union {0}]
  /\ mData \in [Buffers -> Bytes \union {NullPtr}]
  /\ adding \in [Buffers -> Bytes \union {NotAdding}]
  /\ mRegister \in [Pools -> SUBSET Buffers]
  /\ pool \in [Pools -> [size : Sizes \union {0}, managed : BOOLEAN, padding : Padding,
                         free : Bytes]]
  /\ memory \in [Pools -> [Bytes -> Buffers \union {Unwritten}]]
  /\ wrote \in [Buffers -> Buffers \union {Unwritten}]
  /\ raced \in SUBSET Pools

\* The register of a pool holds the buffers that use its memory and no other: a
\* missing one would keep its address when the block moves, one too many would
\* be written to after it is gone.  So nothing is left in the register of a pool
\* that is destroyed, as the destructor asserts.
RegisterExact ==
  \A p \in Pools : mRegister[p] = {b \in Holders(p) : mSize[b] > 0 /\ Idle(b)}

\* The memory of a buffer is in its pool, and before the free pointer.
Inside(b, p) == /\ mData[b] >= pool[p].padding
                /\ mData[b] + mSize[b] <= pool[p].free
Aligned(b, p) == (mData[b] - pool[p].padding) % Alignment = 0

\* The free pointer is inside the pool, as isFull() asserts, and every buffer is
\* aligned, whatever threads do: a grid that is not aligned is unreadable.
WithinPool ==
  \A p \in Pools :
    /\ pool[p].padding <= pool[p].free
    /\ pool[p].free <= pool[p].padding + pool[p].size
    /\ \A b \in mRegister[p] : Aligned(b, p)

Disjoint(a, b) == \/ mData[a] + mSize[a] <= mData[b]
                  \/ mData[b] + mSize[b] <= mData[a]

\* No two buffers of a pool share memory, whatever threads created them:
\* Pool::mMutex is a `mutex for updating mRegister and mFree'.  The code does not
\* keep it: two threads that read the free pointer before either moves it are
\* given the same memory.
BuffersDisjoint ==
  \A p \in Pools : \A a, b \in mRegister[p] : a /= b => Disjoint(a, b)

\* What creations that overlap can harm, and nothing else: in every other pool the
\* buffers are before the free pointer and share no memory, however they were
\* created and moved and the pool was resized since; so a race in one pool harms no
\* other one, nor the same one once it was reset.
OwnMemory ==
  \A p \in Pools \ raced :
    /\ \A b \in mRegister[p] : Inside(b, p)
    /\ \A a, b \in mRegister[p] : a /= b => Disjoint(a, b)

\* Buffers are aligned, and free pointers inside their pools, under all
\* interleavings; buffers are before the free pointer and have their memory for
\* themselves in the pools in which no two creations have overlapped.
MemorySafe == WithinPool /\ OwnMemory

\* In such a pool a buffer holds what its owner wrote, although the buffer was moved
\* since, its pool was resized, reallocated at another alignment, or changed from
\* memory of its own to external memory, and other buffers were written.
ContentKept ==
  \A b \in Buffers :
    wrote[b] /= Unwritten /\ mPool[b] \notin raced =>
      \A i \in mData[b] .. mData[b] + mSize[b] - 1 : memory[mPool[b]][i] = wrote[b]

=============================================================================
