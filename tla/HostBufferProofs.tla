-------------------------- MODULE HostBufferProofs --------------------------
(***************************************************************************)
(* Proofs about HostBuffer for any number of buffers and pools, any sizes  *)
(* and any alignment, under every interleaving of threads, creations in    *)
(* one pool included that overlap.  The register is exact, every buffer is *)
(* aligned and every free pointer in its pool whatever threads do; buffers *)
(* are disjoint, and keep what was written to them, in the pools in which  *)
(* no creations have overlapped, whatever goes on in the others.           *)
(***************************************************************************)
EXTENDS HostBuffer, TLAPS

USE SizeAssumption, NoneAssumption

-----------------------------------------------------------------------------
(* The register.                                                            *)

RegisterTypes ==
  /\ mPool \in [Buffers -> Pools \union {NoPool}]
  /\ mSize \in [Buffers -> Nat]
  /\ adding \in [Buffers -> Int \union {NotAdding}]
  /\ mRegister \in [Pools -> SUBSET Buffers]
  /\ pool \in [Pools -> [size : Int, managed : BOOLEAN, padding : Int, free : Int]]

(* A buffer without a pool has no size and is not being created; one that   *)
(* is being created has a pool and a size.                                  *)
Vacant == \A b \in Buffers : mPool[b] = NoPool => mSize[b] = 0 /\ Idle(b)
Started == \A b \in Buffers : ~Idle(b) => mSize[b] > 0

RegisterInv == RegisterTypes /\ Vacant /\ Started /\ RegisterExact

(* What makes b a buffer that uses memory of p.                              *)
Registered(b, p) == mPool[b] = p /\ mSize[b] > 0 /\ Idle(b)

(* RegisterExact, read member by member.                                    *)
LEMMA ExactByMember ==
  ASSUME mRegister \in [Pools -> SUBSET Buffers]
  PROVE  RegisterExact <=> \A p \in Pools, b \in Buffers : b \in mRegister[p] <=> Registered(b, p)
  BY DEF RegisterExact, Registered, Holders

(* The types of the register survive every step.                            *)
LEMMA RegisterTyped == RegisterInv /\ [Next]_vars => RegisterTypes'
<1>. SUFFICES ASSUME RegisterInv, [Next]_vars PROVE RegisterTypes' OBVIOUS
<1>. USE DEF RegisterInv, RegisterTypes, Padding, Freed, NewPool
<1>. BufferSizes \subseteq Nat /\ PoolSizes \subseteq Int /\ Padding \subseteq Int OBVIOUS
<1>1. ASSUME NEW b \in Buffers, FinishCreate(b) PROVE RegisterTypes'
  <2>1. mPool[b] \in Pools BY <1>1 DEF Vacant, FinishCreate
  <2>. QED BY <1>1, <2>1 DEF FinishCreate, Idle
<1>2. ASSUME NEW b \in Buffers, Clear(b) PROVE RegisterTypes' BY <1>2 DEF Clear, Surviving
<1>3. ASSUME NEW b \in Buffers, Reset(b) PROVE RegisterTypes' BY <1>3 DEF Reset
<1>4. ASSUME NEW b \in Buffers, NEW src \in Buffers, Move(b, src) PROVE RegisterTypes'
  <2>1. Reregistered(b, src) \in [Pools -> SUBSET Buffers] BY DEF Reregistered
  <2>2. mPool' \in [Buffers -> Pools \union {NoPool}] /\ mSize' \in [Buffers -> Nat] BY <1>4 DEF Move
  <2>3. pool' \in [Pools -> [size : Int, managed : BOOLEAN, padding : Int, free : Int]]
    BY <1>4 DEF Move, Surviving
  <2>. QED BY <1>4, <2>1, <2>2, <2>3 DEF Move
<1>5. ASSUME NEW b \in Buffers, NEW n \in BufferSizes, NEW p \in Pools, StartCreate(b, p, n)
      PROVE RegisterTypes'
  <2>1. AlignUp(pool[p].free, pool[p].padding) \in Int BY DEF AlignUp
  <2>. QED BY <1>5, <2>1 DEF StartCreate
<1>6. ASSUME NEW b \in Buffers, NEW n \in PoolSizes, ResizeInPlace(b, n) PROVE RegisterTypes'
  BY <1>6 DEF ResizeInPlace, Resizable
<1>7. ASSUME NEW b \in Buffers, NEW n \in PoolSizes, NEW padding \in Padding,
             ResizeManaged(b, n, padding)
      PROVE RegisterTypes'
  BY <1>7 DEF ResizeManaged, Resizable, Relocate, Usage
<1>8. ASSUME NEW b \in Buffers, NEW n \in PoolSizes, NEW padding \in Padding, NEW managed \in BOOLEAN,
             ResizeElsewhere(b, n, managed, padding)
      PROVE RegisterTypes'
  BY <1>8 DEF ResizeElsewhere, Resizable, Relocate, Usage
<1>9. ASSUME NEW b \in Buffers, NEW p \in Pools, NEW managed \in BOOLEAN, NEW padding \in Padding,
             NEW n \in PoolSizes, CreatePool(b, p, n, managed, padding)
      PROVE RegisterTypes'
  BY <1>9 DEF CreatePool
<1>10. ASSUME NEW b \in Buffers, NEW p \in Pools, NEW managed \in BOOLEAN, NEW padding \in Padding,
              NEW n \in BufferSizes, CreateFull(b, p, n, managed, padding)
       PROVE RegisterTypes'
  BY <1>10 DEF CreateFull
<1>11. ASSUME NEW b \in Buffers, NEW p \in Pools, NEW managed \in BOOLEAN, NEW padding \in Padding,
              NEW n \in BufferSizes, Reinit(b, p, n, managed, padding)
       PROVE RegisterTypes'
  BY <1>11 DEF Reinit, Surviving
<1>12. CASE UNCHANGED vars BY <1>12 DEF vars
<1>. QED BY <1>1, <1>2, <1>3, <1>4, <1>5, <1>6, <1>7, <1>8, <1>9, <1>10, <1>11, <1>12 DEF Next

(* The rest of the invariant survives every step.                           *)
LEMMA RegisterKept == RegisterInv /\ [Next]_vars => (Vacant /\ Started /\ RegisterExact)'
<1>. SUFFICES ASSUME RegisterInv, [Next]_vars PROVE (Vacant /\ Started /\ RegisterExact)' OBVIOUS
<1>1. RegisterTypes' BY RegisterTyped
<1>. DEFINE Exact == \A p \in Pools, b \in Buffers : b \in mRegister[p] <=> Registered(b, p)
<1>2. Exact BY ExactByMember DEF RegisterInv, RegisterTypes
<1>3. SUFFICES (Vacant /\ Started /\ Exact)'
  <2>1. Exact' <=> RegisterExact' BY <1>1 DEF RegisterTypes, RegisterExact, Registered, Holders
  <2>. QED BY <2>1
<1>. HIDE DEF Exact
<1>. USE DEF RegisterInv, RegisterTypes, Vacant, Started, Exact, Registered, Idle
<1>4. BufferSizes \subseteq Nat \ {0} OBVIOUS
<1>5. ASSUME NEW b \in Buffers, FinishCreate(b) PROVE (Vacant /\ Started /\ Exact)'
  BY <1>1, <1>2, <1>5 DEF FinishCreate
<1>6. ASSUME NEW b \in Buffers, Clear(b) PROVE (Vacant /\ Started /\ Exact)'
  BY <1>1, <1>2, <1>6 DEF Clear
<1>7. ASSUME NEW b \in Buffers, Reset(b) PROVE (Vacant /\ Started /\ Exact)'
  BY <1>1, <1>2, <1>7 DEF Reset
<1>8. ASSUME NEW b \in Buffers, NEW src \in Buffers, Move(b, src) PROVE (Vacant /\ Started /\ Exact)'
  <2>. USE <1>8
  <2>1. b /= src /\ Idle(b) /\ Idle(src) /\ adding' = adding BY DEF Move
  <2>2. \A c \in Buffers : mPool'[c] = IF c = src THEN NoPool ELSE IF c = b THEN mPool[src] ELSE mPool[c]
    BY <2>1 DEF Move
  <2>3. \A c \in Buffers : mSize'[c] = IF c = src THEN 0 ELSE IF c = b THEN mSize[src] ELSE mSize[c]
    BY <2>1 DEF Move
  <2>4. (Vacant /\ Started)' BY <2>1, <2>2, <2>3
  <2>5. ASSUME NEW p \in Pools, NEW c \in Buffers PROVE (c \in mRegister[p] <=> Registered(c, p))'
    <3>1. mRegister'[p] = Reregistered(b, src)[p] BY DEF Move
    <3>2. CASE c = b BY <1>2, <2>1, <2>2, <2>3, <3>1, <3>2 DEF Reregistered
    <3>3. CASE c = src BY <1>2, <2>1, <2>2, <2>3, <3>1, <3>3 DEF Reregistered
    <3>4. CASE c /= b /\ c /= src BY <1>2, <2>1, <2>2, <2>3, <3>1, <3>4 DEF Reregistered
    <3>. QED BY <3>2, <3>3, <3>4
  <2>. QED BY <2>4, <2>5
<1>9. ASSUME NEW b \in Buffers, NEW n \in BufferSizes, NEW p \in Pools, StartCreate(b, p, n)
      PROVE (Vacant /\ Started /\ Exact)'
  <2>1. AlignUp(pool[p].free, pool[p].padding) \in Int BY DEF AlignUp
  <2>. QED BY <1>1, <1>2, <1>4, <1>9, <2>1 DEF StartCreate, Constructible
<1>10. ASSUME NEW b \in Buffers, NEW p \in Pools, NEW managed \in BOOLEAN, NEW padding \in Padding,
              NEW n \in PoolSizes, CreatePool(b, p, n, managed, padding)
       PROVE (Vacant /\ Started /\ Exact)'
  BY <1>1, <1>2, <1>10 DEF CreatePool, Constructible, Fresh, Holders
<1>11. ASSUME NEW b \in Buffers, NEW p \in Pools, NEW managed \in BOOLEAN, NEW padding \in Padding,
              NEW n \in BufferSizes, CreateFull(b, p, n, managed, padding)
       PROVE (Vacant /\ Started /\ Exact)'
  BY <1>1, <1>2, <1>4, <1>11 DEF CreateFull, Constructible, Fresh, Holders
<1>12. ASSUME NEW b \in Buffers, NEW p \in Pools, NEW managed \in BOOLEAN, NEW padding \in Padding,
              NEW n \in BufferSizes, Reinit(b, p, n, managed, padding)
       PROVE (Vacant /\ Started /\ Exact)'
  BY <1>1, <1>2, <1>4, <1>12 DEF Reinit, Fresh, Holders
<1>13. ASSUME UNCHANGED <<mPool, mSize, adding, mRegister>> PROVE (Vacant /\ Started /\ Exact)'
  BY <1>1, <1>2, <1>13
<1>14. ASSUME NEW b \in Buffers, NEW n \in PoolSizes,
              \/ ResizeInPlace(b, n)
              \/ \E padding \in Padding : ResizeManaged(b, n, padding)
              \/ \E padding \in Padding, managed \in BOOLEAN : ResizeElsewhere(b, n, managed, padding)
       PROVE UNCHANGED <<mPool, mSize, adding, mRegister>>
  BY <1>14 DEF ResizeInPlace, ResizeManaged, ResizeElsewhere
<1>15. CASE UNCHANGED vars BY <1>13, <1>15 DEF vars
<1>. QED
  BY <1>5, <1>6, <1>7, <1>8, <1>9, <1>10, <1>11, <1>12, <1>13, <1>14, <1>15 DEF Next

(* The register of every pool holds exactly the buffers that use its        *)
(* memory, whatever threads create, move, clear, resize and reset, and is   *)
(* empty when the pool is destroyed: the assertion of ~Pool holds.          *)
THEOREM RegisterCorrect == Spec => []RegisterExact
<1>1. Init => RegisterInv
  BY DEF Init, RegisterInv, RegisterTypes, Vacant, Started, RegisterExact, Idle, Holders, Freed
<1>2. RegisterInv /\ [Next]_vars => RegisterInv' BY RegisterTyped, RegisterKept DEF RegisterInv
<1>3. RegisterInv => RegisterExact BY DEF RegisterInv
<1>. QED BY <1>1, <1>2, <1>3, PTL DEF Spec

-----------------------------------------------------------------------------
(* Alignment.                                                               *)

(* Division with remainder, by the alignment.                               *)
LEMMA DivMod ==
  ASSUME NEW a \in Int, NEW n \in Nat \ {0}
  PROVE  a \div n \in Int /\ a = n * (a \div n) + (a % n)
  OBVIOUS

(* A multiple of the alignment is aligned.                                  *)
LEMMA MultipleMod == ASSUME NEW q \in Int, NEW n \in Nat \ {0} PROVE (n * q) % n = 0
  OBVIOUS

(* AlignUp goes up, to an aligned address.                                  *)
LEMMA AlignUpAligns ==
  ASSUME NEW at \in Int, NEW padding \in Int
  PROVE  /\ AlignUp(at, padding) \in Int
         /\ AlignUp(at, padding) >= at
         /\ (AlignUp(at, padding) - padding) % Alignment = 0
<1>. DEFINE q == (padding - at) \div Alignment
<1>1. AlignUp(at, padding) \in Int /\ AlignUp(at, padding) >= at BY DEF AlignUp
<1>2. q \in Int /\ padding - at = Alignment * q + ((padding - at) % Alignment) BY DivMod
<1>3. AlignUp(at, padding) - padding = Alignment * (-q)
  <2>1. Alignment * q \in Int /\ (padding - at) % Alignment \in Int BY <1>2
  <2>2. AlignUp(at, padding) - padding = -(Alignment * q) BY <1>2, <2>1 DEF AlignUp
  <2>. QED BY <1>2, <2>2
<1>. QED BY <1>1, <1>2, <1>3, MultipleMod

-----------------------------------------------------------------------------
(* Memory.                                                                  *)

(* The free pointer of every pool is behind its padding and within it.      *)
Space == \A p \in Pools : /\ pool[p].padding <= pool[p].free
                          /\ pool[p].free <= pool[p].padding + pool[p].size

(* A registered buffer begins behind the padding of its pool, aligned, and  *)
(* is no farther from it than the largest pool reaches.                     *)
PlacedAt(p) == \A b \in mRegister[p] : /\ mData[b] \in Int
                                       /\ pool[p].padding <= mData[b]
                                       /\ mData[b] + mSize[b] <= pool[p].padding + MaxSize
                                       /\ Aligned(b, p)

(* The registered buffers of a pool have memory before its free pointer,    *)
(* and each has its own.                                                    *)
MemoryAt(p) == /\ \A b \in mRegister[p] : Inside(b, p)
               /\ \A a, b \in mRegister[p] : a /= b => Disjoint(a, b)

(* The second holds if creations in the pool have not overlapped.           *)
Sound(p) == PlacedAt(p) /\ (p \notin raced => MemoryAt(p))
PoolsSound == \A p \in Pools : Sound(p)

(* What a thread read before it took the mutex leaves room for its buffer   *)
(* in the pool, and behind the free pointer if it is the only one.          *)
AddersFit == \A b \in Buffers : ~Idle(b) =>
               LET p == mPool[b]
               IN  /\ pool[p].padding <= adding[b]
                   /\ adding[b] + mSize[b] <= pool[p].padding + pool[p].size
                   /\ (adding[b] - pool[p].padding) % Alignment = 0
                   /\ p \notin raced => pool[p].free <= adding[b]

(* Two threads that create buffers of one pool have overlapped there.       *)
OneAdder == \A a, b \in Buffers :
              ~Idle(a) /\ ~Idle(b) /\ mPool[a] = mPool[b] /\ mPool[a] \notin raced => a = b

MemoryInv == RegisterInv /\ TypeOK /\ Space /\ PoolsSound /\ AddersFit /\ OneAdder

(* The invariant keeps the types.                                           *)
LEMMA TypeKept == MemoryInv /\ [Next]_vars => TypeOK'
<1>. SUFFICES ASSUME MemoryInv, [Next]_vars PROVE TypeOK' OBVIOUS
<1>. USE DEF MemoryInv, TypeOK, Sizes, Bytes, Padding
<1>. DEFINE Written == [Bytes -> Buffers \union {Unwritten}]
            Fields == [size : Sizes \union {0}, managed : BOOLEAN, padding : Padding, free : Bytes]
<1>. Sizes \union {0} \subseteq 0 .. MaxSize OBVIOUS
<1>0. \A p \in Pools : /\ pool[p] \in Fields
                       /\ pool[p].size \in 0 .. MaxSize
                       /\ pool[p].padding \in 0 .. Alignment - 1
                       /\ pool[p].free \in 0 .. MaxSize + Alignment - 1
  OBVIOUS
<1>f. ASSUME NEW r \in Fields, NEW free \in Bytes PROVE [r EXCEPT !.free = free] \in Fields OBVIOUS
<1>1. Garbage \in Written /\ Freed \in Fields BY DEF Garbage, Freed
<1>2. ASSUME NEW p \in Pools, NEW at, NEW n, NEW b \in Buffers \union {Unwritten}
      PROVE  Filled(p, at, n, b) \in Written
  BY DEF Filled
<1>3. ASSUME NEW p \in Pools, NEW b \in Buffers PROVE GivenUp(p, b) \in Written
  BY <1>2 DEF GivenUp
<1>4. ASSUME NEW mem \in [Pools -> Written], NEW holds PROVE Remaining(mem, holds) \in [Pools -> Written]
  BY <1>1 DEF Remaining
<1>5. ASSUME NEW pools \in [Pools -> Fields], NEW holds PROVE Surviving(pools, holds) \in [Pools -> Fields]
  BY <1>1 DEF Surviving
<1>6. ASSUME NEW n \in BufferSizes \union PoolSizes, NEW managed \in BOOLEAN, NEW padding \in Padding
      PROVE  NewPool(n, managed, padding) \in Fields /\ padding + n \in Bytes
  BY DEF NewPool
<1>7. ASSUME NEW b \in Buffers, FinishCreate(b) PROVE TypeOK'
  <2>1. mPool[b] \in Pools BY <1>7 DEF FinishCreate, RegisterInv, Vacant
  <2>2. adding[b] + mSize[b] \in Bytes
    <3>1. ~Idle(b) BY <1>7 DEF FinishCreate
    <3>2. adding[b] \in Nat /\ adding[b] + mSize[b] <= pool[mPool[b]].padding + pool[mPool[b]].size
      BY <3>1 DEF AddersFit, Idle
    <3>3. mSize[b] \in Nat BY DEF RegisterInv, RegisterTypes
    <3>4. pool[mPool[b]].padding + pool[mPool[b]].size \in Bytes BY <1>0, <2>1
    <3>. QED BY <1>0, <2>1, <3>2, <3>3, <3>4
  <2>3. Filled(mPool[b], adding[b], mSize[b], b) \in Written BY <1>2, <2>1
  <2>4. adding[b] \in Bytes BY <1>7 DEF FinishCreate, Idle
  <2>5. memory' \in [Pools -> Written] BY <1>7, <2>1, <2>3 DEF FinishCreate
  <2>6. pool' \in [Pools -> Fields]
    <3>1. pool' = [pool EXCEPT ![mPool[b]] = [pool[mPool[b]] EXCEPT !.free = adding[b] + mSize[b]]]
      BY <1>7, <2>1 DEF FinishCreate
    <3>. QED BY <1>0, <1>f, <2>1, <2>2, <3>1
  <2>. QED BY <1>7, <2>1, <2>4, <2>5, <2>6 DEF FinishCreate
<1>8. ASSUME NEW b \in Buffers, Clear(b) PROVE TypeOK'
  <2>1. mPool[b] \in Pools BY <1>8 DEF Clear
  <2>2. [memory EXCEPT ![mPool[b]] = GivenUp(mPool[b], b)] \in [Pools -> Written] BY <1>3, <2>1
  <2>3. memory' \in [Pools -> Written] BY <1>8, <1>4, <2>2 DEF Clear
  <2>4. pool' \in [Pools -> Fields] BY <1>8, <1>5 DEF Clear
  <2>. QED BY <1>8, <2>1, <2>3, <2>4 DEF Clear, StillHeld
<1>9. ASSUME NEW b \in Buffers, Reset(b) PROVE TypeOK'
  <2>1. mPool[b] \in Pools BY <1>9 DEF Reset
  <2>2. memory' \in [Pools -> Written] BY <1>1, <1>9, <2>1 DEF Reset
  <2>3. pool' \in [Pools -> Fields]
    <3>1. pool[mPool[b]].padding \in Bytes BY <1>0, <2>1
    <3>2. pool' = [pool EXCEPT ![mPool[b]] = [pool[mPool[b]] EXCEPT !.free = pool[mPool[b]].padding]]
      BY <1>9, <2>1 DEF Reset
    <3>. QED BY <1>0, <1>f, <2>1, <3>1, <3>2
  <2>4. mRegister' \in [Pools -> SUBSET Buffers] BY <1>9, <2>1 DEF Reset
  <2>5. mPool' \in [Buffers -> Pools \union {NoPool}] /\ mSize' \in [Buffers -> Sizes \union {0}]
    BY <1>9, <2>1 DEF Reset
  <2>6. mData' \in [Buffers -> Bytes \union {NullPtr}] /\ wrote' \in [Buffers -> Buffers \union {Unwritten}]
    BY <1>9, <2>1 DEF Reset
  <2>. QED BY <1>9, <2>2, <2>3, <2>4, <2>5, <2>6 DEF Reset
<1>10. ASSUME NEW b \in Buffers, NEW src \in Buffers, Move(b, src) PROVE TypeOK'
  <2>1. Reregistered(b, src) \in [Pools -> SUBSET Buffers] BY DEF Reregistered
  <2>2. (IF mPool[b] = NoPool THEN memory ELSE [memory EXCEPT ![mPool[b]] = GivenUp(mPool[b], b)])
           \in [Pools -> Written]
    BY <1>3
  <2>3. memory' \in [Pools -> Written] BY <1>10, <1>4, <2>2 DEF Move
  <2>4. pool' \in [Pools -> Fields] BY <1>10, <1>5 DEF Move
  <2>5. mPool' \in [Buffers -> Pools \union {NoPool}] /\ mSize' \in [Buffers -> Sizes \union {0}]
    BY <1>10 DEF Move
  <2>6. mData' \in [Buffers -> Bytes \union {NullPtr}] /\ wrote' \in [Buffers -> Buffers \union {Unwritten}]
    BY <1>10 DEF Move
  <2>. QED BY <1>10, <2>1, <2>3, <2>4, <2>5, <2>6 DEF Move, StillHeld
<1>11. ASSUME NEW b \in Buffers, NEW n \in BufferSizes, NEW p \in Pools, StartCreate(b, p, n)
       PROVE TypeOK'
  <2>1. AlignUp(pool[p].free, pool[p].padding) \in Bytes
    <3> DEFINE at == AlignUp(pool[p].free, pool[p].padding)
    <3>1. at \in Int /\ at >= pool[p].free BY <1>0, AlignUpAligns
    <3>2. at + n <= pool[p].padding + pool[p].size BY <1>11 DEF StartCreate
    <3>3. n \in Nat OBVIOUS
    <3>. HIDE DEF at
    <3>4. at \in Bytes BY <1>0, <3>1, <3>2, <3>3
    <3>. QED BY <3>4 DEF at
  <2>. QED BY <1>11, <2>1 DEF StartCreate
<1>12. ASSUME NEW b \in Buffers, NEW p \in Pools, NEW managed \in BOOLEAN, NEW padding \in Padding,
              NEW n \in PoolSizes, CreatePool(b, p, n, managed, padding)
       PROVE TypeOK'
  BY <1>6, <1>12 DEF CreatePool
<1>13. ASSUME NEW b \in Buffers, NEW p \in Pools, NEW managed \in BOOLEAN, NEW padding \in Padding,
              NEW n \in BufferSizes, CreateFull(b, p, n, managed, padding)
       PROVE TypeOK'
  <2>1. Filled(p, padding, n, b) \in Written BY <1>2
  <2>2. memory' \in [Pools -> Written] BY <1>13, <2>1 DEF CreateFull
  <2>3. pool' \in [Pools -> Fields] BY <1>6, <1>f, <1>13 DEF CreateFull
  <2>4. padding \in Bytes /\ n \in Sizes OBVIOUS
  <2>. QED BY <1>13, <2>2, <2>3, <2>4 DEF CreateFull
<1>14. ASSUME NEW b \in Buffers, NEW p \in Pools, NEW managed \in BOOLEAN, NEW padding \in Padding,
              NEW n \in BufferSizes, Reinit(b, p, n, managed, padding)
       PROVE TypeOK'
  <2>1. [memory EXCEPT ![p] = Filled(p, padding, n, b)] \in [Pools -> Written] BY <1>2
  <2>2. [pool EXCEPT ![p] = [NewPool(n, managed, padding) EXCEPT !.free = padding + n]]
           \in [Pools -> Fields]
    <3>1. [NewPool(n, managed, padding) EXCEPT !.free = padding + n] \in Fields BY <1>6, <1>f
    <3>. QED BY <3>1
  <2>3. memory' \in [Pools -> Written] /\ pool' \in [Pools -> Fields]
    BY <1>4, <1>5, <1>14, <2>1, <2>2 DEF Reinit
  <2>4. padding \in Bytes /\ n \in Sizes OBVIOUS
  <2>. QED BY <1>14, <2>3, <2>4 DEF Reinit, StillHeld
<1>15. ASSUME NEW p \in Pools, NEW n \in PoolSizes, NEW managed \in BOOLEAN, NEW padding \in Padding,
              Usage(p) <= n, Relocate(p, n, managed, padding)
       PROVE  mData' \in [Buffers -> Bytes \union {NullPtr}] /\ pool' \in [Pools -> Fields]
  <2>1. Usage(p) \in Nat /\ padding + Usage(p) \in Bytes BY <1>15 DEF Usage, Space
  <2>2. ASSUME NEW b \in mRegister[p] PROVE padding + (mData[b] - pool[p].padding) \in Bytes
    <3>1. mData[b] \in Int /\ mData[b] >= pool[p].padding
          /\ mData[b] + mSize[b] <= pool[p].padding + MaxSize
      BY DEF PoolsSound, Sound, PlacedAt
    <3>2. mSize[b] \in Nat BY mRegister[p] \subseteq Buffers DEF RegisterInv, RegisterTypes
    <3>. QED BY <1>0, <1>15, <3>1, <3>2 DEF Usage
  <2>. QED BY <1>15, <2>1, <2>2 DEF Relocate
<1>16. ASSUME NEW from \in Written, NEW old \in Padding, NEW new \in Padding, NEW usage \in Int,
              old + usage <= MaxSize + Alignment - 1, NEW n \in Int
       PROVE  Copied(from, old, new, usage) \in Written /\ Reallocated(from, old, new, usage, n) \in Written
  BY <1>16 DEF Copied, Reallocated
<1>17. ASSUME NEW b \in Buffers, NEW n \in PoolSizes, ResizeInPlace(b, n) PROVE TypeOK'
  <2>1. mPool[b] \in Pools BY <1>17 DEF ResizeInPlace, Resizable
  <2>2. memory' \in [Pools -> Written]
    <3>1. Usage(mPool[b]) \in Int /\ pool[mPool[b]].padding + Usage(mPool[b]) <= MaxSize + Alignment - 1
      BY <1>0, <2>1 DEF Usage
    <3>2. Reallocated(memory[mPool[b]], pool[mPool[b]].padding, pool[mPool[b]].padding, Usage(mPool[b]), n)
             \in Written
      <4>1. memory[mPool[b]] \in Written /\ n \in Int BY <2>1
      <4>. QED BY <1>0, <1>16, <2>1, <3>1, <4>1
    <3>. QED BY <1>17, <2>1, <3>2 DEF ResizeInPlace
  <2>3. pool' \in [Pools -> Fields] BY <1>0, <1>17, <2>1 DEF ResizeInPlace
  <2>. QED BY <1>17, <2>2, <2>3 DEF ResizeInPlace
<1>18. ASSUME NEW b \in Buffers, NEW n \in PoolSizes, NEW padding \in Padding, ResizeManaged(b, n, padding)
       PROVE TypeOK'
  <2>1. mPool[b] \in Pools /\ Usage(mPool[b]) <= n BY <1>18 DEF ResizeManaged, Resizable
  <2>2. memory' \in [Pools -> Written]
    <3>1. Usage(mPool[b]) \in Int /\ pool[mPool[b]].padding + Usage(mPool[b]) <= MaxSize + Alignment - 1
      BY <1>0, <2>1 DEF Usage
    <3>2. Reallocated(memory[mPool[b]], pool[mPool[b]].padding, padding, Usage(mPool[b]), n) \in Written
      <4>1. memory[mPool[b]] \in Written /\ n \in Int BY <2>1
      <4>. QED BY <1>0, <1>16, <2>1, <3>1, <4>1
    <3>. QED BY <1>18, <2>1, <3>2 DEF ResizeManaged
  <2>. QED BY <1>15, <1>18, <2>1, <2>2 DEF ResizeManaged
<1>19. ASSUME NEW b \in Buffers, NEW n \in PoolSizes, NEW padding \in Padding, NEW managed \in BOOLEAN,
              ResizeElsewhere(b, n, managed, padding)
       PROVE TypeOK'
  <2>1. mPool[b] \in Pools /\ Usage(mPool[b]) <= n BY <1>19 DEF ResizeElsewhere, Resizable
  <2>2. memory' \in [Pools -> Written]
    <3>1. Usage(mPool[b]) \in Int /\ pool[mPool[b]].padding + Usage(mPool[b]) <= MaxSize + Alignment - 1
      BY <1>0, <2>1 DEF Usage
    <3>2. Copied(memory[mPool[b]], pool[mPool[b]].padding, padding, Usage(mPool[b])) \in Written
      <4>1. memory[mPool[b]] \in Written /\ n \in Int BY <2>1
      <4>. QED BY <1>0, <1>16, <2>1, <3>1, <4>1
    <3>. QED BY <1>19, <2>1, <3>2 DEF ResizeElsewhere
  <2>. QED BY <1>15, <1>19, <2>1, <2>2 DEF ResizeElsewhere
<1>20. CASE UNCHANGED vars BY <1>20 DEF vars
<1>. HIDE DEF MemoryInv, TypeOK, Sizes, Bytes, Padding
<1>. QED
  BY <1>7, <1>8, <1>9, <1>10, <1>11, <1>12, <1>13, <1>14, <1>17, <1>18, <1>19, <1>20 DEF Next

(* The numbers the invariant speaks of.                                     *)
LEMMA Numbers ==
  ASSUME TypeOK
  PROVE  /\ \A b \in Buffers : mSize[b] \in 0 .. MaxSize /\ (~Idle(b) => adding[b] \in Nat)
         /\ \A p \in Pools : pool[p].size \in Int /\ pool[p].padding \in Int /\ pool[p].free \in Int
<1>1. Sizes \union {0} \subseteq 0 .. MaxSize BY DEF Sizes
<1>2. Padding \subseteq Int /\ Bytes \subseteq Nat BY DEF Padding, Bytes
<1>4. \A b \in Buffers : mSize[b] \in 0 .. MaxSize BY <1>1 DEF TypeOK
<1>5. \A b \in Buffers : ~Idle(b) => adding[b] \in Nat BY <1>2 DEF TypeOK, Idle
<1>6. ASSUME NEW p \in Pools PROVE pool[p].size \in Int /\ pool[p].padding \in Int /\ pool[p].free \in Int
  <2>1. pool[p] \in [size : Sizes \union {0}, managed : BOOLEAN, padding : Padding, free : Bytes]
    BY DEF TypeOK
  <2>2. pool[p].size \in Sizes \union {0} /\ pool[p].padding \in Padding /\ pool[p].free \in Bytes BY <2>1
  <2>3. pool[p].size \in 0 .. MaxSize BY <1>1, <2>2
  <2>4. pool[p].size \in Int BY <2>3
  <2>5. pool[p].padding \in Int BY <1>2, <2>2
  <2>6. pool[p].free \in Int
    <3>1. Bytes \subseteq Int BY DEF Bytes
    <3>. QED BY <2>2, <3>1
  <2>. QED BY <2>4, <2>5, <2>6
<1>. QED BY <1>4, <1>5, <1>6

(* A free pointer stays inside its pool.                                    *)
LEMMA SpaceKept == MemoryInv /\ [Next]_vars => Space'
<1>. SUFFICES ASSUME MemoryInv, [Next]_vars, NEW q \in Pools
     PROVE  pool'[q].padding <= pool'[q].free /\ pool'[q].free <= pool'[q].padding + pool'[q].size
  BY DEF Space
<1>. DEFINE Fits(r) == r.padding <= r.free /\ r.free <= r.padding + r.size
<1>. SUFFICES Fits(pool'[q]) OBVIOUS
<1>1. Fits(pool[q]) /\ Fits(Freed) BY DEF MemoryInv, Space, Freed
<1>2. pool \in [Pools -> [size : Int, managed : BOOLEAN, padding : Int, free : Int]]
  BY DEF MemoryInv, RegisterInv, RegisterTypes
<1>3. ASSUME NEW n \in Nat, NEW managed, NEW padding \in Nat
      PROVE  /\ Fits(NewPool(n, managed, padding))
             /\ Fits([NewPool(n, managed, padding) EXCEPT !.free = padding + n])
  BY DEF NewPool
<1>4. ASSUME NEW b \in Buffers, FinishCreate(b) PROVE Fits(pool'[q])
  <2>1. ~Idle(b) /\ mPool[b] \in Pools BY <1>4 DEF FinishCreate, MemoryInv, RegisterInv, RegisterTypes, Vacant
  <2>2. /\ adding[b] \in Int /\ mSize[b] \in Nat
        /\ pool[mPool[b]].padding <= adding[b]
        /\ adding[b] + mSize[b] <= pool[mPool[b]].padding + pool[mPool[b]].size
    BY <2>1, Numbers DEF MemoryInv, AddersFit
  <2>3. pool' = [pool EXCEPT ![mPool[b]] = [pool[mPool[b]] EXCEPT !.free = adding[b] + mSize[b]]]
    BY <1>4, <1>2, <2>1 DEF FinishCreate
  <2>4. CASE q = mPool[b] BY <1>1, <1>2, <2>1, <2>2, <2>3, <2>4
  <2>5. CASE q /= mPool[b] BY <1>1, <1>2, <2>3, <2>5
  <2>. QED BY <2>4, <2>5
<1>5. ASSUME NEW b \in Buffers, Clear(b) PROVE Fits(pool'[q]) BY <1>1, <1>5 DEF Clear, Surviving
<1>6. ASSUME NEW b \in Buffers, Reset(b) PROVE Fits(pool'[q])
  <2>1. mPool[b] \in Pools BY <1>6 DEF Reset, MemoryInv, RegisterInv, RegisterTypes
  <2>2. pool' = [pool EXCEPT ![mPool[b]] = [pool[mPool[b]] EXCEPT !.free = pool[mPool[b]].padding]]
    BY <1>6, <1>2, <2>1 DEF Reset
  <2>. QED BY <1>1, <1>2, <2>1, <2>2
<1>7. ASSUME NEW b \in Buffers, NEW src \in Buffers, Move(b, src) PROVE Fits(pool'[q])
  BY <1>1, <1>7 DEF Move, Surviving
<1>8. ASSUME NEW b \in Buffers, NEW n \in BufferSizes, NEW p \in Pools, StartCreate(b, p, n)
      PROVE Fits(pool'[q])
  BY <1>1, <1>8 DEF StartCreate
<1>9. ASSUME NEW b \in Buffers, NEW n \in PoolSizes, ResizeInPlace(b, n) PROVE Fits(pool'[q])
  <2>1. mPool[b] \in Pools /\ Usage(mPool[b]) <= n
    BY <1>9 DEF ResizeInPlace, Resizable, MemoryInv, RegisterInv, RegisterTypes
  <2>2. pool' = [pool EXCEPT ![mPool[b]] = [pool[mPool[b]] EXCEPT !.size = n]]
    BY <1>9, <1>2, <2>1 DEF ResizeInPlace
  <2>. QED BY <1>1, <1>2, <2>1, <2>2 DEF Usage
<1>10. ASSUME NEW p \in Pools, NEW n \in PoolSizes, NEW managed, NEW padding \in Padding,
              Usage(p) <= n, Relocate(p, n, managed, padding)
       PROVE Fits(pool'[q])
  <2>1. CASE q = p
    <3>1. padding \in Int /\ n \in Int /\ pool[p].padding \in Int /\ pool[p].free \in Int
      BY <1>2 DEF Padding
    <3>2. /\ pool'[p].padding = padding /\ pool'[p].size = n
          /\ pool'[p].free = padding + (pool[p].free - pool[p].padding)
      BY <1>2, <1>10 DEF Relocate, Usage
    <3>. QED BY <1>1, <1>10, <2>1, <3>1, <3>2 DEF Usage
  <2>2. CASE q /= p BY <1>1, <1>2, <1>10, <2>2 DEF Relocate
  <2>. QED BY <2>1, <2>2
<1>11. ASSUME NEW b \in Buffers, NEW n \in PoolSizes, NEW padding \in Padding, NEW managed \in BOOLEAN,
              ResizeManaged(b, n, padding) \/ ResizeElsewhere(b, n, managed, padding)
       PROVE Fits(pool'[q])
  <2>1. mPool[b] \in Pools /\ Usage(mPool[b]) <= n
    BY <1>11 DEF ResizeManaged, ResizeElsewhere, Resizable, MemoryInv, RegisterInv, RegisterTypes
  <2>. QED BY <1>10, <1>11, <2>1 DEF ResizeManaged, ResizeElsewhere
<1>12. ASSUME NEW b \in Buffers, NEW p \in Pools, NEW managed \in BOOLEAN, NEW padding \in Padding,
              \/ \E n \in PoolSizes : CreatePool(b, p, n, managed, padding)
              \/ \E n \in BufferSizes : \/ CreateFull(b, p, n, managed, padding)
                                        \/ Reinit(b, p, n, managed, padding)
       PROVE Fits(pool'[q])
  <2>1. padding \in Nat /\ BufferSizes \subseteq Nat /\ PoolSizes \subseteq Nat BY DEF Padding
  <2>2. ASSUME NEW n \in PoolSizes, CreatePool(b, p, n, managed, padding) PROVE Fits(pool'[q])
    BY <1>1, <1>2, <1>3, <2>1, <2>2 DEF CreatePool
  <2>3. ASSUME NEW n \in BufferSizes, CreateFull(b, p, n, managed, padding) PROVE Fits(pool'[q])
    BY <1>1, <1>2, <1>3, <2>1, <2>3 DEF CreateFull
  <2>4. ASSUME NEW n \in BufferSizes, Reinit(b, p, n, managed, padding) PROVE Fits(pool'[q])
    BY <1>1, <1>2, <1>3, <2>1, <2>4 DEF Reinit, Surviving
  <2>. QED BY <1>12, <2>2, <2>3, <2>4
<1>13. CASE UNCHANGED vars BY <1>1, <1>13 DEF vars
<1>. QED BY <1>4, <1>5, <1>6, <1>7, <1>8, <1>9, <1>11, <1>12, <1>13 DEF Next

(* While a thread creates a buffer in a pool, nothing else moves the ends   *)
(* of the pool, and the free pointer moves only if creations overlap.       *)
LEMMA AddersKept == MemoryInv /\ [Next]_vars => (AddersFit /\ OneAdder)'
<1>. SUFFICES ASSUME MemoryInv, [Next]_vars PROVE (AddersFit /\ OneAdder)' OBVIOUS
<1>. DEFINE Fits(a, n, r) == /\ r.padding <= a /\ a + n <= r.padding + r.size
                             /\ (a - r.padding) % Alignment = 0
            Unmoved(c) == /\ mPool'[c] = mPool[c] /\ mSize'[c] = mSize[c] /\ adding'[c] = adding[c]
                          /\ adding[c] /= NotAdding
                          /\ pool'[mPool[c]].padding = pool[mPool[c]].padding
                          /\ pool'[mPool[c]].size = pool[mPool[c]].size
                          /\ mPool[c] \notin raced' =>
                               mPool[c] \notin raced /\ pool'[mPool[c]].free = pool[mPool[c]].free
<1>1. \A c \in Buffers : adding[c] /= NotAdding =>
        /\ Fits(adding[c], mSize[c], pool[mPool[c]])
        /\ mPool[c] \notin raced => pool[mPool[c]].free <= adding[c]
  BY DEF MemoryInv, AddersFit, Idle
<1>2. \A c \in Buffers : adding[c] /= NotAdding => mPool[c] \in Pools
  BY DEF MemoryInv, RegisterInv, RegisterTypes, Vacant, Idle
<1>3. ASSUME \A c \in Buffers : adding'[c] /= NotAdding => Unmoved(c) PROVE (AddersFit /\ OneAdder)'
  <2>1. AddersFit' BY <1>1, <1>3 DEF AddersFit, Idle
  <2>2. OneAdder' BY <1>3 DEF MemoryInv, OneAdder, Idle
  <2>. QED BY <2>1, <2>2
<1>. HIDE DEF Fits
<1>. USE DEF MemoryInv, RegisterInv, RegisterTypes
<1>4. ASSUME NEW b \in Buffers, FinishCreate(b) PROVE (AddersFit /\ OneAdder)'
  <2>1. ~Idle(b) /\ mPool[b] \in Pools BY <1>2, <1>4 DEF FinishCreate, Idle
  <2>2. \A c \in Buffers : adding'[c] /= NotAdding => c /= b /\ adding[c] /= NotAdding
    BY <1>4 DEF FinishCreate
  <2>3. \A c \in Buffers : adding'[c] /= NotAdding => mPool[c] /= mPool[b] \/ mPool[c] \in raced
    BY <2>1, <2>2 DEF OneAdder, Idle
  <2>4. pool' = [pool EXCEPT ![mPool[b]] = [pool[mPool[b]] EXCEPT !.free = adding[b] + mSize[b]]]
    BY <1>4, <2>1 DEF FinishCreate
  <2>5. \A p \in Pools : /\ pool'[p].padding = pool[p].padding /\ pool'[p].size = pool[p].size
                         /\ p /= mPool[b] => pool'[p] = pool[p]
    BY <2>1, <2>4
  <2>6. raced' = raced /\ mPool' = mPool /\ mSize' = mSize
        /\ \A c \in Buffers : c /= b => adding'[c] = adding[c]
    BY <1>4 DEF FinishCreate
  <2>. QED BY <1>2, <1>3, <2>2, <2>3, <2>5, <2>6
<1>5. ASSUME NEW b \in Buffers, Clear(b) PROVE (AddersFit /\ OneAdder)'
  BY <1>2, <1>3, <1>5 DEF Clear, Surviving, StillHeld, Idle
<1>6. ASSUME NEW b \in Buffers, Reset(b) PROVE (AddersFit /\ OneAdder)'
  <2>1. \A c \in Buffers : adding[c] /= NotAdding => mPool[c] /= mPool[b]
    BY <1>6 DEF Reset, Adding, Holders
  <2>2. mPool[b] \in Pools BY <1>6 DEF Reset
  <2>3. \A c \in Buffers : adding[c] /= NotAdding => c \notin mRegister[mPool[b]]
    BY <2>2 DEF RegisterExact, Holders, Idle
  <2>. QED BY <1>2, <1>3, <1>6, <2>1, <2>2, <2>3 DEF Reset
<1>7. ASSUME NEW b \in Buffers, NEW src \in Buffers, Move(b, src) PROVE (AddersFit /\ OneAdder)'
  BY <1>2, <1>3, <1>7 DEF Move, Surviving, StillHeld, Idle
<1>8. ASSUME NEW b \in Buffers, NEW n \in BufferSizes, NEW p \in Pools, StartCreate(b, p, n)
      PROVE (AddersFit /\ OneAdder)'
  <2> DEFINE at == AlignUp(pool[p].free, pool[p].padding)
  <2>1. at \in Int /\ at >= pool[p].free /\ (at - pool[p].padding) % Alignment = 0 BY AlignUpAligns
  <2>2. at + n <= pool[p].padding + pool[p].size BY <1>8 DEF StartCreate
  <2>3. pool[p].padding <= pool[p].free BY DEF Space
  <2>4. Fits(at, n, pool[p]) BY <2>1, <2>2, <2>3 DEF Fits
  <2>. HIDE DEF at
  <2>5. /\ adding' = [adding EXCEPT ![b] = at] /\ mPool' = [mPool EXCEPT ![b] = p]
        /\ mSize' = [mSize EXCEPT ![b] = n] /\ pool' = pool
        /\ raced' = IF Adding(p) = {} THEN raced ELSE raced \union {p}
    BY <1>8 DEF StartCreate, at
  <2>6. \A c \in Buffers : adding[c] /= NotAdding => mPool[c] /= p \/ p \in raced'
    BY <2>5 DEF Adding, Holders
  <2>7. raced \subseteq raced' BY <2>5
  <2>8. AddersFit'
    <3>1. ASSUME NEW c \in Buffers, adding'[c] /= NotAdding
          PROVE  /\ Fits(adding'[c], mSize'[c], pool'[mPool'[c]])
                 /\ mPool'[c] \notin raced' => pool'[mPool'[c]].free <= adding'[c]
      <4>1. CASE c = b BY <2>1, <2>4, <2>5, <4>1
      <4>2. CASE c /= b BY <1>1, <2>5, <2>7, <3>1, <4>2
      <4>. QED BY <4>1, <4>2
    <3>. QED BY <3>1 DEF AddersFit, Idle, Fits
  <2>9. OneAdder'
    <3>1. \A c \in Buffers : c /= b => mPool'[c] = mPool[c] /\ adding'[c] = adding[c] BY <2>5
    <3>2. mPool'[b] = p BY <2>5
    <3>. QED BY <2>6, <2>7, <3>1, <3>2 DEF OneAdder, Idle
  <2>. QED BY <2>8, <2>9
<1>9. ASSUME NEW b \in Buffers, NEW n \in PoolSizes,
             \/ ResizeInPlace(b, n)
             \/ \E padding \in Padding : ResizeManaged(b, n, padding)
             \/ \E padding \in Padding, managed \in BOOLEAN : ResizeElsewhere(b, n, managed, padding)
      PROVE (AddersFit /\ OneAdder)'
  <2>1. Resizable(b, n) /\ UNCHANGED <<mPool, mSize, adding, raced>>
    BY <1>9 DEF ResizeInPlace, ResizeManaged, ResizeElsewhere
  <2>2. \A c \in Buffers : adding[c] /= NotAdding => mPool[c] /= mPool[b]
    BY <2>1 DEF Resizable, Adding, Holders
  <2>3. \A p \in Pools : p /= mPool[b] => pool'[p] = pool[p]
    BY <1>9 DEF ResizeInPlace, ResizeManaged, ResizeElsewhere, Relocate
  <2>. QED BY <1>2, <1>3, <2>1, <2>2, <2>3
<1>10. ASSUME NEW b \in Buffers, NEW p \in Pools, NEW managed \in BOOLEAN, NEW padding \in Padding,
              \/ \E n \in PoolSizes : CreatePool(b, p, n, managed, padding)
              \/ \E n \in BufferSizes : \/ CreateFull(b, p, n, managed, padding)
                                        \/ Reinit(b, p, n, managed, padding)
       PROVE (AddersFit /\ OneAdder)'
  <2>1. p \in Fresh /\ adding' = adding /\ adding[b] = NotAdding
    BY <1>10 DEF CreatePool, CreateFull, Reinit, Constructible, Vacant, Idle
  <2>2. \A c \in Buffers : c /= b => mPool'[c] = mPool[c] /\ mSize'[c] = mSize[c]
    BY <1>10 DEF CreatePool, CreateFull, Reinit
  <2>3. \A c \in Buffers : mPool[c] /= p BY <2>1 DEF Fresh, Holders
  <2>5. ASSUME NEW c \in Buffers, adding[c] /= NotAdding, mPool[c] \notin raced'
        PROVE  mPool[c] \notin raced
    <3>1. mPool'[c] = mPool[c] BY <2>1, <2>2, <2>5
    <3>. QED BY <1>10, <2>5, <3>1 DEF CreatePool, CreateFull, Reinit, StillHeld
  <2>4. ASSUME NEW c \in Buffers, adding[c] /= NotAdding PROVE pool'[mPool[c]] = pool[mPool[c]]
    <3>1. c /= b /\ mPool[c] \in Pools /\ mPool[c] /= p BY <1>2, <2>1, <2>3, <2>4
    <3>2. ASSUME NEW n \in BufferSizes, Reinit(b, p, n, managed, padding)
          PROVE pool'[mPool[c]] = pool[mPool[c]]
      BY <2>2, <3>1, <3>2 DEF Reinit, Surviving
    <3>. QED BY <1>10, <3>1, <3>2 DEF CreatePool, CreateFull
  <2>. QED BY <1>3, <2>1, <2>2, <2>4, <2>5
<1>11. CASE UNCHANGED vars BY <1>3, <1>11 DEF vars
<1>. HIDE DEF MemoryInv, RegisterInv, RegisterTypes
<1>. QED BY <1>4, <1>5, <1>6, <1>7, <1>8, <1>9, <1>10, <1>11 DEF Next

(* A step that leaves in the register of a pool only buffers that have the  *)
(* memory of one registered before, each of another one, all shifted by     *)
(* what the padding and the free pointer are shifted by, keeps the pool     *)
(* sound.                                                                   *)
LEMMA Carried ==
  ASSUME MemoryInv, NEW p \in Pools, mRegister' \in [Pools -> SUBSET Buffers],
         NEW d \in Int, NEW origin \in [Buffers -> Buffers],
         \A c \in mRegister'[p] : /\ origin[c] \in mRegister[p]
                                 /\ mData'[c] = mData[origin[c]] + d
                                 /\ mSize'[c] = mSize[origin[c]],
         \A a, c \in mRegister'[p] : a /= c => origin[a] /= origin[c],
         pool'[p].padding = pool[p].padding + d, pool'[p].free = pool[p].free + d,
         p \notin raced' => p \notin raced
  PROVE  Sound(p)'
<1>1. \A c \in mRegister[p] : /\ mData[c] \in Int /\ pool[p].padding <= mData[c]
                              /\ mData[c] + mSize[c] <= pool[p].padding + MaxSize
                              /\ Aligned(c, p)
  BY DEF MemoryInv, PoolsSound, Sound, PlacedAt
<1>2. pool[p].padding \in Int /\ pool[p].free \in Int BY Numbers DEF MemoryInv
<1>3. \A c \in mRegister[p] : mSize[c] \in Nat BY DEF MemoryInv, RegisterInv, RegisterTypes
<1>4. ASSUME NEW c \in mRegister'[p]
      PROVE  /\ mData'[c] \in Int /\ pool'[p].padding <= mData'[c]
             /\ mData'[c] + mSize'[c] <= pool'[p].padding + MaxSize
             /\ Aligned(c, p)'
  <2>1. /\ mData[origin[c]] \in Int /\ mSize[origin[c]] \in Nat
        /\ pool[p].padding <= mData[origin[c]]
        /\ mData[origin[c]] + mSize[origin[c]] <= pool[p].padding + MaxSize
        /\ Aligned(origin[c], p)
    BY <1>1, <1>3
  <2>2. mData'[c] = mData[origin[c]] + d /\ mSize'[c] = mSize[origin[c]] OBVIOUS
  <2>3. mData'[c] \in Int BY <2>1, <2>2
  <2>4. mData'[c] - pool'[p].padding = mData[origin[c]] - pool[p].padding BY <1>2, <2>1, <2>2
  <2>5. Aligned(c, p)' BY <2>1, <2>4 DEF Aligned
  <2>. QED BY <1>2, <2>1, <2>2, <2>3, <2>5
<1>5. ASSUME p \notin raced' PROVE MemoryAt(p)'
  <2>1. /\ \A c \in mRegister[p] : Inside(c, p)
        /\ \A a, c \in mRegister[p] : a /= c => Disjoint(a, c)
    BY <1>5 DEF MemoryInv, PoolsSound, Sound, MemoryAt
  <2>2. ASSUME NEW c \in mRegister'[p] PROVE Inside(c, p)'
    <3>1. /\ mData[origin[c]] \in Int /\ mSize[origin[c]] \in Nat /\ Inside(origin[c], p)
      BY <1>1, <1>3, <2>1
    <3>2. mData'[c] = mData[origin[c]] + d /\ mSize'[c] = mSize[origin[c]] OBVIOUS
    <3>. QED BY <1>2, <3>1, <3>2 DEF Inside
  <2>3. ASSUME NEW a \in mRegister'[p], NEW c \in mRegister'[p], a /= c PROVE Disjoint(a, c)'
    <3>1. /\ mData[origin[a]] \in Int /\ mSize[origin[a]] \in Nat
          /\ mData[origin[c]] \in Int /\ mSize[origin[c]] \in Nat
          /\ Disjoint(origin[a], origin[c])
      BY <1>1, <1>3, <2>1, <2>3
    <3>2. /\ mData'[a] = mData[origin[a]] + d /\ mSize'[a] = mSize[origin[a]]
          /\ mData'[c] = mData[origin[c]] + d /\ mSize'[c] = mSize[origin[c]]
      OBVIOUS
    <3>. QED BY <3>1, <3>2 DEF Disjoint
  <2>. QED BY <2>2, <2>3 DEF MemoryAt
<1>. QED BY <1>4, <1>5 DEF Sound, PlacedAt

(* In particular, a step that changes neither the pool nor the memory of    *)
(* those that stay registered.                                              *)
LEMMA Unmoved ==
  ASSUME MemoryInv, NEW p \in Pools, mRegister' \in [Pools -> SUBSET Buffers],
         \A c \in mRegister'[p] : c \in mRegister[p] /\ mData'[c] = mData[c] /\ mSize'[c] = mSize[c],
         pool'[p].padding = pool[p].padding, pool'[p].free = pool[p].free,
         p \notin raced' => p \notin raced
  PROVE  Sound(p)'
<1> DEFINE same == [c \in Buffers |-> c]
<1>1. mRegister'[p] \subseteq Buffers OBVIOUS
<1>2. \A c \in mRegister'[p] : mData[c] \in Int BY DEF MemoryInv, PoolsSound, Sound, PlacedAt
<1>3. pool[p].padding \in Int /\ pool[p].free \in Int BY Numbers DEF MemoryInv
<1>4. \A c \in mRegister'[p] : /\ same[c] \in mRegister[p] /\ mData'[c] = mData[same[c]] + 0
                              /\ mSize'[c] = mSize[same[c]]
  BY <1>1, <1>2
<1>5. \A a, c \in mRegister'[p] : a /= c => same[a] /= same[c] BY <1>1
<1>6. pool'[p].padding = pool[p].padding + 0 /\ pool'[p].free = pool[p].free + 0 BY <1>3
<1>7. same \in [Buffers -> Buffers] OBVIOUS
<1>. HIDE DEF same
<1>. QED BY <1>4, <1>5, <1>6, <1>7, Carried

(* A pool that one buffer fills.                                            *)
LEMMA Alone ==
  ASSUME NEW p \in Pools, NEW b \in Buffers, NEW padding \in Nat, NEW n \in 0 .. MaxSize,
         mRegister'[p] = {b}, mData'[b] = padding, mSize'[b] = n,
         pool'[p].padding = padding, pool'[p].free = padding + n
  PROVE  Sound(p)'
  BY DEF Sound, PlacedAt, MemoryAt, Inside, Aligned

(* That creations have overlapped in a pool is forgotten when it is reset   *)
(* or nobody holds it any more.                                             *)
LEMMA RacedHeld ==
  ASSUME [Next]_vars, NEW p \in Pools, p \in raced, p \notin raced', NEW c \in Buffers, mPool'[c] = p
  PROVE  \E b \in Buffers : Reset(b) /\ mPool[b] = p
<1>1. ~(raced \subseteq raced') OBVIOUS
<1>2. ASSUME raced' = StillHeld(raced, mPool') PROVE FALSE BY <1>2 DEF StillHeld
<1>3. ASSUME NEW b \in Buffers, Reset(b) PROVE mPool[b] = p BY <1>3 DEF Reset
<1>4. ASSUME NEW b \in Buffers,
             \/ Clear(b)
             \/ \E src \in Buffers : Move(b, src)
             \/ \E q \in Pools, n \in BufferSizes, managed \in BOOLEAN, padding \in Padding :
                  Reinit(b, q, n, managed, padding)
      PROVE FALSE
  BY <1>2, <1>4 DEF Clear, Move, Reinit
<1>5. ASSUME NEW b \in Buffers,
             \/ FinishCreate(b)
             \/ \E n \in BufferSizes, q \in Pools : StartCreate(b, q, n)
             \/ \E n \in PoolSizes : ResizeInPlace(b, n)
             \/ \E n \in PoolSizes, padding \in Padding : ResizeManaged(b, n, padding)
             \/ \E n \in PoolSizes, padding \in Padding, managed \in BOOLEAN :
                  ResizeElsewhere(b, n, managed, padding)
             \/ \E q \in Pools, n \in PoolSizes, managed \in BOOLEAN, padding \in Padding :
                  CreatePool(b, q, n, managed, padding)
             \/ \E q \in Pools, n \in BufferSizes, managed \in BOOLEAN, padding \in Padding :
                  CreateFull(b, q, n, managed, padding)
      PROVE FALSE
  BY <1>1, <1>5 DEF FinishCreate, StartCreate, ResizeInPlace, ResizeManaged, ResizeElsewhere,
                    CreatePool, CreateFull
<1>6. CASE UNCHANGED vars BY <1>1, <1>6 DEF vars
<1>. QED BY <1>3, <1>4, <1>5, <1>6 DEF Next

(* So while it has a registered buffer, it is not forgotten.                *)
LEMMA RacedStays ==
  ASSUME RegisterInv, [Next]_vars, NEW p \in Pools, p \in raced, p \notin raced',
         NEW c \in Buffers, Registered(c, p)'
  PROVE  FALSE
<1>1. PICK b \in Buffers : Reset(b) /\ mPool[b] = p BY RacedHeld DEF Registered
<1>2. mRegister'[p] = {} BY <1>1 DEF Reset, RegisterInv, RegisterTypes
<1>3. RegisterExact' BY RegisterKept
<1>. QED BY <1>2, <1>3 DEF RegisterExact, Registered, Holders

(* Every step of the threads leaves every pool sound.                       *)
LEMMA MemoryKept == MemoryInv /\ [Next]_vars => PoolsSound'
<1>. SUFFICES ASSUME MemoryInv, [Next]_vars, NEW q \in Pools PROVE Sound(q)' BY DEF PoolsSound
<1>1. RegisterInv /\ RegisterInv' BY RegisterTyped, RegisterKept DEF MemoryInv, RegisterInv
<1>2. /\ mRegister \in [Pools -> SUBSET Buffers] /\ mRegister' \in [Pools -> SUBSET Buffers]
      /\ mPool \in [Buffers -> Pools \union {NoPool}] /\ mSize \in [Buffers -> Nat]
      /\ pool \in [Pools -> [size : Int, managed : BOOLEAN, padding : Int, free : Int]]
  BY <1>1 DEF RegisterInv, RegisterTypes
<1>3. /\ \A p \in Pools, c \in Buffers : c \in mRegister[p] <=> Registered(c, p)
      /\ \A p \in Pools, c \in Buffers : c \in mRegister'[p] <=> Registered(c, p)'
  BY <1>1, <1>2 DEF RegisterInv, RegisterExact, Registered, Holders
<1>4. ASSUME mRegister'[q] = {} PROVE Sound(q)' BY <1>4 DEF Sound, PlacedAt, MemoryAt
<1>5. ASSUME pool' = Surviving(pool, mPool'), NEW c \in mRegister'[q] PROVE pool'[q] = pool[q]
  <2>1. c \in Buffers /\ mPool'[c] = q BY <1>2, <1>3 DEF Registered
  <2>. QED BY <1>5, <2>1 DEF Surviving
<1>r. ASSUME NEW c \in mRegister'[q] PROVE q \notin raced' => q \notin raced
  <2>1. c \in Buffers /\ Registered(c, q)' BY <1>2, <1>3
  <2>. QED BY <1>1, <2>1, RacedStays
<1>6. TypeOK BY DEF MemoryInv
<1>7. \A c \in Buffers : mData \in [Buffers -> Bytes \union {NullPtr}] BY <1>6 DEF TypeOK
<1>8. ASSUME NEW b \in Buffers, FinishCreate(b) PROVE Sound(q)'
  <2>0. ~Idle(b) /\ mPool[b] \in Pools BY <1>1, <1>2, <1>8 DEF FinishCreate, RegisterInv, Vacant
  <2>1. PICK p \in Pools : p = mPool[b] BY <2>0
  <2>2. /\ adding[b] \in Int /\ mSize[b] \in Nat /\ pool[p].padding <= adding[b]
        /\ adding[b] + mSize[b] <= pool[p].padding + pool[p].size
        /\ (adding[b] - pool[p].padding) % Alignment = 0
        /\ p \notin raced => pool[p].free <= adding[b]
    BY <1>6, <2>0, <2>1, Numbers DEF MemoryInv, AddersFit
  <2>3. /\ mRegister' = [mRegister EXCEPT ![p] = @ \union {b}] /\ mData' = [mData EXCEPT ![b] = adding[b]]
        /\ mSize' = mSize /\ raced' = raced
        /\ pool' = [pool EXCEPT ![p] = [pool[p] EXCEPT !.free = adding[b] + mSize[b]]]
    BY <1>2, <1>8, <2>1 DEF FinishCreate
  <2>4. \A r \in Pools : b \notin mRegister[r] BY <1>3, <2>0 DEF Registered
  <2>5. CASE q /= p
    <3>1. mRegister'[q] = mRegister[q] /\ pool'[q] = pool[q] BY <1>2, <2>1, <2>3, <2>5
    <3>2. \A c \in mRegister[q] : mData'[c] = mData[c] BY <1>2, <1>7, <2>3, <2>4
    <3>. QED BY <1>2, <2>3, <3>1, <3>2, Unmoved
  <2>6. CASE q = p
    <3>1. /\ mRegister'[p] = mRegister[p] \union {b}
          /\ pool'[p].padding = pool[p].padding /\ pool'[p].free = adding[b] + mSize[b]
          /\ pool[p].padding \in Int /\ pool[p].free \in Int
      BY <1>2, <2>1, <2>3
    <3>2. pool[p].size <= MaxSize /\ pool[p].size \in Int /\ pool[p].padding <= pool[p].free
      <4>1. pool[p].size \in Sizes \union {0} BY <1>6, <2>1 DEF TypeOK
      <4>2. Sizes \union {0} \subseteq 0 .. MaxSize BY DEF Sizes
      <4>3. pool[p].size \in 0 .. MaxSize BY <4>1, <4>2
      <4>. QED BY <2>1, <4>3 DEF MemoryInv, Space
    <3>3. mData'[b] = adding[b] /\ \A c \in mRegister[p] : mData'[c] = mData[c]
      BY <1>2, <1>7, <2>1, <2>3, <2>4
    <3>4. \A c \in mRegister[p] : /\ mData[c] \in Int /\ pool[p].padding <= mData[c]
                                  /\ mData[c] + mSize[c] <= pool[p].padding + MaxSize
                                  /\ Aligned(c, p)
      BY <2>1 DEF MemoryInv, PoolsSound, Sound, PlacedAt
    <3>5. \A c \in mRegister[p] : mSize[c] \in Nat BY <1>2, <2>1
    <3>6. PlacedAt(p)'
      <4>1. ASSUME NEW c \in mRegister'[p]
            PROVE  /\ mData'[c] \in Int /\ pool'[p].padding <= mData'[c]
                   /\ mData'[c] + mSize'[c] <= pool'[p].padding + MaxSize
                   /\ Aligned(c, p)'
        <5>1. CASE c = b BY <2>2, <2>3, <3>1, <3>2, <3>3, <5>1 DEF Aligned
        <5>2. CASE c \in mRegister[p] BY <2>2, <2>3, <3>1, <3>3, <3>4, <3>5, <5>2 DEF Aligned
        <5>. QED BY <3>1, <5>1, <5>2
      <4>. QED BY <4>1 DEF PlacedAt
    <3>7. ASSUME p \notin raced' PROVE MemoryAt(p)'
      <4>1. /\ \A c \in mRegister[p] : Inside(c, p)
            /\ \A a, c \in mRegister[p] : a /= c => Disjoint(a, c)
            /\ pool[p].free <= adding[b]
        BY <2>1, <2>2, <2>3, <3>7 DEF MemoryInv, PoolsSound, Sound, MemoryAt
      <4>2. ASSUME NEW c \in mRegister'[p] PROVE Inside(c, p)'
        <5>1. CASE c = b BY <2>2, <2>3, <3>1, <3>3, <5>1 DEF Inside
        <5>2. CASE c \in mRegister[p] BY <2>2, <2>3, <3>1, <3>3, <3>4, <3>5, <4>1, <5>2 DEF Inside
        <5>. QED BY <3>1, <5>1, <5>2
      <4>3. ASSUME NEW c \in mRegister[p] PROVE mData'[c] + mSize'[c] <= mData'[b]
        BY <2>2, <2>3, <3>1, <3>3, <3>4, <3>5, <4>1 DEF Inside
      <4>4. ASSUME NEW a \in mRegister'[p], NEW c \in mRegister'[p], a /= c PROVE Disjoint(a, c)'
        <5>1. CASE a \in mRegister[p] /\ c \in mRegister[p] BY <2>3, <3>3, <4>1, <4>4, <5>1 DEF Disjoint
        <5>2. CASE a = b \/ c = b BY <3>1, <4>3, <4>4, <5>2 DEF Disjoint
        <5>. QED BY <3>1, <5>1, <5>2
      <4>. QED BY <4>2, <4>4 DEF MemoryAt
    <3>. QED BY <2>6, <3>6, <3>7 DEF Sound
  <2>. QED BY <2>5, <2>6
<1>9. ASSUME NEW b \in Buffers, Clear(b) PROVE Sound(q)'
  <2>1. \A c \in mRegister'[q] : c \in mRegister[q] /\ c /= b BY <1>2, <1>3, <1>9 DEF Clear, Registered
  <2>2. \A c \in mRegister'[q] : mData'[c] = mData[c] /\ mSize'[c] = mSize[c]
    BY <1>2, <1>7, <1>9, <2>1 DEF Clear
  <2>3. CASE mRegister'[q] /= {}
    <3>1. pool' = Surviving(pool, mPool') BY <1>9 DEF Clear
    <3>2. pool'[q] = pool[q] BY <1>5, <2>3, <3>1
    <3>. QED BY <1>2, <1>r, <2>1, <2>2, <2>3, <3>2, Unmoved
  <2>. QED BY <1>4, <2>3
<1>10. ASSUME NEW b \in Buffers, Reset(b) PROVE Sound(q)'
  <2>1. mPool[b] \in Pools BY <1>2, <1>10 DEF Reset
  <2>2. CASE q = mPool[b] BY <1>2, <1>4, <1>10, <2>1, <2>2 DEF Reset
  <2>3. CASE q /= mPool[b]
    <3>1. mRegister'[q] = mRegister[q] /\ pool'[q] = pool[q] BY <1>2, <1>10, <2>1, <2>3 DEF Reset
    <3>r. q \notin raced' => q \notin raced BY <1>10, <2>3 DEF Reset
    <3>2. \A c \in mRegister[q] : c \in Buffers /\ c \notin mRegister[mPool[b]]
      BY <1>2, <1>3, <2>1, <2>3 DEF Registered
    <3>3. \A c \in mRegister[q] : mData'[c] = mData[c] /\ mSize'[c] = mSize[c]
      BY <1>10, <3>2 DEF Reset
    <3>. QED BY <1>2, <2>3, <3>1, <3>3, <3>r, Unmoved
  <2>. QED BY <2>2, <2>3
<1>11. ASSUME NEW b \in Buffers, NEW src \in Buffers, Move(b, src) PROVE Sound(q)'
  <2> DEFINE origin == [c \in Buffers |-> IF c = b THEN src ELSE c]
  <2>1. /\ b /= src
        /\ mPool' = [mPool EXCEPT ![b] = mPool[src], ![src] = NoPool]
        /\ mSize' = [mSize EXCEPT ![b] = mSize[src], ![src] = 0]
        /\ mData' = [mData EXCEPT ![b] = mData[src], ![src] = NullPtr]
        /\ adding' = adding /\ Idle(b) /\ Idle(src)
    BY <1>11 DEF Move
  <2>2. ASSUME NEW c \in mRegister'[q]
        PROVE  c \in Buffers /\ c /= src /\ origin[c] \in mRegister[q]
    <3>1. c \in Buffers /\ Registered(c, q)' BY <1>2, <1>3
    <3>2. c /= src BY <1>2, <2>1, <3>1 DEF Registered
    <3>3. Registered(origin[c], q) BY <1>2, <2>1, <3>1, <3>2 DEF Registered, Idle
    <3>. QED BY <1>3, <3>1, <3>2, <3>3
  <2>3. ASSUME NEW c \in mRegister'[q]
        PROVE  mData'[c] = mData[origin[c]] + 0 /\ mSize'[c] = mSize[origin[c]]
    <3>1. c \in Buffers /\ c /= src /\ mData[origin[c]] \in Int
      BY <2>2 DEF MemoryInv, PoolsSound, Sound, PlacedAt
    <3>2. mData'[c] = mData[origin[c]] BY <1>7, <2>1, <3>1
    <3>3. mSize'[c] = mSize[origin[c]] BY <1>2, <2>1, <3>1
    <3>. QED BY <3>1, <3>2, <3>3
  <2>4. \A a, c \in mRegister'[q] : a /= c => origin[a] /= origin[c] BY <2>2
  <2>5. origin \in [Buffers -> Buffers] OBVIOUS
  <2>6. CASE mRegister'[q] /= {}
    <3>1. pool' = Surviving(pool, mPool') BY <1>11 DEF Move
    <3>2. pool'[q] = pool[q] BY <1>5, <2>6, <3>1
    <3>3. pool'[q].padding = pool[q].padding + 0 /\ pool'[q].free = pool[q].free + 0 BY <1>2, <3>2
    <3>. HIDE DEF origin
    <3>4. \A c \in mRegister'[q] : /\ origin[c] \in mRegister[q] /\ mData'[c] = mData[origin[c]] + 0
                                  /\ mSize'[c] = mSize[origin[c]]
      BY <2>2, <2>3
    <3>5. mRegister' \in [Pools -> SUBSET Buffers] /\ 0 \in Int BY <1>2
    <3>6. q \notin raced' => q \notin raced BY <1>r, <2>6
    <3>. QED BY <2>4, <2>5, <3>3, <3>4, <3>5, <3>6, Carried
  <2>. QED BY <1>4, <2>6
<1>12. ASSUME NEW b \in Buffers, NEW n \in BufferSizes, NEW p \in Pools, StartCreate(b, p, n)
       PROVE Sound(q)'
  <2>1. \A c \in mRegister[q] : c \in Buffers /\ c /= b
    BY <1>2, <1>3, <1>12 DEF StartCreate, Constructible, Registered
  <2>2. \A c \in mRegister[q] : mData'[c] = mData[c] /\ mSize'[c] = mSize[c]
    BY <1>2, <1>12, <2>1 DEF StartCreate
  <2>3. mRegister' = mRegister /\ pool' = pool /\ raced \subseteq raced' BY <1>12 DEF StartCreate
  <2>. QED BY <1>2, <2>2, <2>3, Unmoved
<1>13. ASSUME NEW b \in Buffers, NEW n \in PoolSizes, ResizeInPlace(b, n) PROVE Sound(q)'
  <2>1. mPool[b] \in Pools BY <1>2, <1>13 DEF ResizeInPlace, Resizable
  <2>2. pool' = [pool EXCEPT ![mPool[b]] = [pool[mPool[b]] EXCEPT !.size = n]]
    BY <1>2, <1>13, <2>1 DEF ResizeInPlace
  <2>3. pool'[q].padding = pool[q].padding /\ pool'[q].free = pool[q].free BY <1>2, <2>1, <2>2
  <2>4. mRegister' = mRegister /\ mData' = mData /\ mSize' = mSize /\ raced' = raced
    BY <1>13 DEF ResizeInPlace
  <2>. QED BY <1>2, <2>3, <2>4, Unmoved
<1>14. ASSUME NEW p \in Pools, NEW n, NEW managed, NEW padding \in Padding,
              Relocate(p, n, managed, padding), mRegister' = mRegister, mSize' = mSize, raced' = raced
       PROVE Sound(q)'
  <2>1. padding \in Int /\ pool[p].padding \in Int /\ pool[p].free \in Int BY <1>2 DEF Padding
  <2>2. CASE q /= p
    <3>1. \A c \in mRegister[q] : c \in Buffers /\ c \notin mRegister[p]
      BY <1>2, <1>3, <2>2 DEF Registered
    <3>2. \A c \in mRegister[q] : mData'[c] = mData[c] BY <1>14, <3>1 DEF Relocate
    <3>3. pool'[q] = pool[q] BY <1>14, <1>2, <2>2 DEF Relocate
    <3>. QED BY <1>14, <1>2, <3>2, <3>3, Unmoved
  <2>3. CASE q = p
    <3> DEFINE d == padding - pool[p].padding
               same == [c \in Buffers |-> c]
    <3>1. d \in Int BY <2>1
    <3>2. pool'[p].padding = pool[p].padding + d /\ pool'[p].free = pool[p].free + d
      BY <1>14, <1>2, <2>1 DEF Relocate, Usage
    <3>3. ASSUME NEW c \in mRegister[p] PROVE mData'[c] = mData[same[c]] + d /\ same[c] = c
      <4>1. c \in Buffers /\ mData[c] \in Int BY <1>2 DEF MemoryInv, PoolsSound, Sound, PlacedAt
      <4>2. mData'[c] = padding + (mData[c] - pool[p].padding) BY <1>14, <4>1 DEF Relocate
      <4>. QED BY <2>1, <4>1, <4>2
    <3>4. same \in [Buffers -> Buffers] OBVIOUS
    <3>. HIDE DEF d, same
    <3>5. \A c \in mRegister'[p] : /\ same[c] \in mRegister[p] /\ mData'[c] = mData[same[c]] + d
                                  /\ mSize'[c] = mSize[same[c]]
      BY <1>14, <3>3
    <3>6. \A a, c \in mRegister'[p] : a /= c => same[a] /= same[c] BY <1>14, <3>3
    <3>7. mRegister' \in [Pools -> SUBSET Buffers] BY <1>2
    <3>8. Sound(p)' BY <1>14, <3>1, <3>2, <3>4, <3>5, <3>6, <3>7, Carried
    <3>. QED BY <2>3, <3>8
  <2>. QED BY <2>2, <2>3
<1>15. ASSUME NEW b \in Buffers, NEW n \in PoolSizes, NEW padding \in Padding, NEW managed \in BOOLEAN,
              ResizeManaged(b, n, padding) \/ ResizeElsewhere(b, n, managed, padding)
       PROVE Sound(q)'
  <2>1. mPool[b] \in Pools BY <1>2, <1>15 DEF ResizeManaged, ResizeElsewhere, Resizable
  <2>. QED BY <1>14, <1>15, <2>1 DEF ResizeManaged, ResizeElsewhere
<1>16. ASSUME NEW b \in Buffers, NEW p \in Pools, NEW managed \in BOOLEAN, NEW padding \in Padding,
              NEW n \in PoolSizes, CreatePool(b, p, n, managed, padding)
       PROVE Sound(q)'
  <2>1. CASE q = p BY <1>2, <1>4, <1>16, <2>1 DEF CreatePool
  <2>2. CASE q /= p
    <3>1. mRegister'[q] = mRegister[q] /\ pool'[q] = pool[q] /\ mData' = mData /\ mSize' = mSize
          /\ raced' = raced
      BY <1>2, <1>16, <2>2 DEF CreatePool
    <3>. QED BY <1>2, <3>1, Unmoved
  <2>. QED BY <2>1, <2>2
<1>17. ASSUME NEW b \in Buffers, NEW p \in Pools, NEW managed \in BOOLEAN, NEW padding \in Padding,
              NEW n \in BufferSizes,
              CreateFull(b, p, n, managed, padding) \/ Reinit(b, p, n, managed, padding)
       PROVE Sound(q)'
  <2>1. padding \in Nat /\ n \in 0 .. MaxSize /\ mSize[b] = 0
    BY <1>1, <1>17 DEF Padding, CreateFull, Reinit, RegisterInv, Vacant, Constructible
  <2>2. /\ mSize' = [mSize EXCEPT ![b] = n] /\ mData' = [mData EXCEPT ![b] = padding]
        /\ mRegister' = [mRegister EXCEPT ![p] = {b}] /\ mPool' = [mPool EXCEPT ![b] = p]
    BY <1>17 DEF CreateFull, Reinit
  <2>3. mPool'[b] = p BY <1>2, <2>2
  <2>4. pool'[p].padding = padding /\ pool'[p].free = padding + n
    BY <1>2, <1>17, <2>3 DEF CreateFull, Reinit, NewPool, Surviving
  <2>5. CASE q = p
    <3>1. mRegister'[p] = {b} /\ mData'[b] = padding /\ mSize'[b] = n BY <1>2, <1>7, <2>2
    <3>. QED BY <2>1, <2>4, <2>5, <3>1, Alone
  <2>6. CASE q /= p
    <3>1. mRegister'[q] = mRegister[q] BY <1>2, <2>2, <2>6
    <3>2. \A c \in mRegister[q] : c \in Buffers /\ c /= b BY <1>2, <1>3, <2>1 DEF Registered
    <3>3. \A c \in mRegister[q] : mData'[c] = mData[c] /\ mSize'[c] = mSize[c]
      BY <1>2, <1>7, <2>2, <3>2
    <3>4. CASE mRegister'[q] /= {}
      <4>1. PICK c \in Buffers : mPool'[c] = q BY <1>2, <1>3, <3>4 DEF Registered
      <4>2. pool'[q] = pool[q] BY <1>2, <1>17, <2>2, <2>6, <4>1 DEF CreateFull, Reinit, Surviving
      <4>. QED BY <1>2, <1>r, <3>1, <3>3, <3>4, <4>2, Unmoved
    <3>. QED BY <1>4, <3>4
  <2>. QED BY <2>5, <2>6
<1>18. CASE UNCHANGED vars BY <1>2, <1>18, Unmoved DEF vars
<1>. QED BY <1>8, <1>9, <1>10, <1>11, <1>12, <1>13, <1>15, <1>16, <1>17, <1>18 DEF Next

(* The invariant holds.                                                     *)
LEMMA MemoryInvariant == Spec => []MemoryInv
<1>1. Init => MemoryInv
  <2>. SUFFICES ASSUME Init PROVE MemoryInv OBVIOUS
  <2>1. RegisterInv
    BY DEF Init, RegisterInv, RegisterTypes, Vacant, Started, RegisterExact, Idle, Holders, Freed
  <2>2. TypeOK BY DEF Init, TypeOK, Bytes, Padding, Garbage, Freed
  <2>3. Space BY DEF Init, Space, Freed
  <2>4. PoolsSound /\ AddersFit /\ OneAdder
    BY DEF Init, PoolsSound, Sound, PlacedAt, MemoryAt, AddersFit, OneAdder, Idle
  <2>. QED BY <2>1, <2>2, <2>3, <2>4 DEF MemoryInv
<1>2. MemoryInv /\ [Next]_vars => MemoryInv'
  BY RegisterTyped, RegisterKept, TypeKept, SpaceKept, MemoryKept, AddersKept DEF MemoryInv, RegisterInv
<1>. QED BY <1>1, <1>2, PTL DEF Spec

(* The variables keep their types: no address leaves its block.             *)
THEOREM TypeCorrect == Spec => []TypeOK
<1>1. MemoryInv => TypeOK BY DEF MemoryInv
<1>. QED BY <1>1, MemoryInvariant, PTL

(* Every buffer is aligned, and every free pointer inside its pool, however *)
(* threads create, move and clear buffers, resize pools and reset them, and *)
(* also if creations in a pool overlap.                                     *)
THEOREM PoolCorrect == Spec => []WithinPool
<1>1. MemoryInv => WithinPool BY DEF MemoryInv, Space, PoolsSound, Sound, PlacedAt, WithinPool
<1>. QED BY <1>1, MemoryInvariant, PTL

(* In a pool in which no creations have overlapped since it was made or     *)
(* reset, the buffers are before the free pointer and share no byte,        *)
(* whatever threads do at the same time in this pool and in others.         *)
THEOREM MemoryDisjoint == Spec => []OwnMemory
<1>1. MemoryInv => OwnMemory BY DEF MemoryInv, PoolsSound, Sound, MemoryAt, OwnMemory
<1>. QED BY <1>1, MemoryInvariant, PTL

(* Both: what overlapping creations can harm, and nothing else.             *)
THEOREM MemoryCorrect == Spec => []MemorySafe
<1>1. WithinPool /\ OwnMemory => MemorySafe BY DEF MemorySafe
<1>. QED BY <1>1, PoolCorrect, MemoryDisjoint, PTL

-------------------------------------------------------------------------------
(* The content of buffers.  It rests on MemoryInv: other buffers are       *)
(* written, and blocks are moved, while a buffer of a pool in which no     *)
(* creations have overlapped has its own memory.                           *)

(* A buffer that was written uses memory.                                   *)
WroteOwn == \A b \in Buffers : wrote[b] /= Unwritten => mSize[b] > 0 /\ Idle(b)

ContentInv == MemoryInv /\ WroteOwn /\ ContentKept

Span(b) == mData[b] .. mData[b] + mSize[b] - 1

(* The two parts of the invariant for one buffer.                           *)
Keeps(b) == wrote[b] /= Unwritten =>
              /\ mSize[b] > 0 /\ Idle(b)
              /\ mPool[b] \notin raced => \A i \in Span(b) : memory[mPool[b]][i] = wrote[b]

(* They say it of every buffer.                                            *)
LEMMA ByBuffer == WroteOwn /\ ContentKept <=> \A b \in Buffers : Keeps(b)
  BY DEF WroteOwn, ContentKept, Keeps, Span

(* The memory of a buffer that was written lies in its pool.                *)
LEMMA Placed ==
  ASSUME ContentInv, NEW b \in Buffers, wrote[b] /= Unwritten
  PROVE  /\ mPool[b] \in Pools /\ b \in mRegister[mPool[b]]
         /\ mData[b] \in Int /\ mSize[b] \in Nat
         /\ pool[mPool[b]].padding <= mData[b]
         /\ mPool[b] \notin raced => mData[b] + mSize[b] <= pool[mPool[b]].free
         /\ Span(b) \subseteq Bytes
<1>1. mSize[b] > 0 /\ Idle(b) BY DEF ContentInv, WroteOwn
<1>2. mPool[b] \in Pools /\ mSize[b] \in Nat
  BY <1>1 DEF ContentInv, MemoryInv, RegisterInv, RegisterTypes, Vacant
<1>3. b \in mRegister[mPool[b]] BY <1>1, <1>2 DEF ContentInv, MemoryInv, RegisterInv, RegisterExact, Holders
<1>4. /\ mData[b] \in Int /\ pool[mPool[b]].padding <= mData[b]
      /\ mData[b] + mSize[b] <= pool[mPool[b]].padding + MaxSize
      /\ mPool[b] \notin raced => Inside(b, mPool[b])
  BY <1>2, <1>3 DEF ContentInv, MemoryInv, PoolsSound, Sound, PlacedAt, MemoryAt
<1>5. pool[mPool[b]].padding \in 0 .. Alignment - 1
  BY <1>2 DEF ContentInv, MemoryInv, TypeOK, Padding
<1>6. Span(b) \subseteq Bytes
  <2>1. mData[b] >= 0 /\ mData[b] + mSize[b] <= MaxSize + Alignment - 1 BY <1>4, <1>5, <1>2
  <2>. QED BY <1>2, <1>4, <2>1 DEF Span, Bytes
<1>. QED BY <1>2, <1>3, <1>4, <1>6 DEF Inside

(* Buffers that were written share no byte, unless creations overlapped.    *)
LEMMA Apart ==
  ASSUME ContentInv, NEW a \in Buffers, NEW b \in Buffers, a /= b, mPool[a] = mPool[b],
         mPool[a] \notin raced, wrote[a] /= Unwritten, wrote[b] /= Unwritten
  PROVE  \A i \in Span(a) : i \notin Span(b)
<1>1. Disjoint(a, b) BY Placed DEF ContentInv, MemoryInv, PoolsSound, Sound, MemoryAt
<1>. QED BY <1>1, Placed DEF Disjoint, Span

(* A buffer keeps its content if it is the one that another had before, and *)
(* the bytes have moved as far as the buffer.                               *)
LEMMA ContentMoved ==
  ASSUME ContentInv, [Next]_vars, NEW b \in Buffers, NEW origin \in Buffers, NEW d \in Int,
         wrote'[b] = wrote[origin], mPool'[b] = mPool[origin], mSize'[b] = mSize[origin], adding'[b] = adding[origin],
         wrote[origin] /= Unwritten => mData'[b] = mData[origin] + d,
         wrote[origin] /= Unwritten /\ mPool[origin] \notin raced =>
           \A i \in Span(origin) : memory'[mPool'[b]][i + d] = memory[mPool[origin]][i]
  PROVE  Keeps(b)'
<1>. SUFFICES ASSUME wrote'[b] /= Unwritten
     PROVE /\ mSize'[b] > 0 /\ Idle(b)'
           /\ mPool'[b] \notin raced' =>
                \A i \in mData'[b] .. mData'[b] + mSize'[b] - 1 : memory'[mPool'[b]][i] = wrote'[b]
  BY DEF Keeps, Span
<1>1. wrote[origin] /= Unwritten OBVIOUS
<1>2. /\ mSize[origin] > 0 /\ Idle(origin)
      /\ mPool[origin] \notin raced => \A i \in Span(origin) : memory[mPool[origin]][i] = wrote[origin]
  BY <1>1, ByBuffer DEF ContentInv, Keeps
<1>5. ASSUME mPool'[b] \notin raced', mPool[origin] \in raced PROVE FALSE
  <2>1. PICK r \in Buffers : Reset(r) /\ mPool[r] = mPool[origin] BY <1>1, <1>5, Placed, RacedHeld
  <2>2. CASE b \in mRegister[mPool[r]] BY <2>1, <2>2 DEF Reset
  <2>3. CASE b \notin mRegister[mPool[r]]
    <3>1. wrote'[b] = wrote[b] /\ mPool'[b] = mPool[b] BY <2>1, <2>3 DEF Reset
    <3>. QED BY <2>1, <2>3, <3>1, Placed
  <2>. QED BY <2>2, <2>3
<1>3. mData[origin] \in Int /\ mSize[origin] \in Nat BY <1>1, Placed
<1>4. ASSUME mPool'[b] \notin raced', NEW i \in mData'[b] .. mData'[b] + mSize'[b] - 1
      PROVE  memory'[mPool'[b]][i] = wrote'[b]
  <2>0. mPool[origin] \notin raced BY <1>4, <1>5
  <2>1. i - d \in Span(origin) BY <1>1, <1>3 DEF Span
  <2>2. (i - d) + d = i BY <1>1, <1>3
  <2>3. memory'[mPool'[b]][(i - d) + d] = memory[mPool[origin]][i - d] BY <1>1, <2>0, <2>1
  <2>4. memory[mPool[origin]][i - d] = wrote[origin] BY <1>2, <2>0, <2>1
  <2>. QED BY <2>2, <2>3, <2>4
<1>. QED BY <1>2, <1>4 DEF Idle

(* In particular if neither the buffer nor its bytes have changed.          *)
LEMMA ContentUntouched ==
  ASSUME ContentInv, [Next]_vars, NEW b \in Buffers,
         wrote'[b] = wrote[b], mPool'[b] = mPool[b], mSize'[b] = mSize[b], adding'[b] = adding[b],
         wrote[b] /= Unwritten => mData'[b] = mData[b],
         wrote[b] /= Unwritten /\ mPool[b] \notin raced => \A i \in Span(b) : memory'[mPool'[b]][i] = memory[mPool[b]][i]
  PROVE  Keeps(b)'
<1>1. wrote[b] /= Unwritten => mData'[b] = mData[b] + 0 BY Placed
<1>2. wrote[b] /= Unwritten /\ mPool[b] \notin raced =>
        \A i \in Span(b) : memory'[mPool'[b]][i + 0] = memory[mPool[b]][i]
  <2>1. wrote[b] /= Unwritten => Span(b) \subseteq Int BY Placed DEF Bytes
  <2>2. \A i \in Int : i + 0 = i OBVIOUS
  <2>. QED BY <2>1, <2>2
<1>. QED BY <1>1, <1>2, ContentMoved

(* A buffer holds what it was just filled with.                             *)
LEMMA JustFilled ==
  ASSUME NEW b \in Buffers, NEW at \in Nat, NEW n \in Nat \ {0}, at + n - 1 \in Bytes, NEW p,
         Idle(b)', mSize'[b] = n, mData'[b] = at, wrote'[b] = b,
         memory'[mPool'[b]] = Filled(p, at, n, b)
  PROVE  Keeps(b)'
<1>1. ASSUME NEW i \in at .. at + n - 1 PROVE Filled(p, at, n, b)[i] = b BY <1>1 DEF Filled, Bytes
<1>. QED BY <1>1 DEF Keeps, Span

(* Giving up the memory of a buffer leaves that of the others.              *)
LEMMA OthersStay ==
  ASSUME ContentInv, NEW b \in Buffers, NEW c \in Buffers, b /= c, mPool[b] = mPool[c],
         Idle(b), wrote[c] /= Unwritten, mPool[c] \notin raced, NEW i \in Span(c)
  PROVE  GivenUp(mPool[b], b)[i] = memory[mPool[c]][i]
<1>1. CASE mSize[b] = 0 BY <1>1 DEF GivenUp
<1>2. CASE mSize[b] /= 0
  <2>1. mPool[c] \in Pools /\ c \in mRegister[mPool[c]] /\ i \in Bytes BY Placed
  <2>2. b \in mRegister[mPool[c]]
    BY <1>2, <2>1 DEF ContentInv, MemoryInv, RegisterInv, RegisterTypes, RegisterExact, Holders
  <2>3. Disjoint(b, c) /\ mData[b] \in Int /\ mData[c] \in Int
    BY <2>1, <2>2 DEF ContentInv, MemoryInv, PoolsSound, Sound, PlacedAt, MemoryAt
  <2>4. mSize[b] \in Nat /\ mSize[c] \in Nat BY DEF ContentInv, MemoryInv, RegisterInv, RegisterTypes
  <2>5. i \notin mData[b] .. mData[b] + mSize[b] - 1 BY <2>3, <2>4 DEF Disjoint, Span
  <2>6. Filled(mPool[b], mData[b], mSize[b], Unwritten)[i] = memory[mPool[b]][i]
    BY <2>1, <2>3, <2>4, <2>5 DEF Filled, Bytes
  <2>. QED BY <1>2, <2>6 DEF GivenUp
<1>. QED BY <1>1, <1>2

(* The used bytes of a pool are found where the block has moved to.         *)
LEMMA UsedCopied ==
  ASSUME NEW from, NEW padding \in Nat, NEW newPadding \in Nat, NEW usage \in Int,
         NEW i \in Int, padding <= i, i < padding + usage,
         NEW j \in Bytes, j = i + (newPadding - padding)
  PROVE  Copied(from, padding, newPadding, usage)[j] = from[i]
<1>1. j - newPadding \in 0 .. usage - 1 /\ j - newPadding + padding = i BY DEF Bytes
<1>. QED BY <1>1 DEF Copied

LEMMA UsedReallocated ==
  ASSUME NEW from, NEW padding \in Padding, NEW newPadding \in Padding, NEW usage \in Int,
         NEW n \in Nat, usage <= n,
         NEW i \in Bytes, padding <= i, i < padding + usage,
         i + (newPadding - padding) \in Bytes
  PROVE  Reallocated(from, padding, newPadding, usage, n)[i + (newPadding - padding)] = from[i]
<1> DEFINE raw == [j \in Bytes |-> IF j < n + Alignment THEN from[j] ELSE Unwritten]
<1>1. raw[i] = from[i] BY DEF Bytes, Padding
<1>2. CASE newPadding = padding
  <2>1. i + (newPadding - padding) = i BY <1>2 DEF Bytes, Padding
  <2>. QED BY <1>1, <1>2, <2>1 DEF Reallocated
<1>3. CASE newPadding /= padding
  <2>1. padding \in Nat /\ newPadding \in Nat /\ i \in Int BY DEF Padding, Bytes
  <2>2. PICK j \in Bytes : j = i + (newPadding - padding) OBVIOUS
  <2>. HIDE DEF raw
  <2>3. Copied(raw, padding, newPadding, usage)[j] = raw[i] BY <2>1, <2>2, UsedCopied
  <2>. QED BY <1>1, <1>3, <2>2, <2>3 DEF Reallocated, raw
<1>. QED BY <1>2, <1>3

(* A pool that is given another block.                                      *)
LEMMA ContentRelocated ==
  ASSUME ContentInv, [Next]_vars, NEW p \in Pools, NEW n \in PoolSizes, NEW managed,
         NEW padding \in Padding,
         Relocate(p, n, managed, padding), Usage(p) <= n,
         mPool' = mPool, mSize' = mSize, adding' = adding, mRegister' = mRegister, wrote' = wrote,
         \/ memory' = [memory EXCEPT ![p] = Reallocated(@, pool[p].padding, padding, Usage(p), n)]
         \/ memory' = [memory EXCEPT ![p] = Copied(@, pool[p].padding, padding, Usage(p))],
         NEW c \in Buffers
  PROVE  Keeps(c)'
<1>. SUFFICES ASSUME wrote[c] /= Unwritten PROVE Keeps(c)' BY DEF Keeps
<1>1. /\ mPool[c] \in Pools /\ c \in mRegister[mPool[c]] /\ mData[c] \in Int /\ mSize[c] \in Nat
      /\ pool[mPool[c]].padding <= mData[c]
      /\ mPool[c] \notin raced => mData[c] + mSize[c] <= pool[mPool[c]].free
      /\ Span(c) \subseteq Bytes
  BY Placed
<1>2. memory \in [Pools -> [Bytes -> Buffers \union {Unwritten}]] BY DEF ContentInv, MemoryInv, TypeOK
<1>3. CASE mPool[c] /= p
  <2>1. c \notin mRegister[p]
    BY <1>1, <1>3 DEF ContentInv, MemoryInv, RegisterInv, RegisterExact, Holders
  <2>2. mData'[c] = mData[c] BY <2>1 DEF Relocate
  <2>3. memory'[mPool[c]] = memory[mPool[c]] BY <1>1, <1>2, <1>3
  <2>. QED BY <2>2, <2>3, ContentUntouched
<1>4. CASE mPool[c] = p
  <2> DEFINE old == pool[p].padding
             d == padding - old
  <2>1. /\ pool[p].padding \in Padding /\ pool[p].free \in Int
    BY DEF ContentInv, MemoryInv, TypeOK, Bytes
  <2>2. old \in Padding /\ old \in Nat /\ padding \in Nat /\ d \in Int BY <2>1 DEF Padding
  <2>3. Usage(p) \in Int /\ old + Usage(p) = pool[p].free BY <2>1, <2>2 DEF Usage
  <2>4. mData'[c] = padding + (mData[c] - old) BY <1>1, <1>4 DEF Relocate
  <2>5. mData'[c] = mData[c] + d BY <1>1, <2>2, <2>4
  <2>6. ASSUME mPool[c] \notin raced, NEW i \in Span(c)
        PROVE  memory'[mPool'[c]][i + d] = memory[mPool[c]][i]
    <3>0. i \in Bytes /\ i \in Int /\ mData[c] <= i /\ i < mData[c] + mSize[c]
      BY <1>1 DEF Span, Bytes
    <3>1. old <= i /\ i < old + Usage(p) BY <1>1, <1>4, <2>6, <2>1, <2>2, <2>3, <3>0
    <3>2. Usage(p) <= MaxSize /\ n \in Nat BY <2>3
    <3>3. i + d \in Bytes BY <2>2, <2>3, <3>0, <3>1, <3>2 DEF Bytes, Padding
    <3>. HIDE DEF old
    <3>4. Reallocated(memory[p], old, padding, Usage(p), n)[i + d] = memory[p][i]
      BY <2>2, <2>3, <3>0, <3>1, <3>2, <3>3, UsedReallocated
    <3>5. Copied(memory[p], old, padding, Usage(p))[i + d] = memory[p][i]
      <4>1. PICK j \in Bytes : j = i + (padding - old) BY <3>3
      <4>2. j - padding \in 0 .. Usage(p) - 1 /\ j - padding + old = i
        BY <2>2, <2>3, <3>0, <3>1, <4>1 DEF Bytes, Padding
      <4>. QED BY <4>1, <4>2 DEF Copied
    <3>. QED BY <1>2, <1>4, <3>4, <3>5 DEF old
  <2>. HIDE DEF d
  <2>. QED BY <2>2, <2>5, <2>6, ContentMoved
<1>. QED BY <1>3, <1>4

(* Every step of the threads leaves every buffer what was written to it.    *)
LEMMA ContentStep == ContentInv /\ [Next]_vars => (WroteOwn /\ ContentKept)'
<1>. SUFFICES ASSUME ContentInv, [Next]_vars, NEW c \in Buffers PROVE Keeps(c)'
  BY DEF WroteOwn, ContentKept, Keeps, Span
<1>1. /\ mPool \in [Buffers -> Pools \union {NoPool}] /\ mSize \in [Buffers -> Nat]
      /\ mData \in [Buffers -> Bytes \union {NullPtr}]
      /\ adding \in [Buffers -> Int \union {NotAdding}]
      /\ mRegister \in [Pools -> SUBSET Buffers]
      /\ memory \in [Pools -> [Bytes -> Buffers \union {Unwritten}]]
      /\ wrote \in [Buffers -> Buffers \union {Unwritten}]
  BY DEF ContentInv, MemoryInv, RegisterInv, RegisterTypes, TypeOK
<1>2. \A b \in Buffers : wrote[b] /= Unwritten => mPool[b] \in Pools /\ mSize[b] > 0 /\ Idle(b)
  BY Placed DEF ContentInv, WroteOwn
<1>3. \A b \in Buffers : mPool[b] = NoPool => mSize[b] = 0 /\ Idle(b)
  BY DEF ContentInv, MemoryInv, RegisterInv, Vacant
<1>4. MemoryInv BY DEF ContentInv
<1>5. ASSUME NEW b \in Buffers, FinishCreate(b) PROVE Keeps(c)'
  <2>1. ~Idle(b) /\ mPool[b] \in Pools BY <1>1, <1>3, <1>5 DEF FinishCreate
  <2>2. /\ mPool' = mPool /\ mSize' = mSize
        /\ mData' = [mData EXCEPT ![b] = adding[b]]
        /\ adding' = [adding EXCEPT ![b] = NotAdding]
        /\ wrote' = [wrote EXCEPT ![b] = b]
        /\ memory' = [memory EXCEPT ![mPool[b]] = Filled(mPool[b], adding[b], mSize[b], b)]
    BY <1>5 DEF FinishCreate
  <2>3. /\ adding[b] \in Bytes /\ mSize[b] \in Nat \ {0}
        /\ mPool[b] \notin raced => pool[mPool[b]].free <= adding[b]
        /\ adding[b] + mSize[b] <= pool[mPool[b]].padding + pool[mPool[b]].size
    BY <1>4, <2>1 DEF MemoryInv, TypeOK, AddersFit, RegisterInv, RegisterTypes, Started, Idle
  <2>4. pool[mPool[b]].padding \in Padding /\ pool[mPool[b]].size \in 0 .. MaxSize
    <3>1. pool[mPool[b]].padding \in Padding /\ pool[mPool[b]].size \in Sizes \union {0}
      BY <1>4, <2>1 DEF MemoryInv, TypeOK
    <3>2. Sizes \union {0} \subseteq 0 .. MaxSize BY DEF Sizes
    <3>. QED BY <3>1, <3>2
  <2>5. CASE c = b
    <3>1. adding[b] \in Nat /\ adding[b] + mSize[b] - 1 \in Bytes BY <2>3, <2>4 DEF Bytes, Padding
    <3>2. /\ Idle(b)' /\ mSize'[b] = mSize[b] /\ mData'[b] = adding[b] /\ wrote'[b] = b
          /\ memory'[mPool'[b]] = Filled(mPool[b], adding[b], mSize[b], b)
      BY <1>1, <2>1, <2>2 DEF Idle
    <3>. QED BY <2>3, <2>5, <3>1, <3>2, JustFilled
  <2>6. CASE c /= b
    <3>1. ASSUME wrote[c] /= Unwritten, mPool[c] \notin raced, NEW i \in Span(c)
          PROVE  memory'[mPool[c]][i] = memory[mPool[c]][i]
      <4>1. i \in Bytes /\ mData[c] \in Int /\ mSize[c] \in Nat /\ mPool[c] \in Pools
            /\ mData[c] + mSize[c] <= pool[mPool[c]].free
        BY <3>1, Placed
      <4>2. pool[mPool[c]].free \in Int BY <1>4, <4>1 DEF MemoryInv, RegisterInv, RegisterTypes
      <4>3. CASE mPool[c] = mPool[b]
        <5>1. i < adding[b] /\ adding[b] \in Int BY <2>3, <3>1, <4>1, <4>2, <4>3 DEF Span, Bytes
        <5>2. ~(i - adding[b] \in 0 .. mSize[b] - 1) BY <2>3, <4>1, <5>1 DEF Bytes
        <5>3. memory'[mPool[c]] = Filled(mPool[b], adding[b], mSize[b], b)
          BY <1>1, <2>1, <2>2, <4>3
        <5>. QED BY <4>1, <4>3, <5>2, <5>3 DEF Filled
      <4>4. CASE mPool[c] /= mPool[b] BY <1>1, <2>2, <4>1, <4>4
      <4>. QED BY <4>3, <4>4
    <3>2. /\ mPool'[c] = mPool[c] /\ mSize'[c] = mSize[c] /\ mData'[c] = mData[c]
          /\ adding'[c] = adding[c] /\ wrote'[c] = wrote[c]
      BY <1>1, <2>2, <2>6
    <3>. QED BY <3>1, <3>2, ContentUntouched
  <2>. QED BY <2>5, <2>6
<1>6. ASSUME NEW b \in Buffers, Clear(b) PROVE Keeps(c)'
  <2>1. /\ mPool[b] \in Pools /\ Idle(b) /\ adding' = adding
        /\ mPool' = [mPool EXCEPT ![b] = NoPool] /\ mSize' = [mSize EXCEPT ![b] = 0]
        /\ mData' = [mData EXCEPT ![b] = NullPtr] /\ wrote' = [wrote EXCEPT ![b] = Unwritten]
        /\ memory' = Remaining([memory EXCEPT ![mPool[b]] = GivenUp(mPool[b], b)], mPool')
    BY <1>1, <1>6 DEF Clear
  <2>2. CASE c = b BY <1>1, <2>1, <2>2 DEF Keeps
  <2>3. CASE c /= b
    <3>1. /\ mPool'[c] = mPool[c] /\ mSize'[c] = mSize[c] /\ mData'[c] = mData[c]
          /\ adding'[c] = adding[c] /\ wrote'[c] = wrote[c]
      BY <1>1, <2>1, <2>3
    <3>2. ASSUME wrote[c] /= Unwritten, mPool[c] \notin raced, NEW i \in Span(c)
          PROVE  memory'[mPool'[c]][i] = memory[mPool[c]][i]
      <4>1. mPool[c] \in Pools BY <3>2, Placed
      <4>2. memory'[mPool[c]] = [memory EXCEPT ![mPool[b]] = GivenUp(mPool[b], b)][mPool[c]]
        BY <2>1, <3>1, <4>1 DEF Remaining
      <4>3. CASE mPool[c] = mPool[b] BY <1>1, <2>1, <2>3, <3>1, <3>2, <4>1, <4>2, <4>3, OthersStay
      <4>4. CASE mPool[c] /= mPool[b] BY <1>1, <3>1, <4>1, <4>2, <4>4
      <4>. QED BY <4>3, <4>4
    <3>. QED BY <3>1, <3>2, ContentUntouched
  <2>. QED BY <2>2, <2>3
<1>7. ASSUME NEW b \in Buffers, Reset(b) PROVE Keeps(c)'
  <2>1. /\ mPool[b] \in Pools /\ Adding(mPool[b]) = {} /\ adding' = adding
        /\ memory' = [memory EXCEPT ![mPool[b]] = Garbage]
    BY <1>1, <1>7 DEF Reset
  <2>2. CASE c \in mRegister[mPool[b]] BY <1>1, <1>7, <2>2 DEF Reset, Keeps
  <2>3. CASE c \notin mRegister[mPool[b]]
    <3>1. /\ mPool'[c] = mPool[c] /\ mSize'[c] = mSize[c] /\ mData'[c] = mData[c]
          /\ adding'[c] = adding[c] /\ wrote'[c] = wrote[c]
      BY <1>7, <2>1, <2>3 DEF Reset
    <3>2. ASSUME wrote[c] /= Unwritten PROVE memory'[mPool[c]] = memory[mPool[c]]
      <4>1. mPool[c] \in Pools /\ mPool[c] /= mPool[b] BY <2>3, <3>2, Placed
      <4>. QED BY <1>1, <2>1, <4>1
    <3>. QED BY <3>1, <3>2, ContentUntouched
  <2>. QED BY <2>2, <2>3
<1>8. ASSUME NEW b \in Buffers, NEW src \in Buffers, Move(b, src) PROVE Keeps(c)'
  <2> DEFINE mem == IF mPool[b] = NoPool THEN memory
                    ELSE [memory EXCEPT ![mPool[b]] = GivenUp(mPool[b], b)]
  <2>1. /\ b /= src /\ Idle(b) /\ Idle(src) /\ adding' = adding
        /\ mPool' = [mPool EXCEPT ![b] = mPool[src], ![src] = NoPool]
        /\ mSize' = [mSize EXCEPT ![b] = mSize[src], ![src] = 0]
        /\ mData' = [mData EXCEPT ![b] = mData[src], ![src] = NullPtr]
        /\ wrote' = [wrote EXCEPT ![b] = wrote[src], ![src] = Unwritten]
        /\ memory' = Remaining(mem, mPool')
    BY <1>8 DEF Move
  <2>2. CASE c = src BY <1>1, <2>1, <2>2 DEF Keeps
  <2>3. ASSUME NEW o \in Buffers, o /= b, wrote[o] /= Unwritten, mPool[o] \notin raced,
               mPool'[c] = mPool[o], NEW i \in Span(o)
        PROVE  memory'[mPool'[c]][i] = memory[mPool[o]][i]
    <3>1. mPool[o] \in Pools BY <2>3, Placed
    <3>2. memory'[mPool[o]] = mem[mPool[o]] BY <2>1, <2>3, <3>1 DEF Remaining
    <3>3. CASE mPool[b] /= mPool[o] BY <1>1, <2>3, <3>1, <3>2, <3>3
    <3>4. CASE mPool[b] = mPool[o]
      <4>1. mem[mPool[o]] = GivenUp(mPool[b], b) BY <1>1, <3>1, <3>4
      <4>2. GivenUp(mPool[b], b)[i] = memory[mPool[o]][i] BY <2>1, <2>3, <3>4, OthersStay
      <4>. QED BY <2>3, <3>2, <4>1, <4>2
    <3>. QED BY <3>3, <3>4
  <2>. HIDE DEF mem
  <2>4. CASE c = b
    <3>1. /\ mPool'[b] = mPool[src] /\ mSize'[b] = mSize[src] /\ mData'[b] = mData[src]
          /\ adding'[b] = adding[src] /\ wrote'[b] = wrote[src]
      BY <1>1, <2>1 DEF Idle
    <3>2. wrote[src] /= Unwritten => mData'[b] = mData[src] + 0 BY <3>1, Placed
    <3>3. ASSUME wrote[src] /= Unwritten, mPool[src] \notin raced, NEW i \in Span(src)
          PROVE  memory'[mPool'[b]][i + 0] = memory[mPool[src]][i]
      <4>1. i + 0 = i BY <3>3, Placed DEF Bytes
      <4>. QED BY <2>1, <2>3, <2>4, <3>1, <3>3, <4>1
    <3>. QED BY <2>4, <3>1, <3>2, <3>3, ContentMoved
  <2>5. CASE c /= b /\ c /= src
    <3>1. /\ mPool'[c] = mPool[c] /\ mSize'[c] = mSize[c] /\ mData'[c] = mData[c]
          /\ adding'[c] = adding[c] /\ wrote'[c] = wrote[c]
      BY <1>1, <2>1, <2>5
    <3>. QED BY <2>3, <2>5, <3>1, ContentUntouched
  <2>. QED BY <2>2, <2>4, <2>5
<1>9. ASSUME NEW b \in Buffers, NEW n \in BufferSizes, NEW p \in Pools, StartCreate(b, p, n)
      PROVE Keeps(c)'
  <2>1. /\ mPool[b] = NoPool /\ wrote' = wrote /\ memory' = memory /\ mData' = mData
        /\ mPool' = [mPool EXCEPT ![b] = p] /\ mSize' = [mSize EXCEPT ![b] = n]
        /\ \A d \in Buffers : d /= b => adding'[d] = adding[d]
    BY <1>9 DEF StartCreate, Constructible
  <2>2. CASE c = b BY <1>2, <2>1, <2>2 DEF Keeps
  <2>3. CASE c /= b BY <2>1, <2>3, ContentUntouched
  <2>. QED BY <2>2, <2>3
<1>10. ASSUME NEW b \in Buffers, NEW n \in PoolSizes, ResizeInPlace(b, n) PROVE Keeps(c)'
  <2> DEFINE p == mPool[b]
  <2>1. /\ p \in Pools /\ Usage(p) <= n
        /\ UNCHANGED <<mPool, mSize, adding, mData, wrote>>
        /\ memory' = [memory EXCEPT ![p] =
             IF pool[p].managed THEN Reallocated(@, pool[p].padding, pool[p].padding, Usage(p), n) ELSE @]
    BY <1>1, <1>10 DEF ResizeInPlace, Resizable
  <2>2. ASSUME wrote[c] /= Unwritten, mPool[c] \notin raced, NEW i \in Span(c)
        PROVE  memory'[mPool[c]][i] = memory[mPool[c]][i]
    <3>1. /\ mPool[c] \in Pools /\ i \in Bytes /\ mData[c] \in Int /\ mSize[c] \in Nat
          /\ mData[c] + mSize[c] <= pool[mPool[c]].free
      BY <2>2, Placed
    <3>2. CASE mPool[c] = p /\ pool[p].managed
      <4>1. pool[p].padding \in 0 .. Alignment - 1 /\ pool[p].free \in Int
        BY <1>4, <2>1 DEF MemoryInv, TypeOK, Padding, Bytes
      <4>2. i < pool[p].free BY <3>1, <3>2, <4>1 DEF Span
      <4>3. i < n + Alignment BY <2>1, <3>1, <4>1, <4>2 DEF Usage, Bytes
      <4>4. memory'[p] = [j \in Bytes |-> IF j < n + Alignment THEN memory[p][j] ELSE Unwritten]
        BY <1>1, <2>1, <3>2 DEF Reallocated
      <4>. QED BY <3>1, <3>2, <4>3, <4>4
    <3>3. CASE ~(mPool[c] = p /\ pool[p].managed) BY <1>1, <2>1, <3>1, <3>3
    <3>. QED BY <3>2, <3>3
  <2>. QED BY <2>1, <2>2, ContentUntouched
<1>11. ASSUME NEW b \in Buffers, NEW n \in PoolSizes, NEW padding \in Padding, NEW managed \in BOOLEAN,
              ResizeManaged(b, n, padding) \/ ResizeElsewhere(b, n, managed, padding)
       PROVE Keeps(c)'
  <2>1. mPool[b] \in Pools /\ Usage(mPool[b]) <= n
    BY <1>1, <1>11 DEF ResizeManaged, ResizeElsewhere, Resizable
  <2>. QED BY <1>11, <2>1, ContentRelocated DEF ResizeManaged, ResizeElsewhere
<1>12. ASSUME NEW b \in Buffers, NEW p \in Pools, NEW managed \in BOOLEAN, NEW padding \in Padding,
              NEW n \in PoolSizes, CreatePool(b, p, n, managed, padding)
       PROVE Keeps(c)'
  <2>1. /\ mPool[b] = NoPool /\ UNCHANGED <<mSize, mData, adding, memory, wrote>>
        /\ mPool' = [mPool EXCEPT ![b] = p]
    BY <1>12 DEF CreatePool, Constructible
  <2>2. CASE c = b BY <1>2, <2>1, <2>2 DEF Keeps
  <2>3. CASE c /= b BY <2>1, <2>3, ContentUntouched
  <2>. QED BY <2>2, <2>3
<1>13. ASSUME NEW b \in Buffers, NEW p \in Pools, NEW managed \in BOOLEAN, NEW padding \in Padding,
              NEW n \in BufferSizes,
              CreateFull(b, p, n, managed, padding) \/ Reinit(b, p, n, managed, padding)
       PROVE Keeps(c)'
  <2>1. /\ p \in Fresh /\ adding' = adding /\ Idle(b)
        /\ mPool' = [mPool EXCEPT ![b] = p] /\ mSize' = [mSize EXCEPT ![b] = n]
        /\ mData' = [mData EXCEPT ![b] = padding] /\ wrote' = [wrote EXCEPT ![b] = b]
    BY <1>3, <1>13 DEF CreateFull, Reinit, Constructible
  <2>2. ASSUME NEW d \in Buffers, mPool'[d] \in Pools
        PROVE  memory'[mPool'[d]] = [memory EXCEPT ![p] = Filled(p, padding, n, b)][mPool'[d]]
    <3>1. CASE CreateFull(b, p, n, managed, padding) BY <3>1 DEF CreateFull
    <3>2. CASE Reinit(b, p, n, managed, padding) BY <2>1, <2>2, <3>2 DEF Reinit, Remaining
    <3>. QED BY <1>13, <3>1, <3>2
  <2>3. CASE c = b
    <3>1. padding \in Nat /\ n \in Nat \ {0} /\ padding + n - 1 \in Bytes BY DEF Padding, Bytes
    <3>2. /\ Idle(b)' /\ mSize'[b] = n /\ mData'[b] = padding /\ wrote'[b] = b /\ mPool'[b] = p
      BY <1>1, <2>1 DEF Idle
    <3>3. memory'[mPool'[b]] = Filled(p, padding, n, b) BY <1>1, <2>2, <3>2
    <3>. QED BY <2>3, <3>1, <3>2, <3>3, JustFilled
  <2>4. CASE c /= b
    <3>1. /\ mPool'[c] = mPool[c] /\ mSize'[c] = mSize[c] /\ mData'[c] = mData[c]
          /\ adding'[c] = adding[c] /\ wrote'[c] = wrote[c]
      BY <1>1, <2>1, <2>4
    <3>2. ASSUME wrote[c] /= Unwritten PROVE memory'[mPool'[c]] = memory[mPool[c]]
      <4>1. mPool[c] \in Pools /\ mPool[c] /= p BY <2>1, <3>2, Placed DEF Fresh, Holders
      <4>. QED BY <1>1, <2>2, <3>1, <4>1
    <3>. QED BY <3>1, <3>2, ContentUntouched
  <2>. QED BY <2>3, <2>4
<1>14. CASE UNCHANGED vars BY <1>14, ContentUntouched DEF vars
<1>. QED BY <1>5, <1>6, <1>7, <1>8, <1>9, <1>10, <1>11, <1>12, <1>13, <1>14 DEF Next

(* A buffer of a pool in which no creations have overlapped holds what its  *)
(* owner wrote, however it is moved, and its pool resized, reallocated and  *)
(* changed to other memory, while other buffers are created, moved, cleared *)
(* and written.                                                             *)
THEOREM ContentCorrect == Spec => []ContentKept
<1>1. Init => WroteOwn /\ ContentKept BY DEF Init, WroteOwn, ContentKept
<1>2. MemoryInv /\ WroteOwn /\ ContentKept /\ [Next]_vars => (WroteOwn /\ ContentKept)'
  BY ContentStep DEF ContentInv
<1>. QED BY <1>1, <1>2, MemoryInvariant, PTL DEF Spec
=============================================================================
