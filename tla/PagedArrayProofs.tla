--------------------------- MODULE PagedArrayProofs ---------------------------
(***************************************************************************)
(* Proofs about PagedArray, for every page size, any number of arrays and  *)
(* buffers and any values: no element is lost or duplicated, the last page *)
(* has the last element, and elements of full pages stay where they are,   *)
(* if clients leave no whole pages over (~Shrinking).                      *)
(***************************************************************************)
EXTENDS PagedArray, Integers, FiniteSetTheorems, FunctionTheorems, SequenceTheorems,
        TLAPS

Entries == Values \union {Unset}

\* A table of whole pages with n elements, the last of them in the last page.
Paged(T, n) == /\ T \in Seq(Entries) /\ n \in Nat
               /\ Len(T) % PageSize = 0
               /\ n <= Len(T) /\ Len(T) - n < PageSize

\* Where a value is among the first n entries of T, and how often.
Places(T, n, v) == {i \in 1 .. n : T[i] = v}
CountTo(T, n, v) == Cardinality(Places(T, n, v))

-------------------------------------------------------------------------------
(* Whole pages.                                                            *)

\* A page has more than two elements.
LEMMA PageSizeNat == PageSize \in Nat /\ PageSize > 2
  BY PagedArrayAssumption

\* Quotient and remainder by the page size.
LEMMA DivMod ==
    ASSUME NEW a \in Int, NEW n \in Nat \ {0}
    PROVE  /\ a \div n \in Int /\ a % n \in 0 .. n - 1
           /\ a = n * (a \div n) + (a % n)
  OBVIOUS

\* A multiple of the page size has no remainder.
LEMMA MultipleMod == ASSUME NEW q \in Int, NEW n \in Nat \ {0} PROVE (n * q) % n = 0
  OBVIOUS

\* Multiples of the page size are ordered like their factors.
LEMMA Multiples ==
    ASSUME NEW a \in Int, NEW b \in Int, NEW n \in Nat \ {0}
    PROVE  /\ n * (a + b) = n * a + n * b /\ n * (a - b) = n * a - n * b
           /\ n * a < n * b => a < b
           /\ n * a \in Int
<1>1. n * (a + b) = n * a + n * b /\ n * (a - b) = n * a - n * b /\ n * a \in Int /\ n * b \in Int
  OBVIOUS
<1>2. ASSUME b <= a PROVE n * b <= n * a
  BY <1>2
<1> QED
  BY <1>1, <1>2

\* A positive multiple is at least one page.
LEMMA OnePage ==
    ASSUME NEW a \in Int, NEW n \in Nat \ {0}, n * a > 0
    PROVE  n * a >= n
<1>1. n * a \in Int
  OBVIOUS
<1>2. a <= 0 => n * a <= 0
  OBVIOUS
<1>3. a >= 1
  BY <1>1, <1>2
<1> QED
  BY <1>3

\* A whole number of pages, with a page more or less.
LEMMA PageMore ==
    ASSUME NEW L \in Int, NEW M \in Int, L % PageSize = 0, M % PageSize = 0
    PROVE  (L + M) % PageSize = 0 /\ (L - M) % PageSize = 0 /\ PageSize % PageSize = 0
<1> DEFINE a == L \div PageSize
           b == M \div PageSize
<1>0. PageSize \in Nat \ {0}
  BY PageSizeNat
<1>1. a \in Int /\ b \in Int /\ L = PageSize * a /\ M = PageSize * b
  BY <1>0, DivMod
<1> HIDE DEF a, b
<1>2. L + M = PageSize * (a + b) /\ L - M = PageSize * (a - b)
  BY <1>0, <1>1, Multiples
<1>3. PageSize = PageSize * 1
  BY <1>0
<1>4. a + b \in Int /\ a - b \in Int
  BY <1>1
<1> QED
  BY <1>0, <1>2, <1>3, <1>4, MultipleMod

\* Where the last element is: at the end of the table if the last page is full,
\* and otherwise as many entries into the last page as there are over.
LEMMA LastElement ==
    ASSUME NEW L \in Nat, NEW n \in Nat, L % PageSize = 0, n <= L, L - n < PageSize
    PROVE  /\ n % PageSize = 0 => n = L
           /\ n % PageSize # 0 => L - PageSize + (n % PageSize) = n
           /\ n % PageSize \in 0 .. PageSize - 1
           /\ n - (n % PageSize) = (n \div PageSize) * PageSize
<1> DEFINE a == L \div PageSize
           b == n \div PageSize
           r == n % PageSize
<1>0. PageSize \in Nat \ {0}
  BY PageSizeNat
<1>1. a \in Int /\ b \in Int /\ r \in 0 .. PageSize - 1 /\ L = PageSize * a /\ n = PageSize * b + r
  BY <1>0, DivMod
<1> HIDE DEF a, b, r
<1>2. PageSize * a \in Int /\ PageSize * b \in Int
  BY <1>0, <1>1, Multiples
<1>3. PageSize * a < PageSize * (b + 2)
  <2>1. PageSize * (b + 2) = PageSize * b + PageSize * 2
    BY <1>0, <1>1, Multiples
  <2> QED
    BY <1>0, <1>1, <1>2, <2>1
<1>4. a < b + 2
  BY <1>0, <1>1, <1>3, Multiples
<1>5. a >= b
  <2>1. PageSize * b <= PageSize * a
    BY <1>0, <1>1, <1>2
  <2>2. a < b => PageSize * (b - 1) < PageSize * b /\ a <= b - 1
    <3>1. PageSize * (b - 1) = PageSize * b - PageSize * 1
      BY <1>0, <1>1, Multiples
    <3> QED
      BY <1>0, <1>1, <1>2, <3>1
  <2>3. a <= b - 1 => PageSize * a <= PageSize * (b - 1)
    BY <1>0, <1>1
  <2>4. PageSize * (b - 1) \in Int
    BY <1>0, <1>1, Multiples
  <2> QED
    BY <1>1, <1>2, <2>1, <2>2, <2>3, <2>4
<1>6. CASE a = b
  BY <1>0, <1>1, <1>2, <1>6 DEF r, b
<1>7. CASE a = b + 1
  <2>1. PageSize * a = PageSize * b + PageSize
    BY <1>0, <1>1, <1>2, <1>7, Multiples
  <2>2. L = PageSize * b + PageSize /\ L - PageSize + r = n /\ r # 0
    BY <1>0, <1>1, <1>2, <2>1
  <2>3. n - r = b * PageSize
    BY <1>0, <1>1, <1>2
  <2> QED
    BY <1>1, <2>2, <2>3 DEF r, b
<1> QED
  BY <1>1, <1>4, <1>5, <1>6, <1>7

-------------------------------------------------------------------------------
(* Counting.                                                               *)

\* Values are counted in finite parts of the table.
LEMMA CountNat ==
    ASSUME NEW T, NEW n \in Nat, NEW v
    PROVE  CountTo(T, n, v) \in Nat /\ IsFiniteSet(Places(T, n, v))
<1>1. IsFiniteSet(1 .. n) /\ Places(T, n, v) \in SUBSET (1 .. n)
  BY FS_Interval DEF Places
<1>2. IsFiniteSet(Places(T, n, v))
  BY <1>1, FS_Subset
<1> QED
  BY <1>2, FS_CardinalityType DEF CountTo

\* A table starts with m entries of T and goes on with k of s: a value is counted
\* as often as in both.
Joins(A, T, m, s, k) == /\ m \in Nat /\ k \in Nat
                        /\ \A i \in 1 .. m : A[i] = T[i]
                        /\ \A i \in 1 .. k : A[m + i] = s[i]

\* Counts add up where a sequence is put behind a part of the table.
LEMMA CountJoin ==
    ASSUME NEW A, NEW T, NEW s, NEW m, NEW k, NEW v, Joins(A, T, m, s, k)
    PROVE  CountTo(A, m + k, v) = CountTo(T, m, v) + CountTo(s, k, v)
<1> DEFINE B == Places(A, m + k, v)
           C == Places(T, m, v)
           D == Places(s, k, v)
           E == B \ C
           f == [i \in D |-> m + i]
<1>0. /\ m \in Nat /\ k \in Nat
      /\ \A i \in 1 .. m : A[i] = T[i]
      /\ \A i \in 1 .. k : A[m + i] = s[i]
  BY DEF Joins
<1>1. \A i : i \in B <=> i \in 1 .. m + k /\ A[i] = v
  BY DEF Places
<1>2. \A i : i \in C <=> i \in 1 .. m /\ T[i] = v
  BY DEF Places
<1>3. \A i : i \in D <=> i \in 1 .. k /\ s[i] = v
  BY DEF Places
<1>4. IsFiniteSet(B) /\ IsFiniteSet(C) /\ IsFiniteSet(D) /\ m + k \in Nat
  BY <1>0, CountNat
<1> HIDE DEF B, C, D
<1>5. C \subseteq B
  BY <1>0, <1>1, <1>2
<1>6. \A i : i \in E <=> i \in m + 1 .. m + k /\ A[i] = v
  <2>1. \A i \in 1 .. m : i \in B => i \in C
    BY <1>0, <1>1, <1>2
  <2> QED
    BY <1>0, <1>1, <1>2, <2>1
<1>7. C \union E = B /\ C \intersect E = {}
  BY <1>5
<1> HIDE DEF E
<1>8. f \in [D -> E]
  BY <1>0, <1>3, <1>6
<1>9. \A i, j \in D : f[i] = f[j] => i = j
  BY <1>0, <1>3
<1>10. \A j \in E : \E i \in D : f[i] = j
  <2> TAKE j \in E
  <2>1. j - m \in 1 .. k /\ m + (j - m) = j /\ A[j] = v
    BY <1>0, <1>6
  <2>2. j - m \in D
    BY <1>0, <1>3, <2>1
  <2> QED
    BY <2>1, <2>2
<1> HIDE DEF f
<1>11. f \in Bijection(D, E)
  BY <1>8, <1>9, <1>10, Fun_IsBij
<1>12. IsFiniteSet(E) /\ Cardinality(E) = Cardinality(D)
  BY <1>4, <1>11, FS_Bijection DEF ExistsBijection
<1>13. Cardinality(B) = Cardinality(C) + Cardinality(E) - Cardinality(C \intersect E)
  BY <1>4, <1>7, <1>12, FS_Union
<1>14. Cardinality(C \intersect E) = 0
  BY <1>7, FS_EmptySet
<1>15. Cardinality(C) \in Nat /\ Cardinality(D) \in Nat
  BY <1>4, FS_CardinalityType
<1>16. Cardinality(B) = Cardinality(C) + Cardinality(D)
  BY <1>12, <1>13, <1>14, <1>15
<1> QED
  BY <1>16 DEF CountTo, B, C, D

\* Equal entries are counted equally often, others not at all.
LEMMA CountSame ==
    ASSUME NEW T, NEW U, NEW n \in Nat, NEW v, \A i \in 1 .. n : U[i] = T[i]
    PROVE  CountTo(U, n, v) = CountTo(T, n, v)
<1>1. Places(U, n, v) = Places(T, n, v)
  BY DEF Places
<1> QED
  BY <1>1 DEF CountTo

\* What does not occur is counted zero times.
LEMMA CountOthers ==
    ASSUME NEW T, NEW n \in Nat, NEW v, \A i \in 1 .. n : T[i] # v
    PROVE  CountTo(T, n, v) = 0
<1>1. Places(T, n, v) = {}
  BY DEF Places
<1> QED
  BY <1>1, FS_EmptySet DEF CountTo

\* Counting a sequence is counting up to its length.
LEMMA CountWhole ==
    ASSUME NEW s, NEW v
    PROVE  Count(s, v) = CountTo(s, Len(s), v)
  BY DEF Count, CountTo, Places

\* Functions on the first natural numbers are sequences.
LEMMA FunctionIsSeq ==
    ASSUME NEW n \in Nat, NEW S, NEW f \in [1 .. n -> S]
    PROVE  f \in Seq(S) /\ Len(f) = n
  BY SeqDef

\* A part of a sequence.
LEMMA SubSeqFacts ==
    ASSUME NEW S, NEW T \in Seq(S), NEW a \in Nat, NEW b \in 0 .. Len(T), a <= b
    PROVE  /\ SubSeq(T, a + 1, b) \in Seq(S) /\ Len(SubSeq(T, a + 1, b)) = b - a
           /\ \A i \in 1 .. b - a : SubSeq(T, a + 1, b)[i] = T[a + i]
<1>1. \A i \in a + 1 .. b : T[i] \in S
  BY ElementOfSeq, LenProperties
<1>2. a + 1 \in Int /\ b \in Int
  BY LenProperties
<1>3. /\ SubSeq(T, a + 1, b) \in Seq(S)
      /\ Len(SubSeq(T, a + 1, b)) = IF a + 1 <= b THEN b - (a + 1) + 1 ELSE 0
      /\ \A i \in 1 .. b - (a + 1) + 1 : SubSeq(T, a + 1, b)[i] = T[(a + 1) + i - 1]
  BY <1>1, <1>2, SubSeqProperties
<1>4. b - (a + 1) + 1 = b - a /\ \A i \in 1 .. b - a : (a + 1) + i - 1 = a + i
  BY <1>2
<1> QED
  BY <1>2, <1>3, <1>4

\* Two tables that agree up to n have the same first n entries.
LEMMA SamePrefix ==
    ASSUME NEW S, NEW T \in Seq(S), NEW U \in Seq(S), NEW n \in Nat, n <= Len(T), n <= Len(U),
           \A i \in 1 .. n : U[i] = T[i]
    PROVE  SubSeq(U, 1, n) = SubSeq(T, 1, n)
<1>1. /\ SubSeq(T, 0 + 1, n) \in Seq(S) /\ Len(SubSeq(T, 0 + 1, n)) = n - 0
      /\ \A i \in 1 .. n - 0 : SubSeq(T, 0 + 1, n)[i] = T[0 + i]
  BY SubSeqFacts, LenProperties
<1>2. /\ SubSeq(U, 0 + 1, n) \in Seq(S) /\ Len(SubSeq(U, 0 + 1, n)) = n - 0
      /\ \A i \in 1 .. n - 0 : SubSeq(U, 0 + 1, n)[i] = U[0 + i]
  BY SubSeqFacts, LenProperties
<1>3. 0 + 1 = 1 /\ n - 0 = n /\ \A i \in 1 .. n : 0 + i = i
  OBVIOUS
<1>4. /\ SubSeq(T, 1, n) \in Seq(S) /\ Len(SubSeq(T, 1, n)) = n
      /\ SubSeq(U, 1, n) \in Seq(S) /\ Len(SubSeq(U, 1, n)) = n
      /\ \A i \in 1 .. n : SubSeq(U, 1, n)[i] = SubSeq(T, 1, n)[i]
  BY <1>1, <1>2, <1>3
<1> QED
  BY <1>4, SeqEqual

\* The elements of an array are the first entries of its table.
LEMMA ElementsCount ==
    ASSUME NEW T \in Seq(Entries), NEW n \in Nat, n <= Len(T), NEW v
    PROVE  /\ SubSeq(T, 1, n) \in Seq(Entries) /\ Len(SubSeq(T, 1, n)) = n
           /\ \A i \in 1 .. n : SubSeq(T, 1, n)[i] = T[i]
           /\ Count(SubSeq(T, 1, n), v) = CountTo(T, n, v)
<1> DEFINE E == SubSeq(T, 1, n)
<1>1. /\ SubSeq(T, 0 + 1, n) \in Seq(Entries) /\ Len(SubSeq(T, 0 + 1, n)) = n - 0
      /\ \A i \in 1 .. n - 0 : SubSeq(T, 0 + 1, n)[i] = T[0 + i]
  BY SubSeqFacts, LenProperties
<1>2. 0 + 1 = 1 /\ n - 0 = n /\ \A i \in 1 .. n : 0 + i = i
  OBVIOUS
<1>3. E \in Seq(Entries) /\ Len(E) = n /\ \A i \in 1 .. n : E[i] = T[i]
  BY <1>1, <1>2
<1> HIDE DEF E
<1>4. CountTo(E, n, v) = CountTo(T, n, v)
  BY <1>3, CountSame
<1>5. Count(E, v) = CountTo(E, n, v)
  BY <1>3, CountWhole
<1> QED
  BY <1>3, <1>4, <1>5 DEF E

-------------------------------------------------------------------------------
(* Adding to a table.                                                      *)

\* Two sequences joined.
LEMMA ConcatFacts ==
    ASSUME NEW T \in Seq(Entries), NEW s \in Seq(Entries)
    PROVE  /\ T \o s \in Seq(Entries) /\ Len(T \o s) = Len(T) + Len(s)
           /\ \A i \in 1 .. Len(T) : (T \o s)[i] = T[i]
           /\ \A i \in 1 .. Len(s) : (T \o s)[Len(T) + i] = s[i]
<1>1. /\ T \o s \in Seq(Entries) /\ Len(T \o s) = Len(T) + Len(s)
      /\ \A i \in 1 .. Len(T) + Len(s) :
            (T \o s)[i] = IF i <= Len(T) THEN T[i] ELSE s[i - Len(T)]
  BY ConcatProperties
<1>2. Len(T) \in Nat /\ Len(s) \in Nat
  BY LenProperties
<1>3. ASSUME NEW i \in 1 .. Len(T) PROVE (T \o s)[i] = T[i]
  BY <1>1, <1>2
<1>4. ASSUME NEW i \in 1 .. Len(s) PROVE (T \o s)[Len(T) + i] = s[i]
  <2>1. Len(T) + i \in 1 .. Len(T) + Len(s) /\ ~(Len(T) + i <= Len(T)) /\ (Len(T) + i) - Len(T) = i
    BY <1>2
  <2> QED
    BY <1>1, <2>1
<1> QED
  BY <1>1, <1>3, <1>4

\* Where the last page of a table begins, if it is partly full.
LEMMA PagedFacts ==
    ASSUME NEW T, NEW n, Paged(T, n)
    PROVE  /\ T \in Seq(Entries) /\ n \in Nat /\ Len(T) \in Nat /\ n <= Len(T)
           /\ n % PageSize \in 0 .. PageSize - 1
           /\ n - (n % PageSize) = (n \div PageSize) * PageSize
           /\ n % PageSize = 0 => n = Len(T)
           /\ n % PageSize # 0 => /\ LastPage(T) + (n % PageSize) = n
                                  /\ LastPage(T) \in Nat /\ LastPage(T) < n
                                  /\ LastPage(T) = n - (n % PageSize)
                                  /\ LastPage(T) % PageSize = 0
<1>1. T \in Seq(Entries) /\ n \in Nat /\ Len(T) \in Nat /\ n <= Len(T) /\ Len(T) % PageSize = 0
      /\ Len(T) - n < PageSize
  BY LenProperties DEF Paged
<1>2. PageSize \in Nat /\ PageSize > 2
  BY PageSizeNat
<1>3. /\ n % PageSize = 0 => n = Len(T)
      /\ n % PageSize # 0 => Len(T) - PageSize + (n % PageSize) = n
      /\ n % PageSize \in 0 .. PageSize - 1
      /\ n - (n % PageSize) = (n \div PageSize) * PageSize
  BY <1>1, LastElement
<1>4. PageSize % PageSize = 0
  BY <1>1, PageMore
<1>5. (Len(T) - PageSize) % PageSize = 0
  BY <1>1, <1>2, <1>4, PageMore
<1>6. ASSUME n % PageSize # 0
      PROVE  /\ LastPage(T) + (n % PageSize) = n /\ LastPage(T) \in Nat /\ LastPage(T) < n
             /\ LastPage(T) = n - (n % PageSize)
  <2> DEFINE r == n % PageSize
             L == LastPage(T)
  <2>1. L \in Int /\ L + r = n /\ r \in 1 .. PageSize - 1
    BY <1>1, <1>2, <1>3, <1>6 DEF LastPage
  <2>2. L = Len(T) - PageSize
    BY DEF LastPage
  <2>3. L >= 0
    <3>1. Len(T) # 0
      BY <1>1, <1>6
    <3>2. PICK a \in Int : Len(T) = PageSize * a
      <4>1. PageSize \in Nat \ {0} /\ Len(T) \in Int
        BY <1>1, <1>2
      <4>2. /\ Len(T) \div PageSize \in Int
            /\ Len(T) = PageSize * (Len(T) \div PageSize) + (Len(T) % PageSize)
        BY <4>1, DivMod
      <4>3. Len(T) = PageSize * (Len(T) \div PageSize)
        BY <1>1, <4>1, <4>2
      <4> QED
        BY <4>2, <4>3
    <3>3. PageSize * a >= PageSize
      BY <1>1, <1>2, <3>1, <3>2, OnePage
    <3> QED
      BY <1>2, <2>2, <3>2, <3>3
  <2> HIDE DEF L, r
  <2>4. L \in Nat /\ L < n /\ L = n - r
    BY <1>1, <1>2, <2>1, <2>3
  <2> QED
    BY <2>1, <2>4 DEF L, r
<1> QED
  BY <1>1, <1>3, <1>5, <1>6 DEF LastPage

\* What every way of adding promises: the table stays paged, its full pages stay
\* where they are, and the values added are in it besides those it had.
Extended(A, T, n, s) ==
    /\ Paged(A, n + Len(s))
    /\ \A i \in 1 .. n - (n % PageSize) : A[i] = T[i]
    /\ \A v : CountTo(A, n + Len(s), v) = CountTo(T, n, v) + CountTo(s, Len(s), v)

\* add_full() puts a page behind the elements and moves the partly full page
\* behind it.
LEMMA AddFullLemma ==
    ASSUME NEW T, NEW n, Paged(T, n), NEW s \in Seq(Entries), Len(s) = PageSize
    PROVE  Extended(AddFull(T, n, s), T, n, s)
<1> DEFINE A == AddFull(T, n, s)
           L == LastPage(T)
<1>1. /\ T \in Seq(Entries) /\ n \in Nat /\ Len(T) \in Nat /\ n <= Len(T)
      /\ Len(T) % PageSize = 0 /\ Len(T) - n < PageSize
  BY PagedFacts DEF Paged
<1>2. PageSize \in Nat /\ PageSize > 2
  BY PageSizeNat
<1>3. (Len(T) + PageSize) % PageSize = 0
  BY <1>1, <1>2, PageMore
<1>4. CASE n % PageSize = 0
  <2>1. A = T \o s /\ n = Len(T)
    BY <1>4, PagedFacts DEF AddFull
  <2> HIDE DEF A
  <2>2. /\ A \in Seq(Entries) /\ Len(A) = Len(T) + Len(s)
        /\ \A i \in 1 .. Len(T) : A[i] = T[i]
        /\ \A i \in 1 .. Len(s) : A[Len(T) + i] = s[i]
    BY <2>1, <1>1, ConcatFacts
  <2>3. Paged(A, n + Len(s))
    <3>1. n + Len(s) \in Nat /\ n + Len(s) = Len(A)
      BY <1>1, <1>2, <2>1, <2>2
    <3>2. Len(A) % PageSize = 0
      BY <1>3, <2>2
    <3> QED
      BY <1>2, <2>2, <3>1, <3>2 DEF Paged
  <2>4. ASSUME NEW v
        PROVE  CountTo(A, n + Len(s), v) = CountTo(T, n, v) + CountTo(s, Len(s), v)
    <3>1. Joins(A, T, n, s, Len(s))
      BY <1>1, <1>2, <2>1, <2>2 DEF Joins
    <3> QED
      BY <3>1, CountJoin
  <2>5. \A i \in 1 .. n - (n % PageSize) : A[i] = T[i]
    BY <1>1, <1>4, <2>1, <2>2
  <2> QED
    BY <2>3, <2>4, <2>5 DEF Extended, A
<1>5. CASE n % PageSize # 0
  <2> DEFINE head == SubSeq(T, 1, L)
             tail == SubSeq(T, L + 1, Len(T))
             front == head \o s
             k == n - L
  <2>1. A = front \o tail
    BY <1>5 DEF AddFull
  <2>2. /\ L \in Nat /\ L < n /\ L = n - (n % PageSize) /\ L % PageSize = 0
        /\ L = Len(T) - PageSize /\ L <= Len(T)
    BY <1>1, <1>2, <1>5, PagedFacts DEF LastPage
  <2>3. /\ k \in 0 .. PageSize /\ k \in Nat /\ L + k = n
        /\ (L + PageSize) + k = n + PageSize /\ L + PageSize \in Nat
    BY <1>1, <1>2, <2>2
  <2> HIDE DEF L, A, k
  <2>4. head \in Seq(Entries) /\ Len(head) = L /\ \A i \in 1 .. L : head[i] = T[i]
    BY <1>1, <2>2, ElementsCount
  <2>5. /\ tail \in Seq(Entries) /\ Len(tail) = PageSize
        /\ \A i \in 1 .. PageSize : tail[i] = T[L + i]
    <3>1. /\ tail \in Seq(Entries) /\ Len(tail) = Len(T) - L
          /\ \A i \in 1 .. Len(T) - L : tail[i] = T[L + i]
      BY <1>1, <2>2, SubSeqFacts
    <3>2. Len(T) - L = PageSize
      BY <1>1, <1>2, <2>2
    <3> QED
      BY <3>1, <3>2
  <2> HIDE DEF head, tail
  <2>6. /\ front \in Seq(Entries) /\ Len(front) = L + PageSize
        /\ \A i \in 1 .. L : front[i] = head[i]
        /\ \A i \in 1 .. PageSize : front[L + i] = s[i]
    BY <2>4, ConcatFacts
  <2> HIDE DEF front
  <2>7. /\ A \in Seq(Entries) /\ Len(A) = (L + PageSize) + PageSize
        /\ \A i \in 1 .. L + PageSize : A[i] = front[i]
        /\ \A i \in 1 .. PageSize : A[(L + PageSize) + i] = tail[i]
    <3>1. /\ A \in Seq(Entries) /\ Len(A) = Len(front) + Len(tail)
          /\ \A i \in 1 .. Len(front) : A[i] = front[i]
          /\ \A i \in 1 .. Len(tail) : A[Len(front) + i] = tail[i]
      <4>1. front \in Seq(Entries) /\ tail \in Seq(Entries)
        BY <2>5, <2>6
      <4> QED
        BY <2>1, <4>1, ConcatFacts
    <3>2. Len(front) = L + PageSize /\ Len(tail) = PageSize
      BY <2>5, <2>6
    <3> QED
      BY <3>1, <3>2
  <2>8. Paged(A, n + PageSize)
    <3>1. Len(A) = Len(T) + PageSize
      BY <1>1, <1>2, <2>2, <2>7
    <3>2. Len(A) % PageSize = 0
      BY <1>3, <3>1
    <3>3. n + PageSize \in Nat /\ n + PageSize <= Len(A) /\ Len(A) - (n + PageSize) < PageSize
      BY <1>1, <1>2, <3>1
    <3> QED
      BY <2>7, <3>2, <3>3 DEF Paged
  <2>9. ASSUME NEW i \in 1 .. n - (n % PageSize) PROVE A[i] = T[i]
    <3>1. i \in 1 .. L /\ i \in 1 .. L + PageSize
      BY <1>2, <2>2
    <3> QED
      BY <2>4, <2>6, <2>7, <3>1
  <2>10. ASSUME NEW v
         PROVE  CountTo(A, n + PageSize, v) = CountTo(T, n, v) + CountTo(s, PageSize, v)
    <3>1. CountTo(A, (L + PageSize) + k, v) = CountTo(front, L + PageSize, v) + CountTo(tail, k, v)
      <4>1. Joins(A, front, L + PageSize, tail, k)
        BY <1>2, <2>3, <2>7 DEF Joins
      <4> QED
        BY <4>1, CountJoin
    <3>2. CountTo(front, L + PageSize, v) = CountTo(head, L, v) + CountTo(s, PageSize, v)
      <4>1. Joins(front, head, L, s, PageSize)
        BY <1>2, <2>2, <2>6 DEF Joins
      <4> QED
        BY <4>1, CountJoin
    <3>3. CountTo(T, L + k, v) = CountTo(head, L, v) + CountTo(tail, k, v)
      <4>1. \A i \in 1 .. k : T[L + i] = tail[i]
        BY <1>2, <2>3, <2>5
      <4>2. Joins(T, head, L, tail, k)
        BY <2>2, <2>3, <2>4, <4>1 DEF Joins
      <4> QED
        BY <4>2, CountJoin
    <3>4. /\ CountTo(head, L, v) \in Nat /\ CountTo(tail, k, v) \in Nat
          /\ CountTo(s, PageSize, v) \in Nat
      BY <1>2, <2>2, <2>3, CountNat
    <3> QED
      BY <2>3, <3>1, <3>2, <3>3, <3>4
  <2> QED
    BY <2>8, <2>9, <2>10 DEF Extended, A
<1> QED
  BY <1>4, <1>5

\* A copy into a page changes only the entries it covers.
LEMMA OverwrittenFacts ==
    ASSUME NEW T \in Seq(Entries), NEW a \in Nat, NEW s \in Seq(Entries), a + Len(s) <= Len(T)
    PROVE  /\ Overwritten(T, a, s) \in Seq(Entries) /\ Len(Overwritten(T, a, s)) = Len(T)
           /\ \A j \in 1 .. a : Overwritten(T, a, s)[j] = T[j]
           /\ \A j \in 1 .. Len(s) : Overwritten(T, a, s)[a + j] = s[j]
<1> DEFINE O == Overwritten(T, a, s)
<1>1. /\ Len(T) \in Nat /\ Len(s) \in Nat
      /\ \A j \in 1 .. Len(T) : T[j] \in Entries
      /\ \A j \in 1 .. Len(s) : s[j] \in Entries
  BY LenProperties, ElementOfSeq
<1>2. O = [j \in 1 .. Len(T) |-> IF j > a /\ j <= a + Len(s) THEN s[j - a] ELSE T[j]]
  BY DEF Overwritten
<1>3. O \in [1 .. Len(T) -> Entries]
  <2>1. \A j \in 1 .. Len(T) : j > a /\ j <= a + Len(s) => j - a \in 1 .. Len(s)
    BY <1>1
  <2> QED
    BY <1>1, <1>2, <2>1
<1>4. O \in Seq(Entries) /\ Len(O) = Len(T)
  BY <1>1, <1>3, FunctionIsSeq
<1>5. \A j \in 1 .. a : O[j] = T[j]
  BY <1>1, <1>2
<1>6. ASSUME NEW j \in 1 .. Len(s) PROVE O[a + j] = s[j]
  <2>1. a + j \in 1 .. Len(T) /\ a + j > a /\ a + j <= a + Len(s) /\ (a + j) - a = j
    BY <1>1
  <2> QED
    BY <1>2, <2>1
<1> QED
  BY <1>4, <1>5, <1>6

\* A new page has no elements.
LEMMA NewPageFacts == NewPage \in Seq(Entries) /\ Len(NewPage) = PageSize
                      /\ \A i \in 1 .. PageSize : NewPage[i] = Unset
<1>1. NewPage \in [1 .. PageSize -> Entries]
  BY DEF NewPage, Entries
<1> QED
  BY <1>1, PageSizeNat, FunctionIsSeq DEF NewPage

\* A page that is not full is added: behind the last element, and so across the
\* end of the last page if it has no room for all.
LEMMA AddPartialLemma ==
    ASSUME NEW T, NEW n, Paged(T, n), NEW s \in Seq(Entries), s # <<>>, Len(s) < PageSize
    PROVE  /\ Paged(AddPartiallyFull(T, n, s), n + Len(s))
           /\ Joins(AddPartiallyFull(T, n, s), T, n, s, Len(s))
<1> DEFINE A == AddPartiallyFull(T, n, s)
           l == Len(s)
<1>1. /\ T \in Seq(Entries) /\ n \in Nat /\ Len(T) \in Nat /\ n <= Len(T)
      /\ Len(T) % PageSize = 0 /\ Len(T) - n < PageSize
  BY PagedFacts DEF Paged
<1>2. PageSize \in Nat /\ PageSize > 2 /\ l \in Nat /\ l > 0 /\ l < PageSize
  BY PageSizeNat, EmptySeq
<1>3. (Len(T) + PageSize) % PageSize = 0
  BY <1>1, <1>2, PageMore
<1>4. CASE n % PageSize = 0
  <2> DEFINE page == Overwritten(NewPage, 0, s)
  <2>1. A = T \o page /\ n = Len(T)
    BY <1>4, PagedFacts DEF AddPartiallyFull
  <2>2. /\ page \in Seq(Entries) /\ Len(page) = PageSize
        /\ \A j \in 1 .. l : page[j] = s[j]
    <3>1. PICK z \in Nat : z = 0
      OBVIOUS
    <3>2. NewPage \in Seq(Entries) /\ Len(NewPage) = PageSize /\ z + l <= PageSize
      BY <1>2, <3>1, NewPageFacts
    <3>3. /\ Overwritten(NewPage, z, s) \in Seq(Entries) /\ Len(Overwritten(NewPage, z, s)) = PageSize
          /\ \A j \in 1 .. l : Overwritten(NewPage, z, s)[z + j] = s[j]
      BY <3>2, OverwrittenFacts
    <3>4. \A j \in 1 .. l : z + j = j
      BY <1>2, <3>1
    <3>5. page = Overwritten(NewPage, z, s)
      BY <3>1
    <3> HIDE DEF page
    <3> QED
      BY <3>3, <3>4, <3>5
  <2> HIDE DEF page, A
  <2>3. /\ A \in Seq(Entries) /\ Len(A) = Len(T) + PageSize
        /\ \A i \in 1 .. Len(T) : A[i] = T[i]
        /\ \A i \in 1 .. PageSize : A[Len(T) + i] = page[i]
    <3>1. /\ A \in Seq(Entries) /\ Len(A) = Len(T) + Len(page)
          /\ \A i \in 1 .. Len(T) : A[i] = T[i]
          /\ \A i \in 1 .. Len(page) : A[Len(T) + i] = page[i]
      <4>1. T \in Seq(Entries) /\ page \in Seq(Entries)
        BY <1>1, <2>2
      <4> QED
        BY <2>1, <4>1, ConcatFacts
    <3> QED
      BY <2>2, <3>1
  <2>4. Len(A) % PageSize = 0
    BY <1>3, <2>3
  <2>5. Paged(A, n + l)
    BY <1>1, <1>2, <2>1, <2>3, <2>4 DEF Paged
  <2>6. Joins(A, T, n, s, l)
    BY <1>1, <1>2, <2>1, <2>2, <2>3 DEF Joins
  <2> QED
    BY <2>5, <2>6 DEF A
<1>5. CASE n % PageSize # 0
  <2> DEFINE fits == Smaller(n + l, Len(T)) - n
             start == SubSeq(s, 1, fits)
             rest == SubSeq(s, fits + 1, l)
             grown == Overwritten(T, n, start)
             page == Overwritten(NewPage, 0, rest)
  <2>1. A = IF n + l > Len(T) THEN grown \o page ELSE grown
    <3>1. LastPage(T) + (n % PageSize) = n
      BY <1>5, PagedFacts
    <3> QED
      BY <1>5, <3>1 DEF AddPartiallyFull
  <2>2. /\ fits \in Nat /\ fits <= l /\ n + fits <= Len(T)
        /\ n + l <= Len(T) => fits = l
        /\ n + l > Len(T) => n + fits = Len(T)
    BY <1>1, <1>2 DEF Smaller
  <2> HIDE DEF fits, A
  <2>3. /\ start \in Seq(Entries) /\ Len(start) = fits
        /\ \A i \in 1 .. fits : start[i] = s[i]
    BY <1>2, <2>2, ElementsCount
  <2>4. /\ rest \in Seq(Entries) /\ Len(rest) = l - fits
        /\ \A i \in 1 .. l - fits : rest[i] = s[fits + i]
    BY <1>2, <2>2, SubSeqFacts
  <2> HIDE DEF start, rest
  <2>5. /\ grown \in Seq(Entries) /\ Len(grown) = Len(T)
        /\ \A i \in 1 .. n : grown[i] = T[i]
        /\ \A i \in 1 .. fits : grown[n + i] = s[i]
    <3>1. n + Len(start) <= Len(T)
      BY <2>2, <2>3
    <3>2. /\ grown \in Seq(Entries) /\ Len(grown) = Len(T)
          /\ \A i \in 1 .. n : grown[i] = T[i]
          /\ \A i \in 1 .. Len(start) : grown[n + i] = start[i]
      BY <1>1, <2>3, <3>1, OverwrittenFacts
    <3> HIDE DEF grown
    <3> QED
      BY <2>3, <3>2
  <2>6. CASE n + l <= Len(T)
    <3>1. A = grown
      BY <1>1, <1>2, <2>1, <2>6
    <3>2. Paged(A, n + l)
      <4> HIDE DEF grown
      <4> QED
        BY <1>1, <1>2, <2>5, <2>6, <3>1 DEF Paged
    <3>3. Joins(A, T, n, s, l)
      <4> HIDE DEF grown
      <4> QED
        BY <1>1, <1>2, <2>2, <2>5, <2>6, <3>1 DEF Joins
    <3> QED
      BY <3>2, <3>3 DEF A
  <2>7. CASE n + l > Len(T)
    <3>1. A = grown \o page
      BY <2>1, <2>7
    <3>2. /\ page \in Seq(Entries) /\ Len(page) = PageSize
          /\ \A j \in 1 .. l - fits : page[j] = rest[j]
      <4>1. PICK z \in Nat : z = 0
        OBVIOUS
      <4>2. NewPage \in Seq(Entries) /\ Len(NewPage) = PageSize /\ z + Len(rest) <= PageSize
        BY <1>2, <2>2, <2>4, <4>1, NewPageFacts
      <4>3. /\ Overwritten(NewPage, z, rest) \in Seq(Entries)
            /\ Len(Overwritten(NewPage, z, rest)) = PageSize
            /\ \A j \in 1 .. Len(rest) : Overwritten(NewPage, z, rest)[z + j] = rest[j]
        BY <2>4, <4>2, OverwrittenFacts
      <4>4. \A j \in 1 .. l - fits : z + j = j
        BY <1>2, <2>2, <4>1
      <4>5. page = Overwritten(NewPage, z, rest)
        BY <4>1
      <4> HIDE DEF page
      <4> QED
        BY <2>4, <4>3, <4>4, <4>5
    <3> HIDE DEF grown, page
    <3>3. /\ A \in Seq(Entries) /\ Len(A) = Len(grown) + Len(page)
          /\ \A i \in 1 .. Len(grown) : A[i] = grown[i]
          /\ \A i \in 1 .. Len(page) : A[Len(grown) + i] = page[i]
      <4>1. grown \in Seq(Entries) /\ page \in Seq(Entries)
        BY <2>5, <3>2
      <4> QED
        BY <3>1, <4>1, ConcatFacts
    <3>4. /\ A \in Seq(Entries) /\ Len(A) = Len(T) + PageSize
          /\ \A i \in 1 .. Len(T) : A[i] = grown[i]
          /\ \A i \in 1 .. PageSize : A[Len(T) + i] = page[i]
      BY <2>5, <3>2, <3>3
    <3>5. Len(A) % PageSize = 0
      BY <1>3, <3>4
    <3>6. Paged(A, n + l)
      <4>1. /\ n + l \in Nat /\ n + l <= Len(T) + PageSize
            /\ (Len(T) + PageSize) - (n + l) < PageSize
        BY <1>1, <1>2, <2>7
      <4> QED
        BY <3>4, <3>5, <4>1 DEF Paged
    <3>7. \A i \in 1 .. n : A[i] = T[i]
      BY <1>1, <2>5, <3>4
    <3>8. ASSUME NEW i \in 1 .. l PROVE A[n + i] = s[i]
      <4>1. CASE i <= fits
        <5>1. i \in 1 .. fits /\ n + i \in 1 .. Len(T)
          BY <1>1, <1>2, <2>2, <4>1
        <5> QED
          BY <2>5, <3>4, <5>1
      <4>2. CASE i > fits
        <5>1. /\ i - fits \in 1 .. l - fits /\ i - fits \in 1 .. PageSize
              /\ n + i = Len(T) + (i - fits) /\ fits + (i - fits) = i
          BY <1>1, <1>2, <2>2, <2>7, <4>2
        <5> QED
          BY <2>4, <3>2, <3>4, <5>1
      <4> QED
        BY <1>2, <2>2, <4>1, <4>2
    <3>9. Joins(A, T, n, s, l)
      BY <1>1, <1>2, <3>7, <3>8 DEF Joins
    <3> QED
      BY <3>6, <3>9 DEF A
  <2> QED
    BY <1>1, <1>2, <2>6, <2>7
<1> QED
  BY <1>4, <1>5

\* add(), whatever the buffer holds.
LEMMA AddedLemma ==
    ASSUME NEW T, NEW n, Paged(T, n), NEW s \in Seq(Entries), Len(s) <= PageSize
    PROVE  Extended(Added(T, n, s), T, n, s)
<1>1. /\ T \in Seq(Entries) /\ n \in Nat /\ n % PageSize \in 0 .. PageSize - 1
      /\ Len(s) \in Nat /\ PageSize \in Nat
  BY PagedFacts, PageSizeNat, LenProperties
<1>2. CASE Len(s) = PageSize
  BY <1>2, AddFullLemma DEF Added
<1>3. CASE Len(s) # PageSize /\ s # <<>>
  <2> DEFINE A == AddPartiallyFull(T, n, s)
  <2>1. Added(T, n, s) = A
    BY <1>3 DEF Added
  <2>2. Paged(A, n + Len(s)) /\ Joins(A, T, n, s, Len(s))
    BY <1>1, <1>3, AddPartialLemma
  <2> HIDE DEF A
  <2>3. \A i \in 1 .. n - (n % PageSize) : A[i] = T[i]
    BY <1>1, <2>2 DEF Joins
  <2>4. \A v : CountTo(A, n + Len(s), v) = CountTo(T, n, v) + CountTo(s, Len(s), v)
    BY <2>2, CountJoin
  <2> QED
    BY <2>1, <2>2, <2>3, <2>4 DEF Extended
<1>4. CASE s = <<>>
  <2>1. Added(T, n, s) = T /\ Len(s) = 0
    BY <1>4, PageSizeNat, EmptySeq DEF Added
  <2>2. ASSUME NEW v PROVE CountTo(T, n + Len(s), v) = CountTo(T, n, v) + CountTo(s, Len(s), v)
    <3>1. Joins(T, T, n, s, Len(s))
      BY <1>1, <2>1 DEF Joins
    <3> QED
      BY <3>1, CountJoin
  <2>3. n + Len(s) = n
    BY <1>1, <2>1
  <2>4. Paged(T, n + Len(s))
    BY <2>3
  <2> QED
    BY <2>1, <2>2, <2>4 DEF Extended
<1> QED
  BY <1>2, <1>3, <1>4

\* merge(): the pages of the other array go before the last page of this one if
\* it is partially full, and what that held behind them.
LEMMA MergedLemma ==
    ASSUME NEW T, NEW n, Paged(T, n), NEW U, NEW m, Paged(U, m)
    PROVE  LET A == Merged(T, n, U, m) IN
           /\ Paged(A, n + m)
           /\ \A i \in 1 .. n - (n % PageSize) : A[i] = T[i]
           /\ \A v : CountTo(A, n + m, v) = CountTo(T, n, v) + CountTo(U, m, v)
<1> DEFINE A == Merged(T, n, U, m)
           L == LastPage(T)
           left == n % PageSize
<1>1. /\ T \in Seq(Entries) /\ n \in Nat /\ Len(T) \in Nat /\ n <= Len(T)
      /\ Len(T) % PageSize = 0 /\ Len(T) - n < PageSize /\ left \in 0 .. PageSize - 1
  BY PagedFacts DEF Paged
<1>2. /\ U \in Seq(Entries) /\ m \in Nat /\ Len(U) \in Nat /\ m <= Len(U)
      /\ Len(U) % PageSize = 0 /\ Len(U) - m < PageSize
  BY PagedFacts DEF Paged
<1>3. PageSize \in Nat /\ PageSize > 2
  BY PageSizeNat
<1>4. CASE left = 0
  <2>1. A = T \o U /\ n = Len(T)
    <3>1. ~ (n % PageSize > 0)
      BY <1>4
    <3>2. A = T \o U
      BY <3>1 DEF Merged
    <3>3. n = Len(T)
      BY <1>4, PagedFacts
    <3> QED
      BY <3>2, <3>3
  <2> HIDE DEF A, L
  <2>2. /\ A \in Seq(Entries) /\ Len(A) = Len(T) + Len(U)
        /\ \A i \in 1 .. Len(T) : A[i] = T[i]
        /\ \A i \in 1 .. Len(U) : A[Len(T) + i] = U[i]
    BY <1>1, <1>2, <2>1, ConcatFacts
  <2>3. Len(A) % PageSize = 0
    BY <1>1, <1>2, <2>2, PageMore
  <2>4. Paged(A, n + m)
    <3>1. n + m \in Nat /\ n + m <= Len(T) + Len(U) /\ (Len(T) + Len(U)) - (n + m) < PageSize
      BY <1>1, <1>2, <1>3, <2>1
    <3> QED
      BY <2>2, <2>3, <3>1 DEF Paged
  <2>5. Joins(A, T, n, U, m)
    BY <1>1, <1>2, <2>1, <2>2 DEF Joins
  <2>6. \A v : CountTo(A, n + m, v) = CountTo(T, n, v) + CountTo(U, m, v)
    BY <2>5, CountJoin
  <2>7. \A i \in 1 .. n - left : A[i] = T[i]
    BY <1>1, <2>5 DEF Joins
  <2> QED
    BY <2>4, <2>6, <2>7 DEF A
<1>5. CASE left # 0
  <2> DEFINE full == SubSeq(T, 1, L)
             taken == SubSeq(T, L + 1, L + left)
             pages == full \o U
  <2>1. /\ L \in Nat /\ L < n /\ L = n - left /\ L % PageSize = 0 /\ L + left = n /\ L <= Len(T)
        /\ left > 0 /\ left < PageSize
    <3>1. /\ L + left = n /\ L \in Nat /\ L < n /\ L = n - left /\ L % PageSize = 0
      BY <1>5, PagedFacts
    <3> HIDE DEF L, left
    <3> QED
      BY <1>1, <1>3, <1>5, <3>1
  <2>2. /\ taken \in Seq(Entries) /\ Len(taken) = left
        /\ \A i \in 1 .. left : taken[i] = T[L + i]
    <3>0. T \in Seq(Entries) /\ L \in Nat /\ n \in 0 .. Len(T) /\ L <= n
      BY <1>1, <2>1
    <3> HIDE DEF L, left
    <3>1. /\ SubSeq(T, L + 1, n) \in Seq(Entries) /\ Len(SubSeq(T, L + 1, n)) = n - L
          /\ \A i \in 1 .. n - L : SubSeq(T, L + 1, n)[i] = T[L + i]
      BY <3>0, SubSeqFacts
    <3>2. n - L = left /\ L + left = n
      BY <1>1, <2>1
    <3> QED
      BY <3>1, <3>2
  <2>3. taken # <<>>
    <3>1. Len(<<>>) = 0
      BY EmptySeq
    <3> HIDE DEF taken, left
    <3> QED
      BY <2>1, <2>2, <3>1
  <2>4. A = AddPartiallyFull(pages, n - left + m, taken)
    <3>1. left > 0
      BY <2>1
    <3> QED
      BY <2>3, <3>1 DEF Merged
  <2> HIDE DEF A, left
  <2>5. /\ full \in Seq(Entries) /\ Len(full) = L /\ \A i \in 1 .. L : full[i] = T[i]
    BY <1>1, <2>1, ElementsCount
  <2> HIDE DEF full, taken, L
  <2>6. /\ pages \in Seq(Entries) /\ Len(pages) = Len(full) + Len(U)
        /\ \A i \in 1 .. Len(full) : pages[i] = full[i]
        /\ \A i \in 1 .. Len(U) : pages[Len(full) + i] = U[i]
    BY <1>2, <2>5, ConcatFacts
  <2> HIDE DEF pages
  <2>7. Paged(pages, L + m)
    <3>1. Len(pages) = L + Len(U) /\ Len(pages) % PageSize = 0
      BY <1>2, <2>1, <2>5, <2>6, PageMore
    <3>2. L + m \in Nat /\ L + m <= L + Len(U) /\ (L + Len(U)) - (L + m) < PageSize
      BY <1>2, <1>3, <2>1
    <3> QED
      BY <2>6, <3>1, <3>2 DEF Paged
  <2>8. n - left = L
    BY <2>1
  <2>9. Paged(A, (L + m) + left) /\ Joins(A, pages, L + m, taken, left)
    <3>1. A = AddPartiallyFull(pages, L + m, taken)
      BY <2>4, <2>8
    <3>2. Len(taken) < PageSize
      BY <2>1, <2>2
    <3>3. /\ Paged(AddPartiallyFull(pages, L + m, taken), (L + m) + Len(taken))
          /\ Joins(AddPartiallyFull(pages, L + m, taken), pages, L + m, taken, Len(taken))
      BY <2>2, <2>3, <2>7, <3>2, AddPartialLemma
    <3> QED
      BY <2>2, <3>1, <3>3
  <2>10. (L + m) + left = n + m
    BY <1>1, <1>2, <2>1
  <2>11. ASSUME NEW i \in 1 .. n - left PROVE A[i] = T[i]
    <3>1. i \in 1 .. L /\ i \in 1 .. L + m /\ Len(full) = L
      BY <1>2, <2>1, <2>5, <2>8
    <3> QED
      BY <2>5, <2>6, <2>9, <3>1 DEF Joins
  <2>12. ASSUME NEW v
         PROVE  CountTo(A, n + m, v) = CountTo(T, n, v) + CountTo(U, m, v)
    <3>1. CountTo(A, (L + m) + left, v) = CountTo(pages, L + m, v) + CountTo(taken, left, v)
      BY <2>9, CountJoin
    <3>2. CountTo(pages, L + m, v) = CountTo(T, L, v) + CountTo(U, m, v)
      <4>1. Joins(pages, T, L, U, m)
        BY <1>2, <2>1, <2>5, <2>6 DEF Joins
      <4> QED
        BY <4>1, CountJoin
    <3>3. CountTo(T, L + left, v) = CountTo(T, L, v) + CountTo(taken, left, v)
      <4>1. Joins(T, T, L, taken, left)
        BY <1>1, <2>1, <2>2 DEF Joins
      <4> QED
        BY <4>1, CountJoin
    <3>4. /\ CountTo(T, L, v) \in Nat /\ CountTo(U, m, v) \in Nat
          /\ CountTo(taken, left, v) \in Nat
      BY <1>1, <1>2, <2>1, CountNat
    <3> QED
      BY <2>1, <2>10, <3>1, <3>2, <3>3, <3>4
  <2>13. Paged(A, n + m)
    BY <2>9, <2>10
  <2> QED
    BY <2>11, <2>12, <2>13 DEF A, left
<1> QED
  BY <1>4, <1>5 DEF A

-------------------------------------------------------------------------------
(* The operations that are called while no other runs.                     *)

\* Where the end of the array is in the last page, no page is freed.
LEMMA NothingToShrink ==
    ASSUME NEW T \in Seq(Entries), NEW n \in Nat, Len(T) % PageSize = 0, n + PageSize > Len(T)
    PROVE  ShrunkToFit(T, n) = T
<1> DEFINE a == Len(T) \div PageSize
           b == n \div PageSize
           r == n % PageSize
<1>0. PageSize \in Nat \ {0} /\ Len(T) \in Nat
  BY PageSizeNat, LenProperties
<1>1. /\ a \in Int /\ b \in Int /\ r \in 0 .. PageSize - 1
      /\ Len(T) = PageSize * a /\ n = PageSize * b + r
  <2>1. /\ a \in Int /\ Len(T) = PageSize * a + (Len(T) % PageSize)
    <3>1. Len(T) \in Int
      BY <1>0
    <3> QED
      BY <1>0, <3>1, DivMod
  <2>2. b \in Int /\ r \in 0 .. PageSize - 1 /\ n = PageSize * b + r
    <3>1. n \in Int
      OBVIOUS
    <3> HIDE DEF a
    <3> QED
      BY <1>0, <3>1, DivMod
  <2> HIDE DEF a
  <2>3. PageSize * a \in Int /\ Len(T) = PageSize * a + 0
    BY <1>0, <2>1, Multiples
  <2> QED
    BY <2>1, <2>2, <2>3
<1>2. ~ (a > b + 1) => ShrunkToFit(T, n) = T
  BY DEF ShrunkToFit
<1> HIDE DEF a, b, r
<1>3. PageSize * a \in Int /\ PageSize * b \in Int
  BY <1>0, <1>1, Multiples
<1>4. PageSize * a < PageSize * (b + 2)
  <2>1. PageSize * (b + 2) = PageSize * b + PageSize * 2
    BY <1>0, <1>1, Multiples
  <2> QED
    BY <1>0, <1>1, <1>3, <2>1
<1>5. a < b + 2
  BY <1>0, <1>1, <1>4, Multiples
<1> QED
  BY <1>1, <1>2, <1>5

\* The capacity that an array grows to is the first number of whole pages that
\* is enough.
LEMMA EnoughPages ==
    ASSUME NEW size \in Nat, size > 0
    PROVE  LET c == ((size - 1) \div PageSize + 1) * PageSize IN
           c \in Nat /\ c % PageSize = 0 /\ size <= c /\ c - size < PageSize
<1> DEFINE q == (size - 1) \div PageSize
           r == (size - 1) % PageSize
           c == (q + 1) * PageSize
<1>0. PageSize \in Nat \ {0} /\ size - 1 \in Int
  BY PageSizeNat
<1>1. q \in Int /\ r \in 0 .. PageSize - 1 /\ size - 1 = PageSize * q + r
  BY <1>0, DivMod
<1> HIDE DEF q, r
<1>2. PageSize * q \in Int /\ PageSize * (q + 1) = PageSize * q + PageSize * 1
  BY <1>0, <1>1, Multiples
<1>3. c = PageSize * (q + 1)
  BY <1>0, <1>1
<1>4. c % PageSize = 0
  BY <1>0, <1>1, <1>3, MultipleMod
<1> HIDE DEF c
<1>5. c \in Nat /\ size <= c /\ c - size < PageSize
  BY <1>0, <1>1, <1>2, <1>3
<1> QED
  BY <1>4, <1>5 DEF c, q

\* resize() of an array that keeps the values up to the smaller of its old and
\* its new size.
LEMMA ResizedLemma ==
    ASSUME NEW T, NEW n, Paged(T, n), NEW size \in Nat, size + PageSize > Len(T)
    PROVE  LET kept == SubSeq(SubSeq(T, 1, n), 1, Smaller(size, n))
               B == [i \in 1 .. Len(T) |-> IF i <= Len(kept) THEN kept[i] ELSE Unset]
               A == IF size > Len(T) THEN Grown(B, size) ELSE ShrunkToFit(B, size)
           IN  /\ Paged(A, size)
               /\ \A i \in 1 .. Smaller(size, n) : A[i] = T[i]
               /\ \A v \in Values : CountTo(A, size, v) = Count(kept, v)
               /\ \A v : Count(kept, v) \in Nat
<1> DEFINE k == Smaller(size, n)
           kept == SubSeq(SubSeq(T, 1, n), 1, k)
           B == [i \in 1 .. Len(T) |-> IF i <= Len(kept) THEN kept[i] ELSE Unset]
           A == IF size > Len(T) THEN Grown(B, size) ELSE ShrunkToFit(B, size)
<1>0. /\ T \in Seq(Entries) /\ n \in Nat /\ Len(T) \in Nat /\ n <= Len(T)
      /\ Len(T) % PageSize = 0 /\ Len(T) - n < PageSize /\ PageSize \in Nat
  BY PagedFacts, PageSizeNat DEF Paged
<1>1. k \in Nat /\ k <= n /\ k <= size /\ (k = n \/ k = size)
  BY <1>0 DEF Smaller
<1>2. /\ kept \in Seq(Entries) /\ Len(kept) = k
      /\ \A i \in 1 .. k : kept[i] = T[i]
      /\ \A v : Count(kept, v) = CountTo(T, k, v)
  <2> HIDE DEF k
  <2>1. /\ SubSeq(T, 1, n) \in Seq(Entries) /\ Len(SubSeq(T, 1, n)) = n
        /\ \A i \in 1 .. n : SubSeq(T, 1, n)[i] = T[i]
    BY <1>0, ElementsCount
  <2> DEFINE E == SubSeq(T, 1, n)
  <2>2. E \in Seq(Entries) /\ k \in Nat /\ k <= Len(E)
    BY <1>1, <2>1
  <2> HIDE DEF E
  <2>3. /\ SubSeq(E, 1, k) \in Seq(Entries) /\ Len(SubSeq(E, 1, k)) = k
        /\ \A i \in 1 .. k : SubSeq(E, 1, k)[i] = E[i]
        /\ \A v : Count(SubSeq(E, 1, k), v) = CountTo(E, k, v)
    BY <2>2, ElementsCount
  <2>4. \A i \in 1 .. k : E[i] = T[i]
    BY <1>0, <1>1, <2>1 DEF E
  <2>5. \A v : CountTo(E, k, v) = CountTo(T, k, v)
    BY <1>1, <2>4, CountSame
  <2> QED
    BY <2>3, <2>4, <2>5 DEF E
<1> HIDE DEF k, kept
<1>3. /\ B \in Seq(Entries) /\ Len(B) = Len(T)
      /\ \A i \in 1 .. k : B[i] = T[i]
      /\ \A i \in k + 1 .. Len(T) : B[i] = Unset
  <2>1. \A i \in 1 .. k : kept[i] \in Entries
    BY <1>2, ElementOfSeq
  <2>2. Unset \in Entries
    BY DEF Entries
  <2>3. B \in [1 .. Len(T) -> Entries]
    BY <1>0, <1>1, <1>2, <2>1, <2>2
  <2>4. B \in Seq(Entries) /\ Len(B) = Len(T)
    <3> HIDE DEF B
    <3> QED
      BY <1>0, <2>3, FunctionIsSeq
  <2>5. \A i \in 1 .. k : B[i] = T[i]
    BY <1>0, <1>1, <1>2
  <2>6. \A i \in k + 1 .. Len(T) : B[i] = Unset
    BY <1>0, <1>1, <1>2
  <2> QED
    BY <2>4, <2>5, <2>6
<1> HIDE DEF B
\* The table is paged, starts with the first k entries and has no others.
<1>4. /\ Paged(A, size)
      /\ \A i \in 1 .. k : A[i] = T[i]
      /\ \A i \in k + 1 .. size : A[i] = Unset
  <2>1. CASE size > Len(T)
    <3> DEFINE c == ((size - 1) \div PageSize + 1) * PageSize
               more == [i \in 1 .. c - Len(B) |-> Unset]
    <3>1. A = B \o more
      BY <2>1 DEF Grown
    <3>2. c \in Nat /\ c % PageSize = 0 /\ size <= c /\ c - size < PageSize
      BY <1>0, <2>1, EnoughPages
    <3> HIDE DEF A, c
    <3>3. more \in Seq(Entries) /\ Len(more) = c - Len(T) /\ \A i \in 1 .. c - Len(T) : more[i] = Unset
      <4>1. c - Len(T) \in Nat /\ c - Len(B) = c - Len(T)
        BY <1>0, <1>3, <2>1, <3>2
      <4>2. more \in [1 .. c - Len(T) -> Entries]
        BY <4>1 DEF Entries
      <4>3. \A i \in 1 .. c - Len(T) : more[i] = Unset
        BY <4>1
      <4> HIDE DEF more
      <4> QED
        BY <4>1, <4>2, <4>3, FunctionIsSeq
    <3> HIDE DEF more
    <3>4. /\ A \in Seq(Entries) /\ Len(A) = Len(B) + Len(more)
          /\ \A i \in 1 .. Len(B) : A[i] = B[i]
          /\ \A i \in 1 .. Len(more) : A[Len(B) + i] = more[i]
      BY <1>3, <3>1, <3>3, ConcatFacts
    <3>5. Len(A) = c
      BY <1>0, <1>3, <3>2, <3>3, <3>4
    <3>6. Paged(A, size)
      BY <3>2, <3>4, <3>5 DEF Paged
    <3>7. \A i \in 1 .. k : A[i] = T[i]
      BY <1>0, <1>1, <1>3, <3>4
    <3>8. ASSUME NEW i \in k + 1 .. size PROVE A[i] = Unset
      <4>1. CASE i <= Len(T)
        <5>1. i \in 1 .. Len(B) /\ i \in k + 1 .. Len(T)
          BY <1>0, <1>1, <1>3, <4>1
        <5>2. A[i] = B[i]
          BY <3>4, <5>1
        <5> QED
          BY <1>3, <5>1, <5>2
      <4>2. CASE i > Len(T)
        <5>1. i - Len(T) \in 1 .. c - Len(T) /\ Len(T) + (i - Len(T)) = i
          BY <1>0, <1>1, <3>2, <4>2
        <5> QED
          BY <1>3, <3>3, <3>4, <5>1
      <4> QED
        BY <1>0, <1>1, <4>1, <4>2
    <3> QED
      BY <3>6, <3>7, <3>8
  <2>2. CASE ~ (size > Len(T))
    <3>1. ShrunkToFit(B, size) = B
      BY <1>0, <1>3, NothingToShrink
    <3>2. A = B
      BY <2>2, <3>1
    <3> HIDE DEF A
    <3>3. Paged(B, size)
      BY <1>0, <1>3, <2>2 DEF Paged
    <3>4. \A i \in k + 1 .. size : B[i] = Unset
      BY <1>0, <1>1, <1>3, <2>2
    <3> QED
      BY <1>3, <3>2, <3>3, <3>4
  <2> QED
    BY <2>1, <2>2
<1> HIDE DEF A
<1>5. ASSUME NEW v \in Values PROVE CountTo(A, size, v) = Count(kept, v)
  <2> DEFINE more == [i \in 1 .. size - k |-> Unset]
  <2>1. /\ k \in Nat /\ size - k \in Nat /\ k + (size - k) = size
        /\ \A i \in 1 .. size - k : k + i \in k + 1 .. size
    BY <1>1
  <2>2. Joins(A, T, k, more, size - k)
    BY <1>4, <2>1 DEF Joins
  <2>3. CountTo(A, k + (size - k), v) = CountTo(T, k, v) + CountTo(more, size - k, v)
    BY <2>2, CountJoin
  <2>4. CountTo(more, size - k, v) = 0
    <3>1. \A i \in 1 .. size - k : more[i] # v
      BY PagedArrayAssumption
    <3> HIDE DEF more
    <3> QED
      BY <2>1, <3>1, CountOthers
  <2> HIDE DEF more
  <2>5. CountTo(T, k, v) \in Nat
    BY <2>1, CountNat
  <2> QED
    BY <1>2, <2>1, <2>3, <2>4, <2>5
<1>6. \A v : Count(kept, v) \in Nat
  BY <1>1, <1>2, CountNat
<1> QED
  BY <1>4, <1>5, <1>6 DEF A, B, kept, k

\* push_back_unsafe()
Pushed(T, n, v) == [IF n >= Len(T) THEN T \o NewPage ELSE T EXCEPT ![n + 1] = v]

\* A push adds one element at the end, in a new page if the last is full.
LEMMA PushedLemma ==
    ASSUME NEW T, NEW n, Paged(T, n), NEW v \in Values
    PROVE  LET A == Pushed(T, n, v)
           IN  /\ Paged(A, n + 1)
               /\ \A i \in 1 .. n : A[i] = T[i]
               /\ CountTo(A, n + 1, v) = CountTo(T, n, v) + 1
               /\ \A w : w # v => CountTo(A, n + 1, w) = CountTo(T, n, w)
<1> DEFINE B == IF n >= Len(T) THEN T \o NewPage ELSE T
           A == [B EXCEPT ![n + 1] = v]
<1>0. /\ T \in Seq(Entries) /\ n \in Nat /\ Len(T) \in Nat /\ n <= Len(T)
      /\ Len(T) % PageSize = 0 /\ Len(T) - n < PageSize /\ PageSize \in Nat /\ PageSize > 2
  BY PagedFacts, PageSizeNat DEF Paged
<1>1. /\ B \in Seq(Entries) /\ Len(B) \in Nat /\ Len(B) % PageSize = 0
      /\ n + 1 <= Len(B) /\ Len(B) - (n + 1) < PageSize
      /\ \A i \in 1 .. n : B[i] = T[i]
  <2>1. CASE n >= Len(T)
    <3>1. B = T \o NewPage /\ NewPage \in Seq(Entries) /\ Len(NewPage) = PageSize
      BY <2>1, NewPageFacts
    <3> HIDE DEF B
    <3>2. /\ B \in Seq(Entries) /\ Len(B) = Len(T) + Len(NewPage)
          /\ \A i \in 1 .. Len(T) : B[i] = T[i]
      BY <1>0, <3>1, ConcatFacts
    <3>3. (Len(T) + PageSize) % PageSize = 0
      BY <1>0, PageMore
    <3> QED
      BY <1>0, <2>1, <3>1, <3>2, <3>3
  <2>2. CASE ~ (n >= Len(T))
    BY <1>0, <2>2
  <2> QED
    BY <2>1, <2>2
<1> HIDE DEF B
<1>2. /\ A \in Seq(Entries) /\ Len(A) = Len(B)
      /\ \A i \in 1 .. n : A[i] = T[i]
      /\ A[n + 1] = v
  <2>1. v \in Entries /\ n + 1 \in 1 .. Len(B)
    BY <1>0, <1>1 DEF Entries
  <2>2. /\ A \in Seq(Entries) /\ Len(A) = Len(B)
        /\ \A i \in 1 .. Len(B) : A[i] = IF i = n + 1 THEN v ELSE B[i]
    BY <1>1, <2>1, ExceptSeq
  <2> HIDE DEF A
  <2>3. \A i \in 1 .. n : i \in 1 .. Len(B) /\ i # n + 1
    BY <1>0, <1>1
  <2> QED
    BY <1>1, <2>1, <2>2, <2>3
<1> HIDE DEF A
<1>3. Paged(A, n + 1)
  BY <1>0, <1>1, <1>2 DEF Paged
<1>4. PICK one \in Nat : one = 1
  OBVIOUS
<1>5. ASSUME NEW w
      PROVE  CountTo(A, n + one, w) = CountTo(T, n, w) + CountTo([i \in 1 .. 1 |-> v], one, w)
  <2>1. Joins(A, T, n, [i \in 1 .. 1 |-> v], one)
    BY <1>0, <1>2, <1>4 DEF Joins
  <2> QED
    BY <2>1, CountJoin
<1>6. ASSUME NEW w
      PROVE  CountTo([i \in 1 .. 1 |-> v], one, w) = IF w = v THEN 1 ELSE 0
  <2>1. CASE w = v
    <3>1. Places([i \in 1 .. 1 |-> v], one, w) = {1}
      BY <1>4, <2>1 DEF Places
    <3> QED
      BY <2>1, <3>1, FS_Singleton DEF CountTo
  <2>2. CASE w # v
    <3>1. Places([i \in 1 .. 1 |-> v], one, w) = {}
      BY <1>4, <2>2 DEF Places
    <3> QED
      BY <2>2, <3>1, FS_EmptySet DEF CountTo
  <2> QED
    BY <2>1, <2>2
<1>7. \A w : CountTo(T, n, w) \in Nat
  BY <1>0, CountNat
<1>8. CountTo(A, n + 1, v) = CountTo(T, n, v) + 1
  BY <1>4, <1>5, <1>6
<1>9. ASSUME NEW w, w # v PROVE CountTo(A, n + 1, w) = CountTo(T, n, w)
  BY <1>4, <1>5, <1>6, <1>7, <1>9
<1> QED
  BY <1>2, <1>3, <1>8, <1>9 DEF A, B, Pushed

-------------------------------------------------------------------------------
(* The invariant.                                                          *)

\* A table and its size are paged and hold each value as often as counted.
Holds(T, n, h) == /\ Paged(T, n) /\ h \in [Values -> Nat]
                  /\ \A v \in Values : CountTo(T, n, v) = h[v]

PagesInv ==
    /\ mPageTable \in [Arrays -> Seq(Entries)]
    /\ mSize \in [Arrays -> Nat]
    /\ held \in [Arrays -> [Values -> Nat]]
    /\ buffered \in [Buffers -> Seq(Values)]
    /\ \A p \in Arrays : Holds(mPageTable[p], mSize[p], held[p])
    /\ \A b \in Buffers : Len(buffered[b]) < PageSize

\* An array that has become longer has kept its full pages.
FullKept(p) ==
    mSize'[p] > mSize[p] =>
       \A i \in 1 .. mSize[p] - (mSize[p] % PageSize) : mPageTable'[p][i] = mPageTable[p][i]

\* Arrays start empty.
LEMMA InitPages == Init => PagesInv
<1> SUFFICES ASSUME Init PROVE PagesInv
  OBVIOUS
<1>1. PICK T : T = <<>>
  OBVIOUS
<1>2. T \in Seq(Entries) /\ T \in Seq(Values) /\ Len(T) = 0
  BY <1>1, EmptySeq
<1>3. 0 % PageSize = 0 /\ PageSize \in Nat /\ PageSize > 2
  <2>1. 0 % PageSize = 0
    <3>1. PageSize \in Nat \ {0} /\ PageSize * 0 = 0
      BY PageSizeNat
    <3> QED
      BY <3>1, MultipleMod
  <2> QED
    BY <2>1, PageSizeNat
<1>4. Paged(T, 0)
  BY <1>2, <1>3 DEF Paged
<1>5. \A v : CountTo(T, 0, v) = 0
  <2>1. PICK z \in Nat : z = 0
    OBVIOUS
  <2>2. \A v : \A i \in 1 .. z : T[i] # v
    BY <2>1
  <2>3. \A v : CountTo(T, z, v) = 0
    BY <2>2, CountOthers
  <2> QED
    BY <2>1, <2>3
<1>6. /\ mPageTable = [p \in Arrays |-> T] /\ mSize = [p \in Arrays |-> 0]
      /\ buffered = [b \in Buffers |-> T] /\ held = [p \in Arrays |-> [v \in Values |-> 0]]
  BY <1>1 DEF Init
<1>7. \A p \in Arrays : Holds(mPageTable[p], mSize[p], held[p])
  BY <1>4, <1>5, <1>6 DEF Holds
<1>8. \A b \in Buffers : Len(buffered[b]) < PageSize
  BY <1>2, <1>3, <1>6
<1> QED
  BY <1>2, <1>6, <1>7, <1>8 DEF PagesInv

\* What PagesInv says of one array.
LEMMA HoldsFacts ==
    ASSUME PagesInv, NEW p \in Arrays
    PROVE  /\ Paged(mPageTable[p], mSize[p])
           /\ mPageTable[p] \in Seq(Entries) /\ mSize[p] \in Nat
           /\ held[p] \in [Values -> Nat]
           /\ \A v \in Values : CountTo(mPageTable[p], mSize[p], v) = held[p][v]
           /\ mSize[p] % PageSize \in 0 .. PageSize - 1
           /\ mSize[p] <= Len(mPageTable[p]) /\ Len(mPageTable[p]) \in Nat
<1>1. Holds(mPageTable[p], mSize[p], held[p])
  BY DEF PagesInv
<1> QED
  BY <1>1, PagedFacts DEF Holds

\* A step that changes one array and sets buffers to values fewer than a page.
LEMMA OneArray ==
    ASSUME PagesInv, NEW p \in Arrays, NEW T, NEW n, NEW h, Holds(T, n, h),
           mPageTable' = [mPageTable EXCEPT ![p] = T],
           mSize' = [mSize EXCEPT ![p] = n],
           held' = [held EXCEPT ![p] = h],
           buffered' \in [Buffers -> Seq(Values)],
           \A b \in Buffers : Len(buffered'[b]) < PageSize,
           n > mSize[p] =>
             \A i \in 1 .. mSize[p] - (mSize[p] % PageSize) : T[i] = mPageTable[p][i]
    PROVE  PagesInv' /\ \A q \in Arrays : FullKept(q)
<1>1. T \in Seq(Entries) /\ n \in Nat /\ h \in [Values -> Nat]
  BY PagedFacts DEF Holds
<1>2. /\ mPageTable \in [Arrays -> Seq(Entries)] /\ mSize \in [Arrays -> Nat]
      /\ held \in [Arrays -> [Values -> Nat]]
  BY DEF PagesInv
<1>3. /\ mPageTable' \in [Arrays -> Seq(Entries)] /\ mSize' \in [Arrays -> Nat]
      /\ held' \in [Arrays -> [Values -> Nat]]
  BY <1>1, <1>2
<1>4. ASSUME NEW q \in Arrays
      PROVE  Holds(mPageTable'[q], mSize'[q], held'[q]) /\ FullKept(q)
  <2>1. CASE q = p
    <3>1. mPageTable'[q] = T /\ mSize'[q] = n /\ held'[q] = h
      BY <1>2, <2>1
    <3> QED
      BY <2>1, <3>1 DEF FullKept
  <2>2. CASE q # p
    <3>1. mPageTable'[q] = mPageTable[q] /\ mSize'[q] = mSize[q] /\ held'[q] = held[q]
      BY <1>2, <2>2
    <3>2. Holds(mPageTable[q], mSize[q], held[q]) /\ mSize[q] \in Nat
      BY <1>2 DEF PagesInv
    <3> QED
      BY <3>1, <3>2 DEF FullKept
  <2> QED
    BY <2>1, <2>2
<1> QED
  BY <1>3, <1>4 DEF PagesInv

\* Any number of values up to a page is added.
LEMMA AddStep ==
    ASSUME PagesInv, NEW b \in Buffers, NEW s \in Seq(Values), Len(s) <= PageSize, Add(b, s)
    PROVE  PagesInv' /\ \A q \in Arrays : FullKept(q)
<1> DEFINE p == Parent[b]
           T == Added(mPageTable[p], mSize[p], s)
           n == mSize[p] + Len(s)
           h == [v \in Values |-> held[p][v] + Count(s, v)]
<1>1. p \in Arrays
  BY PagedArrayAssumption
<1>2. s \in Seq(Entries) /\ Len(s) \in Nat
  <2>1. Values \subseteq Entries
    BY DEF Entries
  <2>2. Len(s) \in Nat /\ \A i \in 1 .. Len(s) : s[i] \in Values
    BY LenProperties, ElementOfSeq
  <2>3. s \in Seq(Entries)
    BY <2>1, SeqDef
  <2> QED
    BY <2>2, <2>3
<1> HIDE DEF p
<1>3. /\ Paged(mPageTable[p], mSize[p]) /\ mSize[p] \in Nat /\ held[p] \in [Values -> Nat]
      /\ \A v \in Values : CountTo(mPageTable[p], mSize[p], v) = held[p][v]
  BY <1>1, HoldsFacts
<1>4. Extended(T, mPageTable[p], mSize[p], s)
  BY <1>2, <1>3, AddedLemma
<1>5. /\ mPageTable' = [mPageTable EXCEPT ![p] = T] /\ mSize' = [mSize EXCEPT ![p] = n]
      /\ held' = [held EXCEPT ![p] = h] /\ buffered' = [buffered EXCEPT ![b] = <<>>]
  BY DEF Add, p
<1> HIDE DEF T
<1>6. Holds(T, n, h)
  <2>1. \A v : Count(s, v) = CountTo(s, Len(s), v) /\ Count(s, v) \in Nat
    BY <1>2, CountWhole, CountNat
  <2>2. h \in [Values -> Nat]
    BY <1>3, <2>1
  <2>3. Paged(T, n) /\ \A v : CountTo(T, n, v) = CountTo(mPageTable[p], mSize[p], v) + CountTo(s, Len(s), v)
    BY <1>4 DEF Extended
  <2>4. \A v \in Values : CountTo(T, n, v) = h[v]
    BY <1>3, <2>1, <2>3
  <2> HIDE DEF h, n
  <2> QED
    BY <2>2, <2>3, <2>4 DEF Holds
<1>7. /\ buffered' \in [Buffers -> Seq(Values)]
      /\ \A c \in Buffers : Len(buffered'[c]) < PageSize
  <2>1. buffered \in [Buffers -> Seq(Values)] /\ \A c \in Buffers : Len(buffered[c]) < PageSize
    BY DEF PagesInv
  <2>2. PICK e : e = <<>>
    OBVIOUS
  <2>3. e \in Seq(Values) /\ Len(e) = 0 /\ 0 < PageSize
    BY <2>2, EmptySeq, PageSizeNat
  <2>4. buffered' = [buffered EXCEPT ![b] = e]
    BY <1>5, <2>2
  <2> QED
    BY <2>1, <2>3, <2>4
<1>8. \A i \in 1 .. mSize[p] - (mSize[p] % PageSize) : T[i] = mPageTable[p][i]
  BY <1>4 DEF Extended
<1> HIDE DEF n, h
<1> QED
  BY <1>1, <1>5, <1>6, <1>7, <1>8, OneArray

\* Pushing to a buffer touches no array.
LEMMA BufferPushBackStep ==
    ASSUME PagesInv, NEW b \in Buffers, NEW v \in Values, BufferPushBack(b, v)
    PROVE  PagesInv' /\ \A q \in Arrays : FullKept(q)
<1> DEFINE s == Append(buffered[b], v)
<1>1. /\ buffered \in [Buffers -> Seq(Values)] /\ buffered[b] \in Seq(Values)
      /\ Len(buffered[b]) \in Nat /\ Len(buffered[b]) < PageSize
      /\ \A c \in Buffers : Len(buffered[c]) < PageSize
  BY LenProperties DEF PagesInv
<1>2. s \in Seq(Values) /\ Len(s) = Len(buffered[b]) + 1
  BY <1>1, AppendProperties
<1>3. PageSize \in Nat
  BY PageSizeNat
<1>4. CASE Len(s) = PageSize
  <2>1. Add(b, s)
    BY <1>4 DEF BufferPushBack
  <2> HIDE DEF s
  <2>2. Len(s) <= PageSize
    BY <1>3, <1>4
  <2> QED
    BY <1>2, <2>1, <2>2, AddStep
<1>5. CASE Len(s) # PageSize
  <2>1. buffered' = [buffered EXCEPT ![b] = s] /\ UNCHANGED <<mPageTable, mSize, held>>
    BY <1>5 DEF BufferPushBack
  <2> HIDE DEF s
  <2>2. Len(s) < PageSize
    BY <1>1, <1>2, <1>3, <1>5
  <2>3. buffered' \in [Buffers -> Seq(Values)] /\ \A c \in Buffers : Len(buffered'[c]) < PageSize
    BY <1>1, <1>2, <2>1, <2>2
  <2>4. \A q \in Arrays : mSize'[q] = mSize[q] /\ mSize[q] \in Nat
    BY <2>1, HoldsFacts
  <2>5. \A q \in Arrays : FullKept(q)
    BY <2>4 DEF FullKept
  <2> QED
    BY <2>1, <2>3, <2>5 DEF PagesInv
<1> QED
  BY <1>4, <1>5

\* A flush adds the values of a buffer, wherever the last page is.
LEMMA FlushStep ==
    ASSUME PagesInv, NEW b \in Buffers, Flush(b)
    PROVE  PagesInv' /\ \A q \in Arrays : FullKept(q)
<1>1. buffered[b] \in Seq(Values) /\ Len(buffered[b]) \in Nat /\ Len(buffered[b]) < PageSize
  BY LenProperties DEF PagesInv
<1>2. Len(buffered[b]) <= PageSize /\ Add(b, buffered[b])
  BY <1>1, PageSizeNat DEF Flush
<1> QED
  BY <1>1, <1>2, AddStep

\* A push without a buffer.
LEMMA PushBackUnsafeStep ==
    ASSUME PagesInv, NEW p \in Arrays, NEW v \in Values, PushBackUnsafe(p, v)
    PROVE  PagesInv' /\ \A q \in Arrays : FullKept(q)
<1> DEFINE T == mPageTable[p]
           n == mSize[p]
           A == Pushed(T, n, v)
           h == [held[p] EXCEPT ![v] = @ + 1]
<1>1. /\ Paged(T, n) /\ n \in Nat /\ held[p] \in [Values -> Nat]
      /\ n % PageSize \in 0 .. PageSize - 1
      /\ \A w \in Values : CountTo(T, n, w) = held[p][w]
  BY HoldsFacts
<1>2. /\ mPageTable' = [mPageTable EXCEPT ![p] = A] /\ mSize' = [mSize EXCEPT ![p] = n + 1]
      /\ buffered' = buffered
  BY DEF PushBackUnsafe, Pushed
<1>3. held' = [held EXCEPT ![p] = h]
  BY DEF PushBackUnsafe
<1>4. /\ Paged(A, n + 1)
      /\ \A i \in 1 .. n : A[i] = T[i]
      /\ CountTo(A, n + 1, v) = CountTo(T, n, v) + 1
      /\ \A w : w # v => CountTo(A, n + 1, w) = CountTo(T, n, w)
  <2>1. Paged(T, n) /\ v \in Values
    BY <1>1
  <2> HIDE DEF T, n
  <2> QED
    BY ONLY <2>1, PushedLemma
<1> HIDE DEF A
<1>5. Holds(A, n + 1, h)
  <2>1. h \in [Values -> Nat] /\ h[v] = held[p][v] + 1 /\ \A w \in Values : w # v => h[w] = held[p][w]
    BY <1>1
  <2> HIDE DEF h, T, n
  <2>2. \A w \in Values : CountTo(A, n + 1, w) = h[w]
    BY <1>1, <1>4, <2>1
  <2> QED
    BY <1>4, <2>1, <2>2 DEF Holds
<1>6. \A i \in 1 .. n - (n % PageSize) : A[i] = T[i]
  <2> HIDE DEF T, n
  <2>1. \A i \in 1 .. n - (n % PageSize) : i \in 1 .. n
    BY <1>1, PageSizeNat
  <2> QED
    BY <1>4, <2>1
<1>7. buffered' \in [Buffers -> Seq(Values)] /\ \A c \in Buffers : Len(buffered'[c]) < PageSize
  BY <1>2 DEF PagesInv
<1> HIDE DEF h
<1> QED
  BY <1>2, <1>3, <1>5, <1>6, <1>7, OneArray

\* resize() within the last page, or to more pages.
LEMMA ResizeStep ==
    ASSUME PagesInv, ~Shrinking, NEW p \in Arrays, NEW size \in 0 .. MaxSize, Resize(p, size)
    PROVE  PagesInv' /\ \A q \in Arrays : FullKept(q)
<1> DEFINE T == mPageTable[p]
           n == mSize[p]
           k == Smaller(size, n)
           kept == SubSeq(SubSeq(T, 1, n), 1, k)
           B == [i \in 1 .. Len(T) |-> IF i <= Len(kept) THEN kept[i] ELSE Unset]
           A == IF size > Len(T) THEN Grown(B, size) ELSE ShrunkToFit(B, size)
           h == [v \in Values |-> Count(kept, v)]
<1>1. /\ Paged(T, n) /\ n \in Nat /\ n % PageSize \in 0 .. PageSize - 1
      /\ size \in Nat /\ PageSize \in Nat
  BY HoldsFacts, PageSizeNat, PagedArrayAssumption
<1>2. size + PageSize > Len(T)
  BY DEF Resize
<1>3. mPageTable' = [mPageTable EXCEPT ![p] = A]
  BY DEF Resize, Elements
<1>4. /\ mSize' = [mSize EXCEPT ![p] = size]
      /\ held' = [held EXCEPT ![p] = h]
      /\ buffered' = buffered
  BY DEF Resize, Elements
<1>5. /\ Paged(A, size)
      /\ \A i \in 1 .. k : A[i] = T[i]
      /\ \A v \in Values : CountTo(A, size, v) = Count(kept, v)
      /\ \A v : Count(kept, v) \in Nat
  <2> HIDE DEF T, n
  <2> QED
    BY <1>1, <1>2, ResizedLemma
<1> HIDE DEF A, B
<1>6. Holds(A, size, h)
  <2> HIDE DEF kept
  <2> QED
    BY <1>5 DEF Holds
<1>7. ASSUME size > n PROVE \A i \in 1 .. n - (n % PageSize) : A[i] = T[i]
  <2> HIDE DEF T, n
  <2>1. k = n
    BY <1>1, <1>7 DEF Smaller
  <2> HIDE DEF k
  <2>2. \A i \in 1 .. n - (n % PageSize) : i \in 1 .. n
    BY <1>1
  <2> QED
    BY <1>5, <2>1, <2>2
<1>8. buffered' \in [Buffers -> Seq(Values)] /\ \A c \in Buffers : Len(buffered'[c]) < PageSize
  BY <1>4 DEF PagesInv
<1> HIDE DEF h
<1> QED
  BY <1>3, <1>4, <1>6, <1>7, <1>8, OneArray

\* shrink_to_fit() finds no whole page to remove as long as no resize leaves
\* one.
LEMMA ShrinkToFitStep ==
    ASSUME PagesInv, NEW p \in Arrays, ShrinkToFit(p)
    PROVE  PagesInv' /\ \A q \in Arrays : FullKept(q)
<1> DEFINE T == mPageTable[p]
           n == mSize[p]
<1>1. T \in Seq(Entries) /\ n \in Nat /\ Len(T) \in Nat /\ Len(T) % PageSize = 0 /\ Len(T) - n < PageSize
  BY HoldsFacts DEF Paged
<1>2. n + PageSize > Len(T)
  BY <1>1, PageSizeNat
<1>3. ShrunkToFit(T, n) = T
  BY <1>1, <1>2, NothingToShrink
<1>4. mPageTable' = mPageTable
  BY <1>3 DEF ShrinkToFit, PagesInv
<1>5. mSize' = mSize /\ held' = held /\ buffered' = buffered
  BY DEF ShrinkToFit
<1>6. \A q \in Arrays : FullKept(q)
  BY <1>4 DEF FullKept
<1> QED
  BY <1>4, <1>5, <1>6 DEF PagesInv

\* An array without elements.
LEMMA EmptyHolds == Holds(<<>>, 0, [v \in Values |-> 0])
<1>1. PICK T : T = <<>>
  OBVIOUS
<1>2. T \in Seq(Entries) /\ Len(T) = 0
  BY <1>1, EmptySeq
<1>3. 0 % PageSize = 0 /\ PageSize \in Nat /\ PageSize > 2
  <2>1. 0 % PageSize = 0
    <3>1. PageSize \in Nat \ {0} /\ PageSize * 0 = 0
      BY PageSizeNat
    <3> QED
      BY <3>1, MultipleMod
  <2> QED
    BY <2>1, PageSizeNat
<1>4. Paged(T, 0)
  BY <1>2, <1>3 DEF Paged
<1>5. \A v : CountTo(T, 0, v) = 0
  <2>1. PICK z \in Nat : z = 0
    OBVIOUS
  <2>2. \A v : \A i \in 1 .. z : T[i] # v
    BY <2>1
  <2>3. \A v : CountTo(T, z, v) = 0
    BY <2>2, CountOthers
  <2> QED
    BY <2>1, <2>3
<1> QED
  BY <1>1, <1>4, <1>5 DEF Holds

\* clear() removes all.
LEMMA ClearStep ==
    ASSUME PagesInv, NEW p \in Arrays, Clear(p)
    PROVE  PagesInv' /\ \A q \in Arrays : FullKept(q)
<1>1. PICK T, n, h : T = <<>> /\ n = 0 /\ h = [v \in Values |-> 0]
  OBVIOUS
<1>2. Holds(T, n, h)
  BY <1>1, EmptyHolds
<1>3. /\ mPageTable' = [mPageTable EXCEPT ![p] = T] /\ mSize' = [mSize EXCEPT ![p] = n]
      /\ held' = [held EXCEPT ![p] = h] /\ buffered' = buffered
  BY <1>1 DEF Clear
<1>4. buffered' \in [Buffers -> Seq(Values)] /\ \A c \in Buffers : Len(buffered'[c]) < PageSize
  BY <1>3 DEF PagesInv
<1>5. ~ (n > mSize[p])
  BY <1>1, HoldsFacts
<1> QED
  BY <1>2, <1>3, <1>4, <1>5, OneArray

\* merge() takes all elements of the other array.
LEMMA MergeStep ==
    ASSUME PagesInv, NEW p \in Arrays, NEW q \in Arrays, Merge(p, q)
    PROVE  PagesInv' /\ \A r \in Arrays : FullKept(r)
<1> DEFINE A == Merged(mPageTable[p], mSize[p], mPageTable[q], mSize[q])
           n == mSize[p] + mSize[q]
           h == [v \in Values |-> held[p][v] + held[q][v]]
<1>0. p # q /\ UNCHANGED buffered
  BY DEF Merge
<1>1. /\ mPageTable \in [Arrays -> Seq(Entries)] /\ mSize \in [Arrays -> Nat]
      /\ held \in [Arrays -> [Values -> Nat]]
  BY DEF PagesInv
<1>2. /\ Paged(mPageTable[p], mSize[p]) /\ Paged(mPageTable[q], mSize[q])
      /\ \A v \in Values : CountTo(mPageTable[p], mSize[p], v) = held[p][v]
      /\ \A v \in Values : CountTo(mPageTable[q], mSize[q], v) = held[q][v]
  BY HoldsFacts
<1>3. PICK e, z, none : e = <<>> /\ z = 0 /\ none = [v \in Values |-> 0]
  OBVIOUS
<1>4. Holds(e, z, none) /\ e \in Seq(Entries) /\ z \in Nat /\ none \in [Values -> Nat]
  <2>1. Holds(e, z, none)
    BY <1>3, EmptyHolds
  <2> QED
    BY <2>1, PagedFacts DEF Holds
<1>5. /\ Paged(A, n)
      /\ \A i \in 1 .. mSize[p] - (mSize[p] % PageSize) : A[i] = mPageTable[p][i]
      /\ \A v : CountTo(A, n, v) = CountTo(mPageTable[p], mSize[p], v)
                                   + CountTo(mPageTable[q], mSize[q], v)
  BY <1>2, MergedLemma
<1>6. mPageTable' = [mPageTable EXCEPT ![p] = A, ![q] = e]
  BY <1>3 DEF Merge
<1>7. mSize' = [mSize EXCEPT ![p] = n, ![q] = z]
  BY <1>3 DEF Merge
<1>8. held' = [held EXCEPT ![p] = h, ![q] = none]
  BY <1>3 DEF Merge
<1> HIDE DEF A
<1>9. n \in Nat /\ A \in Seq(Entries) /\ h \in [Values -> Nat] /\ h = [v \in Values |-> held[p][v] + held[q][v]]
  BY <1>1, <1>5, PagedFacts
<1>10. Holds(A, n, h)
  BY <1>2, <1>5, <1>9 DEF Holds
<1> HIDE DEF n, h
<1>11. ASSUME NEW r \in Arrays
       PROVE  Holds(mPageTable'[r], mSize'[r], held'[r]) /\ FullKept(r)
  <2>1. CASE r = p
    <3>1. mPageTable'[r] = A /\ mSize'[r] = n /\ held'[r] = h
      BY <1>0, <1>1, <1>6, <1>7, <1>8, <2>1
    <3> QED
      BY <1>5, <1>10, <2>1, <3>1 DEF FullKept
  <2>2. CASE r = q
    <3>1. mPageTable'[r] = e /\ mSize'[r] = z /\ held'[r] = none
      BY <1>1, <1>6, <1>7, <1>8, <2>2
    <3>2. ~ (z > mSize[r])
      BY <1>1, <1>3
    <3> QED
      BY <1>4, <3>1, <3>2 DEF FullKept
  <2>3. CASE r # p /\ r # q
    <3>1. mPageTable'[r] = mPageTable[r] /\ mSize'[r] = mSize[r] /\ held'[r] = held[r]
      BY <1>1, <1>6, <1>7, <1>8, <2>3
    <3>2. Holds(mPageTable[r], mSize[r], held[r])
      BY DEF PagesInv
    <3> QED
      BY <3>1, <3>2 DEF FullKept
  <2> QED
    BY <2>1, <2>2, <2>3
<1>12. /\ mPageTable' \in [Arrays -> Seq(Entries)] /\ mSize' \in [Arrays -> Nat]
       /\ held' \in [Arrays -> [Values -> Nat]]
  BY <1>1, <1>4, <1>6, <1>7, <1>8, <1>9
<1>13. buffered' \in [Buffers -> Seq(Values)] /\ \A c \in Buffers : Len(buffered'[c]) < PageSize
  BY <1>0 DEF PagesInv
<1> QED
  BY <1>11, <1>12, <1>13 DEF PagesInv

\* Every step keeps the invariant and the full pages.
LEMMA NextPages ==
    ASSUME ~Shrinking, PagesInv, [Next]_vars
    PROVE  PagesInv' /\ \A p \in Arrays : FullKept(p)
<1>1. ASSUME NEW b \in Buffers, Flush(b) PROVE PagesInv' /\ \A p \in Arrays : FullKept(p)
  BY <1>1, FlushStep
<1>2. ASSUME NEW b \in Buffers, NEW v \in Values, BufferPushBack(b, v)
      PROVE  PagesInv' /\ \A p \in Arrays : FullKept(p)
  BY <1>2, BufferPushBackStep
<1>3. ASSUME NEW p \in Arrays, NEW v \in Values, PushBackUnsafe(p, v)
      PROVE  PagesInv' /\ \A q \in Arrays : FullKept(q)
  BY <1>3, PushBackUnsafeStep
<1>4. ASSUME NEW p \in Arrays, NEW size \in 0 .. MaxSize, Resize(p, size)
      PROVE  PagesInv' /\ \A q \in Arrays : FullKept(q)
  BY <1>4, ResizeStep
<1>5. ASSUME NEW p \in Arrays, ShrinkToFit(p) PROVE PagesInv' /\ \A q \in Arrays : FullKept(q)
  BY <1>5, ShrinkToFitStep
<1>6. ASSUME NEW p \in Arrays, Clear(p) PROVE PagesInv' /\ \A q \in Arrays : FullKept(q)
  BY <1>6, ClearStep
<1>7. ASSUME NEW p \in Arrays, NEW q \in Arrays, Merge(p, q)
      PROVE  PagesInv' /\ \A r \in Arrays : FullKept(r)
  BY <1>7, MergeStep
<1>8. ASSUME UNCHANGED vars PROVE PagesInv' /\ \A p \in Arrays : FullKept(p)
  <2>1. /\ mPageTable' = mPageTable /\ mSize' = mSize /\ held' = held /\ buffered' = buffered
    BY <1>8 DEF vars
  <2> QED
    BY <2>1 DEF PagesInv, FullKept
<1> QED
  BY <1>1, <1>2, <1>3, <1>4, <1>5, <1>6, <1>7, <1>8 DEF Next

-------------------------------------------------------------------------------
(* The theorems.                                                           *)

\* The invariant holds in every state.
LEMMA PagesInvHolds == ASSUME ~Shrinking PROVE Spec => []PagesInv
<1>1. PagesInv /\ [Next]_vars => PagesInv'
  BY NextPages
<1> QED
  BY <1>1, InitPages, PTL DEF Spec

\* PagesExact: every element is in its array as often as it was put there, and
\* no whole page is left over, whatever the order of flushes, pushes, resizes
\* and merges (PagedArray.h: add(), merge(), resize()), as long as no client
\* resizes so that whole pages are left over.
THEOREM PagesCorrect == ASSUME ~Shrinking PROVE Spec => []PagesExact
<1>1. PagesInv => PagesExact
  <2> SUFFICES ASSUME PagesInv PROVE PagesExact
    OBVIOUS
  <2>1. ASSUME NEW p \in Arrays, NEW v \in Values PROVE Count(Elements(p), v) = held[p][v]
    <3> DEFINE T == mPageTable[p]
               n == mSize[p]
    <3>1. T \in Seq(Entries) /\ n \in Nat /\ n <= Len(T) /\ CountTo(T, n, v) = held[p][v]
      BY HoldsFacts
    <3> HIDE DEF T, n
    <3>2. Count(SubSeq(T, 1, n), v) = CountTo(T, n, v)
      BY <3>1, ElementsCount
    <3> QED
      BY <3>1, <3>2 DEF Elements, T, n
  <2>2. \A p \in Arrays : Len(mPageTable[p]) - mSize[p] < PageSize
    BY HoldsFacts DEF Paged
  <2> QED
    BY <2>1, <2>2 DEF PagesExact, NothingLost, TightlyPaged
<1> QED
  BY <1>1, PagesInvHolds, PTL

\* FullPagesStay: the elements of full pages stay where they are when elements
\* are added or another array is merged, so that they can be read meanwhile
\* (PagedArray.h: add_full(), add_partially_full(), merge()).
THEOREM FullPagesCorrect == ASSUME ~Shrinking PROVE Spec => FullPagesStay
<1> DEFINE Stay == \A p \in Arrays :
                      LET full == (mSize[p] \div PageSize) * PageSize IN
                      mSize'[p] > mSize[p] =>
                         SubSeq(mPageTable'[p], 1, full) = SubSeq(mPageTable[p], 1, full)
<1>1. PagesInv /\ [Next]_vars => Stay
  <2> SUFFICES ASSUME PagesInv, [Next]_vars, NEW p \in Arrays, mSize'[p] > mSize[p]
               PROVE  LET full == (mSize[p] \div PageSize) * PageSize IN
                      SubSeq(mPageTable'[p], 1, full) = SubSeq(mPageTable[p], 1, full)
    OBVIOUS
  <2> DEFINE T == mPageTable[p]
             U == mPageTable'[p]
             n == mSize[p]
             full == (n \div PageSize) * PageSize
  <2>1. PagesInv' /\ FullKept(p)
    BY NextPages
  <2>2. Paged(T, n) /\ T \in Seq(Entries) /\ n \in Nat /\ n <= Len(T) /\ Len(T) \in Nat
        /\ n % PageSize \in 0 .. PageSize - 1
    BY HoldsFacts
  <2>3. full = n - (n % PageSize)
    <3> HIDE DEF T, n
    <3> QED
      BY <2>2, PagedFacts
  <2>4. Paged(U, mSize'[p])
    BY <2>1 DEF PagesInv, Holds
  <2>5. U \in Seq(Entries) /\ mSize'[p] \in Nat /\ mSize'[p] <= Len(U) /\ Len(U) \in Nat
    <3> HIDE DEF U
    <3> QED
      BY <2>4, PagedFacts
  <2>6. \A i \in 1 .. full : U[i] = T[i]
    BY <2>1, <2>3 DEF FullKept
  <2> HIDE DEF full
  <2>7. full \in Nat /\ full <= Len(T) /\ full <= Len(U)
    <3> HIDE DEF T, U
    <3>1. n % PageSize <= n
      <4>1. n % PageSize = 0 \/ (LastPage(T) \in Nat /\ LastPage(T) = n - (n % PageSize))
        <5> HIDE DEF n
        <5> QED
          BY <2>2, PagedFacts
      <4> HIDE DEF n
      <4> QED
        BY <2>2, PageSizeNat, <4>1
    <3>2. full \in Nat /\ full <= n
      BY <2>2, <2>3, <3>1, PageSizeNat
    <3>3. n <= mSize'[p]
      BY <2>2, <2>5
    <3> HIDE DEF n
    <3> QED
      BY <2>2, <2>5, <3>2, <3>3
  <2> HIDE DEF T, U
  <2>8. SubSeq(U, 1, full) = SubSeq(T, 1, full)
    BY <2>2, <2>5, <2>6, <2>7, SamePrefix
  <2> QED
    BY <2>8 DEF T, U, full
<1> QED
  BY <1>1, PagesInvHolds, PTL DEF Spec, FullPagesStay
===============================================================================
