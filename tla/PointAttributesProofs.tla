------------------------- MODULE PointAttributesProofs -------------------------
(***************************************************************************)
(* Proofs about PointAttributes, for any numbers of trees, leaves, points, *)
(* attributes, groups and bits: attribute sets stay in step with their     *)
(* descriptors, changes of a tree never show in its copies, and operations *)
(* on attributes and groups do what they say to the tree they change.      *)
(***************************************************************************)
EXTENDS PointAttributes, FiniteSetTheorems, FunctionTheorems, SequenceTheorems,
        WellFoundedInduction, TLAPS

-------------------------------------------------------------------------------
(* Numbers of a set.                                                       *)

\* A set of numbers that is not empty has a least one (UniqueName,
\* UnusedGroupOffset).
LEMMA LeastLemma ==
    ASSUME NEW S, S \subseteq Nat, S # {}
    PROVE  LeastOf(S) \in S /\ \A m \in S : LeastOf(S) <= m
<1>1. IsWellFoundedOn(OpToRel(<, Nat), Nat)
  BY NatLessThanWellFounded
<1>2. PICK n \in S : \A m \in S : ~ (<<m, n>> \in OpToRel(<, Nat))
  BY <1>1, WFMin
<1>3. \A m \in S : ~ (m < n)
  BY <1>2 DEF OpToRel
<1>4. \A m \in S : n <= m
  BY <1>3
<1> QED
  BY <1>4 DEF LeastOf

\* Quotient and remainder, as groupIndex() takes them.
LEMMA DivMod ==
    ASSUME NEW a \in Int, NEW n \in Nat \ {0}
    PROVE  /\ a \div n \in Int /\ a % n \in 0 .. n - 1
           /\ a = n * (a \div n) + (a % n)
  OBVIOUS

\* How many numbers of S are before p.
Rank(S, p) == Cardinality(Before(S, p))

\* Numbers have different ranks, which are all those below the size of the set.
LEMMA RankLemma ==
    ASSUME NEW S, S \subseteq Int, IsFiniteSet(S)
    PROVE  /\ \A p \in S : Rank(S, p) \in 0 .. Cardinality(S) - 1
           /\ \A p, q \in S : p < q => Rank(S, p) < Rank(S, q)
           /\ \A k \in 0 .. Cardinality(S) - 1 : \E p \in S : Rank(S, p) = k
<1> DEFINE n == Cardinality(S)
           f == [p \in S |-> Rank(S, p)]
<1>1. n \in Nat
  BY FS_CardinalityType
<1>2. ASSUME NEW p, p \in Int
      PROVE  IsFiniteSet(Before(S, p)) /\ Rank(S, p) \in Nat
  <2>1. Before(S, p) \in SUBSET S
    BY DEF Before
  <2> QED
    BY <2>1, FS_Subset, FS_CardinalityType DEF Rank
<1>3. ASSUME NEW p \in S, NEW q, q \in Int, p < q PROVE Rank(S, p) < Rank(S, q)
  <2>1. Before(S, p) \union {p} \in SUBSET Before(S, q) /\ p \notin Before(S, p)
    <3>1. \A r \in S : r \in Int
      OBVIOUS
    <3>2. \A r \in S : r < p => r < q
      BY <1>3, <3>1
    <3>3. ~ (p < p)
      BY <3>1
    <3>4. \A r : r \in Before(S, p) <=> r \in S /\ r < p
      BY DEF Before
    <3>5. \A r : r \in Before(S, q) <=> r \in S /\ r < q
      BY DEF Before
    <3> QED
      BY <1>3, <3>2, <3>3, <3>4, <3>5
  <2>2. Cardinality(Before(S, p) \union {p}) = Rank(S, p) + 1
    BY <1>2, <2>1, FS_AddElement DEF Rank
  <2>3. Cardinality(Before(S, p) \union {p}) <= Rank(S, q)
    BY <1>2, <1>3, <2>1, FS_Subset DEF Rank
  <2>4. Rank(S, p) \in Nat /\ Rank(S, q) \in Nat
    BY <1>2, <1>3
  <2> QED
    BY <2>2, <2>3, <2>4
<1>4. ASSUME NEW p \in S PROVE Rank(S, p) \in 0 .. n - 1
  <2>1. Before(S, p) \union {p} \in SUBSET S /\ p \notin Before(S, p)
    BY DEF Before
  <2>2. Cardinality(Before(S, p) \union {p}) = Rank(S, p) + 1
    BY <1>2, <2>1, FS_AddElement DEF Rank
  <2>3. Cardinality(Before(S, p) \union {p}) <= n
    BY <2>1, FS_Subset
  <2>4. Rank(S, p) \in Nat
    BY <1>2
  <2> QED
    BY <1>1, <2>2, <2>3, <2>4
<1> HIDE DEF n
<1>5. f \in [S -> 0 .. n - 1]
  BY <1>4
<1>6. \A p, q \in S : f[p] = f[q] => p = q
  <2>1. \A p \in S : Rank(S, p) \in Int
    BY <1>2
  <2> QED
    BY <1>3, <2>1
<1>7. IsFiniteSet(0 .. n - 1) /\ Cardinality(0 .. n - 1) = n
  BY <1>1, FS_Interval
<1>8. f \in Injection(S, 0 .. n - 1)
  BY <1>5, <1>6, Fun_IsInj
<1>9. f \in Surjection(S, 0 .. n - 1)
  <2> HIDE DEF f
  <2> QED
    BY <1>7, <1>8, FS_Injection DEF n
<1>10. \A k \in 0 .. n - 1 : \E p \in S : f[p] = k
  <2> HIDE DEF f
  <2> QED
    BY <1>9 DEF Surjection
<1> QED
  BY <1>3, <1>4, <1>10 DEF n

\* The number that Ranked() chooses is the only one of this rank.
LEMMA RankedLemma ==
    ASSUME NEW S, S \subseteq Int, IsFiniteSet(S)
    PROVE  /\ \A k \in 0 .. Cardinality(S) - 1 : Ranked(S, k) \in S /\ Rank(S, Ranked(S, k)) = k
           /\ \A p \in S : Ranked(S, Rank(S, p)) = p
           /\ \A p, q \in S : Rank(S, p) = Rank(S, q) => p = q
<1>1. \A k \in 0 .. Cardinality(S) - 1 : Ranked(S, k) \in S /\ Rank(S, Ranked(S, k)) = k
  <2> TAKE k \in 0 .. Cardinality(S) - 1
  <2>1. PICK p \in S : Rank(S, p) = k
    BY RankLemma
  <2> QED
    BY <2>1 DEF Ranked, Rank
<1>2. ASSUME NEW p \in S, NEW q \in S, Rank(S, p) = Rank(S, q) PROVE p = q
  <2>1. Rank(S, p) \in Int
    <3>1. Cardinality(S) \in Nat
      BY FS_CardinalityType
    <3>2. \A r \in S : Rank(S, r) \in 0 .. Cardinality(S) - 1
      BY RankLemma
    <3> QED
      BY <3>1, <3>2
  <2>2. \A r, s \in S : r < s => Rank(S, r) < Rank(S, s)
    BY RankLemma
  <2>3. ~ (p < q) /\ ~ (q < p)
    BY <1>2, <2>1, <2>2
  <2> QED
    BY <2>3
<1>3. \A p \in S : Rank(S, p) \in 0 .. Cardinality(S) - 1
  BY RankLemma
<1> QED
  BY <1>1, <1>2, <1>3

\* f maps the numbers of S to those of T and keeps their order.
InOrder(f, S, T) == /\ S \subseteq Int /\ IsFiniteSet(S) /\ T \subseteq Int /\ f \in [S -> T]
                    /\ \A p, q \in S : p < q => f[p] < f[q]
                    /\ \A r \in T : \E p \in S : f[p] = r

\* Such a map keeps ranks.
LEMMA OrderLemma ==
    ASSUME NEW f, NEW S, NEW T, InOrder(f, S, T)
    PROVE  /\ IsFiniteSet(T) /\ Cardinality(T) = Cardinality(S)
           /\ \A p \in S : Rank(T, f[p]) = Rank(S, p)
<1> USE DEF InOrder
<1>0. /\ \A p \in S : p \in Int /\ f[p] \in Int /\ f[p] \in T
      /\ \A r \in T : r \in Int
      /\ \A p, q \in S : p < q => f[p] < f[q]
  OBVIOUS
<1>1. ASSUME NEW p \in S, NEW q \in S PROVE (f[p] = f[q] => p = q) /\ (f[p] < f[q] => p < q)
  BY <1>0
<1>2. f \in Bijection(S, T)
  BY <1>1, Fun_IsBij
<1>3. IsFiniteSet(T) /\ Cardinality(T) = Cardinality(S)
  BY <1>2, FS_Bijection DEF ExistsBijection
<1>4. ASSUME NEW p \in S PROVE Rank(T, f[p]) = Rank(S, p)
  <2> DEFINE A == Before(S, p)
             B == Before(T, f[p])
             h == [q \in A |-> f[q]]
  <2>1. \A q : q \in A <=> q \in S /\ q < p
    BY DEF Before
  <2>2. \A r : r \in B <=> r \in T /\ r < f[p]
    BY DEF Before
  <2>3. A \in SUBSET S
    BY <2>1
  <2>4. IsFiniteSet(A)
    BY <2>3, FS_Subset
  <2> HIDE DEF A, B
  <2>5. h \in [A -> B]
    BY <1>0, <2>1, <2>2
  <2>6. \A q, r \in A : h[q] = h[r] => q = r
    BY <1>1, <2>1
  <2>7. ASSUME NEW r \in B PROVE \E q \in A : h[q] = r
    <3>1. PICK q \in S : f[q] = r
      BY <2>2
    <3>2. q \in A
      BY <1>1, <2>1, <2>2, <3>1
    <3> QED
      BY <3>1, <3>2
  <2> HIDE DEF h
  <2>8. h \in Bijection(A, B)
    BY <2>5, <2>6, <2>7, Fun_IsBij
  <2>9. Cardinality(B) = Cardinality(A)
    BY <2>4, <2>8, FS_Bijection DEF ExistsBijection
  <2> QED
    BY <2>9 DEF A, B, Rank
<1> QED
  BY <1>3, <1>4

\* Multiples of the bits of an array are ordered like their factors.
LEMMA Multiples ==
    ASSUME NEW a \in Int, NEW b \in Int, NEW n \in Nat \ {0}
    PROVE  /\ n * (a + b) = n * a + n * b /\ n * (a - b) = n * a - n * b
           /\ n * a < n * b => a < b
           /\ n * a \in Int
<1>1. n * (a + b) = n * a + n * b /\ n * (a - b) = n * a - n * b /\ n * a \in Int /\ n * b \in Int
  OBVIOUS
<1>2. ASSUME b <= a PROVE n * b <= n * a
  BY <1>2
<1> QED
  BY <1>1, <1>2

\* A number is a number of whole arrays and a bit in one way only.
LEMMA Offset ==
    ASSUME NEW q \in Int, NEW r \in 0 .. GroupBits - 1
    PROVE  /\ (GroupBits * q + r) \div GroupBits = q
           /\ (GroupBits * q + r) % GroupBits = r
<1> DEFINE o == GroupBits * q + r
           d == o \div GroupBits
           b == o % GroupBits
<1>0. GroupBits \in Nat \ {0} /\ GroupBits * q \in Int /\ o \in Int
  <2>1. GroupBits \in Nat \ {0}
    BY AttributesAssumption
  <2>2. GroupBits * q \in Int
    BY <2>1, Multiples
  <2> QED
    BY <2>1, <2>2
<1>1. d \in Int /\ b \in 0 .. GroupBits - 1 /\ o = GroupBits * d + b
  <2> HIDE DEF o
  <2> QED
    BY <1>0, DivMod
<1> HIDE DEF d, b
<1>2. GroupBits * d + b = GroupBits * q + r /\ GroupBits * d \in Int
  BY <1>0, <1>1, Multiples
<1>3. GroupBits * d < GroupBits * (q + 1) /\ GroupBits * q < GroupBits * (d + 1)
  <2>1. GroupBits * (q + 1) = GroupBits * q + GroupBits * 1
    BY <1>0, Multiples
  <2>2. GroupBits * (d + 1) = GroupBits * d + GroupBits * 1
    BY <1>0, <1>1, Multiples
  <2>3. GroupBits * 1 = GroupBits
    BY <1>0
  <2> QED
    BY <1>0, <1>1, <1>2, <2>1, <2>2, <2>3
<1>4. d < q + 1 /\ q < d + 1
  BY <1>0, <1>1, <1>3, Multiples
<1>5. d = q
  BY <1>1, <1>4
<1>6. b = r
  BY <1>0, <1>1, <1>2, <1>5
<1> QED
  BY <1>5, <1>6 DEF d, b

\* Functions on the first natural numbers are sequences.
LEMMA FunctionIsSeq ==
    ASSUME NEW n \in Nat, NEW S, NEW f \in [1 .. n -> S]
    PROVE  f \in Seq(S) /\ Len(f) = n
  BY SeqDef

-------------------------------------------------------------------------------
(* Descriptors.                                                            *)

IsDescriptor(D) ==
    /\ D = [names |-> D.names, groups |-> D.groups]
    /\ D.names \in Seq(Names)
    /\ D.groups \in [DOMAIN D.groups -> Nat] /\ DOMAIN D.groups \subseteq Groups

Good(D) == IsDescriptor(D) /\ WellFormed(D)

\* The bits of all group arrays.
Bits(D) == 0 .. GroupBits * Cardinality(GroupPositions(D)) - 1

\* What Good says, in the form that the proofs below use.
LEMMA GoodFacts ==
    ASSUME NEW D, Good(D)
    PROVE  /\ D.names \in Seq(Names) /\ Len(D.names) \in Nat /\ DOMAIN D.names = 1 .. Len(D.names)
           /\ \A i \in 1 .. Len(D.names) : D.names[i] \in Names
           /\ \A i, j \in 1 .. Len(D.names) : D.names[i] = D.names[j] => i = j
           /\ \A i : i \in GroupPositions(D)
                       <=> i \in 1 .. Len(D.names) /\ D.names[i] \in GroupNames
           /\ GroupPositions(D) \subseteq Int /\ IsFiniteSet(GroupPositions(D))
           /\ Cardinality(GroupPositions(D)) \in Nat
           /\ \A g \in DOMAIN D.groups : D.groups[g] \in Bits(D)
           /\ \A g, h \in DOMAIN D.groups : D.groups[g] = D.groups[h] => g = h
           /\ IsFiniteSet(DOMAIN D.groups)
<1>1. /\ D.names \in Seq(Names) /\ Len(D.names) \in Nat /\ DOMAIN D.names = 1 .. Len(D.names)
      /\ \A i \in 1 .. Len(D.names) : D.names[i] \in Names
  BY LenProperties, ElementOfSeq DEF Good, IsDescriptor
<1>2. \A i, j \in 1 .. Len(D.names) : D.names[i] = D.names[j] => i = j
  BY <1>1 DEF Good, WellFormed, IsInjective
<1>3. \A i : i \in GroupPositions(D)
               <=> i \in 1 .. Len(D.names) /\ D.names[i] \in GroupNames
  BY <1>1 DEF GroupPositions
<1>4. GroupPositions(D) \in SUBSET (1 .. Len(D.names)) /\ IsFiniteSet(1 .. Len(D.names))
  BY <1>1, <1>3, FS_Interval
<1>5. IsFiniteSet(GroupPositions(D)) /\ Cardinality(GroupPositions(D)) \in Nat
  BY <1>4, FS_Subset, FS_CardinalityType
<1>6. GroupPositions(D) \subseteq Int
  BY <1>1, <1>3
<1>7. /\ \A g \in DOMAIN D.groups : D.groups[g] \in Bits(D)
      /\ \A g, h \in DOMAIN D.groups : D.groups[g] = D.groups[h] => g = h
  BY DEF Good, WellFormed, Offsets, Bits, IsInjective
<1>8. IsFiniteSet(DOMAIN D.groups)
  BY AttributesAssumption, FS_Subset DEF Good, IsDescriptor
<1> QED
  BY <1>1, <1>2, <1>3, <1>5, <1>6, <1>7, <1>8

\* What shows that a descriptor is good.
LEMMA GoodIf ==
    ASSUME NEW names \in Seq(Names), NEW groups, groups \in [DOMAIN groups -> Nat],
           DOMAIN groups \subseteq Groups,
           \A i, j \in 1 .. Len(names) : names[i] = names[j] => i = j,
           \A g, h \in DOMAIN groups : groups[g] = groups[h] => g = h,
           \A g \in DOMAIN groups :
              groups[g] \in Bits([names |-> names, groups |-> groups])
    PROVE  Good([names |-> names, groups |-> groups])
<1> DEFINE D == [names |-> names, groups |-> groups]
<1>1. D.names = names /\ D.groups = groups /\ DOMAIN names = 1 .. Len(names)
  BY LenProperties
<1>2. D = [names |-> D.names, groups |-> D.groups]
  BY <1>1
<1> HIDE DEF D
<1>3. IsDescriptor(D)
  BY <1>1, <1>2 DEF IsDescriptor
<1>4. IsInjective(D.names) /\ IsInjective(D.groups)
  BY <1>1 DEF IsInjective
<1>5. Offsets(D) \subseteq Bits(D)
  BY <1>1 DEF Offsets, D
<1> QED
  BY <1>3, <1>4, <1>5 DEF Good, WellFormed, Bits, D

\* Find() inverts a descriptor's positions, because names differ.
LEMMA FindLemma ==
    ASSUME NEW D, Good(D), NEW pos \in 1 .. Len(D.names)
    PROVE  Find(D, D.names[pos]) = pos
  BY GoodFacts DEF Find

\* groupIndex(): every bit has its array.
LEMMA ArrayLemma ==
    ASSUME NEW D, Good(D), NEW offset \in Bits(D)
    PROVE  /\ offset \in Nat /\ Bit(offset) \in 0 .. GroupBits - 1
           /\ GroupArray(D, offset) \in GroupPositions(D)
           /\ Rank(GroupPositions(D), GroupArray(D, offset)) = offset \div GroupBits
           /\ offset = GroupBits * (offset \div GroupBits) + Bit(offset)
           /\ offset \div GroupBits \in 0 .. Cardinality(GroupPositions(D)) - 1
<1> DEFINE S == GroupPositions(D)
           n == Cardinality(S)
           q == offset \div GroupBits
           b == offset % GroupBits
<1>1. S \subseteq Int /\ IsFiniteSet(S) /\ n \in Nat
  BY GoodFacts
<1>2. GroupBits \in Nat \ {0}
  BY AttributesAssumption
<1>3. GroupBits * n \in Int
  <2> HIDE DEF n
  <2> QED
    BY <1>1, <1>2, Multiples
<1>4. offset \in Nat /\ offset < GroupBits * n
  <2> HIDE DEF n
  <2>1. offset \in 0 .. GroupBits * n - 1
    BY DEF n, Bits
  <2> QED
    BY <1>3, <2>1
<1>5. q \in Int /\ b \in 0 .. GroupBits - 1 /\ offset = GroupBits * q + b
  <2>1. offset \in Int
    BY <1>4
  <2> QED
    BY <1>2, <2>1, DivMod
<1> HIDE DEF S, n, q, b
<1>6. GroupBits * q < GroupBits * n
  <2>1. GroupBits * q \in Int
    BY <1>2, <1>5, Multiples
  <2> QED
    BY <1>2, <1>3, <1>4, <1>5, <2>1
<1>7. q < n
  BY <1>1, <1>2, <1>5, <1>6, Multiples
<1>8. q >= 0
  <2>1. GroupBits * 0 < GroupBits * (q + 1)
    <3>1. GroupBits * (q + 1) = GroupBits * q + GroupBits * 1 /\ GroupBits * q \in Int
      BY <1>2, <1>5, Multiples
    <3>2. GroupBits * 1 = GroupBits /\ GroupBits * 0 = 0
      BY <1>2
    <3> QED
      BY <1>2, <1>4, <1>5, <3>1, <3>2
  <2>2. 0 < q + 1
    BY <1>2, <1>5, <2>1, Multiples
  <2> QED
    BY <1>5, <2>2
<1>9. q \in 0 .. n - 1
  BY <1>1, <1>5, <1>7, <1>8
<1>10. Ranked(S, q) \in S /\ Rank(S, Ranked(S, q)) = q
  BY <1>1, <1>9, RankedLemma DEF n
<1>11. GroupArray(D, offset) = Ranked(S, q) /\ Bit(offset) = b
  BY DEF GroupArray, S, q, Bit, b
<1> QED
  BY <1>4, <1>5, <1>9, <1>10, <1>11 DEF S, q, b, n

\* The bit of a rank and its array.
LEMMA OffsetOf ==
    ASSUME NEW D, Good(D), NEW pos \in GroupPositions(D), NEW b \in 0 .. GroupBits - 1
    PROVE  LET offset == GroupBits * Rank(GroupPositions(D), pos) + b IN
           /\ offset \in Bits(D)
           /\ GroupArray(D, offset) = pos /\ Bit(offset) = b
<1> DEFINE S == GroupPositions(D)
           n == Cardinality(S)
           q == Rank(S, pos)
           offset == GroupBits * q + b
<1>1. S \subseteq Int /\ IsFiniteSet(S) /\ n \in Nat /\ pos \in S
  BY GoodFacts
<1>2. GroupBits \in Nat \ {0}
  BY AttributesAssumption
<1> HIDE DEF S
<1>3. q \in 0 .. n - 1 /\ Ranked(S, q) = pos
  BY <1>1, RankLemma, RankedLemma
<1> HIDE DEF q, n
<1>4. offset \div GroupBits = q /\ offset % GroupBits = b
  BY <1>1, <1>3, Offset
<1>5. offset \in 0 .. GroupBits * n - 1
  <2>1. GroupBits * q \in Int /\ GroupBits * n \in Int
    BY <1>1, <1>2, <1>3, Multiples
  <2>2. GroupBits * q <= GroupBits * (n - 1) /\ GroupBits * 0 <= GroupBits * q
    BY <1>1, <1>2, <1>3
  <2>3. GroupBits * (n - 1) = GroupBits * n - GroupBits * 1
    BY <1>1, <1>2, Multiples
  <2>4. GroupBits * 1 = GroupBits /\ GroupBits * 0 = 0
    BY <1>2
  <2> QED
    BY <1>2, <2>1, <2>2, <2>3, <2>4
<1> HIDE DEF offset
<1> QED
  BY <1>3, <1>4, <1>5 DEF GroupArray, Bit, Bits, S, q, n, offset

\* E has the elements of seq that are not dropped, in their order.
ErasesTo(n, seq, drop, E) ==
    LET K == (1 .. n) \ drop IN
    /\ IsFiniteSet(K) /\ K \subseteq Int /\ Cardinality(K) \in Nat
    /\ E = [i \in 1 .. Cardinality(K) |-> seq[Ranked(K, i - 1)]]
    /\ \A i \in 1 .. Cardinality(K) : /\ Ranked(K, i - 1) \in K
                                      /\ Rank(K, Ranked(K, i - 1)) + 1 = i
                                      /\ E[i] = seq[Ranked(K, i - 1)]
    /\ \A p \in K : /\ Rank(K, p) + 1 \in 1 .. Cardinality(K)
                    /\ E[Rank(K, p) + 1] = seq[p]
    /\ \A p, q \in K : p < q => Rank(K, p) + 1 < Rank(K, q) + 1

\* eraseIndices() keeps what is not dropped, in its order.
LEMMA ErasedLemma ==
    ASSUME NEW n \in Nat, NEW seq, DOMAIN seq = 1 .. n, NEW drop
    PROVE  ErasesTo(n, seq, drop, Erased(seq, drop))
<1> DEFINE K == (1 .. n) \ drop
           k == Cardinality(K)
           E == Erased(seq, drop)
<1>1. K \in SUBSET (1 .. n) /\ IsFiniteSet(1 .. n)
  BY FS_Interval
<1>2. IsFiniteSet(K) /\ k \in Nat /\ K \subseteq Int
  BY <1>1, FS_Subset, FS_CardinalityType
<1>3. E = [i \in 1 .. k |-> seq[Ranked(K, i - 1)]]
  BY DEF Erased
<1> HIDE DEF K, E
<1>4. \A j \in 0 .. k - 1 : Ranked(K, j) \in K /\ Rank(K, Ranked(K, j)) = j
  BY <1>2, RankedLemma
<1> HIDE DEF k
<1>5. ASSUME NEW i \in 1 .. k
      PROVE  /\ Ranked(K, i - 1) \in K /\ Rank(K, Ranked(K, i - 1)) + 1 = i
             /\ E[i] = seq[Ranked(K, i - 1)]
  <2>1. i - 1 \in 0 .. k - 1 /\ (i - 1) + 1 = i
    BY <1>2
  <2>2. Ranked(K, i - 1) \in K /\ Rank(K, Ranked(K, i - 1)) = i - 1
    BY <1>4, <2>1
  <2> QED
    BY <1>3, <2>1, <2>2
<1>6. ASSUME NEW p \in K
      PROVE  /\ Rank(K, p) \in Int /\ Rank(K, p) + 1 \in 1 .. k
             /\ E[Rank(K, p) + 1] = seq[p]
  <2>1. Rank(K, p) \in 0 .. k - 1 /\ Ranked(K, Rank(K, p)) = p
    BY <1>2, RankLemma, RankedLemma DEF k
  <2>2. Rank(K, p) + 1 \in 1 .. k /\ (Rank(K, p) + 1) - 1 = Rank(K, p) /\ Rank(K, p) \in Int
    BY <1>2, <2>1
  <2> QED
    BY <1>3, <2>1, <2>2
<1>7. \A p, q \in K : p < q => Rank(K, p) < Rank(K, q)
  BY <1>2, RankLemma
<1>8. \A p, q \in K : p < q => Rank(K, p) + 1 < Rank(K, q) + 1
  BY <1>6, <1>7
<1> QED
  BY <1>2, <1>3, <1>5, <1>6, <1>8 DEF K, k, E, ErasesTo

\* The position of an attribute when others have been dropped.
PosAfter(D, drop, p) == Rank((1 .. Len(D.names)) \ drop, p) + 1

\* duplicateDrop() moves positions, and the bits of the groups with their arrays.
DropsTo(D, drop, E) ==
    LET K == (1 .. Len(D.names)) \ drop IN
    /\ Good(E) /\ Len(E.names) = Cardinality(K)
    /\ \A p \in K : PosAfter(D, drop, p) \in 1 .. Cardinality(K)
                    /\ E.names[PosAfter(D, drop, p)] = D.names[p]
    /\ \A i \in 1 .. Cardinality(K) : Ranked(K, i - 1) \in K
                                      /\ PosAfter(D, drop, Ranked(K, i - 1)) = i
    /\ DOMAIN E.groups = {g \in DOMAIN D.groups : GroupArray(D, D.groups[g]) \notin drop}
    /\ \A g \in DOMAIN E.groups :
          /\ GroupArray(E, E.groups[g]) = PosAfter(D, drop, GroupArray(D, D.groups[g]))
          /\ Bit(E.groups[g]) = Bit(D.groups[g])

\* duplicateDrop(): the groups of the arrays that stay keep their arrays and
\* bits, although positions and offsets change.
LEMMA DropLemma ==
    ASSUME NEW D, Good(D), NEW drop
    PROVE  DropsTo(D, drop, DuplicateDrop(D, drop))
<1> DEFINE n == Len(D.names)
           K == (1 .. n) \ drop
           k == Cardinality(K)
           e(p) == PosAfter(D, drop, p)
           array(g) == GroupArray(D, D.groups[g])
           N == Erased(D.names, drop)
           GP == GroupPositions(D)
           S == GP \ drop
           G == {g \in DOMAIN D.groups : array(g) \notin drop}
           E == DuplicateDrop(D, drop)
<1>1. /\ D.names \in Seq(Names) /\ n \in Nat /\ DOMAIN D.names = 1 .. n
      /\ \A i \in 1 .. n : D.names[i] \in Names
      /\ \A i, j \in 1 .. n : D.names[i] = D.names[j] => i = j
      /\ \A i : i \in GP <=> i \in 1 .. n /\ D.names[i] \in GroupNames
      /\ GP \subseteq Int /\ IsFiniteSet(GP)
      /\ \A g \in DOMAIN D.groups : D.groups[g] \in Bits(D)
      /\ \A g, h \in DOMAIN D.groups : D.groups[g] = D.groups[h] => g = h
  BY GoodFacts
<1>2. /\ IsFiniteSet(K) /\ K \subseteq Int /\ k \in Nat
      /\ N = [i \in 1 .. k |-> D.names[Ranked(K, i - 1)]]
      /\ \A i \in 1 .. k : /\ Ranked(K, i - 1) \in K /\ e(Ranked(K, i - 1)) = i
                           /\ N[i] = D.names[Ranked(K, i - 1)]
      /\ \A p \in K : /\ e(p) \in 1 .. k /\ N[e(p)] = D.names[p]
      /\ \A p, q \in K : p < q => e(p) < e(q)
  <2>1. ErasesTo(n, D.names, drop, N)
    BY <1>1, ErasedLemma
  <2> HIDE DEF N, n
  <2> QED
    BY <2>1 DEF ErasesTo, PosAfter, n
<1>3. E = [names |-> N, groups |-> [g \in G |->
                D.groups[g] - GroupBits * Cardinality(Before(GP \intersect drop, array(g)))]]
  BY DEF DuplicateDrop
<1>4. E.names = N /\ E.groups = [g \in G |->
                D.groups[g] - GroupBits * Cardinality(Before(GP \intersect drop, array(g)))]
  BY <1>3
<1>5. N \in Seq(Names) /\ Len(N) = k
  <2>1. \A i \in 1 .. k : D.names[Ranked(K, i - 1)] \in Names
    BY <1>1, <1>2
  <2>2. N \in [1 .. k -> Names]
    BY <1>2, <2>1
  <2> HIDE DEF N, k
  <2> QED
    BY <1>2, <2>2, FunctionIsSeq
<1>6. \A p \in K, q \in K : e(p) = e(q) => p = q
  <2> HIDE DEF e, K, k
  <2>1. \A p \in K : p \in Int /\ e(p) \in Int
    BY <1>2
  <2> TAKE p \in K, q \in K
  <2> HAVE e(p) = e(q)
  <2>2. p \in Int /\ q \in Int /\ e(p) \in Int
    BY <2>1
  <2>3. (p < q => e(p) < e(q)) /\ (q < p => e(q) < e(p))
    BY <1>2
  <2>4. ~ (p < q) /\ ~ (q < p)
    BY <2>2, <2>3
  <2> QED
    BY <2>2, <2>4
<1>7. \A i, j \in 1 .. Len(N) : N[i] = N[j] => i = j
  <2> TAKE i, j \in 1 .. Len(N)
  <2>1. N[i] = D.names[Ranked(K, i - 1)] /\ Ranked(K, i - 1) \in 1 .. n /\ e(Ranked(K, i - 1)) = i
    BY <1>2, <1>5
  <2>2. N[j] = D.names[Ranked(K, j - 1)] /\ Ranked(K, j - 1) \in 1 .. n /\ e(Ranked(K, j - 1)) = j
    BY <1>2, <1>5
  <2> QED
    BY <1>1, <2>1, <2>2
\* The group arrays that are kept have the ranks they have among themselves.
<1> DEFINE T == GroupPositions(E)
           f == [p \in S |-> e(p)]
<1>8. \A i : i \in T <=> i \in 1 .. k /\ N[i] \in GroupNames
  <2>1. DOMAIN N = 1 .. k
    BY <1>5, LenProperties
  <2> QED
    BY <1>4, <2>1 DEF GroupPositions
<1>9. \A p : p \in S <=> p \in K /\ D.names[p] \in GroupNames
  BY <1>1
<1>10. /\ S \subseteq Int /\ IsFiniteSet(S) /\ T \subseteq Int
  <2>1. S \in SUBSET GP /\ T \subseteq 1 .. k
    BY <1>8
  <2> QED
    BY <1>1, <1>2, <2>1, FS_Subset
<1> HIDE DEF E, N, T, S, K, k, e, n, GP
<1>11. f \in [S -> T]
  BY <1>2, <1>8, <1>9
<1>12. \A p, q \in S : p < q => f[p] < f[q]
  BY <1>2, <1>9
<1>13. ASSUME NEW r \in T PROVE \E p \in S : f[p] = r
  <2>1. Ranked(K, r - 1) \in K /\ e(Ranked(K, r - 1)) = r /\ N[r] = D.names[Ranked(K, r - 1)]
    BY <1>2, <1>8
  <2>2. Ranked(K, r - 1) \in S
    BY <1>8, <1>9, <2>1
  <2> QED
    BY <2>1, <2>2
<1>14. /\ Cardinality(T) = Cardinality(S) /\ IsFiniteSet(T)
       /\ \A p \in S : Rank(T, e(p)) = Rank(S, p)
  <2>1. /\ Cardinality(T) = Cardinality(S) /\ IsFiniteSet(T)
        /\ \A p \in S : Rank(T, f[p]) = Rank(S, p)
    <3>1. InOrder(f, S, T)
      BY <1>10, <1>11, <1>12, <1>13 DEF InOrder
    <3> QED
      BY ONLY <3>1, OrderLemma
  <2> QED
    BY <2>1
\* A kept array has the kept and the dropped ones before it.
<1>15. ASSUME NEW p \in S
       PROVE  /\ Rank(GP, p) = Rank(S, p) + Cardinality(Before(GP \intersect drop, p))
              /\ Rank(S, p) \in Int
              /\ Cardinality(Before(GP \intersect drop, p)) \in Nat
  <2>1. /\ Before(S, p) \in SUBSET GP /\ Before(GP \intersect drop, p) \in SUBSET GP
        /\ Before(S, p) \union Before(GP \intersect drop, p) = Before(GP, p)
        /\ Before(S, p) \intersect Before(GP \intersect drop, p) = {}
    BY DEF Before, S
  <2>2. /\ IsFiniteSet(Before(S, p)) /\ IsFiniteSet(Before(GP \intersect drop, p))
        /\ Cardinality(Before(S, p)) \in Nat /\ Cardinality(Before(GP \intersect drop, p)) \in Nat
    BY <1>1, <2>1, FS_Subset, FS_CardinalityType
  <2>3. Cardinality(Before(GP, p)) = Cardinality(Before(S, p))
           + Cardinality(Before(GP \intersect drop, p)) - Cardinality({})
    BY <2>1, <2>2, FS_Union
  <2>4. Cardinality({}) = 0
    BY FS_EmptySet
  <2>5. Rank(S, p) \in Int
    BY <2>2 DEF Rank
  <2> QED
    BY <2>2, <2>3, <2>4, <2>5 DEF Rank
\* The bit of a group stays the same in the array at its new position.
<1>16. ASSUME NEW g \in G
       PROVE  /\ array(g) \in S /\ Bit(D.groups[g]) \in 0 .. GroupBits - 1
              /\ D.groups[g] = GroupBits * Rank(GP, array(g)) + Bit(D.groups[g])
              /\ E.groups[g] = GroupBits * Rank(T, e(array(g))) + Bit(D.groups[g])
              /\ e(array(g)) \in T
  <2>1. g \in DOMAIN D.groups /\ D.groups[g] \in Bits(D) /\ array(g) \notin drop
    BY <1>1
  <2>2. /\ Bit(D.groups[g]) \in 0 .. GroupBits - 1 /\ array(g) \in GP
        /\ Rank(GP, array(g)) = D.groups[g] \div GroupBits
        /\ D.groups[g] = GroupBits * (D.groups[g] \div GroupBits) + Bit(D.groups[g])
    BY <2>1, ArrayLemma DEF GP
  <2>3. array(g) \in S
    BY <2>1, <2>2 DEF S
  <2> DEFINE a == array(g)
             b == Bit(D.groups[g])
             s == Rank(S, a)
             c == Cardinality(Before(GP \intersect drop, a))
  <2>4. E.groups[g] = D.groups[g] - GroupBits * c
    <3> HIDE DEF G
    <3> QED
      BY <1>4
  <2>5. D.groups[g] = GroupBits * (s + c) + b /\ s \in Int /\ c \in Int
    <3>1. Rank(GP, a) = s + c /\ s \in Int /\ c \in Nat
      BY <1>15, <2>3
    <3>2. D.groups[g] = GroupBits * Rank(GP, a) + b
      BY <2>2
    <3> QED
      BY <3>1, <3>2
  <2>6. GroupBits \in Nat \ {0}
    BY AttributesAssumption
  <2>7. GroupBits * (s + c) = GroupBits * s + GroupBits * c /\ GroupBits * s \in Int /\ GroupBits * c \in Int
    <3> HIDE DEF s, c
    <3> QED
      BY <2>5, <2>6, Multiples
  <2>8. E.groups[g] = GroupBits * s + b
    <3> HIDE DEF s, c, b
    <3>1. b \in Int
      BY <2>2, <2>6 DEF b
    <3> QED
      BY <2>4, <2>5, <2>7, <3>1
  <2>9. Rank(T, e(a)) = s
    BY <1>14, <2>3
  <2>10. e(a) \in T
    BY <1>11, <2>3
  <2> QED
    BY <2>2, <2>3, <2>8, <2>9, <2>10
<1> HIDE DEF f
<1>17. DOMAIN E.groups = G
  BY <1>4
<1>18. \A p \in T : Rank(T, p) \in 0 .. Cardinality(T) - 1
  BY <1>10, <1>14, RankLemma
<1>19. ASSUME NEW g \in G
       PROVE  E.groups[g] \in Bits(E) /\ E.groups[g] \in Nat
  <2> DEFINE q == Rank(T, e(array(g)))
             b == Bit(D.groups[g])
             m == Cardinality(T)
  <2>1. q \in 0 .. m - 1 /\ b \in 0 .. GroupBits - 1 /\ E.groups[g] = GroupBits * q + b /\ m \in Nat
    BY <1>14, <1>16, <1>18, FS_CardinalityType
  <2>2. GroupBits \in Nat \ {0}
    BY AttributesAssumption
  <2> HIDE DEF q, b, m
  <2>3. /\ GroupBits * q \in Int /\ GroupBits * m \in Int
        /\ GroupBits * q <= GroupBits * (m - 1) /\ GroupBits * 0 <= GroupBits * q
        /\ GroupBits * (m - 1) = GroupBits * m - GroupBits * 1
        /\ GroupBits * 1 = GroupBits /\ GroupBits * 0 = 0
    <3>1. GroupBits * q \in Int /\ GroupBits * m \in Int
          /\ GroupBits * (m - 1) = GroupBits * m - GroupBits * 1
      BY <2>1, <2>2, Multiples
    <3> QED
      BY <2>1, <2>2, <3>1
  <2>4. E.groups[g] \in 0 .. GroupBits * m - 1
    BY <2>1, <2>2, <2>3
  <2>5. Bits(E) = 0 .. GroupBits * m - 1
    BY DEF Bits, m, T
  <2> QED
    BY <2>3, <2>4, <2>5
<1>20. ASSUME NEW g \in G, NEW h \in G, E.groups[g] = E.groups[h] PROVE g = h
  <2> DEFINE q == Rank(T, e(array(g)))
             b == Bit(D.groups[g])
             r == Rank(T, e(array(h)))
             c == Bit(D.groups[h])
  <2>1. /\ q \in Int /\ b \in 0 .. GroupBits - 1 /\ E.groups[g] = GroupBits * q + b
        /\ r \in Int /\ c \in 0 .. GroupBits - 1 /\ E.groups[h] = GroupBits * r + c
    <3>1. Cardinality(T) \in Nat
      BY <1>14, FS_CardinalityType
    <3> QED
      BY <1>16, <1>18, <3>1
  <2>2. q = r /\ b = c
    <3> HIDE DEF q, b, r, c
    <3>1. (GroupBits * q + b) \div GroupBits = q /\ (GroupBits * q + b) % GroupBits = b
      BY <2>1, Offset
    <3>2. (GroupBits * r + c) \div GroupBits = r /\ (GroupBits * r + c) % GroupBits = c
      BY <2>1, Offset
    <3> QED
      BY <1>20, <2>1, <3>1, <3>2
  <2>3. e(array(g)) = e(array(h))
    <3>1. \A u, v \in T : Rank(T, u) = Rank(T, v) => u = v
      BY <1>10, <1>14, RankedLemma
    <3> QED
      BY <1>16, <2>2, <3>1
  <2>4. array(g) = array(h)
    BY <1>6, <1>9, <1>16, <2>3
  <2>5. D.groups[g] = D.groups[h]
    BY <1>16, <2>2, <2>4
  <2> QED
    BY <1>1, <2>5
<1>21. E = [names |-> E.names, groups |-> E.groups]
  BY <1>3
<1>22. Good(E)
  <2>1. E.names \in Seq(Names)
    BY <1>4, <1>5
  <2>2. E.groups \in [DOMAIN E.groups -> Nat]
    BY <1>4, <1>17, <1>19
  <2>3. DOMAIN E.groups \subseteq Groups
    BY <1>17 DEF Good, IsDescriptor
  <2>4. IsInjective(E.names)
    <3>1. DOMAIN N = 1 .. Len(N)
      BY <1>5, LenProperties
    <3> QED
      BY <1>4, <1>7, <3>1 DEF IsInjective
  <2>5. IsInjective(E.groups)
    BY <1>17, <1>20 DEF IsInjective
  <2>6. Offsets(E) \subseteq Bits(E)
    BY <1>17, <1>19 DEF Offsets
  <2> QED
    BY <1>21, <2>1, <2>2, <2>3, <2>4, <2>5, <2>6 DEF Good, IsDescriptor, WellFormed, Bits
<1>23. ASSUME NEW g \in G
       PROVE  /\ GroupArray(E, E.groups[g]) = e(array(g)) /\ Bit(E.groups[g]) = Bit(D.groups[g])
  BY <1>16, <1>22, OffsetOf DEF T
<1>24. Len(E.names) = k
  BY <1>4, <1>5
<1>25. \A p \in K : e(p) \in 1 .. k /\ E.names[e(p)] = D.names[p]
  BY <1>2, <1>4
<1>26. \A i \in 1 .. k : Ranked(K, i - 1) \in K /\ e(Ranked(K, i - 1)) = i
  BY <1>2
<1> QED
  BY <1>17, <1>22, <1>23, <1>24, <1>25, <1>26 DEF DropsTo, K, k, n, e, E

\* Positions and bits depend on the names alone.
LEMMA NamesOnly ==
    ASSUME NEW D, NEW E, E.names = D.names
    PROVE  /\ GroupPositions(E) = GroupPositions(D) /\ Bits(E) = Bits(D)
           /\ \A offset : GroupArray(E, offset) = GroupArray(D, offset)
           /\ \A name : Find(E, name) = Find(D, name)
<1>1. GroupPositions(E) = GroupPositions(D)
  BY DEF GroupPositions
<1> QED
  BY <1>1 DEF Bits, GroupArray, Find

\* setGroup() on a free bit leaves a good descriptor.
LEMMA WithGroupLemma ==
    ASSUME NEW D, Good(D), NEW g \in Groups, NEW offset \in Bits(D), offset \notin Offsets(D)
    PROVE  LET E == WithGroup(D, g, offset) IN
           /\ Good(E) /\ E.names = D.names
           /\ E.groups = With(D.groups, g, offset)
<1> DEFINE new == With(D.groups, g, offset)
           E == [names |-> D.names, groups |-> new]
<1>1. WithGroup(D, g, offset) = E
  BY DEF WithGroup, Good, IsDescriptor
<1>2. /\ D.names \in Seq(Names) /\ offset \in Nat
      /\ \A i, j \in 1 .. Len(D.names) : D.names[i] = D.names[j] => i = j
      /\ \A h \in DOMAIN D.groups : D.groups[h] \in Bits(D)
      /\ \A h, k \in DOMAIN D.groups : D.groups[h] = D.groups[k] => h = k
  BY GoodFacts, ArrayLemma
<1>3. /\ DOMAIN new = DOMAIN D.groups \union {g} /\ new[g] = offset
      /\ \A h \in DOMAIN D.groups : h # g => new[h] = D.groups[h]
  BY DEF With
<1>4. D.groups \in [DOMAIN D.groups -> Nat] /\ DOMAIN D.groups \subseteq Groups
  BY DEF Good, IsDescriptor
<1>5. \A h \in DOMAIN D.groups : D.groups[h] # offset
  BY DEF Offsets
<1>6. new \in [DOMAIN new -> Nat]
  <2>1. \A h \in DOMAIN new : new[h] \in Nat
    BY <1>2, <1>3, <1>4
  <2>2. new = [h \in DOMAIN new |-> new[h]]
    BY DEF With
  <2> HIDE DEF new
  <2> QED
    BY <2>1, <2>2
<1> HIDE DEF new
<1>7. E.names = D.names /\ E.groups = new
  OBVIOUS
<1>8. Bits(E) = Bits(D)
  BY <1>7, NamesOnly
<1>9. \A h \in DOMAIN new : new[h] \in Bits(E)
  BY <1>2, <1>3, <1>8
<1>10. \A h, k \in DOMAIN new : new[h] = new[k] => h = k
  BY <1>2, <1>3, <1>5
<1>11. Good(E)
  BY <1>2, <1>3, <1>4, <1>6, <1>9, <1>10, GoodIf
<1> QED
  BY <1>1, <1>7, <1>11 DEF new

\* dropGroup() leaves a good descriptor.
LEMMA WithoutGroupsLemma ==
    ASSUME NEW D, Good(D), NEW S
    PROVE  LET E == WithoutGroups(D, S) IN
           /\ Good(E) /\ E.names = D.names
           /\ E.groups = Without(D.groups, S)
<1> DEFINE new == Without(D.groups, S)
           E == [names |-> D.names, groups |-> new]
<1>1. WithoutGroups(D, S) = E
  BY DEF WithoutGroups, Good, IsDescriptor
<1>2. /\ D.names \in Seq(Names)
      /\ \A i, j \in 1 .. Len(D.names) : D.names[i] = D.names[j] => i = j
      /\ \A h \in DOMAIN D.groups : D.groups[h] \in Bits(D)
      /\ \A h, k \in DOMAIN D.groups : D.groups[h] = D.groups[k] => h = k
  BY GoodFacts
<1>3. /\ DOMAIN new = DOMAIN D.groups \ S
      /\ \A h \in DOMAIN new : new[h] = D.groups[h]
  BY DEF Without
<1>4. D.groups \in [DOMAIN D.groups -> Nat] /\ DOMAIN D.groups \subseteq Groups
  BY DEF Good, IsDescriptor
<1>5. new \in [DOMAIN new -> Nat]
  <2>1. \A h \in DOMAIN new : new[h] \in Nat
    BY <1>3, <1>4
  <2>2. new = [h \in DOMAIN new |-> new[h]]
    BY DEF Without
  <2> HIDE DEF new
  <2> QED
    BY <2>1, <2>2
<1> HIDE DEF new
<1>6. E.names = D.names /\ E.groups = new
  OBVIOUS
<1>7. Bits(E) = Bits(D)
  BY <1>6, NamesOnly
<1>8. Good(E)
  BY <1>2, <1>3, <1>4, <1>5, <1>7, GoodIf
<1> QED
  BY <1>1, <1>6, <1>8 DEF new

\* Group arrays that are at the same positions, and before them the same others,
\* have the same bits.
SameArrays(D, E) ==
    /\ Bits(D) \subseteq Bits(E)
    /\ \A offset \in Bits(D) : GroupArray(E, offset) = GroupArray(D, offset)

\* Offsets count the same arrays when new ones are behind all others.
LEMMA SameArraysLemma ==
    ASSUME NEW D, Good(D), NEW E, GroupPositions(D) \subseteq GroupPositions(E),
           GroupPositions(E) \subseteq Int, IsFiniteSet(GroupPositions(E)),
           \A p \in GroupPositions(E) \ GroupPositions(D), q \in GroupPositions(D) : q < p
    PROVE  SameArrays(D, E)
<1> DEFINE S == GroupPositions(D)
           T == GroupPositions(E)
<1>1. S \in SUBSET T /\ S \subseteq Int /\ IsFiniteSet(S)
  BY GoodFacts
<1>2. Cardinality(S) \in Nat /\ Cardinality(T) \in Nat /\ Cardinality(S) <= Cardinality(T)
  BY <1>1, FS_Subset, FS_CardinalityType
<1>3. \A p \in S : Before(T, p) = Before(S, p)
  <2> SUFFICES ASSUME NEW p \in S, NEW q \in T, q < p PROVE q \in S
    BY <1>1 DEF Before
  <2>1. p \in Int /\ q \in Int
    BY <1>1
  <2> QED
    BY <2>1
<1>4. Bits(D) \subseteq Bits(E)
  <2> DEFINE m == Cardinality(S)
             n == Cardinality(T)
  <2>1. GroupBits \in Nat \ {0} /\ m \in Nat /\ n \in Nat /\ m <= n
    BY <1>2, AttributesAssumption
  <2> HIDE DEF m, n
  <2>2. GroupBits * m <= GroupBits * n /\ GroupBits * m \in Int /\ GroupBits * n \in Int
    BY <2>1
  <2>3. 0 .. GroupBits * m - 1 \subseteq 0 .. GroupBits * n - 1
    BY <2>2
  <2> QED
    BY <2>3 DEF Bits, m, n
<1>5. ASSUME NEW offset \in Bits(D) PROVE GroupArray(E, offset) = GroupArray(D, offset)
  <2>1. GroupArray(D, offset) \in S /\ Rank(S, GroupArray(D, offset)) = offset \div GroupBits
    BY ArrayLemma
  <2> DEFINE a == GroupArray(D, offset)
  <2> HIDE DEF a
  <2>2. a \in T /\ Rank(T, a) = offset \div GroupBits
    BY <1>1, <1>3, <2>1 DEF a, Rank
  <2>3. Ranked(T, Rank(T, a)) = a
    BY <2>2, RankedLemma
  <2> QED
    BY <2>2, <2>3 DEF GroupArray, a
<1> QED
  BY <1>4, <1>5 DEF SameArrays

\* An attribute is appended: bits and arrays stay where they are.
WithName(D, name) == [D EXCEPT !.names = Append(@, name)]

AppendsTo(D, name, E) ==
    /\ Good(E) /\ E.groups = D.groups
    /\ Len(E.names) = Len(D.names) + 1
    /\ \A i \in 1 .. Len(D.names) : E.names[i] = D.names[i]
    /\ E.names[Len(D.names) + 1] = name
    /\ SameArrays(D, E)
    /\ GroupPositions(E) = IF name \in GroupNames THEN GroupPositions(D) \union {Len(D.names) + 1}
                           ELSE GroupPositions(D)

\* An appended name leaves every group its array and bit.
LEMMA AppendLemma ==
    ASSUME NEW D, Good(D), NEW name \in Names, name \notin ToSet(D.names)
    PROVE  AppendsTo(D, name, WithName(D, name))
<1> DEFINE n == Len(D.names)
           names == Append(D.names, name)
           E == [names |-> names, groups |-> D.groups]
<1>1. WithName(D, name) = E
  <2> HIDE DEF names
  <2>1. D = [names |-> D.names, groups |-> D.groups]
    BY DEF Good, IsDescriptor
  <2>2. [D EXCEPT !.names = names] = E
    BY <2>1
  <2> QED
    BY <2>2 DEF names, WithName
<1>2. /\ D.names \in Seq(Names) /\ n \in Nat /\ DOMAIN D.names = 1 .. n
      /\ \A i, j \in 1 .. n : D.names[i] = D.names[j] => i = j
      /\ \A i : i \in GroupPositions(D) <=> i \in 1 .. n /\ D.names[i] \in GroupNames
      /\ \A g \in DOMAIN D.groups : D.groups[g] \in Bits(D)
      /\ \A g, h \in DOMAIN D.groups : D.groups[g] = D.groups[h] => g = h
      /\ GroupPositions(D) \subseteq Int /\ IsFiniteSet(GroupPositions(D))
  BY GoodFacts
<1>3. /\ names \in Seq(Names) /\ Len(names) = n + 1
      /\ \A i \in 1 .. n : names[i] = D.names[i]
      /\ names[n + 1] = name
  BY <1>2, AppendProperties
<1>4. D.groups \in [DOMAIN D.groups -> Nat] /\ DOMAIN D.groups \subseteq Groups
  BY DEF Good, IsDescriptor
<1>5. \A i \in 1 .. n : D.names[i] # name
  BY <1>2 DEF ToSet
<1> HIDE DEF names, n
<1>6. E.names = names /\ E.groups = D.groups
  OBVIOUS
<1>7. \A i : i \in 1 .. n + 1 <=> i \in 1 .. n \/ i = n + 1
  BY <1>2
<1>8. \A i : i \in GroupPositions(E) <=> i \in 1 .. n + 1 /\ names[i] \in GroupNames
  <2>1. DOMAIN names = 1 .. n + 1
    BY <1>3, LenProperties
  <2> QED
    BY <2>1 DEF GroupPositions
<1>9. GroupPositions(E) = IF name \in GroupNames THEN GroupPositions(D) \union {n + 1}
                          ELSE GroupPositions(D)
  BY <1>2, <1>3, <1>7, <1>8
<1> HIDE DEF E
<1>10. SameArrays(D, E)
  <2>1. GroupPositions(D) \subseteq GroupPositions(E) /\ GroupPositions(E) \subseteq Int
    BY <1>2, <1>9
  <2>2. IsFiniteSet(GroupPositions(E))
    <3>1. IsFiniteSet(GroupPositions(D) \union {n + 1})
      BY <1>2, FS_AddElement
    <3> QED
      BY <1>2, <1>9, <3>1
  <2>3. \A p \in GroupPositions(E) \ GroupPositions(D), q \in GroupPositions(D) : q < p
    <3> TAKE p \in GroupPositions(E) \ GroupPositions(D), q \in GroupPositions(D)
    <3>1. p = n + 1
      BY <1>9
    <3>2. q \in 1 .. n
      BY <1>2
    <3> QED
      BY <1>2, <3>1, <3>2
  <2> QED
    BY <2>1, <2>2, <2>3, SameArraysLemma
<1>11. \A i, j \in 1 .. Len(names) : names[i] = names[j] => i = j
  BY <1>2, <1>3, <1>5, <1>7
<1>12. \A g \in DOMAIN D.groups : D.groups[g] \in Bits(E)
  BY <1>2, <1>10 DEF SameArrays
<1>13. Good(E)
  BY <1>2, <1>3, <1>4, <1>11, <1>12, GoodIf DEF E
<1> QED
  BY <1>1, <1>3, <1>6, <1>9, <1>10, <1>13 DEF AppendsTo, n

\* An attribute that is not a group array gets another such name.
WithRenamed(D, from, to) == [D EXCEPT !.names[Find(D, from)] = to]

RenamesTo(D, from, to, E) ==
    /\ Good(E) /\ E.groups = D.groups /\ Len(E.names) = Len(D.names)
    /\ \E pos \in 1 .. Len(D.names) :
          /\ D.names[pos] = from /\ E.names[pos] = to
          /\ \A i \in 1 .. Len(D.names) : i # pos => E.names[i] = D.names[i]
    /\ GroupPositions(E) = GroupPositions(D)
    /\ Bits(E) = Bits(D)
    /\ \A offset : GroupArray(E, offset) = GroupArray(D, offset)

\* A renamed attribute leaves every group its array and bit.
LEMMA RenameLemma ==
    ASSUME NEW D, Good(D), NEW from \in ToSet(D.names) \ GroupNames,
           NEW to \in Ordinary \ ToSet(D.names)
    PROVE  RenamesTo(D, from, to, WithRenamed(D, from, to))
<1> DEFINE n == Len(D.names)
<1>1. /\ D.names \in Seq(Names) /\ n \in Nat /\ DOMAIN D.names = 1 .. n
      /\ \A i, j \in 1 .. n : D.names[i] = D.names[j] => i = j
      /\ \A i : i \in GroupPositions(D) <=> i \in 1 .. n /\ D.names[i] \in GroupNames
      /\ \A g \in DOMAIN D.groups : D.groups[g] \in Bits(D)
      /\ \A g, h \in DOMAIN D.groups : D.groups[g] = D.groups[h] => g = h
  BY GoodFacts
<1>2. PICK pos \in 1 .. n : D.names[pos] = from
  BY <1>1 DEF ToSet
<1>3. Find(D, from) = pos
  BY <1>2, FindLemma
<1> DEFINE names == [D.names EXCEPT ![pos] = to]
           E == [names |-> names, groups |-> D.groups]
<1>4. to \in Names /\ to \notin GroupNames /\ \A i \in 1 .. n : D.names[i] # to
  BY <1>1 DEF ToSet, Ordinary
<1>5. /\ names \in Seq(Names) /\ Len(names) = n
      /\ \A i \in 1 .. n : names[i] = IF i = pos THEN to ELSE D.names[i]
  BY <1>1, <1>2, <1>4, ExceptSeq
<1> HIDE DEF names
<1>6. WithRenamed(D, from, to) = E
  <2>1. D = [names |-> D.names, groups |-> D.groups]
    BY DEF Good, IsDescriptor
  <2>2. [D EXCEPT !.names = names] = E
    BY <2>1
  <2>3. [D EXCEPT !.names[pos] = to] = [D EXCEPT !.names = names]
    BY <2>1 DEF names
  <2> QED
    BY <1>3, <2>2, <2>3 DEF WithRenamed
<1> HIDE DEF n
<1>7. E.names = names /\ E.groups = D.groups
  OBVIOUS
<1>8. GroupPositions(E) = GroupPositions(D)
  <2>1. DOMAIN names = 1 .. n
    BY <1>5, LenProperties
  <2>2. \A i : i \in GroupPositions(E) <=> i \in 1 .. n /\ names[i] \in GroupNames
    BY <1>7, <2>1 DEF GroupPositions
  <2> QED
    BY <1>1, <1>2, <1>4, <1>5, <2>2
<1> HIDE DEF E
<1>9. Bits(E) = Bits(D) /\ \A offset : GroupArray(E, offset) = GroupArray(D, offset)
  BY <1>8 DEF Bits, GroupArray
<1>10. \A i, j \in 1 .. Len(names) : names[i] = names[j] => i = j
  BY <1>1, <1>4, <1>5
<1>11. D.groups \in [DOMAIN D.groups -> Nat] /\ DOMAIN D.groups \subseteq Groups
  BY DEF Good, IsDescriptor
<1>12. Good(E)
  BY <1>1, <1>5, <1>9, <1>10, <1>11, GoodIf DEF E
<1>13. E.names[pos] = to /\ \A i \in 1 .. n : i # pos => E.names[i] = D.names[i]
  BY <1>2, <1>5, <1>7
<1> QED
  BY <1>2, <1>5, <1>6, <1>7, <1>8, <1>9, <1>12, <1>13 DEF n, RenamesTo

\* The attributes get another order, in which the group arrays keep theirs.
WithOrder(D, names) == [D EXCEPT !.names = names]

ReordersTo(D, names, E) ==
    /\ Good(E) /\ E.names = names /\ E.groups = D.groups /\ Len(names) = Len(D.names)
    /\ \A i \in 1 .. Len(D.names) : /\ Find(D, names[i]) \in 1 .. Len(D.names)
                                    /\ D.names[Find(D, names[i])] = names[i]
    /\ ToSet(names) = ToSet(D.names)
    /\ Bits(E) = Bits(D)
    /\ \A offset \in Bits(D) :
          /\ GroupArray(D, offset) = Find(D, names[GroupArray(E, offset)])
          /\ GroupArray(E, offset) \in 1 .. Len(D.names)

\* An order that keeps that of the group arrays leaves every group its array,
\* wherever it is, and its bit.
LEMMA ReorderLemma ==
    ASSUME NEW D, Good(D), NEW names \in Orders(D)
    PROVE  ReordersTo(D, names, WithOrder(D, names))
<1> DEFINE n == Len(D.names)
           A == ToSet(D.names)
           E == [names |-> names, groups |-> D.groups]
<1>1. /\ D.names \in Seq(Names) /\ n \in Nat /\ DOMAIN D.names = 1 .. n
      /\ \A i \in 1 .. n : D.names[i] \in Names
      /\ \A i, j \in 1 .. n : D.names[i] = D.names[j] => i = j
      /\ \A i : i \in GroupPositions(D) <=> i \in 1 .. n /\ D.names[i] \in GroupNames
      /\ \A g \in DOMAIN D.groups : D.groups[g] \in Bits(D)
      /\ \A g, h \in DOMAIN D.groups : D.groups[g] = D.groups[h] => g = h
      /\ GroupPositions(D) \subseteq Int /\ IsFiniteSet(GroupPositions(D))
  BY GoodFacts
<1>2. WithOrder(D, names) = E
  <2>1. D = [names |-> D.names, groups |-> D.groups]
    BY DEF Good, IsDescriptor
  <2> QED
    BY <2>1 DEF WithOrder
<1>3. D.groups \in [DOMAIN D.groups -> Nat] /\ DOMAIN D.groups \subseteq Groups
  BY DEF Good, IsDescriptor
<1>4. /\ \A a \in A : \E i \in 1 .. n : D.names[i] = a
      /\ \A i \in 1 .. n : D.names[i] \in A
      /\ A \subseteq Names
  BY <1>1 DEF ToSet
<1>5. IsFiniteSet(A) /\ Cardinality(A) = n
  <2> DEFINE f == [i \in 1 .. n |-> D.names[i]]
  <2>1. f \in [1 .. n -> A] /\ \A i, j \in 1 .. n : f[i] = f[j] => i = j
    BY <1>1, <1>4
  <2>2. \A a \in A : \E i \in 1 .. n : f[i] = a
    BY <1>4
  <2> HIDE DEF f, A
  <2>3. f \in Bijection(1 .. n, A)
    BY <2>1, <2>2, Fun_IsBij
  <2>4. IsFiniteSet(1 .. n) /\ Cardinality(1 .. n) = n
    <3> HIDE DEF n
    <3> QED
      BY <1>1, FS_Interval
  <2> QED
    BY <2>3, <2>4, FS_Bijection DEF ExistsBijection
<1>6. names \in [1 .. n -> A] /\ \A i, j \in 1 .. n : names[i] = names[j] => i = j
  BY <1>5 DEF Orders, SetToSeqs
<1>7. \A i, j \in 1 .. n : i < j /\ names[i] \in GroupNames /\ names[j] \in GroupNames
          => Find(D, names[i]) < Find(D, names[j])
  BY <1>6 DEF Orders
<1> HIDE DEF A, n
<1>8. \A a \in A : \E i \in 1 .. n : names[i] = a
  <2>1. names \in Injection(1 .. n, A)
    BY <1>6, Fun_IsInj
  <2>2. IsFiniteSet(1 .. n) /\ Cardinality(1 .. n) = n
    BY <1>1, FS_Interval
  <2>3. names \in Surjection(1 .. n, A)
    BY <1>5, <2>1, <2>2, FS_Injection
  <2> QED
    BY <2>3 DEF Surjection
<1>9. names \in Seq(Names) /\ Len(names) = n /\ DOMAIN names = 1 .. n
  <2>1. names \in [1 .. n -> Names]
    BY <1>4, <1>6
  <2> QED
    BY <1>1, <2>1, FunctionIsSeq
<1>10. ASSUME NEW i \in 1 .. n
       PROVE  Find(D, names[i]) \in 1 .. n /\ D.names[Find(D, names[i])] = names[i]
  <2>1. PICK j \in 1 .. n : D.names[j] = names[i]
    BY <1>4, <1>6
  <2> QED
    BY <2>1, FindLemma DEF n
<1>11. E.names = names /\ E.groups = D.groups
  OBVIOUS
\* Group arrays keep their ranks.
<1> DEFINE S == GroupPositions(E)
           T == GroupPositions(D)
           f == [i \in S |-> Find(D, names[i])]
<1>12. \A i : i \in S <=> i \in 1 .. n /\ names[i] \in GroupNames
  BY <1>9, <1>11 DEF GroupPositions
<1>13. InOrder(f, S, T)
  <2>1. S \subseteq Int /\ IsFiniteSet(S)
    <3> HIDE DEF S
    <3>1. IsFiniteSet(1 .. n)
      BY <1>1, FS_Interval
    <3>2. S \in SUBSET (1 .. n)
      BY <1>12
    <3>3. S \subseteq Int
      BY <1>1, <3>2
    <3> QED
      BY <3>1, <3>2, <3>3, FS_Subset
  <2> HIDE DEF S, T
  <2>2. f \in [S -> T]
    BY <1>1, <1>10, <1>12 DEF T
  <2>3. \A i, j \in S : i < j => f[i] < f[j]
    BY <1>7, <1>12
  <2>4. ASSUME NEW p \in T PROVE \E i \in S : f[i] = p
    <3>1. p \in 1 .. n /\ D.names[p] \in GroupNames
      BY <1>1 DEF T
    <3>2. PICK i \in 1 .. n : names[i] = D.names[p]
      BY <1>4, <1>8, <3>1
    <3>3. i \in S /\ Find(D, names[i]) = p
      BY <1>12, <3>1, <3>2, FindLemma DEF n
    <3> QED
      BY <3>3
  <2>5. T \subseteq Int
    BY <1>1 DEF T
  <2> QED
    BY <2>1, <2>2, <2>3, <2>4, <2>5 DEF InOrder
<1>14. /\ Cardinality(T) = Cardinality(S)
       /\ \A i \in S : Rank(T, f[i]) = Rank(S, i)
  <2> HIDE DEF f, S, T
  <2> QED
    BY <1>13, OrderLemma
<1>15. Bits(E) = Bits(D)
  BY <1>14 DEF Bits
<1>16. Good(E)
  BY <1>1, <1>3, <1>6, <1>9, <1>15, GoodIf
<1> HIDE DEF E
<1>17. ASSUME NEW offset \in Bits(D)
       PROVE  /\ GroupArray(D, offset) = Find(D, names[GroupArray(E, offset)])
              /\ GroupArray(E, offset) \in 1 .. n
  <2> DEFINE a == GroupArray(E, offset)
             d == GroupArray(D, offset)
  <2>1. a \in S /\ Rank(S, a) = offset \div GroupBits
    BY <1>15, <1>16, ArrayLemma
  <2>2. d \in T /\ Rank(T, d) = offset \div GroupBits
    BY ArrayLemma
  <2> HIDE DEF a, d, S, T
  <2>3. f[a] \in T /\ Rank(T, f[a]) = Rank(S, a)
    BY <1>13, <1>14, <2>1 DEF InOrder
  <2> HIDE DEF f
  <2>4. \A p, q \in T : Rank(T, p) = Rank(T, q) => p = q
    <3>1. T \subseteq Int /\ IsFiniteSet(T)
      BY <1>1 DEF T
    <3> QED
      BY <3>1, RankedLemma
  <2>5. f[a] = d
    BY <2>1, <2>2, <2>3, <2>4
  <2> QED
    BY <1>12, <2>1, <2>5 DEF f, a, d, S
<1>18. ToSet(names) = A
  <2>1. \A a : a \in ToSet(names) <=> \E i \in 1 .. n : names[i] = a
    BY <1>9 DEF ToSet
  <2>2. \A i \in 1 .. n : names[i] \in A
    BY <1>6
  <2>3. \A a : a \in ToSet(names) <=> a \in A
    BY <1>8, <2>1, <2>2
  <2> QED
    BY <2>3
<1> QED
  BY <1>2, <1>9, <1>10, <1>11, <1>15, <1>16, <1>17, <1>18 DEF n, A, ReordersTo

\* unusedGroupOffset(): a bit that no group has, of an array there is if one of
\* those is unused, and otherwise the first bit behind all.
LEMMA UnusedLemma ==
    ASSUME NEW D, Good(D)
    PROVE  LET target == UnusedGroupOffset(D)
               card == Cardinality(DOMAIN D.groups)
           IN  /\ target \in 0 .. card /\ target \notin Offsets(D)
               /\ \A o \in 0 .. card : o \notin Offsets(D) => target <= o
               /\ card \in Nat /\ Cardinality(Offsets(D)) = card /\ UnusedGroups(D) \in Nat
               /\ UnusedGroups(D) > 0 => target \in Bits(D)
               /\ ~ (UnusedGroups(D) > 0) => /\ Offsets(D) = Bits(D)
                                             /\ target = GroupBits * Cardinality(GroupPositions(D))
<1> DEFINE G == DOMAIN D.groups
           card == Cardinality(G)
           O == Offsets(D)
           n == Cardinality(GroupPositions(D))
           target == UnusedGroupOffset(D)
           f == [g \in G |-> D.groups[g]]
<1>1. /\ IsFiniteSet(G) /\ n \in Nat
      /\ \A g \in G : D.groups[g] \in Bits(D)
      /\ \A g, h \in G : D.groups[g] = D.groups[h] => g = h
  BY GoodFacts
<1>2. card \in Nat
  BY <1>1, FS_CardinalityType
<1>3. IsFiniteSet(O) /\ Cardinality(O) = card
  <2>1. f \in [G -> O] /\ (\A g, h \in G : f[g] = f[h] => g = h)
        /\ \A o \in O : \E g \in G : f[g] = o
    BY <1>1 DEF Offsets
  <2> HIDE DEF f, G, O
  <2>2. f \in Bijection(G, O)
    BY <2>1, Fun_IsBij
  <2> QED
    BY <1>1, <2>2, FS_Bijection DEF ExistsBijection
<1>4. GroupBits * n \in Nat /\ IsFiniteSet(Bits(D)) /\ Cardinality(Bits(D)) = GroupBits * n
  <2> HIDE DEF n
  <2>1. GroupBits * n \in Nat
    BY <1>1, AttributesAssumption
  <2>2. PICK m \in Nat : m = GroupBits * n
    BY <2>1
  <2>3. m - 1 \in Int /\ IsFiniteSet(0 .. m - 1) /\ Cardinality(0 .. m - 1) = m
    <3>1. PICK z \in Int : z = 0
      OBVIOUS
    <3>2. PICK k \in Int : k = m - 1
      OBVIOUS
    <3>3. IsFiniteSet(z .. k) /\ Cardinality(z .. k) = IF z > k THEN 0 ELSE k - z + 1
      BY FS_Interval
    <3> QED
      BY <2>2, <3>1, <3>2, <3>3
  <2> QED
    BY <2>2, <2>3 DEF Bits, n
<1>5. O \in SUBSET Bits(D)
  BY <1>1 DEF Offsets
<1>6. card <= GroupBits * n /\ (card = GroupBits * n => O = Bits(D))
  BY <1>3, <1>4, <1>5, FS_Subset
<1>7. UnusedGroups(D) = GroupBits * n - card
  BY DEF UnusedGroups
<1> DEFINE free == (0 .. card) \ O
<1>8. free # {} /\ free \subseteq Nat
  <2>1. IsFiniteSet(0 .. card) /\ Cardinality(0 .. card) = card + 1
    <3> HIDE DEF card
    <3> QED
      BY <1>2, FS_Interval
  <2>2. free = {} => 0 .. card \in SUBSET O
    OBVIOUS
  <2>3. 0 .. card \in SUBSET O => card + 1 <= card
    BY <1>3, <2>1, FS_Subset
  <2> HIDE DEF card
  <2> QED
    BY <1>2, <2>2, <2>3
<1>9. target = LeastOf(free)
  BY DEF UnusedGroupOffset
<1> HIDE DEF free, target
<1>10. target \in free /\ \A o \in free : target <= o
  BY <1>8, <1>9, LeastLemma
<1>11. target \in 0 .. card /\ target \notin O /\ \A o \in 0 .. card : o \notin O => target <= o
  BY <1>10 DEF free
<1> HIDE DEF card, n, O
<1>12. UnusedGroups(D) \in Nat
  BY <1>2, <1>4, <1>6, <1>7
<1>13. ASSUME UnusedGroups(D) > 0 PROVE target \in Bits(D)
  <2>1. target \in 0 .. GroupBits * n - 1
    BY <1>2, <1>4, <1>7, <1>11, <1>13
  <2> QED
    BY <2>1 DEF Bits, n
<1>14. ASSUME ~ (UnusedGroups(D) > 0) PROVE O = Bits(D) /\ target = GroupBits * n
  <2>1. card = GroupBits * n
    BY <1>2, <1>4, <1>6, <1>7, <1>14
  <2>2. O = Bits(D)
    BY <1>6, <2>1
  <2>3. O = 0 .. GroupBits * n - 1
    BY <2>2 DEF Bits, n
  <2>4. target = GroupBits * n
    BY <1>2, <1>4, <1>11, <2>1, <2>3
  <2> QED
    BY <2>2, <2>4
<1> QED
  BY <1>2, <1>3, <1>11, <1>12, <1>13, <1>14 DEF card, n, O, target

\* uniqueName() finds a name for the array of another group.
LEMMA UniqueNameLemma ==
    ASSUME NEW D, Good(D), NEW g \in Groups, g \notin DOMAIN D.groups, ~ (UnusedGroups(D) > 0)
    PROVE  UniqueName(D) \in GroupNames /\ UniqueName(D) \notin ToSet(D.names)
<1> DEFINE G == DOMAIN D.groups
           S == GroupPositions(D)
           used == {D.names[pos] : pos \in DOMAIN D.names}
           free == GroupNames \ used
           f == [pos \in S |-> D.names[pos]]
<1>1. /\ IsFiniteSet(S) /\ Cardinality(S) \in Nat /\ DOMAIN D.names = 1 .. Len(D.names)
      /\ \A i, j \in 1 .. Len(D.names) : D.names[i] = D.names[j] => i = j
      /\ \A i : i \in S <=> i \in 1 .. Len(D.names) /\ D.names[i] \in GroupNames
      /\ IsFiniteSet(G)
  BY GoodFacts
<1>2. GroupBits * Cardinality(S) = Cardinality(G) /\ Cardinality(G) \in Nat
  <2> DEFINE c == Cardinality(S)
             k == Cardinality(G)
  <2>1. k \in Nat /\ UnusedGroups(D) \in Nat /\ UnusedGroups(D) = GroupBits * c - k
    BY UnusedLemma DEF UnusedGroups
  <2>2. GroupBits * c \in Int
    <3> HIDE DEF c
    <3> QED
      BY <1>1, AttributesAssumption DEF c
  <2> HIDE DEF c, k
  <2> QED
    BY <2>1, <2>2 DEF c, k
<1>3. Cardinality(G) < Cardinality(Groups) /\ IsFiniteSet(Groups) /\ Cardinality(Groups) \in Nat
  <2>1. IsFiniteSet(Groups) /\ G \in SUBSET Groups
    BY AttributesAssumption DEF Good, IsDescriptor
  <2>2. G \union {g} \in SUBSET Groups
    BY <2>1
  <2>3. Cardinality(G \union {g}) = Cardinality(G) + 1
    BY <1>1, FS_AddElement
  <2>4. Cardinality(G \union {g}) <= Cardinality(Groups)
    BY <2>1, <2>2, FS_Subset
  <2>5. Cardinality(Groups) \in Nat
    BY <2>1, FS_CardinalityType
  <2> QED
    BY <1>2, <2>1, <2>3, <2>4, <2>5
<1>4. Cardinality(S) <= Cardinality(G)
  <2> DEFINE c == Cardinality(S)
  <2>1. c \in Nat /\ GroupBits \in Nat \ {0}
    BY <1>1, AttributesAssumption
  <2>2. c <= GroupBits * c
    <3> HIDE DEF c
    <3> QED
      BY <2>1
  <2> QED
    BY <1>2, <2>2
<1>5. /\ Cardinality(S) < Cardinality(GroupNames) /\ IsFiniteSet(GroupNames)
      /\ Cardinality(GroupNames) \in Nat /\ GroupNames \subseteq Nat
  <2>1. /\ IsFiniteSet(GroupNames) /\ Cardinality(Groups) <= Cardinality(GroupNames)
        /\ GroupNames \subseteq Nat
    BY AttributesAssumption
  <2>2. Cardinality(GroupNames) \in Nat
    BY <2>1, FS_CardinalityType
  <2> QED
    BY <1>1, <1>2, <1>3, <1>4, <2>1, <2>2
<1>6. free # {}
  <2> SUFFICES ASSUME free = {} PROVE FALSE
    OBVIOUS
  <2>1. \A name \in GroupNames : \E pos \in S : f[pos] = name
    BY <1>1
  <2>2. f \in [S -> GroupNames]
    BY <1>1
  <2> HIDE DEF f, S
  <2>3. f \in Surjection(S, GroupNames)
    BY <2>1, <2>2, Fun_IsSurj
  <2>4. Cardinality(GroupNames) <= Cardinality(S)
    BY <1>1, <2>3, FS_Surjection
  <2> QED
    BY <1>1, <1>5, <2>4
<1>7. UniqueName(D) = LeastOf(free) /\ free \subseteq Nat
  BY <1>5 DEF UniqueName
<1> HIDE DEF free
<1>8. UniqueName(D) \in free
  BY <1>6, <1>7, LeastLemma
<1> QED
  BY <1>8 DEF free, ToSet
-------------------------------------------------------------------------------
(* Worlds.  Everything that sets point to is there.                        *)

Sites == Trees \X Leaves

Sound(W) ==
    /\ W = [descriptors |-> W.descriptors, sets |-> W.sets, arrays |-> W.arrays]
    /\ IsFiniteSet(DOMAIN W.descriptors) /\ IsFiniteSet(DOMAIN W.arrays)
    /\ W.sets \in [Sites -> [mDescr : DOMAIN W.descriptors, mAttrs : Seq(DOMAIN W.arrays)]]
    /\ \A d \in DOMAIN W.descriptors : Good(W.descriptors[d])

\* Records with other fields.
LEMMA OtherPointees ==
    ASSUME NEW W, Sound(W), NEW d, NEW a
    PROVE  [W EXCEPT !.descriptors = d, !.arrays = a] = [descriptors |-> d, sets |-> W.sets, arrays |-> a]
<1>1. PICK x, y, z : W = [descriptors |-> x, sets |-> y, arrays |-> z]
  BY DEF Sound
<1>2. W.descriptors = x /\ W.sets = y /\ W.arrays = z
  BY <1>1
<1>3. PICK V : V = [W EXCEPT !.descriptors = d]
  OBVIOUS
<1>4. V = [descriptors |-> d, sets |-> y, arrays |-> z]
  BY <1>1, <1>3
<1>5. [V EXCEPT !.arrays = a] = [descriptors |-> d, sets |-> y, arrays |-> a]
  BY <1>4
<1>6. [descriptors |-> d, sets |-> y, arrays |-> a] = [descriptors |-> d, sets |-> W.sets, arrays |-> a]
  BY <1>2
<1> QED
  BY <1>3, <1>5, <1>6

\* Updates of a world, written out.
LEMMA OtherDescriptors ==
    ASSUME NEW W, Sound(W), NEW d, NEW s
    PROVE  [W EXCEPT !.descriptors = d, !.sets = s] = [descriptors |-> d, sets |-> s, arrays |-> W.arrays]
<1>1. PICK x, y, z : W = [descriptors |-> x, sets |-> y, arrays |-> z]
  BY DEF Sound
<1>2. W.descriptors = x /\ W.sets = y /\ W.arrays = z
  BY <1>1
<1>3. PICK V : V = [W EXCEPT !.descriptors = d]
  OBVIOUS
<1>4. V = [descriptors |-> d, sets |-> y, arrays |-> z]
  BY <1>1, <1>3
<1>5. [V EXCEPT !.sets = s] = [descriptors |-> d, sets |-> s, arrays |-> z]
  BY <1>4
<1>6. [descriptors |-> d, sets |-> s, arrays |-> z] = [descriptors |-> d, sets |-> s, arrays |-> W.arrays]
  BY <1>2
<1> QED
  BY <1>3, <1>5, <1>6

\* The same where descriptors stay.
LEMMA OtherArrays ==
    ASSUME NEW W, Sound(W), NEW s, NEW a
    PROVE  [W EXCEPT !.sets = s, !.arrays = a] = [descriptors |-> W.descriptors, sets |-> s, arrays |-> a]
<1>1. PICK x, y, z : W = [descriptors |-> x, sets |-> y, arrays |-> z]
  BY DEF Sound
<1>2. W.descriptors = x /\ W.sets = y /\ W.arrays = z
  BY <1>1
<1>3. PICK V : V = [W EXCEPT !.sets = s]
  OBVIOUS
<1>4. V = [descriptors |-> x, sets |-> s, arrays |-> z]
  BY <1>1, <1>3
<1>5. [V EXCEPT !.arrays = a] = [descriptors |-> x, sets |-> s, arrays |-> a]
  BY <1>4
<1>6. [descriptors |-> x, sets |-> s, arrays |-> a] = [descriptors |-> W.descriptors, sets |-> s, arrays |-> a]
  BY <1>2
<1> QED
  BY <1>3, <1>5, <1>6

\* The same where only sets change.
LEMMA OtherSets ==
    ASSUME NEW W, Sound(W), NEW s
    PROVE  [W EXCEPT !.sets = s] = [descriptors |-> W.descriptors, sets |-> s, arrays |-> W.arrays]
<1>1. W = [descriptors |-> W.descriptors, sets |-> W.sets, arrays |-> W.arrays]
  BY DEF Sound
<1> QED
  BY <1>1

\* What Sound says about one leaf of one tree.
LEMMA SoundFacts ==
    ASSUME NEW W, Sound(W), NEW s \in Sites
    PROVE  LET set == W.sets[s] IN
           /\ DOMAIN W.sets = Sites
           /\ set = [mDescr |-> set.mDescr, mAttrs |-> set.mAttrs]
           /\ set.mDescr \in DOMAIN W.descriptors /\ Good(W.descriptors[set.mDescr])
           /\ set.mAttrs \in Seq(DOMAIN W.arrays) /\ Len(set.mAttrs) \in Nat
           /\ DOMAIN set.mAttrs = 1 .. Len(set.mAttrs)
           /\ \A i \in 1 .. Len(set.mAttrs) : set.mAttrs[i] \in DOMAIN W.arrays
<1> DEFINE set == W.sets[s]
<1>1. DOMAIN W.sets = Sites
  BY DEF Sound
<1>2. set \in [mDescr : DOMAIN W.descriptors, mAttrs : Seq(DOMAIN W.arrays)]
  BY DEF Sound
<1> HIDE DEF set
<1>3. /\ set = [mDescr |-> set.mDescr, mAttrs |-> set.mAttrs]
      /\ set.mDescr \in DOMAIN W.descriptors /\ set.mAttrs \in Seq(DOMAIN W.arrays)
  BY <1>2
<1>4. Good(W.descriptors[set.mDescr])
  BY <1>3 DEF Sound
<1>5. /\ Len(set.mAttrs) \in Nat /\ DOMAIN set.mAttrs = 1 .. Len(set.mAttrs)
      /\ \A i \in 1 .. Len(set.mAttrs) : set.mAttrs[i] \in DOMAIN W.arrays
  BY <1>3, LenProperties, ElementOfSeq
<1> QED
  BY <1>1, <1>3, <1>4, <1>5 DEF set

\* When a world put together from its parts is sound.
LEMMA SoundIf ==
    ASSUME NEW descriptor, NEW set, NEW array,
           IsFiniteSet(DOMAIN descriptor), IsFiniteSet(DOMAIN array),
           set = [s \in Sites |-> set[s]],
           \A s \in Sites : /\ set[s] = [mDescr |-> set[s].mDescr, mAttrs |-> set[s].mAttrs]
                            /\ set[s].mDescr \in DOMAIN descriptor
                            /\ set[s].mAttrs \in Seq(DOMAIN array),
           \A d \in DOMAIN descriptor : Good(descriptor[d])
    PROVE  Sound([descriptors |-> descriptor, sets |-> set, arrays |-> array])
<1> DEFINE W == [descriptors |-> descriptor, sets |-> set, arrays |-> array]
<1>1. W.descriptors = descriptor /\ W.sets = set /\ W.arrays = array
  OBVIOUS
<1>2. \A s \in Sites : set[s] \in [mDescr : DOMAIN descriptor, mAttrs : Seq(DOMAIN array)]
  <2> TAKE s \in Sites
  <2>1. PICK m, a : m = set[s].mDescr /\ a = set[s].mAttrs
    OBVIOUS
  <2>2. [mDescr |-> m, mAttrs |-> a] \in [mDescr : DOMAIN descriptor, mAttrs : Seq(DOMAIN array)]
    BY <2>1
  <2> QED
    BY <2>1, <2>2
<1>3. set \in [Sites -> [mDescr : DOMAIN descriptor, mAttrs : Seq(DOMAIN array)]]
  BY <1>2
<1> HIDE DEF W
<1>4. W = [descriptors |-> W.descriptors, sets |-> W.sets, arrays |-> W.arrays]
  BY <1>1 DEF W
<1> QED
  BY <1>1, <1>3, <1>4 DEF Sound, W

\* What a set points to is in X what it is in W.
KeptAt(W, X, s) ==
    /\ X.sets[s] = W.sets[s]
    /\ X.descriptors[W.sets[s].mDescr] = W.descriptors[W.sets[s].mDescr]
    /\ \A i \in DOMAIN W.sets[s].mAttrs :
          X.arrays[W.sets[s].mAttrs[i]] = W.arrays[W.sets[s].mAttrs[i]]

Kept(W, X, t) == \A l \in Leaves : KeptAt(W, X, <<t, l>>)

\* The leaves of t share a descriptor, and each has an array at every position, which
\* holds c[l][pos].
Describes(W, t, D) ==
    \A l \in Leaves : /\ W.descriptors[W.sets[<<t, l>>].mDescr] = D
                      /\ \A m \in Leaves : W.sets[<<t, l>>].mDescr = W.sets[<<t, m>>].mDescr

Stores(W, t, n, c) ==
    \A l \in Leaves : /\ Len(W.sets[<<t, l>>].mAttrs) = n
                      /\ \A i \in 1 .. n : W.arrays[W.sets[<<t, l>>].mAttrs[i]] = c[l][i]

Shows(W, t, D, c) == Describes(W, t, D) /\ Stores(W, t, Len(D.names), c)

\* A tree that is kept has the same descriptor.
LEMMA KeptDescribes ==
    ASSUME NEW W, NEW X, NEW t, Kept(W, X, t), NEW D, Describes(W, t, D)
    PROVE  Describes(X, t, D)
  BY DEF Kept, KeptAt, Describes

\* A tree that is kept has the same content.
LEMMA KeptStores ==
    ASSUME NEW W, Sound(W), NEW X, NEW t \in Trees, Kept(W, X, t), NEW n, NEW c,
           Stores(W, t, n, c)
    PROVE  Stores(X, t, n, c)
<1> SUFFICES ASSUME NEW l \in Leaves
             PROVE  /\ Len(X.sets[<<t, l>>].mAttrs) = n
                    /\ \A i \in 1 .. n : X.arrays[X.sets[<<t, l>>].mAttrs[i]] = c[l][i]
  BY DEF Stores
<1>1. <<t, l>> \in Sites
  BY DEF Sites
<1>2. KeptAt(W, X, <<t, l>>)
  BY DEF Kept
<1>3. DOMAIN W.sets[<<t, l>>].mAttrs = 1 .. Len(W.sets[<<t, l>>].mAttrs)
  BY <1>1, SoundFacts
<1> QED
  BY <1>2, <1>3 DEF KeptAt, Stores

\* A tree that is kept shows the same.
LEMMA KeptShows ==
    ASSUME NEW W, Sound(W), NEW X, NEW t \in Trees, Kept(W, X, t), NEW D, NEW c,
           Shows(W, t, D, c)
    PROVE  Shows(X, t, D, c)
  BY KeptDescribes, KeptStores DEF Shows

\* Trees kept by two steps are kept by both together.
LEMMA KeptTwice ==
    ASSUME NEW W, NEW X, NEW Y, NEW t, Kept(W, X, t), Kept(X, Y, t)
    PROVE  Kept(W, Y, t)
<1> SUFFICES ASSUME NEW l \in Leaves PROVE KeptAt(W, Y, <<t, l>>)
  BY DEF Kept
<1>1. PICK s : s = <<t, l>>
  OBVIOUS
<1>2. KeptAt(W, X, s) /\ KeptAt(X, Y, s)
  BY <1>1 DEF Kept
<1>3. PICK set : set = W.sets[s]
  OBVIOUS
<1>4. /\ X.sets[s] = set /\ Y.sets[s] = set
      /\ Y.descriptors[set.mDescr] = W.descriptors[set.mDescr]
  BY <1>2, <1>3 DEF KeptAt
<1>5. \A i \in DOMAIN set.mAttrs : Y.arrays[set.mAttrs[i]] = W.arrays[set.mAttrs[i]]
  BY <1>2, <1>3 DEF KeptAt
<1> QED
  BY <1>1, <1>3, <1>4, <1>5 DEF KeptAt

\* Freeing what nobody points to leaves every leaf as it was.
LEMMA SettledLemma ==
    ASSUME NEW W, Sound(W)
    PROVE  /\ Sound(Settled(W)) /\ Settled(W).sets = W.sets
           /\ \A s \in Sites : KeptAt(W, Settled(W), s)
<1> DEFINE described == {W.sets[s].mDescr : s \in DOMAIN W.sets}
           stored == UNION {{W.sets[s].mAttrs[i] : i \in DOMAIN W.sets[s].mAttrs} :
                               s \in DOMAIN W.sets}
           descriptor == [d \in described |-> W.descriptors[d]]
           array == [a \in stored |-> W.arrays[a]]
           X == [descriptors |-> descriptor, sets |-> W.sets, arrays |-> array]
<1>1. Settled(W) = X
  <2> HIDE DEF described, stored, descriptor, array
  <2>2. [W EXCEPT !.descriptors = descriptor, !.arrays = array] = X
    BY OtherPointees
  <2> QED
    BY <2>2 DEF Settled, descriptor, array, described, stored
<1>2. /\ DOMAIN W.sets = Sites
      /\ \A s \in Sites :
            /\ W.sets[s] = [mDescr |-> W.sets[s].mDescr, mAttrs |-> W.sets[s].mAttrs]
            /\ W.sets[s].mDescr \in DOMAIN W.descriptors
            /\ W.sets[s].mAttrs \in Seq(DOMAIN W.arrays) /\ Len(W.sets[s].mAttrs) \in Nat
            /\ DOMAIN W.sets[s].mAttrs = 1 .. Len(W.sets[s].mAttrs)
            /\ \A i \in 1 .. Len(W.sets[s].mAttrs) : W.sets[s].mAttrs[i] \in DOMAIN W.arrays
  BY SoundFacts DEF Sound
<1>3. described \in SUBSET (DOMAIN W.descriptors) /\ stored \in SUBSET (DOMAIN W.arrays)
  <2>1. described \in SUBSET (DOMAIN W.descriptors)
    BY <1>2
  <2>2. ASSUME NEW a \in stored PROVE a \in DOMAIN W.arrays
    <3>1. PICK s \in Sites : a \in {W.sets[s].mAttrs[i] : i \in DOMAIN W.sets[s].mAttrs}
      BY <1>2
    <3>2. PICK i \in DOMAIN W.sets[s].mAttrs : a = W.sets[s].mAttrs[i]
      BY <3>1
    <3> QED
      BY <1>2, <3>2
  <2> QED
    BY <2>1, <2>2
<1>4. IsFiniteSet(described) /\ IsFiniteSet(stored)
  BY <1>3, FS_Subset DEF Sound
<1>5. \A s \in Sites : W.sets[s].mDescr \in described
                       /\ \A i \in DOMAIN W.sets[s].mAttrs : W.sets[s].mAttrs[i] \in stored
  BY <1>2
<1> HIDE DEF described, stored
<1>6. DOMAIN descriptor = described /\ DOMAIN array = stored
      /\ (\A d \in described : descriptor[d] = W.descriptors[d])
      /\ (\A a \in stored : array[a] = W.arrays[a])
  OBVIOUS
<1> HIDE DEF descriptor, array
<1>7. \A s \in Sites : W.sets[s].mAttrs \in Seq(stored)
  <2> TAKE s \in Sites
  <2>1. PICK a : a = W.sets[s].mAttrs
    OBVIOUS
  <2>2. a \in [1 .. Len(a) -> DOMAIN W.arrays] /\ Len(a) \in Nat
    BY <1>2, <2>1, LenProperties
  <2>3. \A i \in 1 .. Len(a) : a[i] \in stored
    BY <1>2, <1>5, <2>1
  <2>4. a \in [1 .. Len(a) -> stored]
    BY <2>2, <2>3
  <2> QED
    BY <2>1, <2>2, <2>4, FunctionIsSeq
<1>8. \A d \in DOMAIN descriptor : Good(descriptor[d])
  BY <1>3, <1>6 DEF Sound
<1>9. W.sets = [s \in Sites |-> W.sets[s]]
  BY DEF Sound
<1>10. Sound(X)
  BY <1>2, <1>4, <1>5, <1>6, <1>7, <1>8, <1>9, SoundIf
<1>11. \A s \in Sites : KeptAt(W, X, s)
  BY <1>2, <1>5, <1>6 DEF KeptAt
<1> QED
  BY <1>1, <1>10, <1>11

\* X has everything of W but what belongs to t.
Others(W, X, t) == \A u \in Trees \ {t} : Kept(W, X, u)

Becomes(W, X, t, D, c) == Sound(X) /\ Shows(X, t, D, c) /\ Others(W, X, t)

\* Two steps that leave all other trees alone do so together.
LEMMA OthersTwice ==
    ASSUME NEW W, NEW X, NEW Y, NEW t, Others(W, X, t), Others(X, Y, t)
    PROVE  Others(W, Y, t)
  BY KeptTwice DEF Others

\* Freeing what nobody points to keeps every tree.
LEMMA SettledKeeps ==
    ASSUME NEW W, Sound(W), NEW t \in Trees
    PROVE  Kept(W, Settled(W), t)
<1> SUFFICES ASSUME NEW l \in Leaves PROVE KeptAt(W, Settled(W), <<t, l>>)
  BY DEF Kept
<1>1. <<t, l>> \in Sites
  BY DEF Sites
<1> QED
  BY <1>1, SettledLemma

\* So it changes nothing about what a step made of the tree.
LEMMA SettledBecomes ==
    ASSUME NEW W, NEW X, Sound(X), NEW t \in Trees, NEW D, NEW c, Shows(X, t, D, c),
           Others(W, X, t)
    PROVE  Becomes(W, Settled(X), t, D, c)
<1>1. Sound(Settled(X))
  BY SettledLemma
<1>2. Shows(Settled(X), t, D, c)
  BY SettledKeeps, KeptShows
<1>3. Others(X, Settled(X), t)
  BY SettledKeeps DEF Others
<1> QED
  BY <1>1, <1>2, <1>3, OthersTwice DEF Becomes

\* Of more addresses than are in use, one is free.
LEMMA FreshLemma ==
    ASSUME NEW S, IsFiniteSet(S), NEW f, \A j, k \in Nat : f[j] = f[k] => j = k
    PROVE  LET n == LeastOf({k \in 0 .. Cardinality(S) : f[k] \notin S})
           IN  n \in Nat /\ f[n] \notin S
<1> DEFINE m == Cardinality(S)
           K == {k \in 0 .. m : f[k] \notin S}
           e == [k \in 0 .. m |-> f[k]]
<1>1. m \in Nat
  BY FS_CardinalityType
<1>2. IsFiniteSet(0 .. m) /\ Cardinality(0 .. m) = m + 1
  <2> HIDE DEF m
  <2> QED
    BY <1>1, FS_Interval
<1>3. K # {}
  <2> SUFFICES ASSUME K = {} PROVE FALSE
    OBVIOUS
  <2>1. e \in [0 .. m -> S]
    OBVIOUS
  <2>2. \A j, k \in 0 .. m : e[j] = e[k] => j = k
    <3> HIDE DEF m
    <3> QED
      BY <1>1
  <2> HIDE DEF e
  <2>3. e \in Injection(0 .. m, S)
    BY <2>1, <2>2, Fun_IsInj
  <2>4. m + 1 <= m
    BY <1>2, <2>3, FS_Injection
  <2> HIDE DEF m
  <2> QED
    BY <1>1, <2>4
<1>4. K \subseteq Nat
  OBVIOUS
<1> HIDE DEF K
<1>5. LeastOf(K) \in K
  BY <1>3, <1>4, LeastLemma
<1> QED
  BY <1>5 DEF K, m

\* Functions on trees read a descriptor that all leaves have.
LEMMA DescriptorLemma ==
    ASSUME NEW W, NEW t, NEW D, Describes(W, t, D)
    PROVE  Descriptor(W, t) = D /\ \A l \in Leaves : DescriptorOf(W, t, l) = D
<1>1. (CHOOSE l \in Leaves : TRUE) \in Leaves
  BY AttributesAssumption
<1> QED
  BY <1>1 DEF Descriptor, DescriptorOf, Describes

\* makeDescriptorUnique() gives t a descriptor of its own.
LEMMA DescribedLemma ==
    ASSUME NEW W, Sound(W), NEW t \in Trees, NEW D, Good(D), NEW c,
           Stores(W, t, Len(D.names), c)
    PROVE  Becomes(W, Described(W, t, D), t, D, c)
<1> DEFINE d0 == DOMAIN W.descriptors
           n == LeastOf({k \in 0 .. Cardinality(d0) : <<t, k>> \notin d0})
           at == <<t, n>>
           descriptor == [d \in d0 \union {<<t, n>>} |->
                            IF d = <<t, n>> THEN D ELSE W.descriptors[d]]
           set == [s \in DOMAIN W.sets |->
                     IF s[1] = t THEN [W.sets[s] EXCEPT !.mDescr = <<t, n>>] ELSE W.sets[s]]
           X == [descriptors |-> descriptor, sets |-> set, arrays |-> W.arrays]
<1>1. Described(W, t, D) = Settled(X)
  <2>1. Described(W, t, D) = Settled([W EXCEPT !.descriptors = descriptor, !.sets = set])
    BY DEF Described
  <2> HIDE DEF descriptor, set
  <2>2. [W EXCEPT !.descriptors = descriptor, !.sets = set] = X
    BY OtherDescriptors
  <2> QED
    BY <2>1, <2>2
<1>2. <<t, n>> \notin d0
  <2> DEFINE f == [k \in Nat |-> <<t, k>>]
  <2>1. \A j, k \in Nat : f[j] = f[k] => j = k
    OBVIOUS
  <2>2. {k \in 0 .. Cardinality(d0) : f[k] \notin d0} = {k \in 0 .. Cardinality(d0) : <<t, k>> \notin d0}
    OBVIOUS
  <2>3. IsFiniteSet(d0)
    BY DEF Sound
  <2>4. \A k \in Nat : f[k] = <<t, k>>
    OBVIOUS
  <2> HIDE DEF f, d0
  <2>5. n \in Nat /\ f[n] \notin d0
    BY <2>1, <2>2, <2>3, FreshLemma
  <2> HIDE DEF n
  <2> QED
    BY <2>4, <2>5
<1>3. PICK a : a = <<t, n>>
  OBVIOUS
<1>4. a \notin d0
  BY <1>2, <1>3
<1>5. /\ DOMAIN descriptor = d0 \union {a} /\ descriptor[a] = D
      /\ \A d \in d0 : descriptor[d] = W.descriptors[d]
  BY <1>3, <1>4
<1>6. DOMAIN W.sets = Sites
  BY DEF Sound
<1>7. ASSUME NEW u \in Trees, NEW l \in Leaves
      PROVE  /\ <<u, l>> \in Sites
             /\ u = t => set[<<u, l>>] = [mDescr |-> a, mAttrs |-> W.sets[<<u, l>>].mAttrs]
             /\ u # t => set[<<u, l>>] = W.sets[<<u, l>>]
  <2>1. <<u, l>> \in Sites /\ <<u, l>>[1] = u
    BY DEF Sites
  <2>2. W.sets[<<u, l>>] = [mDescr |-> W.sets[<<u, l>>].mDescr, mAttrs |-> W.sets[<<u, l>>].mAttrs]
    BY <2>1, SoundFacts
  <2>3. [W.sets[<<u, l>>] EXCEPT !.mDescr = a] = [mDescr |-> a, mAttrs |-> W.sets[<<u, l>>].mAttrs]
    BY <2>2
  <2> QED
    BY <1>3, <1>6, <2>1, <2>3
<1>8. set = [s \in Sites |-> set[s]]
  BY <1>6
<1> HIDE DEF descriptor, set
<1>9. Sound(X)
  <2>1. IsFiniteSet(DOMAIN descriptor) /\ IsFiniteSet(DOMAIN W.arrays)
    BY <1>5, FS_AddElement DEF Sound
  <2>2. \A d \in DOMAIN descriptor : Good(descriptor[d])
    BY <1>5 DEF Sound
  <2>3. ASSUME NEW s \in Sites
        PROVE  /\ set[s] = [mDescr |-> set[s].mDescr, mAttrs |-> set[s].mAttrs]
               /\ set[s].mDescr \in DOMAIN descriptor
               /\ set[s].mAttrs \in Seq(DOMAIN W.arrays)
    <3>1. PICK u \in Trees, l \in Leaves : s = <<u, l>>
      BY DEF Sites
    <3>2. /\ W.sets[s] = [mDescr |-> W.sets[s].mDescr, mAttrs |-> W.sets[s].mAttrs]
          /\ W.sets[s].mDescr \in d0 /\ W.sets[s].mAttrs \in Seq(DOMAIN W.arrays)
      BY SoundFacts
    <3>3. CASE u = t
      <4>1. PICK e : e = W.sets[s].mAttrs
        OBVIOUS
      <4>2. set[s] = [mDescr |-> a, mAttrs |-> e]
        BY <1>7, <3>1, <3>3, <4>1
      <4>3. set[s].mDescr = a /\ set[s].mAttrs = e
        BY <4>2
      <4> QED
        BY <1>5, <3>2, <4>1, <4>2, <4>3
    <3>4. CASE u # t
      BY <1>5, <1>7, <3>1, <3>2, <3>4
    <3> QED
      BY <3>3, <3>4
  <2> QED
    BY <1>8, <2>1, <2>2, <2>3, SoundIf
<1>10. Shows(X, t, D, c)
  <2>1. ASSUME NEW l \in Leaves
        PROVE  X.sets[<<t, l>>].mDescr = a /\ X.sets[<<t, l>>].mAttrs = W.sets[<<t, l>>].mAttrs
    <3>1. X.sets = set
      OBVIOUS
    <3>2. PICK e : e = W.sets[<<t, l>>].mAttrs
      OBVIOUS
    <3>3. set[<<t, l>>] = [mDescr |-> a, mAttrs |-> e]
      BY <1>7, <3>2
    <3> HIDE DEF X
    <3> QED
      BY <3>1, <3>2, <3>3
  <2>2. X.descriptors[a] = D /\ X.arrays = W.arrays
    BY <1>5
  <2> HIDE DEF X
  <2>3. Describes(X, t, D)
    BY <2>1, <2>2 DEF Describes
  <2>4. Stores(X, t, Len(D.names), c)
    BY <2>1, <2>2 DEF Stores
  <2> QED
    BY <2>3, <2>4 DEF Shows
<1>11. Others(W, X, t)
  <2> SUFFICES ASSUME NEW u \in Trees \ {t}, NEW l \in Leaves PROVE KeptAt(W, X, <<u, l>>)
    BY DEF Others, Kept
  <2>1. PICK s : s = <<u, l>>
    OBVIOUS
  <2>2. s \in Sites /\ X.sets[s] = W.sets[s]
    BY <1>7, <2>1
  <2>3. W.sets[s].mDescr \in d0
    BY <2>2, SoundFacts
  <2> QED
    BY <1>5, <2>1, <2>2, <2>3 DEF KeptAt
<1> QED
  BY <1>1, <1>9, <1>10, <1>11, SettledBecomes

\* Sequences over a set are sequences over larger sets.
LEMMA SeqSubset ==
    ASSUME NEW S, NEW T, S \subseteq T, NEW seq \in Seq(S)
    PROVE  seq \in Seq(T)
<1>1. Len(seq) \in Nat /\ seq \in [1 .. Len(seq) -> S]
  BY LenProperties
<1>2. seq \in [1 .. Len(seq) -> T]
  BY <1>1
<1> QED
  BY <1>1, <1>2, FunctionIsSeq

\* The range of a function on a finite set is finite.
LEMMA ImageFinite ==
    ASSUME NEW S, IsFiniteSet(S), NEW f, DOMAIN f = S, f = [x \in S |-> f[x]]
    PROVE  IsFiniteSet({f[x] : x \in S})
<1> DEFINE T == {f[x] : x \in S}
<1>1. f \in [S -> T] /\ \A y \in T : \E x \in S : f[x] = y
  OBVIOUS
<1> HIDE DEF T
<1>2. f \in Surjection(S, T)
  BY <1>1, Fun_IsSurj
<1>3. IsFiniteSet(T)
  BY <1>2, FS_Surjection
<1> QED
  BY <1>3 DEF T

\* New arrays have addresses that are not in use, and different leaves different ones.
LEMMA NewArrayLemma ==
    ASSUME NEW W, Sound(W), NEW t
    PROVE  /\ \A l : NewArray(W, t, l) \notin DOMAIN W.arrays
           /\ \A l, m : NewArray(W, t, l) = NewArray(W, t, m) => l = m
           /\ \A l : NewArray(W, t, l)[2] = l
<1> DEFINE S == DOMAIN W.arrays
           n(l) == LeastOf({k \in 0 .. Cardinality(S) : <<t, l, k>> \notin S})
<1>1. ASSUME NEW l PROVE <<t, l, n(l)>> \notin S
  <2> DEFINE f == [k \in Nat |-> <<t, l, k>>]
             o == n(l)
  <2>1. \A j, k \in Nat : f[j] = f[k] => j = k
    OBVIOUS
  <2>2. {k \in 0 .. Cardinality(S) : f[k] \notin S} = {k \in 0 .. Cardinality(S) : <<t, l, k>> \notin S}
    OBVIOUS
  <2>3. IsFiniteSet(S)
    BY DEF Sound
  <2>4. \A k \in Nat : f[k] = <<t, l, k>>
    OBVIOUS
  <2> HIDE DEF f, S
  <2>5. o \in Nat /\ f[o] \notin S
    BY <2>1, <2>2, <2>3, FreshLemma
  <2> HIDE DEF o
  <2>6. <<t, l, o>> \notin S
    BY <2>4, <2>5
  <2> QED
    BY <2>6 DEF o
<1>2. \A l : NewArray(W, t, l) = <<t, l, n(l)>>
  BY DEF NewArray
<1> HIDE DEF n
<1> QED
  BY <1>1, <1>2

\* content[l] in place of what was at a position.
Put(c, n, pos, content) ==
    [l \in Leaves |-> [i \in 1 .. n |-> IF i = pos THEN content[l] ELSE c[l][i]]]

\* Content with one position replaced.
LEMMA PutFacts ==
    ASSUME NEW c, NEW n, NEW pos, NEW content, NEW l \in Leaves, NEW i \in 1 .. n
    PROVE  Put(c, n, pos, content)[l][i] = IF i = pos THEN content[l] ELSE c[l][i]
  BY DEF Put

\* makeUnique(): the array that is written belongs to this leaf and position alone.
LEMMA WrittenLemma ==
    ASSUME NEW W, Sound(W), NEW t \in Trees, NEW D, NEW c, Shows(W, t, D, c),
           NEW pos \in 1 .. Len(D.names), NEW content
    PROVE  Becomes(W, Written(W, t, pos, content), t, D, Put(c, Len(D.names), pos, content))
<1> DEFINE old == DOMAIN W.arrays
           len == Len(D.names)
           to == [l \in Leaves |-> IF IsShared(W, t, l, pos) THEN NewArray(W, t, l)
                                   ELSE Attrs(W, t, l)[pos]]
           set == [s \in DOMAIN W.sets |->
                     IF s[1] = t THEN [W.sets[s] EXCEPT !.mAttrs[pos] = to[s[2]]]
                     ELSE W.sets[s]]
           array == [a \in old \union {to[l] : l \in Leaves} |->
                       IF \E l \in Leaves : to[l] = a
                       THEN content[CHOOSE l \in Leaves : to[l] = a]
                       ELSE W.arrays[a]]
           X == [descriptors |-> W.descriptors, sets |-> set, arrays |-> array]
<1>1. Written(W, t, pos, content) = Settled(X)
  <2>1. Written(W, t, pos, content) = Settled([W EXCEPT !.sets = set, !.arrays = array])
    BY DEF Written
  <2> HIDE DEF set, array
  <2>2. [W EXCEPT !.sets = set, !.arrays = array] = X
    BY OtherArrays
  <2> QED
    BY <2>1, <2>2
<1>2. ASSUME NEW l \in Leaves
      PROVE  /\ <<t, l>> \in Sites /\ Attrs(W, t, l) = W.sets[<<t, l>>].mAttrs
             /\ Len(W.sets[<<t, l>>].mAttrs) = len /\ pos \in DOMAIN W.sets[<<t, l>>].mAttrs
             /\ DOMAIN W.sets[<<t, l>>].mAttrs = 1 .. len
             /\ W.sets[<<t, l>>].mAttrs[pos] \in old
             /\ to[l] = IF IsShared(W, t, l, pos) THEN NewArray(W, t, l)
                        ELSE W.sets[<<t, l>>].mAttrs[pos]
  <2>1. <<t, l>> \in Sites
    BY DEF Sites
  <2>2. Len(W.sets[<<t, l>>].mAttrs) = len
    BY DEF Shows, Stores
  <2>3. Attrs(W, t, l) = W.sets[<<t, l>>].mAttrs
    BY DEF Attrs
  <2> QED
    BY <2>1, <2>2, <2>3, SoundFacts
<1>3. DOMAIN W.sets = Sites /\ DOMAIN to = Leaves /\ to = [l \in Leaves |-> to[l]]
  BY DEF Sound
<1> HIDE DEF to, len
<1>2a. \A l \in Leaves : NewArray(W, t, l) \notin old
  BY NewArrayLemma
<1>2b. \A l, m \in Leaves : NewArray(W, t, l) = NewArray(W, t, m) => l = m
  <2>1. \A l, m : NewArray(W, t, l) = NewArray(W, t, m) => l = m
    BY NewArrayLemma
  <2> QED
    BY <2>1
<1>2c. ASSUME NEW l \in Leaves
       PROVE  /\ IsShared(W, t, l, pos) => to[l] = NewArray(W, t, l)
              /\ ~ IsShared(W, t, l, pos) => to[l] = W.sets[<<t, l>>].mAttrs[pos]
  BY <1>2
\* Nothing but this position of the leaf points to what is written.
<1>4. ASSUME NEW l \in Leaves, NEW s \in Sites, NEW i \in DOMAIN W.sets[s].mAttrs,
             W.sets[s].mAttrs[i] = to[l]
      PROVE  s = <<t, l>> /\ i = pos
  <2>1. W.sets[s].mAttrs[i] \in old
    BY SoundFacts
  <2>2. ~ IsShared(W, t, l, pos)
    BY ONLY <1>4, <2>1, <1>2a, <1>2c
  <2>3. W.sets[s].mAttrs[i] = Attrs(W, t, l)[pos]
    BY <1>2, <1>4, <2>2
  <2>4. <<s, i>> = <<<<t, l>>, pos>>
    BY <1>3, <2>2, <2>3 DEF IsShared
  <2> QED
    BY <2>4
<1>5. ASSUME NEW l \in Leaves, NEW m \in Leaves, to[l] = to[m] PROVE l = m
  <2>1. CASE IsShared(W, t, l, pos) /\ IsShared(W, t, m, pos)
    BY <1>2b, <1>2c, <1>5, <2>1
  <2>2. CASE ~ IsShared(W, t, l, pos)
    <3>1. <<t, l>> = <<t, m>>
      <4>1. to[m] = W.sets[<<t, l>>].mAttrs[pos] /\ to[l] = to[m]
        BY <1>2c, <1>5, <2>2
      <4> QED
        BY <1>2, <1>4, <4>1
    <3> QED
      BY <3>1
  <2>3. CASE ~ IsShared(W, t, m, pos)
    <3>1. <<t, m>> = <<t, l>>
      <4>1. to[m] = W.sets[<<t, m>>].mAttrs[pos] /\ to[l] = to[m]
        BY <1>2c, <1>5, <2>3
      <4> QED
        BY <1>2, <1>4, <4>1
    <3> QED
      BY <3>1
  <2> QED
    BY <2>1, <2>2, <2>3
<1>6. /\ old \subseteq DOMAIN array
      /\ \A l \in Leaves : to[l] \in DOMAIN array /\ array[to[l]] = content[l]
      /\ \A a \in old : (\A l \in Leaves : to[l] # a) => array[a] = W.arrays[a]
  <2>1. old \subseteq DOMAIN array /\ \A l \in Leaves : to[l] \in DOMAIN array
    OBVIOUS
  <2>2. ASSUME NEW l \in Leaves PROVE array[to[l]] = content[l]
    <3>1. (CHOOSE m \in Leaves : to[m] = to[l]) = l
      BY <1>5
    <3> QED
      BY <3>1
  <2>3. ASSUME NEW a \in old, \A l \in Leaves : to[l] # a PROVE array[a] = W.arrays[a]
    BY <2>3
  <2> QED
    BY <2>1, <2>2, <2>3
<1>7. IsFiniteSet(DOMAIN array)
  <2>1. IsFiniteSet({to[l] : l \in Leaves})
    BY <1>3, AttributesAssumption, ImageFinite
  <2>2. IsFiniteSet(old)
    BY DEF Sound
  <2>3. DOMAIN array = old \union {to[l] : l \in Leaves}
    OBVIOUS
  <2> QED
    BY <2>1, <2>2, <2>3, FS_Union
<1> DEFINE attr(l) == [W.sets[<<t, l>>].mAttrs EXCEPT ![pos] = to[l]]
<1>8. ASSUME NEW l \in Leaves
      PROVE  /\ set[<<t, l>>] = [mDescr |-> W.sets[<<t, l>>].mDescr, mAttrs |-> attr(l)]
             /\ attr(l) \in Seq(DOMAIN array) /\ Len(attr(l)) = len
             /\ \A i \in 1 .. len : attr(l)[i] = IF i = pos THEN to[l]
                                                 ELSE W.sets[<<t, l>>].mAttrs[i]
  <2>1. PICK d, e : d = W.sets[<<t, l>>].mDescr /\ e = W.sets[<<t, l>>].mAttrs
    OBVIOUS
  <2>2. W.sets[<<t, l>>] = [mDescr |-> d, mAttrs |-> e]
    BY <1>2, <2>1, SoundFacts
  <2>3. [W.sets[<<t, l>>] EXCEPT !.mAttrs[pos] = to[l]]
          = [mDescr |-> d, mAttrs |-> [e EXCEPT ![pos] = to[l]]]
    BY <2>2
  <2>4. set[<<t, l>>] = [W.sets[<<t, l>>] EXCEPT !.mAttrs[pos] = to[l]]
    BY <1>2, <1>3
  <2>5. e \in Seq(old)
    BY <1>2, <2>1, SoundFacts
  <2>6. e \in Seq(DOMAIN array)
    BY <1>6, <2>5, SeqSubset
  <2>7. pos \in 1 .. Len(e) /\ Len(e) = len
    BY <1>2, <2>1
  <2>8. to[l] \in DOMAIN array
    BY <1>6
  <2> HIDE DEF array, set
  <2>9. /\ [e EXCEPT ![pos] = to[l]] \in Seq(DOMAIN array)
        /\ Len([e EXCEPT ![pos] = to[l]]) = len
        /\ \A i \in 1 .. len : [e EXCEPT ![pos] = to[l]][i] = IF i = pos THEN to[l] ELSE e[i]
    BY <2>6, <2>7, <2>8, ExceptSeq
  <2> QED
    BY <2>1, <2>3, <2>4, <2>9
<1>9. ASSUME NEW u \in Trees \ {t}, NEW l \in Leaves
      PROVE  <<u, l>> \in Sites /\ set[<<u, l>>] = W.sets[<<u, l>>]
  <2>1. <<u, l>> \in Sites /\ <<u, l>>[1] = u
    BY DEF Sites
  <2> QED
    BY <1>3, <2>1
<1>10. set = [s \in Sites |-> set[s]]
  BY <1>3
<1> HIDE DEF array, set, attr
<1>11. Sound(X)
  <2>1. IsFiniteSet(DOMAIN W.descriptors)
    BY DEF Sound
  <2>2. \A d \in DOMAIN W.descriptors : Good(W.descriptors[d])
    BY DEF Sound
  <2>3. ASSUME NEW s \in Sites
        PROVE  /\ set[s] = [mDescr |-> set[s].mDescr, mAttrs |-> set[s].mAttrs]
               /\ set[s].mDescr \in DOMAIN W.descriptors
               /\ set[s].mAttrs \in Seq(DOMAIN array)
    <3>1. PICK u \in Trees, l \in Leaves : s = <<u, l>>
      BY DEF Sites
    <3>2. /\ W.sets[s] = [mDescr |-> W.sets[s].mDescr, mAttrs |-> W.sets[s].mAttrs]
          /\ W.sets[s].mDescr \in DOMAIN W.descriptors /\ W.sets[s].mAttrs \in Seq(old)
      BY SoundFacts
    <3>3. CASE u = t
      <4>1. PICK d, e : d = W.sets[s].mDescr /\ e = attr(l)
        OBVIOUS
      <4>2. set[s] = [mDescr |-> d, mAttrs |-> e] /\ e \in Seq(DOMAIN array)
        BY <1>8, <3>1, <3>3, <4>1
      <4>3. set[s].mDescr = d /\ set[s].mAttrs = e
        BY <4>2
      <4> QED
        BY <3>2, <4>1, <4>2, <4>3
    <3>4. CASE u # t
      <4>1. set[s] = W.sets[s]
        BY <1>9, <3>1, <3>4
      <4> QED
        BY <1>6, <3>2, <4>1, SeqSubset
    <3> QED
      BY <3>3, <3>4
  <2> QED
    BY <1>7, <1>10, <2>1, <2>2, <2>3, SoundIf
<1>12. X.descriptors = W.descriptors /\ X.sets = set /\ X.arrays = array
  OBVIOUS
<1> HIDE DEF X
<1>13. ASSUME NEW l \in Leaves
       PROVE  X.sets[<<t, l>>].mDescr = W.sets[<<t, l>>].mDescr
              /\ X.sets[<<t, l>>].mAttrs = attr(l)
  <2>1. PICK d, e : d = W.sets[<<t, l>>].mDescr /\ e = attr(l)
    OBVIOUS
  <2>2. set[<<t, l>>] = [mDescr |-> d, mAttrs |-> e]
    BY <1>8, <2>1
  <2> QED
    BY <1>12, <2>1, <2>2
<1>14. Shows(X, t, D, Put(c, len, pos, content))
  <2>1. Describes(X, t, D)
    BY <1>12, <1>13 DEF Describes, Shows
  <2>2. ASSUME NEW l \in Leaves, NEW i \in 1 .. len
        PROVE  X.arrays[attr(l)[i]] = Put(c, len, pos, content)[l][i]
    <3>1. CASE i = pos
      <4>1. attr(l)[i] = to[l] /\ array[to[l]] = content[l]
        BY <1>6, <1>8, <3>1
      <4>2. Put(c, len, pos, content)[l][i] = content[l]
        BY <3>1, PutFacts
      <4> QED
        BY <1>12, <4>1, <4>2
    <3>2. CASE i # pos
      <4>1. PICK a : a = W.sets[<<t, l>>].mAttrs[i]
        OBVIOUS
      <4>2. attr(l)[i] = a
        BY <1>8, <3>2, <4>1
      <4>3. a \in old
        BY <1>2, <4>1, SoundFacts
      <4>4. \A m \in Leaves : to[m] # a
        BY <1>2, <1>4, <3>2, <4>1
      <4>5. W.arrays[a] = c[l][i]
        BY <4>1 DEF Shows, Stores, len
      <4> QED
        BY <1>6, <1>12, <3>2, <4>2, <4>3, <4>4, <4>5, PutFacts
    <3> QED
      BY <3>1, <3>2
  <2>3. Stores(X, t, len, Put(c, len, pos, content))
    <3> DEFINE e == Put(c, len, pos, content)
    <3> HIDE DEF e
    <3>1. ASSUME NEW l \in Leaves
          PROVE  Len(attr(l)) = len /\ X.sets[<<t, l>>].mAttrs = attr(l)
      BY <1>8, <1>13
    <3>2. ASSUME NEW l \in Leaves, NEW i \in 1 .. len PROVE X.arrays[attr(l)[i]] = e[l][i]
      BY <2>2 DEF e
    <3>3. Stores(X, t, len, e)
      BY <3>1, <3>2 DEF Stores
    <3> QED
      BY <3>3 DEF e
  <2> QED
    BY <2>1, <2>3 DEF Shows, len
<1>15. Others(W, X, t)
  <2> SUFFICES ASSUME NEW u \in Trees \ {t}, NEW l \in Leaves PROVE KeptAt(W, X, <<u, l>>)
    BY DEF Others, Kept
  <2>1. PICK s : s = <<u, l>>
    OBVIOUS
  <2>2. s \in Sites /\ X.sets[s] = W.sets[s]
    BY <1>9, <1>12, <2>1
  <2>3. ASSUME NEW i \in DOMAIN W.sets[s].mAttrs
        PROVE  X.arrays[W.sets[s].mAttrs[i]] = W.arrays[W.sets[s].mAttrs[i]]
    <3>1. W.sets[s].mAttrs[i] \in old
      BY <2>2, SoundFacts
    <3>2. \A m \in Leaves : to[m] # W.sets[s].mAttrs[i]
      <4> SUFFICES ASSUME NEW m \in Leaves, W.sets[s].mAttrs[i] = to[m] PROVE FALSE
        OBVIOUS
      <4>1. s = <<t, m>>
        BY <1>4, <2>2
      <4> QED
        BY <2>1, <4>1
    <3> QED
      BY <1>6, <1>12, <3>1, <3>2
  <2> QED
    BY <1>12, <2>1, <2>2, <2>3 DEF KeptAt
<1> QED
  BY <1>1, <1>11, <1>14, <1>15, SettledBecomes DEF len

\* The sets of t get other arrays, which array knows along with those that there were.
Rearranges(W, t, set, attr) ==
    /\ set = [s \in Sites |-> set[s]]
    /\ \A l \in Leaves : set[<<t, l>>] = [W.sets[<<t, l>>] EXCEPT !.mAttrs = attr[l]]
    /\ \A u \in Trees \ {t}, l \in Leaves : set[<<u, l>>] = W.sets[<<u, l>>]

Grows(W, array) ==
    /\ IsFiniteSet(DOMAIN array) /\ DOMAIN W.arrays \subseteq DOMAIN array
    /\ \A a \in DOMAIN W.arrays : array[a] = W.arrays[a]

Holds(attr, array, n, c) ==
    \A l \in Leaves : /\ attr[l] \in Seq(DOMAIN array) /\ Len(attr[l]) = n
                      /\ \A i \in 1 .. n : array[attr[l][i]] = c[l][i]

\* A tree given other arrays, old or new, has their content, and the other trees
\* do not change, since no array in use is written.
LEMMA RearrangedLemma ==
    ASSUME NEW W, Sound(W), NEW t \in Trees, NEW set, NEW attr, Rearranges(W, t, set, attr),
           NEW array, Grows(W, array), NEW n, NEW c, Holds(attr, array, n, c)
    PROVE  LET X == [descriptors |-> W.descriptors, sets |-> set, arrays |-> array]
           IN  Sound(X) /\ Stores(X, t, n, c) /\ Others(W, X, t)
<1> DEFINE X == [descriptors |-> W.descriptors, sets |-> set, arrays |-> array]
<1>1. ASSUME NEW l \in Leaves
      PROVE  /\ <<t, l>> \in Sites
             /\ set[<<t, l>>] = [mDescr |-> W.sets[<<t, l>>].mDescr, mAttrs |-> attr[l]]
  <2>1. <<t, l>> \in Sites
    BY DEF Sites
  <2>2. PICK d, e : d = W.sets[<<t, l>>].mDescr /\ e = W.sets[<<t, l>>].mAttrs
    OBVIOUS
  <2>3. W.sets[<<t, l>>] = [mDescr |-> d, mAttrs |-> e]
    BY <2>1, <2>2, SoundFacts
  <2>4. [W.sets[<<t, l>>] EXCEPT !.mAttrs = attr[l]] = [mDescr |-> d, mAttrs |-> attr[l]]
    BY <2>3
  <2>5. set[<<t, l>>] = [W.sets[<<t, l>>] EXCEPT !.mAttrs = attr[l]]
    BY DEF Rearranges
  <2> QED
    BY <2>1, <2>2, <2>4, <2>5
<1>2. ASSUME NEW l \in Leaves
      PROVE  /\ set[<<t, l>>].mDescr = W.sets[<<t, l>>].mDescr
             /\ set[<<t, l>>].mAttrs = attr[l]
  <2>1. PICK d, e, f : d = W.sets[<<t, l>>].mDescr /\ e = attr[l] /\ f = set[<<t, l>>]
    OBVIOUS
  <2>2. f = [mDescr |-> d, mAttrs |-> e]
    BY <1>1, <2>1
  <2> QED
    BY <2>1, <2>2
<1>3. ASSUME NEW u \in Trees \ {t}, NEW l \in Leaves
      PROVE  <<u, l>> \in Sites /\ set[<<u, l>>] = W.sets[<<u, l>>]
  BY DEF Sites, Rearranges
<1>4. Sound(X)
  <2>1. IsFiniteSet(DOMAIN W.descriptors) /\ IsFiniteSet(DOMAIN array)
    BY DEF Sound, Grows
  <2>2. \A d \in DOMAIN W.descriptors : Good(W.descriptors[d])
    BY DEF Sound
  <2>3. set = [s \in Sites |-> set[s]]
    BY DEF Rearranges
  <2>4. ASSUME NEW s \in Sites
        PROVE  /\ set[s] = [mDescr |-> set[s].mDescr, mAttrs |-> set[s].mAttrs]
               /\ set[s].mDescr \in DOMAIN W.descriptors
               /\ set[s].mAttrs \in Seq(DOMAIN array)
    <3>1. PICK u \in Trees, l \in Leaves : s = <<u, l>>
      BY DEF Sites
    <3>2. /\ W.sets[s] = [mDescr |-> W.sets[s].mDescr, mAttrs |-> W.sets[s].mAttrs]
          /\ W.sets[s].mDescr \in DOMAIN W.descriptors
          /\ W.sets[s].mAttrs \in Seq(DOMAIN W.arrays)
      BY SoundFacts
    <3>3. CASE u = t
      <4>1. PICK d, e : d = W.sets[s].mDescr /\ e = attr[l]
        OBVIOUS
      <4>2. set[s] = [mDescr |-> d, mAttrs |-> e] /\ e \in Seq(DOMAIN array)
        BY <1>1, <3>1, <3>3, <4>1 DEF Holds
      <4>3. set[s].mDescr = d /\ set[s].mAttrs = e
        BY <4>2
      <4> QED
        BY <3>2, <4>1, <4>2, <4>3
    <3>4. CASE u # t
      <4>1. set[s] = W.sets[s]
        BY <1>3, <3>1, <3>4
      <4>2. DOMAIN W.arrays \subseteq DOMAIN array
        BY DEF Grows
      <4> QED
        BY <3>2, <4>1, <4>2, SeqSubset
    <3> QED
      BY <3>3, <3>4
  <2> QED
    BY <2>1, <2>2, <2>3, <2>4, SoundIf
<1>5. X.descriptors = W.descriptors /\ X.sets = set /\ X.arrays = array
  OBVIOUS
<1> HIDE DEF X
<1>6. Stores(X, t, n, c)
  <2>1. ASSUME NEW l \in Leaves PROVE X.sets[<<t, l>>].mAttrs = attr[l]
    BY <1>2, <1>5
  <2>2. \A l \in Leaves : Len(attr[l]) = n /\ \A i \in 1 .. n : X.arrays[attr[l][i]] = c[l][i]
    BY <1>5 DEF Holds
  <2> QED
    BY <2>1, <2>2 DEF Stores
<1>7. Others(W, X, t)
  <2> SUFFICES ASSUME NEW u \in Trees \ {t}, NEW l \in Leaves PROVE KeptAt(W, X, <<u, l>>)
    BY DEF Others, Kept
  <2>1. PICK s : s = <<u, l>>
    OBVIOUS
  <2>2. s \in Sites /\ X.sets[s] = W.sets[s]
    BY <1>3, <1>5, <2>1
  <2>3. \A i \in DOMAIN W.sets[s].mAttrs : W.sets[s].mAttrs[i] \in DOMAIN W.arrays
    BY <2>2, SoundFacts
  <2> QED
    BY <1>5, <2>1, <2>2, <2>3 DEF KeptAt, Grows
<1> QED
  BY <1>4, <1>6, <1>7 DEF X

\* The arrays at other positions: the i-th is the one that was at f[i].
Picked(c, m, f) == [l \in Leaves |-> [i \in 1 .. m |-> c[l][f[i]]]]

\* A tree whose arrays are picked from those it has.
LEMMA PickedLemma ==
    ASSUME NEW W, Sound(W), NEW t \in Trees, NEW n \in Nat, NEW c, Stores(W, t, n, c),
           NEW m \in Nat, NEW f \in [1 .. m -> 1 .. n], NEW set, NEW attr,
           Rearranges(W, t, set, attr),
           attr = [l \in Leaves |-> [i \in 1 .. m |-> W.sets[<<t, l>>].mAttrs[f[i]]]]
    PROVE  LET X == [W EXCEPT !.sets = set]
           IN  Sound(X) /\ Stores(X, t, m, Picked(c, m, f)) /\ Others(W, X, t)
<1>1. [W EXCEPT !.sets = set] = [descriptors |-> W.descriptors, sets |-> set, arrays |-> W.arrays]
  BY OtherSets
<1>2. Grows(W, W.arrays)
  BY DEF Grows, Sound
<1>3. Holds(attr, W.arrays, m, Picked(c, m, f))
  <2> SUFFICES ASSUME NEW l \in Leaves
               PROVE  /\ attr[l] \in Seq(DOMAIN W.arrays) /\ Len(attr[l]) = m
                      /\ \A i \in 1 .. m : W.arrays[attr[l][i]] = Picked(c, m, f)[l][i]
    BY DEF Holds
  <2>1. PICK e : e = W.sets[<<t, l>>].mAttrs
    OBVIOUS
  <2>2. <<t, l>> \in Sites
    BY DEF Sites
  <2>3. Len(e) = n /\ \A i \in 1 .. n : W.arrays[e[i]] = c[l][i]
    BY <2>1 DEF Stores
  <2>4. \A i \in 1 .. n : e[i] \in DOMAIN W.arrays
    BY <2>1, <2>2, <2>3, SoundFacts
  <2>5. attr[l] = [i \in 1 .. m |-> e[f[i]]]
    BY <2>1
  <2>6. PICK g : g = attr[l]
    OBVIOUS
  <2>7. g \in [1 .. m -> DOMAIN W.arrays]
    BY <2>4, <2>5, <2>6
  <2>8. g \in Seq(DOMAIN W.arrays) /\ Len(g) = m
    BY <2>7, FunctionIsSeq
  <2>9. ASSUME NEW i \in 1 .. m PROVE W.arrays[g[i]] = Picked(c, m, f)[l][i]
    BY <2>3, <2>5, <2>6 DEF Picked
  <2> QED
    BY <2>6, <2>8, <2>9
<1> DEFINE X == [descriptors |-> W.descriptors, sets |-> set, arrays |-> W.arrays]
<1>4. Sound(X) /\ Stores(X, t, m, Picked(c, m, f)) /\ Others(W, X, t)
  BY <1>2, <1>3, RearrangedLemma
<1> QED
  BY <1>1, <1>4

-------------------------------------------------------------------------------
(* Operations on attributes.                                               *)

\* The descriptor of a tree is good.
LEMMA DescribedGood ==
    ASSUME NEW W, Sound(W), NEW t \in Trees, NEW D, Describes(W, t, D)
    PROVE  Good(D)
<1>1. PICK l \in Leaves : TRUE
  BY AttributesAssumption
<1>2. <<t, l>> \in Sites
  BY DEF Sites
<1>3. Good(W.descriptors[W.sets[<<t, l>>].mDescr])
  BY <1>2, SoundFacts
<1> QED
  BY <1>3 DEF Describes

\* A change of the sets of t is known by what it does to their arrays.
LEMMA RearrangesIf ==
    ASSUME NEW W, Sound(W), NEW t \in Trees, NEW attr, NEW set,
           set = [s \in DOMAIN W.sets |->
                    IF s[1] = t THEN [W.sets[s] EXCEPT !.mAttrs = attr[s[2]]] ELSE W.sets[s]]
    PROVE  Rearranges(W, t, set, attr)
<1>1. DOMAIN W.sets = Sites
  BY DEF Sound
<1>2. \A u \in Trees, l \in Leaves : <<u, l>> \in Sites /\ <<u, l>>[1] = u /\ <<u, l>>[2] = l
  BY DEF Sites
<1>3. \A l \in Leaves : set[<<t, l>>] = [W.sets[<<t, l>>] EXCEPT !.mAttrs = attr[l]]
  BY <1>1, <1>2
<1>4. \A u \in Trees \ {t}, l \in Leaves : set[<<u, l>>] = W.sets[<<u, l>>]
  BY <1>1, <1>2
<1>5. set = [s \in Sites |-> set[s]]
  BY <1>1
<1> QED
  BY <1>3, <1>4, <1>5 DEF Rearranges

Remaining(D, drop) == (1 .. Len(D.names)) \ drop

\* The arrays that are left.
Left(D, c, drop) == Picked(c, Cardinality(Remaining(D, drop)),
                           [i \in 1 .. Cardinality(Remaining(D, drop)) |->
                              Ranked(Remaining(D, drop), i - 1)])

\* What dropAttributes() makes of the descriptor and the arrays.
LEMMA DroppedLemma ==
    ASSUME NEW W, Sound(W), NEW t \in Trees, NEW D, NEW c, Shows(W, t, D, c),
           NEW drop, drop # {}
    PROVE  Becomes(W, Dropped(W, t, drop), t, DuplicateDrop(D, drop), Left(D, c, drop))
<1> DEFINE n == Len(D.names)
           K == Remaining(D, drop)
           m == Cardinality(K)
           f == [i \in 1 .. m |-> Ranked(K, i - 1)]
           attr == [l \in Leaves |-> Erased(W.sets[<<t, l>>].mAttrs, drop)]
           set == [s \in DOMAIN W.sets |->
                     IF s[1] = t THEN [W.sets[s] EXCEPT !.mAttrs = Erased(@, drop)]
                     ELSE W.sets[s]]
           X == [W EXCEPT !.sets = set]
           E == DuplicateDrop(D, drop)
<1>1. Good(D) /\ n \in Nat
  BY DescribedGood, GoodFacts DEF Shows
<1>2. Descriptor(W, t) = D
  BY DescriptorLemma DEF Shows
<1>3. Dropped(W, t, drop) = Described(X, t, E)
  BY <1>2 DEF Dropped
<1>4. m \in Nat /\ f \in [1 .. m -> 1 .. n] /\ Good(E) /\ Len(E.names) = m
  <2>1. DropsTo(D, drop, E)
    BY <1>1, DropLemma
  <2>2. Good(E) /\ Len(E.names) = m /\ \A i \in 1 .. m : Ranked(K, i - 1) \in K
    BY ONLY <2>1 DEF DropsTo, Remaining
  <2>3. K \in SUBSET (1 .. n) /\ IsFiniteSet(1 .. n)
    BY <1>1, FS_Interval DEF Remaining
  <2>4. m \in Nat
    BY <2>3, FS_Subset, FS_CardinalityType
  <2> QED
    BY <2>2, <2>3, <2>4
<1>5. attr = [l \in Leaves |-> [i \in 1 .. m |-> W.sets[<<t, l>>].mAttrs[f[i]]]]
  <2> SUFFICES ASSUME NEW l \in Leaves
               PROVE  attr[l] = [i \in 1 .. m |-> W.sets[<<t, l>>].mAttrs[f[i]]]
    OBVIOUS
  <2>1. PICK e : e = W.sets[<<t, l>>].mAttrs
    OBVIOUS
  <2>2. <<t, l>> \in Sites /\ Len(e) = n
    BY <2>1 DEF Sites, Shows, Stores
  <2>3. DOMAIN e = 1 .. n
    BY <2>1, <2>2, SoundFacts
  <2>4. attr[l] = [i \in 1 .. m |-> e[Ranked(K, i - 1)]]
    BY <2>1, <2>3 DEF Erased, Remaining
  <2> QED
    BY <2>1, <2>4
<1>6. Rearranges(W, t, set, attr)
  <2>1. set = [s \in DOMAIN W.sets |->
                 IF s[1] = t THEN [W.sets[s] EXCEPT !.mAttrs = attr[s[2]]] ELSE W.sets[s]]
    <3>1. DOMAIN W.sets = Sites
      BY DEF Sound
    <3>2. ASSUME NEW s \in Sites, s[1] = t
          PROVE  attr[s[2]] = Erased(W.sets[s].mAttrs, drop)
      <4>1. PICK l \in Leaves : s = <<t, l>> /\ s[2] = l
        BY <3>2 DEF Sites
      <4> QED
        BY <4>1
    <3> HIDE DEF attr
    <3> QED
      BY <3>1, <3>2
  <2> HIDE DEF attr, set
  <2> QED
    BY <2>1, RearrangesIf
<1>7. Stores(W, t, n, c)
  BY DEF Shows
<1>8. Sound(X) /\ Stores(X, t, m, Left(D, c, drop)) /\ Others(W, X, t)
  <2> HIDE DEF attr, set, f, n
  <2>1. Sound(X) /\ Stores(X, t, m, Picked(c, m, f)) /\ Others(W, X, t)
    BY <1>1, <1>4, <1>5, <1>6, <1>7, PickedLemma
  <2> QED
    BY <2>1 DEF Left, f
<1> HIDE DEF X, E, m
<1>9. Becomes(X, Described(X, t, E), t, E, Left(D, c, drop))
  BY <1>4, <1>8, DescribedLemma
<1> QED
  BY <1>3, <1>8, <1>9, OthersTwice DEF Becomes, E

\* What renameAttributes() makes of them.
LEMMA RenamedLemma ==
    ASSUME NEW W, Sound(W), NEW t \in Trees, NEW D, NEW c, Shows(W, t, D, c),
           NEW from \in ToSet(D.names) \ GroupNames, NEW to \in Ordinary \ ToSet(D.names)
    PROVE  Becomes(W, Renamed(W, t, from, to), t, WithRenamed(D, from, to), c)
<1> DEFINE E == WithRenamed(D, from, to)
<1>1. Good(D) /\ Descriptor(W, t) = D
  BY DescribedGood, DescriptorLemma DEF Shows
<1>2. Renamed(W, t, from, to) = Described(W, t, E)
  BY <1>1 DEF Renamed, WithRenamed
<1>3. Good(E) /\ Len(E.names) = Len(D.names)
  BY <1>1, RenameLemma DEF RenamesTo
<1> HIDE DEF E
<1>4. Stores(W, t, Len(E.names), c)
  BY <1>3 DEF Shows
<1>5. Becomes(W, Described(W, t, E), t, E, c)
  BY <1>3, <1>4, DescribedLemma
<1> QED
  BY <1>2, <1>5 DEF E

\* The arrays in the order of names.
Arranged(D, c, names) == Picked(c, Len(D.names), [i \in 1 .. Len(D.names) |-> Find(D, names[i])])

\* What reorderAttributes() makes of them.
LEMMA ReorderedLemma ==
    ASSUME NEW W, Sound(W), NEW t \in Trees, NEW D, NEW c, Shows(W, t, D, c),
           NEW names \in Orders(D)
    PROVE  Becomes(W, Reordered(W, t, names), t, WithOrder(D, names),
                   Arranged(D, c, names))
<1> DEFINE n == Len(D.names)
           f == [i \in 1 .. n |-> Find(D, names[i])]
           attr == [l \in Leaves |-> [i \in 1 .. n |-> W.sets[<<t, l>>].mAttrs[f[i]]]]
           set == [s \in DOMAIN W.sets |->
                      IF s[1] = t
                      THEN [W.sets[s] EXCEPT
                              !.mAttrs = [i \in DOMAIN names |-> @[Find(D, names[i])]]]
                      ELSE W.sets[s]]
           X == [W EXCEPT !.sets = set]
           E == WithOrder(D, names)
<1>1. Good(D) /\ n \in Nat /\ Descriptor(W, t) = D
  BY DescribedGood, GoodFacts, DescriptorLemma DEF Shows
<1>2. Reordered(W, t, names) = Described(X, t, E)
  BY <1>1 DEF Reordered, WithOrder
<1>3. /\ Good(E) /\ E.names = names /\ Len(names) = n
      /\ \A i \in 1 .. n : Find(D, names[i]) \in 1 .. n
  BY <1>1, ReorderLemma DEF ReordersTo
<1>4. DOMAIN names = 1 .. n
  <2>1. DOMAIN E.names = 1 .. Len(E.names)
    BY <1>3, GoodFacts
  <2> QED
    BY <1>3, <2>1
<1>5. f \in [1 .. n -> 1 .. n]
  BY <1>3
<1>6. Rearranges(W, t, set, attr)
  <2>1. set = [s \in DOMAIN W.sets |->
                 IF s[1] = t THEN [W.sets[s] EXCEPT !.mAttrs = attr[s[2]]] ELSE W.sets[s]]
    <3>1. DOMAIN W.sets = Sites
      BY DEF Sound
    <3>2. ASSUME NEW s \in Sites, s[1] = t
          PROVE  attr[s[2]] = [i \in DOMAIN names |-> W.sets[s].mAttrs[Find(D, names[i])]]
      <4>1. PICK l \in Leaves : s = <<t, l>> /\ s[2] = l
        BY <3>2 DEF Sites
      <4> QED
        BY <1>4, <4>1
    <3> HIDE DEF attr
    <3> QED
      BY <3>1, <3>2
  <2> HIDE DEF attr, set
  <2> QED
    BY <2>1, RearrangesIf
<1>7. Stores(W, t, n, c)
  BY DEF Shows
<1>8. Sound(X) /\ Stores(X, t, n, Arranged(D, c, names)) /\ Others(W, X, t)
  <2>1. attr = [l \in Leaves |-> [i \in 1 .. n |-> W.sets[<<t, l>>].mAttrs[f[i]]]]
    OBVIOUS
  <2> HIDE DEF attr, set, f, n
  <2>2. Sound(X) /\ Stores(X, t, n, Picked(c, n, f)) /\ Others(W, X, t)
    BY <1>1, <1>5, <1>6, <1>7, <2>1, PickedLemma
  <2> QED
    BY <2>2 DEF Arranged, f, n
<1> HIDE DEF X, E, n
<1>9. Becomes(X, Described(X, t, E), t, E, Arranged(D, c, names))
  BY <1>3, <1>8, DescribedLemma
<1> QED
  BY <1>2, <1>8, <1>9, OthersTwice DEF Becomes, E

\* Arrays that nothing was written to yet.
Blank(name) == [l \in Leaves |-> [p \in PointsIn[l] |-> IF name \in GroupNames THEN {} ELSE Initial]]

\* What appendAttribute() makes of them, although it makes the first array
\* unique on the way.
LEMMA AppendedLemma ==
    ASSUME NEW W, Sound(W), NEW t \in Trees, NEW D, NEW c, Shows(W, t, D, c),
           NEW name \in Names, name \notin ToSet(D.names), 1 \in 1 .. Len(D.names)
    PROVE  Becomes(W, Appended(W, t, name), t, WithName(D, name),
                   Put(c, Len(D.names) + 1, Len(D.names) + 1, Blank(name)))
<1> DEFINE n == Len(D.names)
           content == [l \in Leaves |-> Content(W, t, l, 1)]
           unique == Written(W, t, 1, content)
           blank == IF name \in GroupNames THEN {} ELSE Initial
           new(l) == NewArray(unique, t, l)
           attr == [l \in Leaves |-> Append(unique.sets[<<t, l>>].mAttrs, new(l))]
           set == [s \in DOMAIN unique.sets |->
                     IF s[1] = t
                     THEN [unique.sets[s] EXCEPT !.mAttrs = Append(@, new(s[2]))]
                     ELSE unique.sets[s]]
           array == [a \in DOMAIN unique.arrays \union {new(l) : l \in Leaves} |->
                       IF a \in DOMAIN unique.arrays THEN unique.arrays[a]
                       ELSE [p \in PointsIn[a[2]] |-> blank]]
           X == [unique EXCEPT !.sets = set, !.arrays = array]
           E == WithName(D, name)
           e == Put(c, n + 1, n + 1, Blank(name))
<1>1. Good(D) /\ n \in Nat /\ Descriptor(W, t) = D
  BY DescribedGood, GoodFacts, DescriptorLemma DEF Shows
<1>2. Appended(W, t, name) = Described(X, t, E)
  BY <1>1 DEF Appended, WithName
<1>3. Good(E) /\ Len(E.names) = n + 1
  BY <1>1, AppendLemma DEF AppendsTo
<1>4. Sound(unique) /\ Stores(unique, t, n, c) /\ Others(W, unique, t)
  <2> DEFINE d == Put(c, n, 1, content)
  <2>1. Becomes(W, unique, t, D, d)
    <3> HIDE DEF content
    <3> QED
      BY WrittenLemma
  <2>2. Sound(unique) /\ Stores(unique, t, n, d) /\ Others(W, unique, t)
    BY <2>1 DEF Becomes, Shows
  <2>3. ASSUME NEW l \in Leaves, NEW i \in 1 .. n PROVE d[l][i] = c[l][i]
    <3>1. content[l] = W.arrays[W.sets[<<t, l>>].mAttrs[1]]
      BY DEF Content, Attrs
    <3>2. W.arrays[W.sets[<<t, l>>].mAttrs[1]] = c[l][1]
      BY DEF Shows, Stores
    <3> HIDE DEF content
    <3>3. d[l][i] = IF i = 1 THEN content[l] ELSE c[l][i]
      BY PutFacts
    <3> QED
      BY <3>1, <3>2, <3>3
  <2> HIDE DEF d, unique, n
  <2>4. Stores(unique, t, n, c)
    BY <2>2, <2>3 DEF Stores
  <2> QED
    BY <2>2, <2>4
<1> HIDE DEF unique, content
<1>5. /\ \A l \in Leaves : new(l) \notin DOMAIN unique.arrays
      /\ \A l \in Leaves : new(l)[2] = l
  BY <1>4, NewArrayLemma
<1> HIDE DEF new
<1>6. Grows(unique, array)
  <2> DEFINE f == [l \in Leaves |-> new(l)]
  <2>1. IsFiniteSet({f[l] : l \in Leaves})
    <3>1. DOMAIN f = Leaves /\ f = [l \in Leaves |-> f[l]]
      OBVIOUS
    <3> HIDE DEF f
    <3> QED
      BY <3>1, AttributesAssumption, ImageFinite
  <2>2. PICK T : T = {new(l) : l \in Leaves}
    OBVIOUS
  <2>3. {f[l] : l \in Leaves} = T
    BY <2>2
  <2>4. IsFiniteSet(DOMAIN unique.arrays)
    BY <1>4 DEF Sound
  <2>5. DOMAIN array = DOMAIN unique.arrays \union T
    BY <2>2
  <2>6. \A a \in DOMAIN unique.arrays : a \in DOMAIN array /\ array[a] = unique.arrays[a]
    OBVIOUS
  <2> HIDE DEF f, array
  <2>7. IsFiniteSet(DOMAIN array)
    <3>1. PICK A : A = DOMAIN unique.arrays
      OBVIOUS
    <3>2. IsFiniteSet(T) /\ IsFiniteSet(A)
      BY <2>1, <2>3, <2>4, <3>1
    <3>3. IsFiniteSet(A \union T)
      BY <3>2, FS_Union
    <3> QED
      BY <2>5, <3>1, <3>3
  <2> QED
    BY <2>6, <2>7 DEF Grows
<1>7. ASSUME NEW l \in Leaves
      PROVE  new(l) \in DOMAIN array /\ array[new(l)] = Blank(name)[l]
  <2>1. new(l) \in DOMAIN array /\ array[new(l)] = [p \in PointsIn[new(l)[2]] |-> blank]
    BY <1>5
  <2>2. new(l)[2] = l
    BY <1>5
  <2>3. array[new(l)] = [p \in PointsIn[l] |-> blank]
    BY <2>1, <2>2
  <2> QED
    BY <2>1, <2>3 DEF Blank
<1> HIDE DEF array
<1>8. Holds(attr, array, n + 1, e)
  <2> SUFFICES ASSUME NEW l \in Leaves
               PROVE  /\ attr[l] \in Seq(DOMAIN array) /\ Len(attr[l]) = n + 1
                      /\ \A i \in 1 .. n + 1 : array[attr[l][i]] = e[l][i]
    BY DEF Holds
  <2>1. PICK s : s = unique.sets[<<t, l>>].mAttrs
    OBVIOUS
  <2>2. <<t, l>> \in Sites
    BY DEF Sites
  <2>3. s \in Seq(DOMAIN unique.arrays) /\ Len(s) = n
        /\ \A i \in 1 .. n : unique.arrays[s[i]] = c[l][i]
    BY <1>4, <2>1, <2>2, SoundFacts DEF Stores
  <2>4. s \in Seq(DOMAIN array) /\ \A i \in 1 .. n : s[i] \in DOMAIN unique.arrays
    BY <1>6, <2>3, SeqSubset, ElementOfSeq DEF Grows
  <2>5. PICK b : b = new(l)
    OBVIOUS
  <2>6. attr[l] = Append(s, b)
    BY <2>1, <2>5
  <2>7. b \in DOMAIN array /\ array[b] = Blank(name)[l]
    BY <1>7, <2>5
  <2>8. PICK r : r = attr[l]
    OBVIOUS
  <2> HIDE DEF attr, n
  <2>9. /\ r \in Seq(DOMAIN array) /\ Len(r) = n + 1
        /\ \A i \in 1 .. n : r[i] = s[i]
        /\ r[n + 1] = b
    BY <2>3, <2>4, <2>6, <2>7, <2>8, AppendProperties
  <2>10. ASSUME NEW i \in 1 .. n + 1 PROVE array[r[i]] = e[l][i]
    <3>1. e[l][i] = IF i = n + 1 THEN Blank(name)[l] ELSE c[l][i]
      BY PutFacts
    <3>2. CASE i = n + 1
      BY <2>7, <2>9, <3>1, <3>2
    <3>3. CASE i # n + 1
      <4>1. i \in 1 .. n
        BY <1>1, <3>3 DEF n
      <4>2. array[s[i]] = unique.arrays[s[i]]
        BY <1>6, <2>4, <4>1 DEF Grows
      <4> QED
        BY <2>3, <2>9, <3>1, <3>3, <4>1, <4>2
    <3> QED
      BY <3>2, <3>3
  <2> QED
    BY <2>8, <2>9, <2>10
<1>9. Rearranges(unique, t, set, attr)
  <2>1. set = [s \in DOMAIN unique.sets |->
                 IF s[1] = t THEN [unique.sets[s] EXCEPT !.mAttrs = attr[s[2]]]
                 ELSE unique.sets[s]]
    <3>1. DOMAIN unique.sets = Sites
      BY <1>4 DEF Sound
    <3>2. ASSUME NEW s \in Sites, s[1] = t
          PROVE  attr[s[2]] = Append(unique.sets[s].mAttrs, new(s[2]))
      <4>1. PICK l \in Leaves : s = <<t, l>> /\ s[2] = l
        BY <3>2 DEF Sites
      <4> QED
        BY <4>1
    <3> HIDE DEF attr
    <3> QED
      BY <3>1, <3>2
  <2> HIDE DEF attr, set
  <2> QED
    BY <1>4, <2>1, RearrangesIf
<1>10. Sound(X) /\ Stores(X, t, n + 1, e) /\ Others(unique, X, t)
  <2> HIDE DEF set, attr, e
  <2> DEFINE Y == [descriptors |-> unique.descriptors, sets |-> set, arrays |-> array]
  <2>1. X = Y
    BY <1>4, OtherArrays
  <2>2. Sound(Y) /\ Stores(Y, t, n + 1, e) /\ Others(unique, Y, t)
    BY <1>4, <1>6, <1>8, <1>9, RearrangedLemma
  <2> HIDE DEF X, Y
  <2> QED
    BY <2>1, <2>2
<1> HIDE DEF X, E, e
<1>11. Becomes(X, Described(X, t, E), t, E, e)
  BY <1>3, <1>10, DescribedLemma
<1>12. Others(W, Described(X, t, E), t)
  BY <1>4, <1>10, <1>11, OthersTwice DEF Becomes
<1> QED
  BY <1>2, <1>11, <1>12 DEF Becomes, E, e, n

-------------------------------------------------------------------------------
(* Operations on groups.                                                   *)

\* The points with a bit set.
MembersOf(D, c, offset) ==
    {m \in Points : Bit(offset) \in c[m[1]][GroupArray(D, offset)][m[2]]}

\* The members of a group are read from the content alone.
LEMMA MembersLemma ==
    ASSUME NEW W, Sound(W), NEW t \in Trees, NEW D, NEW c, Shows(W, t, D, c),
           NEW offset \in Bits(D)
    PROVE  Members(W, t, offset) = MembersOf(D, c, offset)
<1>1. Good(D)
  BY DescribedGood DEF Shows
<1>2. GroupArray(D, offset) \in 1 .. Len(D.names)
  BY <1>1, ArrayLemma, GoodFacts
<1>3. ASSUME NEW l \in Leaves
      PROVE  /\ DescriptorOf(W, t, l) = D
             /\ Content(W, t, l, GroupArray(D, offset)) = c[l][GroupArray(D, offset)]
  BY <1>2, DescriptorLemma DEF Shows, Stores, Content, Attrs
<1>4. \A m \in Points : m[1] \in Leaves
  BY DEF Points
<1> QED
  BY <1>3, <1>4 DEF Members, MembersOf, Points

\* The bits of an array with one set for the points of M alone.
MarkedBits(c, pos, offset, M) ==
    [l \in Leaves |-> [p \in PointsIn[l] |->
        IF <<l, p>> \in M THEN c[l][pos][p] \union {Bit(offset)}
        ELSE c[l][pos][p] \ {Bit(offset)}]]

Marked(D, c, offset, M) ==
    Put(c, Len(D.names), GroupArray(D, offset), MarkedBits(c, GroupArray(D, offset), offset, M))

\* Setting a bit is a write to one array of each leaf.
LEMMA WithMembersLemma ==
    ASSUME NEW W, Sound(W), NEW t \in Trees, NEW D, NEW c, Shows(W, t, D, c),
           NEW offset \in Bits(D), NEW M
    PROVE  Becomes(W, WithMembers(W, t, offset, M), t, D, Marked(D, c, offset, M))
<1> DEFINE pos == GroupArray(D, offset)
           content == [l \in Leaves |->
                         [p \in PointsIn[l] |->
                            IF <<l, p>> \in M THEN Content(W, t, l, pos)[p] \union {Bit(offset)}
                            ELSE Content(W, t, l, pos)[p] \ {Bit(offset)}]]
<1>1. Good(D) /\ Descriptor(W, t) = D
  BY DescribedGood, DescriptorLemma DEF Shows
<1>2. pos \in 1 .. Len(D.names)
  BY <1>1, ArrayLemma, GoodFacts
<1>3. ASSUME NEW l \in Leaves PROVE Content(W, t, l, pos) = c[l][pos]
  BY <1>2 DEF Shows, Stores, Content, Attrs
<1>4. content = MarkedBits(c, pos, offset, M)
  <2> HIDE DEF pos
  <2> QED
    BY <1>3 DEF MarkedBits
<1>5. WithMembers(W, t, offset, M) = Written(W, t, pos, content)
  BY <1>1 DEF WithMembers
<1> HIDE DEF content, pos
<1>6. Becomes(W, Written(W, t, pos, content), t, D, Put(c, Len(D.names), pos, content))
  BY <1>2, WrittenLemma
<1> QED
  BY <1>4, <1>5, <1>6 DEF Marked, pos

\* Bits are in one place each.
LEMMA BitLemma ==
    ASSUME NEW D, Good(D), NEW a \in Bits(D), NEW b \in Bits(D),
           GroupArray(D, a) = GroupArray(D, b), Bit(a) = Bit(b)
    PROVE  a = b
<1>1. /\ a = GroupBits * (a \div GroupBits) + Bit(a)
      /\ Rank(GroupPositions(D), GroupArray(D, a)) = a \div GroupBits
  BY ArrayLemma
<1>2. /\ b = GroupBits * (b \div GroupBits) + Bit(b)
      /\ Rank(GroupPositions(D), GroupArray(D, b)) = b \div GroupBits
  BY ArrayLemma
<1>3. a \div GroupBits = b \div GroupBits
  BY <1>1, <1>2
<1> QED
  BY <1>1, <1>2, <1>3

\* Arrays hold what their names are for.
Typed(D, c) ==
    \A l \in Leaves, pos \in 1 .. Len(D.names) :
        c[l][pos] \in [PointsIn[l] -> IF D.names[pos] \in GroupNames
                                      THEN SUBSET (0 .. GroupBits - 1) ELSE Values]

\* Marking a bit changes the members of its group alone.
Marks(D, c, offset, M, e) ==
    /\ Typed(D, e)
    /\ MembersOf(D, e, offset) = M \intersect Points
    /\ \A o \in Bits(D) \ {offset} : MembersOf(D, e, o) = MembersOf(D, c, o)
    /\ \A l \in Leaves, pos \in 1 .. Len(D.names) :
          D.names[pos] \notin GroupNames => e[l][pos] = c[l][pos]

\* That write sets this bit as asked, and leaves all other bits of all points.
LEMMA MarkedLemma ==
    ASSUME NEW D, Good(D), NEW c, Typed(D, c), NEW offset \in Bits(D), NEW M
    PROVE  Marks(D, c, offset, M, Marked(D, c, offset, M))
<1> DEFINE n == Len(D.names)
           at == GroupArray(D, offset)
           bits == MarkedBits(c, at, offset, M)
           e == Marked(D, c, offset, M)
<1>1. at \in 1 .. n /\ D.names[at] \in GroupNames /\ Bit(offset) \in 0 .. GroupBits - 1
  BY ArrayLemma, GoodFacts
<1>2. ASSUME NEW l \in Leaves, NEW pos \in 1 .. n
      PROVE  e[l][pos] = IF pos = at THEN bits[l] ELSE c[l][pos]
  <2> HIDE DEF bits, at, n
  <2>1. Put(c, n, at, bits)[l][pos] = IF pos = at THEN bits[l] ELSE c[l][pos]
    BY PutFacts
  <2> QED
    BY <2>1 DEF Marked, bits, at, n
<1>3. ASSUME NEW l \in Leaves
      PROVE  /\ bits[l] \in [PointsIn[l] -> SUBSET (0 .. GroupBits - 1)]
             /\ \A p \in PointsIn[l] : /\ (Bit(offset) \in bits[l][p]) <=> (<<l, p>> \in M)
                                       /\ \A b : b # Bit(offset) =>
                                            (b \in bits[l][p] <=> b \in c[l][at][p])
  <2>1. c[l][at] \in [PointsIn[l] -> SUBSET (0 .. GroupBits - 1)]
    <3> HIDE DEF at
    <3> QED
      BY <1>1 DEF Typed
  <2>2. bits[l] = [p \in PointsIn[l] |->
                     IF <<l, p>> \in M THEN c[l][at][p] \union {Bit(offset)}
                     ELSE c[l][at][p] \ {Bit(offset)}]
    BY DEF MarkedBits
  <2>3. PICK f, r : f = c[l][at] /\ r = bits[l]
    OBVIOUS
  <2>4. f \in [PointsIn[l] -> SUBSET (0 .. GroupBits - 1)]
    BY <2>1, <2>3
  <2>5. PICK b : b = Bit(offset)
    OBVIOUS
  <2>6. r = [p \in PointsIn[l] |-> IF <<l, p>> \in M THEN f[p] \union {b} ELSE f[p] \ {b}]
    BY <2>2, <2>3, <2>5
  <2>7. r \in [PointsIn[l] -> SUBSET (0 .. GroupBits - 1)]
    BY <1>1, <2>4, <2>5, <2>6
  <2>8. \A p \in PointsIn[l] : /\ (b \in r[p]) <=> (<<l, p>> \in M)
                               /\ \A x : x # b => (x \in r[p] <=> x \in f[p])
    BY <2>6
  <2> QED
    BY <2>3, <2>5, <2>7, <2>8
<1>4. \A m \in Points : m[1] \in Leaves /\ m[2] \in PointsIn[m[1]] /\ m = <<m[1], m[2]>>
  BY DEF Points
<1> HIDE DEF bits, e, at
<1>5. Typed(D, e)
  <2> SUFFICES ASSUME NEW l \in Leaves, NEW pos \in 1 .. n
               PROVE  e[l][pos] \in [PointsIn[l] -> IF D.names[pos] \in GroupNames
                                                    THEN SUBSET (0 .. GroupBits - 1)
                                                    ELSE Values]
    BY DEF Typed
  <2>1. CASE pos = at
    BY <1>1, <1>2, <1>3, <2>1
  <2>2. CASE pos # at
    BY <1>2, <2>2 DEF Typed
  <2> QED
    BY <2>1, <2>2
<1>6. MembersOf(D, e, offset) = M \intersect Points
  <2>1. \A m \in Points : (Bit(offset) \in e[m[1]][at][m[2]]) <=> (m \in M)
    BY <1>1, <1>2, <1>3, <1>4
  <2> QED
    BY <2>1 DEF MembersOf, at
<1>7. ASSUME NEW o \in Bits(D) \ {offset}
      PROVE  MembersOf(D, e, o) = MembersOf(D, c, o)
  <2> DEFINE a == GroupArray(D, o)
  <2>1. a \in 1 .. n
    BY ArrayLemma, GoodFacts
  <2>2. a = at => Bit(o) # Bit(offset)
    BY BitLemma DEF at
  <2> HIDE DEF a
  <2>3. \A m \in Points : (Bit(o) \in e[m[1]][a][m[2]]) <=> (Bit(o) \in c[m[1]][a][m[2]])
    <3> TAKE m \in Points
    <3>1. CASE a = at
      BY <1>2, <1>3, <1>4, <2>1, <2>2, <3>1
    <3>2. CASE a # at
      BY <1>2, <1>4, <2>1, <3>2
    <3> QED
      BY <3>1, <3>2
  <2> QED
    BY <2>3 DEF MembersOf, a
<1>8. ASSUME NEW l \in Leaves, NEW pos \in 1 .. n, D.names[pos] \notin GroupNames
      PROVE  e[l][pos] = c[l][pos]
  BY <1>1, <1>2, <1>8
<1> QED
  BY <1>5, <1>6, <1>7, <1>8 DEF Marks, e

-------------------------------------------------------------------------------
(* What a client sees of a tree.                                           *)

ValuesOf(D, c) == [name \in ToSet(D.names) \ GroupNames |-> [l \in Leaves |-> c[l][Find(D, name)]]]

GroupsOf(D, c) == [g \in DOMAIN D.groups |-> MembersOf(D, c, D.groups[g])]

SeenBy(D, c) == [values |-> ValuesOf(D, c), groups |-> GroupsOf(D, c)]

\* What a client sees of a tree follows from its descriptor and content.
LEMMA SeenLemma ==
    ASSUME NEW W, Sound(W), NEW t \in Trees, NEW D, NEW c, Shows(W, t, D, c)
    PROVE  Seen(W, t) = SeenBy(D, c)
<1>1. Good(D) /\ Descriptor(W, t) = D
  BY DescribedGood, DescriptorLemma DEF Shows
<1>2. ASSUME NEW name \in ToSet(D.names) \ GroupNames, NEW l \in Leaves
      PROVE  Content(W, t, l, Find(D, name)) = c[l][Find(D, name)]
  <2>1. PICK i \in 1 .. Len(D.names) : D.names[i] = name
    BY <1>1, GoodFacts DEF ToSet
  <2>2. Find(D, name) = i
    BY <1>1, <2>1, FindLemma
  <2> QED
    BY <2>2 DEF Shows, Stores, Content, Attrs
<1>3. ASSUME NEW g \in DOMAIN D.groups
      PROVE  Members(W, t, D.groups[g]) = MembersOf(D, c, D.groups[g])
  <2>1. D.groups[g] \in Bits(D)
    BY <1>1, GoodFacts
  <2> QED
    BY <2>1, MembersLemma
<1>4. [name \in ToSet(D.names) \ GroupNames |-> [l \in Leaves |-> Content(W, t, l, Find(D, name))]]
        = ValuesOf(D, c)
  BY <1>2 DEF ValuesOf
<1>5. [g \in DOMAIN D.groups |-> Members(W, t, D.groups[g])] = GroupsOf(D, c)
  BY <1>3 DEF GroupsOf
<1> QED
  BY <1>1, <1>4, <1>5 DEF Seen, SeenBy

\* A name is in a descriptor exactly if it has a position.
LEMMA NamesFacts ==
    ASSUME NEW D, Good(D)
    PROVE  \A name : name \in ToSet(D.names) <=> \E i \in 1 .. Len(D.names) : D.names[i] = name
  BY GoodFacts DEF ToSet

\* What all leaves have at a position.
Column(c, pos) == [l \in Leaves |-> c[l][pos]]

\* The values seen are those of attributes other than group arrays.
LEMMA ValuesDomain ==
    ASSUME NEW D, NEW c
    PROVE  /\ DOMAIN ValuesOf(D, c) = ToSet(D.names) \ GroupNames
           /\ ValuesOf(D, c) = [name \in ToSet(D.names) \ GroupNames |-> ValuesOf(D, c)[name]]
  BY DEF ValuesOf

\* The values of an attribute are the column at its position.
LEMMA ValueAt ==
    ASSUME NEW D, Good(D), NEW c, NEW i \in 1 .. Len(D.names), D.names[i] \notin GroupNames
    PROVE  ValuesOf(D, c)[D.names[i]] = Column(c, i)
<1>1. D.names[i] \in ToSet(D.names) \ GroupNames
  BY NamesFacts
<1>2. Find(D, D.names[i]) = i
  BY FindLemma
<1>3. ValuesOf(D, c)[D.names[i]] = [l \in Leaves |-> c[l][Find(D, D.names[i])]]
  BY <1>1 DEF ValuesOf
<1> QED
  BY <1>2, <1>3 DEF Column

\* V has the values of all attributes.
HasValues(V, D, c) ==
    /\ V = [name \in ToSet(D.names) \ GroupNames |-> V[name]]
    /\ \A i \in 1 .. Len(D.names) : D.names[i] \notin GroupNames => V[D.names[i]] = Column(c, i)

\* Two views with the same columns are equal.
LEMMA ValuesEqual ==
    ASSUME NEW D, Good(D), NEW c, NEW V, HasValues(V, D, c)
    PROVE  ValuesOf(D, c) = V
<1> DEFINE S == ToSet(D.names) \ GroupNames
<1>0. /\ V = [name \in S |-> V[name]]
      /\ \A i \in 1 .. Len(D.names) : D.names[i] \notin GroupNames => V[D.names[i]] = Column(c, i)
  BY DEF HasValues
<1>1. ASSUME NEW name \in S PROVE ValuesOf(D, c)[name] = V[name]
  <2>1. name \in ToSet(D.names) /\ name \notin GroupNames
    OBVIOUS
  <2>2. PICK i \in 1 .. Len(D.names) : D.names[i] = name
    BY <2>1, NamesFacts
  <2>3. V[name] = Column(c, i)
    BY <1>0, <2>1, <2>2
  <2>4. ValuesOf(D, c)[name] = Column(c, i)
    <3>1. D.names[i] \notin GroupNames
      BY <2>1, <2>2
    <3>2. ValuesOf(D, c)[D.names[i]] = Column(c, i)
      BY <3>1, ValueAt
    <3> QED
      BY <2>2, <3>2
  <2> QED
    BY <2>3, <2>4
<1>2. ValuesOf(D, c) = [name \in S |-> ValuesOf(D, c)[name]]
  <2>1. ValuesOf(D, c) = [name \in ToSet(D.names) \ GroupNames |-> ValuesOf(D, c)[name]]
    BY DEF ValuesOf
  <2> QED
    BY <2>1
<1> QED
  BY <1>0, <1>1, <1>2

\* What operations keep of a tree: Position is there, and arrays hold what they should.
Full(D, c) == Typed(D, c) /\ Position \in ToSet(D.names)

\* W becomes a sound X with t as seen, and all else as it was.
Turns(W, X, t, seen) ==
    \E D, c : Becomes(W, X, t, D, c) /\ Typed(D, c) /\ SeenBy(D, c) = seen

\* What Turns promises about the tree and the others.
LEMMA TurnsSeen ==
    ASSUME NEW W, NEW X, NEW t \in Trees, NEW seen, Turns(W, X, t, seen)
    PROVE  Seen(X, t) = seen /\ Sound(X) /\ Others(W, X, t)
  BY SeenLemma DEF Turns, Becomes

\* An attribute is appended: the others keep their values, and groups their members.
LEMMA AppendContent ==
    ASSUME NEW D, Good(D), NEW c, Full(D, c), NEW name \in Names, NEW E, AppendsTo(D, name, E)
    PROVE  LET e == Put(c, Len(D.names) + 1, Len(D.names) + 1, Blank(name)) IN
           /\ Full(E, e) /\ GroupsOf(E, e) = GroupsOf(D, c)
           /\ name \in GroupNames => ValuesOf(E, e) = ValuesOf(D, c)
           /\ name \notin GroupNames =>
                ValuesOf(E, e) = With(ValuesOf(D, c), name, Filled(Initial))
           /\ \A l \in Leaves : e[l][Len(D.names) + 1] = Blank(name)[l]
<1> DEFINE n == Len(D.names)
           e == Put(c, n + 1, n + 1, Blank(name))
<1>1. /\ Good(E) /\ E.groups = D.groups /\ Len(E.names) = n + 1
      /\ \A i \in 1 .. n : E.names[i] = D.names[i]
      /\ E.names[n + 1] = name
      /\ \A o \in Bits(D) : GroupArray(E, o) = GroupArray(D, o)
  BY DEF AppendsTo, SameArrays
<1>2. n \in Nat /\ \A i : i \in 1 .. n + 1 <=> i \in 1 .. n \/ i = n + 1
  <2>1. n \in Nat
    BY GoodFacts
  <2> HIDE DEF n
  <2> QED
    BY <2>1
<1>3. ASSUME NEW l \in Leaves
      PROVE  /\ \A i \in 1 .. n : e[l][i] = c[l][i]
             /\ e[l][n + 1] = Blank(name)[l]
  <2> HIDE DEF n
  <2>1. \A i \in 1 .. n + 1 : e[l][i] = IF i = n + 1 THEN Blank(name)[l] ELSE c[l][i]
    BY PutFacts
  <2>2. n + 1 \in 1 .. n + 1 /\ \A i \in 1 .. n : i \in 1 .. n + 1 /\ i # n + 1
    BY <1>2
  <2> QED
    BY <2>1, <2>2
<1>4. ASSUME NEW l \in Leaves
      PROVE  Blank(name)[l] \in [PointsIn[l] -> IF name \in GroupNames
                                                THEN SUBSET (0 .. GroupBits - 1) ELSE Values]
  BY AttributesAssumption DEF Blank
<1> HIDE DEF e, n
<1>5. Typed(E, e)
  <2> SUFFICES ASSUME NEW l \in Leaves, NEW pos \in 1 .. n + 1
               PROVE  e[l][pos] \in [PointsIn[l] -> IF E.names[pos] \in GroupNames
                                                    THEN SUBSET (0 .. GroupBits - 1)
                                                    ELSE Values]
    BY <1>1 DEF Typed
  <2>1. CASE pos \in 1 .. n
    BY <1>1, <1>3, <2>1 DEF Full, Typed, n
  <2>2. CASE pos = n + 1
    BY <1>1, <1>3, <1>4, <2>2
  <2> QED
    BY <1>2, <2>1, <2>2
<1>6. \A x : x \in ToSet(E.names) <=> x \in ToSet(D.names) \/ x = name
  <2>1. \A x : x \in ToSet(D.names) <=> \E i \in 1 .. n : D.names[i] = x
    BY NamesFacts DEF n
  <2>2. \A x : x \in ToSet(E.names) <=> \E i \in 1 .. n + 1 : E.names[i] = x
    <3>1. \A x : x \in ToSet(E.names) <=> \E i \in 1 .. Len(E.names) : E.names[i] = x
      BY <1>1, NamesFacts
    <3> QED
      BY <1>1, <3>1
  <2> QED
    BY <1>1, <1>2, <2>1, <2>2
<1>7. Full(E, e)
  BY <1>5, <1>6 DEF Full
<1>8. GroupsOf(E, e) = GroupsOf(D, c)
  <2>1. ASSUME NEW g \in DOMAIN D.groups
        PROVE  MembersOf(E, e, D.groups[g]) = MembersOf(D, c, D.groups[g])
    <3> DEFINE o == D.groups[g]
    <3>1. o \in Bits(D)
      BY GoodFacts
    <3>2. GroupArray(E, o) = GroupArray(D, o) /\ GroupArray(D, o) \in 1 .. n
      BY <1>1, <3>1, ArrayLemma, GoodFacts DEF n
    <3>3. \A m \in Points : m[1] \in Leaves
      BY DEF Points
    <3> HIDE DEF o
    <3>4. \A m \in Points : e[m[1]][GroupArray(E, o)] = c[m[1]][GroupArray(D, o)]
      BY <1>3, <3>2, <3>3
    <3> QED
      BY <3>4 DEF MembersOf, o
  <2> QED
    BY <1>1, <2>1 DEF GroupsOf
<1>9. ASSUME NEW V, NEW S, V = [x \in S |-> V[x]], ToSet(E.names) \ GroupNames = S,
             \A i \in 1 .. n : D.names[i] \notin GroupNames => V[D.names[i]] = ValuesOf(D, c)[D.names[i]],
             name \notin GroupNames => V[name] = Blank(name)
      PROVE  ValuesOf(E, e) = V
  <2>1. ASSUME NEW i \in 1 .. n + 1, E.names[i] \notin GroupNames
        PROVE  V[E.names[i]] = Column(e, i)
    <3>1. CASE i \in 1 .. n
      <4>1. V[E.names[i]] = Column(c, i)
        <5>1. E.names[i] = D.names[i] /\ D.names[i] \notin GroupNames
          BY <1>1, <2>1, <3>1
        <5>2. ValuesOf(D, c)[D.names[i]] = Column(c, i)
          BY <3>1, <5>1, ValueAt DEF n
        <5> QED
          BY <1>9, <3>1, <5>1, <5>2
      <4>2. Column(e, i) = Column(c, i)
        BY <1>3, <3>1 DEF Column
      <4> QED
        BY <4>1, <4>2
    <3>2. CASE i = n + 1
      <4>1. Column(e, i) = [l \in Leaves |-> Blank(name)[l]]
        BY <1>3, <3>2 DEF Column
      <4>2. Blank(name) = [l \in Leaves |-> Blank(name)[l]]
        BY DEF Blank
      <4> QED
        BY <1>1, <1>9, <2>1, <3>2, <4>1, <4>2
    <3> QED
      BY <1>2, <3>1, <3>2
  <2>2. HasValues(V, E, e)
    BY <1>1, <1>9, <2>1 DEF HasValues
  <2> QED
    BY <1>1, <2>2, ValuesEqual
<1>10. ASSUME name \in GroupNames PROVE ValuesOf(E, e) = ValuesOf(D, c)
  <2>1. ToSet(E.names) \ GroupNames = ToSet(D.names) \ GroupNames
    BY <1>6, <1>10
  <2> DEFINE V == ValuesOf(D, c)
  <2>2. V = [x \in ToSet(E.names) \ GroupNames |-> V[x]]
    <3>1. V = [x \in ToSet(D.names) \ GroupNames |-> V[x]]
      BY ValuesDomain
    <3> HIDE DEF V
    <3> QED
      BY <2>1, <3>1
  <2> HIDE DEF V
  <2>3. \A i \in 1 .. n : D.names[i] \notin GroupNames => V[D.names[i]] = ValuesOf(D, c)[D.names[i]]
    BY DEF V
  <2>4. ValuesOf(E, e) = V
    BY <1>9, <1>10, <2>2, <2>3
  <2> QED
    BY <2>4 DEF V
<1>11. ASSUME name \notin GroupNames
       PROVE  ValuesOf(E, e) = With(ValuesOf(D, c), name, Filled(Initial))
  <2> DEFINE U == ValuesOf(D, c)
             V == With(U, name, Filled(Initial))
  <2>1. DOMAIN U = ToSet(D.names) \ GroupNames
    BY ValuesDomain
  <2>2. Filled(Initial) = Blank(name)
    BY <1>11 DEF Filled, Blank
  <2> HIDE DEF U
  <2>3. ToSet(E.names) \ GroupNames = DOMAIN U \union {name}
    BY <1>6, <1>11, <2>1
  <2>4. V = [x \in ToSet(E.names) \ GroupNames |-> V[x]]
    BY <2>3 DEF With
  <2>5. ASSUME NEW i \in 1 .. n, D.names[i] \notin GroupNames PROVE V[D.names[i]] = U[D.names[i]]
    <3>1. D.names[i] \in DOMAIN U
      BY <2>1, <2>5, NamesFacts DEF n
    <3>2. D.names[i] # name
      <4>1. \A k, m \in 1 .. n + 1 : E.names[k] = E.names[m] => k = m
        BY <1>1, GoodFacts
      <4>2. i \in 1 .. n + 1 /\ n + 1 \in 1 .. n + 1 /\ i # n + 1
        BY <1>2
      <4> QED
        BY <1>1, <4>1, <4>2
    <3> QED
      BY <3>1, <3>2 DEF With
  <2>6. V[name] = Blank(name)
    BY <2>2 DEF With
  <2> HIDE DEF V
  <2>7. ValuesOf(E, e) = V
    BY <1>9, <2>4, <2>5, <2>6 DEF U
  <2> QED
    BY <2>7 DEF V, U
<1> QED
  BY <1>3, <1>7, <1>8, <1>10, <1>11 DEF e, n

\* The type of one array.
LEMMA TypedAt ==
    ASSUME NEW D, NEW c, Typed(D, c), NEW l \in Leaves, NEW pos \in 1 .. Len(D.names)
    PROVE  c[l][pos] \in [PointsIn[l] -> IF D.names[pos] \in GroupNames
                                         THEN SUBSET (0 .. GroupBits - 1) ELSE Values]
  BY DEF Typed

\* Another map of groups changes nothing else.
LEMMA SameNames ==
    ASSUME NEW D, NEW E, E.names = D.names, NEW c
    PROVE  /\ ValuesOf(E, c) = ValuesOf(D, c)
           /\ Typed(D, c) => Typed(E, c)
           /\ \A offset : MembersOf(E, c, offset) = MembersOf(D, c, offset)
<1>1. /\ \A offset : GroupArray(E, offset) = GroupArray(D, offset)
      /\ \A name : Find(E, name) = Find(D, name)
  BY NamesOnly
<1>2. ValuesOf(E, c) = ValuesOf(D, c)
  BY <1>1 DEF ValuesOf
<1>3. Typed(D, c) => Typed(E, c)
  BY DEF Typed
<1>4. \A offset : MembersOf(E, c, offset) = MembersOf(D, c, offset)
  BY <1>1 DEF MembersOf
<1> QED
  BY <1>2, <1>3, <1>4

\* Attributes are dropped: what is left keeps its values and members.
Gone(D, drop) == {g \in DOMAIN D.groups : GroupArray(D, D.groups[g]) \in drop}

\* What is seen after dropping: everything but the dropped attributes and the
\* groups in dropped arrays.
LEMMA DropContent ==
    ASSUME NEW D, Good(D), NEW c, Typed(D, c), NEW drop \in SUBSET (1 .. Len(D.names)),
           NEW E, DropsTo(D, drop, E)
    PROVE  LET e == Left(D, c, drop) IN
           /\ Typed(E, e)
           /\ ValuesOf(E, e) = Without(ValuesOf(D, c), {D.names[pos] : pos \in drop})
           /\ GroupsOf(E, e) = Without(GroupsOf(D, c), Gone(D, drop))
<1> DEFINE n == Len(D.names)
           K == Remaining(D, drop)
           k == Cardinality(K)
           e == Left(D, c, drop)
           to(p) == PosAfter(D, drop, p)
<1>1. /\ Good(E) /\ Len(E.names) = k
      /\ \A p \in K : to(p) \in 1 .. k /\ E.names[to(p)] = D.names[p]
      /\ \A i \in 1 .. k : Ranked(K, i - 1) \in K /\ to(Ranked(K, i - 1)) = i
      /\ DOMAIN E.groups = {g \in DOMAIN D.groups : GroupArray(D, D.groups[g]) \notin drop}
      /\ \A g \in DOMAIN E.groups : /\ GroupArray(E, E.groups[g]) = to(GroupArray(D, D.groups[g]))
                                    /\ Bit(E.groups[g]) = Bit(D.groups[g])
  BY DEF DropsTo, Remaining
<1>2. K \subseteq 1 .. n /\ \A p \in 1 .. n : p \in K <=> p \notin drop
  BY DEF Remaining
<1>3. \A l \in Leaves, i \in 1 .. k : e[l][i] = c[l][Ranked(K, i - 1)]
  BY DEF Left, Picked
<1>4. \A i, j \in 1 .. n : D.names[i] = D.names[j] => i = j
  BY GoodFacts
<1> HIDE DEF K, k, e, to
<1>5. ASSUME NEW p \in K PROVE Ranked(K, to(p) - 1) = p
  <2>1. to(p) \in 1 .. k /\ E.names[to(p)] = D.names[p]
    BY <1>1
  <2>2. PICK i \in 1 .. k : i = to(p)
    BY <2>1
  <2>3. PICK q \in K : q = Ranked(K, i - 1) /\ to(q) = i
    BY <1>1
  <2>4. E.names[i] = D.names[q]
    BY <1>1, <2>3
  <2>5. p \in 1 .. n /\ q \in 1 .. n
    BY <1>2
  <2>6. q = p
    BY <1>4, <2>1, <2>2, <2>4, <2>5
  <2> QED
    BY <2>2, <2>3, <2>6
<1>6. \A p \in K, l \in Leaves : e[l][to(p)] = c[l][p]
  BY <1>1, <1>3, <1>5
<1>7. ASSUME NEW i \in 1 .. k PROVE \E p \in K : to(p) = i /\ E.names[i] = D.names[p]
  <2>1. PICK q \in K : q = Ranked(K, i - 1) /\ to(q) = i
    BY <1>1
  <2> QED
    BY <1>1, <2>1
<1>8. Typed(E, e)
  <2> SUFFICES ASSUME NEW l \in Leaves, NEW i \in 1 .. k
               PROVE  e[l][i] \in [PointsIn[l] -> IF E.names[i] \in GroupNames
                                                  THEN SUBSET (0 .. GroupBits - 1)
                                                  ELSE Values]
    BY <1>1 DEF Typed
  <2>1. PICK p \in K : to(p) = i /\ E.names[i] = D.names[p]
    BY <1>7
  <2>2. e[l][i] = c[l][p] /\ p \in 1 .. n
    BY <1>2, <1>6, <2>1
  <2> QED
    BY <2>1, <2>2, TypedAt
<1> DEFINE S == {D.names[pos] : pos \in drop}
<1>9. \A p \in 1 .. n : D.names[p] \in S <=> p \notin K
  BY <1>2, <1>4
<1>10. \A name : name \in ToSet(E.names) <=> name \in ToSet(D.names) /\ name \notin S
  <2>1. \A name : name \in ToSet(E.names) <=> \E i \in 1 .. k : E.names[i] = name
    <3>1. \A name : name \in ToSet(E.names) <=> \E i \in 1 .. Len(E.names) : E.names[i] = name
      BY <1>1, NamesFacts
    <3> QED
      BY <1>1, <3>1
  <2>2. \A name : name \in ToSet(D.names) <=> \E p \in 1 .. n : D.names[p] = name
    BY NamesFacts
  <2> HIDE DEF S
  <2>3. ASSUME NEW name, name \in ToSet(E.names) PROVE name \in ToSet(D.names) /\ name \notin S
    <3>1. PICK i \in 1 .. k : E.names[i] = name
      BY <2>1, <2>3
    <3>2. PICK p \in K : E.names[i] = D.names[p]
      BY <1>7
    <3>3. p \in 1 .. n
      BY <1>2
    <3> QED
      BY <1>9, <2>2, <3>1, <3>2, <3>3
  <2>4. ASSUME NEW name, name \in ToSet(D.names), name \notin S PROVE name \in ToSet(E.names)
    <3>1. PICK p \in 1 .. n : D.names[p] = name
      BY <2>2, <2>4
    <3>2. p \in K
      BY <1>9, <2>4, <3>1
    <3> QED
      BY <1>1, <2>1, <3>1, <3>2
  <2> QED
    BY <2>3, <2>4
<1>11. ValuesOf(E, e) = Without(ValuesOf(D, c), S)
  <2> DEFINE U == ValuesOf(D, c)
             V == Without(U, S)
  <2>1. DOMAIN U = ToSet(D.names) \ GroupNames
    BY DEF ValuesOf
  <2> HIDE DEF U, S
  <2>2. ToSet(E.names) \ GroupNames = DOMAIN U \ S
    BY <1>10, <2>1
  <2>3. V = [name \in ToSet(E.names) \ GroupNames |-> V[name]]
    BY <2>2 DEF Without
  <2>4. ASSUME NEW i \in 1 .. Len(E.names), E.names[i] \notin GroupNames
        PROVE  V[E.names[i]] = Column(e, i)
    <3>1. PICK p \in K : to(p) = i /\ E.names[i] = D.names[p]
      BY <1>1, <1>7
    <3>2. p \in 1 .. n /\ D.names[p] \notin S /\ D.names[p] \notin GroupNames
      BY <1>2, <1>9, <2>4, <3>1
    <3>3. U[D.names[p]] = Column(c, p)
      BY <3>2, ValueAt DEF U
    <3>4. D.names[p] \in DOMAIN U \ S
      BY <2>1, <3>2, NamesFacts
    <3>5. V[D.names[p]] = U[D.names[p]]
      BY <3>4 DEF Without
    <3>6. Column(e, i) = Column(c, p)
      BY <1>6, <3>1 DEF Column
    <3> QED
      BY <3>1, <3>3, <3>5, <3>6
  <2> HIDE DEF V
  <2>5. ValuesOf(E, e) = V
    <3>1. HasValues(V, E, e)
      BY <2>3, <2>4 DEF HasValues
    <3> QED
      BY <1>1, <3>1, ValuesEqual
  <2> QED
    BY <2>5 DEF U, V
<1>12. GroupsOf(E, e) = Without(GroupsOf(D, c), Gone(D, drop))
  <2>1. DOMAIN GroupsOf(D, c) = DOMAIN D.groups
    BY DEF GroupsOf
  <2>2. DOMAIN E.groups = DOMAIN D.groups \ Gone(D, drop)
    BY <1>1 DEF Gone
  <2>3. ASSUME NEW g \in DOMAIN E.groups
        PROVE  MembersOf(E, e, E.groups[g]) = GroupsOf(D, c)[g]
    <3>1. g \in DOMAIN D.groups
      BY <1>1
    <3>2. D.groups[g] \in Bits(D)
      BY <3>1, GoodFacts
    <3> DEFINE a == GroupArray(D, D.groups[g])
               b == Bit(D.groups[g])
    <3>3. a \in 1 .. n /\ a \notin drop
      BY <1>1, <3>2, ArrayLemma, GoodFacts
    <3> HIDE DEF a
    <3>4. a \in K
      BY <1>2, <3>3
    <3>5. GroupArray(E, E.groups[g]) = to(a) /\ Bit(E.groups[g]) = b
      BY <1>1 DEF a
    <3> HIDE DEF b
    <3>6. \A m \in Points : e[m[1]][to(a)] = c[m[1]][a]
      BY <1>6, <3>4 DEF Points
    <3>7. MembersOf(E, e, E.groups[g]) = {m \in Points : b \in c[m[1]][a][m[2]]}
      BY <3>5, <3>6 DEF MembersOf
    <3>8. MembersOf(D, c, D.groups[g]) = {m \in Points : b \in c[m[1]][a][m[2]]}
      BY DEF MembersOf, a, b
    <3> QED
      BY <3>1, <3>7, <3>8 DEF GroupsOf
  <2> DEFINE G == GroupsOf(D, c)
  <2>4. GroupsOf(E, e) = [g \in DOMAIN E.groups |-> G[g]]
    BY <2>3 DEF GroupsOf
  <2> QED
    BY <2>1, <2>2, <2>4 DEF Without
<1> QED
  BY <1>8, <1>11, <1>12 DEF e

\* An attribute is renamed: it has its values under the other name.
LEMMA RenameContent ==
    ASSUME NEW D, Good(D), NEW c, Typed(D, c), NEW from \in ToSet(D.names) \ GroupNames,
           NEW to \in Ordinary \ ToSet(D.names), NEW E, RenamesTo(D, from, to, E)
    PROVE  /\ Typed(E, c)
           /\ ValuesOf(E, c) = With(Without(ValuesOf(D, c), {from}), to, ValuesOf(D, c)[from])
           /\ GroupsOf(E, c) = GroupsOf(D, c)
<1> DEFINE n == Len(D.names)
           U == ValuesOf(D, c)
           V == With(Without(U, {from}), to, U[from])
<1>1. /\ Good(E) /\ E.groups = D.groups /\ Len(E.names) = n
      /\ \A offset : GroupArray(E, offset) = GroupArray(D, offset)
  BY DEF RenamesTo
<1>2. PICK pos \in 1 .. n : /\ D.names[pos] = from /\ E.names[pos] = to
                            /\ \A i \in 1 .. n : i # pos => E.names[i] = D.names[i]
  BY DEF RenamesTo
<1>3. from \notin GroupNames /\ to \notin GroupNames /\ to \notin ToSet(D.names)
  BY DEF Ordinary
<1>4. \A i, j \in 1 .. n : D.names[i] = D.names[j] => i = j
  BY GoodFacts
<1>5. /\ \A name : name \in ToSet(D.names) <=> \E i \in 1 .. n : D.names[i] = name
      /\ \A name : name \in ToSet(E.names) <=> \E i \in 1 .. n : E.names[i] = name
  <2>1. \A name : name \in ToSet(E.names) <=> \E i \in 1 .. Len(E.names) : E.names[i] = name
    BY <1>1, NamesFacts
  <2> QED
    BY <1>1, <2>1, NamesFacts
<1>6. Typed(E, c)
  <2> SUFFICES ASSUME NEW l \in Leaves, NEW i \in 1 .. n
               PROVE  c[l][i] \in [PointsIn[l] -> IF E.names[i] \in GroupNames
                                                  THEN SUBSET (0 .. GroupBits - 1)
                                                  ELSE Values]
    BY <1>1 DEF Typed
  <2>1. E.names[i] \in GroupNames <=> D.names[i] \in GroupNames
    BY <1>2, <1>3
  <2> QED
    BY <2>1, TypedAt
<1>7. DOMAIN U = ToSet(D.names) \ GroupNames
  BY DEF ValuesOf
<1>8. U[from] = Column(c, pos)
  BY <1>2, <1>3, ValueAt
<1>9. HasValues(V, E, c)
  <2> HIDE DEF U, n
  <2>1. ToSet(E.names) \ GroupNames = (DOMAIN U \ {from}) \union {to}
    <3>1. ASSUME NEW name, name \in ToSet(E.names), name \notin GroupNames
          PROVE  name \in (DOMAIN U \ {from}) \union {to}
      <4>1. PICK i \in 1 .. n : E.names[i] = name
        BY <1>5, <3>1
      <4> QED
        BY <1>2, <1>4, <1>5, <1>7, <3>1, <4>1
    <3>2. ASSUME NEW name \in DOMAIN U \ {from}
          PROVE  name \in ToSet(E.names) /\ name \notin GroupNames
      <4>1. PICK i \in 1 .. n : D.names[i] = name /\ name \notin GroupNames
        BY <1>5, <1>7, <3>2
      <4> QED
        BY <1>2, <1>5, <3>2, <4>1
    <3>3. to \in ToSet(E.names)
      BY <1>2, <1>5
    <3> QED
      BY <1>3, <3>1, <3>2, <3>3
  <2>2. V = [name \in ToSet(E.names) \ GroupNames |-> V[name]]
    BY <2>1 DEF With, Without
  <2>3. ASSUME NEW i \in 1 .. n, E.names[i] \notin GroupNames
        PROVE  V[E.names[i]] = Column(c, i)
    <3>1. CASE i = pos
      BY <1>2, <1>8, <3>1 DEF With
    <3>2. CASE i # pos
      <4>1. PICK name : name = D.names[i]
        OBVIOUS
      <4>2. E.names[i] = name /\ name # from /\ name \in ToSet(D.names) /\ name \notin GroupNames
        BY <1>2, <1>4, <1>5, <2>3, <3>2, <4>1
      <4>3. U[name] = Column(c, i)
        BY <4>1, <4>2, ValueAt DEF U, n
      <4>4. name \in DOMAIN U \ {from} /\ name # to
        BY <1>3, <1>7, <4>2
      <4>5. V[name] = U[name]
        BY <4>4 DEF With, Without
      <4> QED
        BY <4>2, <4>3, <4>5
    <3> QED
      BY <3>1, <3>2
  <2> HIDE DEF V
  <2> QED
    BY <1>1, <2>2, <2>3 DEF HasValues
<1>10. ValuesOf(E, c) = V
  <2> HIDE DEF V
  <2> QED
    BY <1>1, <1>9, ValuesEqual
<1>11. GroupsOf(E, c) = GroupsOf(D, c)
  BY <1>1 DEF GroupsOf, MembersOf
<1> QED
  BY <1>6, <1>10, <1>11

\* Attributes are reordered: nobody sees it.
LEMMA ReorderContent ==
    ASSUME NEW D, Good(D), NEW c, Typed(D, c), NEW names, NEW E, ReordersTo(D, names, E)
    PROVE  LET e == Arranged(D, c, names)
           IN  Typed(E, e) /\ SeenBy(E, e) = SeenBy(D, c)
<1> DEFINE n == Len(D.names)
           e == Arranged(D, c, names)
           U == ValuesOf(D, c)
           at(i) == Find(D, names[i])
<1>1. /\ Good(E) /\ E.names = names /\ E.groups = D.groups /\ Len(names) = n
      /\ \A i \in 1 .. n : at(i) \in 1 .. n /\ D.names[at(i)] = names[i]
      /\ ToSet(names) = ToSet(D.names)
      /\ \A offset \in Bits(D) : /\ GroupArray(D, offset) = at(GroupArray(E, offset))
                                 /\ GroupArray(E, offset) \in 1 .. n
  BY DEF ReordersTo
<1>2. \A l \in Leaves, i \in 1 .. n : e[l][i] = c[l][at(i)]
  BY DEF Arranged, Picked
<1> HIDE DEF e, at, n
<1>3. Typed(E, e)
  <2> SUFFICES ASSUME NEW l \in Leaves, NEW i \in 1 .. n
               PROVE  e[l][i] \in [PointsIn[l] -> IF names[i] \in GroupNames
                                                  THEN SUBSET (0 .. GroupBits - 1)
                                                  ELSE Values]
    BY <1>1 DEF Typed
  <2> QED
    BY <1>1, <1>2, TypedAt DEF n
<1>4. HasValues(U, E, e)
  <2>1. U = [name \in ToSet(D.names) \ GroupNames |-> U[name]]
    BY DEF ValuesOf
  <2> HIDE DEF U
  <2>2. ASSUME NEW i \in 1 .. n, names[i] \notin GroupNames PROVE U[names[i]] = Column(e, i)
    <3>1. PICK p \in 1 .. n : p = at(i) /\ D.names[p] = names[i]
      BY <1>1
    <3>2. U[D.names[p]] = Column(c, p)
      BY <2>2, <3>1, ValueAt DEF U, n
    <3>3. Column(e, i) = Column(c, p)
      BY <1>2, <3>1 DEF Column
    <3> QED
      BY <3>1, <3>2, <3>3
  <2> QED
    BY <1>1, <2>1, <2>2 DEF HasValues
<1>5. ValuesOf(E, e) = U
  <2> HIDE DEF U
  <2> QED
    BY <1>1, <1>4, ValuesEqual
<1>6. ASSUME NEW g \in DOMAIN D.groups
      PROVE  MembersOf(E, e, D.groups[g]) = MembersOf(D, c, D.groups[g])
  <2> DEFINE o == D.groups[g]
             a == GroupArray(E, o)
  <2>1. o \in Bits(D)
    BY GoodFacts
  <2>2. a \in 1 .. n /\ GroupArray(D, o) = at(a)
    BY <1>1, <2>1
  <2> HIDE DEF o, a
  <2>3. \A m \in Points : e[m[1]][a] = c[m[1]][GroupArray(D, o)]
    BY <1>2, <2>2 DEF Points
  <2> QED
    BY <2>3 DEF MembersOf, o, a
<1>7. GroupsOf(E, e) = GroupsOf(D, c)
  BY <1>1, <1>6 DEF GroupsOf
<1> QED
  BY <1>3, <1>5, <1>7 DEF SeenBy, e

\* An attribute is written: all others stay.
LEMMA CollapseContent ==
    ASSUME NEW D, Good(D), NEW c, Typed(D, c), NEW name \in ToSet(D.names) \ GroupNames,
           NEW v \in Values
    PROVE  LET e == Put(c, Len(D.names), Find(D, name), Filled(v)) IN
           /\ Find(D, name) \in 1 .. Len(D.names)
           /\ Typed(D, e)
           /\ ValuesOf(D, e) = [ValuesOf(D, c) EXCEPT ![name] = Filled(v)]
           /\ GroupsOf(D, e) = GroupsOf(D, c)
<1> DEFINE n == Len(D.names)
           pos == Find(D, name)
           e == Put(c, n, pos, Filled(v))
           U == ValuesOf(D, c)
           V == [U EXCEPT ![name] = Filled(v)]
<1>1. pos \in 1 .. n /\ D.names[pos] = name
  <2>1. PICK i \in 1 .. n : D.names[i] = name
    BY NamesFacts
  <2> QED
    BY <2>1, FindLemma
<1>2. \A i, j \in 1 .. n : D.names[i] = D.names[j] => i = j
  BY GoodFacts
<1> HIDE DEF n, pos
<1>3. \A l \in Leaves, i \in 1 .. n : e[l][i] = IF i = pos THEN Filled(v)[l] ELSE c[l][i]
  BY PutFacts
<1> HIDE DEF e
<1>4. Typed(D, e)
  <2> SUFFICES ASSUME NEW l \in Leaves, NEW i \in 1 .. n
               PROVE  e[l][i] \in [PointsIn[l] -> IF D.names[i] \in GroupNames
                                                  THEN SUBSET (0 .. GroupBits - 1)
                                                  ELSE Values]
    BY DEF Typed, n
  <2>1. CASE i = pos
    BY <1>1, <1>3, <2>1 DEF Filled
  <2>2. CASE i # pos
    BY <1>3, <2>2, TypedAt DEF n
  <2> QED
    BY <2>1, <2>2
<1>5. HasValues(V, D, e)
  <2>1. U = [x \in ToSet(D.names) \ GroupNames |-> U[x]]
    BY DEF ValuesOf
  <2> HIDE DEF U
  <2>2. V = [x \in ToSet(D.names) \ GroupNames |-> V[x]]
    BY <2>1
  <2>3. ASSUME NEW i \in 1 .. n, D.names[i] \notin GroupNames
        PROVE  V[D.names[i]] = Column(e, i)
    <3>1. D.names[i] \in ToSet(D.names) \ GroupNames
      BY <2>3, NamesFacts DEF n
    <3>2. CASE i = pos
      <4>1. V[D.names[i]] = Filled(v)
        BY <1>1, <2>1, <3>1, <3>2
      <4>2. Column(e, i) = [l \in Leaves |-> Filled(v)[l]]
        BY <1>3, <3>2 DEF Column
      <4>3. Filled(v) = [l \in Leaves |-> Filled(v)[l]]
        BY DEF Filled
      <4> QED
        BY <4>1, <4>2, <4>3
    <3>3. CASE i # pos
      <4>1. D.names[i] # name
        BY <1>1, <1>2, <3>3
      <4>2. V[D.names[i]] = U[D.names[i]]
        BY <2>1, <3>1, <4>1
      <4>3. U[D.names[i]] = Column(c, i)
        BY <2>3, ValueAt DEF U, n
      <4>4. Column(e, i) = Column(c, i)
        BY <1>3, <3>3 DEF Column
      <4> QED
        BY <4>2, <4>3, <4>4
    <3> QED
      BY <3>2, <3>3
  <2> HIDE DEF V
  <2> QED
    BY <2>2, <2>3 DEF HasValues, n
<1>6. ValuesOf(D, e) = V
  <2> HIDE DEF V
  <2> QED
    BY <1>5, ValuesEqual
<1>7. ASSUME NEW g \in DOMAIN D.groups
      PROVE  MembersOf(D, e, D.groups[g]) = MembersOf(D, c, D.groups[g])
  <2> DEFINE o == D.groups[g]
             a == GroupArray(D, o)
  <2>1. o \in Bits(D)
    BY GoodFacts
  <2>2. a \in 1 .. n /\ D.names[a] \in GroupNames
    BY <2>1, ArrayLemma, GoodFacts DEF n
  <2>3. a # pos
    BY <1>1, <2>2
  <2> HIDE DEF o, a
  <2>4. \A m \in Points : e[m[1]][a] = c[m[1]][a]
    BY <1>3, <2>2, <2>3 DEF Points
  <2> QED
    BY <2>4 DEF MembersOf, o, a
<1>8. GroupsOf(D, e) = GroupsOf(D, c)
  BY <1>7 DEF GroupsOf
<1> QED
  BY <1>1, <1>4, <1>6, <1>8 DEF e, n, pos

-------------------------------------------------------------------------------
(* Operations on attributes do what they say.                              *)

\* Doing nothing leaves all other trees alone.
LEMMA OthersSame ==
    ASSUME NEW W, NEW t
    PROVE  Others(W, W, t)
  BY DEF Others, Kept, KeptAt

\* A leaf has a first array, from which the size is read.
LEMMA PositionFirst ==
    ASSUME NEW D, Good(D), NEW c, Full(D, c)
    PROVE  1 \in 1 .. Len(D.names)
<1>1. PICK i \in 1 .. Len(D.names) : D.names[i] = Position
  BY NamesFacts DEF Full
<1>2. Len(D.names) \in Nat
  BY GoodFacts
<1> QED
  BY <1>1, <1>2

\* appendAttribute() does what AttributesMeetContract says.
LEMMA AppendTurns ==
    ASSUME NEW W, Sound(W), NEW t \in Trees, NEW D, NEW c, Shows(W, t, D, c), Full(D, c),
           NEW name \in Ordinary \ ToSet(D.names)
    PROVE  Turns(W, Appended(W, t, name), t,
                 [values |-> With(ValuesOf(D, c), name, Filled(Initial)),
                  groups |-> GroupsOf(D, c)])
<1> DEFINE E == WithName(D, name)
           e == Put(c, Len(D.names) + 1, Len(D.names) + 1, Blank(name))
<1>1. Good(D) /\ name \in Names /\ name \notin ToSet(D.names) /\ name \notin GroupNames
  BY DescribedGood DEF Shows, Ordinary
<1>2. 1 \in 1 .. Len(D.names)
  BY <1>1, PositionFirst
<1>3. Becomes(W, Appended(W, t, name), t, E, e)
  BY <1>1, <1>2, AppendedLemma
<1>4. AppendsTo(D, name, E)
  BY <1>1, AppendLemma
<1> HIDE DEF E
<1>5. /\ Full(E, e) /\ GroupsOf(E, e) = GroupsOf(D, c)
      /\ ValuesOf(E, e) = With(ValuesOf(D, c), name, Filled(Initial))
  BY <1>1, <1>4, AppendContent
<1> HIDE DEF e
<1> QED
  BY <1>3, <1>5 DEF Turns, Full, SeenBy

\* What is left of t, and its descriptor.
Drops(W, t, D, c, drop) ==
    \E E, e : /\ Becomes(W, Dropped(W, t, drop), t, E, e) /\ Typed(E, e)
              /\ ValuesOf(E, e) = Without(ValuesOf(D, c), {D.names[pos] : pos \in drop})
              /\ GroupsOf(E, e) = Without(GroupsOf(D, c), Gone(D, drop))
              /\ drop # {} => DropsTo(D, drop, E)

\* dropAttributes() also with nothing to drop.
LEMMA DropSeen ==
    ASSUME NEW W, Sound(W), NEW t \in Trees, NEW D, NEW c, Shows(W, t, D, c), Typed(D, c),
           NEW drop \in SUBSET (1 .. Len(D.names))
    PROVE  Drops(W, t, D, c, drop)
<1>1. Good(D)
  BY DescribedGood DEF Shows
<1>2. CASE drop # {}
  <2> DEFINE E == DuplicateDrop(D, drop)
             e == Left(D, c, drop)
  <2>1. Becomes(W, Dropped(W, t, drop), t, E, e)
    BY <1>2, DroppedLemma
  <2>2. DropsTo(D, drop, E)
    BY <1>1, DropLemma
  <2> HIDE DEF E
  <2>3. /\ Typed(E, e)
        /\ ValuesOf(E, e) = Without(ValuesOf(D, c), {D.names[pos] : pos \in drop})
        /\ GroupsOf(E, e) = Without(GroupsOf(D, c), Gone(D, drop))
    BY <1>1, <2>2, DropContent
  <2> HIDE DEF e
  <2> QED
    BY <2>1, <2>2, <2>3 DEF Drops
<1>3. CASE drop = {}
  <2>1. Dropped(W, t, drop) = W
    BY <1>3 DEF Dropped
  <2>2. Without(ValuesOf(D, c), {D.names[pos] : pos \in drop}) = ValuesOf(D, c)
    <3>1. {D.names[pos] : pos \in drop} = {}
      BY <1>3
    <3>2. ValuesOf(D, c) = [x \in DOMAIN ValuesOf(D, c) |-> ValuesOf(D, c)[x]]
      BY DEF ValuesOf
    <3> QED
      BY <3>1, <3>2 DEF Without
  <2>3. Without(GroupsOf(D, c), Gone(D, drop)) = GroupsOf(D, c)
    <3>1. Gone(D, drop) = {}
      BY <1>3 DEF Gone
    <3>2. GroupsOf(D, c) = [x \in DOMAIN GroupsOf(D, c) |-> GroupsOf(D, c)[x]]
      BY DEF GroupsOf
    <3> QED
      BY <3>1, <3>2 DEF Without
  <2>4. Becomes(W, W, t, D, c)
    BY OthersSame DEF Becomes
  <2> QED
    BY <1>3, <2>1, <2>2, <2>3, <2>4 DEF Drops
<1> QED
  BY <1>2, <1>3

\* dropAttributes() does what AttributesMeetContract says.
LEMMA DropTurns ==
    ASSUME NEW W, Sound(W), NEW t \in Trees, NEW D, NEW c, Shows(W, t, D, c), Typed(D, c),
           NEW drop \in SUBSET (1 .. Len(D.names))
    PROVE  Turns(W, Dropped(W, t, drop), t,
                 [values |-> Without(ValuesOf(D, c), {D.names[pos] : pos \in drop}),
                  groups |-> Without(GroupsOf(D, c), Gone(D, drop))])
<1>1. Drops(W, t, D, c, drop)
  BY DropSeen
<1>2. PICK E, e : /\ Becomes(W, Dropped(W, t, drop), t, E, e) /\ Typed(E, e)
                  /\ ValuesOf(E, e) = Without(ValuesOf(D, c), {D.names[pos] : pos \in drop})
                  /\ GroupsOf(E, e) = Without(GroupsOf(D, c), Gone(D, drop))
  BY <1>1 DEF Drops
<1> QED
  BY <1>2 DEF Turns, SeenBy

\* renameAttributes() does what AttributesMeetContract says.
LEMMA RenameTurns ==
    ASSUME NEW W, Sound(W), NEW t \in Trees, NEW D, NEW c, Shows(W, t, D, c), Typed(D, c),
           NEW from \in ToSet(D.names) \ GroupNames, NEW to \in Ordinary \ ToSet(D.names)
    PROVE  Turns(W, Renamed(W, t, from, to), t,
                 [values |-> With(Without(ValuesOf(D, c), {from}), to, ValuesOf(D, c)[from]),
                  groups |-> GroupsOf(D, c)])
<1> DEFINE E == WithRenamed(D, from, to)
<1>1. Good(D)
  BY DescribedGood DEF Shows
<1>2. Becomes(W, Renamed(W, t, from, to), t, E, c)
  BY RenamedLemma
<1>3. RenamesTo(D, from, to, E)
  BY <1>1, RenameLemma
<1> HIDE DEF E
<1>4. /\ Typed(E, c)
      /\ ValuesOf(E, c) = With(Without(ValuesOf(D, c), {from}), to, ValuesOf(D, c)[from])
      /\ GroupsOf(E, c) = GroupsOf(D, c)
  BY <1>1, <1>3, RenameContent
<1> QED
  BY <1>2, <1>4 DEF Turns, SeenBy

\* reorderAttributes() changes nothing that is seen.
LEMMA ReorderTurns ==
    ASSUME NEW W, Sound(W), NEW t \in Trees, NEW D, NEW c, Shows(W, t, D, c), Typed(D, c),
           NEW names \in Orders(D)
    PROVE  Turns(W, Reordered(W, t, names), t, SeenBy(D, c))
<1> DEFINE E == WithOrder(D, names)
           e == Arranged(D, c, names)
<1>1. Good(D)
  BY DescribedGood DEF Shows
<1>2. Becomes(W, Reordered(W, t, names), t, E, e)
  BY ReorderedLemma
<1>3. ReordersTo(D, names, E)
  BY <1>1, ReorderLemma
<1> HIDE DEF E
<1>4. Typed(E, e) /\ SeenBy(E, e) = SeenBy(D, c)
  BY <1>1, <1>3, ReorderContent
<1> HIDE DEF e
<1> QED
  BY <1>2, <1>4 DEF Turns

\* collapseAttribute() does what AttributesMeetContract says.
LEMMA CollapseTurns ==
    ASSUME NEW W, Sound(W), NEW t \in Trees, NEW D, NEW c, Shows(W, t, D, c), Typed(D, c),
           NEW name \in ToSet(D.names) \ GroupNames, NEW v \in Values
    PROVE  Turns(W, Collapsed(W, t, name, v), t,
                 [values |-> [ValuesOf(D, c) EXCEPT ![name] = Filled(v)],
                  groups |-> GroupsOf(D, c)])
<1> DEFINE pos == Find(D, name)
           e == Put(c, Len(D.names), pos, Filled(v))
<1>1. Good(D) /\ Descriptor(W, t) = D
  BY DescribedGood, DescriptorLemma DEF Shows
<1>2. Collapsed(W, t, name, v) = Written(W, t, pos, Filled(v))
  BY <1>1 DEF Collapsed, Filled
<1>3. /\ pos \in 1 .. Len(D.names) /\ Typed(D, e)
      /\ ValuesOf(D, e) = [ValuesOf(D, c) EXCEPT ![name] = Filled(v)]
      /\ GroupsOf(D, e) = GroupsOf(D, c)
  BY <1>1, CollapseContent
<1> HIDE DEF pos
<1>4. Becomes(W, Written(W, t, pos, Filled(v)), t, D, e)
  BY <1>3, WrittenLemma
<1> HIDE DEF e
<1> QED
  BY <1>2, <1>3, <1>4 DEF Turns, SeenBy

-------------------------------------------------------------------------------
(* The invariant.                                                          *)

\* The leaves of a tree have one descriptor, and arrays for it.
Formed(W, t) == \E D, c : Shows(W, t, D, c) /\ Full(D, c)

\* Shared pointers point to descriptors and arrays that there are, and every tree is
\* formed.
Steady(W) == Sound(W) /\ \A t \in Trees : Formed(W, t)

\* The inductive invariant.
AttributesInv == Steady(World)

\* The contract of a tree in W with the descriptor D that is seen as seen.
Contract(W, t, D, seen) ==
    /\ \A name \in Ordinary \ ToSet(D.names) :
         Seen(Appended(W, t, name), t) = [seen EXCEPT !.values = With(@, name, Filled(Initial))]
    /\ \A drop \in SUBSET (2 .. Len(D.names)) :
         Seen(Dropped(W, t, drop), t)
           = [values |-> Without(seen.values, {D.names[pos] : pos \in drop}),
              groups |-> Without(seen.groups,
                {g \in DOMAIN D.groups : GroupArray(D, D.groups[g]) \in drop})]
    /\ \A from \in ToSet(D.names) \ GroupNames, to \in Ordinary \ ToSet(D.names) :
         Seen(Renamed(W, t, from, to), t)
           = [seen EXCEPT !.values = With(Without(@, {from}), to, @[from])]
    /\ \A names \in Orders(D) : Seen(Reordered(W, t, names), t) = seen
    /\ \A name \in ToSet(D.names) \ GroupNames, v \in Values :
         Seen(Collapsed(W, t, name, v), t) = [seen EXCEPT !.values[name] = Filled(v)]

\* Whatever the positions become, an operation on an attribute leaves all others as
\* they are seen, and all groups.
LEMMA AttributesContract ==
    ASSUME AttributesInv
    PROVE  AttributesMeetContract
<1> SUFFICES ASSUME NEW t \in Trees
             PROVE  Contract(World, t, Descriptor(World, t), Seen(World, t))
  BY DEF AttributesMeetContract, Contract
<1>1. PICK W : W = World
  OBVIOUS
<1>2. Sound(W)
  BY <1>1 DEF AttributesInv, Steady
<1>3. PICK D, c : Shows(W, t, D, c) /\ Full(D, c)
  BY <1>1 DEF AttributesInv, Steady, Formed
<1>4. Typed(D, c) /\ Descriptor(W, t) = D /\ Seen(W, t) = SeenBy(D, c) /\ Len(D.names) \in Nat
  BY <1>2, <1>3, DescriptorLemma, SeenLemma, DescribedGood, GoodFacts DEF Full, Shows
<1> DEFINE U == ValuesOf(D, c)
           G == GroupsOf(D, c)
           seen == [values |-> U, groups |-> G]
<1>5. Seen(W, t) = seen
  BY <1>4 DEF SeenBy
<1> DEFINE Ends(X, V, H) == Turns(W, X, t, [values |-> V, groups |-> H])
<1>6. ASSUME NEW X, NEW V, NEW H, Ends(X, V, H)
      PROVE  Seen(X, t) = [values |-> V, groups |-> H]
  <2>1. PICK s : s = [values |-> V, groups |-> H]
    OBVIOUS
  <2>2. Turns(W, X, t, s)
    BY <1>6, <2>1
  <2> QED
    BY ONLY <2>1, <2>2, TurnsSeen, t \in Trees
<1>7. ASSUME NEW name \in Ordinary \ ToSet(D.names)
      PROVE  Seen(Appended(W, t, name), t)
               = [seen EXCEPT !.values = With(@, name, Filled(Initial))]
  <2>1. Ends(Appended(W, t, name), With(U, name, Filled(Initial)), G)
    BY <1>2, <1>3, AppendTurns
  <2> HIDE DEF U, G, Ends
  <2> QED
    BY <1>6, <2>1
<1>8. ASSUME NEW drop \in SUBSET (2 .. Len(D.names))
      PROVE  Seen(Dropped(W, t, drop), t)
               = [values |-> Without(U, {D.names[pos] : pos \in drop}),
                  groups |-> Without(G, Gone(D, drop))]
  <2>1. drop \in SUBSET (1 .. Len(D.names))
    BY <1>4
  <2>2. Ends(Dropped(W, t, drop), Without(U, {D.names[pos] : pos \in drop}),
             Without(G, Gone(D, drop)))
    BY <1>2, <1>3, <1>4, <2>1, DropTurns
  <2> HIDE DEF U, G, Ends
  <2> QED
    BY <1>6, <2>2
<1>9. ASSUME NEW from \in ToSet(D.names) \ GroupNames, NEW to \in Ordinary \ ToSet(D.names)
      PROVE  Seen(Renamed(W, t, from, to), t)
               = [seen EXCEPT !.values = With(Without(@, {from}), to, @[from])]
  <2>1. Ends(Renamed(W, t, from, to), With(Without(U, {from}), to, U[from]), G)
    BY <1>2, <1>3, <1>4, RenameTurns
  <2> HIDE DEF U, G, Ends
  <2> QED
    BY <1>6, <2>1
<1>10. ASSUME NEW names \in Orders(D) PROVE Seen(Reordered(W, t, names), t) = seen
  <2>1. Turns(W, Reordered(W, t, names), t, SeenBy(D, c))
    BY <1>2, <1>3, <1>4, ReorderTurns
  <2>2. Ends(Reordered(W, t, names), U, G)
    BY <2>1 DEF SeenBy
  <2> HIDE DEF U, G, Ends
  <2> QED
    BY <1>6, <2>2
<1>11. ASSUME NEW name \in ToSet(D.names) \ GroupNames, NEW v \in Values
       PROVE  Seen(Collapsed(W, t, name, v), t) = [seen EXCEPT !.values[name] = Filled(v)]
  <2>1. Ends(Collapsed(W, t, name, v), [U EXCEPT ![name] = Filled(v)], G)
    BY <1>2, <1>3, <1>4, CollapseTurns
  <2> HIDE DEF U, G, Ends
  <2> QED
    BY <1>6, <2>1
<1>12. seen.values = U /\ seen.groups = G
  OBVIOUS
<1> HIDE DEF U, G, seen, Ends
<1>13. Contract(W, t, D, seen)
  BY <1>7, <1>8, <1>9, <1>10, <1>11, <1>12 DEF Gone, Contract
<1> QED
  BY <1>1, <1>4, <1>5, <1>13

-------------------------------------------------------------------------------
(* Operations on groups do what they say.                                  *)

\* A step on a tree may be preceded by others on the same tree.
LEMMA ChangesTwice ==
    ASSUME NEW W, NEW X, NEW Y, NEW t, NEW seen, Others(W, X, t), Turns(X, Y, t, seen)
    PROVE  Turns(W, Y, t, seen)
  BY OthersTwice DEF Turns, Becomes

\* The same for what becomes of the tree.
LEMMA BecomesTwice ==
    ASSUME NEW W, NEW X, NEW Y, NEW t, NEW D, NEW c, Others(W, X, t), Becomes(X, Y, t, D, c)
    PROVE  Becomes(W, Y, t, D, c)
  BY OthersTwice DEF Becomes

\* H are the groups of D.
HasGroups(H, D, c) ==
    /\ H = [g \in DOMAIN D.groups |-> H[g]]
    /\ \A g \in DOMAIN D.groups : MembersOf(D, c, D.groups[g]) = H[g]

\* Two views with the same members are equal.
LEMMA GroupsEqual ==
    ASSUME NEW D, NEW c, NEW H, HasGroups(H, D, c)
    PROVE  GroupsOf(D, c) = H
  BY DEF HasGroups, GroupsOf

\* Values of attributes that are not written.
LEMMA ValuesKept ==
    ASSUME NEW D, Good(D), NEW c, NEW e,
           \A l \in Leaves, pos \in 1 .. Len(D.names) :
              D.names[pos] \notin GroupNames => e[l][pos] = c[l][pos]
    PROVE  ValuesOf(D, e) = ValuesOf(D, c)
<1> DEFINE U == ValuesOf(D, c)
<1>1. U = [name \in ToSet(D.names) \ GroupNames |-> U[name]]
  BY DEF ValuesOf
<1>2. ASSUME NEW i \in 1 .. Len(D.names), D.names[i] \notin GroupNames
      PROVE  U[D.names[i]] = Column(e, i)
  <2>1. U[D.names[i]] = Column(c, i)
    BY <1>2, ValueAt
  <2>2. Column(e, i) = Column(c, i)
    BY <1>2 DEF Column
  <2> QED
    BY <2>1, <2>2
<1>3. HasValues(U, D, e)
  <2> HIDE DEF U
  <2> QED
    BY <1>1, <1>2 DEF HasValues
<1> HIDE DEF U
<1>4. ValuesOf(D, e) = U
  BY <1>3, ValuesEqual
<1> QED
  BY <1>4 DEF U

\* The bits but one have the members that they had.
Elsewhere(D, c, offset, e) ==
    \A o \in Bits(D) \ {offset} : MembersOf(D, e, o) = MembersOf(D, c, o)

\* What is seen after a write to one bit: one group changes at most.
LEMMA MarkedSeen ==
    ASSUME NEW D, Good(D), NEW c, Typed(D, c), NEW offset \in Bits(D), NEW M
    PROVE  LET e == Marked(D, c, offset, M) IN
           /\ Typed(D, e) /\ ValuesOf(D, e) = ValuesOf(D, c)
           /\ MembersOf(D, e, offset) = M \intersect Points
           /\ Elsewhere(D, c, offset, e)
<1> DEFINE e == Marked(D, c, offset, M)
<1>1. Marks(D, c, offset, M, e)
  BY MarkedLemma
<1> HIDE DEF e
<1>2. ValuesOf(D, e) = ValuesOf(D, c)
  BY <1>1, ValuesKept DEF Marks
<1> QED
  BY <1>1, <1>2 DEF Marks, Elsewhere, e

\* setGroup(): the members of one group are set, and those of all others stay.
LEMMA SetGroupTurns ==
    ASSUME NEW W, Sound(W), NEW t \in Trees, NEW D, NEW c, Shows(W, t, D, c), Typed(D, c),
           NEW g \in DOMAIN D.groups, NEW M \in SUBSET Points, NEW remove \in BOOLEAN
    PROVE  Turns(W, SetGroup(W, t, g, M, remove), t,
                 [values |-> ValuesOf(D, c),
                  groups |-> [GroupsOf(D, c) EXCEPT ![g] = IF remove THEN M ELSE @ \union M]])
<1> DEFINE offset == D.groups[g]
           N == IF remove THEN M ELSE M \union MembersOf(D, c, offset)
           e == Marked(D, c, offset, N)
           G == GroupsOf(D, c)
           H == [G EXCEPT ![g] = N]
<1>1. Good(D) /\ Descriptor(W, t) = D
  BY DescribedGood, DescriptorLemma DEF Shows
<1>2. offset \in Bits(D)
  BY <1>1, GoodFacts
<1>3. SetGroup(W, t, g, M, remove) = WithMembers(W, t, offset, N)
  <2>1. Members(W, t, offset) = MembersOf(D, c, offset)
    BY <1>2, MembersLemma
  <2> QED
    BY <1>1, <2>1 DEF SetGroup
<1>4. G[g] = MembersOf(D, c, offset)
  BY DEF GroupsOf
<1>5. N \subseteq Points
  BY DEF MembersOf
<1> HIDE DEF offset, N
<1>6. Becomes(W, WithMembers(W, t, offset, N), t, D, e)
  BY <1>2, WithMembersLemma
<1>7. /\ Typed(D, e) /\ ValuesOf(D, e) = ValuesOf(D, c)
      /\ MembersOf(D, e, offset) = N
      /\ Elsewhere(D, c, offset, e)
  <2>1. N \intersect Points = N
    BY <1>5
  <2>2. /\ Typed(D, e) /\ ValuesOf(D, e) = ValuesOf(D, c)
        /\ MembersOf(D, e, offset) = N \intersect Points
        /\ Elsewhere(D, c, offset, e)
    BY <1>1, <1>2, MarkedSeen
  <2> HIDE DEF e
  <2> QED
    BY <2>1, <2>2
<1> HIDE DEF e
<1>8. HasGroups(H, D, e)
  <2>1. G = [h \in DOMAIN D.groups |-> G[h]] /\ \A h \in DOMAIN D.groups : G[h] = MembersOf(D, c, D.groups[h])
    BY DEF GroupsOf
  <2> HIDE DEF G
  <2>2. H = [h \in DOMAIN D.groups |-> H[h]]
    BY <2>1
  <2>3. ASSUME NEW h \in DOMAIN D.groups PROVE MembersOf(D, e, D.groups[h]) = H[h]
    <3>1. CASE h = g
      BY <1>7, <2>1, <3>1 DEF offset
    <3>2. CASE h # g
      <4>1. D.groups[h] \in Bits(D) /\ D.groups[h] # offset
        BY <1>1, <3>2, GoodFacts DEF offset
      <4>2. H[h] = G[h]
        BY <2>1, <3>2
      <4> QED
        BY <1>7, <2>1, <4>1, <4>2 DEF Elsewhere
    <3> QED
      BY <3>1, <3>2
  <2> HIDE DEF H
  <2> QED
    BY <2>2, <2>3 DEF HasGroups
<1>9. GroupsOf(D, e) = H
  <2> HIDE DEF H
  <2> QED
    BY <1>8, GroupsEqual
<1>10. H = [G EXCEPT ![g] = IF remove THEN M ELSE @ \union M]
  <2>1. N = IF remove THEN M ELSE G[g] \union M
    BY <1>4 DEF N
  <2> HIDE DEF G
  <2> QED
    BY <2>1
<1>11. Turns(W, SetGroup(W, t, g, M, remove), t, [values |-> ValuesOf(D, c), groups |-> H])
  <2> HIDE DEF H
  <2> QED
    BY <1>3, <1>6, <1>7, <1>9 DEF Turns, SeenBy
<1> QED
  <2> HIDE DEF H
  <2> QED
    BY <1>10, <1>11

\* A group gets a bit that no group has: the others keep their members.
LEMMA WithGroupContent ==
    ASSUME NEW D, Good(D), NEW c, Typed(D, c), NEW g \in Groups, NEW offset \in Bits(D),
           offset \notin Offsets(D), NEW e, Typed(D, e), ValuesOf(D, e) = ValuesOf(D, c),
           NEW S, MembersOf(D, e, offset) = S, Elsewhere(D, c, offset, e)
    PROVE  LET E == WithGroup(D, g, offset) IN
           /\ Good(E) /\ E.names = D.names /\ E.groups = With(D.groups, g, offset)
           /\ Typed(E, e) /\ ValuesOf(E, e) = ValuesOf(D, c)
           /\ GroupsOf(E, e) = With(GroupsOf(D, c), g, S)
<1> DEFINE E == WithGroup(D, g, offset)
           G == GroupsOf(D, c)
           H == With(G, g, S)
<1>1. Good(E) /\ E.names = D.names /\ E.groups = With(D.groups, g, offset)
  BY WithGroupLemma
<1> HIDE DEF E
<1>2. /\ Typed(E, e) /\ ValuesOf(E, e) = ValuesOf(D, c)
      /\ \A o : MembersOf(E, e, o) = MembersOf(D, e, o)
  BY <1>1, SameNames
<1>3. /\ DOMAIN E.groups = DOMAIN D.groups \union {g} /\ E.groups[g] = offset
      /\ \A h \in DOMAIN D.groups : h # g => E.groups[h] = D.groups[h]
  BY <1>1 DEF With
<1>4. HasGroups(H, E, e)
  <2>1. DOMAIN G = DOMAIN D.groups /\ \A h \in DOMAIN D.groups : G[h] = MembersOf(D, c, D.groups[h])
    BY DEF GroupsOf
  <2> HIDE DEF G
  <2>2. H = [h \in DOMAIN E.groups |-> H[h]]
    BY <1>3, <2>1 DEF With
  <2>3. H[g] = S /\ \A h \in DOMAIN D.groups : h # g => H[h] = G[h]
    BY <2>1 DEF With
  <2>4. ASSUME NEW h \in DOMAIN E.groups PROVE MembersOf(E, e, E.groups[h]) = H[h]
    <3>1. CASE h = g
      BY <1>2, <1>3, <2>3, <3>1
    <3>2. CASE h # g
      <4>1. h \in DOMAIN D.groups
        BY <1>3, <3>2
      <4>2. D.groups[h] \in Bits(D) /\ D.groups[h] # offset
        BY <4>1, GoodFacts DEF Offsets
      <4> QED
        BY <1>2, <1>3, <2>1, <2>3, <3>2, <4>1, <4>2 DEF Elsewhere
    <3> QED
      BY <3>1, <3>2
  <2> HIDE DEF H
  <2> QED
    BY <2>2, <2>4 DEF HasGroups
<1>5. GroupsOf(E, e) = H
  <2> HIDE DEF H
  <2> QED
    BY <1>4, GroupsEqual
<1> QED
  BY <1>1, <1>2, <1>5 DEF E

\* appendGroup(): whatever the bit held before, and in a new array too, the new group
\* is empty.
LEMMA AppendGroupTurns ==
    ASSUME NEW W, Sound(W), NEW t \in Trees, NEW D, NEW c, Shows(W, t, D, c), Full(D, c),
           NEW g \in Groups
    PROVE  Turns(W, AppendGroup(W, t, g), t,
                 [values |-> ValuesOf(D, c),
                  groups |-> IF g \in DOMAIN D.groups THEN GroupsOf(D, c)
                             ELSE With(GroupsOf(D, c), g, {})])
<1> DEFINE target == UnusedGroupOffset(D)
           n == Len(D.names)
           H == With(GroupsOf(D, c), g, {})
<1>1. Good(D) /\ Descriptor(W, t) = D /\ Typed(D, c)
  BY DescribedGood, DescriptorLemma DEF Shows, Full
<1>2. CASE g \in DOMAIN D.groups
  <2>1. AppendGroup(W, t, g) = W
    BY <1>1, <1>2 DEF AppendGroup
  <2>2. Becomes(W, W, t, D, c)
    BY OthersSame DEF Becomes
  <2> QED
    BY <1>1, <1>2, <2>1, <2>2 DEF Turns, SeenBy
<1>3. CASE g \notin DOMAIN D.groups /\ UnusedGroups(D) > 0
  <2> DEFINE E == WithGroup(D, g, target)
             X == Described(W, t, E)
             e == Marked(D, c, target, {})
  <2>1. target \in Bits(D) /\ target \notin Offsets(D)
    BY <1>1, <1>3, UnusedLemma
  <2>2. AppendGroup(W, t, g) = WithMembers(X, t, target, {})
    BY <1>1, <1>3 DEF AppendGroup
  <2> HIDE DEF target
  <2>3. /\ Typed(D, e) /\ ValuesOf(D, e) = ValuesOf(D, c)
        /\ MembersOf(D, e, target) = {} \intersect Points
        /\ Elsewhere(D, c, target, e)
    BY <1>1, <2>1, MarkedSeen
  <2> HIDE DEF e
  <2>4. MembersOf(D, e, target) = {}
    BY <2>3
  <2>5. /\ Good(E) /\ E.names = D.names
        /\ Typed(E, e) /\ ValuesOf(E, e) = ValuesOf(D, c) /\ GroupsOf(E, e) = H
    BY <1>1, <2>1, <2>3, <2>4, WithGroupContent
  <2> HIDE DEF E
  <2>6. Stores(W, t, Len(E.names), c)
    BY <2>5 DEF Shows
  <2>7. Becomes(W, X, t, E, c)
    BY <2>5, <2>6, DescribedLemma
  <2> HIDE DEF X
  <2>8. target \in Bits(E) /\ Marked(E, c, target, {}) = e
    BY <2>1, <2>5, NamesOnly DEF e, Marked
  <2>9. Becomes(X, WithMembers(X, t, target, {}), t, E, e)
    <3>1. Becomes(X, WithMembers(X, t, target, {}), t, E, Marked(E, c, target, {}))
      BY <2>7, <2>8, WithMembersLemma DEF Becomes
    <3> QED
      BY <2>8, <3>1
  <2>10. Becomes(W, WithMembers(X, t, target, {}), t, E, e)
    BY <2>7, <2>9, BecomesTwice DEF Becomes
  <2> HIDE DEF H
  <2>11. Turns(W, AppendGroup(W, t, g), t, [values |-> ValuesOf(D, c), groups |-> H])
    BY <2>2, <2>5, <2>10 DEF Turns, SeenBy
  <2> QED
    BY <1>3, <2>11 DEF H
<1>4. CASE g \notin DOMAIN D.groups /\ ~ (UnusedGroups(D) > 0)
  <2> DEFINE name == UniqueName(D)
             X == Appended(W, t, name)
             E == WithName(D, name)
             e == Put(c, n + 1, n + 1, Blank(name))
             F == WithGroup(E, g, target)
  <2>1. name \in GroupNames /\ name \notin ToSet(D.names) /\ name \in Names
    BY <1>1, <1>4, UniqueNameLemma, AttributesAssumption
  <2>2. /\ target = GroupBits * Cardinality(GroupPositions(D)) /\ Offsets(D) = Bits(D)
    BY <1>1, <1>4, UnusedLemma
  <2>3. AppendGroup(W, t, g) = Described(X, t, WithGroup(Descriptor(X, t), g, target))
    BY <1>1, <1>4 DEF AppendGroup
  <2> HIDE DEF target, name
  <2>4. 1 \in 1 .. n
    BY <1>1, PositionFirst
  <2>5. Becomes(W, X, t, E, e)
    BY <2>1, <2>4, AppendedLemma
  <2>6. AppendsTo(D, name, E)
    BY <1>1, <2>1, AppendLemma
  <2> HIDE DEF X, E
  <2>7. /\ Full(E, e) /\ GroupsOf(E, e) = GroupsOf(D, c) /\ ValuesOf(E, e) = ValuesOf(D, c)
        /\ \A l \in Leaves : e[l][n + 1] = Blank(name)[l]
    BY <1>1, <2>1, <2>6, AppendContent
  <2> HIDE DEF e
  <2>8. /\ Good(E) /\ E.groups = D.groups /\ Len(E.names) = n + 1
        /\ GroupPositions(E) = GroupPositions(D) \union {n + 1}
    BY <2>1, <2>6 DEF AppendsTo
  <2>9. Descriptor(X, t) = E
    BY <2>5, DescriptorLemma DEF Becomes, Shows
  <2>10. target \in Bits(E) /\ GroupArray(E, target) = n + 1
    <3>1. n \in Nat /\ \A p \in GroupPositions(D) : p \in 1 .. n
      BY <1>1, GoodFacts
    <3>2. Before(GroupPositions(E), n + 1) = GroupPositions(D)
      BY <2>8, <3>1 DEF Before
    <3>3. PICK b \in 0 .. GroupBits - 1 : b = 0
      BY AttributesAssumption
    <3>4. n + 1 \in GroupPositions(E)
      BY <2>8
    <3>5. target = GroupBits * Rank(GroupPositions(E), n + 1) + b
      <4>1. GroupBits * Cardinality(GroupPositions(D)) \in Int
        BY <1>1, GoodFacts, AttributesAssumption
      <4> QED
        BY <2>2, <3>2, <3>3, <4>1 DEF Rank
    <3>6. LET o == GroupBits * Rank(GroupPositions(E), n + 1) + b
          IN  o \in Bits(E) /\ GroupArray(E, o) = n + 1
      BY <2>8, <3>4, OffsetOf
    <3> QED
      BY <3>5, <3>6
  <2>11. target \notin Offsets(E)
    <3>1. Offsets(E) = Offsets(D)
      BY <2>8 DEF Offsets
    <3>2. target \notin Bits(D)
      <4>1. GroupBits * Cardinality(GroupPositions(D)) \in Int
        BY <1>1, GoodFacts, AttributesAssumption
      <4> QED
        BY <2>2, <4>1 DEF Bits
    <3> QED
      BY <2>2, <3>1, <3>2
  <2>12. MembersOf(E, e, target) = {}
    <3>1. \A m \in Points : m[1] \in Leaves /\ m[2] \in PointsIn[m[1]]
      BY DEF Points
    <3>2. ASSUME NEW m \in Points PROVE e[m[1]][n + 1][m[2]] = {}
      BY <2>1, <2>7, <3>1 DEF Blank
    <3> QED
      BY <2>10, <3>2 DEF MembersOf
  <2>12a. Typed(E, e) /\ Elsewhere(E, e, target, e)
    BY <2>7 DEF Elsewhere, Full
  <2>13. /\ Good(F) /\ F.names = E.names
         /\ Typed(F, e) /\ ValuesOf(F, e) = ValuesOf(E, e)
         /\ GroupsOf(F, e) = With(GroupsOf(E, e), g, {})
    BY <2>8, <2>10, <2>11, <2>12, <2>12a, WithGroupContent
  <2> HIDE DEF F
  <2>14. Stores(X, t, Len(F.names), e)
    BY <2>5, <2>13 DEF Becomes, Shows
  <2>15. Becomes(X, Described(X, t, F), t, F, e)
    BY <2>5, <2>13, <2>14, DescribedLemma DEF Becomes
  <2>16. Becomes(W, Described(X, t, F), t, F, e)
    BY <2>5, <2>15, BecomesTwice DEF Becomes
  <2>17. AppendGroup(W, t, g) = Described(X, t, F)
    BY <2>3, <2>9 DEF F
  <2>18. ValuesOf(F, e) = ValuesOf(D, c) /\ GroupsOf(F, e) = H
    BY <2>7, <2>13
  <2> HIDE DEF H
  <2>19. Turns(W, AppendGroup(W, t, g), t, [values |-> ValuesOf(D, c), groups |-> H])
    BY <2>13, <2>16, <2>17, <2>18 DEF Turns, SeenBy
  <2> QED
    BY <1>4, <2>19 DEF H
<1> QED
  BY <1>2, <1>3, <1>4

\* What is seen after dropGroup().
LEMMA WithoutGroupsContent ==
    ASSUME NEW D, Good(D), NEW c, Typed(D, c), NEW S
    PROVE  LET E == WithoutGroups(D, S) IN
           /\ Good(E) /\ E.names = D.names /\ E.groups = Without(D.groups, S)
           /\ Typed(E, c) /\ ValuesOf(E, c) = ValuesOf(D, c)
           /\ GroupsOf(E, c) = Without(GroupsOf(D, c), S)
<1> DEFINE E == WithoutGroups(D, S)
           G == GroupsOf(D, c)
           H == Without(G, S)
<1>1. Good(E) /\ E.names = D.names /\ E.groups = Without(D.groups, S)
  BY WithoutGroupsLemma
<1> HIDE DEF E
<1>2. /\ Typed(E, c) /\ ValuesOf(E, c) = ValuesOf(D, c)
      /\ \A o : MembersOf(E, c, o) = MembersOf(D, c, o)
  BY <1>1, SameNames
<1>3. /\ DOMAIN E.groups = DOMAIN D.groups \ S
      /\ \A h \in DOMAIN E.groups : E.groups[h] = D.groups[h]
  BY <1>1 DEF Without
<1>4. HasGroups(H, E, c)
  <2>1. DOMAIN G = DOMAIN D.groups /\ \A h \in DOMAIN D.groups : G[h] = MembersOf(D, c, D.groups[h])
    BY DEF GroupsOf
  <2> HIDE DEF G
  <2>2. /\ H = [h \in DOMAIN E.groups |-> H[h]]
        /\ \A h \in DOMAIN E.groups : H[h] = G[h]
    BY <1>3, <2>1 DEF Without
  <2> HIDE DEF H
  <2> QED
    BY <1>2, <1>3, <2>1, <2>2 DEF HasGroups
<1>5. GroupsOf(E, c) = H
  <2> HIDE DEF H
  <2> QED
    BY <1>4, GroupsEqual
<1> QED
  BY <1>1, <1>2, <1>5 DEF E

\* A descriptor with the names of D, described: its contents are those of D.
LEMMA DescribedShows ==
    ASSUME NEW W, Sound(W), NEW t \in Trees, NEW D, NEW c, Shows(W, t, D, c),
           NEW E, Good(E), E.names = D.names
    PROVE  Becomes(W, Described(W, t, E), t, E, c)
<1>1. Stores(W, t, Len(E.names), c)
  BY DEF Shows
<1> QED
  BY <1>1, DescribedLemma

\* dropGroups(): the groups of S are gone, and all others stay.
LEMMA DropGroupsTurns ==
    ASSUME NEW W, Sound(W), NEW t \in Trees, NEW D, NEW c, Shows(W, t, D, c), Typed(D, c),
           NEW S
    PROVE  Turns(W, DropGroups(W, t, S, FALSE), t,
                 [values |-> ValuesOf(D, c), groups |-> Without(GroupsOf(D, c), S)])
<1> DEFINE E == WithoutGroups(D, S)
<1>1. Good(D) /\ Descriptor(W, t) = D
  BY DescribedGood, DescriptorLemma DEF Shows
<1>2. DropGroups(W, t, S, FALSE) = Described(W, t, E)
  BY <1>1 DEF DropGroups
<1>3. /\ Good(E) /\ E.names = D.names
      /\ Typed(E, c) /\ ValuesOf(E, c) = ValuesOf(D, c)
      /\ GroupsOf(E, c) = Without(GroupsOf(D, c), S)
  BY <1>1, WithoutGroupsContent
<1> HIDE DEF E
<1>4. Becomes(W, Described(W, t, E), t, E, c)
  BY <1>3, DescribedShows
<1> QED
  BY <1>2, <1>3, <1>4 DEF Turns, SeenBy

\* Group arrays are no values.
LEMMA ValuesApart ==
    ASSUME NEW D, Good(D), NEW c, NEW drop \in SUBSET GroupPositions(D)
    PROVE  Without(ValuesOf(D, c), {D.names[pos] : pos \in drop}) = ValuesOf(D, c)
<1> DEFINE U == ValuesOf(D, c)
<1>1. U = [x \in DOMAIN U |-> U[x]] /\ \A x \in DOMAIN U : x \notin GroupNames
  BY DEF ValuesOf
<1>2. \A pos \in drop : D.names[pos] \in GroupNames
  BY GoodFacts
<1>3. \A x \in DOMAIN U : x \notin {D.names[pos] : pos \in drop}
  BY <1>1, <1>2
<1> HIDE DEF U
<1>4. Without(U, {D.names[pos] : pos \in drop}) = U
  BY <1>1, <1>3 DEF Without
<1> QED
  BY <1>4 DEF U

\* dropGroups() of all: the attributes stay.
LEMMA DropAllGroupsTurns ==
    ASSUME NEW W, Sound(W), NEW t \in Trees, NEW D, NEW c, Shows(W, t, D, c), Typed(D, c)
    PROVE  Turns(W, DropAllGroups(W, t), t,
                 [values |-> ValuesOf(D, c),
                  groups |-> Without(GroupsOf(D, c), DOMAIN D.groups)])
<1> DEFINE drop == GroupPositions(D)
           S == DOMAIN D.groups
           E == WithoutGroups(D, S)
           X == Described(W, t, E)
           U == ValuesOf(D, c)
<1>1. Good(D) /\ Descriptor(W, t) = D
  BY DescribedGood, DescriptorLemma DEF Shows
<1>2. DropAllGroups(W, t) = Dropped(X, t, drop)
  BY <1>1 DEF DropAllGroups
<1>3. /\ Good(E) /\ E.names = D.names /\ E.groups = Without(D.groups, S)
      /\ Typed(E, c) /\ ValuesOf(E, c) = ValuesOf(D, c)
      /\ GroupsOf(E, c) = Without(GroupsOf(D, c), S)
  BY <1>1, WithoutGroupsContent
<1>4. DOMAIN Without(GroupsOf(D, c), S) = {} /\ DOMAIN E.groups = {}
  BY <1>3 DEF Without, GroupsOf
<1> HIDE DEF E
<1>5. Becomes(W, X, t, E, c)
  BY <1>3, DescribedShows
<1> HIDE DEF X
<1>6. drop \in SUBSET (1 .. Len(E.names)) /\ \A pos \in drop : E.names[pos] \in GroupNames
  BY <1>1, <1>3, GoodFacts
<1>7. Turns(X, Dropped(X, t, drop), t,
            [values |-> Without(ValuesOf(E, c), {E.names[pos] : pos \in drop}),
             groups |-> Without(GroupsOf(E, c), Gone(E, drop))])
  <2> HIDE DEF drop
  <2> QED
    BY <1>3, <1>5, <1>6, DropTurns DEF Becomes
<1>8. Without(ValuesOf(E, c), {E.names[pos] : pos \in drop}) = U
  <2>1. drop \in SUBSET GroupPositions(E)
    BY <1>3, NamesOnly
  <2> HIDE DEF drop
  <2>2. Without(ValuesOf(E, c), {E.names[pos] : pos \in drop}) = ValuesOf(E, c)
    BY <1>3, <2>1, ValuesApart
  <2> QED
    BY <1>3, <2>2
<1>9. Without(GroupsOf(E, c), Gone(E, drop)) = Without(GroupsOf(D, c), S)
  <2> DEFINE H == Without(GroupsOf(D, c), S)
  <2>1. GroupsOf(E, c) = H /\ DOMAIN H = {}
    BY <1>3, <1>4
  <2>2. H = [x \in DOMAIN H |-> H[x]]
    BY DEF Without
  <2> HIDE DEF H
  <2>3. Without(H, Gone(E, drop)) = H
    BY <2>1, <2>2 DEF Without
  <2> QED
    BY <2>1, <2>3 DEF H
<1> HIDE DEF U
<1>10. Turns(X, Dropped(X, t, drop), t,
             [values |-> U, groups |-> Without(GroupsOf(D, c), S)])
  BY <1>7, <1>8, <1>9
<1>11. Turns(W, Dropped(X, t, drop), t,
             [values |-> U, groups |-> Without(GroupsOf(D, c), S)])
  <2>1. Others(W, X, t)
    BY <1>5 DEF Becomes
  <2>2. PICK s : s = [values |-> U, groups |-> Without(GroupsOf(D, c), S)]
    OBVIOUS
  <2>3. Turns(X, Dropped(X, t, drop), t, s)
    BY <1>10, <2>2
  <2>4. Turns(W, Dropped(X, t, drop), t, s)
    BY ONLY <2>1, <2>3, ChangesTwice
  <2> QED
    BY <2>2, <2>4
<1> QED
  BY <1>2, <1>11 DEF U

-------------------------------------------------------------------------------
(* Compaction.                                                             *)

\* The k bits in front belong to groups.
InFront(D, k) == \A o \in 0 .. k - 1 : o \in Offsets(D)

Late(D) == {g \in DOMAIN D.groups : D.groups[g] >= UnusedGroupOffset(D)}

\* A turn of compactGroups() makes E of D: one more of the bits in front is used,
\* unless that is all of them.
MovesTo(D, E) ==
    /\ Good(E) /\ E.names = D.names /\ DOMAIN E.groups = DOMAIN D.groups
    /\ \A k \in 0 .. Cardinality(DOMAIN D.groups) :
         InFront(D, k) =>
            /\ InFront(E, k)
            /\ k < Cardinality(DOMAIN D.groups) => InFront(E, k + 1)

\* Where no group moves, all are in front.
LEMMA StaysLemma ==
    ASSUME NEW D, Good(D), UnusedGroups(D) = 0 \/ Late(D) = {}
    PROVE  MovesTo(D, D)
<1> DEFINE card == Cardinality(DOMAIN D.groups)
           target == UnusedGroupOffset(D)
<1>1. /\ target \in 0 .. card /\ card \in Nat /\ UnusedGroups(D) \in Nat
      /\ \A o \in 0 .. card : o \notin Offsets(D) => target <= o
      /\ Cardinality(Offsets(D)) = card
      /\ ~ (UnusedGroups(D) > 0) => Offsets(D) = Bits(D)
  BY UnusedLemma
<1>2. \A g \in DOMAIN D.groups : D.groups[g] \in Nat
  BY GoodFacts, ArrayLemma
<1>3. \A o \in 0 .. card - 1 : o \in Offsets(D)
  <2>1. CASE UnusedGroups(D) = 0
    <3>1. Offsets(D) = Bits(D)
      BY <1>1, <2>1
    <3>2. card = GroupBits * Cardinality(GroupPositions(D))
      <4>1. GroupBits * Cardinality(GroupPositions(D)) \in Int
        BY GoodFacts, AttributesAssumption
      <4> QED
        BY <1>1, <2>1, <4>1 DEF UnusedGroups
    <3> QED
      BY <3>1, <3>2 DEF Bits
  <2>2. CASE Late(D) = {}
    <3>1. \A o \in Offsets(D) : o \in 0 .. target - 1
      <4>1. ASSUME NEW g \in DOMAIN D.groups PROVE D.groups[g] \in 0 .. target - 1
        <5>1. D.groups[g] \in Nat /\ ~ (D.groups[g] >= target)
          BY <1>2, <2>2 DEF Late
        <5> HIDE DEF target
        <5> QED
          BY <1>1, <5>1
      <4> QED
        BY <4>1 DEF Offsets
    <3> HIDE DEF target, card
    <3>2. target \in Nat /\ Offsets(D) \in SUBSET (0 .. target - 1)
      BY <1>1, <3>1
    <3>3. IsFiniteSet(0 .. target - 1) /\ Cardinality(0 .. target - 1) = target
      <4>1. PICK z \in Int : z = 0
        OBVIOUS
      <4>2. PICK k \in Int : k = target - 1
        BY <3>2
      <4>3. IsFiniteSet(z .. k) /\ Cardinality(z .. k) = IF z > k THEN 0 ELSE k - z + 1
        BY FS_Interval
      <4> QED
        BY <3>2, <4>1, <4>2, <4>3
    <3>4. card <= target
      BY <1>1, <3>2, <3>3, FS_Subset
    <3>5. card = target
      BY <1>1, <3>4
    <3>6. Offsets(D) = 0 .. target - 1
      BY <1>1, <3>2, <3>3, <3>5, FS_Subset
    <3> QED
      BY <3>5, <3>6
  <2> QED
    BY <2>1, <2>2
<1> HIDE DEF card
<1>4. \A k \in 0 .. card : InFront(D, k) /\ (k < card => InFront(D, k + 1))
  BY <1>1, <1>3 DEF InFront
<1> QED
  BY <1>4 DEF MovesTo, card

\* Where one moves, the first bit that was not used is used.
LEMMA MoveLemma ==
    ASSUME NEW D, Good(D), UnusedGroups(D) # 0, NEW g \in Late(D)
    PROVE  MovesTo(D, WithGroup(D, g, UnusedGroupOffset(D)))
<1> DEFINE card == Cardinality(DOMAIN D.groups)
           target == UnusedGroupOffset(D)
           E == WithGroup(D, g, target)
<1>1. /\ target \in 0 .. card /\ card \in Nat /\ target \in Bits(D) /\ target \notin Offsets(D)
      /\ \A o \in 0 .. card : o \notin Offsets(D) => target <= o
  BY UnusedLemma
<1>2. g \in DOMAIN D.groups /\ D.groups[g] >= target /\ g \in Groups
  BY DEF Late, Good, IsDescriptor
<1> HIDE DEF target
<1>3. Good(E) /\ E.names = D.names /\ E.groups = With(D.groups, g, target)
  BY <1>1, <1>2, WithGroupLemma
<1> HIDE DEF E
<1>4. /\ DOMAIN E.groups = DOMAIN D.groups /\ E.groups[g] = target
      /\ \A h \in DOMAIN D.groups : h # g => E.groups[h] = D.groups[h]
  BY <1>2, <1>3 DEF With
<1>5. D.groups[g] \in Nat
  BY <1>2, GoodFacts, ArrayLemma
<1>6. target \in Offsets(E)
  BY <1>2, <1>4 DEF Offsets
<1>7. \A o \in Offsets(D) : o < target => o \in Offsets(E)
  <2> SUFFICES ASSUME NEW h \in DOMAIN D.groups, D.groups[h] < target
               PROVE  D.groups[h] \in Offsets(E)
    BY DEF Offsets
  <2>1. h # g
    <3> HIDE DEF card
    <3> QED
      BY <1>1, <1>2, <1>5
  <2> QED
    BY <1>4, <2>1 DEF Offsets
<1> HIDE DEF card
<1>8. \A o \in 0 .. target : o \in Offsets(E)
  <2> TAKE o \in 0 .. target
  <2>1. CASE o = target
    BY <1>6, <2>1
  <2>2. CASE o # target
    <3>1. o \in 0 .. card /\ o < target /\ ~ (target <= o)
      BY <1>1, <2>2
    <3> QED
      BY <1>1, <1>7, <3>1
  <2> QED
    BY <2>1, <2>2
<1>9. ASSUME NEW k \in 0 .. card, InFront(D, k)
      PROVE  InFront(E, k) /\ InFront(E, k + 1)
  <2>1. k <= target
    BY <1>1, <1>9 DEF InFront
  <2> QED
    BY <1>1, <1>8, <2>1 DEF InFront
<1> QED
  BY <1>3, <1>4, <1>9 DEF MovesTo, card, E, target

\* One turn of the loop: nobody sees that a group moves.
LEMMA OneMovedLemma ==
    ASSUME NEW W, Sound(W), NEW t \in Trees, NEW D, NEW c, Shows(W, t, D, c), Typed(D, c)
    PROVE  \E E, e : /\ Becomes(W, OneMoved(W, t), t, E, e) /\ Typed(E, e)
                     /\ SeenBy(E, e) = SeenBy(D, c) /\ MovesTo(D, E)
<1> DEFINE target == UnusedGroupOffset(D)
           g == LeastOf(Late(D))
<1>1. Good(D) /\ Descriptor(W, t) = D
  BY DescribedGood, DescriptorLemma DEF Shows
<1>2. CASE UnusedGroups(D) = 0 \/ Late(D) = {}
  <2>1. OneMoved(W, t) = W
    BY <1>1, <1>2 DEF OneMoved, Late
  <2>2. Becomes(W, W, t, D, c)
    BY OthersSame DEF Becomes
  <2> QED
    BY <1>1, <1>2, <2>1, <2>2, StaysLemma
<1>3. CASE ~ (UnusedGroups(D) = 0 \/ Late(D) = {})
  <2> DEFINE N == MembersOf(D, c, D.groups[g])
             X == WithMembers(W, t, target, N)
             E == WithGroup(D, g, target)
             e == Marked(D, c, target, N)
             G == GroupsOf(D, c)
  <2>1. target \in Bits(D) /\ target \notin Offsets(D)
    BY <1>1, <1>3, UnusedLemma
  <2>2. g \in Late(D)
    <3>1. Late(D) \subseteq Groups
      BY <1>1 DEF Late, Good, IsDescriptor
    <3>2. Late(D) \subseteq Nat
      BY <3>1, AttributesAssumption
    <3> QED
      BY <1>3, <3>2, LeastLemma
  <2>3. g \in DOMAIN D.groups /\ g \in Groups
    BY <1>1, <2>2 DEF Late, Good, IsDescriptor
  <2>4. OneMoved(W, t) = Described(X, t, E)
    <3>1. Members(W, t, D.groups[g]) = N
      BY <1>1, <2>3, GoodFacts, MembersLemma
    <3> QED
      BY <1>1, <1>3, <3>1 DEF OneMoved, Late
  <2>5. MovesTo(D, E)
    BY <1>1, <1>3, <2>2, MoveLemma
  <2>6. N \intersect Points = N /\ G[g] = N
    BY <2>3 DEF MembersOf, GroupsOf
  <2> HIDE DEF target, g, N
  <2>7. /\ Typed(D, e) /\ ValuesOf(D, e) = ValuesOf(D, c)
        /\ MembersOf(D, e, target) = N \intersect Points
        /\ Elsewhere(D, c, target, e)
    BY <1>1, <2>1, MarkedSeen
  <2>8. Becomes(W, X, t, D, e)
    BY <2>1, WithMembersLemma
  <2> HIDE DEF e, X
  <2>9. MembersOf(D, e, target) = N
    BY <2>6, <2>7
  <2>10. /\ Good(E) /\ E.names = D.names
         /\ Typed(E, e) /\ ValuesOf(E, e) = ValuesOf(D, c)
         /\ GroupsOf(E, e) = With(GroupsOf(D, c), g, N)
    BY <1>1, <2>1, <2>3, <2>7, <2>9, WithGroupContent
  <2> HIDE DEF E
  <2>11. With(G, g, N) = G
    <3>1. G = [h \in DOMAIN D.groups |-> G[h]]
      BY DEF GroupsOf
    <3> HIDE DEF G
    <3> QED
      BY <2>3, <2>6, <3>1 DEF With
  <2>12. SeenBy(E, e) = SeenBy(D, c)
    BY <2>10, <2>11 DEF SeenBy
  <2>13. Becomes(X, Described(X, t, E), t, E, e)
    BY <2>8, <2>10, DescribedShows DEF Becomes
  <2>14. Becomes(W, Described(X, t, E), t, E, e)
    BY <2>8, <2>13, BecomesTwice DEF Becomes
  <2> QED
    BY <2>4, <2>5, <2>10, <2>12, <2>14
<1> QED
  BY <1>2, <1>3

\* The loop exists: f[n] is what n turns make of W.
Looped(W, t, n, f) == f[0] = W /\ \A i \in 1 .. n : f[i] = OneMoved(f[i - 1], t)

\* The turns of the loop of compactGroups() are determined: two tables of them
\* agree. A first disagreement would contradict the turn before.
LEMMA LoopedAlike ==
    ASSUME NEW W, NEW t, NEW n \in Nat, NEW f, Looped(W, t, n, f),
           NEW m \in Nat, NEW g, Looped(W, t, m, g), NEW k \in Nat, k <= n, k <= m
    PROVE  f[k] = g[k]
<1> DEFINE S == {i \in Nat : i <= n /\ i <= m /\ f[i] # g[i]}
<1>1. SUFFICES ASSUME S # {} PROVE FALSE
  BY DEF S
<1>2. LeastOf(S) \in S /\ \A i \in S : LeastOf(S) <= i
  BY <1>1, LeastLemma
<1>3. PICK i \in S : \A j \in S : i <= j
  BY <1>2
<1>4. i \in Nat /\ i <= n /\ i <= m /\ f[i] # g[i]
  OBVIOUS
<1>5. i # 0
  BY <1>4 DEF Looped
<1>6. i - 1 \in Nat /\ i - 1 \notin S /\ i \in 1 .. n /\ i \in 1 .. m
  BY <1>3, <1>4, <1>5
<1>7. f[i - 1] = g[i - 1]
  BY <1>4, <1>6
<1> QED
  BY <1>4, <1>6, <1>7 DEF Looped

\* There is a table of any number of turns; a least number without one cannot
\* be.
LEMMA LoopedExists ==
    ASSUME NEW W, NEW t, NEW n \in Nat
    PROVE  \E f : Looped(W, t, n, f)
<1> DEFINE S == {i \in Nat : ~ \E f : Looped(W, t, i, f)}
<1>1. SUFFICES ASSUME S # {} PROVE FALSE
  BY DEF S
<1>2. LeastOf(S) \in S /\ \A i \in S : LeastOf(S) <= i
  BY <1>1, LeastLemma
<1>3. PICK i \in S : \A j \in S : i <= j
  BY <1>2
<1>4. i \in Nat /\ ~ \E f : Looped(W, t, i, f)
  OBVIOUS
<1>5. i # 0
  <2>1. ASSUME i = 0 PROVE FALSE
    <3> DEFINE f == [j \in {0} |-> W]
    <3>1. Looped(W, t, i, f)
      BY <2>1 DEF Looped
    <3> HIDE DEF f
    <3> QED
      BY <1>4, <3>1
  <2> QED
    BY <2>1
<1>6. i - 1 \in Nat /\ i - 1 \notin S
  BY <1>3, <1>4, <1>5
<1>7. PICK f : Looped(W, t, i - 1, f)
  BY <1>6
<1> DEFINE g == [j \in 0 .. i |-> IF j = i THEN OneMoved(f[i - 1], t) ELSE f[j]]
<1>8. g[0] = W
  BY <1>4, <1>5, <1>7 DEF Looped
<1>9. ASSUME NEW j \in 1 .. i PROVE g[j] = OneMoved(g[j - 1], t)
  <2>1. g[j - 1] = f[j - 1]
    BY <1>4
  <2>2. CASE j = i
    BY <1>4, <2>1, <2>2
  <2>3. CASE j # i
    <3>1. j \in 1 .. i - 1 /\ g[j] = f[j]
      BY <1>4, <2>3
    <3> QED
      BY <1>7, <2>1, <3>1 DEF Looped
  <2> QED
    BY <2>2, <2>3
<1>10. Looped(W, t, i, g)
  <2> HIDE DEF g
  <2> QED
    BY <1>8, <1>9 DEF Looped
<1> HIDE DEF g
<1> QED
  BY <1>4, <1>10

Loop(W, t) == CHOOSE f : f = [n \in Nat |-> IF n = 0 THEN W ELSE OneMoved(f[n - 1], t)]

\* The recursive function of Moved is therefore what its definition says.
LEMMA LoopLemma ==
    ASSUME NEW W, NEW t
    PROVE  /\ Moved(W, t) = Loop(W, t)[Cardinality(DOMAIN Descriptor(W, t).groups)]
           /\ Loop(W, t)[0] = W
           /\ \A n \in Nat \ {0} : Loop(W, t)[n] = OneMoved(Loop(W, t)[n - 1], t)
<1> DEFINE at(n) == CHOOSE f : Looped(W, t, n, f)
           g == [n \in Nat |-> at(n)[n]]
           R(f) == [n \in Nat |-> IF n = 0 THEN W ELSE OneMoved(f[n - 1], t)]
<1>1. ASSUME NEW n \in Nat PROVE Looped(W, t, n, at(n))
  BY LoopedExists
<1> HIDE DEF at
<1>2. g[0] = W
  BY <1>1 DEF Looped
<1>3. ASSUME NEW n \in Nat \ {0} PROVE g[n] = OneMoved(g[n - 1], t)
  <2>1. n - 1 \in Nat /\ n \in 1 .. n /\ n - 1 <= n
    OBVIOUS
  <2>2. at(n)[n] = OneMoved(at(n)[n - 1], t)
    BY <1>1, <2>1 DEF Looped
  <2>3. PICK k \in Nat : k = n - 1
    BY <2>1
  <2>4. Looped(W, t, n, at(n)) /\ Looped(W, t, k, at(k)) /\ k <= n /\ k <= k
    BY <1>1, <2>1, <2>3
  <2>5. at(n)[k] = at(k)[k]
    BY <2>4, LoopedAlike
  <2> QED
    BY <2>2, <2>3, <2>5
<1>4. g = R(g)
  <2>1. ASSUME NEW n \in Nat PROVE g[n] = IF n = 0 THEN W ELSE OneMoved(g[n - 1], t)
    BY <1>2, <1>3
  <2>2. g = [n \in Nat |-> g[n]]
    OBVIOUS
  <2> HIDE DEF g
  <2> QED
    BY <2>1, <2>2
<1> HIDE DEF g
<1>5. Loop(W, t) = R(Loop(W, t))
  BY <1>4 DEF Loop
<1>6. PICK f : f = Loop(W, t)
  OBVIOUS
<1>7. f = [n \in Nat |-> IF n = 0 THEN W ELSE OneMoved(f[n - 1], t)]
  BY <1>5, <1>6
<1>8. f[0] = W /\ \A n \in Nat \ {0} : f[n] = OneMoved(f[n - 1], t)
  BY <1>7
<1>9. Moved(W, t) = Loop(W, t)[Cardinality(DOMAIN Descriptor(W, t).groups)]
  BY DEF Moved, Loop
<1> QED
  BY <1>6, <1>8, <1>9

\* X is W after turns that have used k bits in front: t is seen as before.
Reaches(W, X, t, D, c, k) ==
    \E E, e : /\ Becomes(W, X, t, E, e) /\ Typed(E, e) /\ SeenBy(E, e) = SeenBy(D, c)
              /\ Good(E) /\ E.names = D.names /\ DOMAIN E.groups = DOMAIN D.groups
              /\ InFront(E, k)

\* A turn of the loop moves a group to the first unused bit, and one more bit in
\* front is used.
LEMMA ReachesNext ==
    ASSUME NEW W, NEW X, NEW t \in Trees, NEW D, NEW c, NEW k,
           k \in 0 .. Cardinality(DOMAIN D.groups), k < Cardinality(DOMAIN D.groups),
           Reaches(W, X, t, D, c, k)
    PROVE  Reaches(W, OneMoved(X, t), t, D, c, k + 1)
<1>1. PICK E, e : /\ Becomes(W, X, t, E, e) /\ Typed(E, e) /\ SeenBy(E, e) = SeenBy(D, c)
                  /\ Good(E) /\ E.names = D.names /\ DOMAIN E.groups = DOMAIN D.groups
                  /\ InFront(E, k)
  BY DEF Reaches
<1>2. PICK F, f : /\ Becomes(X, OneMoved(X, t), t, F, f) /\ Typed(F, f)
                  /\ SeenBy(F, f) = SeenBy(E, e) /\ MovesTo(E, F)
  BY <1>1, OneMovedLemma DEF Becomes
<1>3. Becomes(W, OneMoved(X, t), t, F, f)
  BY <1>1, <1>2, BecomesTwice DEF Becomes
<1>4. /\ Good(F) /\ F.names = D.names /\ DOMAIN F.groups = DOMAIN D.groups
      /\ InFront(F, k + 1)
  BY <1>1, <1>2 DEF MovesTo
<1> QED
  BY <1>1, <1>2, <1>3, <1>4 DEF Reaches

\* As many turns as there are groups use as many bits in front, and no others.
LEMMA MovedLemma ==
    ASSUME NEW W, Sound(W), NEW t \in Trees, NEW D, NEW c, Shows(W, t, D, c), Typed(D, c)
    PROVE  \E E, e : /\ Becomes(W, Moved(W, t), t, E, e) /\ Typed(E, e)
                     /\ SeenBy(E, e) = SeenBy(D, c)
                     /\ Good(E) /\ E.names = D.names /\ DOMAIN E.groups = DOMAIN D.groups
                     /\ Offsets(E) = 0 .. Cardinality(DOMAIN D.groups) - 1
<1> DEFINE card == Cardinality(DOMAIN D.groups)
           f == Loop(W, t)
           S == {k \in Nat : k <= card /\ ~ Reaches(W, f[k], t, D, c, k)}
<1>1. Good(D) /\ Descriptor(W, t) = D
  BY DescribedGood, DescriptorLemma DEF Shows
<1>2. card \in Nat
  BY <1>1, UnusedLemma
<1>3. /\ Moved(W, t) = f[card] /\ f[0] = W
      /\ \A n \in Nat \ {0} : f[n] = OneMoved(f[n - 1], t)
  BY <1>1, LoopLemma
<1> HIDE DEF card, f
<1>4. Reaches(W, f[0], t, D, c, 0)
  <2>1. Becomes(W, W, t, D, c)
    BY OthersSame DEF Becomes
  <2>2. InFront(D, 0)
    BY DEF InFront
  <2> QED
    BY <1>1, <1>3, <2>1, <2>2 DEF Reaches
<1>5. S = {}
  <2> SUFFICES ASSUME S # {} PROVE FALSE
    OBVIOUS
  <2>1. LeastOf(S) \in S /\ \A i \in S : LeastOf(S) <= i
    BY LeastLemma
  <2>2. PICK i \in S : \A j \in S : i <= j
    BY <2>1
  <2>3. i \in Nat /\ i <= card /\ ~ Reaches(W, f[i], t, D, c, i)
    OBVIOUS
  <2>4. i # 0
    BY <1>4, <2>3
  <2>5. PICK k \in Nat : k = i - 1
    BY <2>3, <2>4
  <2>6. k \notin S /\ k < card /\ i = k + 1 /\ k \in 0 .. card
    BY <1>2, <2>2, <2>3, <2>5
  <2>7. Reaches(W, f[k], t, D, c, k)
    BY <1>2, <2>6
  <2>8. f[i] = OneMoved(f[k], t)
    BY <1>3, <2>3, <2>4, <2>5
  <2>9. Reaches(W, OneMoved(f[k], t), t, D, c, k + 1)
    BY <2>6, <2>7, ReachesNext DEF card
  <2> QED
    BY <2>3, <2>6, <2>8, <2>9
<1>6. Reaches(W, f[card], t, D, c, card)
  BY <1>2, <1>5
<1>7. PICK E, e : /\ Becomes(W, f[card], t, E, e) /\ Typed(E, e) /\ SeenBy(E, e) = SeenBy(D, c)
                  /\ Good(E) /\ E.names = D.names /\ DOMAIN E.groups = DOMAIN D.groups
                  /\ InFront(E, card)
  BY <1>6 DEF Reaches
<1>8. Offsets(E) = 0 .. card - 1
  <2>1. Cardinality(Offsets(E)) = card
    BY <1>7, UnusedLemma DEF card
  <2>2. IsFiniteSet(Offsets(E))
    <3>1. Offsets(E) \in SUBSET Bits(E)
      BY <1>7, GoodFacts DEF Offsets
    <3>2. IsFiniteSet(Bits(E))
      <4>1. GroupBits * Cardinality(GroupPositions(E)) \in Int
        BY <1>7, GoodFacts, AttributesAssumption
      <4>2. PICK z \in Int : z = 0
        OBVIOUS
      <4>3. PICK k \in Int : k = GroupBits * Cardinality(GroupPositions(E)) - 1
        BY <4>1
      <4>4. IsFiniteSet(z .. k)
        BY FS_Interval
      <4> QED
        BY <4>2, <4>3, <4>4 DEF Bits
    <3> QED
      BY <3>1, <3>2, FS_Subset
  <2>3. 0 .. card - 1 \in SUBSET Offsets(E)
    BY <1>7 DEF InFront
  <2>4. Cardinality(0 .. card - 1) = card
    <3>1. PICK z \in Int : z = 0
      OBVIOUS
    <3>2. PICK k \in Int : k = card - 1
      BY <1>2
    <3>3. Cardinality(z .. k) = IF z > k THEN 0 ELSE k - z + 1
      BY FS_Interval
    <3> QED
      BY <1>2, <3>1, <3>2, <3>3
  <2> QED
    BY <2>1, <2>2, <2>3, <2>4, FS_Subset
<1> QED
  BY <1>3, <1>7, <1>8 DEF card

\* As many numbers of a set as there are ranks below k have one.
LEMMA FrontCount ==
    ASSUME NEW S, S \subseteq Int, IsFiniteSet(S), NEW k \in 0 .. Cardinality(S)
    PROVE  Cardinality({p \in S : Rank(S, p) < k}) = k
<1> DEFINE n == Cardinality(S)
           T == {p \in S : Rank(S, p) < k}
           R == 0 .. k - 1
           f == [p \in T |-> Rank(S, p)]
<1>1. n \in Nat /\ k \in Nat /\ k <= n
  BY FS_CardinalityType
<1>2. /\ \A p \in S : Rank(S, p) \in 0 .. n - 1
      /\ \A i \in 0 .. n - 1 : \E p \in S : Rank(S, p) = i
      /\ \A p, q \in S : Rank(S, p) = Rank(S, q) => p = q
  BY RankLemma, RankedLemma
<1> HIDE DEF n
<1>3. f \in [T -> R]
  <2>1. \A p \in T : Rank(S, p) \in R
    BY <1>1, <1>2
  <2> HIDE DEF T, R
  <2> QED
    BY <2>1
<1>4. \A p, q \in T : f[p] = f[q] => p = q
  BY <1>2
<1>5. \A i \in R : \E p \in T : f[p] = i
  <2> TAKE i \in R
  <2>1. i \in 0 .. n - 1 /\ i < k
    BY <1>1
  <2>2. PICK p \in S : Rank(S, p) = i
    BY <1>2, <2>1
  <2> QED
    BY <2>1, <2>2
<1> HIDE DEF f
<1>6. IsFiniteSet(T)
  BY FS_Subset
<1>7. Cardinality(R) = k
  <2>1. PICK z \in Int : z = 0
    OBVIOUS
  <2>2. PICK j \in Int : j = k - 1
    BY <1>1
  <2>3. Cardinality(z .. j) = IF z > j THEN 0 ELSE j - z + 1
    BY FS_Interval
  <2> QED
    BY <1>1, <2>1, <2>2, <2>3
<1> HIDE DEF T, R
<1>8. f \in Bijection(T, R)
  BY <1>3, <1>4, <1>5, Fun_IsBij
<1> QED
  BY <1>6, <1>7, <1>8, FS_Bijection DEF ExistsBijection, T

\* Where names have the order of positions, the last arrays by name are those behind.
LEMMA LastLemma ==
    ASSUME NEW D, Good(D), InNameOrder(D), NEW m \in Nat
    PROVE  LET S == GroupPositions(D)
           IN  LastArrays(D, m) = {p \in S : ~ (Rank(S, p) < Cardinality(S) - m)}
<1> DEFINE S == GroupPositions(D)
           n == Cardinality(S)
           after(p) == {q \in S : D.names[q] > D.names[p]}
<1>1. S \subseteq Int /\ IsFiniteSet(S) /\ n \in Nat
  BY GoodFacts
<1>2. /\ \A p \in S : D.names[p] \in Nat
      /\ \A p, q \in S : p < q => D.names[p] < D.names[q]
  <2>1. \A p \in S : D.names[p] \in Nat
    BY GoodFacts, AttributesAssumption
  <2> QED
    BY <2>1 DEF InNameOrder
<1> HIDE DEF S
<1>3. ASSUME NEW p \in S PROVE Cardinality(after(p)) = n - 1 - Rank(S, p) /\ Rank(S, p) \in Int
  <2> DEFINE B == Before(S, p)
             C == B \union {p}
  <2>1. B \in SUBSET S /\ p \notin B /\ C \in SUBSET S
    BY <1>1 DEF Before
  <2>2. after(p) = S \ C
    <3>1. \A q \in S : D.names[q] > D.names[p] <=> ~ (q < p \/ q = p)
      <4> TAKE q \in S
      <4>1. q \in Int /\ p \in Int /\ D.names[q] \in Nat /\ D.names[p] \in Nat
        BY <1>1, <1>2
      <4>2. q < p => D.names[q] < D.names[p]
        BY <1>2
      <4>3. p < q => D.names[p] < D.names[q]
        BY <1>2
      <4> QED
        BY <4>1, <4>2, <4>3
    <3> QED
      BY <3>1 DEF Before
  <2> HIDE DEF B
  <2>3. IsFiniteSet(B) /\ Cardinality(B) \in Nat
    BY <1>1, <2>1, FS_Subset, FS_CardinalityType
  <2>4. IsFiniteSet(C) /\ Cardinality(C) = Cardinality(B) + 1
    BY <2>1, <2>3, FS_AddElement
  <2>5. S \intersect C = C
    BY <2>1
  <2>6. Cardinality(S \ C) = n - Cardinality(C)
    <3> HIDE DEF C
    <3>1. Cardinality(S \ C) = Cardinality(S) - Cardinality(S \intersect C)
      BY <1>1, FS_Difference
    <3> QED
      BY <2>5, <3>1
  <2> HIDE DEF C
  <2>7. Rank(S, p) = Cardinality(B)
    BY DEF Rank, B
  <2> HIDE DEF n, after
  <2> QED
    BY <1>1, <2>2, <2>3, <2>4, <2>6, <2>7
<1>4. LastArrays(D, m) = {p \in S : Cardinality(after(p)) < m}
  BY DEF LastArrays, S
<1> HIDE DEF after, n
<1>5. \A p \in S : Cardinality(after(p)) < m <=> ~ (Rank(S, p) < n - m)
  BY <1>1, <1>3
<1> QED
  BY <1>4, <1>5 DEF S, n

\* Group arrays that are dropped are gone, and the others are there.
LEMMA CountLeft ==
    ASSUME NEW D, Good(D), NEW drop, NEW E, DropsTo(D, drop, E)
    PROVE  Cardinality(GroupPositions(E)) = Cardinality(GroupPositions(D) \ drop)
<1> DEFINE n == Len(D.names)
           K == (1 .. n) \ drop
           k == Cardinality(K)
           S == GroupPositions(D) \ drop
           T == GroupPositions(E)
           to(p) == PosAfter(D, drop, p)
           f == [p \in S |-> to(p)]
<1>1. /\ Good(E) /\ Len(E.names) = k
      /\ \A p \in K : to(p) \in 1 .. k /\ E.names[to(p)] = D.names[p]
      /\ \A i \in 1 .. k : Ranked(K, i - 1) \in K /\ to(Ranked(K, i - 1)) = i
  BY DEF DropsTo
<1>2. /\ \A i : i \in GroupPositions(D) <=> i \in 1 .. n /\ D.names[i] \in GroupNames
      /\ \A i, j \in 1 .. n : D.names[i] = D.names[j] => i = j
      /\ IsFiniteSet(GroupPositions(D))
  BY GoodFacts
<1>3. \A i : i \in T <=> i \in 1 .. k /\ E.names[i] \in GroupNames
  <2>1. \A i : i \in T <=> i \in 1 .. Len(E.names) /\ E.names[i] \in GroupNames
    BY <1>1, GoodFacts
  <2> QED
    BY <1>1, <2>1
<1> HIDE DEF to, k
<1>4. f \in [S -> T]
  BY <1>1, <1>2, <1>3
<1>5. \A p, q \in S : f[p] = f[q] => p = q
  BY <1>1, <1>2
<1>6. \A i \in T : \E p \in S : f[p] = i
  <2> TAKE i \in T
  <2>1. PICK p \in K : to(p) = i
    BY <1>1, <1>3
  <2>2. p \in S
    BY <1>1, <1>2, <1>3, <2>1
  <2> QED
    BY <2>1, <2>2
<1> HIDE DEF f
<1>7. IsFiniteSet(S)
  BY <1>2, FS_Subset
<1> HIDE DEF S, T
<1>8. f \in Bijection(S, T)
  BY <1>4, <1>5, <1>6, Fun_IsBij
<1> QED
  BY <1>7, <1>8, FS_Bijection DEF ExistsBijection, S, T

\* With card groups in front, the arrays that can be spared are without groups, and
\* without them no array can be spared.
LEMMA SparedLemma ==
    ASSUME NEW D, Good(D), InNameOrder(D), NEW card, card = Cardinality(DOMAIN D.groups),
           Offsets(D) = 0 .. card - 1
    PROVE  LET m == UnusedGroups(D) \div GroupBits
               drop == LastArrays(D, m)
           IN  /\ Gone(D, drop) = {}
               /\ GroupBits * Cardinality(GroupPositions(D) \ drop) - card < GroupBits
<1> DEFINE S == GroupPositions(D)
           n == Cardinality(S)
           u == UnusedGroups(D)
           m == u \div GroupBits
           r == u % GroupBits
           drop == LastArrays(D, m)
<1>1. S \subseteq Int /\ IsFiniteSet(S) /\ n \in Nat /\ GroupBits \in Nat \ {0}
  BY GoodFacts, AttributesAssumption
<1>2. card \in Nat /\ u \in Nat
  BY UnusedLemma
<1>3. u = GroupBits * n - card
  BY DEF UnusedGroups
<1> HIDE DEF u, n
<1>4. m \in Int /\ r \in 0 .. GroupBits - 1 /\ u = GroupBits * m + r
  BY <1>1, <1>2, DivMod
<1> HIDE DEF m, r
<1>5. /\ GroupBits * m \in Int /\ GroupBits * n \in Int
      /\ GroupBits * (n - m) = GroupBits * n - GroupBits * m
      /\ GroupBits * (n + 1) = GroupBits * n + GroupBits
      /\ GroupBits * (0 - 1) = 0 - GroupBits
  BY <1>1, <1>4
<1>6. m \in 0 .. n
  <2>1. GroupBits * m < GroupBits * (n + 1)
    BY <1>1, <1>2, <1>3, <1>4, <1>5
  <2>2. PICK a \in Int : a = n + 1
    BY <1>1
  <2>3. m < n + 1
    BY <1>1, <1>4, <2>1, <2>2, Multiples
  <2>4. GroupBits * (0 - 1) < GroupBits * m
    BY <1>1, <1>2, <1>4, <1>5
  <2>5. PICK b \in Int : b = 0 - 1
    OBVIOUS
  <2>6. 0 - 1 < m
    BY <1>1, <1>4, <2>4, <2>5, Multiples
  <2> QED
    BY <1>1, <1>4, <2>3, <2>6
<1>7. drop = {p \in S : ~ (Rank(S, p) < n - m)}
  BY <1>6, LastLemma DEF n
<1>8. card <= GroupBits * (n - m)
  BY <1>1, <1>2, <1>3, <1>4, <1>5
<1>9. ASSUME NEW g \in DOMAIN D.groups PROVE GroupArray(D, D.groups[g]) \notin drop
  <2> DEFINE o == D.groups[g]
             q == o \div GroupBits
             a == GroupArray(D, o)
             b == Bit(o)
  <2>1. o \in Bits(D) /\ o \in 0 .. card - 1
    BY GoodFacts DEF Offsets
  <2>2. /\ o \in Nat /\ b \in 0 .. GroupBits - 1 /\ a \in S /\ Rank(S, a) = q
        /\ o = GroupBits * q + b
    BY <2>1, ArrayLemma
  <2>3. q \in Int
    <3> HIDE DEF o
    <3> QED
      BY <1>1, <2>2, DivMod
  <2> HIDE DEF q, a, b, o
  <2>4. GroupBits * q \in Int /\ GroupBits * (n - m) \in Int
    BY <1>1, <1>4, <2>3
  <2>5. GroupBits * q < GroupBits * (n - m)
    BY <1>1, <1>2, <1>8, <2>1, <2>2, <2>4
  <2>6. PICK d \in Int : d = n - m
    BY <1>1, <1>4
  <2>7. q < n - m
    BY <1>1, <2>3, <2>5, <2>6, Multiples
  <2>8. a \notin drop
    BY <1>7, <2>2, <2>7
  <2> QED
    BY <2>8 DEF a, o
<1>10. Gone(D, drop) = {}
  BY <1>9 DEF Gone
<1>11. Cardinality(S \ drop) = n - m
  <2>1. S \ drop = {p \in S : Rank(S, p) < n - m}
    BY <1>7
  <2>2. PICK d \in 0 .. n : d = n - m
    BY <1>1, <1>6
  <2>3. Cardinality({p \in S : Rank(S, p) < d}) = d
    <3> HIDE DEF S
    <3> QED
      BY <1>1, <2>2, FrontCount DEF n
  <2> QED
    BY <2>1, <2>2, <2>3
<1>12. GroupBits * (n - m) - card < GroupBits
  BY <1>1, <1>2, <1>3, <1>4, <1>5
<1> QED
  BY <1>10, <1>11, <1>12 DEF m, u

\* compactGroups(): values stay; where names have the order of positions, groups keep
\* their members, and no array is left that could be spared.
Compacts(W, t, D, c, F, f) ==
    /\ Becomes(W, CompactGroups(W, t), t, F, f) /\ Typed(F, f)
    /\ ValuesOf(F, f) = ValuesOf(D, c)
    /\ InNameOrder(D) => GroupsOf(F, f) = GroupsOf(D, c) /\ UnusedGroups(F) < GroupBits

\* compactGroups() keeps all values; where names have the order of positions
\* also all groups, and then no array is left over.
LEMMA CompactLemma ==
    ASSUME NEW W, Sound(W), NEW t \in Trees, NEW D, NEW c, Shows(W, t, D, c), Typed(D, c)
    PROVE  \E F, f : Compacts(W, t, D, c, F, f)
<1> DEFINE u == UnusedGroups(D)
           m == u \div GroupBits
           card == Cardinality(DOMAIN D.groups)
           X == Described(W, t, D)
           Y == Moved(X, t)
<1>1. Good(D) /\ Descriptor(W, t) = D
  BY DescribedGood, DescriptorLemma DEF Shows
<1>2. CASE u < GroupBits
  <2>1. CompactGroups(W, t) = W
    BY <1>1, <1>2 DEF CompactGroups
  <2>2. Becomes(W, W, t, D, c)
    BY OthersSame DEF Becomes
  <2> QED
    BY <1>2, <2>1, <2>2 DEF Compacts
<1>3. CASE ~ (u < GroupBits)
  <2> DEFINE drop == LastArrays(D, m)
  <2>1. CompactGroups(W, t) = Dropped(Y, t, drop)
    BY <1>1, <1>3 DEF CompactGroups
  <2>2. Becomes(W, X, t, D, c)
    BY <1>1, DescribedShows
  <2> HIDE DEF X
  <2>3. PICK E, e : /\ Becomes(X, Y, t, E, e) /\ Typed(E, e)
                    /\ SeenBy(E, e) = SeenBy(D, c)
                    /\ Good(E) /\ E.names = D.names /\ DOMAIN E.groups = DOMAIN D.groups
                    /\ Offsets(E) = 0 .. card - 1
    BY <2>2, MovedLemma DEF Becomes
  <2> HIDE DEF Y
  <2>4. Becomes(W, Y, t, E, e)
    BY <2>2, <2>3, BecomesTwice DEF Becomes
  <2>5. ValuesOf(E, e) = ValuesOf(D, c) /\ GroupsOf(E, e) = GroupsOf(D, c)
    <3>1. \A G, H, U, V : [values |-> U, groups |-> G] = [values |-> V, groups |-> H]
                            => U = V /\ G = H
      OBVIOUS
    <3> QED
      BY <2>3, <3>1 DEF SeenBy
  <2>6. /\ GroupPositions(E) = GroupPositions(D) /\ UnusedGroups(E) = u
        /\ LastArrays(E, m) = drop
        /\ InNameOrder(D) => InNameOrder(E)
    <3>1. GroupPositions(E) = GroupPositions(D)
      BY <2>3, NamesOnly
    <3> QED
      BY <2>3, <3>1 DEF UnusedGroups, LastArrays, InNameOrder
  <2>7. drop \in SUBSET GroupPositions(E) /\ drop \in SUBSET (1 .. Len(E.names))
    <3>1. LastArrays(D, m) \in SUBSET GroupPositions(D)
      BY DEF LastArrays
    <3>2. GroupPositions(D) \in SUBSET (1 .. Len(D.names))
      BY <1>1, GoodFacts
    <3> QED
      BY <2>3, <2>6, <3>1, <3>2
  <2> HIDE DEF drop
  <2>8. Drops(Y, t, E, e, drop)
    BY <2>3, <2>4, <2>7, DropSeen DEF Becomes
  <2>9. PICK F, f : /\ Becomes(Y, Dropped(Y, t, drop), t, F, f) /\ Typed(F, f)
                    /\ ValuesOf(F, f) = Without(ValuesOf(E, e), {E.names[pos] : pos \in drop})
                    /\ GroupsOf(F, f) = Without(GroupsOf(E, e), Gone(E, drop))
                    /\ drop # {} => DropsTo(E, drop, F)
    BY <2>8 DEF Drops
  <2>10. Becomes(W, Dropped(Y, t, drop), t, F, f)
    BY <2>4, <2>9, BecomesTwice DEF Becomes
  <2>11. ValuesOf(F, f) = ValuesOf(D, c)
    BY <2>3, <2>5, <2>7, <2>9, ValuesApart
  <2>12. ASSUME InNameOrder(D)
         PROVE  GroupsOf(F, f) = GroupsOf(D, c) /\ UnusedGroups(F) < GroupBits
    <3>1. /\ Gone(E, drop) = {}
          /\ GroupBits * Cardinality(GroupPositions(E) \ drop) - card < GroupBits
      <4>1. InNameOrder(E) /\ card = Cardinality(DOMAIN E.groups)
        BY <2>3, <2>6, <2>12
      <4> HIDE DEF card, m
      <4>2. LET k == UnusedGroups(E) \div GroupBits
                gone == LastArrays(E, k)
            IN  /\ Gone(E, gone) = {}
                /\ GroupBits * Cardinality(GroupPositions(E) \ gone) - card < GroupBits
        BY <2>3, <4>1, SparedLemma
      <4> QED
        BY <2>6, <4>2 DEF m
    <3>2. GroupsOf(F, f) = GroupsOf(D, c)
      <4>1. GroupsOf(E, e) = [g \in DOMAIN GroupsOf(E, e) |-> GroupsOf(E, e)[g]]
        BY DEF GroupsOf
      <4>2. Without(GroupsOf(E, e), {}) = GroupsOf(E, e)
        BY <4>1 DEF Without
      <4> QED
        BY <2>5, <2>9, <3>1, <4>2
    <3>3. drop # {}
      <4>1. ASSUME drop = {} PROVE FALSE
        <5>1. GroupPositions(E) \ drop = GroupPositions(D)
          BY <2>6, <4>1
        <5>2. u = GroupBits * Cardinality(GroupPositions(D)) - card
          BY DEF UnusedGroups
        <5> QED
          BY <1>3, <3>1, <5>1, <5>2
      <4> QED
        BY <4>1
    <3>4. Cardinality(GroupPositions(F)) = Cardinality(GroupPositions(E) \ drop)
      BY <2>3, <2>9, <3>3, CountLeft
    <3>5. DOMAIN F.groups = DOMAIN D.groups
      <4>1. DOMAIN F.groups = {g \in DOMAIN E.groups : GroupArray(E, E.groups[g]) \notin drop}
        BY <2>9, <3>3 DEF DropsTo
      <4> QED
        BY <2>3, <3>1, <4>1 DEF Gone
    <3> QED
      BY <3>1, <3>2, <3>4, <3>5 DEF UnusedGroups
  <2> QED
    BY <2>1, <2>9, <2>10, <2>11, <2>12 DEF Compacts
<1> QED
  BY <1>2, <1>3

\* What operations on groups of a tree in W do, with the descriptor D that is seen as
\* seen.
GroupContract(W, t, D, seen) ==
    /\ \A g \in Groups :
         Seen(AppendGroup(W, t, g), t)
           = [seen EXCEPT !.groups = IF g \in DOMAIN @ THEN @ ELSE With(@, g, {})]
    /\ \A g \in DOMAIN D.groups, M \in SUBSET Points, remove \in BOOLEAN :
         Seen(SetGroup(W, t, g, M, remove), t)
           = [seen EXCEPT !.groups[g] = IF remove THEN M ELSE @ \union M]
    /\ \A S \in SUBSET Groups :
         Seen(DropGroups(W, t, S, FALSE), t) = [seen EXCEPT !.groups = Without(@, S)]
    /\ Seen(DropAllGroups(W, t), t) = [seen EXCEPT !.groups = Without(@, DOMAIN @)]
    /\ InNameOrder(D) => /\ Seen(CompactGroups(W, t), t) = seen
                         /\ UnusedGroups(Descriptor(CompactGroups(W, t), t)) < GroupBits

\* Whatever happens to the bits, an operation on a group leaves all others as they are
\* seen, and all attributes.
LEMMA GroupsContract ==
    ASSUME AttributesInv
    PROVE  GroupsMeetContract
<1> SUFFICES ASSUME NEW t \in Trees
             PROVE  GroupContract(World, t, Descriptor(World, t), Seen(World, t))
  BY DEF GroupsMeetContract, GroupContract, Compaction
<1>1. PICK W : W = World
  OBVIOUS
<1>2. Sound(W)
  BY <1>1 DEF AttributesInv, Steady
<1>3. PICK D, c : Shows(W, t, D, c) /\ Full(D, c)
  BY <1>1 DEF AttributesInv, Steady, Formed
<1>4. Typed(D, c) /\ Descriptor(W, t) = D /\ Seen(W, t) = SeenBy(D, c)
  BY <1>2, <1>3, DescriptorLemma, SeenLemma DEF Full, Shows
<1> DEFINE U == ValuesOf(D, c)
           G == GroupsOf(D, c)
           seen == [values |-> U, groups |-> G]
<1>5. Seen(W, t) = seen
  BY <1>4 DEF SeenBy
<1> DEFINE Ends(X, H) == Turns(W, X, t, [values |-> U, groups |-> H])
<1>6. ASSUME NEW X, NEW H, Ends(X, H)
      PROVE  Seen(X, t) = [values |-> U, groups |-> H]
  <2>1. PICK s : s = [values |-> U, groups |-> H]
    OBVIOUS
  <2>2. Turns(W, X, t, s)
    BY <1>6, <2>1
  <2> QED
    BY ONLY <2>1, <2>2, TurnsSeen, t \in Trees
<1>7. DOMAIN G = DOMAIN D.groups
  BY DEF GroupsOf
<1>8. ASSUME NEW g \in Groups
      PROVE  Seen(AppendGroup(W, t, g), t)
               = [seen EXCEPT !.groups = IF g \in DOMAIN @ THEN @ ELSE With(@, g, {})]
  <2>1. Ends(AppendGroup(W, t, g), IF g \in DOMAIN D.groups THEN G ELSE With(G, g, {}))
    BY <1>2, <1>3, AppendGroupTurns
  <2> HIDE DEF U, G, Ends
  <2> QED
    BY <1>6, <1>7, <2>1
<1>9. ASSUME NEW g \in DOMAIN D.groups, NEW M \in SUBSET Points, NEW remove \in BOOLEAN
      PROVE  Seen(SetGroup(W, t, g, M, remove), t)
               = [seen EXCEPT !.groups[g] = IF remove THEN M ELSE @ \union M]
  <2> DEFINE H == [G EXCEPT ![g] = IF remove THEN M ELSE @ \union M]
  <2>1. Ends(SetGroup(W, t, g, M, remove), H)
    BY <1>2, <1>3, <1>4, SetGroupTurns
  <2> HIDE DEF U, G, Ends
  <2>2. [seen EXCEPT !.groups[g] = IF remove THEN M ELSE @ \union M] = [values |-> U, groups |-> H]
    OBVIOUS
  <2> QED
    BY <1>6, <2>1, <2>2
<1>10. ASSUME NEW S
       PROVE  Seen(DropGroups(W, t, S, FALSE), t) = [seen EXCEPT !.groups = Without(@, S)]
  <2>1. Ends(DropGroups(W, t, S, FALSE), Without(G, S))
    BY <1>2, <1>3, <1>4, DropGroupsTurns
  <2> HIDE DEF U, G, Ends
  <2>2. [seen EXCEPT !.groups = Without(@, S)] = [values |-> U, groups |-> Without(G, S)]
    OBVIOUS
  <2>3. Seen(DropGroups(W, t, S, FALSE), t) = [values |-> U, groups |-> Without(G, S)]
    BY <1>6, <2>1
  <2> QED
    BY <2>2, <2>3
<1>11. Seen(DropAllGroups(W, t), t) = [seen EXCEPT !.groups = Without(@, DOMAIN @)]
  <2>1. Ends(DropAllGroups(W, t), Without(G, DOMAIN D.groups))
    BY <1>2, <1>3, <1>4, DropAllGroupsTurns
  <2> HIDE DEF U, G, Ends
  <2>2. [seen EXCEPT !.groups = Without(@, DOMAIN @)]
          = [values |-> U, groups |-> Without(G, DOMAIN D.groups)]
    BY <1>7
  <2> QED
    BY <1>6, <2>1, <2>2
<1>12. ASSUME InNameOrder(D)
       PROVE  /\ Seen(CompactGroups(W, t), t) = seen
              /\ UnusedGroups(Descriptor(CompactGroups(W, t), t)) < GroupBits
  <2>1. PICK F, f : Compacts(W, t, D, c, F, f)
    BY <1>2, <1>3, <1>4, CompactLemma
  <2>2. /\ Becomes(W, CompactGroups(W, t), t, F, f) /\ Typed(F, f)
        /\ ValuesOf(F, f) = U /\ GroupsOf(F, f) = G /\ UnusedGroups(F) < GroupBits
    BY <1>12, <2>1 DEF Compacts
  <2>3. Descriptor(CompactGroups(W, t), t) = F
    BY <2>2, DescriptorLemma DEF Becomes, Shows
  <2>4. Ends(CompactGroups(W, t), G)
    BY <2>2 DEF Turns, SeenBy
  <2> HIDE DEF U, G, Ends
  <2> QED
    BY <1>6, <2>2, <2>3, <2>4
<1> HIDE DEF U, G, seen, Ends
<1>13. GroupContract(W, t, D, seen)
  BY <1>8, <1>9, <1>10, <1>11, <1>12 DEF GroupContract
<1> QED
  BY <1>1, <1>4, <1>5, <1>13

-------------------------------------------------------------------------------
(* The steps.                                                              *)

\* A change of t alone.
Changed(W, X, t) == Sound(X) /\ Others(W, X, t) /\ Formed(X, t)

\* A tree in which "P" is still seen is formed as the invariant asks.
LEMMA TurnsChanged ==
    ASSUME NEW W, NEW X, NEW t \in Trees, NEW U, NEW G,
           Turns(W, X, t, [values |-> U, groups |-> G]), Position \in DOMAIN U
    PROVE  Changed(W, X, t)
<1>1. PICK D, c : Becomes(W, X, t, D, c) /\ Typed(D, c)
                  /\ SeenBy(D, c) = [values |-> U, groups |-> G]
  BY DEF Turns
<1>2. ValuesOf(D, c) = U
  <2>1. \A A, B, C, E : [values |-> A, groups |-> B] = [values |-> C, groups |-> E] => A = C
    OBVIOUS
  <2> QED
    BY <1>1, <2>1 DEF SeenBy
<1>3. Position \in ToSet(D.names)
  BY <1>2, ValuesDomain
<1> QED
  BY <1>1, <1>3 DEF Changed, Becomes, Formed, Full

\* After a change, every tree is formed, and all but one look as before.
LEMMA ChangedSteady ==
    ASSUME NEW W, Steady(W), NEW X, NEW t \in Trees, Changed(W, X, t)
    PROVE  Steady(X) /\ \A u \in Trees \ {t} : Seen(X, u) = Seen(W, u)
<1>1. ASSUME NEW u \in Trees \ {t} PROVE Formed(X, u) /\ Seen(X, u) = Seen(W, u)
  <2>1. PICK D, c : Shows(W, u, D, c) /\ Full(D, c)
    BY DEF Steady, Formed
  <2>2. Kept(W, X, u)
    BY DEF Changed, Others
  <2>3. Shows(X, u, D, c)
    BY <2>1, <2>2, KeptShows DEF Steady
  <2>4. Seen(W, u) = SeenBy(D, c)
    BY <2>1, SeenLemma DEF Steady, Full
  <2>5. Seen(X, u) = SeenBy(D, c)
    BY <2>1, <2>3, SeenLemma DEF Changed, Full
  <2> QED
    BY <2>1, <2>3, <2>4, <2>5 DEF Formed
<1> QED
  BY <1>1 DEF Changed, Steady

\* The attribute that is first in every leaf is no group array.
LEMMA PositionValue ==
    ASSUME NEW D, NEW c, Full(D, c)
    PROVE  Position \in DOMAIN ValuesOf(D, c)
  BY AttributesAssumption, ValuesDomain DEF Full

\* compactGroups(), alone and after groups are dropped.
LEMMA CompactChanges ==
    ASSUME NEW W, Sound(W), NEW t \in Trees, NEW D, NEW c, Shows(W, t, D, c), Full(D, c)
    PROVE  Changed(W, CompactGroups(W, t), t)
<1>1. PICK F, f : Compacts(W, t, D, c, F, f)
  BY CompactLemma DEF Full
<1>2. /\ Becomes(W, CompactGroups(W, t), t, F, f) /\ Typed(F, f)
      /\ ValuesOf(F, f) = ValuesOf(D, c)
  BY <1>1 DEF Compacts
<1>3. Position \in ToSet(F.names)
  BY <1>2, PositionValue, ValuesDomain
<1> QED
  BY <1>2, <1>3 DEF Changed, Becomes, Formed, Full

\* dropGroups(), with and without compaction, leaves the tree formed and the
\* others alone.
LEMMA DropGroupsChanges ==
    ASSUME NEW W, Sound(W), NEW t \in Trees, NEW D, NEW c, Shows(W, t, D, c), Full(D, c),
           NEW S, NEW compact \in BOOLEAN
    PROVE  Changed(W, DropGroups(W, t, S, compact), t)
<1> DEFINE E == WithoutGroups(D, S)
           X == Described(W, t, E)
<1>1. Good(D) /\ Descriptor(W, t) = D /\ Typed(D, c)
  BY DescribedGood, DescriptorLemma DEF Shows, Full
<1>2. DropGroups(W, t, S, compact) = IF compact THEN CompactGroups(X, t) ELSE X
  BY <1>1 DEF DropGroups
<1>3. /\ Good(E) /\ E.names = D.names /\ Typed(E, c)
  BY <1>1, WithoutGroupsContent
<1>4. Full(E, c)
  BY <1>3 DEF Full
<1> HIDE DEF E
<1>5. Becomes(W, X, t, E, c)
  BY <1>3, DescribedShows
<1> HIDE DEF X
<1>6. Changed(W, X, t)
  BY <1>4, <1>5 DEF Changed, Becomes, Formed
<1>7. Changed(X, CompactGroups(X, t), t)
  BY <1>4, <1>5, CompactChanges DEF Becomes
<1>8. Changed(W, CompactGroups(X, t), t)
  BY <1>6, <1>7, OthersTwice DEF Changed
<1> QED
  BY <1>2, <1>6, <1>8

\* The worlds that a change of t may make of W.
MayChange(W, t, X) ==
    LET D == Descriptor(W, t) IN
    \/ \E name \in Ordinary \ ToSet(D.names) : X = Appended(W, t, name)
    \/ \E drop \in SUBSET (1 .. Len(D.names)) :
         Find(D, Position) \notin drop /\ X = Dropped(W, t, drop)
    \/ \E from, to \in Ordinary \ {Position} :
         from \in ToSet(D.names) /\ to \notin ToSet(D.names) /\ X = Renamed(W, t, from, to)
    \/ \E names \in Orders(D) : X = Reordered(W, t, names)
    \/ \E name \in Ordinary \intersect ToSet(D.names), v \in Values : X = Collapsed(W, t, name, v)
    \/ \E g \in Groups : X = AppendGroup(W, t, g)
    \/ \E g \in DOMAIN D.groups, M \in SUBSET Points, remove \in BOOLEAN :
         X = SetGroup(W, t, g, M, remove)
    \/ \E S \in SUBSET Groups, compact \in BOOLEAN : X = DropGroups(W, t, S, compact)
    \/ X = DropAllGroups(W, t)
    \/ X = CompactGroups(W, t)

\* Every change of a tree does.
LEMMA ChangeLemma ==
    ASSUME NEW W, Steady(W), NEW t \in Trees, NEW X, MayChange(W, t, X)
    PROVE  Changed(W, X, t)
<1>1. PICK D, c : Shows(W, t, D, c) /\ Full(D, c)
  BY DEF Steady, Formed
<1>2. /\ Sound(W) /\ Typed(D, c) /\ Descriptor(W, t) = D /\ Good(D)
      /\ Position \in DOMAIN ValuesOf(D, c)
  BY <1>1, DescriptorLemma, DescribedGood, PositionValue DEF Steady, Full, Shows
<1> DEFINE U == ValuesOf(D, c)
           G == GroupsOf(D, c)
           n == Len(D.names)
<1>3. CASE \E name \in Ordinary \ ToSet(D.names) : X = Appended(W, t, name)
  <2>1. PICK name \in Ordinary \ ToSet(D.names) : X = Appended(W, t, name)
    BY <1>3
  <2>2. Turns(W, X, t, [values |-> With(U, name, Filled(Initial)), groups |-> G])
    BY <1>1, <1>2, <2>1, AppendTurns
  <2>3. Position \in DOMAIN With(U, name, Filled(Initial))
    BY <1>2 DEF With
  <2> QED
    BY ONLY <2>2, <2>3, TurnsChanged, t \in Trees
<1>4. CASE \E drop \in SUBSET (1 .. n) : Find(D, Position) \notin drop /\ X = Dropped(W, t, drop)
  <2>1. PICK drop \in SUBSET (1 .. n) : Find(D, Position) \notin drop /\ X = Dropped(W, t, drop)
    BY <1>4
  <2> DEFINE V == Without(U, {D.names[pos] : pos \in drop})
             H == Without(G, Gone(D, drop))
  <2>2. Turns(W, X, t, [values |-> V, groups |-> H])
    BY <1>1, <1>2, <2>1, DropTurns
  <2>3. \A pos \in drop : D.names[pos] # Position
    BY <1>2, <2>1, FindLemma
  <2>4. Position \in DOMAIN V
    BY <1>2, <2>3 DEF Without
  <2> HIDE DEF V, H
  <2> QED
    BY ONLY <2>2, <2>4, TurnsChanged, t \in Trees
<1>5. CASE \E from, to \in Ordinary \ {Position} :
             from \in ToSet(D.names) /\ to \notin ToSet(D.names) /\ X = Renamed(W, t, from, to)
  <2>1. PICK from, to \in Ordinary \ {Position} :
             from \in ToSet(D.names) /\ to \notin ToSet(D.names) /\ X = Renamed(W, t, from, to)
    BY <1>5
  <2>2. from \in ToSet(D.names) \ GroupNames /\ to \in Ordinary \ ToSet(D.names) /\ from # Position
    BY <2>1 DEF Ordinary
  <2> DEFINE V == With(Without(U, {from}), to, U[from])
  <2>3. Turns(W, X, t, [values |-> V, groups |-> G])
    BY <1>1, <1>2, <2>1, <2>2, RenameTurns
  <2>4. Position \in DOMAIN V
    BY <1>2, <2>2 DEF With, Without
  <2> HIDE DEF V
  <2> QED
    BY ONLY <2>3, <2>4, TurnsChanged, t \in Trees
<1>6. CASE \E names \in Orders(D) : X = Reordered(W, t, names)
  <2>1. Turns(W, X, t, SeenBy(D, c))
    BY <1>1, <1>2, <1>6, ReorderTurns
  <2>2. Turns(W, X, t, [values |-> U, groups |-> G])
    BY <2>1 DEF SeenBy
  <2> QED
    BY ONLY <1>2, <2>2, TurnsChanged, t \in Trees
<1>7. CASE \E name \in Ordinary \intersect ToSet(D.names), v \in Values : X = Collapsed(W, t, name, v)
  <2>1. PICK name \in Ordinary \intersect ToSet(D.names), v \in Values : X = Collapsed(W, t, name, v)
    BY <1>7
  <2>2. name \in ToSet(D.names) \ GroupNames
    BY DEF Ordinary
  <2> DEFINE V == [U EXCEPT ![name] = Filled(v)]
  <2>3. Turns(W, X, t, [values |-> V, groups |-> G])
    BY <1>1, <1>2, <2>1, <2>2, CollapseTurns
  <2>4. DOMAIN V = DOMAIN U
    OBVIOUS
  <2>5. Position \in DOMAIN V
    BY <1>2, <2>4
  <2> HIDE DEF V
  <2> QED
    BY ONLY <2>3, <2>5, TurnsChanged, t \in Trees
<1>8. CASE \E g \in Groups : X = AppendGroup(W, t, g)
  <2>1. PICK g \in Groups : X = AppendGroup(W, t, g)
    BY <1>8
  <2> DEFINE H == IF g \in DOMAIN D.groups THEN G ELSE With(G, g, {})
  <2>2. Turns(W, X, t, [values |-> U, groups |-> H])
    BY <1>1, <1>2, <2>1, AppendGroupTurns
  <2> HIDE DEF H
  <2> QED
    BY ONLY <1>2, <2>2, TurnsChanged, t \in Trees
<1>9. CASE \E g \in DOMAIN D.groups, M \in SUBSET Points, remove \in BOOLEAN :
             X = SetGroup(W, t, g, M, remove)
  <2>1. PICK g \in DOMAIN D.groups, M \in SUBSET Points, remove \in BOOLEAN :
             X = SetGroup(W, t, g, M, remove)
    BY <1>9
  <2> DEFINE H == [G EXCEPT ![g] = IF remove THEN M ELSE @ \union M]
  <2>2. Turns(W, X, t, [values |-> U, groups |-> H])
    BY <1>1, <1>2, <2>1, SetGroupTurns
  <2> HIDE DEF H
  <2> QED
    BY ONLY <1>2, <2>2, TurnsChanged, t \in Trees
<1>10. CASE \E S \in SUBSET Groups, compact \in BOOLEAN : X = DropGroups(W, t, S, compact)
  <2>1. PICK S \in SUBSET Groups, compact \in BOOLEAN : X = DropGroups(W, t, S, compact)
    BY <1>10
  <2> QED
    BY <1>1, <1>2, <2>1, DropGroupsChanges
<1>11. CASE X = DropAllGroups(W, t)
  <2> DEFINE H == Without(G, DOMAIN D.groups)
  <2>1. Turns(W, X, t, [values |-> U, groups |-> H])
    BY <1>1, <1>2, <1>11, DropAllGroupsTurns
  <2> HIDE DEF H
  <2> QED
    BY ONLY <1>2, <2>1, TurnsChanged, t \in Trees
<1>12. CASE X = CompactGroups(W, t)
  BY <1>1, <1>2, <1>12, CompactChanges
<1> QED
  BY <1>2, <1>3, <1>4, <1>5, <1>6, <1>7, <1>8, <1>9, <1>10, <1>11, <1>12 DEF MayChange

\* CopyTree(t, u) in the world W.
Copied(W, t, u) ==
    Settled([W EXCEPT !.sets = [s \in DOMAIN W.sets |->
                IF s[1] = u THEN W.sets[<<t, s[2]>>] ELSE W.sets[s]]])

\* A copy shares descriptors and arrays with its original.
LEMMA CopyLemma ==
    ASSUME NEW W, Steady(W), NEW t \in Trees, NEW u \in Trees
    PROVE  Changed(W, Copied(W, t, u), u)
<1> DEFINE set == [s \in DOMAIN W.sets |->
                     IF s[1] = u THEN W.sets[<<t, s[2]>>] ELSE W.sets[s]]
           V == [descriptors |-> W.descriptors, sets |-> set, arrays |-> W.arrays]
           R == [mDescr : DOMAIN W.descriptors, mAttrs : Seq(DOMAIN W.arrays)]
<1>1. Sound(W) /\ Formed(W, t)
  BY DEF Steady
<1>2. W.sets \in [Sites -> R] /\ DOMAIN W.sets = Sites
  BY <1>1 DEF Sound
<1>3. Copied(W, t, u) = Settled(V)
  <2> HIDE DEF set
  <2>1. [W EXCEPT !.sets = set] = V
    BY <1>1, OtherSets
  <2> QED
    BY <2>1 DEF Copied, set
<1> HIDE DEF R
<1>4. \A l \in Leaves : set[<<u, l>>] = W.sets[<<t, l>>]
  BY <1>2 DEF Sites
<1>5. \A v \in Trees \ {u}, l \in Leaves : set[<<v, l>>] = W.sets[<<v, l>>]
  BY <1>2 DEF Sites
<1>6. set \in [Sites -> R]
  <2>1. \A s \in Sites : <<t, s[2]>> \in Sites
    BY DEF Sites
  <2> QED
    BY <1>2, <2>1
<1> HIDE DEF set
<1>7. V.descriptors = W.descriptors /\ V.sets = set /\ V.arrays = W.arrays
  OBVIOUS
<1>8. V = [descriptors |-> V.descriptors, sets |-> V.sets, arrays |-> V.arrays]
  OBVIOUS
<1> HIDE DEF V
<1>9. Sound(V)
  BY <1>1, <1>6, <1>7, <1>8 DEF Sound, R
<1>10. PICK D, c : Shows(W, t, D, c) /\ Full(D, c)
  BY <1>1 DEF Formed
<1>11. Shows(V, u, D, c)
  <2>1. Describes(W, t, D) /\ Stores(W, t, Len(D.names), c)
    BY <1>10 DEF Shows
  <2>2. \A l \in Leaves : V.sets[<<u, l>>] = W.sets[<<t, l>>]
    BY <1>4, <1>7
  <2>3. Describes(V, u, D)
    BY <1>7, <2>1, <2>2 DEF Describes
  <2>4. Stores(V, u, Len(D.names), c)
    <3> SUFFICES ASSUME NEW l \in Leaves
                 PROVE  /\ Len(V.sets[<<u, l>>].mAttrs) = Len(D.names)
                        /\ \A i \in 1 .. Len(D.names) :
                             V.arrays[V.sets[<<u, l>>].mAttrs[i]] = c[l][i]
      BY DEF Stores
    <3>1. PICK s : s = W.sets[<<t, l>>]
      OBVIOUS
    <3>2. Len(s.mAttrs) = Len(D.names) /\ \A i \in 1 .. Len(D.names) : W.arrays[s.mAttrs[i]] = c[l][i]
      BY <2>1, <3>1 DEF Stores
    <3>3. V.sets[<<u, l>>] = s
      BY <2>2, <3>1
    <3> QED
      BY <1>7, <3>2, <3>3
  <2> QED
    BY <2>3, <2>4 DEF Shows
<1>12. Others(W, V, u)
  BY <1>5, <1>7 DEF Others, Kept, KeptAt
<1>13. Becomes(W, Settled(V), u, D, c)
  BY <1>9, <1>11, <1>12, SettledBecomes
<1> QED
  BY <1>3, <1>10, <1>13 DEF Changed, Becomes, Formed

\* A step changes one tree.
LEMMA StepLemma ==
    ASSUME AttributesInv, Next
    PROVE  \E t \in Trees : Changed(World, World', t)
<1>1. PICK W : W = World
  OBVIOUS
<1>2. Steady(W)
  BY <1>1 DEF AttributesInv
<1>3. ASSUME NEW Z, Sound(Z), Become(Z) PROVE World' = Z
  <2>1. Z = [descriptors |-> Z.descriptors, sets |-> Z.sets, arrays |-> Z.arrays]
    BY <1>3 DEF Sound
  <2>2. World' = [descriptors |-> Z.descriptors, sets |-> Z.sets, arrays |-> Z.arrays]
    BY <1>3 DEF World, Become
  <2> QED
    BY <2>1, <2>2
<1>4. CASE \E t \in Trees : Change(t)
  <2>1. PICK t \in Trees : Change(t)
    BY <1>4
  <2>2. \E Z : MayChange(World, t, Z) /\ Become(Z)
    <3> DEFINE D == Descriptor(World, t)
    <3>1. CASE \E name \in Ordinary : Room(t) /\ AppendAttribute(t, name)
      BY <3>1 DEF AppendAttribute, NamesOf, MayChange
    <3>2. CASE \E drop \in SUBSET (1 .. Len(D.names)) : DropAttributes(t, drop)
      BY <3>2 DEF DropAttributes, MayChange
    <3>3. CASE \E from, to \in Ordinary \ {Position} : RenameAttributes(t, from, to)
      BY <3>3 DEF RenameAttributes, NamesOf, MayChange
    <3>4. CASE \E names \in Orders(D) : ReorderAttributes(t, names)
      BY <3>4 DEF ReorderAttributes, MayChange
    <3>5. CASE \E name \in Ordinary, v \in Values : CollapseAttribute(t, name, v)
      BY <3>5 DEF CollapseAttribute, NamesOf, MayChange
    <3>6. CASE \E g \in Groups : Room(t) /\ Become(AppendGroup(World, t, g))
      BY <3>6 DEF MayChange
    <3>7. CASE \E g \in Groups, M \in SUBSET Points, remove \in BOOLEAN :
                 SetMembers(t, g, M, remove)
      BY <3>7 DEF SetMembers, MayChange
    <3>8. CASE \E S \in SUBSET Groups, compact \in BOOLEAN :
                 Become(DropGroups(World, t, S, compact))
      BY <3>8 DEF MayChange
    <3>9. CASE Become(DropAllGroups(World, t))
      BY <3>9 DEF MayChange
    <3>10. CASE Become(CompactGroups(World, t))
      BY <3>10 DEF MayChange
    <3> QED
      BY <2>1, <3>1, <3>2, <3>3, <3>4, <3>5, <3>6, <3>7, <3>8, <3>9, <3>10 DEF Change
  <2>3. PICK Z : MayChange(W, t, Z) /\ Become(Z)
    BY <1>1, <2>2
  <2>4. Changed(W, Z, t)
    BY <1>2, <2>3, ChangeLemma
  <2>5. World' = Z
    BY <1>3, <2>3, <2>4 DEF Changed
  <2> QED
    BY <1>1, <2>4, <2>5
<1>5. CASE \E t, u \in Trees : CopyTree(t, u)
  <2>1. PICK t \in Trees, u \in Trees : CopyTree(t, u)
    BY <1>5
  <2>2. Become(Copied(World, t, u))
    BY <2>1 DEF CopyTree, Copied
  <2>3. Changed(W, Copied(W, t, u), u)
    BY <1>2, CopyLemma
  <2>4. World' = Copied(W, t, u)
    BY <1>1, <1>3, <2>2, <2>3 DEF Changed
  <2> QED
    BY <1>1, <2>3, <2>4
<1> QED
  BY <1>4, <1>5 DEF Next

\* The invariant is inductive.
LEMMA InvStep ==
    ASSUME AttributesInv, [Next]_vars
    PROVE  AttributesInv'
<1>1. CASE Next
  <2>1. PICK t \in Trees : Changed(World, World', t)
    BY <1>1, StepLemma
  <2>2. PICK W, X : W = World /\ X = World'
    OBVIOUS
  <2>3. Steady(X)
    BY <2>1, <2>2, ChangedSteady DEF AttributesInv
  <2> QED
    BY <2>2, <2>3 DEF AttributesInv
<1>2. CASE UNCHANGED vars
  <2>1. World' = World
    BY <1>2 DEF World, vars
  <2> QED
    BY <2>1 DEF AttributesInv
<1> QED
  BY <1>1, <1>2

-------------------------------------------------------------------------------
(* The theorems.                                                           *)

\* Descriptors and arrays are where the pointers of the initial sets point.
LEMMA InitInv == Init => AttributesInv
<1> SUFFICES ASSUME Init PROVE AttributesInv
  OBVIOUS
<1>1. PICK D \in InitialDescriptors, bits \in InitialBits :
        /\ descriptors = [d \in Trees \X {0} |-> D]
        /\ attributeSets = [s \in Trees \X Leaves |->
             [mDescr |-> <<s[1], 0>>,
              mAttrs |-> [i \in DOMAIN D.names |-> <<s[1], s[2], i>>]]]
        /\ arrays = [a \in InitialArrays(D) |->
             [p \in PointsIn[a[2]] |->
                IF a[3] \in GroupPositions(D) THEN bits ELSE Initial]]
        /\ changes = 0
  BY Zenon DEF Init
<1> DEFINE n == Len(D.names)
           array == {<<t, l, i>> : t \in Trees, l \in Leaves, i \in 1 .. n}
           fill(i) == IF i \in GroupPositions(D) THEN bits ELSE Initial
           c == [l \in Leaves |-> [i \in 1 .. n |-> [p \in PointsIn[l] |-> fill(i)]]]
<1>2. Good(D) /\ Position \in ToSet(D.names) /\ bits \in SUBSET (0 .. GroupBits - 1)
  BY InitialAssumption DEF Good, IsDescriptor
<1>3. n \in Nat /\ DOMAIN D.names = 1 .. n
  BY <1>2, GoodFacts
<1>4. /\ descriptors = [d \in Trees \X {0} |-> D]
      /\ attributeSets = [s \in Trees \X Leaves |->
           [mDescr |-> <<s[1], 0>>, mAttrs |-> [i \in 1 .. n |-> <<s[1], s[2], i>>]]]
      /\ arrays = [a \in array |-> [p \in PointsIn[a[2]] |-> fill(a[3])]]
  BY <1>1, <1>3 DEF InitialArrays
<1> HIDE DEF n
<1>5. IsFiniteSet(DOMAIN descriptors)
  <2>1. IsFiniteSet({0})
    BY FS_Singleton
  <2>2. IsFiniteSet(Trees \X {0})
    BY <2>1, FS_Product, AttributesAssumption
  <2> QED
    BY <1>4, <2>2
<1>6. IsFiniteSet(DOMAIN arrays)
  <2> DEFINE S == (Trees \X Leaves) \X (1 .. n)
             f == [x \in S |-> <<x[1][1], x[1][2], x[2]>>]
  <2>1. IsFiniteSet(1 .. n)
    BY <1>3, FS_Interval
  <2>2. IsFiniteSet(Trees \X Leaves)
    BY FS_Product, AttributesAssumption
  <2>3. IsFiniteSet(S)
    BY <2>1, <2>2, FS_Product
  <2>4. DOMAIN f = S /\ f = [x \in S |-> f[x]]
    OBVIOUS
  <2>5. array \subseteq {f[x] : x \in S}
    <3>1. ASSUME NEW t \in Trees, NEW l \in Leaves, NEW i \in 1 .. n
          PROVE  <<t, l, i>> \in {f[x] : x \in S}
      <4>1. PICK x : x = <<<<t, l>>, i>>
        OBVIOUS
      <4>2. x \in S /\ f[x] = <<t, l, i>>
        BY <4>1
      <4> HIDE DEF f, S
      <4> QED
        BY <4>2
    <3> HIDE DEF f, S
    <3> QED
      BY <3>1
  <2> HIDE DEF S, f
  <2>6. IsFiniteSet({f[x] : x \in S})
    BY <2>3, <2>4, ImageFinite
  <2>7. IsFiniteSet(array)
    BY <2>5, <2>6, FS_Subset
  <2> QED
    BY <1>4, <2>7
<1> HIDE DEF array
<1>7. \A t \in Trees, l \in Leaves, i \in 1 .. n :
        <<t, l, i>> \in array /\ <<t, l, i>>[2] = l /\ <<t, l, i>>[3] = i
  BY DEF array
<1>8. ASSUME NEW t \in Trees, NEW l \in Leaves
      PROVE  LET set == attributeSets[<<t, l>>] IN
             /\ set = [mDescr |-> set.mDescr, mAttrs |-> set.mAttrs]
             /\ set.mDescr = <<t, 0>> /\ Len(set.mAttrs) = n
             /\ set.mAttrs \in Seq(DOMAIN arrays)
             /\ \A i \in 1 .. n : arrays[set.mAttrs[i]] = [p \in PointsIn[l] |-> fill(i)]
  <2> DEFINE m == [i \in 1 .. n |-> <<t, l, i>>]
  <2>1. attributeSets[<<t, l>>] = [mDescr |-> <<t, 0>>, mAttrs |-> m]
    BY <1>4
  <2>2. m \in [1 .. n -> DOMAIN arrays]
    BY <1>4, <1>7
  <2>3. m \in Seq(DOMAIN arrays) /\ Len(m) = n
    <3> HIDE DEF m
    <3> QED
      BY <1>3, <2>2, FunctionIsSeq
  <2>4. ASSUME NEW i \in 1 .. n PROVE arrays[m[i]] = [p \in PointsIn[l] |-> fill(i)]
    BY <1>4, <1>7
  <2> HIDE DEF m, fill
  <2> QED
    BY <2>1, <2>3, <2>4
<1> HIDE DEF fill
<1>9. PICK W : W = World
  OBVIOUS
<1>10. /\ W = [descriptors |-> descriptors, sets |-> attributeSets, arrays |-> arrays]
       /\ W.descriptors = descriptors /\ W.sets = attributeSets /\ W.arrays = arrays
  BY <1>9 DEF World
<1>11. Sound(W)
  <2>1. attributeSets = [s \in Sites |-> attributeSets[s]]
    BY <1>4 DEF Sites
  <2>2. ASSUME NEW s \in Sites
        PROVE  /\ attributeSets[s] = [mDescr |-> attributeSets[s].mDescr,
                                      mAttrs |-> attributeSets[s].mAttrs]
               /\ attributeSets[s].mDescr \in DOMAIN descriptors
               /\ attributeSets[s].mAttrs \in Seq(DOMAIN arrays)
    <3>1. PICK t \in Trees, l \in Leaves : s = <<t, l>>
      BY DEF Sites
    <3>2. <<t, 0>> \in DOMAIN descriptors
      BY <1>4
    <3> QED
      BY <1>8, <3>1, <3>2
  <2>3. \A d \in DOMAIN descriptors : Good(descriptors[d])
    BY <1>2, <1>4
  <2> QED
    BY <1>5, <1>6, <1>10, <2>1, <2>2, <2>3, SoundIf
<1>12. Typed(D, c)
  <2> SUFFICES ASSUME NEW l \in Leaves, NEW i \in 1 .. n
               PROVE  c[l][i] \in [PointsIn[l] -> IF D.names[i] \in GroupNames
                                                  THEN SUBSET (0 .. GroupBits - 1)
                                                  ELSE Values]
    BY DEF Typed, n
  <2>1. fill(i) \in IF D.names[i] \in GroupNames THEN SUBSET (0 .. GroupBits - 1) ELSE Values
    BY <1>2, GoodFacts, AttributesAssumption DEF fill, n
  <2> QED
    BY <2>1
<1>13. ASSUME NEW t \in Trees PROVE Shows(W, t, D, c)
  <2>1. descriptors[<<t, 0>>] = D
    BY <1>4
  <2>2. \A l \in Leaves, i \in 1 .. n : c[l][i] = [p \in PointsIn[l] |-> fill(i)]
    OBVIOUS
  <2> HIDE DEF c
  <2>3. Describes(W, t, D)
    BY <1>8, <1>10, <2>1 DEF Describes
  <2>4. Stores(W, t, n, c)
    BY <1>8, <1>10, <2>2 DEF Stores
  <2> QED
    BY <2>3, <2>4 DEF Shows, n
<1> HIDE DEF c
<1> QED
  BY <1>2, <1>9, <1>11, <1>12, <1>13 DEF AttributesInv, Steady, Formed, Full

\* The invariant says that sets are in step with their descriptors.
LEMMA InvInStep == AttributesInv => SetsInStep
<1> SUFFICES ASSUME AttributesInv PROVE SetsInStep
  OBVIOUS
<1>1. PICK W : W = World
  OBVIOUS
<1>2. W.descriptors = descriptors /\ W.sets = attributeSets /\ W.arrays = arrays
  BY <1>1 DEF World
<1>3. Sound(W) /\ \A t \in Trees : Formed(W, t)
  BY <1>1 DEF AttributesInv, Steady
<1>4. \A d \in DOMAIN descriptors : WellFormed(descriptors[d])
  BY <1>2, <1>3 DEF Sound, Good
<1>5. ASSUME NEW t \in Trees, NEW l \in Leaves
      PROVE  /\ attributeSets[<<t, l>>].mDescr \in DOMAIN descriptors
             /\ \A m \in Leaves :
                 attributeSets[<<t, l>>].mDescr = attributeSets[<<t, m>>].mDescr
             /\ Len(Attrs(W, t, l)) = Len(DescriptorOf(W, t, l).names)
             /\ ToSet(Attrs(W, t, l)) \subseteq DOMAIN arrays
             /\ \A pos \in DOMAIN Attrs(W, t, l) :
                 Content(W, t, l, pos) \in
                    [PointsIn[l] -> IF DescriptorOf(W, t, l).names[pos] \in GroupNames
                                    THEN SUBSET (0 .. GroupBits - 1) ELSE Values]
  <2>1. PICK D, c : Shows(W, t, D, c) /\ Full(D, c)
    BY <1>3 DEF Formed
  <2>2. Describes(W, t, D) /\ Stores(W, t, Len(D.names), c) /\ Typed(D, c)
    BY <2>1 DEF Shows, Full
  <2>3. DescriptorOf(W, t, l) = D
    BY <2>2, DescriptorLemma
  <2>4. <<t, l>> \in Sites
    BY DEF Sites
  <2> DEFINE s == W.sets[<<t, l>>]
  <2>5. /\ s.mDescr \in DOMAIN W.descriptors /\ s.mAttrs \in Seq(DOMAIN W.arrays)
        /\ DOMAIN s.mAttrs = 1 .. Len(s.mAttrs)
        /\ \A i \in 1 .. Len(s.mAttrs) : s.mAttrs[i] \in DOMAIN W.arrays
    BY <1>3, <2>4, SoundFacts
  <2>6. Attrs(W, t, l) = s.mAttrs
    BY DEF Attrs
  <2>7. Len(s.mAttrs) = Len(D.names) /\ \A i \in 1 .. Len(D.names) : W.arrays[s.mAttrs[i]] = c[l][i]
    BY <2>2 DEF Stores
  <2>8. ToSet(s.mAttrs) \subseteq DOMAIN W.arrays
    BY <2>5 DEF ToSet
  <2>9. \A m \in Leaves : s.mDescr = W.sets[<<t, m>>].mDescr
    BY <2>2 DEF Describes
  <2> HIDE DEF s
  <2>10. ASSUME NEW pos \in 1 .. Len(D.names)
         PROVE  Content(W, t, l, pos) \in
                    [PointsIn[l] -> IF D.names[pos] \in GroupNames
                                    THEN SUBSET (0 .. GroupBits - 1) ELSE Values]
    <3>1. Content(W, t, l, pos) = c[l][pos]
      BY <2>6, <2>7 DEF Content
    <3> QED
      BY <2>2, <3>1, TypedAt
  <2>11. DOMAIN Attrs(W, t, l) = 1 .. Len(D.names)
    BY <2>5, <2>6, <2>7
  <2> QED
    BY <1>2, <2>3, <2>5, <2>6, <2>7, <2>8, <2>9, <2>10, <2>11 DEF s
<1> QED
  BY <1>1, <1>4, <1>5 DEF SetsInStep

\* The invariant holds in every state.
LEMMA InvAlways == Spec => []AttributesInv
<1>1. AttributesInv /\ [Next]_vars => AttributesInv'
  BY InvStep
<1> QED
  BY <1>1, InitInv, PTL DEF Spec

\* Whatever is appended, dropped, renamed, reordered, written, compacted and copied, the
\* leaves of a tree keep one descriptor, with an array of the right kind for each of its
\* positions, and attributes and groups keep places of their own.
THEOREM SetsCorrect == Spec => []SetsInStep
  BY InvAlways, InvInStep, PTL

\* A change of one tree never shows in another that shares its descriptors and arrays.
THEOREM CopiesCorrect == Spec => CopiesAreIndependent
<1>1. ASSUME AttributesInv, [Next]_vars
      PROVE  [\E t \in Trees : \A u \in Trees \ {t} : Seen(World', u) = Seen(World, u)]_vars
  <2>1. CASE Next
    <3>1. PICK t \in Trees : Changed(World, World', t)
      BY <2>1, <1>1, StepLemma
    <3>2. PICK W, X : W = World /\ X = World'
      OBVIOUS
    <3>3. \A u \in Trees \ {t} : Seen(X, u) = Seen(W, u)
      BY <1>1, <3>1, <3>2, ChangedSteady DEF AttributesInv
    <3> QED
      BY <3>2, <3>3
  <2>2. CASE UNCHANGED vars
    BY <2>2
  <2> QED
    BY <1>1, <2>1, <2>2
<1> QED
  BY <1>1, InvAlways, PTL DEF Spec, CopiesAreIndependent

\* Attributes are appended, dropped, renamed, reordered and written by name: all others
\* keep their values and all groups their members.
THEOREM AttributesCorrect == Spec => []AttributesMeetContract
  BY InvAlways, AttributesContract, PTL

\* A new group is empty, setting or dropping groups leaves the members of all others,
\* and so does compaction, which leaves no array that can be spared.
THEOREM GroupsCorrect == Spec => []GroupsMeetContract
  BY InvAlways, GroupsContract, PTL
=============================================================================
