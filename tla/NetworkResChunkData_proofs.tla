--------------------- MODULE NetworkResChunkData_proofs ---------------------
(***************************************************************************)
(* The operations on chunk data do with the ranges what those on sets do   *)
(* with the chunks, for every number of chunks.                            *)
(*                                                                         *)
(* An induction is the choice of the least number that is not in a set,    *)
(* which exists as "less than" is well-founded on the natural numbers.     *)
(***************************************************************************)
EXTENDS NetworkResChunkData, FiniteSetTheorems, WellFoundedInduction, TLAPS

(* A set of natural numbers that is not empty has a least element.         *)
LEMMA LeastNumber ==
    ASSUME NEW T \in SUBSET Nat, T # {}
    PROVE  \E n \in T : \A m \in T : n <= m
<1> DEFINE Less == {ss \in Nat \X Nat : ss[1] < ss[2]}
<1>1. IsWellFoundedOn(Less, Nat)
  BY NatLessThanWellFounded DEF OpToRel
<1>2. PICK x \in T : \A y \in T : <<y, x>> \notin Less
  <2> HIDE DEF Less
  <2> QED BY <1>1, WFMin
<1>3. ASSUME NEW y \in T PROVE x <= y
  <2>1. <<y, x>> \notin Less
    BY <1>2
  <2> QED BY <2>1
<1> HIDE DEF Less
<1> QED BY <1>3

(* A set that has 0 and with every number the next one has them all, up to *)
(* a bound that may be given.                                              *)
LEMMA Induction ==
    ASSUME NEW n \in Nat, NEW T, 0 \in T, \A k \in 1 .. n : k - 1 \in T => k \in T
    PROVE  \A k \in 0 .. n : k \in T
<1> DEFINE Bad == {k \in 0 .. n : k \notin T}
<1>1. SUFFICES ASSUME Bad # {} PROVE FALSE
  OBVIOUS
<1>2. PICK k \in Bad : \A j \in Bad : k <= j
  <2>1. Bad \in SUBSET Nat
    OBVIOUS
  <2> HIDE DEF Bad
  <2> QED BY <1>1, <2>1, LeastNumber
<1>3. k # 0 /\ k \in 1 .. n
  OBVIOUS
<1>4. k - 1 \notin Bad
  BY <1>2, <1>3
<1>5. k - 1 \in T
  BY <1>3, <1>4
<1> QED BY <1>3, <1>5

(* A finite set of numbers that is not empty has a greatest element.       *)
LEMMA GreatestNumber ==
    ASSUME NEW n \in Nat, NEW T \in SUBSET (0 .. n), T # {}
    PROVE  /\ Max(T) \in T
           /\ \A k \in T : k <= Max(T)
<1> DEFINE U == {n - k : k \in T}
<1>1. PICK u \in U : \A k \in U : u <= k
  <2>1. U \in SUBSET Nat /\ U # {}
    OBVIOUS
  <2> HIDE DEF U
  <2> QED BY <2>1, LeastNumber
<1>2. n - u \in T
  OBVIOUS
<1>3. \A k \in T : k <= n - u
  <2> SUFFICES ASSUME NEW k \in T PROVE k <= n - u
    OBVIOUS
  <2>1. n - k \in U
    OBVIOUS
  <2>2. u <= n - k
    BY <1>1, <2>1
  <2> QED BY <1>2, <2>2
<1>4. \E x \in T : \A y \in T : x >= y
  BY <1>2, <1>3
<1>5. Max(T) \in T /\ \A y \in T : Max(T) >= y
  <2> HIDE DEF U
  <2> QED BY <1>4 DEF Max
<1> QED BY <1>5

(* A fold that takes the elements of a finite set in the order of c: what  *)
(* it is for a set comes from what it is without the chosen element.       *)
HasFold(S, V, base, c, g) ==
    \E f \in [SUBSET S -> V] : \A s \in SUBSET S :
        f[s] = IF s = {} THEN base ELSE g[c[s]][f[s \ {c[s]}]]

(* A fold exists for any choice of the next element.                       *)
LEMMA FoldExists ==
    ASSUME NEW S, IsFiniteSet(S), NEW V, NEW base \in V,
           NEW c, \A s \in SUBSET S : s # {} => c[s] \in s,
           NEW g, \A x \in S, v \in V : g[x][v] \in V
    PROVE  HasFold(S, V, base, c, g)
<1> DEFINE Small(k) == {s \in SUBSET S : Cardinality(s) <= k}
           Follows(f, s) == f[s] = IF s = {} THEN base ELSE g[c[s]][f[s \ {c[s]}]]
           T == {k \in Nat : \E f \in [Small(k) -> V] : \A s \in Small(k) : Follows(f, s)}
           n == Cardinality(S)
<1>1. n \in Nat /\ \A s \in SUBSET S : IsFiniteSet(s) /\ Cardinality(s) \in Nat /\ Cardinality(s) <= n
  BY FS_CardinalityType, FS_Subset
<1>2. \A s \in SUBSET S : Cardinality(s) = 0 <=> s = {}
  BY <1>1, FS_EmptySet
<1>3. 0 \in T
  <2> DEFINE f == [s \in Small(0) |-> base]
  <2>1. f \in [Small(0) -> V]
    OBVIOUS
  <2>2. ASSUME NEW s \in Small(0) PROVE Follows(f, s)
    BY <1>1, <1>2
  <2> HIDE DEF f
  <2> QED BY <2>1, <2>2
<1>4. ASSUME NEW k \in 1 .. n, k - 1 \in T PROVE k \in T
  <2>1. PICK f \in [Small(k - 1) -> V] : \A s \in Small(k - 1) : Follows(f, s)
    BY <1>4
  <2> DEFINE new == [s \in Small(k) |-> IF s = {} THEN base ELSE g[c[s]][f[s \ {c[s]}]]]
  <2>2. ASSUME NEW s \in Small(k), s # {}
        PROVE  c[s] \in S /\ s \ {c[s]} \in Small(k - 1)
    <3>1. c[s] \in s
      BY <2>2
    <3>2. Cardinality(s \ {c[s]}) = Cardinality(s) - 1
      BY <1>1, <3>1, FS_RemoveElement
    <3> QED BY <1>1, <3>1, <3>2
  <2>3. ASSUME NEW s \in Small(k - 1) PROVE s \in Small(k) /\ new[s] = f[s]
    <3>1. s \in Small(k)
      BY <1>1
    <3> QED BY <2>1, <3>1
  <2>4. new \in [Small(k) -> V]
    <3> SUFFICES ASSUME NEW s \in Small(k)
                 PROVE  (IF s = {} THEN base ELSE g[c[s]][f[s \ {c[s]}]]) \in V
      OBVIOUS
    <3> HIDE DEF Small
    <3> QED BY <2>2
  <2>5. ASSUME NEW s \in Small(k) PROVE Follows(new, s)
    <3>1. CASE s = {}
      BY <3>1
    <3>2. CASE s # {}
      <4>1. new[s \ {c[s]}] = f[s \ {c[s]}]
        BY <2>2, <2>3, <3>2
      <4> HIDE DEF Small
      <4> QED BY <3>2, <4>1
    <3> QED BY <3>1, <3>2
  <2>6. \E h \in [Small(k) -> V] : \A s \in Small(k) : Follows(h, s)
    <3> HIDE DEF new, Small, Follows
    <3> QED BY <2>4, <2>5
  <2> HIDE DEF Small, Follows, new
  <2> QED BY <2>6
<1>5. n \in T
  <2> HIDE DEF T
  <2> QED BY <1>1, <1>3, <1>4, Induction
<1>6. Small(n) = SUBSET S
  BY <1>1
<1> HIDE DEF Small
<1> QED BY <1>5, <1>6 DEF HasFold

(* The folds of a sequence take the last element first, of what is left.   *)
LEMMA Segments ==
    ASSUME NEW n \in Nat
    PROVE  /\ IsFiniteSet(1 .. n)
           /\ \A s \in SUBSET (1 .. n) : s # {} => Max(s) \in s
           /\ 1 .. 0 = {}
           /\ \A k \in 1 .. n : /\ 1 .. k \in SUBSET (1 .. n) /\ 1 .. k # {}
                               /\ Max(1 .. k) = k /\ (1 .. k) \ {k} = 1 .. k - 1
<1>1. ASSUME NEW s \in SUBSET (1 .. n), s # {}
      PROVE  Max(s) \in s /\ \A k \in s : k <= Max(s)
  <2>1. s \in SUBSET (0 .. n)
    OBVIOUS
  <2> QED BY <1>1, <2>1, GreatestNumber
<1>2. ASSUME NEW k \in 1 .. n
      PROVE  /\ 1 .. k \in SUBSET (1 .. n) /\ 1 .. k # {}
             /\ Max(1 .. k) = k /\ (1 .. k) \ {k} = 1 .. k - 1
  <2>1. 1 .. k \in SUBSET (1 .. n) /\ k \in 1 .. k
    OBVIOUS
  <2>2. Max(1 .. k) \in 1 .. k /\ k <= Max(1 .. k)
    BY <1>1, <2>1
  <2> QED BY <2>1, <2>2
<1>3. IsFiniteSet(1 .. n)
  BY FS_Interval
<1>4. 1 .. 0 = {}
  OBVIOUS
<1> QED BY <1>1, <1>2, <1>3, <1>4
-----------------------------------------------------------------------------
(* The ranges of chunk data, what they cover, and the chunk data for a set *)
(* of chunks: in order, with a gap after each.                             *)
ChunkRange == [start : Nat, length : Nat \ {0}]
Span(r) == r.start .. End(r) - 1
Cover(q) == UNION {Span(q[i]) : i \in DOMAIN q}
Apart(q, i) == End(q[i]) < q[i + 1].start

ChunkData(N) == [count : {N}, present : Int, ranges : Seq(ChunkRange)]

Describes(d, N, S) ==
    /\ d \in ChunkData(N)
    /\ \A i \in 1 .. Len(d.ranges) - 1 : Apart(d.ranges, i)
    /\ Cover(d.ranges) = S
    /\ S \subseteq 0 .. N - 1
    /\ d.present = Cardinality(S)

(* A range ends after its start.                                           *)
LEMMA RangeType ==
    ASSUME NEW r \in ChunkRange
    PROVE  /\ r.start \in Nat /\ r.length \in Nat \ {0} /\ End(r) \in Nat
           /\ r.start < End(r) /\ End(r) = r.start + r.length
  BY DEF ChunkRange, End

(* Ranges that are apart are in order.                                     *)
LEMMA InOrder ==
    ASSUME NEW q \in Seq(ChunkRange), NEW a \in DOMAIN q, NEW b \in DOMAIN q,
           \A i \in a .. b - 1 : Apart(q, i)
    PROVE  \A i, j \in a .. b : i < j => End(q[i]) < q[j].start
<1>1. SUFFICES ASSUME NEW i \in a .. b
               PROVE  \A j \in i + 1 .. b : End(q[i]) < q[j].start
  OBVIOUS
<1> DEFINE T == {k \in Nat : i + k + 1 \in a .. b => End(q[i]) < q[i + k + 1].start}
<1>2. 0 \in T
  BY DEF Apart
<1>3. ASSUME NEW k \in 1 .. Len(q), k - 1 \in T PROVE k \in T
  <2>1. SUFFICES ASSUME i + k + 1 \in a .. b PROVE End(q[i]) < q[i + k + 1].start
    OBVIOUS
  <2>2. End(q[i]) < q[i + k].start
    BY <1>3, <2>1
  <2>3. End(q[i + k]) < q[i + k + 1].start
    BY <2>1 DEF Apart
  <2>4. {q[i], q[i + k], q[i + k + 1]} \subseteq ChunkRange
    BY <2>1
  <2>5. q[i + k].start < End(q[i + k])
    BY <2>4, RangeType
  <2> DEFINE e1 == End(q[i])  s2 == q[i + k].start  e2 == End(q[i + k])  s3 == q[i + k + 1].start
  <2>6. {e1, s2, e2, s3} \subseteq Nat
    BY <2>4, RangeType
  <2>7. e1 < s2 /\ s2 < e2 /\ e2 < s3
    BY <2>2, <2>3, <2>5
  <2> HIDE DEF e1, s2, e2, s3
  <2>8. e1 < s3
    BY <2>6, <2>7
  <2> QED BY <2>8 DEF e1, s3
<1>4. \A k \in 0 .. Len(q) : k \in T
  <2>1. Len(q) \in Nat
    OBVIOUS
  <2> HIDE DEF T
  <2> QED BY <1>2, <1>3, <2>1, Induction
<1>5. ASSUME NEW j \in i + 1 .. b PROVE End(q[i]) < q[j].start
  <2>1. j - i - 1 \in 0 .. Len(q) /\ i + (j - i - 1) + 1 = j
    OBVIOUS
  <2>2. j - i - 1 \in T
    BY <1>4, <2>1
  <2> QED BY <2>1, <2>2
<1> QED BY <1>5

(* So are all ranges of a sequence in which each is apart from the next.   *)
LEMMA AllInOrder ==
    ASSUME NEW q \in Seq(ChunkRange), \A i \in 1 .. Len(q) - 1 : Apart(q, i)
    PROVE  \A i, j \in DOMAIN q : i < j => End(q[i]) < q[j].start
<1>1. CASE Len(q) = 0
  BY <1>1
<1>2. CASE Len(q) # 0
  <2>1. 1 \in DOMAIN q /\ Len(q) \in DOMAIN q /\ DOMAIN q = 1 .. Len(q)
    BY <1>2
  <2>2. \A i, j \in 1 .. Len(q) : i < j => End(q[i]) < q[j].start
    BY <2>1, InOrder
  <2> QED BY <2>1, <2>2
<1> QED BY <1>1, <1>2

(* Ranges that cover the same are the same: the first one that differs     *)
(* would start or end at a chunk that only one of them covers.             *)
LEMMA SameStart ==
    ASSUME NEW q \in Seq(ChunkRange), \A i \in 1 .. Len(q) - 1 : Apart(q, i),
           NEW r \in Seq(ChunkRange), \A i \in 1 .. Len(r) - 1 : Apart(r, i),
           Cover(q) = Cover(r),
           NEW i \in DOMAIN q, \A j \in 1 .. i - 1 : j \in DOMAIN r /\ q[j] = r[j]
    PROVE  i \in DOMAIN r /\ r[i].start <= q[i].start
<1>1. q[i] \in ChunkRange /\ \A j \in DOMAIN r : r[j] \in ChunkRange
  OBVIOUS
<1>2. q[i].start \in Span(q[i])
  BY <1>1, RangeType DEF Span
<1>3. PICK j \in DOMAIN r : q[i].start \in Span(r[j])
  BY <1>2 DEF Cover
<1>4. q[i].start \in Nat /\ r[j].start <= q[i].start /\ q[i].start < End(r[j])
  BY <1>1, <1>3, RangeType DEF Span
<1>5. ~(j < i)
  <2> SUFFICES ASSUME j < i PROVE FALSE
    OBVIOUS
  <2>1. q[j] = r[j]
    OBVIOUS
  <2>2. End(q[j]) < q[i].start
    <3>1. j \in DOMAIN q
      OBVIOUS
    <3> QED BY <3>1, AllInOrder
  <2>3. End(r[j]) \in Nat
    BY <1>1, RangeType
  <2> QED BY <1>4, <2>1, <2>2, <2>3
<1>6. i \in DOMAIN r
  BY <1>5
<1>7. CASE i = j
  BY <1>4, <1>6, <1>7
<1>8. CASE i < j
  <2>1. End(r[i]) < r[j].start
    BY <1>6, <1>8, AllInOrder
  <2>2. r[i].start < End(r[i]) /\ {r[i].start, End(r[i]), r[j].start} \subseteq Nat
    BY <1>1, <1>6, RangeType
  <2> QED BY <1>4, <1>6, <2>1, <2>2
<1> QED BY <1>5, <1>7, <1>8

(* If two ranges start with the same chunk they end with the same.         *)
LEMMA SameEnd ==
    ASSUME NEW q \in Seq(ChunkRange),
           NEW r \in Seq(ChunkRange), \A i \in 1 .. Len(r) - 1 : Apart(r, i),
           Cover(q) = Cover(r),
           NEW i \in DOMAIN q \cap DOMAIN r, q[i].start = r[i].start
    PROVE  End(q[i]) <= End(r[i])
<1>1. q[i] \in ChunkRange /\ \A j \in DOMAIN r : r[j] \in ChunkRange
  OBVIOUS
<1>2. SUFFICES ASSUME ~(End(q[i]) <= End(r[i])) PROVE FALSE
  OBVIOUS
<1> DEFINE x == End(r[i])
<1>3. x \in Span(q[i])
  BY <1>1, <1>2, RangeType DEF Span
<1>4. PICK j \in DOMAIN r : x \in Span(r[j])
  BY <1>3 DEF Cover
<1>5. x \in Nat /\ r[j].start <= x /\ x < End(r[j]) /\ r[i].start < x
  BY <1>1, <1>4, RangeType DEF Span
<1>6. \A a, b \in DOMAIN r : a < b => End(r[a]) < r[b].start
  BY AllInOrder
<1>7. {r[i].start, r[j].start, End(r[i]), End(r[j])} \subseteq Nat
  BY <1>1, RangeType
<1>8. CASE j < i
  <2>1. End(r[j]) < r[i].start
    BY <1>6, <1>8
  <2> QED BY <1>5, <1>7, <2>1
<1>9. CASE i < j
  BY <1>5, <1>6, <1>7, <1>9
<1> QED BY <1>5, <1>8, <1>9

(* Two such sequences of the same chunks are the same, range by range.     *)
LEMMA SameRanges ==
    ASSUME NEW q \in Seq(ChunkRange), \A i \in 1 .. Len(q) - 1 : Apart(q, i),
           NEW r \in Seq(ChunkRange), \A i \in 1 .. Len(r) - 1 : Apart(r, i),
           Cover(q) = Cover(r)
    PROVE  q = r
<1> DEFINE Same(j) == (j \in DOMAIN q <=> j \in DOMAIN r) /\ (j \in DOMAIN q => q[j] = r[j])
           T == {k \in Nat : \A j \in 1 .. k : Same(j)}
           n == Len(q) + Len(r)
<1>1. 0 \in T
  OBVIOUS
<1>2. ASSUME NEW k \in 1 .. n, k - 1 \in T PROVE k \in T
  <2>1. \A j \in 1 .. k - 1 : Same(j)
    BY <1>2
  <2>2. k \in DOMAIN q => \A j \in 1 .. k - 1 : j \in DOMAIN r /\ q[j] = r[j]
    BY <2>1
  <2>3. k \in DOMAIN r => \A j \in 1 .. k - 1 : j \in DOMAIN q /\ r[j] = q[j]
    BY <2>1
  <2>4. k \in DOMAIN q => k \in DOMAIN r /\ r[k].start <= q[k].start
    BY <2>2, SameStart
  <2>5. k \in DOMAIN r => k \in DOMAIN q /\ q[k].start <= r[k].start
    BY <2>3, SameStart
  <2>6. ASSUME k \in DOMAIN q PROVE q[k] = r[k]
    <3>1. q[k] \in ChunkRange /\ r[k] \in ChunkRange /\ k \in DOMAIN r
      BY <2>4, <2>6
    <3>2. q[k].start = r[k].start
      BY <2>4, <2>5, <2>6, <3>1, RangeType
    <3>3. End(q[k]) <= End(r[k]) /\ End(r[k]) <= End(q[k])
      BY <2>6, <3>1, <3>2, SameEnd
    <3>4. q[k].length = r[k].length
      <4>1. q[k].start \in Nat /\ q[k].length \in Nat /\ r[k].length \in Nat
        BY <3>1, RangeType
      <4>2. q[k].start + q[k].length = r[k].start + r[k].length
        BY <3>2, <3>3, <4>1 DEF End
      <4> QED BY <3>2, <4>1, <4>2
    <3>5. q[k] = [start |-> q[k].start, length |-> q[k].length]
      BY <3>1 DEF ChunkRange
    <3>6. r[k] = [start |-> r[k].start, length |-> r[k].length]
      BY <3>1 DEF ChunkRange
    <3> QED BY <3>2, <3>4, <3>5, <3>6
  <2>7. Same(k)
    BY <2>4, <2>5, <2>6
  <2>8. \A j \in 1 .. k : j \in 1 .. k - 1 \/ j = k
    OBVIOUS
  <2> QED BY <2>1, <2>7, <2>8
<1>3. n \in Nat /\ n \in 0 .. n
  OBVIOUS
<1>4. n \in T
  <2> HIDE DEF T, n
  <2> QED BY <1>1, <1>2, <1>3, Induction
<1>5. \A j \in 1 .. n : Same(j)
  BY <1>4
<1>6. DOMAIN q = DOMAIN r
  BY <1>5
<1>7. \A j \in DOMAIN q : q[j] = r[j]
  BY <1>5
<1> QED BY <1>6, <1>7

(* So there is one way to describe a set of chunks.                        *)
LEMMA SameData ==
    ASSUME NEW N, NEW S, NEW d, Describes(d, N, S), NEW e, Describes(e, N, S)
    PROVE  d = e
<1>1. d.ranges = e.ranges
  BY SameRanges DEF Describes, ChunkData
<1> QED BY <1>1 DEF Describes, ChunkData

-----------------------------------------------------------------------------
(* A sequence without, or with one more, element.                          *)
LEMMA RemoveAtElements ==
    ASSUME NEW S, NEW s \in Seq(S), NEW i \in DOMAIN s
    PROVE  /\ RemoveAt(s, i) \in Seq(S)
           /\ Len(RemoveAt(s, i)) = Len(s) - 1
           /\ \A j \in 1 .. Len(s) - 1 : RemoveAt(s, i)[j] = IF j < i THEN s[j] ELSE s[j + 1]
<1> DEFINE a == SubSeq(s, 1, i - 1)  b == SubSeq(s, i + 1, Len(s))
<1>1. a \in Seq(S) /\ Len(a) = i - 1 /\ \A j \in 1 .. i - 1 : a[j] = s[j]
  OBVIOUS
<1>2. b \in Seq(S) /\ Len(b) = Len(s) - i /\ \A j \in 1 .. Len(s) - i : b[j] = s[j + i]
  OBVIOUS
<1>3. RemoveAt(s, i) = a \o b
  BY DEF RemoveAt
<1>4. i \in Nat /\ 1 <= i /\ i <= Len(s) /\ Len(s) \in Nat
  OBVIOUS
<1> HIDE DEF a, b
<1>5. a \o b \in Seq(S) /\ Len(a \o b) = Len(s) - 1
  BY <1>1, <1>2, <1>4
<1>6. ASSUME NEW j \in 1 .. Len(s) - 1
      PROVE  (a \o b)[j] = IF j < i THEN s[j] ELSE s[j + 1]
  <2>1. (a \o b)[j] = IF j <= Len(a) THEN a[j] ELSE b[j - Len(a)]
    <3>1. a \in Seq(S) /\ b \in Seq(S) /\ j \in 1 .. Len(a) + Len(b)
      BY <1>1, <1>2, <1>4
    <3> QED BY <3>1
  <2>2. CASE j < i
    BY <1>1, <1>4, <2>1, <2>2
  <2>3. CASE ~(j < i)
    <3>1. j - (i - 1) \in 1 .. Len(s) - i /\ (j - (i - 1)) + i = j + 1
      BY <1>4, <2>3
    <3>2. (a \o b)[j] = b[j - (i - 1)]
      BY <1>1, <1>4, <2>1, <2>3
    <3>3. b[j - (i - 1)] = s[j + 1]
      BY <1>2, <3>1
    <3> QED BY <2>3, <3>2, <3>3
  <2> QED BY <2>2, <2>3
<1> QED BY <1>3, <1>5, <1>6

(* With one more element, those behind it move up.                         *)
LEMMA InsertAtElements ==
    ASSUME NEW S, NEW s \in Seq(S), NEW i \in 1 .. Len(s) + 1, NEW e \in S
    PROVE  /\ InsertAt(s, i, e) \in Seq(S)
           /\ Len(InsertAt(s, i, e)) = Len(s) + 1
           /\ \A j \in 1 .. Len(s) + 1 :
                InsertAt(s, i, e)[j] = IF j < i THEN s[j] ELSE IF j = i THEN e ELSE s[j - 1]
<1> DEFINE a == SubSeq(s, 1, i - 1)  b == SubSeq(s, i, Len(s))
<1>1. a \in Seq(S) /\ Len(a) = i - 1 /\ \A j \in 1 .. i - 1 : a[j] = s[j]
  OBVIOUS
<1>2. b \in Seq(S) /\ Len(b) = Len(s) - i + 1 /\ \A j \in 1 .. Len(s) - i + 1 : b[j] = s[j + i - 1]
  OBVIOUS
<1>3. InsertAt(s, i, e) = (a \o <<e>>) \o b
  BY DEF InsertAt
<1>4. i \in Nat /\ 1 <= i /\ i <= Len(s) + 1 /\ Len(s) \in Nat
  OBVIOUS
<1> HIDE DEF a, b
<1> DEFINE c == a \o <<e>>
<1>5. c \in Seq(S) /\ Len(c) = i /\ \A j \in 1 .. i : c[j] = IF j < i THEN s[j] ELSE e
  BY <1>1, <1>4
<1> HIDE DEF c
<1>6. c \o b \in Seq(S) /\ Len(c \o b) = Len(s) + 1
  BY <1>2, <1>4, <1>5
<1>7. ASSUME NEW j \in 1 .. Len(s) + 1
      PROVE  (c \o b)[j] = IF j < i THEN s[j] ELSE IF j = i THEN e ELSE s[j - 1]
  <2>1. (c \o b)[j] = IF j <= Len(c) THEN c[j] ELSE b[j - Len(c)]
    BY <1>2, <1>4, <1>5
  <2>2. CASE j <= i
    BY <1>4, <1>5, <2>1, <2>2
  <2>3. CASE ~(j <= i)
    <3>1. j - i \in 1 .. Len(s) - i + 1 /\ (j - i) + i - 1 = j - 1
      BY <1>4, <2>3
    <3> QED BY <1>2, <1>4, <1>5, <2>1, <2>3, <3>1
  <2> QED BY <2>2, <2>3
<1> QED BY <1>3, <1>6, <1>7 DEF c
-----------------------------------------------------------------------------
(* Merging.  In what AddChunkRange makes of chunk data only range p may    *)
(* reach into the next ones, and only what it has in common with them is   *)
(* counted twice.                                                          *)
Beside(q, p) == UNION {Span(q[i]) : i \in DOMAIN q \ {p}}

Touches(q, p) == p < Len(q) /\ ~Apart(q, p)

Merging(d, N, p, S) ==
    /\ d \in ChunkData(N)
    /\ p \in DOMAIN d.ranges
    /\ \A i \in 1 .. Len(d.ranges) - 1 : i # p => Apart(d.ranges, i)
    /\ p < Len(d.ranges) => d.ranges[p].start <= d.ranges[p + 1].start
    /\ Cover(d.ranges) = S
    /\ S \subseteq 0 .. N - 1
    /\ d.present = Cardinality(Beside(d.ranges, p)) + d.ranges[p].length

(* What two ranges have in common, and both together.                      *)
Overlap(r, s) == Min({End(r) - s.start, s.length})
Both(r, s) == [start |-> r.start, length |-> r.length + s.length - Overlap(r, s)]

(* Two ranges that reach each other are the chunks of both.                *)
LEMMA BothRanges ==
    ASSUME NEW r \in ChunkRange, NEW s \in ChunkRange, s.start <= End(r)
    PROVE  /\ Overlap(r, s) \in Nat /\ Overlap(r, s) <= s.length
           /\ Both(r, s) \in ChunkRange
           /\ End(r) <= End(Both(r, s)) /\ End(s) <= End(Both(r, s))
           /\ End(Both(r, s)) \in {End(r), End(s)}
           /\ r.start <= s.start => Span(Both(r, s)) = Span(r) \cup Span(s)
<1> DEFINE x == End(r) - s.start  o == Overlap(r, s)
<1>1. /\ r.start \in Nat /\ r.length \in Nat \ {0} /\ End(r) = r.start + r.length
      /\ s.start \in Nat /\ s.length \in Nat \ {0} /\ End(s) = s.start + s.length
      /\ x \in Nat
  BY RangeType
<1>2. o = IF x <= s.length THEN x ELSE s.length
  <2>1. \E m \in {x, s.length} : \A y \in {x, s.length} : m <= y
    BY <1>1
  <2>2. Min({x, s.length}) \in {x, s.length} /\ \A y \in {x, s.length} : Min({x, s.length}) <= y
    BY <2>1 DEF Min
  <2> QED BY <1>1, <2>2 DEF Overlap
<1>3. o \in Nat /\ o <= s.length /\ o <= x
  BY <1>1, <1>2
<1> DEFINE b == Both(r, s)
<1>4. b.start = r.start /\ b.length = r.length + s.length - o
  BY DEF Both
<1>5. b \in ChunkRange
  BY <1>1, <1>3 DEF Both, ChunkRange
<1>6. End(b) = r.start + (r.length + s.length - o)
  BY <1>4 DEF End
<1> HIDE DEF o, b
<1>7. End(b) = IF x <= s.length THEN End(s) ELSE End(r)
  BY <1>1, <1>2, <1>3, <1>6
<1>8. End(r) <= End(b) /\ End(s) <= End(b) /\ End(b) \in {End(r), End(s)}
  BY <1>1, <1>7
<1>9. ASSUME r.start <= s.start PROVE Span(b) = Span(r) \cup Span(s)
  BY <1>1, <1>4, <1>8, <1>9 DEF Span
<1> QED BY <1>3, <1>5, <1>8, <1>9 DEF o, b

(* In e, range p of d has taken in the next one.                           *)
TakenIn(N, d, p, e) ==
    LET q == d.ranges IN
    /\ e \in ChunkData(N)
    /\ Len(e.ranges) = Len(q) - 1
    /\ e.present = d.present - Overlap(q[p], q[p + 1])
    /\ \A i \in 1 .. Len(q) - 1 :
         e.ranges[i] = IF i < p THEN q[i] ELSE IF i = p THEN Both(q[p], q[p + 1]) ELSE q[i + 1]

(* MergeRanges takes in the next range if range p reaches up to it.        *)
LEMMA MergeRangesResult ==
    ASSUME NEW N, NEW d \in ChunkData(N), NEW p \in Nat \ {0}, Touches(d.ranges, p)
    PROVE  TakenIn(N, d, p, MergeRanges(d, p))
<1> DEFINE q == d.ranges  o == Overlap(q[p], q[p + 1])
           wide == [q EXCEPT ![p].length = @ + q[p + 1].length - o]
<1>1. q \in Seq(ChunkRange) /\ d.present \in Int /\ p \in DOMAIN q /\ p + 1 \in DOMAIN q
  BY DEF ChunkData, Touches
<1>2. q[p] \in ChunkRange /\ q[p + 1] \in ChunkRange /\ q[p + 1].start <= End(q[p])
  <2>1. q[p] \in ChunkRange /\ q[p + 1] \in ChunkRange
    BY <1>1
  <2> QED BY <2>1, RangeType DEF Touches, Apart
<1>3. o \in Nat /\ Both(q[p], q[p + 1]) \in ChunkRange
  BY <1>2, BothRanges
<1>4. wide = [q EXCEPT ![p] = Both(q[p], q[p + 1])]
  <2>1. [q[p] EXCEPT !.length = @ + q[p + 1].length - o] = Both(q[p], q[p + 1])
    BY <1>2 DEF ChunkRange, Both
  <2> QED BY <2>1
<1>5. wide \in Seq(ChunkRange) /\ Len(wide) = Len(q) /\ p + 1 \in DOMAIN wide
  <2> HIDE DEF q, wide
  <2> QED BY <1>1, <1>3, <1>4
<1>6. \A i \in 1 .. Len(q) : wide[i] = IF i = p THEN Both(q[p], q[p + 1]) ELSE q[i]
  <2> HIDE DEF q, wide
  <2> QED BY <1>1, <1>4
<1> DEFINE r == RemoveAt(wide, p + 1)
<1>7. /\ r \in Seq(ChunkRange) /\ Len(r) = Len(q) - 1
      /\ \A i \in 1 .. Len(q) - 1 : r[i] = IF i < p + 1 THEN wide[i] ELSE wide[i + 1]
  <2> HIDE DEF q, wide
  <2> QED BY <1>5, RemoveAtElements
<1>8. MergeRanges(d, p) = [d EXCEPT !.present = @ - o, !.ranges = r]
  <2>1. ~(p >= Len(q) \/ End(q[p]) < q[p + 1].start)
    BY <1>1, <1>2 DEF Touches, Apart
  <2> QED BY <2>1 DEF MergeRanges, Overlap
<1>9. ASSUME NEW i \in 1 .. Len(q) - 1
      PROVE  r[i] = IF i < p THEN q[i] ELSE IF i = p THEN Both(q[p], q[p + 1]) ELSE q[i + 1]
  <2> HIDE DEF q, wide, r
  <2> QED BY <1>1, <1>6, <1>7, <1>9
<1>10. d.present - o \in Int
  BY <1>1, <1>3
<1>11. [d EXCEPT !.present = @ - o, !.ranges = r] \in ChunkData(N)
  <2> HIDE DEF o, r
  <2> QED BY <1>7, <1>10 DEF ChunkData
<1>12. MergeRanges(d, p).present = d.present - o /\ MergeRanges(d, p).ranges = r
  <2> HIDE DEF o, r
  <2> QED BY <1>8 DEF ChunkData
<1> HIDE DEF o, r, wide
<1> QED BY <1>7, <1>8, <1>9, <1>11, <1>12 DEF o, TakenIn

(* MergeRanges changes nothing if range p does not reach the next one.     *)
LEMMA MergeRangesNothing ==
    ASSUME NEW N, NEW d \in ChunkData(N), NEW p \in Nat \ {0}, ~Touches(d.ranges, p)
    PROVE  MergeRanges(d, p) = d
<1>1. d.ranges \in Seq(ChunkRange)
  BY DEF ChunkData
<1>2. p >= Len(d.ranges) \/ End(d.ranges[p]) < d.ranges[p + 1].start
  BY <1>1 DEF Touches, Apart
<1> QED BY <1>2 DEF MergeRanges

(* In both cases it returns chunk data.                                    *)
LEMMA MergeRangesType ==
    ASSUME NEW N, NEW d \in ChunkData(N), NEW p \in Nat \ {0}
    PROVE  MergeRanges(d, p) \in ChunkData(N)
  BY MergeRangesResult, MergeRangesNothing DEF TakenIn

(* What is repeated until range p does not reach up to the next one.       *)
LEMMA MergeAllSteps ==
    ASSUME NEW N, NEW d \in ChunkData(N), NEW p \in Nat \ {0}
    PROVE  \E h : /\ h[0] = d
                  /\ \A k \in 1 .. Len(d.ranges) : h[k] = MergeRanges(h[k - 1], p)
                  /\ MergeAll(d, p) = h[Len(d.ranges)]
<1> DEFINE n == Len(d.ranges)
           D == 1 .. n
           c == [s \in SUBSET D |-> Max(s)]
           g == [x \in D |-> [v \in ChunkData(N) |-> MergeRanges(v, p)]]
           Is(f) == f = [s \in SUBSET D |-> IF s = {} THEN d ELSE MergeRanges(f[s \ {Max(s)}], p)]
           iter == CHOOSE f : Is(f)
           h == [k \in 0 .. n |-> iter[1 .. k]]
<1>1. n \in Nat /\ DOMAIN d.ranges = D
  BY DEF ChunkData
<1>2. IsFiniteSet(D) /\ \A s \in SUBSET D : s # {} => c[s] \in s
  BY <1>1, Segments
<1>3. \A x \in D, v \in ChunkData(N) : g[x][v] \in ChunkData(N)
  BY MergeRangesType
<1>4. PICK f \in [SUBSET D -> ChunkData(N)] : \A s \in SUBSET D :
         f[s] = IF s = {} THEN d ELSE g[c[s]][f[s \ {c[s]}]]
  <2>1. d \in ChunkData(N)
    OBVIOUS
  <2>2. HasFold(D, ChunkData(N), d, c, g)
    <3> HIDE DEF D, c, g
    <3> QED BY <1>2, <1>3, <2>1, FoldExists
  <2> HIDE DEF D, c, g
  <2> QED BY <2>2 DEF HasFold
<1>5. Is(f)
  <2>1. ASSUME NEW s \in SUBSET D, s # {} PROVE f[s] = MergeRanges(f[s \ {Max(s)}], p)
    <3>1. c[s] = Max(s) /\ c[s] \in D /\ f[s \ {Max(s)}] \in ChunkData(N)
      BY <1>2, <2>1
    <3> QED BY <1>4, <2>1, <3>1
  <2> HIDE DEF D, c, g
  <2> QED BY <1>4, <2>1
<1>6. Is(iter)
  <2> HIDE DEF Is
  <2> QED BY <1>5
<1>7. MergeAll(d, p) = iter[D]
  BY <1>1 DEF MergeAll, FoldLeft, MapThenFoldSet
<1> HIDE DEF iter
<1>8. h[0] = d
  BY <1>1, <1>6, Segments
<1>9. ASSUME NEW k \in 1 .. n PROVE h[k] = MergeRanges(h[k - 1], p)
  <2>1. 1 .. k \in SUBSET D /\ 1 .. k # {} /\ (1 .. k) \ {Max(1 .. k)} = 1 .. k - 1
    BY <1>1, Segments
  <2>2. iter[1 .. k] = MergeRanges(iter[1 .. k - 1], p)
    BY <1>6, <2>1
  <2> QED BY <1>1, <2>2
<1>10. h[n] = iter[D]
  BY <1>1
<1> HIDE DEF h
<1> QED BY <1>7, <1>8, <1>9, <1>10

(* A range has as many chunks as it is long.                               *)
LEMMA SpanCardinality ==
    ASSUME NEW r \in ChunkRange
    PROVE  IsFiniteSet(Span(r)) /\ Cardinality(Span(r)) = r.length
<1> DEFINE a == r.start  z == End(r) - 1
<1>1. a \in Int /\ z \in Int /\ a <= z /\ z - a + 1 = r.length
  BY RangeType
<1>2. IsFiniteSet(a .. z) /\ Cardinality(a .. z) = z - a + 1
  <2> HIDE DEF a, z
  <2> QED BY <1>1, FS_Interval
<1> QED BY <1>1, <1>2 DEF Span

(* What is known of ranges while range p takes in others.                  *)
LEMMA MergingRanges ==
    ASSUME NEW N \in Nat, NEW S, NEW p, NEW d, Merging(d, N, p, S)
    PROVE  LET q == d.ranges IN
           /\ d \in ChunkData(N) /\ q \in Seq(ChunkRange) /\ p \in DOMAIN q /\ p \in Nat \ {0}
           /\ d.present \in Int
           /\ \A i \in DOMAIN q : q[i] \in ChunkRange
           /\ IsFiniteSet(Cover(q)) /\ IsFiniteSet(Beside(q, p)) /\ Beside(q, p) \subseteq Cover(q)
           /\ \A i, j \in 1 .. p : i < j => End(q[i]) < q[j].start
           /\ \A i, j \in p + 1 .. Len(q) : i < j => End(q[i]) < q[j].start
<1> DEFINE q == d.ranges
<1>1. d \in ChunkData(N) /\ q \in Seq(ChunkRange) /\ p \in DOMAIN q /\ d.present \in Int
  BY DEF Merging, ChunkData
<1>2. \A i \in 1 .. Len(q) - 1 : i # p => Apart(q, i)
  BY DEF Merging
<1>3. Cover(q) \subseteq 0 .. N - 1
  BY DEF Merging
<1> HIDE DEF q
<1>4. \A i \in DOMAIN q : q[i] \in ChunkRange
  BY <1>1
<1>5. IsFiniteSet(Cover(q))
  <2>1. IsFiniteSet(0 .. N - 1)
    BY FS_Interval
  <2> QED BY <1>3, <2>1, FS_Subset
<1>6. Beside(q, p) \subseteq Cover(q)
  BY DEF Beside, Cover
<1>7. IsFiniteSet(Beside(q, p))
  BY <1>5, <1>6, FS_Subset
<1>8. \A i, j \in 1 .. p : i < j => End(q[i]) < q[j].start
  <2>1. 1 \in DOMAIN q /\ \A i \in 1 .. p - 1 : Apart(q, i)
    BY <1>1, <1>2
  <2> QED BY <1>1, <2>1, InOrder
<1>9. \A i, j \in p + 1 .. Len(q) : i < j => End(q[i]) < q[j].start
  <2>1. CASE p < Len(q)
    <3>1. p + 1 \in DOMAIN q /\ Len(q) \in DOMAIN q /\ \A i \in p + 1 .. Len(q) - 1 : Apart(q, i)
      BY <1>1, <1>2, <2>1
    <3> QED BY <1>1, <3>1, InOrder
  <2>2. CASE ~(p < Len(q))
    BY <1>1, <2>2
  <2> QED BY <2>1, <2>2
<1>10. p \in Nat \ {0}
  BY <1>1
<1> QED BY <1>1, <1>4, <1>5, <1>6, <1>7, <1>8, <1>9, <1>10 DEF q

(* MergeRanges keeps what is known: the same chunks, fewer ranges.         *)
LEMMA MergeStep ==
    ASSUME NEW N \in Nat, NEW S, NEW p, NEW d, Merging(d, N, p, S), Touches(d.ranges, p)
    PROVE  Merging(MergeRanges(d, p), N, p, S)
<1> DEFINE q == d.ranges  e == MergeRanges(d, p)  r == e.ranges  b == Both(q[p], q[p + 1])
           o == Overlap(q[p], q[p + 1])
<1>1. /\ d \in ChunkData(N) /\ q \in Seq(ChunkRange) /\ p \in DOMAIN q /\ p \in Nat \ {0}
      /\ d.present \in Int
      /\ \A i \in DOMAIN q : q[i] \in ChunkRange
      /\ IsFiniteSet(Cover(q)) /\ IsFiniteSet(Beside(q, p)) /\ Beside(q, p) \subseteq Cover(q)
      /\ \A i, j \in 1 .. p : i < j => End(q[i]) < q[j].start
      /\ \A i, j \in p + 1 .. Len(q) : i < j => End(q[i]) < q[j].start
  BY MergingRanges
<1>2. p + 1 \in DOMAIN q /\ q[p].start <= q[p + 1].start /\ q[p + 1].start <= End(q[p])
  <2>1. p + 1 \in DOMAIN q /\ ~Apart(q, p) /\ q[p].start <= q[p + 1].start
    BY <1>1 DEF Touches, Merging
  <2>2. q[p] \in ChunkRange /\ q[p + 1] \in ChunkRange
    BY <1>1, <2>1
  <2> QED BY <2>1, <2>2, RangeType DEF Apart
<1>3. /\ e \in ChunkData(N) /\ Len(r) = Len(q) - 1 /\ e.present = d.present - o
      /\ \A i \in 1 .. Len(q) - 1 : r[i] = IF i < p THEN q[i] ELSE IF i = p THEN b ELSE q[i + 1]
  <2>1. d \in ChunkData(N) /\ p \in Nat \ {0} /\ Touches(d.ranges, p)
    BY <1>1
  <2>2. TakenIn(N, d, p, MergeRanges(d, p))
    BY <2>1, MergeRangesResult
  <2> QED BY <2>2 DEF TakenIn
<1>4. r \in Seq(ChunkRange) /\ e.present \in Int
  BY <1>3 DEF ChunkData
<1>5. /\ o \in Nat /\ b \in ChunkRange /\ b.start = q[p].start
      /\ b.length = q[p].length + q[p + 1].length - o
      /\ Span(b) = Span(q[p]) \cup Span(q[p + 1])
      /\ End(b) \in {End(q[p]), End(q[p + 1])}
  <2>1. q[p] \in ChunkRange /\ q[p + 1] \in ChunkRange
    BY <1>1, <1>2
  <2>2. b.start = q[p].start /\ b.length = q[p].length + q[p + 1].length - o
    BY DEF Both
  <2> HIDE DEF q, o
  <2> QED BY <1>2, <2>1, <2>2, BothRanges DEF o
<1>6. \A i \in 1 .. Len(q) - 1 : i # p => Apart(q, i)
  BY DEF Merging
<1>7. Cover(q) = S /\ S \subseteq 0 .. N - 1 /\ d.present = Cardinality(Beside(q, p)) + q[p].length
  BY DEF Merging
<1> HIDE DEF q, e, r, b, o
<1>8. p \in DOMAIN r
  BY <1>1, <1>2, <1>3, <1>4
<1>9. ASSUME NEW i \in 1 .. Len(r) - 1, i # p PROVE Apart(r, i)
  <2>1. CASE i + 1 < p
    <3>1. r[i] = q[i] /\ r[i + 1] = q[i + 1] /\ Apart(q, i)
      BY <1>1, <1>2, <1>3, <1>6, <2>1
    <3> QED BY <3>1 DEF Apart
  <2>2. CASE i + 1 = p
    <3>1. r[i] = q[i] /\ r[i + 1] = b /\ Apart(q, i)
      <4>1. /\ i \in 1 .. Len(q) - 1 /\ i < p /\ i # p
            /\ i + 1 \in 1 .. Len(q) - 1 /\ ~(i + 1 < p) /\ i + 1 = p
        BY <1>1, <1>2, <1>3, <2>2
      <4>2. r[i] = q[i] /\ Apart(q, i)
        BY <1>3, <1>6, <4>1
      <4>3. r[i + 1] = b
        BY <1>3, <4>1
      <4> QED BY <4>2, <4>3
    <3> QED BY <1>5, <2>2, <3>1 DEF Apart
  <2>3. CASE i > p
    <3> DEFINE j == i + 1
    <3>1. j \in 1 .. Len(q) - 1 /\ i \in 1 .. Len(q) - 1 /\ j > p /\ j # p /\ i # p /\ ~(i < p)
      BY <1>1, <1>2, <1>3, <1>9, <2>3
    <3>2. r[i] = q[j] /\ r[j] = q[j + 1] /\ Apart(q, j)
      <4> HIDE DEF j
      <4>1. r[j] = q[j + 1] /\ Apart(q, j)
        BY <1>1, <1>3, <1>6, <3>1
      <4>2. r[i] = q[i + 1]
        BY <1>1, <1>3, <3>1
      <4> QED BY <4>1, <4>2 DEF j
    <3> QED BY <3>2 DEF Apart
  <2> QED BY <1>1, <1>9, <2>1, <2>2, <2>3
<1>10. ASSUME p < Len(r) PROVE r[p].start <= r[p + 1].start
  <2>1. r[p] = b /\ r[p + 1] = q[p + 2] /\ p + 2 \in DOMAIN q
    BY <1>1, <1>2, <1>3, <1>8, <1>10
  <2>2. End(q[p + 1]) < q[p + 2].start
    <3>1. p + 1 \in 1 .. Len(q) - 1 /\ p + 1 # p /\ (p + 1) + 1 = p + 2
      BY <1>1, <2>1
    <3>2. Apart(q, p + 1)
      BY <1>6, <3>1
    <3> QED BY <3>1, <3>2 DEF Apart
  <2>3. /\ q[p + 1].start < End(q[p + 1])
        /\ {q[p].start, q[p + 1].start, End(q[p + 1]), q[p + 2].start} \subseteq Nat
    BY <1>1, <1>2, <2>1, RangeType
  <2> QED BY <1>2, <1>5, <2>1, <2>2, <2>3
<1>11. ASSUME NEW i \in DOMAIN r \ {p}
       PROVE  /\ \E j \in DOMAIN q \ {p, p + 1} : r[i] = q[j]
              /\ Span(r[i]) \cap Span(q[p + 1]) = {}
  <2>1. CASE i < p
    <3>1. i \in DOMAIN q \ {p, p + 1} /\ r[i] = q[i] /\ i \in 1 .. p /\ p \in 1 .. p
      BY <1>1, <1>2, <1>3, <1>4, <2>1
    <3>2. End(q[i]) < q[p].start
      BY <1>1, <2>1, <3>1
    <3>3. /\ {q[i].start, End(q[i]), q[p].start, q[p + 1].start, End(q[p + 1])} \subseteq Nat
      BY <1>1, <1>2, <3>1, RangeType
    <3>4. Span(q[i]) \cap Span(q[p + 1]) = {}
      BY <1>2, <3>2, <3>3 DEF Span
    <3> QED BY <3>1, <3>4
  <2>2. CASE i > p
    <3>1. i + 1 \in DOMAIN q \ {p, p + 1} /\ r[i] = q[i + 1] /\ i + 1 \in p + 1 .. Len(q)
            /\ p + 1 \in p + 1 .. Len(q)
      BY <1>1, <1>2, <1>3, <1>4, <2>2
    <3>2. End(q[p + 1]) < q[i + 1].start
      BY <1>1, <2>2, <3>1
    <3>3. /\ {q[i + 1].start, End(q[i + 1]), q[p + 1].start, End(q[p + 1])} \subseteq Nat
      BY <1>1, <1>2, <3>1, RangeType
    <3>4. Span(q[i + 1]) \cap Span(q[p + 1]) = {}
      BY <3>2, <3>3 DEF Span
    <3> QED BY <3>1, <3>4
  <2> QED BY <1>1, <1>4, <1>11, <2>1, <2>2
<1>12. ASSUME NEW j \in DOMAIN q \ {p, p + 1}
       PROVE  \E i \in DOMAIN r \ {p} : r[i] = q[j]
  <2>1. CASE j < p
    <3>1. j \in 1 .. Len(q) - 1
      BY <1>1, <1>2, <2>1
    <3>2. j \in DOMAIN r \ {p}
      BY <1>1, <1>3, <1>4, <2>1, <3>1
    <3>3. r[j] = q[j]
      BY <1>3, <2>1, <3>1
    <3> QED BY <3>2, <3>3
  <2>2. CASE j > p
    <3>1. j - 1 \in DOMAIN r \ {p} /\ j - 1 \in 1 .. Len(q) - 1 /\ j - 1 > p /\ (j - 1) + 1 = j
      BY <1>1, <1>2, <1>3, <1>4, <2>2
    <3>2. r[j - 1] = q[j]
      BY <1>1, <1>3, <3>1
    <3> QED BY <3>1, <3>2
  <2> QED BY <1>1, <2>1, <2>2
<1>13. Beside(q, p) = Beside(r, p) \cup Span(q[p + 1]) /\ Beside(r, p) \cap Span(q[p + 1]) = {}
  <2>1. Beside(q, p) \subseteq Beside(r, p) \cup Span(q[p + 1])
    <3>1. ASSUME NEW j \in DOMAIN q \ {p} PROVE Span(q[j]) \subseteq Beside(r, p) \cup Span(q[p + 1])
      <4>1. CASE j = p + 1
        BY <4>1
      <4>2. CASE j # p + 1
        BY <1>12, <4>2 DEF Beside
      <4> QED BY <4>1, <4>2
    <3> QED BY <3>1 DEF Beside
  <2>2. Beside(r, p) \subseteq Beside(q, p)
    BY <1>11 DEF Beside
  <2>3. Span(q[p + 1]) \subseteq Beside(q, p)
    <3>1. p + 1 # p
      BY <1>1
    <3> QED BY <1>2, <3>1 DEF Beside
  <2>4. Beside(r, p) \cap Span(q[p + 1]) = {}
    BY <1>11 DEF Beside
  <2> QED BY <2>1, <2>2, <2>3, <2>4
<1>14. r[p] = b
  BY <1>1, <1>2, <1>3
<1>15. Cover(r) = S
  <2>1. Cover(r) = Beside(r, p) \cup Span(r[p])
    BY <1>8 DEF Cover, Beside
  <2>2. Cover(q) = Beside(q, p) \cup Span(q[p])
    BY <1>1 DEF Cover, Beside
  <2> QED BY <1>5, <1>7, <1>13, <1>14, <2>1, <2>2
<1>16. e.present = Cardinality(Beside(r, p)) + r[p].length
  <2>1. q[p + 1] \in ChunkRange /\ q[p] \in ChunkRange
    BY <1>1, <1>2
  <2>2. IsFiniteSet(Span(q[p + 1])) /\ Cardinality(Span(q[p + 1])) = q[p + 1].length
    BY <2>1, SpanCardinality
  <2>3. IsFiniteSet(Beside(r, p))
    BY <1>1, <1>13, FS_Subset
  <2>4. Cardinality(Beside(q, p)) = Cardinality(Beside(r, p)) + q[p + 1].length
    <3>1. Cardinality(Beside(q, p)) = Cardinality(Beside(r, p)) + q[p + 1].length - Cardinality({})
      BY <1>13, <2>2, <2>3, FS_Union
    <3> QED BY <2>1, <2>3, <3>1, FS_EmptySet, FS_CardinalityType, RangeType
  <2>5. {q[p].length, q[p + 1].length, Cardinality(Beside(r, p))} \subseteq Nat
    BY <2>1, <2>3, FS_CardinalityType, RangeType
  <2> DEFINE lp == q[p].length  ln == q[p + 1].length  c == Cardinality(Beside(r, p))
  <2>6. lp \in Nat /\ ln \in Nat /\ c \in Nat /\ o \in Nat
    BY <1>5, <2>5
  <2>7. d.present = (c + ln) + lp
    BY <1>7, <2>4
  <2>8. e.present = d.present - o
    BY <1>3
  <2>9. r[p].length = lp + ln - o
    BY <1>5, <1>14
  <2> HIDE DEF lp, ln, c
  <2> QED BY <2>6, <2>7, <2>8, <2>9 DEF c
<1> QED BY <1>3, <1>7, <1>8, <1>9, <1>10, <1>15, <1>16 DEF Merging, r, e

(* When range p reaches no other, all ranges are apart.                    *)
LEMMA OthersApart ==
    ASSUME NEW q \in Seq(ChunkRange), \A i \in 1 .. Len(q) - 1 : Apart(q, i), IsFiniteSet(Cover(q)),
           NEW p \in DOMAIN q
    PROVE  /\ Beside(q, p) \cup Span(q[p]) = Cover(q)
           /\ Cardinality(Cover(q)) = Cardinality(Beside(q, p)) + q[p].length
<1>1. \A i \in DOMAIN q : q[i] \in ChunkRange
  OBVIOUS
<1>2. ASSUME NEW i \in DOMAIN q \ {p} PROVE Span(q[i]) \cap Span(q[p]) = {}
  <2>1. {q[i].start, End(q[i]), q[p].start, End(q[p])} \subseteq Nat
    BY <1>1, RangeType
  <2>2. CASE i < p
    <3>1. End(q[i]) < q[p].start
      BY <2>2, AllInOrder
    <3> QED BY <2>1, <3>1 DEF Span
  <2>3. CASE i > p
    <3>1. End(q[p]) < q[i].start
      BY <2>3, AllInOrder
    <3> QED BY <2>1, <3>1 DEF Span
  <2> QED BY <2>2, <2>3
<1>3. Beside(q, p) \cap Span(q[p]) = {} /\ Beside(q, p) \cup Span(q[p]) = Cover(q)
  BY <1>1, <1>2 DEF Beside, Cover
<1>4. IsFiniteSet(Span(q[p])) /\ Cardinality(Span(q[p])) = q[p].length /\ q[p].length \in Nat
  BY <1>1, SpanCardinality, RangeType
<1>5. IsFiniteSet(Beside(q, p))
  BY <1>3, FS_Subset
<1>6. Cardinality(Cover(q)) = Cardinality(Beside(q, p)) + q[p].length - Cardinality({})
  BY <1>3, <1>4, <1>5, FS_Union
<1>7. Cardinality(Cover(q)) = Cardinality(Beside(q, p)) + q[p].length
  BY <1>4, <1>5, <1>6, FS_EmptySet, FS_CardinalityType
<1> QED BY <1>3, <1>7

(* Then the ranges describe the chunks they cover.                         *)
LEMMA Merged ==
    ASSUME NEW N \in Nat, NEW S, NEW p, NEW d, Merging(d, N, p, S), ~Touches(d.ranges, p)
    PROVE  Describes(d, N, S)
<1> DEFINE q == d.ranges
<1>1. /\ d \in ChunkData(N) /\ q \in Seq(ChunkRange) /\ p \in DOMAIN q
      /\ \A i \in DOMAIN q : q[i] \in ChunkRange
      /\ IsFiniteSet(Beside(q, p))
  BY MergingRanges
<1>2. /\ \A i \in 1 .. Len(q) - 1 : i # p => Apart(q, i)
      /\ Cover(q) = S /\ S \subseteq 0 .. N - 1 /\ d.present = Cardinality(Beside(q, p)) + q[p].length
  BY DEF Merging
<1>3. \A i \in 1 .. Len(q) - 1 : Apart(q, i)
  BY <1>1, <1>2 DEF Touches
<1>4. IsFiniteSet(Cover(q))
  BY MergingRanges
<1> HIDE DEF q
<1>5. Cardinality(S) = Cardinality(Beside(q, p)) + q[p].length
  BY <1>1, <1>2, <1>3, <1>4, OthersApart
<1> QED BY <1>1, <1>2, <1>3, <1>5 DEF Describes, q

(* Each repetition merges one range or there is nothing to merge, so there *)
(* are enough of them.                                                     *)
LEMMA MergeAllResult ==
    ASSUME NEW N \in Nat, NEW S, NEW p, NEW d \in ChunkData(N), p \in DOMAIN d.ranges,
           Merging(MergeRanges(d, p), N, p, S)
    PROVE  Describes(MergeAll(d, p), N, S)
<1> DEFINE n == Len(d.ranges)
<1>1. n \in Nat /\ n >= 1 /\ p \in Nat \ {0}
  BY DEF ChunkData
<1>2. PICK h : /\ h[0] = d
               /\ \A k \in 1 .. n : h[k] = MergeRanges(h[k - 1], p)
               /\ MergeAll(d, p) = h[n]
  BY <1>1, MergeAllSteps
<1> DEFINE Left(k) == ~Touches(h[k].ranges, p) \/ Len(h[k].ranges) <= n - k
           T == {k \in Nat : k > 0 => Merging(h[k], N, p, S) /\ Left(k)}
<1>3. 0 \in T
  OBVIOUS
<1>4. ASSUME NEW k \in 1 .. n, k - 1 \in T PROVE k \in T
  <2>1. h[k] = MergeRanges(h[k - 1], p)
    BY <1>2
  <2>2. CASE k = 1
    <3>1. h[k] = MergeRanges(d, p)
      BY <1>2, <2>1, <2>2
    <3>2. Left(k)
      <4>1. CASE Touches(d.ranges, p)
        BY <1>1, <2>2, <3>1, <4>1, MergeRangesResult DEF TakenIn
      <4>2. CASE ~Touches(d.ranges, p)
        BY <1>1, <3>1, <4>2, MergeRangesNothing
      <4> QED BY <4>1, <4>2
    <3> QED BY <3>1, <3>2
  <2>3. CASE k # 1
    <3>1. Merging(h[k - 1], N, p, S) /\ Left(k - 1)
      BY <1>4, <2>3
    <3>2. h[k - 1] \in ChunkData(N) /\ h[k - 1].ranges \in Seq(ChunkRange)
      BY <3>1, MergingRanges
    <3>3. CASE Touches(h[k - 1].ranges, p)
      <4>1. Merging(h[k], N, p, S)
        BY <2>1, <3>1, <3>3, MergeStep
      <4>2. Len(h[k].ranges) = Len(h[k - 1].ranges) - 1
        BY <1>1, <2>1, <3>2, <3>3, MergeRangesResult DEF TakenIn
      <4>3. Len(h[k - 1].ranges) <= n - (k - 1)
        BY <3>1, <3>3
      <4>4. Len(h[k].ranges) <= n - k
        BY <1>1, <3>2, <4>2, <4>3
      <4> QED BY <4>1, <4>4
    <3>4. CASE ~Touches(h[k - 1].ranges, p)
      <4>1. h[k] = h[k - 1]
        BY <1>1, <2>1, <3>2, <3>4, MergeRangesNothing
      <4> QED BY <3>1, <3>4, <4>1
    <3> QED BY <3>3, <3>4
  <2> QED BY <2>2, <2>3
<1>5. n \in T
  <2>1. \A k \in 0 .. n : k \in T
    <3> HIDE DEF T
    <3> QED BY <1>1, <1>3, <1>4, Induction
  <2> QED BY <1>1, <2>1
<1>6. Merging(h[n], N, p, S) /\ Left(n)
  BY <1>1, <1>5
<1>7. ~Touches(h[n].ranges, p)
  <2>1. h[n].ranges \in Seq(ChunkRange) /\ p \in DOMAIN h[n].ranges
    BY <1>6, MergingRanges
  <2>2. Len(h[n].ranges) >= 1
    BY <2>1
  <2> QED BY <1>1, <1>6, <2>1, <2>2
<1> QED BY <1>2, <1>6, <1>7, Merged

-----------------------------------------------------------------------------
(* Adding.  The new range comes before the first one that starts as late.  *)
LEMMA DescribedRanges ==
    ASSUME NEW N \in Nat, NEW S, NEW d, Describes(d, N, S)
    PROVE  LET q == d.ranges IN
           /\ d \in ChunkData(N) /\ q \in Seq(ChunkRange)
           /\ \A i \in 1 .. Len(q) - 1 : Apart(q, i)
           /\ \A i \in DOMAIN q : q[i] \in ChunkRange /\ Span(q[i]) \subseteq S
           /\ \A i, j \in DOMAIN q : i < j => End(q[i]) < q[j].start
           /\ Cover(q) = S /\ S \subseteq 0 .. N - 1
           /\ IsFiniteSet(S) /\ Cardinality(S) \in Nat /\ d.present = Cardinality(S)
<1> DEFINE q == d.ranges
<1>1. /\ d \in ChunkData(N) /\ q \in Seq(ChunkRange)
      /\ \A i \in 1 .. Len(q) - 1 : Apart(q, i)
      /\ Cover(q) = S /\ S \subseteq 0 .. N - 1 /\ d.present = Cardinality(S)
  BY DEF Describes, ChunkData
<1> HIDE DEF q
<1>2. IsFiniteSet(S) /\ Cardinality(S) \in Nat
  <2>1. IsFiniteSet(0 .. N - 1)
    BY FS_Interval
  <2> QED BY <1>1, <2>1, FS_Subset, FS_CardinalityType
<1>3. \A i \in DOMAIN q : q[i] \in ChunkRange /\ Span(q[i]) \subseteq S
  BY <1>1 DEF Cover
<1>4. \A i, j \in DOMAIN q : i < j => End(q[i]) < q[j].start
  BY <1>1, AllInOrder
<1> QED BY <1>1, <1>2, <1>3, <1>4 DEF q

(* Where the new range goes.                                               *)
Place(q, start) == Min({j \in DOMAIN q : q[j].start >= start} \cup {Len(q) + 1})

(* Before that place the ranges start below the chunk, and from it on not. *)
LEMMA PlaceIsFirst ==
    ASSUME NEW q \in Seq(ChunkRange), NEW start \in Nat
    PROVE  /\ Place(q, start) \in 1 .. Len(q) + 1
           /\ \A j \in DOMAIN q : j < Place(q, start) => q[j].start < start
           /\ Place(q, start) \in DOMAIN q => start <= q[Place(q, start)].start
<1> DEFINE T == {j \in DOMAIN q : q[j].start >= start} \cup {Len(q) + 1}
<1>1. T \in SUBSET Nat /\ T # {}
  OBVIOUS
<1>2. \E x \in T : \A y \in T : x <= y
  <2> HIDE DEF T
  <2> QED BY <1>1, LeastNumber
<1>3. Min(T) \in T /\ \A y \in T : Min(T) <= y
  <2> HIDE DEF T
  <2> QED BY <1>2 DEF Min
<1>4. Place(q, start) = Min(T)
  BY DEF Place
<1>5. Min(T) \in 1 .. Len(q) + 1
  BY <1>3
<1>6. ASSUME NEW j \in DOMAIN q, j < Min(T) PROVE q[j].start < start
  <2>1. j \notin T
    <3> HIDE DEF T
    <3> QED BY <1>3, <1>5, <1>6
  <2>2. q[j].start \in Nat
    BY RangeType
  <2> QED BY <2>1, <2>2
<1>7. ASSUME Min(T) \in DOMAIN q PROVE start <= q[Min(T)].start
  <2>1. q[Min(T)].start >= start
    <3>1. Min(T) # Len(q) + 1
      BY <1>7
    <3> QED BY <1>3, <3>1
  <2>2. q[Min(T)].start \in Nat
    BY <1>7, RangeType
  <2> QED BY <2>1, <2>2
<1> QED BY <1>4, <1>5, <1>6, <1>7

(* AddChunkRange adds the chunks of a range, wherever it is and whatever   *)
(* ranges it joins, and the count of those present is right.               *)
LEMMA AddResult ==
    ASSUME NEW N \in Nat, NEW S, NEW d, Describes(d, N, S),
           NEW k \in Nat, NEW l \in Nat \ {0}, k + l <= N
    PROVE  Describes(AddChunkRange(d, k, l), N, S \cup k .. k + l - 1)
<1> DEFINE q == d.ranges  r == [start |-> k, length |-> l]  i == Place(q, k)
           nq == InsertAt(q, i, r)  new == [d EXCEPT !.present = @ + l, !.ranges = nq]
           U == S \cup k .. k + l - 1
<1>1. /\ d \in ChunkData(N) /\ q \in Seq(ChunkRange)
      /\ \A j \in 1 .. Len(q) - 1 : Apart(q, j)
      /\ \A j \in DOMAIN q : q[j] \in ChunkRange
      /\ \A j, m \in DOMAIN q : j < m => End(q[j]) < q[m].start
      /\ Cover(q) = S /\ S \subseteq 0 .. N - 1
      /\ IsFiniteSet(S) /\ Cardinality(S) \in Nat /\ d.present = Cardinality(S)
  BY DescribedRanges
<1>2. r \in ChunkRange /\ r.start = k /\ r.length = l /\ End(r) = k + l /\ Span(r) = k .. k + l - 1
  BY DEF ChunkRange, End, Span
<1>3. U \subseteq 0 .. N - 1 /\ U = S \cup Span(r)
  BY <1>1, <1>2
<1>4. /\ i \in 1 .. Len(q) + 1
      /\ \A j \in DOMAIN q : j < i => q[j].start < k
      /\ i \in DOMAIN q => k <= q[i].start
  BY <1>1, PlaceIsFirst
<1>5. AddChunkRange(d, k, l) =
        IF i > 1 /\ MergeRanges(new, i - 1) # new THEN MergeAll(new, i - 1) ELSE MergeAll(new, i)
  <2>1. ~(k < 0 \/ k + l > d.count \/ l <= 0)
    BY <1>1 DEF ChunkData
  <2> QED BY <2>1 DEF AddChunkRange, Place
<1> HIDE DEF i, r, q, U
<1>6. /\ nq \in Seq(ChunkRange) /\ Len(nq) = Len(q) + 1
      /\ \A j \in 1 .. Len(q) + 1 : nq[j] = IF j < i THEN q[j] ELSE IF j = i THEN r ELSE q[j - 1]
  BY <1>1, <1>2, <1>4, InsertAtElements
<1> HIDE DEF nq
<1>7. /\ new \in ChunkData(N) /\ new.ranges = nq /\ new.present = d.present + l
  <2>1. d.present + l \in Int
    BY <1>1
  <2> QED BY <1>1, <1>6, <2>1 DEF ChunkData
<1> HIDE DEF new
<1>8. Len(q) \in Nat /\ i \in Nat /\ DOMAIN q = 1 .. Len(q) /\ DOMAIN nq = 1 .. Len(q) + 1
  BY <1>1, <1>4, <1>6
<1>9. CASE i > 1 /\ Touches(nq, i - 1)
  <2> DEFINE p == i - 1  e == MergeRanges(new, p)  er == e.ranges  b == Both(q[p], r)
  <2>1. p \in Nat \ {0} /\ p \in DOMAIN q /\ p \in DOMAIN nq /\ p + 1 = i /\ i \in DOMAIN nq
    BY <1>4, <1>8, <1>9
  <2>2. nq[p] = q[p] /\ nq[i] = r
    BY <1>4, <1>6, <1>8, <2>1
  <2>3. /\ e \in ChunkData(N) /\ Len(er) = Len(nq) - 1
        /\ e.present = new.present - Overlap(nq[p], nq[p + 1])
        /\ \A j \in 1 .. Len(nq) - 1 :
             er[j] = IF j < p THEN nq[j] ELSE IF j = p THEN Both(nq[p], nq[p + 1]) ELSE nq[j + 1]
    <3>1. Touches(new.ranges, p)
      BY <1>7, <1>9
    <3>2. new \in ChunkData(N) /\ new.ranges = nq /\ p \in Nat \ {0}
      BY <1>7, <2>1
    <3> HIDE DEF p
    <3>3. TakenIn(N, new, p, e)
      BY <3>1, <3>2, MergeRangesResult
    <3> HIDE DEF e
    <3> QED BY <3>2, <3>3 DEF TakenIn
  <2>4. q[p].start < k /\ k <= End(q[p])
    <3>1. ~(End(q[p]) < k) /\ q[p].start < k
      BY <1>2, <1>4, <1>9, <2>1, <2>2 DEF Touches, Apart
    <3> QED BY <1>1, <2>1, <3>1, RangeType
  <2>5. /\ b \in ChunkRange /\ Span(b) = Span(q[p]) \cup Span(r)
        /\ Overlap(q[p], r) \in Nat
        /\ b.start = q[p].start /\ b.length = q[p].length + l - Overlap(q[p], r)
    <3>1. q[p] \in ChunkRange /\ q[p].start <= r.start /\ r.start <= End(q[p])
      <4> HIDE DEF p
      <4>1. q[p] \in ChunkRange
        BY <1>1, <2>1
      <4>2. r.start = k /\ q[p].start \in Nat
        BY <1>2, <4>1, RangeType
      <4> QED BY <2>4, <4>1, <4>2
    <3>2. b.start = q[p].start /\ b.length = q[p].length + l - Overlap(q[p], r)
      BY <1>2 DEF Both
    <3> HIDE DEF p
    <3> QED BY <1>2, <3>1, <3>2, BothRanges
  <2> HIDE DEF p, e, b
  <2>6. \A j \in DOMAIN q : er[j] = IF j = p THEN b ELSE q[j]
    <3> SUFFICES ASSUME NEW j \in DOMAIN q PROVE er[j] = IF j = p THEN b ELSE q[j]
      OBVIOUS
    <3>1. j \in 1 .. Len(nq) - 1 /\ j \in 1 .. Len(q) + 1 /\ j + 1 \in 1 .. Len(q) + 1
      BY <1>6, <1>8
    <3>2. CASE j < p
      <4>1. nq[j] = q[j]
        BY <1>6, <1>8, <2>1, <3>1, <3>2
      <4>2. er[j] = nq[j]
        BY <2>3, <3>1, <3>2
      <4>3. j # p
        BY <2>1, <3>1, <3>2
      <4> QED BY <4>1, <4>2, <4>3
    <3>3. CASE j = p
      <4>1. er[j] = Both(nq[p], nq[p + 1])
        BY <2>1, <2>3, <3>1, <3>3
      <4> QED BY <2>1, <2>2, <3>3, <4>1 DEF b
    <3>4. CASE j > p
      <4>1. nq[j + 1] = q[j]
        <5>1. j + 1 > i /\ (j + 1) - 1 = j
          BY <2>1, <3>1, <3>4
        <5> QED BY <1>6, <1>8, <3>1, <5>1
      <4>2. ~(j < p) /\ j # p
        BY <2>1, <3>1, <3>4
      <4>3. er[j] = nq[j + 1]
        BY <2>3, <3>1, <4>2
      <4> QED BY <4>1, <4>2, <4>3
    <3> QED BY <1>8, <2>1, <3>2, <3>3, <3>4
  <2>7. er \in Seq(ChunkRange) /\ Len(er) = Len(q) /\ DOMAIN er = DOMAIN q
    <3>1. er \in Seq(ChunkRange)
      BY <2>3 DEF ChunkData
    <3> QED BY <1>6, <1>8, <2>3, <3>1
  <2>8. Beside(er, p) = Beside(q, p)
    BY <2>6, <2>7 DEF Beside
  <2>9. ASSUME NEW j \in 1 .. Len(er) - 1, j # p PROVE Apart(er, j)
    <3>1. Apart(q, j) /\ j \in DOMAIN q /\ j + 1 \in DOMAIN q /\ er[j] = q[j]
      BY <1>1, <1>8, <2>6, <2>7, <2>9
    <3>2. er[j + 1].start = q[j + 1].start
      BY <2>5, <2>6, <3>1
    <3> QED BY <3>1, <3>2 DEF Apart
  <2>10. ASSUME p < Len(er) PROVE er[p].start <= er[p + 1].start
    <3>1. p + 1 \in DOMAIN q /\ p + 1 # p /\ p < p + 1
      BY <1>8, <2>1, <2>7, <2>10
    <3>2. er[p].start = q[p].start /\ er[p + 1] = q[p + 1]
      BY <2>1, <2>5, <2>6, <3>1
    <3>3. End(q[p]) < q[p + 1].start
      BY <1>1, <2>1, <3>1
    <3>4. {q[p].start, End(q[p]), q[p + 1].start} \subseteq Nat /\ q[p].start < End(q[p])
      BY <1>1, <2>1, <3>1, RangeType
    <3> QED BY <3>2, <3>3, <3>4
  <2>11. Beside(q, p) \cup Span(q[p]) = S /\ Cardinality(S) = Cardinality(Beside(q, p)) + q[p].length
    BY <1>1, <2>1, OthersApart
  <2>12. er[p] = b
    BY <2>1, <2>6
  <2>13. Cover(er) = U
    <3>1. Cover(er) = Beside(er, p) \cup Span(er[p])
      BY <2>1, <2>7 DEF Cover, Beside
    <3> QED BY <1>3, <2>5, <2>8, <2>11, <2>12, <3>1
  <2>14. e.present = Cardinality(Beside(er, p)) + er[p].length
    <3> DEFINE c == Cardinality(Beside(q, p))  lp == q[p].length  o == Overlap(q[p], r)
    <3>1. c \in Nat /\ lp \in Nat /\ o \in Nat
      <4>1. IsFiniteSet(Beside(q, p))
        BY <1>1, <2>11, FS_Subset
      <4> QED BY <1>1, <2>1, <2>5, <4>1, FS_CardinalityType, RangeType
    <3>2. e.present = new.present - o
      BY <2>1, <2>2, <2>3
    <3>3. new.present = (c + lp) + l
      BY <1>1, <1>7, <2>11
    <3>4. er[p].length = lp + (l - o)
      BY <2>5, <2>12
    <3> HIDE DEF c, lp, o
    <3>5. e.present = c + er[p].length
      BY <3>1, <3>2, <3>3, <3>4
    <3> QED BY <2>8, <3>5 DEF c
  <2>15. Merging(e, N, p, U)
    BY <1>3, <2>1, <2>3, <2>7, <2>9, <2>10, <2>13, <2>14 DEF Merging
  <2>16. Describes(MergeAll(new, p), N, U)
    BY <1>7, <2>1, <2>15, MergeAllResult DEF e
  <2>17. MergeRanges(new, i - 1) # new
    <3>1. Len(er) # Len(nq)
      <4>1. Len(nq) = Len(q) + 1 /\ Len(q) \in Nat
        BY <1>6, <1>8
      <4>2. Len(er) = Len(q)
        BY <2>7
      <4> HIDE DEF er
      <4> QED BY <4>1, <4>2
    <3>2. er # new.ranges
      BY <1>7, <3>1
    <3> QED BY <3>2 DEF e, p
  <2> QED BY <1>5, <1>9, <2>16, <2>17 DEF p, U
<1>10. CASE ~(i > 1 /\ Touches(nq, i - 1))
  <2>1. i \in DOMAIN nq /\ nq[i] = r
    BY <1>4, <1>6, <1>8
  <2>2. ASSUME NEW j \in DOMAIN q
        PROVE  IF j < i THEN nq[j] = q[j] ELSE j + 1 \in DOMAIN nq /\ nq[j + 1] = q[j]
    <3>1. j \in 1 .. Len(q) + 1 /\ j + 1 \in 1 .. Len(q) + 1 /\ (j + 1) - 1 = j
      BY <1>8
    <3>2. ~(j < i) => ~(j + 1 < i) /\ j + 1 # i
      BY <1>8
    <3> QED BY <1>6, <1>8, <3>1, <3>2
  <2>3. ASSUME NEW j \in 1 .. Len(nq) - 1, j # i PROVE Apart(nq, j)
    <3>1. CASE j + 1 < i
      <4>1. j \in DOMAIN q /\ j + 1 \in DOMAIN q /\ Apart(q, j) /\ j < i
        BY <1>1, <1>4, <1>8, <3>1
      <4>2. nq[j] = q[j] /\ nq[j + 1] = q[j + 1]
        BY <2>2, <3>1, <4>1
      <4> QED BY <4>1, <4>2 DEF Apart
    <3>2. CASE j + 1 = i
      <4>1. i > 1 /\ j = i - 1 /\ j < Len(nq)
        BY <1>6, <1>8, <3>2
      <4> QED BY <1>10, <4>1 DEF Touches
    <3>3. CASE j > i
      <4> DEFINE m == j - 1
      <4>1. m \in DOMAIN q /\ m + 1 = j /\ j \in DOMAIN q /\ ~(m < i) /\ ~(j < i) /\ m \in 1 .. Len(q) - 1
        BY <1>4, <1>6, <1>8, <3>3
      <4>2. nq[j] = q[m] /\ nq[j + 1] = q[j]
        BY <2>2, <4>1
      <4>3. Apart(q, m)
        BY <1>1, <4>1
      <4> QED BY <4>1, <4>2, <4>3 DEF Apart
    <3> QED BY <1>8, <2>3, <3>1, <3>2, <3>3
  <2>4. ASSUME i < Len(nq) PROVE nq[i].start <= nq[i + 1].start
    <3>1. i \in DOMAIN q /\ ~(i < i)
      BY <1>4, <1>6, <1>8, <2>4
    <3>2. nq[i + 1] = q[i]
      BY <2>2, <3>1
    <3> QED BY <1>2, <1>4, <2>1, <3>1, <3>2
  <2>5. Beside(nq, i) = S
    <3>1. ASSUME NEW j \in DOMAIN nq \ {i} PROVE Span(nq[j]) \subseteq S
      <4>1. CASE j < i
        <5>1. j \in DOMAIN q /\ nq[j] = q[j]
          BY <1>4, <1>6, <1>8, <4>1
        <5> QED BY <1>1, <5>1 DEF Cover
      <4>2. CASE j > i
        <5>1. j - 1 \in DOMAIN q /\ nq[j] = q[j - 1]
          BY <1>4, <1>6, <1>8, <4>2
        <5> QED BY <1>1, <5>1 DEF Cover
      <4> QED BY <1>8, <3>1, <4>1, <4>2
    <3>2. ASSUME NEW j \in DOMAIN q PROVE Span(q[j]) \subseteq Beside(nq, i)
      <4>1. CASE j < i
        <5>1. j \in DOMAIN nq \ {i} /\ nq[j] = q[j]
          BY <1>8, <2>2, <4>1
        <5> QED BY <5>1 DEF Beside
      <4>2. CASE ~(j < i)
        <5>1. j + 1 \in DOMAIN nq \ {i} /\ nq[j + 1] = q[j]
          BY <1>8, <2>2, <4>2
        <5> QED BY <5>1 DEF Beside
      <4> QED BY <4>1, <4>2
    <3>3. Beside(nq, i) \subseteq S
      BY <3>1 DEF Beside
    <3>4. S \subseteq Beside(nq, i)
      BY <1>1, <3>2 DEF Cover
    <3> QED BY <3>3, <3>4
  <2>6. Cover(nq) = U
    <3>1. Cover(nq) = Beside(nq, i) \cup Span(nq[i])
      BY <2>1 DEF Cover, Beside
    <3> QED BY <1>3, <2>1, <2>5, <3>1
  <2>7. new.present = Cardinality(Beside(nq, i)) + nq[i].length
    BY <1>1, <1>2, <1>7, <2>1, <2>5
  <2>8. Merging(new, N, i, U)
    BY <1>3, <1>7, <2>1, <2>3, <2>4, <2>6, <2>7 DEF Merging
  <2>9. i \in Nat \ {0}
    BY <1>4
  <2>10. Merging(MergeRanges(new, i), N, i, U)
    <3>1. CASE Touches(nq, i)
      BY <1>7, <2>8, <3>1, MergeStep
    <3>2. CASE ~Touches(nq, i)
      <4>1. MergeRanges(new, i) = new
        BY <1>7, <2>9, <3>2, MergeRangesNothing
      <4> QED BY <2>8, <4>1
    <3> QED BY <3>1, <3>2
  <2>11. Describes(MergeAll(new, i), N, U)
    BY <1>7, <2>1, <2>10, MergeAllResult
  <2>12. ASSUME i > 1 PROVE MergeRanges(new, i - 1) = new
    <3>1. i - 1 \in Nat \ {0} /\ ~Touches(new.ranges, i - 1)
      BY <1>7, <1>8, <1>10, <2>12
    <3> QED BY <1>7, <3>1, MergeRangesNothing
  <2> QED BY <1>5, <2>11, <2>12 DEF U
<1> QED BY <1>9, <1>10

(* An empty range changes nothing.                                         *)
LEMMA AddNothing ==
    ASSUME NEW d, NEW k, NEW l, l <= 0
    PROVE  AddChunkRange(d, k, l) = d
  BY DEF AddChunkRange

-----------------------------------------------------------------------------
(* The chunk data that describe a set of chunks.                           *)
Describing(N) == {d \in ChunkData(N) : \E S : Describes(d, N, S)}

(* AddChunkRange returns chunk data of some set.                           *)
LEMMA DescribingAdd ==
    ASSUME NEW N \in Nat, NEW d \in Describing(N), NEW k \in Nat, NEW l \in Int, k + l <= N
    PROVE  AddChunkRange(d, k, l) \in Describing(N)
<1>1. PICK S : Describes(d, N, S)
  BY DEF Describing
<1>2. CASE l <= 0
  BY <1>2, AddNothing
<1>3. CASE l > 0
  <2>1. Describes(AddChunkRange(d, k, l), N, S \cup k .. k + l - 1)
    BY <1>1, <1>3, AddResult
  <2> QED BY <2>1, DescribedRanges DEF Describing
<1> QED BY <1>2, <1>3

(* SetIncomplete is the empty set.                                         *)
LEMMA SetIncompleteResult ==
    ASSUME NEW N \in Nat
    PROVE  Describes(SetIncomplete(N), N, {})
<1>1. SetIncomplete(N) \in ChunkData(N)
  BY DEF SetIncomplete, ChunkData
<1>2. /\ SetIncomplete(N).ranges = << >> /\ SetIncomplete(N).present = 0
      /\ \A i \in 1 .. Len(<< >>) - 1 : Apart(<< >>, i)
      /\ Cover(<< >>) = {}
  BY DEF SetIncomplete, Cover
<1> QED BY <1>1, <1>2, FS_EmptySet DEF Describes

(* Merge adds the ranges of the other chunk data one by one.               *)
LEMMA MergeSteps ==
    ASSUME NEW N \in Nat, NEW d \in Describing(N), NEW e \in Describing(N)
    PROVE  \E h : /\ h[0] = d
                  /\ \A k \in 1 .. Len(e.ranges) :
                        h[k] = AddChunkRange(h[k - 1], e.ranges[k].start, e.ranges[k].length)
                  /\ Merge(d, e) = h[Len(e.ranges)]
<1> DEFINE q == e.ranges
           n == Len(q)
           D == 1 .. n
           Op(v, x) == AddChunkRange(v, q[x].start, q[x].length)
           c == [s \in SUBSET D |-> Max(s)]
           g == [x \in D |-> [v \in Describing(N) |-> Op(v, x)]]
           Is(f) == f = [s \in SUBSET D |-> IF s = {} THEN d ELSE Op(f[s \ {Max(s)}], Max(s))]
           iter == CHOOSE f : Is(f)
           h == [k \in 0 .. n |-> iter[1 .. k]]
<1>1. n \in Nat /\ DOMAIN q = D
  BY DEF ChunkData, Describing
<1>2. IsFiniteSet(D) /\ \A s \in SUBSET D : s # {} => c[s] \in s
  BY <1>1, Segments
<1>3. ASSUME NEW x \in D, NEW v \in Describing(N) PROVE Op(v, x) \in Describing(N)
  <2>1. PICK S : Describes(e, N, S)
    BY DEF Describing
  <2>2. q[x] \in ChunkRange /\ Span(q[x]) \subseteq 0 .. N - 1
    BY <1>1, <2>1, DescribedRanges
  <2>3. q[x].start \in Nat /\ q[x].length \in Nat \ {0}
    BY <2>2, RangeType
  <2>4. q[x].start + q[x].length <= N
    <3>1. End(q[x]) - 1 \in Span(q[x])
      BY <2>2, RangeType DEF Span
    <3>2. End(q[x]) - 1 \in 0 .. N - 1
      BY <2>2, <3>1
    <3> QED BY <2>2, <3>2, RangeType
  <2> QED BY <2>3, <2>4, DescribingAdd
<1>4. PICK f \in [SUBSET D -> Describing(N)] : \A s \in SUBSET D :
         f[s] = IF s = {} THEN d ELSE g[c[s]][f[s \ {c[s]}]]
  <2>1. \A x \in D, v \in Describing(N) : g[x][v] \in Describing(N)
    BY <1>3
  <2>2. d \in Describing(N)
    OBVIOUS
  <2>3. HasFold(D, Describing(N), d, c, g)
    <3> HIDE DEF D, c, g
    <3> QED BY <1>2, <2>1, <2>2, FoldExists
  <2> HIDE DEF D, c, g
  <2> QED BY <2>3 DEF HasFold
<1>5. Is(f)
  <2>1. ASSUME NEW s \in SUBSET D, s # {} PROVE f[s] = Op(f[s \ {Max(s)}], Max(s))
    <3>1. c[s] = Max(s) /\ c[s] \in D /\ f[s \ {Max(s)}] \in Describing(N)
      BY <1>2, <2>1
    <3> HIDE DEF Op
    <3> QED BY <1>4, <2>1, <3>1
  <2> HIDE DEF D, c, g, Op
  <2> QED BY <1>4, <2>1
<1>6. Is(iter)
  <2> HIDE DEF Is
  <2> QED BY <1>5
<1>7. Merge(d, e) = iter[D]
  BY <1>1 DEF Merge, FoldLeft, MapThenFoldSet
<1> HIDE DEF iter
<1>8. h[0] = d
  BY <1>1, <1>6, Segments
<1>9. ASSUME NEW k \in 1 .. n PROVE h[k] = Op(h[k - 1], k)
  <2>1. /\ 1 .. k \in SUBSET D /\ 1 .. k # {} /\ Max(1 .. k) = k
        /\ (1 .. k) \ {Max(1 .. k)} = 1 .. k - 1
    BY <1>1, Segments
  <2>2. iter[1 .. k] = Op(iter[1 .. k - 1], k)
    <3> HIDE DEF Op, D
    <3> QED BY <1>6, <2>1
  <2> HIDE DEF Op
  <2> QED BY <1>1, <2>2
<1>10. h[n] = iter[D]
  BY <1>1
<1> HIDE DEF h
<1> QED BY <1>7, <1>8, <1>9, <1>10

(* Merge is the union.                                                     *)
LEMMA MergeResult ==
    ASSUME NEW N \in Nat, NEW S, NEW d, Describes(d, N, S), NEW T, NEW e, Describes(e, N, T)
    PROVE  Describes(Merge(d, e), N, S \cup T)
<1> DEFINE q == e.ranges  n == Len(q)
           Covered(k) == UNION {Span(q[i]) : i \in 1 .. k}
<1>1. /\ q \in Seq(ChunkRange) /\ n \in Nat
      /\ \A i \in DOMAIN q : q[i] \in ChunkRange /\ Span(q[i]) \subseteq T
      /\ Cover(q) = T /\ T \subseteq 0 .. N - 1
      /\ d \in Describing(N) /\ e \in Describing(N)
  BY DescribedRanges DEF Describing
<1>2. PICK h : /\ h[0] = d
               /\ \A k \in 1 .. n : h[k] = AddChunkRange(h[k - 1], q[k].start, q[k].length)
               /\ Merge(d, e) = h[n]
  BY <1>1, MergeSteps
<1> DEFINE X == {k \in Nat : Describes(h[k], N, S \cup Covered(k))}
<1>3. 0 \in X
  <2>1. S \cup Covered(0) = S
    OBVIOUS
  <2> QED BY <1>2, <2>1
<1>4. ASSUME NEW k \in 1 .. n, k - 1 \in X PROVE k \in X
  <2>1. q[k] \in ChunkRange /\ Span(q[k]) \subseteq 0 .. N - 1
    <3>1. k \in DOMAIN q
      BY <1>1
    <3> HIDE DEF q
    <3> QED BY <1>1, <3>1
  <2>2. /\ q[k].start \in Nat /\ q[k].length \in Nat \ {0} /\ q[k].start + q[k].length <= N
        /\ Span(q[k]) = q[k].start .. q[k].start + q[k].length - 1
    <3> HIDE DEF q
    <3>1. End(q[k]) - 1 \in Span(q[k])
      BY <2>1, RangeType DEF Span
    <3>2. End(q[k]) - 1 \in 0 .. N - 1
      BY <2>1, <3>1
    <3>3. q[k].start \in Nat /\ q[k].length \in Nat \ {0} /\ End(q[k]) = q[k].start + q[k].length
      BY <2>1, RangeType
    <3> QED BY <3>2, <3>3 DEF Span
  <2>3. Describes(h[k - 1], N, S \cup Covered(k - 1))
    BY <1>4
  <2>4. Describes(h[k], N, (S \cup Covered(k - 1)) \cup Span(q[k]))
    <3> HIDE DEF Covered, q
    <3>1. h[k] = AddChunkRange(h[k - 1], q[k].start, q[k].length)
      BY <1>2
    <3>2. Describes(AddChunkRange(h[k - 1], q[k].start, q[k].length), N, (S \cup Covered(k - 1)) \cup Span(q[k]))
      BY <2>2, <2>3, AddResult
    <3> QED BY <3>1, <3>2
  <2>5. Covered(k) = Covered(k - 1) \cup Span(q[k])
    <3>1. 1 .. k = (1 .. k - 1) \cup {k}
      OBVIOUS
    <3> QED BY <3>1
  <2>6. (S \cup Covered(k - 1)) \cup Span(q[k]) = S \cup Covered(k)
    BY <2>5
  <2>7. Describes(h[k], N, S \cup Covered(k))
    <3> HIDE DEF Covered
    <3> QED BY <2>4, <2>6
  <2>8. k \in Nat
    BY <1>1
  <2> HIDE DEF Covered
  <2> QED BY <2>7, <2>8
<1>5. n \in X
  <2>1. \A k \in 0 .. n : k \in X
    <3> HIDE DEF X, n
    <3> QED BY <1>1, <1>3, <1>4, Induction
  <2>2. n \in 0 .. n
    BY <1>1
  <2> HIDE DEF X, n
  <2> QED BY <2>1, <2>2
<1>6. Covered(n) = T
  BY <1>1 DEF Cover
<1> QED BY <1>2, <1>5, <1>6

(* GetNegative adds the gap before each range and the rest.                *)
Gaps(N) == [free : 0 .. N, gaps : Describing(N)]
Gap(x, range) ==
    [free |-> End(range), gaps |-> AddChunkRange(x.gaps, x.free, range.start - x.free)]

(* The bounds of a range of a set.                                         *)
LEMMA DescribedBounds ==
    ASSUME NEW N \in Nat, NEW S, NEW d, Describes(d, N, S), NEW i \in DOMAIN d.ranges
    PROVE  LET range == d.ranges[i] IN
           /\ range \in ChunkRange /\ range.start \in Nat /\ range.length \in Nat \ {0}
           /\ End(range) \in Nat /\ range.start < End(range) /\ End(range) <= N
           /\ End(range) = range.start + range.length
           /\ Span(range) = range.start .. End(range) - 1
<1> DEFINE r == d.ranges[i]
<1>1. r \in ChunkRange /\ Span(r) \subseteq 0 .. N - 1
  BY DescribedRanges
<1> HIDE DEF r
<1>2. /\ r.start \in Nat /\ r.length \in Nat \ {0} /\ End(r) \in Nat /\ r.start < End(r)
      /\ End(r) = r.start + r.length /\ Span(r) = r.start .. End(r) - 1
  BY <1>1, RangeType DEF Span
<1>3. End(r) - 1 \in 0 .. N - 1
  BY <1>1, <1>2
<1>4. End(r) <= N
  BY <1>2, <1>3
<1> QED BY <1>1, <1>2, <1>4 DEF r

(* GetNegative takes a step for each range, and one for the rest.          *)
LEMMA GetNegativeSteps ==
    ASSUME NEW N \in Nat, NEW S, NEW d, Describes(d, N, S)
    PROVE  \E h : /\ h[0] = [free |-> 0, gaps |-> SetIncomplete(N)]
                  /\ \A k \in 1 .. Len(d.ranges) : h[k] = Gap(h[k - 1], d.ranges[k])
                  /\ GetNegative(d) = LET x == h[Len(d.ranges)]
                                      IN  AddChunkRange(x.gaps, x.free, N - x.free)
<1> DEFINE q == d.ranges
           n == Len(q)
           D == 1 .. n
           base == [free |-> 0, gaps |-> SetIncomplete(N)]
           Op(v, x) == Gap(v, q[x])
           c == [s \in SUBSET D |-> Max(s)]
           g == [x \in D |-> [v \in Gaps(N) |-> Op(v, x)]]
           Is(f) == f = [s \in SUBSET D |-> IF s = {} THEN base ELSE Op(f[s \ {Max(s)}], Max(s))]
           iter == CHOOSE f : Is(f)
           h == [k \in 0 .. n |-> iter[1 .. k]]
<1>1. n \in Nat /\ DOMAIN q = D /\ d.count = N
  BY DescribedRanges DEF ChunkData
<1>2. IsFiniteSet(D) /\ \A s \in SUBSET D : s # {} => c[s] \in s
  BY <1>1, Segments
<1>3. ASSUME NEW x \in D, NEW v \in Gaps(N) PROVE Op(v, x) \in Gaps(N)
  <2>1. q[x].start \in Nat /\ End(q[x]) \in Nat /\ q[x].start < End(q[x]) /\ End(q[x]) <= N
    BY <1>1, DescribedBounds
  <2>2. v.free \in Nat /\ v.gaps \in Describing(N)
    BY DEF Gaps
  <2> DEFINE l == q[x].start - v.free
  <2>3. l \in Int /\ v.free + l <= N
    BY <2>1, <2>2
  <2>4. AddChunkRange(v.gaps, v.free, l) \in Describing(N)
    <3> HIDE DEF l
    <3> QED BY <2>2, <2>3, DescribingAdd
  <2> QED BY <2>1, <2>4 DEF Gap, Gaps
<1>4. PICK f \in [SUBSET D -> Gaps(N)] : \A s \in SUBSET D :
         f[s] = IF s = {} THEN base ELSE g[c[s]][f[s \ {c[s]}]]
  <2>1. \A x \in D, v \in Gaps(N) : g[x][v] \in Gaps(N)
    BY <1>3
  <2>2. base \in Gaps(N)
    BY SetIncompleteResult, DescribedRanges DEF Gaps, Describing
  <2>3. HasFold(D, Gaps(N), base, c, g)
    <3> HIDE DEF D, c, g, base
    <3> QED BY <1>2, <2>1, <2>2, FoldExists
  <2> HIDE DEF D, c, g, base
  <2> QED BY <2>3 DEF HasFold
<1>5. Is(f)
  <2>1. ASSUME NEW s \in SUBSET D, s # {} PROVE f[s] = Op(f[s \ {Max(s)}], Max(s))
    <3>1. c[s] = Max(s) /\ c[s] \in D /\ f[s \ {Max(s)}] \in Gaps(N)
      BY <1>2, <2>1
    <3> HIDE DEF Op
    <3> QED BY <1>4, <2>1, <3>1
  <2> HIDE DEF D, c, g, Op, base
  <2> QED BY <1>4, <2>1
<1>6. Is(iter)
  <2> HIDE DEF Is
  <2> QED BY <1>5
<1>7. GetNegative(d) = AddChunkRange(iter[D].gaps, iter[D].free, N - iter[D].free)
  BY <1>1 DEF GetNegative, FoldLeft, MapThenFoldSet, Gap
<1> HIDE DEF iter
<1>8. h[0] = base
  BY <1>1, <1>6, Segments
<1>9. ASSUME NEW k \in 1 .. n PROVE h[k] = Op(h[k - 1], k)
  <2>1. /\ 1 .. k \in SUBSET D /\ 1 .. k # {} /\ Max(1 .. k) = k
        /\ (1 .. k) \ {Max(1 .. k)} = 1 .. k - 1
    BY <1>1, Segments
  <2>2. iter[1 .. k] = Op(iter[1 .. k - 1], k)
    <3> HIDE DEF Op, D
    <3> QED BY <1>6, <2>1
  <2> HIDE DEF Op
  <2> QED BY <1>1, <2>2
<1>10. h[n] = iter[D]
  BY <1>1
<1> HIDE DEF h
<1> QED BY <1>7, <1>8, <1>9, <1>10

(* GetNegative is the complement.                                          *)
LEMMA GetNegativeResult ==
    ASSUME NEW N \in Nat, NEW S, NEW d, Describes(d, N, S)
    PROVE  Describes(GetNegative(d), N, (0 .. N - 1) \ S)
<1> DEFINE q == d.ranges  n == Len(q)
           Upto(k) == IF k = 0 THEN 0 ELSE End(q[k])
           Free(a) == (0 .. a - 1) \ S
<1>1. /\ q \in Seq(ChunkRange) /\ n \in Nat /\ DOMAIN q = 1 .. n
      /\ \A i, j \in DOMAIN q : i < j => End(q[i]) < q[j].start
      /\ Cover(q) = S /\ S \subseteq 0 .. N - 1
      /\ \A i \in 1 .. n : /\ q[i].start \in Nat /\ End(q[i]) \in Nat
                           /\ q[i].start < End(q[i]) /\ End(q[i]) <= N
                           /\ Span(q[i]) = q[i].start .. End(q[i]) - 1
  BY DescribedRanges, DescribedBounds
<1>2. PICK h : /\ h[0] = [free |-> 0, gaps |-> SetIncomplete(N)]
               /\ \A k \in 1 .. n : h[k] = Gap(h[k - 1], q[k])
               /\ GetNegative(d) = AddChunkRange(h[n].gaps, h[n].free, N - h[n].free)
  BY GetNegativeSteps
<1> HIDE DEF q, n
<1>3. \A k \in 0 .. n : Upto(k) \in Nat /\ Upto(k) <= N
  BY <1>1
<1> DEFINE Starts(k) == IF k > n THEN N ELSE q[k].start
<1>4. ASSUME NEW k \in 1 .. n + 1
      PROVE  /\ Starts(k) \in Nat /\ Upto(k - 1) <= Starts(k) /\ Starts(k) <= N
             /\ (Upto(k - 1) .. Starts(k) - 1) \cap S = {}
  <2>1. k - 1 \in 0 .. n
    BY <1>1
  <2>2. Starts(k) \in Nat /\ Starts(k) <= N
    BY <1>1
  <2>3. Upto(k - 1) <= Starts(k)
    <3>1. CASE k = 1
      BY <2>2, <3>1
    <3>2. CASE k > 1 /\ k <= n
      <4>1. k - 1 \in 1 .. n /\ k \in 1 .. n /\ k - 1 < k /\ k - 1 # 0
        BY <1>1, <3>2
      <4>2. End(q[k - 1]) < q[k].start
        BY <1>1, <4>1
      <4> QED BY <1>1, <3>2, <4>1, <4>2
    <3>3. CASE k > 1 /\ k > n
      BY <1>1, <1>3, <2>1, <3>3
    <3> QED BY <1>1, <3>1, <3>2, <3>3
  <2>4. ASSUME NEW x \in Upto(k - 1) .. Starts(k) - 1, x \in S PROVE FALSE
    <3>1. PICK j \in 1 .. n : x \in q[j].start .. End(q[j]) - 1
      BY <1>1, <2>4 DEF Cover
    <3>2. CASE j < k
      <4>1. End(q[j]) <= Upto(k - 1)
        <5>1. CASE j = k - 1
          BY <1>1, <5>1
        <5>2. CASE j < k - 1
          <6>1. k - 1 \in 1 .. n /\ k - 1 # 0
            BY <1>1, <2>1, <5>2
          <6>2. End(q[j]) < q[k - 1].start
            BY <1>1, <5>2, <6>1
          <6> QED BY <1>1, <6>1, <6>2
        <5> QED BY <1>1, <3>2, <5>1, <5>2
      <4>2. End(q[j]) \in Nat /\ q[j].start \in Nat /\ Upto(k - 1) \in Nat /\ Starts(k) \in Nat
        BY <1>1, <1>3, <2>1, <2>2
      <4>3. x \in Upto(k - 1) .. Starts(k) - 1
        OBVIOUS
      <4> HIDE DEF Starts, Upto
      <4> QED BY <3>1, <4>1, <4>2, <4>3
    <3>3. CASE ~(j < k)
      <4>1. k \in 1 .. n /\ Starts(k) = q[k].start
        BY <1>1, <3>3
      <4>2. q[k].start <= q[j].start
        <5>1. CASE j = k
          BY <1>1, <4>1, <5>1
        <5>2. CASE k < j
          <6>1. End(q[k]) < q[j].start
            BY <1>1, <4>1, <5>2
          <6>2. /\ q[k].start \in Nat /\ End(q[k]) \in Nat /\ q[j].start \in Nat
                /\ q[k].start < End(q[k])
            BY <1>1, <4>1
          <6> QED BY <6>1, <6>2
        <5>3. k \in Nat /\ j \in Nat
          BY <1>1
        <5> QED BY <3>3, <5>1, <5>2, <5>3
      <4>3. q[k].start \in Nat /\ q[j].start \in Nat /\ End(q[j]) \in Nat /\ Upto(k - 1) \in Nat
        BY <1>1, <1>3, <2>1, <4>1
      <4>4. Starts(k) \in Nat /\ x \in Upto(k - 1) .. Starts(k) - 1 /\ Starts(k) = q[k].start
        BY <2>2, <4>1
      <4> HIDE DEF Starts, Upto
      <4> QED BY <3>1, <4>2, <4>3, <4>4
    <3> QED BY <3>2, <3>3
  <2> QED BY <2>2, <2>3, <2>4
<1>5. ASSUME NEW k \in 1 .. n + 1, NEW x, x.free = Upto(k - 1),
             Describes(x.gaps, N, Free(Upto(k - 1)))
      PROVE  Describes(AddChunkRange(x.gaps, x.free, Starts(k) - x.free), N, Free(Starts(k)))
  <2> DEFINE a == Upto(k - 1)  z == Starts(k)
  <2>1. a \in Nat /\ z \in Nat /\ a <= z /\ z <= N /\ (a .. z - 1) \cap S = {}
    <3>1. k - 1 \in 0 .. n
      BY <1>1
    <3> HIDE DEF Upto, Starts
    <3> QED BY <1>3, <1>4, <3>1
  <2>2. Describes(x.gaps, N, Free(a)) /\ x.free = a
    BY <1>5
  <2> HIDE DEF a, z
  <2>3. CASE a = z
    <3>1. AddChunkRange(x.gaps, x.free, z - x.free) = x.gaps
      <4>1. z - x.free <= 0
        BY <2>1, <2>2, <2>3
      <4> QED BY <4>1, AddNothing
    <3> QED BY <2>2, <2>3, <3>1 DEF z
  <2>4. CASE a < z
    <3>1. z - a \in Nat \ {0} /\ a + (z - a) <= N /\ a + (z - a) = z
      BY <2>1, <2>4
    <3>2. Describes(AddChunkRange(x.gaps, a, z - a), N, Free(a) \cup a .. a + (z - a) - 1)
      <4> HIDE DEF Free
      <4> QED BY <2>1, <2>2, <3>1, AddResult
    <3>3. Free(a) \cup a .. a + (z - a) - 1 = Free(z)
      BY <2>1, <2>4
    <3> HIDE DEF Free
    <3> QED BY <2>2, <3>2, <3>3 DEF z
  <2> QED BY <2>1, <2>3, <2>4
<1> DEFINE X == {k \in Nat : h[k].free = Upto(k) /\ Describes(h[k].gaps, N, Free(Upto(k)))}
<1>6. 0 \in X
  <2>1. Free(Upto(0)) = {}
    OBVIOUS
  <2> QED BY <1>2, <2>1, SetIncompleteResult
<1>7. ASSUME NEW k \in 1 .. n, k - 1 \in X PROVE k \in X
  <2>1. h[k - 1].free = Upto(k - 1) /\ Describes(h[k - 1].gaps, N, Free(Upto(k - 1)))
    BY <1>7
  <2>2. k \in 1 .. n + 1 /\ k \in Nat /\ k # 0 /\ Starts(k) = q[k].start
    BY <1>1
  <2>3. Describes(AddChunkRange(h[k - 1].gaps, h[k - 1].free, Starts(k) - h[k - 1].free), N, Free(Starts(k)))
    <3> HIDE DEF Upto, Starts, Free
    <3> QED BY <1>5, <2>1, <2>2
  <2>4. /\ h[k].free = End(q[k])
        /\ h[k].gaps = AddChunkRange(h[k - 1].gaps, h[k - 1].free, q[k].start - h[k - 1].free)
    <3>1. h[k] = Gap(h[k - 1], q[k])
      BY <1>2
    <3> QED BY <3>1 DEF Gap
  <2>5. Free(End(q[k])) = Free(q[k].start)
    <3>1. Span(q[k]) \subseteq S
      BY <1>1 DEF Cover
    <3> QED BY <1>1, <3>1
  <2>6. Describes(h[k].gaps, N, Free(End(q[k])))
    <3> HIDE DEF Upto, Starts, Free
    <3> QED BY <2>2, <2>3, <2>4, <2>5
  <2>7. Upto(k) = End(q[k])
    BY <2>2
  <2> HIDE DEF Upto, Free
  <2> QED BY <2>2, <2>4, <2>6, <2>7
<1>8. n \in X
  <2>1. \A k \in 0 .. n : k \in X
    <3> HIDE DEF X
    <3> QED BY <1>1, <1>6, <1>7, Induction
  <2>2. n \in 0 .. n
    BY <1>1
  <2> HIDE DEF X
  <2> QED BY <2>1, <2>2
<1>9. n + 1 \in 1 .. n + 1 /\ (n + 1) - 1 = n /\ Starts(n + 1) = N
  BY <1>1
<1>10. h[n].free = Upto(n) /\ Describes(h[n].gaps, N, Free(Upto(n)))
  BY <1>8
<1>11. Describes(AddChunkRange(h[n].gaps, h[n].free, N - h[n].free), N, Free(N))
  <2> HIDE DEF Upto, Starts, Free
  <2> QED BY <1>5, <1>9, <1>10
<1> QED BY <1>2, <1>11

-----------------------------------------------------------------------------
(* The chunks that are loading are added one by one, in any order.         *)
LEMMA AddChunksResult ==
    ASSUME NEW N \in Nat, NEW S, NEW d, Describes(d, N, S), NEW L \in SUBSET (0 .. N - 1)
    PROVE  Describes(FoldSet(LAMBDA k, x : AddChunk(x, k), d, L), N, S \cup L)
<1> DEFINE V == Describing(N)
           c == [s \in SUBSET L |-> CHOOSE x \in s : TRUE]
           g == [k \in L |-> [v \in V |-> AddChunk(v, k)]]
           Is(f) == f = [s \in SUBSET L |-> IF s = {} THEN d
                                            ELSE AddChunk(f[s \ {CHOOSE x \in s : TRUE}], CHOOSE x \in s : TRUE)]
           iter == CHOOSE f : Is(f)
<1>1. IsFiniteSet(L) /\ \A s \in SUBSET L : IsFiniteSet(s) /\ Cardinality(s) \in Nat
                                            /\ Cardinality(s) <= Cardinality(L)
  <2>1. IsFiniteSet(0 .. N - 1)
    BY FS_Interval
  <2>2. IsFiniteSet(L)
    BY <2>1, FS_Subset
  <2> QED BY <2>2, FS_Subset, FS_CardinalityType
<1>2. \A s \in SUBSET L : s # {} => c[s] \in s
  OBVIOUS
<1>3. ASSUME NEW k \in L, NEW v \in V PROVE AddChunk(v, k) \in V
  <2>1. k \in Nat /\ 1 \in Int /\ k + 1 <= N
    OBVIOUS
  <2> QED BY <2>1, DescribingAdd DEF AddChunk
<1>4. PICK f \in [SUBSET L -> V] : \A s \in SUBSET L :
         f[s] = IF s = {} THEN d ELSE g[c[s]][f[s \ {c[s]}]]
  <2>1. \A k \in L, v \in V : g[k][v] \in V
    BY <1>3
  <2>2. d \in V
    BY DescribedRanges DEF Describing
  <2>3. HasFold(L, V, d, c, g)
    <3> HIDE DEF c, g, V
    <3> QED BY <1>1, <1>2, <2>1, <2>2, FoldExists
  <2> HIDE DEF c, g, V
  <2> QED BY <2>3 DEF HasFold
<1>5. Is(f)
  <2>1. ASSUME NEW s \in SUBSET L, s # {}
        PROVE  f[s] = AddChunk(f[s \ {CHOOSE x \in s : TRUE}], CHOOSE x \in s : TRUE)
    <3>1. c[s] = (CHOOSE x \in s : TRUE) /\ c[s] \in L /\ f[s \ {c[s]}] \in V
      BY <1>2, <2>1
    <3> QED BY <1>4, <2>1, <3>1
  <2> HIDE DEF c, g
  <2> QED BY <1>4, <2>1
<1>6. Is(iter)
  <2> HIDE DEF Is
  <2> QED BY <1>5
<1>7. FoldSet(LAMBDA k, x : AddChunk(x, k), d, L) = iter[L]
  BY DEF FoldSet, MapThenFoldSet
<1> HIDE DEF iter
<1> DEFINE X == {k \in Nat : \A s \in SUBSET L : Cardinality(s) = k => Describes(iter[s], N, S \cup s)}
<1>8. 0 \in X
  <2> SUFFICES ASSUME NEW s \in SUBSET L, Cardinality(s) = 0 PROVE Describes(iter[s], N, S \cup s)
    OBVIOUS
  <2>1. s = {}
    BY <1>1, FS_EmptySet
  <2>2. iter[s] = d /\ S \cup s = S
    BY <1>6, <2>1
  <2> QED BY <2>2
<1>9. ASSUME NEW k \in 1 .. Cardinality(L), k - 1 \in X PROVE k \in X
  <2>1. k \in Nat
    OBVIOUS
  <2>2. SUFFICES ASSUME NEW s \in SUBSET L, Cardinality(s) = k PROVE Describes(iter[s], N, S \cup s)
    BY <2>1
  <2> DEFINE x == CHOOSE x \in s : TRUE  t == s \ {x}
  <2>3. s # {} /\ x \in s /\ x \in Nat /\ x + 1 <= N
    <3>1. s # {}
      BY <1>1, <2>2, FS_EmptySet
    <3>2. x \in s
      BY <3>1
    <3>3. x \in 0 .. N - 1
      <4> HIDE DEF x
      <4> QED BY <3>2
    <3> HIDE DEF x
    <3> QED BY <3>1, <3>2, <3>3
  <2>4. Cardinality(t) = k - 1
    BY <1>1, <2>2, <2>3, FS_RemoveElement
  <2>5. Describes(iter[t], N, S \cup t)
    BY <1>9, <2>4
  <2>6. iter[s] = AddChunkRange(iter[t], x, 1)
    <3>1. iter[s] = AddChunk(iter[t], x)
      BY <1>6, <2>3
    <3> QED BY <3>1 DEF AddChunk
  <2>7. Describes(AddChunkRange(iter[t], x, 1), N, (S \cup t) \cup x .. x + 1 - 1)
    <3>1. 1 \in Nat \ {0}
      OBVIOUS
    <3> HIDE DEF x, t
    <3> QED BY <2>3, <2>5, <3>1, AddResult
  <2>8. (S \cup t) \cup x .. x + 1 - 1 = S \cup s
    <3> HIDE DEF x
    <3>1. x .. x + 1 - 1 = {x}
      BY <2>3
    <3> QED BY <2>3, <3>1 DEF t
  <2> HIDE DEF x, t
  <2> QED BY <2>6, <2>7, <2>8
<1>10. Cardinality(L) \in X
  <2>1. Cardinality(L) \in Nat /\ Cardinality(L) \in 0 .. Cardinality(L)
    BY <1>1
  <2> HIDE DEF X
  <2> QED BY <1>8, <1>9, <2>1, Induction
<1> QED BY <1>7, <1>10
-----------------------------------------------------------------------------
(* The number of the chunks below the ranges.                              *)
Below(S, a) == {x \in S : x < a}

(* What a range adds to the number of chunks below; a gap adds none.       *)
LEMMA BelowRanges ==
    ASSUME NEW N \in Nat, NEW S, NEW d, Describes(d, N, S)
    PROVE  LET q == d.ranges  count(a) == Cardinality(Below(S, a)) IN
           /\ \A a : count(a) \in Nat /\ count(a) <= Cardinality(S)
           /\ \A i \in DOMAIN q : count(End(q[i])) = count(q[i].start) + q[i].length
           /\ \A i, j \in DOMAIN q : i < j => count(End(q[i])) <= count(q[j].start)
           /\ \A i \in DOMAIN q : i + 1 \in DOMAIN q => count(q[i + 1].start) = count(End(q[i]))
           /\ 1 \in DOMAIN q => count(q[1].start) = 0
           /\ Len(q) \in DOMAIN q => count(End(q[Len(q)])) = Cardinality(S)
<1> DEFINE q == d.ranges  count(a) == Cardinality(Below(S, a))
<1>1. /\ q \in Seq(ChunkRange) /\ Len(q) \in Nat /\ DOMAIN q = 1 .. Len(q)
      /\ \A i, j \in DOMAIN q : i < j => End(q[i]) < q[j].start
      /\ Cover(q) = S /\ S \subseteq 0 .. N - 1 /\ IsFiniteSet(S)
      /\ \A i \in DOMAIN q :
            /\ q[i] \in ChunkRange
            /\ q[i].start \in Nat /\ End(q[i]) \in Nat /\ q[i].length \in Nat
            /\ q[i].start < End(q[i]) /\ End(q[i]) <= N
            /\ Span(q[i]) = q[i].start .. End(q[i]) - 1
  BY DescribedRanges, DescribedBounds
<1> HIDE DEF q
<1>2. ASSUME NEW a PROVE IsFiniteSet(Below(S, a)) /\ count(a) \in Nat /\ count(a) <= Cardinality(S)
  <2>1. Below(S, a) \in SUBSET S
    BY DEF Below
  <2> QED BY <1>1, <2>1, FS_Subset, FS_CardinalityType
<1>3. ASSUME NEW x \in S, NEW i \in DOMAIN q
      PROVE  x < q[i].start \/ x \in Span(q[i]) \/ (x >= End(q[i]) /\ \E j \in DOMAIN q : i < j /\ q[j].start <= x)
  <2>1. PICK j \in DOMAIN q : x \in Span(q[j])
    BY <1>1 DEF Cover
  <2>2. x \in q[j].start .. End(q[j]) - 1
    BY <1>1, <2>1
  <2>3. CASE j = i
    BY <2>1, <2>3
  <2>4. CASE j < i
    <3>1. End(q[j]) < q[i].start
      BY <1>1, <2>4
    <3> QED BY <1>1, <2>2, <3>1
  <2>5. CASE i < j
    <3>1. End(q[i]) < q[j].start
      BY <1>1, <2>5
    <3> QED BY <1>1, <2>2, <2>5, <3>1
  <2> QED BY <1>1, <2>3, <2>4, <2>5
<1>4. ASSUME NEW i \in DOMAIN q PROVE count(End(q[i])) = count(q[i].start) + q[i].length
  <2>1. IsFiniteSet(Span(q[i])) /\ Cardinality(Span(q[i])) = q[i].length
    BY <1>1, SpanCardinality
  <2>2. Span(q[i]) \subseteq S
    BY <1>1 DEF Cover
  <2>3. Below(S, End(q[i])) = Below(S, q[i].start) \cup Span(q[i])
    <3>1. ASSUME NEW x \in S, x < End(q[i]) PROVE x \in Below(S, q[i].start) \cup Span(q[i])
      BY <1>1, <1>3, <3>1 DEF Below
    <3>2. ASSUME NEW x \in S, x < q[i].start PROVE x < End(q[i])
      BY <1>1, <3>2
    <3>3. ASSUME NEW x \in Span(q[i]) PROVE x < End(q[i])
      BY <1>1
    <3> QED BY <2>2, <3>1, <3>2, <3>3 DEF Below
  <2>4. Below(S, q[i].start) \cap Span(q[i]) = {}
    BY <1>1 DEF Below
  <2>5. count(End(q[i])) = count(q[i].start) + q[i].length - Cardinality({})
    BY <1>2, <2>1, <2>3, <2>4, FS_Union
  <2> QED BY <1>1, <1>2, <2>5, FS_EmptySet
<1>5. ASSUME NEW i \in DOMAIN q, NEW j \in DOMAIN q, i < j
      PROVE  count(End(q[i])) <= count(q[j].start)
  <2>1. End(q[i]) < q[j].start
    BY <1>1, <1>5
  <2>2. Below(S, End(q[i])) \in SUBSET Below(S, q[j].start)
    <3>1. ASSUME NEW x \in S, x < End(q[i]) PROVE x < q[j].start
      <4>1. x \in Nat /\ End(q[i]) \in Nat /\ q[j].start \in Nat
        BY <1>1
      <4> QED BY <2>1, <3>1, <4>1
    <3> QED BY <3>1 DEF Below
  <2> QED BY <1>2, <2>2, FS_Subset
<1>6. ASSUME NEW i \in DOMAIN q, i + 1 \in DOMAIN q
      PROVE  count(q[i + 1].start) = count(End(q[i]))
  <2>1. End(q[i]) < q[i + 1].start
    BY <1>1, <1>6
  <2>2. ASSUME NEW x \in S, x < q[i + 1].start PROVE x < End(q[i])
    <3>1. CASE x < q[i].start
      BY <1>1, <3>1
    <3>2. CASE x \in Span(q[i])
      BY <1>1, <3>2
    <3>3. ASSUME NEW j \in DOMAIN q, i < j, q[j].start <= x PROVE FALSE
      <4>1. CASE j = i + 1
        BY <1>1, <2>2, <3>3, <4>1
      <4>2. CASE j > i + 1
        <5>1. End(q[i + 1]) < q[j].start
          BY <1>1, <1>6, <4>2
        <5>2. /\ x \in Nat /\ q[i + 1].start \in Nat /\ End(q[i + 1]) \in Nat /\ q[j].start \in Nat
              /\ q[i + 1].start < End(q[i + 1])
          BY <1>1, <1>6
        <5> QED BY <2>2, <3>3, <5>1, <5>2
      <4> QED BY <1>1, <3>3, <4>1, <4>2
    <3> QED BY <1>3, <3>1, <3>2, <3>3
  <2>3. Below(S, q[i + 1].start) = Below(S, End(q[i]))
    <3>1. ASSUME NEW x \in S, x < End(q[i]) PROVE x < q[i + 1].start
      <4>1. x \in Nat /\ End(q[i]) \in Nat /\ q[i + 1].start \in Nat
        BY <1>1, <1>6
      <4> QED BY <2>1, <3>1, <4>1
    <3> QED BY <2>2, <3>1 DEF Below
  <2> QED BY <2>3
<1>7. ASSUME 1 \in DOMAIN q PROVE count(q[1].start) = 0
  <2>1. ASSUME NEW x \in S, x < q[1].start PROVE FALSE
    <3>1. PICK j \in DOMAIN q : x \in Span(q[j])
      BY <1>1 DEF Cover
    <3>2. q[1].start <= q[j].start
      <4>1. CASE j = 1
        BY <1>1, <4>1
      <4>2. CASE 1 < j
        <5>1. End(q[1]) < q[j].start
          BY <1>1, <1>7, <4>2
        <5> QED BY <1>1, <1>7, <5>1
      <4> QED BY <1>1, <4>1, <4>2
    <3> QED BY <1>1, <1>7, <2>1, <3>1, <3>2
  <2>2. Below(S, q[1].start) = {}
    BY <2>1 DEF Below
  <2> QED BY <2>2, FS_EmptySet
<1>8. ASSUME Len(q) \in DOMAIN q PROVE count(End(q[Len(q)])) = Cardinality(S)
  <2>1. ASSUME NEW x \in S PROVE x < End(q[Len(q)])
    <3>1. CASE x < q[Len(q)].start
      BY <1>1, <1>8, <3>1
    <3>2. CASE x \in Span(q[Len(q)])
      BY <1>1, <1>8, <3>2
    <3>3. ~\E j \in DOMAIN q : Len(q) < j
      BY <1>1
    <3> QED BY <1>3, <1>8, <3>1, <3>2, <3>3
  <2>2. Below(S, End(q[Len(q)])) = S
    BY <2>1 DEF Below
  <2> QED BY <2>2
<1> QED BY <1>2, <1>4, <1>5, <1>6, <1>7, <1>8 DEF q

(* The number of the chunks in the ranges before one.                      *)
Before(q, i) == FoldLeft(LAMBDA x, range : x + range.length, 0, SubSeq(q, 1, i - 1))

(* The lengths are added one range after the other.                        *)
LEMMA LengthSteps ==
    ASSUME NEW q \in Seq(ChunkRange)
    PROVE  \E h : /\ h[0] = 0
                  /\ \A k \in 1 .. Len(q) : h[k] = h[k - 1] + q[k].length
                  /\ FoldLeft(LAMBDA x, range : x + range.length, 0, q) = h[Len(q)]
<1> DEFINE n == Len(q)
           D == 1 .. n
           Op(v, x) == v + q[x].length
           c == [s \in SUBSET D |-> Max(s)]
           g == [x \in D |-> [v \in Nat |-> Op(v, x)]]
           Is(f) == f = [s \in SUBSET D |-> IF s = {} THEN 0 ELSE Op(f[s \ {Max(s)}], Max(s))]
           iter == CHOOSE f : Is(f)
           h == [k \in 0 .. n |-> iter[1 .. k]]
<1>1. n \in Nat /\ DOMAIN q = D
  OBVIOUS
<1>2. IsFiniteSet(D) /\ \A s \in SUBSET D : s # {} => c[s] \in s
  BY <1>1, Segments
<1>3. ASSUME NEW x \in D, NEW v \in Nat PROVE Op(v, x) \in Nat
  <2>1. q[x] \in ChunkRange
    BY <1>1
  <2>2. q[x].length \in Nat
    BY <2>1, RangeType
  <2> QED BY <2>2
<1>4. PICK f \in [SUBSET D -> Nat] : \A s \in SUBSET D :
         f[s] = IF s = {} THEN 0 ELSE g[c[s]][f[s \ {c[s]}]]
  <2>1. \A x \in D, v \in Nat : g[x][v] \in Nat
    BY <1>3
  <2>2. 0 \in Nat
    OBVIOUS
  <2>3. HasFold(D, Nat, 0, c, g)
    <3> HIDE DEF D, c, g
    <3> QED BY <1>2, <2>1, <2>2, FoldExists
  <2> HIDE DEF D, c, g
  <2> QED BY <2>3 DEF HasFold
<1>5. Is(f)
  <2>1. ASSUME NEW s \in SUBSET D, s # {} PROVE f[s] = Op(f[s \ {Max(s)}], Max(s))
    <3>1. c[s] = Max(s) /\ c[s] \in D /\ f[s \ {Max(s)}] \in Nat
      BY <1>2, <2>1
    <3> HIDE DEF Op
    <3> QED BY <1>4, <2>1, <3>1
  <2> HIDE DEF D, c, g, Op
  <2> QED BY <1>4, <2>1
<1>6. Is(iter)
  <2> HIDE DEF Is
  <2> QED BY <1>5
<1>7. FoldLeft(LAMBDA x, range : x + range.length, 0, q) = iter[D]
  BY <1>1 DEF FoldLeft, MapThenFoldSet
<1> HIDE DEF iter
<1>8. h[0] = 0
  BY <1>1, <1>6, Segments
<1>9. ASSUME NEW k \in 1 .. n PROVE h[k] = Op(h[k - 1], k)
  <2>1. /\ 1 .. k \in SUBSET D /\ 1 .. k # {} /\ Max(1 .. k) = k
        /\ (1 .. k) \ {Max(1 .. k)} = 1 .. k - 1
    BY <1>1, Segments
  <2>2. iter[1 .. k] = Op(iter[1 .. k - 1], k)
    <3> HIDE DEF Op, D
    <3> QED BY <1>6, <2>1
  <2> HIDE DEF Op
  <2> QED BY <1>1, <2>2
<1>10. h[n] = iter[D]
  BY <1>1
<1> HIDE DEF h
<1> QED BY <1>7, <1>8, <1>9, <1>10

(* The lengths of the ranges before one add up to the chunks below it.     *)
LEMMA BeforeCount ==
    ASSUME NEW N \in Nat, NEW S, NEW d, Describes(d, N, S), NEW i \in DOMAIN d.ranges
    PROVE  Before(d.ranges, i) = Cardinality(Below(S, d.ranges[i].start))
<1> DEFINE q == d.ranges  n == Len(q)  p == SubSeq(q, 1, i - 1)
           count(a) == Cardinality(Below(S, a))
<1>1. /\ q \in Seq(ChunkRange) /\ n \in Nat /\ DOMAIN q = 1 .. n
      /\ \A j \in DOMAIN q : count(End(q[j])) = count(q[j].start) + q[j].length
      /\ \A j \in DOMAIN q : j + 1 \in DOMAIN q => count(q[j + 1].start) = count(End(q[j]))
      /\ 1 \in DOMAIN q => count(q[1].start) = 0
  BY DescribedRanges, BelowRanges
<1>2. i \in 1 .. n
  BY <1>1
<1> HIDE DEF q, n, count
<1>3. p \in Seq(ChunkRange) /\ Len(p) = i - 1 /\ \A j \in 1 .. i - 1 : p[j] = q[j]
  <2>1. i - 1 \in Nat /\ i - 1 <= Len(q)
    BY <1>1, <1>2 DEF n
  <2> QED BY <1>1, <2>1
<1> HIDE DEF p
<1>4. PICK h : /\ h[0] = 0
               /\ \A k \in 1 .. i - 1 : h[k] = h[k - 1] + p[k].length
               /\ FoldLeft(LAMBDA x, range : x + range.length, 0, p) = h[i - 1]
  BY <1>3, LengthSteps
<1> DEFINE X == {k \in Nat : h[k] = count(q[k + 1].start)}
<1>5. 0 \in X
  <2>1. 1 \in DOMAIN q /\ 0 + 1 = 1
    BY <1>1, <1>2
  <2> QED BY <1>1, <1>4, <2>1
<1>6. ASSUME NEW k \in 1 .. i - 1, k - 1 \in X PROVE k \in X
  <2>1. k \in DOMAIN q /\ k + 1 \in DOMAIN q /\ k - 1 + 1 = k /\ k \in Nat
    BY <1>1, <1>2
  <2>2. h[k - 1] = count(q[k].start)
    BY <1>6, <2>1
  <2>3. h[k] = h[k - 1] + q[k].length
    BY <1>3, <1>4
  <2>4. count(End(q[k])) = count(q[k].start) + q[k].length
    BY <1>1, <2>1
  <2>5. count(q[k + 1].start) = count(End(q[k]))
    BY <1>1, <2>1
  <2> QED BY <2>1, <2>2, <2>3, <2>4, <2>5
<1>7. i - 1 \in X
  <2>1. i - 1 \in Nat /\ i - 1 \in 0 .. i - 1
    BY <1>1, <1>2
  <2> HIDE DEF X
  <2> QED BY <1>5, <1>6, <2>1, Induction
<1>8. h[i - 1] = count(q[i].start)
  BY <1>2, <1>7
<1> QED BY <1>4, <1>8 DEF Before, p, q, count

(* The range in which getPresentChunk finds a number.                      *)
LEMMA PresentChunk ==
    ASSUME NEW N \in Nat, NEW S, NEW d, Describes(d, N, S), NEW i \in DOMAIN d.ranges, NEW nr \in Nat,
           LET count == Cardinality(Below(S, d.ranges[i].start))
           IN  count <= nr /\ nr < count + d.ranges[i].length
    PROVE  getPresentChunk(d, nr) = d.ranges[i].start + nr - Cardinality(Below(S, d.ranges[i].start))
<1> DEFINE q == d.ranges  n == Len(q)
           count(a) == Cardinality(Below(S, a))
           J == {j \in DOMAIN q : Before(q, j) <= nr}
<1>1. /\ n \in Nat /\ DOMAIN q = 1 .. n
      /\ \A a : count(a) \in Nat
      /\ \A j \in DOMAIN q : count(End(q[j])) = count(q[j].start) + q[j].length
      /\ \A j, k \in DOMAIN q : j < k => count(End(q[j])) <= count(q[k].start)
      /\ \A j \in DOMAIN q : Before(q, j) = count(q[j].start)
      /\ i \in DOMAIN q /\ count(q[i].start) <= nr /\ nr < count(q[i].start) + q[i].length
  BY DescribedRanges, BelowRanges, BeforeCount
<1>2. getPresentChunk(d, nr) = q[Max(J)].start + nr - Before(q, Max(J))
  BY DEF getPresentChunk, Before
<1> HIDE DEF q, n, count
<1>3. i \in J /\ J \in SUBSET (0 .. n)
  BY <1>1
<1>4. Max(J) \in J /\ i <= Max(J)
  <2> HIDE DEF J
  <2> QED BY <1>1, <1>3, GreatestNumber
<1> DEFINE m == Max(J)
<1> HIDE DEF m
<1>5. m \in DOMAIN q /\ i <= m /\ count(q[m].start) <= nr
  <2>1. m \in DOMAIN q /\ i <= m /\ Before(q, m) <= nr
    <3> HIDE DEF J
    <3>1. m \in J /\ i <= m
      BY <1>4 DEF m
    <3> QED BY <3>1 DEF J
  <2> QED BY <1>1, <2>1
<1>6. ~(i < m)
  <2> SUFFICES ASSUME i < m PROVE FALSE
    OBVIOUS
  <2>1. count(End(q[i])) <= count(q[m].start)
    BY <1>1, <1>5
  <2>2. count(End(q[i])) > nr
    BY <1>1
  <2>3. count(End(q[i])) \in Nat /\ count(q[m].start) \in Nat
    BY <1>1
  <2> QED BY <1>5, <2>1, <2>2, <2>3
<1>7. m = i
  BY <1>1, <1>5, <1>6
<1>8. Max(J) = i /\ Before(q, i) = count(q[i].start)
  BY <1>1, <1>7 DEF m
<1> HIDE DEF J
<1>9. getPresentChunk(d, nr) = q[i].start + nr - count(q[i].start)
  BY <1>2, <1>8
<1> QED BY <1>9 DEF q, count

(* getPresentChunk finds the chunks of the set and no others.              *)
LEMMA PresentChunks ==
    ASSUME NEW N \in Nat, NEW S, NEW d, Describes(d, N, S)
    PROVE  {getPresentChunk(d, nr) : nr \in 0 .. d.present - 1} = S
<1> DEFINE q == d.ranges  n == Len(q)
           count(a) == Cardinality(Below(S, a))
           first(i) == count(q[i].start)
<1>1. /\ n \in Nat /\ DOMAIN q = 1 .. n
      /\ \A a : count(a) \in Nat
      /\ \A i \in DOMAIN q : count(End(q[i])) = count(q[i].start) + q[i].length
      /\ \A i \in DOMAIN q : i + 1 \in DOMAIN q => count(q[i + 1].start) = count(End(q[i]))
      /\ 1 \in DOMAIN q => count(q[1].start) = 0
      /\ n \in DOMAIN q => count(End(q[n])) = Cardinality(S)
      /\ \A a : count(a) <= Cardinality(S)
  BY DescribedRanges, BelowRanges
<1>2. \A i \in DOMAIN q :
         /\ q[i].start \in Nat /\ q[i].length \in Nat /\ End(q[i]) = q[i].start + q[i].length
         /\ Span(q[i]) = q[i].start .. End(q[i]) - 1 /\ Span(q[i]) \subseteq S
  BY DescribedBounds, DescribedRanges
<1>3. \A x \in S : \E i \in DOMAIN q : x \in Span(q[i])
  BY DescribedRanges DEF Cover
<1>4. d.present = Cardinality(S) /\ Cardinality(S) \in Nat
  BY DescribedRanges
<1>5. \A i \in DOMAIN q, nr \in Nat :
         first(i) <= nr /\ nr < first(i) + q[i].length
         => getPresentChunk(d, nr) = q[i].start + nr - first(i)
  BY PresentChunk
<1> HIDE DEF q, n, count
<1>6. \A i \in DOMAIN q : first(i) \in Nat
  BY <1>1
<1>7. ASSUME NEW nr \in 0 .. d.present - 1 PROVE getPresentChunk(d, nr) \in S
  <2> DEFINE J == {j \in DOMAIN q : first(j) <= nr}
  <2>1. 1 \in DOMAIN q
    <3>1. S # {}
      BY <1>4, <1>7, FS_EmptySet
    <3>2. DOMAIN q # {}
      BY <1>3, <3>1
    <3> QED BY <1>1, <3>2
  <2>2. 1 \in J /\ J \in SUBSET (0 .. n)
    <3>1. first(1) = 0
      BY <1>1, <2>1
    <3> HIDE DEF first
    <3> QED BY <1>1, <1>4, <2>1, <3>1
  <2>3. PICK i \in J : \A j \in J : j <= i
    <3> HIDE DEF J
    <3> QED BY <1>1, <2>2, GreatestNumber
  <2>4. nr < count(End(q[i]))
    <3>1. CASE i = n
      BY <1>1, <1>4, <3>1
    <3>2. CASE i # n
      <4>1. i + 1 \in DOMAIN q /\ i + 1 \notin J
        BY <1>1, <2>3, <3>2
      <4>2. ~(first(i + 1) <= nr) /\ first(i + 1) \in Nat
        <5> HIDE DEF first
        <5> QED BY <1>6, <4>1
      <4>3. first(i + 1) = count(End(q[i]))
        BY <1>1, <4>1
      <4> HIDE DEF first
      <4> QED BY <1>4, <4>2, <4>3
    <3> QED BY <3>1, <3>2
  <2>5. i \in DOMAIN q /\ first(i) <= nr /\ nr < first(i) + q[i].length
    BY <1>1, <2>4
  <2> HIDE DEF J, first
  <2>6. getPresentChunk(d, nr) = q[i].start + nr - first(i)
    BY <1>4, <1>5, <2>5
  <2>7. q[i].start + nr - first(i) \in Span(q[i])
    BY <1>2, <1>4, <1>6, <2>5
  <2> QED BY <1>2, <2>5, <2>6, <2>7
<1>8. ASSUME NEW x \in S PROVE \E nr \in 0 .. d.present - 1 : getPresentChunk(d, nr) = x
  <2>1. PICK i \in DOMAIN q : x \in Span(q[i])
    BY <1>3
  <2> DEFINE nr == first(i) + (x - q[i].start)
  <2>2. x \in Int /\ q[i].start <= x /\ x < q[i].start + q[i].length
    BY <1>2, <2>1
  <2>3. first(i) + q[i].length <= Cardinality(S)
    BY <1>1, <2>1
  <2> HIDE DEF first
  <2>4. nr \in Nat /\ first(i) <= nr /\ nr < first(i) + q[i].length /\ x = q[i].start + (nr - first(i))
    BY <1>2, <1>6, <2>2
  <2> HIDE DEF nr
  <2>5. getPresentChunk(d, nr) = x
    BY <1>5, <2>4
  <2>6. nr \in 0 .. d.present - 1
    BY <1>2, <1>4, <1>6, <2>3, <2>4
  <2> QED BY <2>5, <2>6
<1> HIDE DEF first
<1> QED BY <1>7, <1>8

-----------------------------------------------------------------------------
(* Which chunks can be retrieved.                                          *)
LEMMA CompleteResult ==
    ASSUME NEW N \in Nat, NEW S, NEW d, Describes(d, N, S)
    PROVE  isComplete(d) <=> S = 0 .. N - 1
<1>1. /\ d.count = N /\ d.present = Cardinality(S) /\ S \subseteq 0 .. N - 1
  BY DescribedRanges DEF ChunkData
<1>2. IsFiniteSet(0 .. N - 1) /\ Cardinality(0 .. N - 1) = N
  <2>1. 0 \in Int /\ N - 1 \in Int
    OBVIOUS
  <2>2. IsFiniteSet(0 .. N - 1) /\ Cardinality(0 .. N - 1) = IF 0 > N - 1 THEN 0 ELSE N - 1 - 0 + 1
    BY <2>1, FS_Interval
  <2> QED BY <2>2
<1>3. Cardinality(S) = N => S = 0 .. N - 1
  BY <1>1, <1>2, FS_Subset
<1> QED BY <1>1, <1>2, <1>3 DEF isComplete

(* GetChunkToRetrieve chooses from what the other client has and           *)
(* this one neither has nor loads.                                         *)
LEMMA RetrieveResult ==
    ASSUME NEW N \in Nat, NEW S, NEW d, Describes(d, N, S), NEW T, NEW e, Describes(e, N, T),
           NEW L \in SUBSET (0 .. N - 1)
    PROVE  ChunksToRetrieve(d, e, L) = T \ (S \cup L)
<1> DEFINE rest == FoldSet(LAMBDA k, x : AddChunk(x, k), Merge(GetNegative(e), d), L)
           missing == GetNegative(rest)
           R == (((0 .. N - 1) \ T) \cup S) \cup L
<1>1. ChunksToRetrieve(d, e, L) =
         IF isComplete(rest) THEN {} ELSE {getPresentChunk(missing, nr) : nr \in 0 .. missing.present - 1}
  BY DEF ChunksToRetrieve
<1>2. Describes(GetNegative(e), N, (0 .. N - 1) \ T)
  BY GetNegativeResult
<1>3. Describes(Merge(GetNegative(e), d), N, ((0 .. N - 1) \ T) \cup S)
  BY <1>2, MergeResult
<1>4. Describes(rest, N, R)
  BY <1>3, AddChunksResult
<1> HIDE DEF rest
<1>5. Describes(missing, N, (0 .. N - 1) \ R)
  BY <1>4, GetNegativeResult
<1> HIDE DEF missing
<1>6. {getPresentChunk(missing, nr) : nr \in 0 .. missing.present - 1} = (0 .. N - 1) \ R
  BY <1>5, PresentChunks
<1>7. isComplete(rest) <=> R = 0 .. N - 1
  BY <1>4, CompleteResult
<1>8. (0 .. N - 1) \ R = T \ (S \cup L)
  BY DEF Describes
<1> HIDE DEF R
<1> QED BY <1>1, <1>6, <1>7, <1>8

(* The ranges of a set: the rank of their starts is one to one.            *)
LEMMA Ranked ==
    ASSUME NEW F \in SUBSET Nat, IsFiniteSet(F)
    PROVE  LET rank(k) == Cardinality({j \in F : j <= k})
               c == Cardinality(F)
           IN  /\ c \in Nat
               /\ \A k \in F : rank(k) \in 1 .. c
               /\ \A k, m \in F : k < m => rank(k) < rank(m)
               /\ \A i \in 1 .. c : \E k \in F : rank(k) = i
<1> DEFINE upTo(k) == {j \in F : j <= k}
           rank(k) == Cardinality(upTo(k))
           c == Cardinality(F)
<1>1. c \in Nat
  BY FS_CardinalityType
<1>2. ASSUME NEW k \in F PROVE IsFiniteSet(upTo(k)) /\ rank(k) \in Nat /\ rank(k) <= c /\ k \in upTo(k)
  <2>1. upTo(k) \in SUBSET F /\ k \in upTo(k)
    OBVIOUS
  <2> HIDE DEF upTo
  <2> QED BY <2>1, FS_Subset, FS_CardinalityType
<1>3. ASSUME NEW k \in F PROVE rank(k) # 0
  <2> HIDE DEF upTo
  <2> QED BY <1>2, FS_EmptySet
<1>4. ASSUME NEW k \in F, NEW m \in F, k < m PROVE rank(k) < rank(m)
  <2>1. upTo(k) \in SUBSET upTo(m)
    <3> SUFFICES ASSUME NEW j \in F, j <= k PROVE j <= m
      OBVIOUS
    <3>1. j \in Nat /\ k \in Nat /\ m \in Nat
      OBVIOUS
    <3> QED BY <1>4, <3>1
  <2>2. m \notin upTo(k) /\ m \in upTo(m)
    <3>1. k \in Nat /\ m \in Nat
      OBVIOUS
    <3> QED BY <1>4, <3>1
  <2> HIDE DEF upTo
  <2>3. upTo(k) # upTo(m)
    BY <2>2
  <2> QED BY <1>2, <2>1, <2>3, FS_Subset
<1>5. ASSUME NEW k \in F PROVE rank(k) \in 1 .. c
  <2>1. rank(k) \in Nat /\ rank(k) <= c /\ rank(k) # 0
    BY <1>2, <1>3
  <2> HIDE DEF rank, c
  <2> QED BY <1>1, <2>1
<1> DEFINE f == [k \in F |-> rank(k)]
<1>6. f \in Injection(F, 1 .. c)
  <2>1. f \in [F -> 1 .. c]
    <3> HIDE DEF rank, c
    <3> QED BY <1>5
  <2>2. ASSUME NEW k \in F, NEW m \in F, rank(k) = rank(m) PROVE k = m
    <3>1. k \in Nat /\ m \in Nat /\ rank(k) \in Nat /\ rank(m) \in Nat
      BY <1>2
    <3>2. ~(k < m) /\ ~(m < k)
      <4> HIDE DEF rank
      <4> QED BY <1>4, <2>2, <3>1
    <3> QED BY <3>1, <3>2
  <2>3. \A a, b \in F : f[a] = f[b] => a = b
    <3> HIDE DEF rank
    <3> QED BY <2>2
  <2> HIDE DEF f, c
  <2> QED BY <2>1, <2>3 DEF Injection, IsInjective
<1>7. f \in Surjection(F, 1 .. c)
  <2>1. IsFiniteSet(1 .. c) /\ Cardinality(1 .. c) = c
    <3> HIDE DEF c
    <3> QED BY <1>1, FS_Interval
  <2>2. Cardinality(F) = Cardinality(1 .. c)
    BY <2>1
  <2> HIDE DEF f, c
  <2> QED BY <1>6, <2>1, <2>2, FS_Injection
<1>8. \A i \in 1 .. c : \E k \in F : rank(k) = i
  <2>1. \A i \in 1 .. c : \E k \in F : f[k] = i
    <3> HIDE DEF f, c
    <3> QED BY <1>7 DEF Surjection
  <2> HIDE DEF rank, c
  <2> QED BY <2>1
<1> QED BY <1>1, <1>4, <1>8, <1>5

(* RangesOf describes the set it is given.                                 *)
LEMMA RangesOfResult ==
    ASSUME NEW N \in Nat, NEW S \in SUBSET (0 .. N - 1)
    PROVE  Describes(RangesOf(N, S), N, S)
<1> DEFINE F == {k \in S : k - 1 \notin S}
           Rank(k) == Cardinality({j \in F : j <= k})
           Start(i) == CHOOSE k \in F : Rank(k) = i
           Free(k) == {i \in 1 .. N : k + i \notin S}
           Length(k) == Min(Free(k))
           c == Cardinality(F)
           q == [i \in 1 .. c |-> [start |-> Start(i), length |-> Length(Start(i))]]
<1>1. RangesOf(N, S) = [count |-> N, present |-> Cardinality(S), ranges |-> q]
  BY DEF RangesOf
<1>2. IsFiniteSet(S) /\ Cardinality(S) \in Nat /\ F \in SUBSET S /\ F \in SUBSET Nat /\ IsFiniteSet(F)
  <2>1. IsFiniteSet(0 .. N - 1)
    BY FS_Interval
  <2>2. IsFiniteSet(S) /\ Cardinality(S) \in Nat
    BY <2>1, FS_Subset, FS_CardinalityType
  <2>3. F \in SUBSET S
    OBVIOUS
  <2>4. S \in SUBSET Nat
    OBVIOUS
  <2>5. F \in SUBSET Nat
    BY <2>3, <2>4
  <2> HIDE DEF F
  <2> QED BY <2>2, <2>3, <2>5, FS_Subset
<1>3. /\ c \in Nat
      /\ \A k \in F : Rank(k) \in 1 .. c
      /\ \A k, m \in F : k < m => Rank(k) < Rank(m)
      /\ \A i \in 1 .. c : \E k \in F : Rank(k) = i
  <2> HIDE DEF F
  <2> QED BY <1>2, Ranked
<1>4. ASSUME NEW k \in F
      PROVE  /\ k \in Nat /\ Length(k) \in Nat \ {0}
             /\ k + Length(k) \notin S
             /\ \A x \in k .. k + Length(k) - 1 : x \in S
  <2>1. k \in S /\ k \in Nat /\ k < N
    <3>1. k \in S /\ k \in 0 .. N - 1
      OBVIOUS
    <3> QED BY <3>1
  <2>2. Free(k) # {} /\ Free(k) \in SUBSET Nat
    <3>1. N - k \in 1 .. N /\ k + (N - k) = N
      BY <2>1
    <3>2. N \notin S
      OBVIOUS
    <3>3. N - k \in Free(k)
      BY <3>1, <3>2
    <3> QED BY <3>3
  <2>3. \E x \in Free(k) : \A y \in Free(k) : x <= y
    <3> HIDE DEF Free
    <3> QED BY <2>2, LeastNumber
  <2>4. Length(k) \in Free(k) /\ \A y \in Free(k) : Length(k) <= y
    <3> HIDE DEF Free
    <3> QED BY <2>3 DEF Min
  <2> DEFINE l == Length(k)
  <2>5. l \in 1 .. N /\ k + l \notin S
    <3> HIDE DEF l
    <3>1. l \in Free(k)
      BY <2>4 DEF l
    <3> QED BY <3>1
  <2>6. ASSUME NEW x \in k .. k + l - 1 PROVE x \in S
    <3>1. CASE x = k
      BY <2>1, <3>1
    <3>2. CASE x # k
      <4> HIDE DEF l
      <4>1. x - k \in 1 .. N /\ ~(l <= x - k) /\ k + (x - k) = x
        BY <2>1, <2>5, <3>2
      <4>2. x - k \notin Free(k)
        <5> HIDE DEF Free
        <5> QED BY <2>4, <4>1 DEF l
      <4> QED BY <4>1, <4>2
    <3> QED BY <3>1, <3>2
  <2> HIDE DEF l
  <2>7. l \in Nat \ {0}
    BY <2>5
  <2> QED BY <2>1, <2>5, <2>6, <2>7 DEF l
<1>5. ASSUME NEW i \in 1 .. c PROVE Start(i) \in F /\ Rank(Start(i)) = i
  <2> HIDE DEF F, Rank, c
  <2> QED BY <1>3
<1>6. ASSUME NEW k \in F PROVE Rank(k) \in 1 .. c /\ Start(Rank(k)) = k
  <2> HIDE DEF Rank, c, Start, F
  <2>1. Rank(k) \in 1 .. c
    BY <1>3
  <2> DEFINE m == Start(Rank(k))
  <2>2. m \in F /\ Rank(m) = Rank(k)
    BY <1>5, <2>1
  <2> HIDE DEF m
  <2>3. k \in Nat /\ m \in Nat /\ Rank(k) \in Int /\ Rank(m) \in Int
    BY <1>2, <1>3, <2>1, <2>2
  <2>4. ~(k < m) /\ ~(m < k)
    BY <1>3, <2>2, <2>3
  <2>5. m = k
    BY <2>3, <2>4
  <2> QED BY <2>1, <2>5 DEF m
<1> HIDE DEF Length, Start, c
<1>7. q \in Seq(ChunkRange) /\ Len(q) = c /\ DOMAIN q = 1 .. c
  <2>1. ASSUME NEW i \in 1 .. c PROVE q[i] \in ChunkRange
    <3>1. Start(i) \in Nat /\ Length(Start(i)) \in Nat \ {0}
      <4> HIDE DEF F
      <4> QED BY <1>4, <1>5
    <3> QED BY <3>1 DEF ChunkRange
  <2>2. q \in [1 .. c -> ChunkRange]
    BY <2>1
  <2> HIDE DEF q
  <2> QED BY <1>3, <2>2
<1>8. ASSUME NEW i \in 1 .. c
      PROVE  /\ q[i].start = Start(i) /\ q[i].length = Length(Start(i))
             /\ End(q[i]) = Start(i) + Length(Start(i))
             /\ Span(q[i]) = Start(i) .. Start(i) + Length(Start(i)) - 1
  <2>1. q[i].start = Start(i) /\ q[i].length = Length(Start(i))
    OBVIOUS
  <2>2. Start(i) \in Nat /\ Length(Start(i)) \in Nat
    <3> HIDE DEF F
    <3> QED BY <1>4, <1>5
  <2> HIDE DEF q
  <2> QED BY <2>1, <2>2 DEF End, Span
<1> HIDE DEF q
<1>9. ASSUME NEW i \in 1 .. Len(q) - 1 PROVE Apart(q, i)
  <2>1. i \in 1 .. c /\ i + 1 \in 1 .. c /\ i < i + 1
    BY <1>3, <1>7
  <2> DEFINE s == Start(i)  t == Start(i + 1)  l == Length(s)
  <2>2. s \in F /\ t \in F /\ Rank(s) = i /\ Rank(t) = i + 1
    BY <1>5, <2>1
  <2>3. End(q[i]) = s + l /\ q[i + 1].start = t
    BY <1>8, <2>1
  <2> HIDE DEF s, t, l
  <2>4. s \in Nat /\ t \in Nat /\ l \in Nat /\ s + l \notin S /\ \A x \in s .. s + l - 1 : x \in S
    <3> HIDE DEF F
    <3> QED BY <1>4, <2>2 DEF l
  <2>5. s < t
    <3>1. ~(t < s) /\ t # s
      <4> HIDE DEF F, Rank
      <4> QED BY <1>3, <2>1, <2>2
    <3> QED BY <2>4, <3>1
  <2>6. t \in S /\ t - 1 \notin S
    BY <2>2
  <2>7. ~(t - 1 \in s .. s + l - 1)
    BY <2>4, <2>6
  <2>8. t # s + l
    BY <2>4, <2>6
  <2>9. s + l < t
    BY <2>4, <2>5, <2>7, <2>8
  <2> QED BY <2>3, <2>9 DEF Apart
<1>10. ASSUME NEW x \in S PROVE x \in Cover(q)
  <2>1. x \in Nat
    OBVIOUS
  <2> DEFINE T == {m \in 0 .. x : \A y \in m .. x : y \in S}
  <2>2. x \in T /\ T \in SUBSET Nat
    <3>1. \A y \in x .. x : y \in S
      <4>1. \A y \in x .. x : y = x
        BY <2>1
      <4> QED BY <4>1
    <3> QED BY <2>1, <3>1
  <2>3. PICK k \in T : \A m \in T : k <= m
    <3> HIDE DEF T
    <3> QED BY <2>2, LeastNumber
  <2>4. k \in 0 .. x /\ \A y \in k .. x : y \in S
    BY <2>3
  <2>5. k \in F
    <3>1. k \in S
      BY <2>1, <2>4
    <3>2. ASSUME k - 1 \in S PROVE FALSE
      <4>1. k - 1 \in Nat
        BY <3>2
      <4>2. \A y \in k - 1 .. x : y \in S
        <5> SUFFICES ASSUME NEW y \in k - 1 .. x PROVE y \in S
          OBVIOUS
        <5>1. y = k - 1 \/ y \in k .. x
          BY <2>1, <2>4
        <5> QED BY <2>4, <3>2, <5>1
      <4>3. k - 1 \in 0 .. x
        BY <2>1, <2>4, <4>1
      <4>4. k - 1 \in T
        BY <4>2, <4>3
      <4>5. k <= k - 1
        BY <2>3, <4>4
      <4> QED BY <4>1, <4>5
    <3> QED BY <3>1, <3>2
  <2> DEFINE i == Rank(k)
  <2>6. i \in 1 .. c /\ Start(i) = k
    <3> HIDE DEF F, Rank
    <3> QED BY <1>6, <2>5
  <2> HIDE DEF i
  <2>7. Length(k) \in Nat /\ k + Length(k) \notin S
    <3> HIDE DEF F
    <3> QED BY <1>4, <2>5
  <2>8. ~(k + Length(k) \in k .. x)
    BY <2>4, <2>7
  <2>9. x \in k .. k + Length(k) - 1
    BY <2>1, <2>4, <2>7, <2>8
  <2>10. x \in Span(q[i])
    BY <1>8, <2>6, <2>9
  <2> QED BY <1>7, <2>6, <2>10 DEF Cover
<1>11. ASSUME NEW x \in Cover(q) PROVE x \in S
  <2>1. PICK i \in 1 .. c : x \in Span(q[i])
    BY <1>7 DEF Cover
  <2>2. Start(i) \in F /\ x \in Start(i) .. Start(i) + Length(Start(i)) - 1
    BY <1>5, <1>8, <2>1
  <2> HIDE DEF F
  <2> QED BY <1>4, <2>2
<1>12. Cover(q) = S
  BY <1>10, <1>11
<1> QED BY <1>1, <1>2, <1>7, <1>9, <1>12 DEF Describes, ChunkData

(* The operations on the ranges of sets give the ranges of sets.           *)
LEMMA RangesAsSets ==
    ASSUME NEW N \in Nat, NEW S \in SUBSET (0 .. N - 1)
    PROVE  /\ \A k \in 0 .. N - 1 : \A i \in 1 .. N - k :
                 AddChunkRange(RangesOf(N, S), k, i) = RangesOf(N, S \cup k .. k + i - 1)
           /\ GetNegative(RangesOf(N, S)) = RangesOf(N, (0 .. N - 1) \ S)
           /\ isComplete(RangesOf(N, S)) <=> S = 0 .. N - 1
           /\ \A T, L \in SUBSET (0 .. N - 1) :
                 ChunksToRetrieve(RangesOf(N, S), RangesOf(N, T), L) = T \ (S \cup L)
<1>1. Describes(RangesOf(N, S), N, S)
  BY RangesOfResult
<1>2. ASSUME NEW k \in 0 .. N - 1, NEW i \in 1 .. N - k
      PROVE  AddChunkRange(RangesOf(N, S), k, i) = RangesOf(N, S \cup k .. k + i - 1)
  <2>1. k \in Nat /\ i \in Nat \ {0} /\ k + i <= N
    OBVIOUS
  <2>2. Describes(AddChunkRange(RangesOf(N, S), k, i), N, S \cup k .. k + i - 1)
    BY <1>1, <2>1, AddResult
  <2>3. S \cup k .. k + i - 1 \in SUBSET (0 .. N - 1)
    BY <2>1
  <2>4. Describes(RangesOf(N, S \cup k .. k + i - 1), N, S \cup k .. k + i - 1)
    BY <2>3, RangesOfResult
  <2> QED BY <2>2, <2>4, SameData
<1>3. GetNegative(RangesOf(N, S)) = RangesOf(N, (0 .. N - 1) \ S)
  <2>1. Describes(GetNegative(RangesOf(N, S)), N, (0 .. N - 1) \ S)
    BY <1>1, GetNegativeResult
  <2>2. (0 .. N - 1) \ S \in SUBSET (0 .. N - 1)
    OBVIOUS
  <2>3. Describes(RangesOf(N, (0 .. N - 1) \ S), N, (0 .. N - 1) \ S)
    BY <2>2, RangesOfResult
  <2> QED BY <2>1, <2>3, SameData
<1>4. isComplete(RangesOf(N, S)) <=> S = 0 .. N - 1
  BY <1>1, CompleteResult
<1>5. ASSUME NEW T \in SUBSET (0 .. N - 1), NEW L \in SUBSET (0 .. N - 1)
      PROVE  ChunksToRetrieve(RangesOf(N, S), RangesOf(N, T), L) = T \ (S \cup L)
  <2>1. Describes(RangesOf(N, T), N, T)
    BY RangesOfResult
  <2> QED BY <1>1, <2>1, RetrieveResult
<1> QED BY <1>2, <1>3, <1>4, <1>5
=============================================================================
