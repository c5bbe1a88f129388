--------------------------- MODULE NetIOUDP_proofs ---------------------------
(***************************************************************************)
(* Theorems about reliable UDP: types, and that packets are handed over    *)
(* one after the other, without a gap.                                     *)
(***************************************************************************)
EXTENDS NetIOUDP, FiniteSetTheorems, TLAPS

-----------------------------------------------------------------------------
(* Numbers in order *)

(* A smaller number comes before. *)
LEMMA RankGrows ==
    ASSUME NEW S \in SUBSET Nat, IsFiniteSet(S), NEW x \in S, NEW y \in S, x < y
    PROVE  Rank(S, x) < Rank(S, y)
<1> DEFINE A == {k \in S : k < x}
           B == {k \in S : k < y}
<1>0. x \in Int /\ y \in Int /\ \A k \in S : k \in Int
  OBVIOUS
<1>1. A \in SUBSET B /\ x \in B /\ x \notin A
  <2>1. \A k \in S : k < x => k < y
    BY <1>0
  <2>2. x \in B /\ x \notin A
    BY <1>0
  <2> QED
    BY <2>1, <2>2
<1>2. IsFiniteSet(B) /\ B \in SUBSET S
  BY FS_Subset
<1>3. Cardinality(A) <= Cardinality(B) /\ Cardinality(A) # Cardinality(B) /\ IsFiniteSet(A)
  BY <1>1, <1>2, FS_Subset
<1>4. Cardinality(A) \in Nat /\ Cardinality(B) \in Nat
  BY <1>2, <1>3, FS_CardinalityType
<1> QED
  BY <1>3, <1>4 DEF Rank

(* There are less numbers before one than there are numbers. *)
LEMMA RankRange ==
    ASSUME NEW S \in SUBSET Nat, IsFiniteSet(S), NEW x \in S
    PROVE  Cardinality(S) \in Nat /\ Rank(S, x) \in 0 .. Cardinality(S) - 1
<1> DEFINE A == {k \in S : k < x}
<1>1. A \in SUBSET S /\ x \notin A
  OBVIOUS
<1>2. Cardinality(A) <= Cardinality(S) /\ Cardinality(A) # Cardinality(S) /\ IsFiniteSet(A)
  BY <1>1, FS_Subset
<1>3. Cardinality(A) \in Nat /\ Cardinality(S) \in Nat
  BY <1>2, FS_CardinalityType
<1> QED
  BY <1>2, <1>3 DEF Rank

(* Every number of a finite set has its place, and the places are in order. *)
LEMMA SortedNumbers ==
    ASSUME NEW S \in SUBSET Nat, IsFiniteSet(S)
    PROVE  LET N == Sorted(S) IN
           /\ Cardinality(S) \in Nat /\ DOMAIN N = 1 .. Cardinality(S)
           /\ \A k \in DOMAIN N : N[k] \in S
           /\ \A n \in S : \E k \in DOMAIN N : N[k] = n
           /\ \A j, k \in DOMAIN N : j < k => N[j] < N[k]
<1> DEFINE c == Cardinality(S)
           N == Sorted(S)
           f == [n \in S |-> Rank(S, n)]
<1>1. c \in Nat
  BY FS_CardinalityType
<1>2. \A x \in S : Rank(S, x) \in 0 .. c - 1
  BY RankRange
<1>3. \A x, y \in S : x < y => Rank(S, x) < Rank(S, y)
  BY RankGrows
<1>4. \A x, y \in S : Rank(S, x) = Rank(S, y) => x = y
  <2> SUFFICES ASSUME NEW x \in S, NEW y \in S, Rank(S, x) = Rank(S, y), x # y PROVE FALSE
    OBVIOUS
  <2>1. x \in Nat /\ y \in Nat
    OBVIOUS
  <2>2. x < y \/ y < x
    BY <2>1
  <2>3. Rank(S, x) \in Int
    BY <1>1, <1>2
  <2> QED
    BY <1>3, <2>2, <2>3
<1>5. f \in Injection(S, 0 .. c - 1)
  BY <1>2, <1>4 DEF Injection, IsInjective
<1>6. IsFiniteSet(0 .. c - 1) /\ Cardinality(0 .. c - 1) = c
  <2>1. c - 1 \in Int /\ (0 > c - 1 => c = 0) /\ (c - 1) - 0 + 1 = c
    BY <1>1
  <2> HIDE DEF c
  <2> QED
    BY <2>1, FS_Interval
<1>7. f \in Surjection(S, 0 .. c - 1)
  BY <1>5, <1>6, FS_Injection
<1>8. \A r \in 0 .. c - 1 : \E n \in S : Rank(S, n) = r
  BY <1>7 DEF Surjection
<1>9. DOMAIN N = 1 .. c /\ \A k \in 1 .. c : N[k] = CHOOSE n \in S : Rank(S, n) = k - 1
  BY DEF Sorted
<1> HIDE DEF c, N, f
<1>10. \A k \in 1 .. c : N[k] \in S /\ Rank(S, N[k]) = k - 1
  <2> SUFFICES ASSUME NEW k \in 1 .. c PROVE N[k] \in S /\ Rank(S, N[k]) = k - 1
    OBVIOUS
  <2>1. k - 1 \in 0 .. c - 1
    BY <1>1
  <2> QED
    BY <1>8, <1>9, <2>1
<1>11. \A n \in S : \E k \in 1 .. c : N[k] = n
  <2> SUFFICES ASSUME NEW n \in S PROVE \E k \in 1 .. c : N[k] = n
    OBVIOUS
  <2> DEFINE k == Rank(S, n) + 1
  <2>1. k \in 1 .. c /\ k - 1 = Rank(S, n)
    BY <1>1, <1>2
  <2> HIDE DEF k
  <2> QED
    BY <1>4, <1>10, <2>1
<1>12. \A j, k \in 1 .. c : j < k => N[j] < N[k]
  <2> SUFFICES ASSUME NEW j \in 1 .. c, NEW k \in 1 .. c, j < k, ~(N[j] < N[k]) PROVE FALSE
    OBVIOUS
  <2>1. Rank(S, N[j]) = j - 1 /\ Rank(S, N[k]) = k - 1 /\ N[j] \in S /\ N[k] \in S
    BY <1>10
  <2>2. j - 1 < k - 1 /\ j - 1 \in Int /\ k - 1 \in Int
    BY <1>1
  <2>3. N[j] = N[k] \/ N[k] < N[j]
    <3>1. N[j] \in Nat /\ N[k] \in Nat
      BY <2>1
    <3> QED
      BY <3>1
  <2>4. j - 1 = k - 1 \/ k - 1 < j - 1
    BY <1>3, <2>1, <2>3
  <2> QED
    BY <2>2, <2>4
<1> QED
  BY <1>1, <1>9, <1>10, <1>11, <1>12 DEF c, N

(* The greatest number of a finite set. *)
LEMMA MaxOfSet ==
    ASSUME NEW S \in SUBSET Nat, IsFiniteSet(S), S # {}
    PROVE  Max(S) \in S
<1> DEFINE N == Sorted(S)
           c == Cardinality(S)
<1>1. /\ c \in Nat /\ DOMAIN N = 1 .. c
      /\ \A k \in DOMAIN N : N[k] \in S
      /\ \A n \in S : \E k \in DOMAIN N : N[k] = n
      /\ \A j, k \in DOMAIN N : j < k => N[j] < N[k]
  BY SortedNumbers
<1> HIDE DEF N, c
<1>2. c \in 1 .. c
  <2>1. PICK n \in S : TRUE
    OBVIOUS
  <2>2. PICK k \in 1 .. c : N[k] = n
    BY <1>1
  <2> QED
    BY <1>1
<1>3. \A n \in S : N[c] >= n
  <2> SUFFICES ASSUME NEW n \in S PROVE N[c] >= n
    OBVIOUS
  <2>1. PICK k \in 1 .. c : N[k] = n
    BY <1>1
  <2>2. k = c \/ k < c
    BY <1>1
  <2>3. N[c] \in Nat /\ n \in Nat
    BY <1>1, <1>2
  <2> QED
    BY <1>1, <1>2, <2>1, <2>2, <2>3
<1> QED
  BY <1>1, <1>2, <1>3 DEF Max

-----------------------------------------------------------------------------
(* What the variables hold.                                                *)
Fragment == [kind : {"Data"}, nr : Nat, fnr : Nat, cnt : Sizes, life : Nat]
Question == [kind : {"Check"}, nr : Nat, ack : Nat, ask : {S \in SUBSET Nat : IsFiniteSet(S)}]
Greeting == [kind : {"Conn", "ConnOK", "Close"}, nr : Nat]
Datagram == Fragment \cup Question \cup Greeting

OPacket == [nr : Nat, cnt : Sizes, life : Nat]
Received == [nr : Nat, cnt : Sizes, lives : SUBSET Nat]
Reasons == {"Thrown", "Cleared"}
Peer ==
    [status : {"None", "Conn", "Works"}, retries : 0 .. MaxRetries,
     o : Nat, opackets : Seq(OPacket), thrown : Nat,
     i : Nat, r : Nat, ipackets : SUBSET Fragment, timer : BOOLEAN, asked : Nat,
     got : Seq(Received), first : Nat, send : Seq(Datagram), starved : SUBSET Reasons]

-----------------------------------------------------------------------------
(* Packets that are complete *)

End(f) == f.fnr + f.cnt
Apart(f, g) ==
    \/ f.fnr = g.fnr /\ f.cnt = g.cnt
    \/ End(f) <= g.fnr
    \/ End(g) <= f.fnr

(* Fragments that belong together: each has a number of its own within its *)
(* packet, and packets do not overlap.                                     *)
Fitting(F) ==
    /\ F \in SUBSET Fragment /\ IsFiniteSet(F)
    /\ \A f \in F : f.nr \in f.fnr .. End(f) - 1
    /\ \A f, g \in F : (f.nr = g.nr => f = g) /\ Apart(f, g)

(* From i on, none is missing before the end of one of them.               *)
Row(F, i) ==
    /\ Fitting(F)
    /\ \A f \in F : f.fnr >= i /\ \A k \in i .. End(f) - 1 : \E g \in F : g.nr = k

(* The fields of a fragment are numbers, and a packet has at least one.    *)
LEMMA FragmentNumbers ==
    ASSUME NEW f \in Fragment
    PROVE  f.nr \in Nat /\ f.fnr \in Nat /\ f.cnt \in Nat /\ f.cnt > 0 /\ f.cnt \in Sizes /\ f.life \in Nat
           /\ End(f) \in Nat /\ f.fnr < End(f)
<1>1. f.nr \in Nat /\ f.fnr \in Nat /\ f.cnt \in Sizes /\ f.life \in Nat
  BY DEF Fragment
<1>2. f.cnt \in Nat /\ f.cnt > 0
  <2>1. f.cnt \in Nat \ {0}
    BY <1>1, SizesAssumption
  <2> QED
    BY <2>1
<1> QED
  BY <1>1, <1>2 DEF End

(* In a row a packet begins where the row does or where another one ends.  *)
LEMMA RowBefore ==
    ASSUME NEW i \in Nat, NEW F, Row(F, i), NEW f \in F, f.fnr # i
    PROVE  \E g \in F : End(g) = f.fnr
<1>1. Fitting(F) /\ f \in Fragment /\ f.fnr >= i
  BY DEF Row, Fitting
<1>2. f.nr \in Nat /\ f.fnr \in Nat /\ End(f) \in Nat /\ f.fnr < End(f)
  BY <1>1, FragmentNumbers
<1>3. f.fnr - 1 \in i .. End(f) - 1
  BY <1>1, <1>2
<1>4. PICK g \in F : g.nr = f.fnr - 1
  BY <1>3 DEF Row
<1>5. g \in Fragment /\ g.nr \in g.fnr .. End(g) - 1 /\ Apart(f, g)
  BY <1>1 DEF Fitting
<1>6. g.nr \in Nat /\ g.fnr \in Nat /\ End(g) \in Nat
  BY <1>5, FragmentNumbers
<1>7. End(g) = f.fnr
  BY <1>2, <1>4, <1>5, <1>6 DEF Apart
<1> QED
  BY <1>7

(* The packets of a row, in order, and the packets at each place.          *)
Starts(F) == {f.fnr : f \in F}
Size(F, n) == (CHOOSE f \in {g \in F : g.fnr = n} : TRUE).cnt

(* Fragments that begin with the same packet are of the same one.          *)
LEMMA RowSize ==
    ASSUME NEW F, Fitting(F), NEW f \in F
    PROVE  /\ f.fnr \in Starts(F) /\ Size(F, f.fnr) = f.cnt
           /\ End(f) = f.fnr + Size(F, f.fnr)
<1> DEFINE g == CHOOSE g \in {x \in F : x.fnr = f.fnr} : TRUE
<1>1. g \in F /\ g.fnr = f.fnr
  OBVIOUS
<1>2. Size(F, f.fnr) = g.cnt
  BY DEF Size
<1> HIDE DEF g
<1>3. f \in Fragment /\ g \in Fragment /\ Apart(f, g)
  BY <1>1 DEF Fitting
<1>4. /\ f.fnr \in Nat /\ End(f) \in Nat /\ f.fnr < End(f)
      /\ g.fnr \in Nat /\ End(g) \in Nat /\ g.fnr < End(g)
  BY <1>3, FragmentNumbers
<1>5. ~(End(f) <= g.fnr) /\ ~(End(g) <= f.fnr)
  BY <1>1, <1>4
<1>6. f.cnt = g.cnt
  BY <1>3, <1>5 DEF Apart
<1> QED
  BY <1>2, <1>6 DEF Starts, End

(* The numbers the packets begin with are natural, and finitely many.      *)
LEMMA StartsFinite ==
    ASSUME NEW F, Fitting(F)
    PROVE  Starts(F) \in SUBSET Nat /\ IsFiniteSet(Starts(F))
<1> DEFINE f == [x \in F |-> x.fnr]
<1>1. \A x \in F : x.fnr \in Nat
  BY FragmentNumbers DEF Fitting
<1>2. f \in Surjection(F, Starts(F))
  BY DEF Surjection, Starts
<1>3. IsFiniteSet(F)
  BY DEF Fitting
<1>4. IsFiniteSet(Starts(F))
  BY <1>2, <1>3, FS_Surjection
<1>5. Starts(F) \subseteq Nat
  BY <1>1 DEF Starts
<1> QED
  BY <1>4, <1>5

(* One packet of a row begins where the last one ends.                     *)
LEMMA RowInOrder ==
    ASSUME NEW i \in Nat, NEW F, Row(F, i)
    PROVE  LET N == Sorted(Starts(F)) IN
           \A k \in DOMAIN N : N[k] = IF k = 1 THEN i ELSE N[k - 1] + Size(F, N[k - 1])
<1> DEFINE S == Starts(F)
           N == Sorted(S)
           c == Cardinality(S)
<1>1. Fitting(F)
  BY DEF Row
<1>2. S \in SUBSET Nat /\ IsFiniteSet(S)
  BY <1>1, StartsFinite
<1>3. /\ c \in Nat /\ DOMAIN N = 1 .. c
      /\ \A k \in DOMAIN N : N[k] \in S
      /\ \A n \in S : \E k \in DOMAIN N : N[k] = n
      /\ \A j, k \in DOMAIN N : j < k => N[j] < N[k]
  BY <1>2, SortedNumbers
<1>4. \A n \in S : \E f \in F : f.fnr = n
  BY DEF Starts
<1>5. \A f \in F : f.fnr \in S /\ End(f) = f.fnr + Size(F, f.fnr) /\ f \in Fragment /\ f.fnr >= i
  BY <1>1, RowSize DEF Row, Fitting
<1> HIDE DEF S, N, c
<1>6. \A k \in 1 .. c : N[k] \in Nat /\ N[k] >= i /\ \E f \in F : f.fnr = N[k]
  BY <1>2, <1>3, <1>4, <1>5
(* The one that ends where a packet begins is the one before.              *)
<1>7. ASSUME NEW k \in 1 .. c, N[k] # i
      PROVE  k # 1 /\ N[k] = N[k - 1] + Size(F, N[k - 1])
  <2>1. PICK f \in F : f.fnr = N[k]
    BY <1>6
  <2>2. PICK g \in F : End(g) = f.fnr
    BY <1>7, <2>1, RowBefore
  <2>3. g.fnr \in Nat /\ End(g) \in Nat /\ g.fnr < End(g)
    BY <1>5, FragmentNumbers
  <2>4. PICK j \in 1 .. c : N[j] = g.fnr
    BY <1>3, <1>5
  <2>5. N[j] < N[k]
    BY <2>1, <2>2, <2>3, <2>4
  <2>6. j \in Int /\ k \in Int /\ N[j] \in Int /\ N[k] \in Int
    BY <1>6
  <2>7. j < k
    <3>1. CASE j = k
      BY <2>5, <2>6, <3>1
    <3>2. CASE k < j
      <4>1. N[k] < N[j]
        BY <1>3, <3>2
      <4> QED
        BY <2>5, <2>6, <4>1
    <3> QED
      BY <2>6, <3>1, <3>2
  <2>8. k - 1 \in 1 .. c /\ k # 1 /\ (j = k - 1 \/ j < k - 1) /\ k - 1 < k
    BY <1>3, <2>7
  <2>9. CASE j < k - 1
    <3>1. N[j] < N[k - 1] /\ N[k - 1] < N[k]
      BY <1>3, <2>8, <2>9
    <3>2. PICK x \in F : x.fnr = N[k - 1]
      BY <1>6, <2>8
    <3>3. x.fnr \in Nat /\ End(x) \in Nat /\ x.fnr < End(x)
      BY <1>5, FragmentNumbers
    <3>4. Apart(g, x)
      BY <1>1 DEF Fitting
    <3>5. g.fnr < x.fnr /\ x.fnr < End(g)
      BY <2>1, <2>2, <2>4, <3>1, <3>2
    <3> QED
      BY <2>3, <3>3, <3>4, <3>5 DEF Apart
  <2>10. CASE j = k - 1
    BY <1>5, <2>1, <2>2, <2>4, <2>8, <2>10
  <2> QED
    BY <2>8, <2>9, <2>10
<1>8. ASSUME NEW k \in 1 .. c, k # 1
      PROVE  N[k] # i
  <2>1. 1 \in 1 .. c /\ 1 < k
    BY <1>3, <1>8
  <2>2. N[1] < N[k] /\ N[1] >= i /\ N[1] \in Int /\ N[k] \in Int
    BY <1>3, <1>6, <2>1
  <2> QED
    BY <2>2
<1>9. \A k \in 1 .. c : N[k] = IF k = 1 THEN i ELSE N[k - 1] + Size(F, N[k - 1])
  BY <1>7, <1>8
<1> QED
  BY <1>3, <1>9 DEF S, N

(* A row has one fragment for every number up to where it ends.            *)
LEMMA RowLength ==
    ASSUME NEW i \in Nat, NEW F, Row(F, i)
    PROVE  LET N == Sorted(Starts(F))
               c == Cardinality(Starts(F))
           IN  /\ c \in Nat /\ DOMAIN N = 1 .. c /\ Cardinality(F) \in Nat
               /\ i + Cardinality(F) = IF c = 0 THEN i ELSE N[c] + Size(F, N[c])
               /\ \A f \in F : f.nr < i + Cardinality(F)
               /\ F # {} => \E f \in F : End(f) = i + Cardinality(F)
<1> DEFINE S == Starts(F)
           N == Sorted(S)
           c == Cardinality(S)
<1>1. Fitting(F) /\ IsFiniteSet(F)
  BY DEF Row, Fitting
<1>2. S \in SUBSET Nat /\ IsFiniteSet(S)
  BY <1>1, StartsFinite
<1>3. /\ c \in Nat /\ DOMAIN N = 1 .. c
      /\ \A k \in DOMAIN N : N[k] \in S
      /\ \A n \in S : \E k \in DOMAIN N : N[k] = n
      /\ \A j, k \in DOMAIN N : j < k => N[j] < N[k]
  BY <1>2, SortedNumbers
<1>4. \A n \in S : \E f \in F : f.fnr = n
  BY DEF Starts
<1>5. \A f \in F : f.fnr \in S /\ End(f) = f.fnr + Size(F, f.fnr) /\ f \in Fragment /\ f.fnr >= i
  BY <1>1, RowSize DEF Row, Fitting
<1>6. Cardinality(F) \in Nat
  BY <1>1, FS_CardinalityType
<1> HIDE DEF S, N, c
<1>7. CASE c = 0
  <2>1. F = {}
    <3> SUFFICES ASSUME NEW f \in F PROVE FALSE
      OBVIOUS
    <3>1. PICK k \in 1 .. c : N[k] = f.fnr
      BY <1>3, <1>5
    <3> QED
      BY <1>7
  <2>2. Cardinality(F) = 0
    BY <2>1, FS_EmptySet
  <2> QED
    BY <1>3, <1>7, <2>1, <2>2 DEF S, N, c
<1>8. CASE c # 0
  <2>1. c \in 1 .. c
    BY <1>3, <1>8
  <2>2. PICK l \in F : l.fnr = N[c]
    BY <1>3, <1>4, <2>1
  <2> DEFINE e == End(l)
  <2>3. l.fnr \in Nat /\ e \in Nat /\ l.fnr < e /\ e = N[c] + Size(F, N[c]) /\ i <= e /\ i <= l.fnr
    <3>1. l.fnr \in Nat /\ e \in Nat /\ l.fnr < e
      BY <1>5, FragmentNumbers
    <3>2. l.fnr >= i /\ e = l.fnr + Size(F, l.fnr)
      BY <1>5
    <3> QED
      BY <2>2, <3>1, <3>2
  <2>4. \A f \in F : f.nr \in i .. e - 1
    <3> SUFFICES ASSUME NEW f \in F PROVE f.nr \in i .. e - 1
      OBVIOUS
    <3>1. PICK k \in 1 .. c : N[k] = f.fnr
      BY <1>3, <1>5
    <3>2. f.fnr \in Nat /\ End(f) \in Nat /\ f.fnr < End(f) /\ f.nr \in Nat /\ f.fnr >= i
      BY <1>5, FragmentNumbers
    <3>3. f.nr \in f.fnr .. End(f) - 1 /\ Apart(f, l)
      BY <1>1 DEF Fitting
    <3>4. f.fnr = l.fnr \/ f.fnr < l.fnr
      <4>1. k = c \/ k < c
        BY <1>3
      <4> QED
        BY <1>3, <2>1, <2>2, <3>1, <4>1
    <3>5. End(f) <= e
      BY <2>3, <3>2, <3>3, <3>4 DEF Apart, End
    <3> HIDE DEF e
    <3> QED
      BY <2>3, <3>2, <3>3, <3>5
  <2>5. \A k \in i .. e - 1 : \E f \in F : f.nr = k
    BY DEF Row
  <2>6. \A f, g \in F : f.nr = g.nr => f = g
    BY <1>1 DEF Fitting
  <2> DEFINE b == [f \in F |-> f.nr]
             I == i .. e - 1
  <2>7. b \in Bijection(F, I)
    <3> HIDE DEF e
    <3>1. b \in Injection(F, I)
      BY <2>4, <2>6 DEF Injection, IsInjective
    <3>2. b \in Surjection(F, I)
      BY <2>4, <2>5 DEF Surjection
    <3> QED
      BY <3>1, <3>2 DEF Bijection
  <2>8. IsFiniteSet(I) /\ Cardinality(I) = e - i
    <3>1. e - 1 \in Int /\ i \in Int /\ (i > e - 1 => e - i = 0) /\ (e - 1) - i + 1 = e - i
      BY <2>3
    <3> HIDE DEF e
    <3> QED
      BY <3>1, FS_Interval
  <2>9. Cardinality(I) = Cardinality(F)
    <3> HIDE DEF I, b
    <3> QED
      BY <1>1, <2>7, FS_Bijection DEF ExistsBijection
  <2>10. i + Cardinality(F) = e
    BY <2>3, <2>8, <2>9
  <2>11. \A f \in F : f.nr < e
    <3> SUFFICES ASSUME NEW f \in F PROVE f.nr < e
      OBVIOUS
    <3> HIDE DEF e
    <3> QED
      BY <2>3, <2>4
  <2> HIDE DEF I, b
  <2> QED
    BY <1>3, <1>6, <1>8, <2>3, <2>10, <2>11 DEF S, N, c
<1> QED
  BY <1>7, <1>8

(* Packets in order: the first begins at i, each where the one before it   *)
(* ends, and the last one ends before e.                                   *)
Follow(P, i) ==
    \A k \in DOMAIN P : P[k].nr = IF k = 1 THEN i ELSE P[k - 1].nr + P[k - 1].cnt
Reach(P, i) == IF P = <<>> THEN i ELSE P[Len(P)].nr + P[Len(P)].cnt

(* The packets of a row follow each other.                                 *)
LEMMA RowPackets ==
    ASSUME NEW i \in Nat, NEW F, Row(F, i)
    PROVE  /\ Packets(F) \in Seq(Received)
           /\ Follow(Packets(F), i)
           /\ Reach(Packets(F), i) = i + Cardinality(F)
<1> DEFINE S == Starts(F)
           N == Sorted(S)
           c == Cardinality(S)
           L(k) == {f.life : f \in {g \in F : g.fnr = N[k]}}
           P == [k \in 1 .. c |-> [nr |-> N[k], cnt |-> Size(F, N[k]), lives |-> L(k)]]
<1>1. Fitting(F)
  BY DEF Row
<1>2. /\ c \in Nat /\ DOMAIN N = 1 .. c
      /\ i + Cardinality(F) = IF c = 0 THEN i ELSE N[c] + Size(F, N[c])
  BY RowLength
<1>3. Packets(F) = P
  BY <1>2 DEF Packets, Starts, Size
<1>4. \A k \in 1 .. c : N[k] \in S
  BY <1>1, <1>2, StartsFinite, SortedNumbers
<1>5. \A k \in 1 .. c : N[k] = IF k = 1 THEN i ELSE N[k - 1] + Size(F, N[k - 1])
  <2>1. \A k \in DOMAIN N : N[k] = IF k = 1 THEN i ELSE N[k - 1] + Size(F, N[k - 1])
    BY RowInOrder
  <2> HIDE DEF S, N, c
  <2> QED
    BY <1>2, <2>1
<1> HIDE DEF S, N, c
<1>6. \A k \in 1 .. c : N[k] \in Nat /\ Size(F, N[k]) \in Sizes /\ L(k) \in SUBSET Nat
  <2> SUFFICES ASSUME NEW k \in 1 .. c
               PROVE  N[k] \in Nat /\ Size(F, N[k]) \in Sizes /\ L(k) \in SUBSET Nat
    OBVIOUS
  <2>1. PICK f \in F : f.fnr = N[k]
    BY <1>4 DEF S, Starts
  <2>2. \A g \in F : g.life \in Nat /\ g.fnr \in Nat /\ g.cnt \in Sizes
    BY <1>1, FragmentNumbers DEF Fitting
  <2>3. Size(F, N[k]) = f.cnt
    BY <1>1, <2>1, RowSize
  <2> QED
    BY <2>1, <2>2, <2>3
<1> HIDE DEF L
<1>7. /\ DOMAIN P = 1 .. c /\ Len(P) = c /\ P \in Seq(Received) /\ (P = <<>> <=> c = 0)
      /\ \A k \in 1 .. c : P[k].nr = N[k] /\ P[k].cnt = Size(F, N[k])
  <2>1. \A k \in 1 .. c : [nr |-> N[k], cnt |-> Size(F, N[k]), lives |-> L(k)] \in Received
    BY <1>6 DEF Received
  <2>2. P \in Seq(Received) /\ DOMAIN P = 1 .. c /\ Len(P) = c
    BY <1>2, <2>1
  <2> QED
    BY <1>2, <2>2
<1> HIDE DEF P
<1>8. Follow(P, i)
  <2>1. \A k \in 1 .. c : k # 1 => k - 1 \in 1 .. c
    BY <1>2
  <2> QED
    BY <1>5, <1>7, <2>1 DEF Follow
<1>9. Reach(P, i) = i + Cardinality(F)
  <2>1. c # 0 => c \in 1 .. c
    BY <1>2
  <2> QED
    BY <1>2, <1>7, <2>1 DEF Reach
<1> QED
  BY <1>3, <1>7, <1>8, <1>9

(* What is kept of the other side's packets is above what was handed over. *)
Fits(h) == Fitting(h.ipackets) /\ \A f \in h.ipackets : f.nr >= h.i

(* The packets that are complete are a row, and no fragment below its end  *)
(* is left.                                                                *)
LEMMA CompleteRow ==
    ASSUME NEW h \in Peer, Fits(h)
    PROVE  LET done == CompleteIPackets(h) IN
           /\ done \in SUBSET h.ipackets
           /\ Row(done, h.i)
           /\ Cardinality(done) \in Nat
           /\ \A f \in h.ipackets \ done : f.nr >= h.i + Cardinality(done)
<1> DEFINE F == h.ipackets
           i == h.i
           done == CompleteIPackets(h)
<1>1. /\ i \in Nat /\ Fitting(F) /\ F \in SUBSET Fragment /\ IsFiniteSet(F)
      /\ \A f \in F : f.nr >= i
  BY DEF Peer, Fits, Fitting
<1>2. done \in SUBSET F /\ \A f \in done : f.fnr >= i /\ CompleteUntil(h, End(f))
  <2>1. \A f \in F : f.fnr \in Nat
    BY <1>1, FragmentNumbers
  <2>2. CASE \E f \in F : f.fnr < i
    BY <2>2 DEF CompleteIPackets
  <2>3. CASE ~\E f \in F : f.fnr < i
    BY <1>1, <2>1, <2>3 DEF CompleteIPackets, End
  <2> QED
    BY <2>2, <2>3
<1>3. \A f \in F : done # {} /\ CompleteUntil(h, End(f)) => f \in done
  BY DEF CompleteIPackets, End
<1> HIDE DEF done
<1>4. \A f \in F : \A n \in i .. End(f) - 1 : CompleteUntil(h, End(f)) => \E g \in F : g.nr = n
  BY DEF CompleteUntil, FragmentPresent
(* A fragment below the end of a complete packet is complete itself.       *)
<1>5. ASSUME NEW f \in done, NEW g \in F, g.nr < End(f)
      PROVE  g \in done
  <2>1. f \in F /\ f \in Fragment /\ g \in Fragment
    BY <1>1, <1>2
  <2>2. /\ f.fnr \in Nat /\ End(f) \in Nat /\ f.fnr < End(f)
        /\ g.nr \in Nat /\ g.fnr \in Nat /\ End(g) \in Nat /\ g.fnr < End(g)
    BY <2>1, FragmentNumbers
  <2>3. g.nr \in g.fnr .. End(g) - 1 /\ Apart(f, g)
    BY <1>1, <2>1 DEF Fitting
  <2>4. End(g) <= End(f)
    <3>1. f.fnr = g.fnr /\ f.cnt = g.cnt => End(g) = End(f)
      BY DEF End
    <3> QED
      BY <1>5, <2>2, <2>3, <3>1 DEF Apart
  <2>5. CompleteUntil(h, End(g))
    <3> SUFFICES ASSUME NEW n \in i .. End(g) - 1 PROVE FragmentPresent(h, n)
      BY DEF CompleteUntil
    <3>1. n \in i .. End(f) - 1
      BY <1>1, <2>2, <2>4
    <3> QED
      BY <1>2, <3>1 DEF CompleteUntil
  <2> QED
    BY <1>3, <2>5
<1>6. Fitting(done)
  <2>1. IsFiniteSet(done)
    BY <1>1, <1>2, FS_Subset
  <2> QED
    BY <1>1, <1>2, <2>1 DEF Fitting
<1>7. Row(done, i)
  <2> SUFFICES ASSUME NEW f \in done, NEW n \in i .. End(f) - 1 PROVE \E g \in done : g.nr = n
    BY <1>2, <1>6 DEF Row
  <2>1. PICK g \in F : g.nr = n
    BY <1>2, <1>4
  <2>2. End(f) \in Nat
    BY <1>1, <1>2, FragmentNumbers
  <2>3. g.nr < End(f)
    BY <1>1, <2>1, <2>2
  <2> QED
    BY <1>5, <2>1, <2>3
<1>8. Cardinality(done) \in Nat /\ (done = {} => Cardinality(done) = 0)
  BY <1>6, FS_CardinalityType, FS_EmptySet DEF Fitting
<1>9. ASSUME NEW f \in F \ done PROVE f.nr >= i + Cardinality(done)
  <2>1. f.nr \in Nat /\ f.nr >= i
    BY <1>1, FragmentNumbers
  <2>2. CASE done = {}
    BY <1>1, <1>8, <2>1, <2>2
  <2>3. CASE done # {}
    <3>1. PICK l \in done : End(l) = i + Cardinality(done)
      BY <1>1, <1>7, <2>3, RowLength
    <3>2. ~(f.nr < End(l))
      BY <1>5, <1>9
    <3> QED
      BY <1>1, <1>8, <2>1, <3>1, <3>2
  <2> QED
    BY <2>2, <2>3
<1> QED
  BY <1>2, <1>7, <1>8, <1>9 DEF done

-----------------------------------------------------------------------------
(* Peers *)

(* What is kept of one's own packets has numbers that were given out; what *)
(* was handed over follows each other up to the number that comes next;    *)
(* nothing was handed over before the connection works; and a side without *)
(* a peer keeps nothing.                                                   *)
Own(h) == \A k \in DOMAIN h.opackets : h.opackets[k].nr + h.opackets[k].cnt <= h.o
HandedOver(h) == Follow(h.got, h.first) /\ Reach(h.got, h.first) = h.i
Waits(h) == h.status = "Conn" => h.got = <<>>
Rests(h) == h.status = "None" => [h EXCEPT !.send = <<>>, !.starved = {}] = NoPeer
Good(h) == h \in Peer /\ Fits(h) /\ Own(h) /\ HandedOver(h) /\ Waits(h) /\ Rests(h)

(* A peer whose fields that matter here are those of another one.          *)
LEMMA GoodLike ==
    ASSUME NEW h, Good(h), NEW c \in Peer,
           c.status = h.status, c.status # "None", c.o = h.o, c.opackets = h.opackets,
           c.i = h.i, c.ipackets = h.ipackets, c.got = h.got, c.first = h.first
    PROVE  Good(c)
BY DEF Good, Fits, Own, HandedOver, Waits, Rests

(* A new peer and none. *)
LEMMA GoodNew == Good(NewPeer) /\ Good(NoPeer) /\ NewPeer.o = 0 /\ NoPeer.o = 0
<1>1. MaxRetries \in 0 .. MaxRetries
  BY OptionsAssumption
<1>2. <<>> \in Seq(OPacket) /\ <<>> \in Seq(Received) /\ <<>> \in Seq(Datagram) /\ DOMAIN <<>> = {}
  OBVIOUS
<1>3. NewPeer \in Peer /\ NoPeer \in Peer
  BY <1>1, <1>2 DEF NewPeer, NoPeer, Peer
<1>4. Fitting({})
  BY FS_EmptySet DEF Fitting
<1>5. /\ NewPeer.ipackets = {} /\ NewPeer.opackets = <<>> /\ NewPeer.got = <<>> /\ NewPeer.i = 0
      /\ NewPeer.first = 0 /\ NewPeer.status = "Conn" /\ NewPeer.o = 0
  BY DEF NewPeer
<1>6. /\ NoPeer.ipackets = {} /\ NoPeer.opackets = <<>> /\ NoPeer.got = <<>> /\ NoPeer.i = 0
      /\ NoPeer.first = 0 /\ NoPeer.status = "None" /\ NoPeer.o = 0
  BY DEF NewPeer, NoPeer
<1>7. Rests(NoPeer)
  <2>1. NoPeer.send = <<>> /\ NoPeer.starved = {}
    BY DEF NoPeer, NewPeer
  <2> QED
    BY <1>3, <2>1 DEF Rests, Peer
<1>8. Good(NewPeer)
  BY <1>2, <1>3, <1>4, <1>5 DEF Good, Fits, Own, HandedOver, Waits, Rests, Follow, Reach
<1>9. Good(NoPeer)
  BY <1>2, <1>3, <1>4, <1>6, <1>7 DEF Good, Fits, Own, HandedOver, Waits, Follow, Reach
<1> QED
  BY <1>5, <1>6, <1>8, <1>9

(* Datagrams for the other side. *)
LEMMA GoodSend ==
    ASSUME NEW h, Good(h), h.status # "None", NEW ms \in Seq(Datagram)
    PROVE  LET c == SendDirect(h, ms) IN
           Good(c) /\ c.o = h.o /\ c.status = h.status /\ c.i = h.i /\ c.got = h.got
<1> DEFINE c == SendDirect(h, ms)
<1>1. h \in Peer
  BY DEF Good
<1>2. h.send \o ms \in Seq(Datagram)
  BY <1>1 DEF Peer
<1>3. /\ c \in Peer /\ c.status = h.status /\ c.o = h.o /\ c.opackets = h.opackets
      /\ c.i = h.i /\ c.ipackets = h.ipackets /\ c.got = h.got /\ c.first = h.first
  BY <1>1, <1>2 DEF SendDirect, Peer
<1> HIDE DEF c
<1> QED
  BY <1>3, GoodLike DEF c

(* A peer that closes. *)
LEMMA GoodClose ==
    ASSUME NEW h, Good(h), h.status # "None"
    PROVE  /\ Good(OnClose(h)) /\ OnClose(h).o = 0
           /\ Good(Close(h)) /\ Close(h).o = 0
<1>1. ASSUME NEW c \in Peer PROVE Good(OnClose(c)) /\ OnClose(c).o = 0
  <2> DEFINE d == OnClose(c)
  <2>1. NoPeer \in Peer /\ c.send \in Seq(Datagram) /\ c.starved \in SUBSET Reasons
    BY GoodNew DEF Good, Peer
  <2>2. d \in Peer /\ [d EXCEPT !.send = <<>>, !.starved = {}] = NoPeer
    <3>1. d \in Peer
      BY <2>1 DEF OnClose, Peer
    <3>2. NoPeer.send = <<>> /\ NoPeer.starved = {}
      BY DEF NoPeer, NewPeer
    <3>3. [d EXCEPT !.send = <<>>, !.starved = {}] = NoPeer
      BY <2>1, <3>2 DEF OnClose, Peer
    <3> QED
      BY <3>1, <3>3
  <2>3. /\ d.status = NoPeer.status /\ d.o = NoPeer.o /\ d.opackets = NoPeer.opackets /\ d.i = NoPeer.i
        /\ d.ipackets = NoPeer.ipackets /\ d.got = NoPeer.got /\ d.first = NoPeer.first
    BY <2>1 DEF OnClose, NoPeer, NewPeer
  <2> HIDE DEF d
  <2>4. Good(d)
    BY <2>2, <2>3, GoodNew DEF Good, Fits, Own, HandedOver, Waits, Rests
  <2> QED
    BY <2>3, <2>4, GoodNew DEF d
<1>2. <<CloseMsg>> \in Seq(Datagram)
  BY DEF CloseMsg, Datagram, Greeting
<1>3. SendDirect(h, <<CloseMsg>>) \in Peer /\ h \in Peer
  BY <1>2, GoodSend DEF Good
<1> QED
  BY <1>1, <1>3 DEF Close

(* A Check asks for some of the numbers that are missing. *)
LEMMA GoodCheck ==
    ASSUME NEW h, Good(h), h.status # "None", NEW force \in BOOLEAN, NEW c \in Check(h, force)
    PROVE  Good(c) /\ c.o = h.o /\ c.status = h.status
<1>1. h \in Peer /\ h.i \in Nat /\ h.r \in Nat /\ h.o \in Nat /\ h.asked \in Nat
  BY DEF Good, Peer
<1> DEFINE ask == FirstOf(Missing(h))
           low == IF h.timer THEN larger(h.asked + 1, h.i) ELSE h.i
<1>2. ask \in SUBSET Nat /\ IsFiniteSet(ask)
  <2>1. low \in Nat
    BY <1>1 DEF larger
  <2>2. ask \subseteq low .. h.r - 1
    BY DEF FirstOf, Missing
  <2> HIDE DEF low, ask
  <2>3. IsFiniteSet(low .. h.r - 1)
    <3>1. low \in Int /\ h.r - 1 \in Int
      BY <1>1, <2>1
    <3> QED
      BY <3>1, FS_Interval
  <2>4. low .. h.r - 1 \subseteq Nat
    BY <1>1, <2>1
  <2>5. IsFiniteSet(ask)
    BY <2>2, <2>3, FS_Subset
  <2> QED
    BY <2>2, <2>4, <2>5
<1> HIDE DEF ask
<1>3. c = h \/ c = Ask(h, ask, force)
  BY DEF Check, ask
<1>4. CASE c = h
  BY <1>4
<1>5. CASE c = Ask(h, ask, force)
  <2> DEFINE a == IF ask # {} THEN Max(ask) ELSE IF h.timer THEN h.asked ELSE 0
             b == [h EXCEPT !.asked = a, !.timer = h.timer \/ ask # {}]
             ms == IF ask # {} \/ force THEN <<CheckMsg(h.o, h.i, ask)>> ELSE <<>>
  <2>1. a \in Nat
    BY <1>1, <1>2, MaxOfSet
  <2> HIDE DEF a
  <2>2. /\ b \in Peer /\ b.status = h.status /\ b.o = h.o /\ b.opackets = h.opackets
        /\ b.i = h.i /\ b.ipackets = h.ipackets /\ b.got = h.got /\ b.first = h.first
    BY <1>1, <2>1 DEF Peer
  <2>3. CheckMsg(h.o, h.i, ask) \in Datagram
    BY <1>1, <1>2 DEF CheckMsg, Datagram, Question
  <2>4. ms \in Seq(Datagram)
    BY <2>3
  <2>5. c = SendDirect(b, ms)
    BY <1>5 DEF Ask, a
  <2> HIDE DEF b, ms
  <2>6. Good(b)
    BY <2>2, GoodLike
  <2> QED
    BY <2>2, <2>4, <2>5, <2>6, GoodSend
<1> QED
  BY <1>3, <1>4, <1>5

(* One more packet follows the others. *)
LEMMA FollowOn ==
    ASSUME NEW P \in Seq(Received), NEW Q \in Seq(Received), NEW first \in Nat, NEW i \in Nat,
           Follow(P, first), Reach(P, first) = i, Follow(Q, i)
    PROVE  /\ P \o Q \in Seq(Received)
           /\ Follow(P \o Q, first) /\ Reach(P \o Q, first) = Reach(Q, i)
<1> DEFINE R == P \o Q
           m == Len(P)
           n == Len(Q)
<1>1. /\ m \in Nat /\ n \in Nat /\ DOMAIN P = 1 .. m /\ DOMAIN Q = 1 .. n
      /\ R \in Seq(Received) /\ DOMAIN R = 1 .. m + n /\ Len(R) = m + n
      /\ \A k \in 1 .. m : R[k] = P[k]
      /\ \A k \in m + 1 .. m + n : R[k] = Q[k - m]
      /\ (P = <<>> <=> m = 0) /\ (Q = <<>> <=> n = 0) /\ (R = <<>> <=> m + n = 0)
  OBVIOUS
<1> HIDE DEF R, m, n
<1>2. ASSUME NEW k \in 1 .. m + n
      PROVE  R[k].nr = IF k = 1 THEN first ELSE R[k - 1].nr + R[k - 1].cnt
  <2>1. CASE k \in 1 .. m
    <3>1. k = 1 \/ k - 1 \in 1 .. m
      BY <1>1, <2>1
    <3> QED
      BY <1>1, <2>1, <3>1 DEF Follow
  <2>2. CASE k \in m + 1 .. m + n
    <3>1. k - m \in 1 .. n /\ R[k] = Q[k - m]
      BY <1>1, <2>2
    <3>2. CASE k - m = 1
      <4>1. R[k].nr = i
        BY <1>1, <3>1, <3>2 DEF Follow
      <4>2. CASE m = 0
        BY <1>1, <3>2, <4>1, <4>2 DEF Reach
      <4>3. CASE m # 0
        <5>1. k - 1 = m /\ k # 1 /\ m \in 1 .. m
          BY <1>1, <2>2, <3>2, <4>3
        <5>2. i = P[m].nr + P[m].cnt
          BY <1>1, <4>3 DEF Reach, m
        <5> QED
          BY <1>1, <4>1, <5>1, <5>2
      <4> QED
        BY <4>2, <4>3
    <3>3. CASE k - m # 1
      <4>1. k - 1 \in m + 1 .. m + n /\ (k - 1) - m = (k - m) - 1 /\ k # 1
        BY <1>1, <2>2, <3>3
      <4>2. R[k - 1] = Q[(k - m) - 1]
        BY <1>1, <4>1
      <4> QED
        <5>1. Q[k - m].nr = Q[(k - m) - 1].nr + Q[(k - m) - 1].cnt
          BY <1>1, <3>1, <3>3 DEF Follow
        <5> QED
          BY <3>1, <4>1, <4>2, <5>1
    <3> QED
      BY <3>2, <3>3
  <2> QED
    BY <1>1, <2>1, <2>2
<1>3. Follow(R, first)
  BY <1>1, <1>2 DEF Follow
<1>4. Reach(R, first) = Reach(Q, i)
  <2>1. CASE n = 0
    <3>1. m = 0 \/ m \in 1 .. m
      BY <1>1
    <3>2. m + n = m
      BY <1>1, <2>1
    <3> QED
      BY <1>1, <2>1, <3>1, <3>2 DEF Reach, m
  <2>2. CASE n # 0
    <3>1. m + n \in m + 1 .. m + n /\ (m + n) - m = n /\ m + n # 0
      BY <1>1, <2>2
    <3>2. R[m + n] = Q[n]
      BY <1>1, <3>1
    <3> QED
      BY <1>1, <2>2, <3>1, <3>2 DEF Reach, n
  <2> QED
    BY <2>1, <2>2
<1> QED
  BY <1>1, <1>3, <1>4 DEF R

(* Handing over what is complete. *)
LEMMA GoodComplete ==
    ASSUME NEW h, Good(h), h.status # "None"
    PROVE  LET c == CheckCompleteIPackets(h) IN Good(c) /\ c.o = h.o /\ c.status = h.status
<1> DEFINE done == CompleteIPackets(h)
           P == Packets(done)
           c == [h EXCEPT !.got = h.got \o P, !.i = h.i + Cardinality(done), !.ipackets = h.ipackets \ done]
<1>1. /\ h \in Peer /\ h.got \in Seq(Received) /\ h.i \in Nat /\ h.first \in Nat
      /\ Fits(h) /\ HandedOver(h) /\ Own(h)
  BY DEF Good, Peer
<1>2. /\ done \in SUBSET h.ipackets /\ Row(done, h.i) /\ Cardinality(done) \in Nat
      /\ \A f \in h.ipackets \ done : f.nr >= h.i + Cardinality(done)
  BY <1>1, CompleteRow
<1>3. P \in Seq(Received) /\ Follow(P, h.i) /\ Reach(P, h.i) = h.i + Cardinality(done)
  BY <1>1, <1>2, RowPackets
<1>4. CheckCompleteIPackets(h) = IF h.status = "Works" THEN c ELSE h
  BY DEF CheckCompleteIPackets
<1> HIDE DEF done, P
<1>5. /\ h.got \o P \in Seq(Received)
      /\ Follow(h.got \o P, h.first) /\ Reach(h.got \o P, h.first) = h.i + Cardinality(done)
  BY <1>1, <1>3, FollowOn DEF HandedOver
<1>6. /\ c \in Peer /\ c.status = h.status /\ c.o = h.o /\ c.opackets = h.opackets /\ c.first = h.first
      /\ c.got = h.got \o P /\ c.i = h.i + Cardinality(done) /\ c.ipackets = h.ipackets \ done
  <2>1. h.i + Cardinality(done) \in Nat /\ h.ipackets \ done \in SUBSET Fragment
    BY <1>1, <1>2 DEF Peer
  <2> QED
    BY <1>1, <1>5, <2>1 DEF Peer
<1> HIDE DEF c
<1>7. Fits(c)
  <2>1. IsFiniteSet(h.ipackets \ done)
    BY <1>1, FS_Subset DEF Fits, Fitting
  <2> QED
    BY <1>1, <1>2, <1>6, <2>1 DEF Fits, Fitting
<1>8. Own(c) /\ HandedOver(c)
  BY <1>1, <1>5, <1>6 DEF Own, HandedOver
<1>9. h.status = "Works" => Good(c)
  BY <1>6, <1>7, <1>8 DEF Good, Waits, Rests
<1> QED
  BY <1>4, <1>6, <1>9

(* Connecting starts where nothing was handed over. *)
LEMMA GoodDoConn ==
    ASSUME NEW h, Good(h), h.status # "None", h.got = <<>>
    PROVE  LET c == DoConn(h) IN
           /\ Good(c) /\ c.o = h.o /\ c.status = "Conn" /\ c.got = <<>>
           /\ c.i = h.i /\ c.first = h.first
<1> DEFINE b == [h EXCEPT !.status = "Conn", !.retries = MaxRetries]
           c == DoConn(h)
<1>1. h \in Peer /\ h.o \in Nat
  BY DEF Good, Peer
<1>2. MaxRetries \in 0 .. MaxRetries
  BY OptionsAssumption
<1>3. /\ b \in Peer /\ b.status = "Conn" /\ b.o = h.o /\ b.opackets = h.opackets
      /\ b.i = h.i /\ b.ipackets = h.ipackets /\ b.got = h.got /\ b.first = h.first
  BY <1>1, <1>2 DEF Peer
<1>4. <<ConnMsg(h.o)>> \in Seq(Datagram)
  <2>1. ConnMsg(h.o) \in Datagram
    BY <1>1 DEF ConnMsg, Datagram, Greeting
  <2> QED
    BY <2>1
<1>5. c = SendDirect(b, <<ConnMsg(h.o)>>)
  BY DEF DoConn
<1> HIDE DEF b
<1>6. Good(b)
  BY <1>3 DEF Good, Fits, Own, HandedOver, Waits, Rests
<1>7. /\ Good(c) /\ c.o = b.o /\ c.status = b.status /\ c.i = b.i /\ c.got = b.got
  BY <1>3, <1>4, <1>5, <1>6, GoodSend
<1>8. c.first = b.first
  BY <1>3, <1>5 DEF SendDirect, Peer
<1> QED
  BY <1>3, <1>7, <1>8

(* The application hears of the connection. *)
LEMMA GoodOnConn ==
    ASSUME NEW h, Good(h), h.status # "None", NEW accept \in BOOLEAN
    PROVE  LET c == OnConn(h, accept) IN Good(c) /\ c.o <= h.o
<1> DEFINE b == [h EXCEPT !.status = "Works"]
<1>1. h \in Peer /\ h.o \in Nat
  BY DEF Good, Peer
<1>2. /\ b \in Peer /\ b.status = "Works" /\ b.o = h.o /\ b.opackets = h.opackets
      /\ b.i = h.i /\ b.ipackets = h.ipackets /\ b.got = h.got /\ b.first = h.first
  BY <1>1 DEF Peer
<1>3. OnConn(h, accept) = IF accept THEN CheckCompleteIPackets(b) ELSE Close(b)
  BY DEF OnConn
<1> HIDE DEF b
<1>4. Good(b)
  BY <1>2 DEF Good, Fits, Own, HandedOver, Waits, Rests
<1> QED
  BY <1>1, <1>2, <1>3, <1>4, GoodComplete, GoodClose

-----------------------------------------------------------------------------
(* The packets of the other side *)

(* A Conn: the connection starts with its number, unless it has begun.     *)
LEMMA GoodConn ==
    ASSUME NEW h, Good(h), h.status # "None", NEW m \in Greeting, NEW accept \in BOOLEAN
    PROVE  LET c == HandleConn(h, m, accept) IN Good(c) /\ c.o <= h.o
<1> DEFINE begun == h.status = "Works" /\ h.i # m.nr
           a == [h EXCEPT !.got = <<>>]
           old == IF begun THEN DoConn(a) ELSE h
           new == [old EXCEPT !.r = m.nr, !.i = m.nr, !.ipackets = {}, !.timer = FALSE, !.asked = 0,
                              !.first = IF old.got = <<>> THEN m.nr ELSE old.first]
<1>1. h \in Peer /\ h.o \in Nat /\ m.nr \in Nat
  BY DEF Good, Peer, Greeting
(* What was handed over is forgotten with the old connection.              *)
<1>2. /\ old \in Peer /\ old.o = h.o /\ Own(old) /\ old.status \in {"Conn", "Works"}
      /\ Waits(old) /\ Follow(old.got, old.first)
      /\ old.got = <<>> \/ Reach(old.got, old.first) = m.nr
  <2>1. CASE begun
    <3>1. MaxRetries \in 0 .. MaxRetries
      BY OptionsAssumption
    <3>2. ConnMsg(h.o) \in Datagram
      BY <1>1 DEF ConnMsg, Datagram, Greeting
    <3>3. a \in Peer /\ a.o = h.o /\ a.send = h.send /\ a.opackets = h.opackets /\ a.got = <<>>
      <4>1. <<>> \in Seq(Received)
        OBVIOUS
      <4> QED
        BY <1>1, <4>1 DEF Peer
    <3> HIDE DEF a
    <3>4. DoConn(a) = [[a EXCEPT !.status = "Conn", !.retries = MaxRetries] EXCEPT
                          !.send = a.send \o <<ConnMsg(a.o)>>]
      BY <3>3 DEF DoConn, SendDirect, Peer
    <3>5. a.send \o <<ConnMsg(a.o)>> \in Seq(Datagram)
      BY <3>2, <3>3 DEF Peer
    <3>6. /\ DoConn(a) \in Peer /\ DoConn(a).o = h.o /\ DoConn(a).opackets = h.opackets
          /\ DoConn(a).status = "Conn" /\ DoConn(a).got = <<>>
      BY <3>1, <3>3, <3>4, <3>5 DEF Peer
    <3>7. old = DoConn(a)
      BY <2>1
    <3> HIDE DEF old
    <3>8. Own(old)
      BY <3>6, <3>7 DEF Own, Good
    <3> QED
      BY <3>6, <3>7, <3>8 DEF Waits, Follow
  <2>2. CASE ~begun
    <3>1. old = h
      BY <2>2
    <3>2. h.status \in {"Conn", "Works"}
      BY <1>1 DEF Peer
    <3> HIDE DEF old
    <3>3. h.got = <<>> \/ Reach(h.got, h.first) = m.nr
      BY <2>2, <3>2 DEF Good, Waits, HandedOver
    <3> QED
      BY <1>1, <3>1, <3>2, <3>3 DEF Good, HandedOver
  <2> QED
    BY <2>1, <2>2
<1> HIDE DEF old
<1>3. /\ new \in Peer /\ new.o = h.o /\ new.status = old.status /\ new.opackets = old.opackets
      /\ new.i = m.nr /\ new.ipackets = {} /\ new.got = old.got
      /\ new.first = IF old.got = <<>> THEN m.nr ELSE old.first
  <2> DEFINE first == IF old.got = <<>> THEN m.nr ELSE old.first
  <2>1. first \in Nat
    BY <1>1, <1>2 DEF Peer
  <2> HIDE DEF first
  <2>2. new = [old EXCEPT !.r = m.nr, !.i = m.nr, !.ipackets = {}, !.timer = FALSE, !.asked = 0,
                          !.first = first]
    BY DEF first
  <2> HIDE DEF new
  <2>3. /\ new \in Peer /\ new.o = old.o /\ new.status = old.status /\ new.opackets = old.opackets
        /\ new.i = m.nr /\ new.ipackets = {} /\ new.got = old.got /\ new.first = first
    BY <1>1, <1>2, <2>1, <2>2 DEF Peer
  <2> QED
    BY <1>2, <2>3 DEF first
<1>4. HandleConn(h, m, accept) = OnConn(SendDirect(new, <<ConnOKMsg(new.o)>>), accept)
  BY DEF HandleConn, old
<1> HIDE DEF new
<1>5. Good(new)
  <2>1. Fits(new)
    BY <1>3, FS_EmptySet DEF Fits, Fitting
  <2>2. Own(new) /\ Waits(new) /\ Rests(new)
    BY <1>2, <1>3 DEF Own, Waits, Rests
  <2>3. HandedOver(new)
    BY <1>2, <1>3 DEF HandedOver, Follow, Reach
  <2> QED
    BY <1>3, <2>1, <2>2, <2>3 DEF Good
<1>6. <<ConnOKMsg(new.o)>> \in Seq(Datagram)
  <2>1. ConnOKMsg(new.o) \in Datagram
    BY <1>1, <1>3 DEF ConnOKMsg, Datagram, Greeting
  <2> QED
    BY <2>1
<1>7. new.status # "None"
  BY <1>2, <1>3
<1> QED
  <2> DEFINE d == SendDirect(new, <<ConnOKMsg(new.o)>>)
  <2>1. Good(d) /\ d.o = h.o /\ d.status # "None"
    BY <1>3, <1>5, <1>6, <1>7, GoodSend
  <2> HIDE DEF d
  <2>2. Good(OnConn(d, accept)) /\ OnConn(d, accept).o <= d.o
    BY <2>1, GoodOnConn
  <2> QED
    BY <1>4, <2>1, <2>2 DEF d

(* A fragment that is new and fits is kept. *)
LEMMA GoodAdd ==
    ASSUME NEW h, Good(h), h.status # "None", NEW m \in Fragment, ~(m.nr < h.i)
    PROVE  LET c == AddFragment(h, m) IN Good(c) /\ c.o = h.o /\ c.status = h.status
<1> DEFINE b == AddFragment(h, m)
           more == h.ipackets \cup {m}
           fits == /\ m.nr \in m.fnr .. m.fnr + m.cnt - 1
                   /\ ~FragmentPresent(h, m.nr)
                   /\ \A f \in h.ipackets :
                         \/ f.fnr = m.fnr /\ f.cnt = m.cnt
                         \/ f.fnr + f.cnt <= m.fnr
                         \/ m.fnr + m.cnt <= f.fnr
<1>1. h \in Peer /\ Fits(h) /\ h.ipackets \in SUBSET Fragment /\ h.i \in Nat
  BY DEF Good, Peer
<1>2. b = IF fits THEN [h EXCEPT !.ipackets = more] ELSE h
  BY DEF AddFragment
<1>3. ASSUME fits PROVE Good(b) /\ b.o = h.o /\ b.status = h.status
  <2>1. more \in SUBSET Fragment
    BY <1>1
  <2>2. /\ m.nr \in m.fnr .. End(m) - 1
        /\ \A f \in h.ipackets : f.nr # m.nr /\ Apart(f, m) /\ Apart(m, f)
    <3>1. m.nr \in m.fnr .. End(m) - 1
      <4>1. m.nr \in m.fnr .. m.fnr + m.cnt - 1
        BY <1>3
      <4> HIDE DEF fits
      <4> QED
        BY <4>1, FragmentNumbers DEF End
    <3>2. \A f \in h.ipackets : f.nr # m.nr
      BY <1>3 DEF FragmentPresent
    <3>3. \A f \in h.ipackets : Apart(f, m)
      BY <1>3, Zenon DEF Apart, End
    <3>4. \A f \in h.ipackets : Apart(f, m) => Apart(m, f)
      BY Zenon DEF Apart
    <3> QED
      BY <3>1, <3>2, <3>3, <3>4
  <2>3. Apart(m, m)
    BY DEF Apart
  <2>4. IsFiniteSet(more)
    BY <1>1, FS_AddElement DEF Fits, Fitting
  <2>5. \A f \in h.ipackets : f.nr \in f.fnr .. End(f) - 1 /\ f.nr >= h.i
    BY <1>1 DEF Fits, Fitting
  <2>6. \A f, g \in h.ipackets : (f.nr = g.nr => f = g) /\ Apart(f, g)
    BY <1>1 DEF Fits, Fitting
  <2>7. m.nr >= h.i
    BY <1>1, <1>3, FragmentNumbers
  <2> HIDE DEF fits
  <2>8. Fitting(more)
    BY <2>1, <2>2, <2>3, <2>4, <2>5, <2>6 DEF Fitting
  <2>9. \A f \in more : f.nr >= h.i
    BY <2>5, <2>7
  <2> HIDE DEF more, b
  <2>10. b = [h EXCEPT !.ipackets = more]
    BY <1>2, <1>3
  <2>11. /\ b \in Peer /\ b.status = h.status /\ b.o = h.o /\ b.opackets = h.opackets
         /\ b.i = h.i /\ b.ipackets = more /\ b.got = h.got /\ b.first = h.first
    BY <1>1, <2>1, <2>10 DEF Peer
  <2> QED
    BY <2>8, <2>9, <2>11 DEF Good, Fits, Own, HandedOver, Waits, Rests
<1>4. ~fits => b = h
  BY <1>2
<1> HIDE DEF fits, b
<1>5. Good(b) /\ b.o = h.o /\ b.status = h.status
  BY <1>3, <1>4
<1> QED
  BY <1>5 DEF b

(* Data: what is old is dropped. *)
LEMMA GoodData ==
    ASSUME NEW h, Good(h), h.status # "None", NEW m \in Fragment
    PROVE  LET c == HandleData(h, m) IN Good(c) /\ c.o = h.o
<1> DEFINE b == AddFragment(h, m)
<1>1. ~(m.nr < h.i) => Good(b) /\ b.o = h.o /\ b.status = h.status
  BY GoodAdd
<1> HIDE DEF b
<1>2. HandleData(h, m) = IF m.nr < h.i THEN h ELSE CheckCompleteIPackets(b)
  BY DEF HandleData, b
<1> QED
  BY <1>1, <1>2, GoodComplete

(* Acknowledged packets are forgotten, the others stay.                    *)
LEMMA ClearedPackets ==
    ASSUME NEW P \in Seq(OPacket), NEW ack \in Nat
    PROVE  LET Q == ClearPackets(P, ack) IN
           Q \in Seq(OPacket) /\ \A k \in DOMAIN Q : \E j \in DOMAIN P : Q[k] = P[j]
<1> DEFINE K == {k \in DOMAIN P : \A j \in 1..k : P[j].nr < ack}
           n == Cardinality(K)
           Q == SubSeq(P, n + 1, Len(P))
<1>1. n \in Nat
  <2>1. IsFiniteSet(1 .. Len(P)) /\ K \in SUBSET (1 .. Len(P))
    <3>1. Len(P) \in Int /\ DOMAIN P = 1 .. Len(P)
      OBVIOUS
    <3>2. IsFiniteSet(1 .. Len(P))
      BY <3>1, FS_Interval
    <3> QED
      BY <3>1, <3>2
  <2>2. IsFiniteSet(K)
    BY <2>1, FS_Subset
  <2> QED
    BY <2>2, FS_CardinalityType
<1>2. ClearPackets(P, ack) = Q
  BY DEF ClearPackets, From
<1> HIDE DEF n
<1>3. /\ Q \in Seq(OPacket)
      /\ \A k \in DOMAIN Q : k + n \in DOMAIN P /\ Q[k] = P[k + n]
  BY <1>1
<1> QED
  BY <1>2, <1>3

(* What a Check acknowledges is forgotten, and what it asks for is sent, as *)
(* far as it is there.                                                     *)
LEMMA AnswerParts ==
    ASSUME NEW h, Good(h), h.status # "None", NEW m \in Question, NEW x \in SUBSET Reasons
    PROVE  LET P == ClearPackets(h.opackets, m.ack)
               found == {n \in m.ask : \A k \in m.ask : k <= n => HasFragment(P, k)}
               N == Sorted(found)
               resend == [k \in DOMAIN N |-> GetFragment(GetPacketFrgm(P, N[k]), N[k])]
               b == SendDirect([h EXCEPT !.opackets = P], resend)
               d == [b EXCEPT !.starved = x]
           IN  /\ resend \in Seq(Datagram)
               /\ Good(b) /\ b.o = h.o /\ b.status = h.status
               /\ Good(d) /\ d.o = h.o /\ d.status = h.status
<1> DEFINE P == ClearPackets(h.opackets, m.ack)
           found == {n \in m.ask : \A k \in m.ask : k <= n => HasFragment(P, k)}
           N == Sorted(found)
           resend == [k \in DOMAIN N |-> GetFragment(GetPacketFrgm(P, N[k]), N[k])]
           a == [h EXCEPT !.opackets = P]
           b == SendDirect(a, resend)
           d == [b EXCEPT !.starved = x]
<1>1. /\ h \in Peer /\ h.o \in Nat /\ h.opackets \in Seq(OPacket)
      /\ m.ack \in Nat /\ m.ask \in SUBSET Nat /\ IsFiniteSet(m.ask)
  BY DEF Good, Peer, Question
<1>2. P \in Seq(OPacket) /\ \A k \in DOMAIN P : \E j \in DOMAIN h.opackets : P[k] = h.opackets[j]
  BY <1>1, ClearedPackets
<1> HIDE DEF P
<1>3. found \in SUBSET m.ask /\ \A n \in found : n \in Nat /\ HasFragment(P, n)
  BY <1>1
<1> HIDE DEF found
<1>4. found \in SUBSET Nat /\ IsFiniteSet(found)
  BY <1>1, <1>3, FS_Subset
<1>5. Cardinality(found) \in Nat /\ DOMAIN N = 1 .. Cardinality(found) /\ \A k \in DOMAIN N : N[k] \in found
  BY <1>4, SortedNumbers
<1> HIDE DEF N
<1>6. \A k \in DOMAIN N : GetFragment(GetPacketFrgm(P, N[k]), N[k]) \in Datagram
  <2> SUFFICES ASSUME NEW k \in DOMAIN N PROVE GetFragment(GetPacketFrgm(P, N[k]), N[k]) \in Datagram
    OBVIOUS
  <2> DEFINE n == N[k]
             p == GetPacketFrgm(P, n)
  <2>1. n \in Nat /\ HasFragment(P, n)
    BY <1>3, <1>5
  <2>2. p \in OPacket
    <3>1. \E j \in DOMAIN P : n \in Numbers(P[j])
      BY <2>1 DEF HasFragment
    <3>2. \A j \in DOMAIN P : P[j] \in OPacket
      BY <1>2
    <3> HIDE DEF n
    <3> QED
      BY <3>1, <3>2 DEF GetPacketFrgm
  <2> HIDE DEF n, p
  <2>3. GetFragment(p, n) \in Fragment
    BY <2>1, <2>2 DEF GetFragment, Fragment, OPacket
  <2> QED
    BY <2>3 DEF Datagram, p, n
<1>7. resend \in Seq(Datagram)
  BY <1>5, <1>6
<1> HIDE DEF resend
<1>8. /\ a \in Peer /\ a.status = h.status /\ a.o = h.o /\ a.opackets = P
      /\ a.i = h.i /\ a.ipackets = h.ipackets /\ a.got = h.got /\ a.first = h.first
  BY <1>1, <1>2 DEF Peer
<1> HIDE DEF a
<1>9. Good(a)
  <2>1. Own(a)
    BY <1>2, <1>8 DEF Own, Good
  <2> QED
    BY <1>8, <2>1 DEF Good, Fits, HandedOver, Waits, Rests
<1>10. Good(b) /\ b.o = h.o /\ b.status = h.status
  BY <1>7, <1>8, <1>9, GoodSend
<1> HIDE DEF b
<1>11. Good(d) /\ d.o = h.o /\ d.status = h.status
  <2>1. b \in Peer
    BY <1>10 DEF Good
  <2>2. /\ d \in Peer /\ d.status = b.status /\ d.o = b.o /\ d.opackets = b.opackets
        /\ d.i = b.i /\ d.ipackets = b.ipackets /\ d.got = b.got /\ d.first = b.first
    BY <2>1 DEF Peer
  <2> HIDE DEF d
  <2> QED
    BY <1>10, <2>2, GoodLike
<1> HIDE DEF d
<1> QED
  BY <1>7, <1>10, <1>11 DEF P, found, N, resend, a, b, d

(* A Check: what it acknowledges is forgotten, what it asks for is sent.   *)
LEMMA GoodAnswer ==
    ASSUME NEW h, Good(h), h.status # "None", NEW m \in Question
    PROVE  LET c == HandleCheck(h, m) IN Good(c) /\ c.o <= h.o
<1> DEFINE P == ClearPackets(h.opackets, m.ack)
           found == {n \in m.ask : \A k \in m.ask : k <= n => HasFragment(P, k)}
           N == Sorted(found)
           resend == [k \in DOMAIN N |-> GetFragment(GetPacketFrgm(P, N[k]), N[k])]
           Excused(n) == n < h.thrown \/ HasFragment(P, n)
           x == {IF \A n \in m.ask : Excused(n) THEN "Thrown" ELSE "Cleared"}
           b == SendDirect([h EXCEPT !.opackets = P], resend)
           d == [b EXCEPT !.starved = x]
<1>0. x \in SUBSET Reasons
  BY DEF Reasons
<1>1. Good(b) /\ b.o = h.o /\ Good(d) /\ d.status # "None"
  <2> HIDE DEF x
  <2> QED
    BY <1>0, AnswerParts
<1>2. HandleCheck(h, m) = IF found = m.ask THEN b ELSE Close(d)
  BY DEF HandleCheck
<1> HIDE DEF b, d
<1>3. Good(Close(d)) /\ Close(d).o = 0
  BY <1>1, GoodClose
<1>4. h.o \in Nat
  BY DEF Good, Peer
<1> QED
  BY <1>1, <1>2, <1>3, <1>4

(* Whatever datagram comes, the peer stays good and gives out no numbers.  *)
LEMMA GoodRecv ==
    ASSUME NEW h, Good(h), NEW m \in Datagram, NEW accept \in BOOLEAN,
           NEW c \in OnPacket(h, m, accept)
    PROVE  Good(c) /\ c.o <= h.o
<1>1. h \in Peer /\ h.o \in Nat
  BY DEF Good, Peer
<1>2. CASE h.status = "None"
  <2>1. NewPeer.status # "None" /\ NewPeer.got = <<>> /\ Good(NewPeer) /\ NewPeer.o = 0
    BY GoodNew DEF NewPeer
  <2>2. Good(DoConn(NewPeer)) /\ DoConn(NewPeer).o = 0
    BY <2>1, GoodDoConn
  <2>3. c = DoConn(NewPeer) \/ c = h
    BY <1>2 DEF OnPacket
  <2> QED
    BY <1>1, <2>2, <2>3
<1>3. CASE h.status # "None"
  <2> DEFINE a == [h EXCEPT !.r = larger(h.r, m.nr)]
  <2>1. m.nr \in Nat /\ larger(h.r, m.nr) \in Nat
    BY <1>1 DEF Datagram, Fragment, Question, Greeting, Peer, larger
  <2>2. /\ a \in Peer /\ a.status = h.status /\ a.o = h.o /\ a.opackets = h.opackets
        /\ a.i = h.i /\ a.ipackets = h.ipackets /\ a.got = h.got /\ a.first = h.first
    BY <1>1, <2>1 DEF Peer
  <2>3. PICK b \in Check(a, FALSE) : c = Handle(b, m, accept)
    BY <1>3 DEF OnPacket, OnRecv
  <2> HIDE DEF a
  <2>4. Good(a)
    BY <1>3, <2>2, GoodLike
  <2>5. Good(b) /\ b.o = h.o /\ b.status # "None"
    BY <1>3, <2>2, <2>3, <2>4, GoodCheck
  <2>6. CASE m \in Fragment
    <3>1. c = HandleData(b, m)
      BY <2>3, <2>6 DEF Handle, Fragment
    <3> QED
      BY <1>1, <2>5, <2>6, <3>1, GoodData
  <2>7. CASE m \in Question
    <3>1. c = HandleCheck(b, m)
      BY <2>3, <2>7 DEF Handle, Question
    <3> QED
      BY <2>5, <2>7, <3>1, GoodAnswer
  <2>8. CASE m \in Greeting
    <3>1. m.kind = "Conn" => c = HandleConn(b, m, accept)
      BY <2>3 DEF Handle
    <3>2. m.kind = "ConnOK" => c = b \/ c = OnConn(b, accept)
      BY <2>3 DEF Handle, HandleConnOK
    <3>3. m.kind = "Close" => c = OnClose(b)
      BY <2>3 DEF Handle
    <3>4. m.kind \in {"Conn", "ConnOK", "Close"}
      BY <2>8 DEF Greeting
    <3>5. /\ Good(HandleConn(b, m, accept)) /\ HandleConn(b, m, accept).o <= b.o
          /\ Good(OnConn(b, accept)) /\ OnConn(b, accept).o <= b.o
          /\ Good(OnClose(b)) /\ OnClose(b).o = 0
      BY <2>5, <2>8, GoodConn, GoodOnConn, GoodClose
    <3> QED
      BY <1>1, <2>5, <3>1, <3>2, <3>3, <3>4, <3>5
  <2> QED
    BY <2>6, <2>7, <2>8 DEF Datagram
<1> QED
  BY <1>2, <1>3

-----------------------------------------------------------------------------
(* The inductive invariant: the peers are good and give out no more        *)
(* numbers than bounded, and what is under way are datagrams.              *)
Sound ==
    /\ peer \in [Sides -> Peer]
    /\ \A s \in Sides :
          /\ Good(peer[s]) /\ peer[s].o <= MaxO[s]
          /\ peer[s].send = <<>> /\ peer[s].starved = {}
    /\ net \in [Sides -> Seq(Datagram)]
    /\ lives \in [Sides -> Nat]
    /\ starved \subseteq Reasons /\ allowed \in DOMAIN Networks /\ faults \in 0..Networks[allowed]

(* At first there are no peers. *)
LEMMA InitSound == Init => Sound
<1> SUFFICES ASSUME Init PROVE Sound
  OBVIOUS
<1>1. peer = [s \in Sides |-> NoPeer] /\ Good(NoPeer) /\ NoPeer \in Peer /\ NoPeer.o = 0
  BY GoodNew DEF Init, Good
<1>2. NoPeer.send = <<>> /\ NoPeer.starved = {}
  BY DEF NoPeer, NewPeer
<1>3. \A s \in Sides : MaxO[s] \in Nat
  BY BoundsAssumption
<1>4. Networks[allowed] \in Nat /\ allowed \in DOMAIN Networks
  BY NetworksAssumption DEF Init
<1>5. peer \in [Sides -> Peer]
  BY <1>1
<1>6. \A s \in Sides : peer[s] = NoPeer
  BY <1>1
<1>7. \A s \in Sides : Good(peer[s]) /\ peer[s].o <= MaxO[s] /\ peer[s].send = <<>> /\ peer[s].starved = {}
  BY <1>1, <1>2, <1>3, <1>6
<1>8. net \in [Sides -> Seq(Datagram)] /\ lives \in [Sides -> Nat] /\ starved \subseteq Reasons
  BY DEF Init
<1>9. faults \in 0 .. Networks[allowed]
  BY <1>4 DEF Init
<1> QED
  BY <1>4, <1>5, <1>7, <1>8, <1>9 DEF Sound

(* The two sides. *)
LEMMA TwoComputers ==
    ASSUME NEW s \in Sides
    PROVE  Other(s) \in Sides /\ Other(s) # s
<1>1. \E t \in Sides : t # s
  <2>1. Cardinality(Sides) = 2 /\ Cardinality({s}) = 1
    BY SidesAssumption, FS_Singleton
  <2>2. Sides # {s}
    BY <2>1
  <2> QED
    BY <2>2
<1> QED
  BY <1>1 DEF Other

(* A side whose peer becomes another good one.                             *)
LEMMA BecomesSound ==
    ASSUME Sound, NEW s \in Sides, NEW H, NEW q \in Seq(Datagram),
           \A h \in H : Good(h) /\ h.o <= MaxO[s],
           Becomes(s, H, q), faults' \in 0 .. Networks[allowed]
    PROVE  Sound'
<1>1. PICK h \in H :
         /\ peer' = [peer EXCEPT ![s] = [h EXCEPT !.send = <<>>, !.starved = {}]]
         /\ net' = [net EXCEPT ![s] = q, ![Other(s)] = @ \o h.send]
         /\ lives' = IF peer[s].status = "None" /\ h.status # "None"
                     THEN [lives EXCEPT ![s] = @ + 1] ELSE lives
         /\ starved' = starved \cup h.starved
         /\ UNCHANGED allowed
  BY DEF Becomes
<1> DEFINE c == [h EXCEPT !.send = <<>>, !.starved = {}]
           o == Other(s)
<1>2. Good(h) /\ h.o <= MaxO[s] /\ h \in Peer /\ h.send \in Seq(Datagram)
  BY DEF Good, Peer
<1>3. /\ c \in Peer /\ c.status = h.status /\ c.o = h.o /\ c.opackets = h.opackets
      /\ c.i = h.i /\ c.ipackets = h.ipackets /\ c.got = h.got /\ c.first = h.first
      /\ c.send = <<>> /\ c.starved = {} /\ [c EXCEPT !.send = <<>>, !.starved = {}] = c
  <2>1. <<>> \in Seq(Datagram)
    OBVIOUS
  <2> QED
    BY <1>2, <2>1 DEF Peer
<1>4. Rests(c)
  BY <1>2, <1>3 DEF Good, Rests
<1>5. peer' = [peer EXCEPT ![s] = c]
  BY <1>1
<1> HIDE DEF c
<1>6. Good(c)
  BY <1>2, <1>3, <1>4 DEF Good, Fits, Own, HandedOver, Waits
<1>7. peer' \in [Sides -> Peer]
  BY <1>3, <1>5 DEF Sound
<1>8. \A t \in Sides : /\ Good(peer'[t]) /\ peer'[t].o <= MaxO[t]
                       /\ peer'[t].send = <<>> /\ peer'[t].starved = {}
  <2>1. \A t \in Sides : (peer'[t] = c /\ t = s) \/ peer'[t] = peer[t]
    BY <1>5 DEF Sound
  <2> QED
    BY <1>2, <1>3, <1>6, <2>1 DEF Sound
<1>9. net' \in [Sides -> Seq(Datagram)]
  <2>1. o \in Sides /\ o # s
    BY TwoComputers
  <2>2. net[o] \o h.send \in Seq(Datagram)
    BY <1>2, <2>1 DEF Sound
  <2>3. net' = [net EXCEPT ![s] = q, ![o] = net[o] \o h.send]
    BY <1>1, <2>1 DEF Sound
  <2> QED
    BY <2>1, <2>2, <2>3 DEF Sound
<1>10. lives' \in [Sides -> Nat]
  <2>1. lives \in [Sides -> Nat] /\ lives[s] + 1 \in Nat
    BY DEF Sound
  <2>2. lives' = lives \/ lives' = [lives EXCEPT ![s] = lives[s] + 1]
    BY <1>1
  <2> QED
    BY <2>1, <2>2
<1>11. starved' \subseteq Reasons /\ allowed' = allowed
  <2>1. h.starved \in SUBSET Reasons
    BY <1>2 DEF Peer
  <2> QED
    BY <1>1, <2>1 DEF Sound
<1> QED
  BY <1>7, <1>8, <1>9, <1>10, <1>11 DEF Sound

(* A datagram arrives. *)
LEMMA DeliverSound ==
    ASSUME Sound, NEW s \in Sides, NEW m \in Datagram, NEW q \in Seq(Datagram),
           Deliver(s, m, q), faults' \in 0 .. Networks[allowed]
    PROVE  Sound'
<1>1. PICK accept \in BOOLEAN : Becomes(s, OnPacket(peer[s], m, accept), q)
  BY DEF Deliver
<1>2. Good(peer[s]) /\ peer[s].o <= MaxO[s] /\ peer[s].o \in Nat /\ MaxO[s] \in Nat
  BY BoundsAssumption DEF Sound, Good, Peer
<1>3. \A h \in OnPacket(peer[s], m, accept) : Good(h) /\ h.o <= MaxO[s]
  <2> SUFFICES ASSUME NEW h \in OnPacket(peer[s], m, accept) PROVE Good(h) /\ h.o <= MaxO[s]
    OBVIOUS
  <2>1. Good(h) /\ h.o <= peer[s].o
    BY <1>2, GoodRecv
  <2>2. h.o \in Nat
    BY <2>1 DEF Good, Peer
  <2> QED
    BY <1>2, <2>1, <2>2
<1> QED
  BY <1>1, <1>3, BecomesSound

(* A packet of the size c that s sends gets the next numbers, is kept as   *)
(* long as there is room, and its fragments are said.                      *)
Outgoing(s, c) == [nr |-> peer[s].o, cnt |-> c, life |-> lives[s]]
Kept(P, p) == LET Q == Append(P, p) IN IF Len(Q) > Backlog THEN Tail(Q) ELSE Q
ThrownAway(h, p) ==
    LET Q == Append(h.opackets, p)
    IN  IF Len(Q) > Backlog THEN larger(h.thrown, Head(Q).nr + Head(Q).cnt) ELSE h.thrown
Fragments(p) == [k \in 1..p.cnt |-> GetFragment(p, p.nr + k - 1)]
Sent(s, c) ==
    [peer[s] EXCEPT !.o = peer[s].o + c, !.opackets = Kept(peer[s].opackets, Outgoing(s, c)),
                    !.thrown = ThrownAway(peer[s], Outgoing(s, c)),
                    !.send = Fragments(Outgoing(s, c))]

(* The packets kept are the new one and old ones.                          *)
LEMMA KeptPackets ==
    ASSUME NEW P \in Seq(OPacket), NEW p \in OPacket
    PROVE  LET K == Kept(P, p) IN
           K \in Seq(OPacket) /\ \A k \in DOMAIN K : K[k] = p \/ \E j \in DOMAIN P : K[k] = P[j]
<1> DEFINE Q == Append(P, p)
           K == Kept(P, p)
<1>1. /\ Q \in Seq(OPacket) /\ Q # <<>>
      /\ \A k \in DOMAIN Q : Q[k] = p \/ \E j \in DOMAIN P : Q[k] = P[j]
  OBVIOUS
<1>2. K = Q \/ K = Tail(Q)
  BY DEF Kept
<1> HIDE DEF Q
<1>3. Tail(Q) \in Seq(OPacket) /\ \A k \in DOMAIN Tail(Q) : k + 1 \in DOMAIN Q /\ Tail(Q)[k] = Q[k + 1]
  BY <1>1
<1> HIDE DEF K
<1> QED
  BY <1>1, <1>2, <1>3 DEF K

(* How far packets were thrown away does not go back. *)
LEMMA ThrownPackets ==
    ASSUME NEW h \in Peer, NEW p \in OPacket
    PROVE  ThrownAway(h, p) \in Nat /\ ThrownAway(h, p) >= h.thrown
<1> DEFINE Q == Append(h.opackets, p)
<1>1. h.thrown \in Nat /\ h.opackets \in Seq(OPacket)
  BY DEF Peer
<1>2. Q \in Seq(OPacket) /\ Q # <<>>
  BY <1>1
<1> HIDE DEF Q
<1>3. Head(Q) \in OPacket
  BY <1>2
<1>4. Head(Q).nr \in Nat /\ Head(Q).cnt \in Nat
  BY <1>3, SizesAssumption DEF OPacket
<1>5. ThrownAway(h, p) = IF Len(Q) > Backlog THEN larger(h.thrown, Head(Q).nr + Head(Q).cnt) ELSE h.thrown
  BY DEF ThrownAway, Q
<1> QED
  BY <1>1, <1>4, <1>5 DEF larger

(* A packet is sent. *)
LEMMA SendParts ==
    ASSUME Sound, NEW s \in Sides, Send(s)
    PROVE  \E c \in Sizes :
              /\ peer[s].status = "Works" /\ peer[s].o + c <= MaxO[s] /\ c \in Nat /\ c > 0
              /\ Outgoing(s, c) \in OPacket /\ Fragments(Outgoing(s, c)) \in Seq(Datagram)
              /\ Kept(peer[s].opackets, Outgoing(s, c)) \in Seq(OPacket)
              /\ Good(Sent(s, c)) /\ Becomes(s, {Sent(s, c)}, net[s])
<1> DEFINE h == peer[s]
<1>1. /\ Good(h) /\ h \in Peer /\ h.o \in Nat /\ h.opackets \in Seq(OPacket) /\ h.status = "Works"
      /\ h.send = <<>>
  BY DEF Sound, Good, Peer, Send
<1>2. net[s] \in Seq(Datagram) /\ lives[s] \in Nat /\ MaxO[s] \in Nat
  BY BoundsAssumption DEF Sound
<1>3. PICK c \in Sizes :
        LET p == Outgoing(s, c)
        IN  /\ p.nr + c <= MaxO[s]
            /\ Becomes(s, {SendPacket(AddPacket([h EXCEPT !.o = h.o + c], p), p)}, net[s])
  BY DEF Send, Outgoing
<1> DEFINE x == Outgoing(s, c)
           K == Kept(h.opackets, x)
           ms == Fragments(x)
           T == ThrownAway(h, x)
           a == [h EXCEPT !.o = h.o + c, !.opackets = K, !.thrown = T]
           e == Sent(s, c)
<1>4. c \in Nat /\ c > 0
  <2>1. c \in Nat \ {0}
    BY SizesAssumption
  <2> QED
    BY <2>1
<1>5. x \in OPacket /\ x.nr = h.o /\ x.cnt = c /\ x.life = lives[s] /\ h.o + c \in Nat
  BY <1>1, <1>2, <1>4 DEF OPacket, Outgoing
<1> HIDE DEF x
<1>6. h.o + c <= MaxO[s] /\ Becomes(s, {SendDirect(a, ms)}, net[s])
  <2> DEFINE b == [h EXCEPT !.o = h.o + c]
             Q == Append(h.opackets, x)
  <2>1. b.opackets = h.opackets /\ b.thrown = h.thrown
    BY <1>1 DEF Peer
  <2>2. Len(Q) \in Nat /\ Backlog \in Nat
    BY <1>1, <1>5, OptionsAssumption
  <2>3. AddPacket(b, x) = IF Len(Q) <= Backlog THEN [b EXCEPT !.opackets = Q]
                          ELSE [b EXCEPT !.opackets = Tail(Q), !.thrown = larger(h.thrown, Head(Q).nr + Head(Q).cnt)]
    <3> HIDE DEF b
    <3> QED
      BY <2>1 DEF AddPacket
  <2>4. AddPacket(b, x) = [b EXCEPT !.opackets = K, !.thrown = T]
    <3>1. CASE Len(Q) <= Backlog
      <4>1. ~(Len(Q) > Backlog)
        BY <2>2, <3>1
      <4>2. K = Q /\ T = h.thrown
        BY <4>1 DEF Kept, ThrownAway
      <4> HIDE DEF Q, K, T
      <4> QED
        BY <1>1, <2>3, <3>1, <4>2 DEF Peer
    <3>2. CASE ~(Len(Q) <= Backlog)
      <4>1. Len(Q) > Backlog
        BY <2>2, <3>2
      <4>2. K = Tail(Q) /\ T = larger(h.thrown, Head(Q).nr + Head(Q).cnt)
        BY <4>1 DEF Kept, ThrownAway
      <4> QED
        BY <2>3, <3>2, <4>2
    <3> QED
      BY <3>1, <3>2
  <2>5. [b EXCEPT !.opackets = K, !.thrown = T] = a
    <3> HIDE DEF K, T
    <3> QED
      OBVIOUS
  <2> HIDE DEF b, a
  <2> QED
    BY <1>3, <1>5, <2>4, <2>5 DEF SendPacket, Fragments, x, b
<1>7. K \in Seq(OPacket) /\ \A k \in DOMAIN K : K[k] = x \/ \E j \in DOMAIN h.opackets : K[k] = h.opackets[j]
  BY <1>1, <1>5, KeptPackets
<1>8. ms \in Seq(Datagram)
  <2>1. x.cnt \in Nat /\ x.nr \in Nat /\ x.cnt \in Sizes /\ x.life \in Nat
    BY <1>1, <1>2, <1>4, <1>5
  <2>2. \A k \in 1 .. x.cnt : GetFragment(x, x.nr + k - 1) \in Datagram
    <3> SUFFICES ASSUME NEW k \in 1 .. x.cnt PROVE GetFragment(x, x.nr + k - 1) \in Datagram
      OBVIOUS
    <3>1. x.nr + k - 1 \in Nat
      BY <2>1
    <3> QED
      BY <2>1, <3>1 DEF GetFragment, Datagram, Fragment
  <2> QED
    BY <2>1, <2>2 DEF Fragments
<1> HIDE DEF K, T, ms, h
<1>13. T \in Nat
  BY <1>1, <1>5, ThrownPackets DEF T
<1>9. /\ a \in Peer /\ a.status = h.status /\ a.o = h.o + c /\ a.opackets = K /\ a.send = <<>>
      /\ a.i = h.i /\ a.ipackets = h.ipackets /\ a.got = h.got /\ a.first = h.first
  BY <1>1, <1>5, <1>7, <1>13 DEF Peer
<1>10. e = SendDirect(a, ms)
  <2>1. e = [h EXCEPT !.o = h.o + c, !.opackets = K, !.thrown = T, !.send = ms]
    BY DEF Sent, h, K, T, ms, x
  <2>2. <<>> \o ms = ms
    BY <1>8
  <2> HIDE DEF e
  <2>3. SendDirect(a, ms) = [[h EXCEPT !.o = h.o + c, !.opackets = K, !.thrown = T] EXCEPT !.send = ms]
    <3>1. SendDirect(a, ms) = [a EXCEPT !.send = a.send \o ms]
      BY DEF SendDirect
    <3> HIDE DEF a
    <3>2. SendDirect(a, ms) = [a EXCEPT !.send = ms]
      BY <1>9, <2>2, <3>1
    <3> QED
      BY <3>2 DEF a
  <2> QED
    BY <1>1, <2>1, <2>3 DEF Peer
<1> HIDE DEF a, e
<1>11. Good(a)
  <2>1. Own(a)
    <3> SUFFICES ASSUME NEW k \in DOMAIN K PROVE K[k].nr + K[k].cnt <= h.o + c
      BY <1>9 DEF Own
    <3>1. CASE K[k] = x
      BY <1>1, <1>4, <1>5, <3>1
    <3>2. CASE \E j \in DOMAIN h.opackets : K[k] = h.opackets[j]
      <4>1. PICK j \in DOMAIN h.opackets : K[k] = h.opackets[j]
        BY <3>2
      <4>2. h.opackets[j] \in OPacket /\ h.opackets[j].nr + h.opackets[j].cnt <= h.o
        BY <1>1 DEF Good, Own
      <4>3. h.opackets[j].nr \in Nat /\ h.opackets[j].cnt \in Nat
        BY <4>2, SizesAssumption DEF OPacket
      <4> QED
        BY <1>1, <1>4, <4>1, <4>2, <4>3
    <3> QED
      BY <1>7, <3>1, <3>2
  <2> QED
    BY <1>1, <1>9, <2>1 DEF Good, Fits, HandedOver, Waits, Rests
<1>12. Good(e)
  BY <1>1, <1>8, <1>9, <1>10, <1>11, GoodSend
<1> QED
  BY <1>1, <1>4, <1>5, <1>6, <1>7, <1>8, <1>10, <1>12 DEF h, x, K, ms, e

(* The numbers of what is sent are below the bound. *)
LEMMA SendSound ==
    ASSUME Sound, NEW s \in Sides, Send(s)
    PROVE  Sound'
<1>1. PICK c \in Sizes : peer[s].o + c <= MaxO[s] /\ Good(Sent(s, c)) /\ Becomes(s, {Sent(s, c)}, net[s])
  BY SendParts
<1>2. peer[s] \in Peer /\ net[s] \in Seq(Datagram)
  BY DEF Sound
<1>3. Sent(s, c).o = peer[s].o + c
  BY <1>2 DEF Sent, Peer
<1>4. faults' \in 0 .. Networks[allowed]
  BY DEF Send, Sound
<1> QED
  BY <1>1, <1>2, <1>3, <1>4, BecomesSound

(* Only a peer has a time to ask again. *)
LEMMA TimerPeer ==
    ASSUME NEW h, Good(h), h.timer
    PROVE  h.status # "None"
<1>1. h \in Peer /\ h.timer = TRUE
  BY DEF Good, Peer
<1>2. NoPeer.timer = FALSE
  BY DEF NoPeer, NewPeer
<1>3. h.status = "None" => h.timer = NoPeer.timer
  BY <1>1 DEF Good, Rests, Peer
<1> QED
  BY <1>1, <1>2, <1>3

(* Another try to connect. *)
LEMMA RetryPeer ==
    ASSUME NEW h, Good(h), h.status = "Conn", h.retries > 0
    PROVE  LET c == [DoConn(h) EXCEPT !.retries = h.retries - 1] IN
           /\ Good(c) /\ c.o = h.o /\ c.opackets = h.opackets /\ c.got = h.got /\ c.ipackets = h.ipackets
           /\ c.send = h.send \o <<ConnMsg(h.o)>>
           /\ c = [h EXCEPT !.retries = h.retries - 1, !.send = h.send \o <<ConnMsg(h.o)>>]
<1> DEFINE d == DoConn(h)
           c == [d EXCEPT !.retries = h.retries - 1]
           ms == h.send \o <<ConnMsg(h.o)>>
<1>1. h \in Peer /\ h.got = <<>>
  BY DEF Good, Waits
<1>2. Good(d) /\ d.o = h.o /\ d.status = "Conn"
  BY <1>1, GoodDoConn
<1>3. h.retries - 1 \in 0 .. MaxRetries
  <2>1. h.retries \in 0 .. MaxRetries /\ MaxRetries \in Nat
    BY <1>1, OptionsAssumption DEF Peer
  <2> QED
    BY <2>1
<1>4. d \in Peer
  BY <1>2 DEF Good
<1>5. d = [h EXCEPT !.status = "Conn", !.retries = MaxRetries, !.send = ms]
  BY <1>1 DEF DoConn, SendDirect, Peer
<1> HIDE DEF d
<1>6. /\ c \in Peer /\ c.status = d.status /\ c.o = d.o /\ c.opackets = d.opackets
      /\ c.i = d.i /\ c.ipackets = d.ipackets /\ c.got = d.got /\ c.first = d.first
  BY <1>3, <1>4 DEF Peer
<1> HIDE DEF ms
<1>7. c = [h EXCEPT !.retries = h.retries - 1, !.send = ms]
  BY <1>1, <1>5 DEF Peer
<1> HIDE DEF c
<1>8. c.opackets = h.opackets /\ c.got = h.got /\ c.ipackets = h.ipackets /\ c.send = ms
  BY <1>1, <1>7 DEF Peer
<1>9. Good(c)
  BY <1>2, <1>6, GoodLike
<1> QED
  BY <1>2, <1>6, <1>7, <1>8, <1>9 DEF c, d, ms

(* Every step leaves the peers good. *)
LEMMA NextSound == Sound /\ [Next]_vars => Sound'
<1> SUFFICES ASSUME Sound, [Next]_vars PROVE Sound'
  OBVIOUS
<1>1. CASE UNCHANGED vars
  BY <1>1 DEF Sound, vars
<1>2. ASSUME NEW s \in Sides, Step(s) PROVE Sound'
  <2> DEFINE h == peer[s]
  <2>1. /\ Good(h) /\ h.o <= MaxO[s] /\ h \in Peer /\ h.o \in Nat /\ MaxO[s] \in Nat
        /\ net[s] \in Seq(Datagram) /\ faults \in 0 .. Networks[allowed] /\ Networks[allowed] \in Nat
    BY BoundsAssumption, NetworksAssumption DEF Sound, Good, Peer
  <2>2. ASSUME NEW f, Fault(f) PROVE faults' \in 0 .. Networks[allowed]
    BY <2>1, <2>2 DEF Fault
  <2>3. CASE Receive(s)
    <3>1. Head(net[s]) \in Datagram /\ Tail(net[s]) \in Seq(Datagram)
      BY <2>1, <2>3 DEF Receive
    <3> QED
      BY <2>1, <2>3, <3>1, DeliverSound DEF Receive
  <2>4. CASE Duplicate(s)
    <3>1. Head(net[s]) \in Datagram /\ Append(Tail(net[s]), Head(net[s])) \in Seq(Datagram)
      BY <2>1, <2>4 DEF Duplicate
    <3> QED
      BY <2>2, <2>4, <3>1, DeliverSound DEF Duplicate
  <2>5. CASE Overtake(s)
    <3>1. PICK k \in DOMAIN net[s] : Deliver(s, net[s][k], RemoveAt(net[s], k))
      BY <2>5 DEF Overtake
    <3>2. net[s][k] \in Datagram /\ RemoveAt(net[s], k) \in Seq(Datagram)
      BY <2>1 DEF RemoveAt
    <3> QED
      BY <2>2, <2>5, <3>1, <3>2, DeliverSound DEF Overtake
  <2>6. CASE Lose(s)
    <3>1. PICK k \in DOMAIN net[s] : net' = [net EXCEPT ![s] = RemoveAt(@, k)]
      BY <2>6 DEF Lose
    <3>2. RemoveAt(net[s], k) \in Seq(Datagram)
      BY <2>1 DEF RemoveAt
    <3>3. net' \in [Sides -> Seq(Datagram)]
      BY <3>1, <3>2 DEF Sound
    <3> QED
      BY <2>2, <2>6, <3>3 DEF Lose, Sound
  <2>7. CASE Restart(s)
    <3>1. \A c \in {NoPeer} : Good(c) /\ c.o <= MaxO[s]
      BY <2>1, GoodNew
    <3> QED
      BY <2>1, <2>2, <2>7, <3>1, BecomesSound DEF Restart
  <2>8. CASE Connect(s)
    <3>1. NewPeer.status # "None" /\ NewPeer.got = <<>>
      BY DEF NewPeer
    <3>2. \A c \in {DoConn(NewPeer)} : Good(c) /\ c.o <= MaxO[s]
      BY <2>1, <3>1, GoodNew, GoodDoConn
    <3> QED
      BY <2>1, <2>8, <3>2, BecomesSound DEF Connect
  <2>9. CASE Send(s)
    BY <2>9, SendSound
  <2>10. CASE DoCheck(s)
    <3>1. \A c \in Check(h, TRUE) : Good(c) /\ c.o <= MaxO[s]
      BY <2>1, <2>10, GoodCheck DEF DoCheck
    <3> QED
      BY <2>1, <2>10, <3>1, BecomesSound DEF DoCheck
  <2>11. CASE ReCheckDue(s)
    <3> DEFINE c == [h EXCEPT !.timer = FALSE]
    <3>1. /\ c \in Peer /\ c.status = h.status /\ c.o = h.o /\ c.opackets = h.opackets
          /\ c.i = h.i /\ c.ipackets = h.ipackets /\ c.got = h.got /\ c.first = h.first
      BY <2>1 DEF Peer
    <3>2. h.status # "None"
      BY <2>1, <2>11, TimerPeer DEF ReCheckDue
    <3>3. Becomes(s, {c}, net[s]) /\ faults' = faults
      BY <2>11 DEF ReCheckDue
    <3> HIDE DEF c
    <3>4. Good(c)
      BY <2>1, <3>1, <3>2, GoodLike
    <3> QED
      BY <2>1, <3>1, <3>3, <3>4, BecomesSound
  <2>12. CASE OnTimeout(s)
    <3> DEFINE c == [DoConn(h) EXCEPT !.retries = h.retries - 1]
    <3>1. h.status = "Conn"
      BY <2>12 DEF OnTimeout
    <3>2. Good(Close(h)) /\ Close(h).o = 0
      BY <2>1, <3>1, GoodClose
    <3>3. h.retries > 0 => Good(c) /\ c.o = h.o
      BY <2>1, <3>1, RetryPeer
    <3>4. \/ h.retries > 0 /\ Becomes(s, {c}, net[s])
          \/ Becomes(s, {Close(h)}, net[s])
      BY <2>12 DEF OnTimeout
    <3>5. faults' = faults
      BY <2>12 DEF OnTimeout
    <3> HIDE DEF c
    <3> QED
      BY <2>1, <3>2, <3>3, <3>4, <3>5, BecomesSound
  <2>13. CASE CloseAddr(s)
    <3>1. h.status # "None" /\ Becomes(s, {Close(h)}, net[s]) /\ faults' = faults
      BY <2>13 DEF CloseAddr
    <3>2. Good(Close(h)) /\ Close(h).o = 0
      BY <2>1, <3>1, GoodClose
    <3> QED
      BY <2>1, <3>1, <3>2, BecomesSound
  <2> QED
    BY <1>2, <2>3, <2>4, <2>5, <2>6, <2>7, <2>8, <2>9, <2>10, <2>11, <2>12, <2>13 DEF Step
<1> QED
  BY <1>1, <1>2 DEF Next

-----------------------------------------------------------------------------
(* The properties *)

(* The invariant gives the types.                                          *)
LEMMA SoundTypes == Sound => TypeOK
<1> SUFFICES ASSUME Sound PROVE TypeOK
  OBVIOUS
<1>1. ASSUME NEW s \in Sides, NEW h, h = peer[s]
      PROVE  /\ h.status \in {"None", "Conn", "Works"} /\ h.retries \in 0..MaxRetries
             /\ h.status = "None" => h = NoPeer
             /\ h.o \in 0..MaxO[s] /\ h.i \in Nat /\ h.r \in Nat
             /\ \A k \in DOMAIN h.opackets : \A n \in Numbers(h.opackets[k]) : n < h.o
             /\ \A f \in h.ipackets : f.nr >= h.i
             /\ h.send = <<>>
  <2>1. /\ Good(h) /\ h \in Peer /\ h.o <= MaxO[s] /\ MaxO[s] \in Nat
        /\ h.send = <<>> /\ h.starved = {}
    BY <1>1, BoundsAssumption DEF Sound, Good
  <2>2. /\ h.status \in {"None", "Conn", "Works"} /\ h.retries \in 0..MaxRetries
        /\ h.o \in Nat /\ h.i \in Nat /\ h.r \in Nat /\ h.opackets \in Seq(OPacket)
    BY <2>1 DEF Peer
  <2>3. h.o \in 0..MaxO[s]
    BY <2>1, <2>2
  <2>4. h.status = "None" => h = NoPeer
    <3>1. [h EXCEPT !.send = <<>>, !.starved = {}] = h
      BY <2>1 DEF Peer
    <3> QED
      BY <2>1, <3>1 DEF Good, Rests
  <2>5. ASSUME NEW k \in DOMAIN h.opackets, NEW n \in Numbers(h.opackets[k]) PROVE n < h.o
    <3>1. h.opackets[k] \in OPacket /\ h.opackets[k].nr + h.opackets[k].cnt <= h.o
      BY <2>1, <2>2 DEF Good, Own
    <3>2. h.opackets[k].nr \in Nat /\ h.opackets[k].cnt \in Nat
      BY <3>1, SizesAssumption DEF OPacket
    <3>3. n \in h.opackets[k].nr .. h.opackets[k].nr + h.opackets[k].cnt - 1
      BY DEF Numbers
    <3> QED
      BY <2>2, <3>1, <3>2, <3>3
  <2>6. \A f \in h.ipackets : f.nr >= h.i
    BY <2>1 DEF Good, Fits
  <2> QED
    BY <2>1, <2>2, <2>3, <2>4, <2>5, <2>6
<1> QED
  BY <1>1 DEF TypeOK, Sound, Reasons

(* What was handed over follows each other.                                *)
LEMMA SoundInOrder == Sound => NoneLeftOut
  BY DEF Sound, Good, HandedOver, Follow, NoneLeftOut

(* Whatever the network does, the counters and lists of a peer fit         *)
(* together: what is kept for a resend has numbers already given out, what *)
(* came too early lies above what came complete, and a closed peer keeps   *)
(* nothing (C4NetIOUDP::Peer: Send, OnRecv, OnConn, OnClose).              *)
THEOREM UdpTypeCorrect == Spec => []TypeOK
<1>1. Sound /\ [Next]_vars => Sound'
  BY NextSound
<1> QED
  BY InitSound, <1>1, SoundTypes, PTL DEF Spec

(* Whatever is lost, doubled, delayed or overtaken, and whoever restarts,  *)
(* what CheckCompleteIPackets hands over begins with the number Conn told, *)
(* and each packet begins where the one before it ends: none is left out,  *)
(* none handed over twice, none early.                                     *)
THEOREM NoneLeftOutHolds == Spec => []NoneLeftOut
<1>1. Sound /\ [Next]_vars => Sound'
  BY NextSound
<1> QED
  BY InitSound, <1>1, SoundInOrder, PTL DEF Spec
=============================================================================
