--------------------------- MODULE SpanPlanProofs ---------------------------
(* What is proved of the read plan for any register map and any limits of  *)
(* a read.                                                                 *)
EXTENDS SpanPlan, FiniteSetTheorems, FunctionTheorems, WellFoundedInduction, TLAPS

(* A set of naturals that is not empty has a least member. *)
LEMMA LeastNatural ==
  ASSUME NEW S \in SUBSET Nat, S # {}
  PROVE  \E n \in S : \A m \in S : n <= m
<1> DEFINE Upto(n) == {m \in S : m <= n}
           T == {Upto(n) : n \in S}
<1>0. \A n \in S : n \in Nat
  OBVIOUS
<1>1. T \subseteq FiniteSubsetsOf(Nat)
  <2> SUFFICES ASSUME NEW n \in S PROVE Upto(n) \in FiniteSubsetsOf(Nat)
    OBVIOUS
  <2>1. n \in Int /\ \A m \in Upto(n) : m \in Nat /\ m \in 0 .. n
    BY <1>0
  <2> HIDE DEF Upto
  <2>2. IsFiniteSet(0 .. n)
    BY <2>1, FS_Interval
  <2>3. IsFiniteSet(Upto(n))
    BY <2>1, <2>2, FS_Subset
  <2> QED BY <2>1, <2>3 DEF FiniteSubsetsOf
<1>2. T # {}
  OBVIOUS
<1>3. PICK U \in T : \A V \in T : <<V, U>> \notin StrictSubsetOrdering(Nat)
  <2> HIDE DEF T
  <2> QED BY <1>1, <1>2, FS_StrictSubsetOrderingWellFounded, WFMin
<1>4. PICK n \in S : U = Upto(n)
  OBVIOUS
<1>5. ASSUME NEW m \in S, m < n
      PROVE  FALSE
  <2>1. Upto(m) \in T
    OBVIOUS
  <2>2. \A x \in Upto(m) : x \in S /\ x <= n
    BY <1>5
  <2>3. n \in Upto(n) /\ n \notin Upto(m) /\ \A x \in Upto(n) : x \in Nat
    BY <1>0, <1>5
  <2>4. Upto(m) \subseteq Upto(n)
    BY <2>2
  <2> HIDE DEF T, Upto
  <2>5. <<Upto(m), U>> \in StrictSubsetOrdering(Nat)
    BY <1>4, <2>3, <2>4 DEF StrictSubsetOrdering
  <2> QED BY <1>3, <2>1, <2>5
<1> QED BY <1>5

(* A bounded set of naturals that is not empty has a greatest member. *)
LEMMA GreatestNatural ==
  ASSUME NEW S \in SUBSET Nat, S # {}, NEW n \in Nat, \A m \in S : m <= n
  PROVE  \E g \in S : \A m \in S : m <= g
<1> DEFINE T == {k \in Nat : n - k \in S}
<1>1. \A m \in S : n - m \in T
  <2> SUFFICES ASSUME NEW m \in S PROVE n - m \in T
    OBVIOUS
  <2>1. n - m \in Nat /\ n - (n - m) = m
    OBVIOUS
  <2> QED BY <2>1
<1>2. T \in SUBSET Nat /\ T # {}
  BY <1>1
<1>3. PICK k \in T : \A l \in T : k <= l
  <2> HIDE DEF T
  <2> QED BY <1>2, LeastNatural
<1>4. n - k \in S
  OBVIOUS
<1>5. \A m \in S : m <= n - k
  <2> SUFFICES ASSUME NEW m \in S PROVE m <= n - k
    OBVIOUS
  <2>1. k <= n - m /\ k \in Nat /\ m \in Nat
    BY <1>1, <1>3
  <2> QED BY <2>1
<1> QED BY <1>4, <1>5

----------------------------------------------------------------------------
(* Ranges of addresses, and their words *)

RunStarts(A) == {a \in A : a - 1 \notin A}
RunLength(A, a) == CHOOSE n \in 1 .. Cardinality(A) : Addresses(a, n) \subseteq A /\ a + n \notin A

Ranges == [start : Nat, count : Nat \ {0}]
Words(range) == Addresses(range.start, range.count)
WordsOfAll(ranges) == UNION {Words(ranges[i]) : i \in DOMAIN ranges}
Apart(ranges) ==
  \A i, j \in DOMAIN ranges : i # j => Words(ranges[i]) \intersect Words(ranges[j]) = {}
InSequence(runs) ==
  \A i, j \in DOMAIN runs : i < j => RunEnd(runs[i]) <= runs[j].start

(* The words of a range: the first n of them, and the rest. *)
LEMMA RangeWords ==
  ASSUME NEW r \in Ranges, NEW n \in 1 .. r.count
  PROVE  /\ Addresses(r.start, n) \subseteq Words(r)
         /\ IsFiniteSet(Addresses(r.start, n)) /\ Cardinality(Addresses(r.start, n)) = n
         /\ Words(r) \ Addresses(r.start, n) = Addresses(r.start + n, r.count - n)
         /\ r.start \in Words(r)
<1> DEFINE a == r.start
           k == r.count
<1>1. a \in Nat /\ k \in Nat /\ n \in Nat /\ n <= k /\ n # 0
  BY DEF Ranges
<1> HIDE DEF a, k
<1>2. IsFiniteSet(a .. a + n - 1)
      /\ Cardinality(a .. a + n - 1) = IF a > a + n - 1 THEN 0 ELSE a + n - 1 - a + 1
  BY <1>1, FS_Interval
<1>3. Cardinality(a .. a + n - 1) = n
  BY <1>1, <1>2
<1>4. a .. a + n - 1 \subseteq a .. a + k - 1 /\ a \in a .. a + k - 1
  BY <1>1
<1>5. (a .. a + k - 1) \ (a .. a + n - 1) = (a + n) .. (a + n) + (k - n) - 1
  BY <1>1
<1> QED BY <1>2, <1>3, <1>4, <1>5 DEF Words, Addresses, a, k

(* A range ends after it begins, and its words are those between. *)
LEMMA RangeIs ==
  ASSUME NEW r \in Ranges
  PROVE  /\ r.start \in Nat /\ r.count \in Nat /\ RunEnd(r) \in Nat /\ r.start < RunEnd(r)
         /\ Words(r) = r.start .. RunEnd(r) - 1
<1>1. r.start \in Nat /\ r.count \in Nat \ {0}
  BY DEF Ranges
<1>2. (r.start + r.count) - 1 = r.start + (r.count - 1)
  BY <1>1
<1> QED BY <1>1, <1>2 DEF RunEnd, Words, Addresses

(* Runs in sequence share no word. *)
LEMMA SequenceApart ==
  ASSUME NEW runs \in Seq(Ranges), InSequence(runs)
  PROVE  Apart(runs)
<1>1. DOMAIN runs \subseteq Nat /\ \A i \in DOMAIN runs : runs[i] \in Ranges
  OBVIOUS
<1>2. ASSUME NEW a \in Ranges, NEW b \in Ranges, RunEnd(a) <= b.start
      PROVE  Words(a) \intersect Words(b) = {}
  BY <1>2 DEF Ranges, RunEnd, Words, Addresses
<1> SUFFICES ASSUME NEW i \in DOMAIN runs, NEW j \in DOMAIN runs, i # j
             PROVE  Words(runs[i]) \intersect Words(runs[j]) = {}
  BY DEF Apart
<1>3. i < j \/ j < i
  BY <1>1
<1> QED BY <1>1, <1>2, <1>3 DEF InSequence

----------------------------------------------------------------------------
(* Runs of addresses (_contiguous) *)

(* Every address lies behind the start of its run.                         *)
LEMMA RunBegins ==
  ASSUME NEW A \in SUBSET Nat, NEW a \in A
  PROVE  \E s \in RunStarts(A) : s <= a /\ s .. a \subseteq A
<1> DEFINE S == {m \in Nat : m <= a /\ m .. a \subseteq A}
<1>1. a \in S /\ S \in SUBSET Nat
  OBVIOUS
<1>2. PICK s \in S : \A m \in S : s <= m
  BY <1>1, LeastNatural
<1>3. s \in A /\ s \in Nat /\ s <= a /\ s .. a \subseteq A
  OBVIOUS
<1>4. s - 1 \notin A
  <2> SUFFICES ASSUME s - 1 \in A PROVE FALSE
    OBVIOUS
  <2>1. s - 1 \in Nat /\ s - 1 <= a /\ s - 1 .. a \subseteq A
    BY <1>3
  <2> QED BY <1>2, <1>3, <2>1
<1> QED BY <1>3, <1>4 DEF RunStarts

(* Every run comes to an end.                                              *)
LEMMA RunEnds ==
  ASSUME NEW A \in SUBSET Nat, IsFiniteSet(A), NEW s \in A
  PROVE  \E n \in 1 .. Cardinality(A) : Addresses(s, n) \subseteq A /\ s + n \notin A
<1> DEFINE S == {k \in Nat : s + k \notin A}
           c == Cardinality(A)
<1>1. c \in Nat /\ s \in Nat
  BY FS_CardinalityType
<1> HIDE DEF c
<1>2. \A n \in Nat : s .. s + n - 1 \subseteq A => n <= c
  <2> SUFFICES ASSUME NEW n \in Nat, s .. s + n - 1 \subseteq A PROVE n <= c
    OBVIOUS
  <2>1. Cardinality(s .. s + n - 1) <= c
    BY FS_Subset DEF c
  <2>2. Cardinality(s .. s + n - 1) = IF s > s + n - 1 THEN 0 ELSE s + n - 1 - s + 1
    BY <1>1, FS_Interval
  <2> QED BY <1>1, <2>1, <2>2
<1>3. S # {}
  <2> SUFFICES ASSUME S = {} PROVE FALSE
    OBVIOUS
  <2>1. \A x \in s .. s + (c + 1) - 1 : x - s \in Nat /\ s + (x - s) = x
    BY <1>1
  <2>2. s .. s + (c + 1) - 1 \subseteq A
    BY <2>1
  <2> QED BY <1>1, <1>2, <2>2
<1>4. PICK n \in S : \A m \in S : n <= m
  BY <1>3, LeastNatural
<1>5. n \in Nat /\ n # 0 /\ s + n \notin A
  BY <1>1
<1>6. s .. s + n - 1 \subseteq A
  <2> SUFFICES ASSUME NEW x \in s .. s + n - 1 PROVE x \in A
    OBVIOUS
  <2>1. x - s \in Nat /\ x - s < n /\ s + (x - s) = x
    BY <1>1, <1>5
  <2> QED BY <1>4, <1>5, <2>1
<1>7. n \in 1 .. c
  BY <1>1, <1>2, <1>5, <1>6
<1> QED BY <1>5, <1>6, <1>7 DEF Addresses, c

(* A set's numbers are numbered in their order, without a gap.             *)
LEMMA InOrderIs ==
  ASSUME NEW T \in SUBSET Nat, IsFiniteSet(T)
  PROVE  /\ Cardinality(T) \in Nat
         /\ \A i \in 1 .. Cardinality(T) : InOrder(T, i) \in T
         /\ \A a \in T : \E i \in 1 .. Cardinality(T) : InOrder(T, i) = a
         /\ \A i, j \in 1 .. Cardinality(T) : i < j => InOrder(T, i) < InOrder(T, j)
<1> DEFINE c == Cardinality(T)
           Below(a) == {b \in T : b < a}
           Rank(a) == Cardinality(Below(a))
           f == [a \in T |-> Rank(a) + 1]
<1>1. c \in Nat /\ \A a \in T : a \in Nat /\ Below(a) \in SUBSET T /\ a \notin Below(a)
  BY FS_CardinalityType
<1>2. ASSUME NEW a \in T
      PROVE  Rank(a) \in Nat /\ Rank(a) < c
  <2>1. Below(a) \in SUBSET T /\ Below(a) # T
    BY <1>1, <1>2
  <2> HIDE DEF Below
  <2> QED BY <1>1, <2>1, FS_Subset, FS_CardinalityType
<1>3. ASSUME NEW a \in T, NEW b \in T, a < b
      PROVE  Rank(a) < Rank(b)
  <2>0. a \in Nat /\ b \in Nat /\ a \in Below(b) /\ a \notin Below(a)
    BY <1>1, <1>3
  <2>1. Below(a) \in SUBSET Below(b) /\ Below(a) # Below(b) /\ Below(b) \in SUBSET T
    <3>1. \A x \in Below(a) : x \in T /\ x < b
      BY <1>3, <2>0
    <3> QED BY <2>0, <3>1
  <2>2. Rank(a) \in Nat /\ Rank(b) \in Nat
    BY <1>2
  <2> HIDE DEF Below
  <2>3. IsFiniteSet(Below(b))
    BY <2>1, FS_Subset
  <2>4. Cardinality(Below(a)) <= Cardinality(Below(b))
        /\ Cardinality(Below(a)) # Cardinality(Below(b))
    BY <2>1, <2>3, FS_Subset
  <2> QED BY <2>2, <2>4
<1>4. \A a, b \in T : Rank(a) = Rank(b) => a = b
  <2> SUFFICES ASSUME NEW a \in T, NEW b \in T, a # b PROVE Rank(a) # Rank(b)
    OBVIOUS
  <2>1. a < b \/ b < a
    BY <1>1
  <2> HIDE DEF Rank
  <2> QED BY <1>2, <1>3, <2>1
<1>5. \A i : InOrder(T, i) = CHOOSE n \in T : Rank(n) = i - 1
  BY DEF InOrder
<1> HIDE DEF c, Rank
<1>6. f \in Injection(T, 1 .. c)
  <2>1. f \in [T -> 1 .. c]
    BY <1>1, <1>2
  <2>2. \A a, b \in T : f[a] = f[b] => a = b
    BY <1>2, <1>4
  <2> HIDE DEF f
  <2> QED BY <2>1, <2>2, Fun_IsInj
<1>7. IsFiniteSet(1 .. c) /\ Cardinality(1 .. c) = c
  BY <1>1, FS_Interval
<1>8. f \in Surjection(T, 1 .. c)
  <2> HIDE DEF f
  <2> QED BY <1>6, <1>7, FS_Injection DEF c
<1>9. \A i \in 1 .. c : \E a \in T : f[a] = i
  <2> HIDE DEF f
  <2> QED BY <1>8, Fun_SurjectionProperties
<1>10. \A i \in 1 .. c : InOrder(T, i) \in T /\ Rank(InOrder(T, i)) = i - 1
  <2> SUFFICES ASSUME NEW i \in 1 .. c
               PROVE  InOrder(T, i) \in T /\ Rank(InOrder(T, i)) = i - 1
    OBVIOUS
  <2>1. PICK a \in T : f[a] = i
    BY <1>9
  <2>2. Rank(a) = i - 1
    BY <1>1, <1>2, <2>1
  <2> QED BY <1>5, <2>2
<1>11. \A a \in T : \E i \in 1 .. c : InOrder(T, i) = a
  <2> SUFFICES ASSUME NEW a \in T PROVE \E i \in 1 .. c : InOrder(T, i) = a
    OBVIOUS
  <2>1. Rank(a) + 1 \in 1 .. c /\ (Rank(a) + 1) - 1 = Rank(a)
    BY <1>1, <1>2
  <2>2. InOrder(T, Rank(a) + 1) = a
    BY <1>4, <1>10, <2>1
  <2> QED BY <2>1, <2>2
<1>12. \A i, j \in 1 .. c : i < j => InOrder(T, i) < InOrder(T, j)
  <2> SUFFICES ASSUME NEW i \in 1 .. c, NEW j \in 1 .. c, i < j,
                      ~(InOrder(T, i) < InOrder(T, j))
               PROVE  FALSE
    OBVIOUS
  <2> DEFINE a == InOrder(T, i)
             b == InOrder(T, j)
  <2>1. a \in T /\ b \in T /\ Rank(a) = i - 1 /\ Rank(b) = j - 1 /\ ~(a < b)
    BY <1>10
  <2> HIDE DEF a, b
  <2>2. b < a \/ a = b
    BY <1>1, <2>1
  <2>3. i - 1 < j - 1
    OBVIOUS
  <2> QED BY <1>2, <1>3, <2>1, <2>2, <2>3
<1> QED BY <1>1, <1>10, <1>11, <1>12 DEF c

(* The runs are ranges of addresses in order that share none and miss none. *)
LEMMA RunsAreRanges ==
  ASSUME NEW A \in SUBSET Nat, IsFiniteSet(A)
  PROVE  /\ Contiguous(A) \in Seq(Ranges)
         /\ WordsOfAll(Contiguous(A)) = A
         /\ InSequence(Contiguous(A))
         /\ \A i \in DOMAIN Contiguous(A) :
              /\ Contiguous(A)[i].start \in RunStarts(A)
              /\ RunEnd(Contiguous(A)[i]) \notin A
<1> DEFINE T == RunStarts(A)
           c == Cardinality(T)
           Start(i) == InOrder(T, i)
           run(i) == [start |-> Start(i), count |-> RunLength(A, Start(i))]
<1>1. Contiguous(A) = [i \in 1 .. c |-> run(i)]
  BY DEF Contiguous, RunStarts, RunLength
<1>2. T \subseteq A /\ T \subseteq Nat /\ IsFiniteSet(T)
  BY FS_Subset DEF RunStarts
<1>3. /\ c \in Nat
      /\ \A i \in 1 .. c : Start(i) \in T
      /\ \A a \in T : \E i \in 1 .. c : Start(i) = a
      /\ \A i, j \in 1 .. c : i < j => Start(i) < Start(j)
  BY <1>2, InOrderIs
<1>4. ASSUME NEW a \in T
      PROVE  /\ RunLength(A, a) \in Nat \ {0}
             /\ Addresses(a, RunLength(A, a)) \subseteq A
             /\ a + RunLength(A, a) \notin A
  <2>1. \E n \in 1 .. Cardinality(A) : Addresses(a, n) \subseteq A /\ a + n \notin A
    BY <1>2, <1>4, RunEnds
  <2>2. RunLength(A, a) \in 1 .. Cardinality(A)
        /\ Addresses(a, RunLength(A, a)) \subseteq A /\ a + RunLength(A, a) \notin A
    BY <2>1 DEF RunLength
  <2>3. Cardinality(A) \in Nat
    BY FS_CardinalityType
  <2> QED BY <2>2, <2>3
<1> HIDE DEF c, Start
<1>5. \A i \in 1 .. c : run(i) \in Ranges
  BY <1>2, <1>3, <1>4 DEF Ranges
<1>6. /\ Contiguous(A) \in Seq(Ranges) /\ DOMAIN Contiguous(A) = 1 .. c
      /\ \A i \in 1 .. c : Contiguous(A)[i] = run(i)
  <2> HIDE DEF run
  <2> QED BY <1>1, <1>3, <1>5
<1>7. \A i \in 1 .. c : Words(Contiguous(A)[i]) = Addresses(Start(i), RunLength(A, Start(i)))
  BY <1>6 DEF Words
<1>8. WordsOfAll(Contiguous(A)) \subseteq A
  BY <1>3, <1>4, <1>6, <1>7 DEF WordsOfAll
<1>9. ASSUME NEW a \in A
      PROVE  a \in WordsOfAll(Contiguous(A))
  <2>1. PICK s \in T : s <= a /\ s .. a \subseteq A
    BY <1>9, RunBegins
  <2>2. PICK i \in 1 .. c : Start(i) = s
    BY <1>3
  <2> DEFINE n == RunLength(A, s)
  <2>3. n \in Nat /\ s + n \notin A
    BY <1>4
  <2> HIDE DEF n
  <2>4. s \in Nat /\ a \in Nat
    BY <1>2, <1>9
  <2>5. ~(s + n <= a)
    BY <2>1, <2>3, <2>4
  <2>6. a \in Addresses(s, n)
    BY <2>1, <2>3, <2>4, <2>5 DEF Addresses
  <2> QED BY <1>6, <1>7, <2>2, <2>6 DEF WordsOfAll, n
<1>10. ASSUME NEW s \in T, NEW t \in T, s < t
       PROVE  s + RunLength(A, s) <= t
  <2> DEFINE n == RunLength(A, s)
  <2>1. s \in Nat /\ t \in Nat /\ n \in Nat /\ t - 1 \notin A
    BY <1>2, <1>4 DEF RunStarts
  <2>2. Addresses(s, n) \subseteq A
    BY <1>4
  <2> HIDE DEF n
  <2>3. SUFFICES ASSUME t < s + n PROVE FALSE
    BY <2>1 DEF n
  <2>4. t - 1 \in Addresses(s, n)
    BY <1>10, <2>1, <2>3 DEF Addresses
  <2> QED BY <2>1, <2>2, <2>4
<1>11. InSequence(Contiguous(A))
  <2> SUFFICES ASSUME NEW i \in 1 .. c, NEW j \in 1 .. c, i < j
               PROVE  RunEnd(run(i)) <= run(j).start
    BY <1>6 DEF InSequence
  <2> QED BY <1>3, <1>10 DEF RunEnd
<1>12. ASSUME NEW i \in 1 .. c
       PROVE  Contiguous(A)[i].start \in T /\ RunEnd(Contiguous(A)[i]) \notin A
  <2>1. run(i).start = Start(i) /\ RunEnd(run(i)) = Start(i) + RunLength(A, Start(i))
    BY DEF RunEnd
  <2>2. Contiguous(A)[i] = run(i) /\ Start(i) \in T
    BY <1>3, <1>6
  <2> HIDE DEF run
  <2> QED BY <1>4, <2>1, <2>2
<1> QED BY <1>6, <1>8, <1>9, <1>11, <1>12

----------------------------------------------------------------------------
(* Runs read together (_bridge) *)

(* What the recursive definition of SpanBegins says of run i. *)
BeginOf(runs, implemented, first, i) ==
  IF i > 1 /\ Joins(runs, first[i - 1], i, implemented) THEN first[i - 1] ELSE i

(* SpanBegins, which looks back on itself, is what its own equation says. *)
LEMMA BeginsExist ==
  ASSUME NEW runs, NEW N \in Nat, DOMAIN runs = 1 .. N, NEW implemented
  PROVE  \A i \in 1 .. N : SpanBegins(runs, implemented)[i] =
                             BeginOf(runs, implemented, SpanBegins(runs, implemented), i)
<1> DEFINE B(f, i) == BeginOf(runs, implemented, f, i)
           Begins(f, n) == f = [i \in 1 .. n |-> B(f, i)]
           Bad == {n \in Nat : ~\E f : Begins(f, n)}
<1>1. \A i, f, g : f[i - 1] = g[i - 1] => B(f, i) = B(g, i)
  BY DEF BeginOf
<1>2. \A f : B(f, 1) = 1
  BY DEF BeginOf
<1> HIDE DEF B
<1>3. Bad = {}
  <2> SUFFICES ASSUME Bad # {} PROVE FALSE
    OBVIOUS
  <2>1. PICK n \in Bad : \A m \in Bad : n <= m
    BY LeastNatural
  <2>2. n \in Nat
    OBVIOUS
  <2>3. n # 0
    <3> DEFINE e == [i \in 1 .. 0 |-> 0]
    <3>1. Begins(e, 0)
      OBVIOUS
    <3> QED BY <3>1
  <2>4. n - 1 \in Nat /\ n - 1 \notin Bad
    <3> HIDE DEF Bad
    <3>1. n - 1 \in Nat /\ ~(n <= n - 1)
      BY <2>2, <2>3
    <3> QED BY <2>1, <3>1
  <2>5. PICK f : Begins(f, n - 1)
    BY <2>4
  <2> DEFINE g == [i \in 1 .. n |-> IF i = n THEN B(f, n) ELSE f[i]]
  <2>6. ASSUME NEW i \in 1 .. n PROVE g[i] = B(g, i)
    <3>1. i - 1 \in 1 .. n - 1 \/ i = 1
      BY <2>2
    <3>2. g[i] = IF i = n THEN B(f, n) ELSE f[i]
      OBVIOUS
    <3>3. i = n \/ i \in 1 .. n - 1
      BY <2>2
    <3>4. g[i] = B(f, i)
      BY <2>5, <3>2, <3>3
    <3>5. CASE i = 1
      BY <1>2, <3>4, <3>5
    <3>6. CASE i - 1 \in 1 .. n - 1
      <4>1. i - 1 \in 1 .. n /\ i - 1 # n
        BY <2>2, <3>6
      <4>2. g[i - 1] = f[i - 1]
        BY <4>1
      <4> HIDE DEF g
      <4> QED BY <1>1, <3>4, <4>2
    <3> QED BY <3>1, <3>5, <3>6
  <2>7. Begins(g, n)
    <3>1. g = [i \in 1 .. n |-> g[i]]
      OBVIOUS
    <3> HIDE DEF g
    <3> QED BY <2>6, <3>1
  <2> QED BY <2>1, <2>7
<1>4. PICK f : Begins(f, N)
  BY <1>3
<1>5. SpanBegins(runs, implemented) = CHOOSE g : Begins(g, N)
  BY DEF SpanBegins, BeginOf, B
<1>6. Begins(SpanBegins(runs, implemented), N)
  BY <1>4, <1>5
<1> QED BY <1>6 DEF B

(* The span a run is read in begins at or before the run, with a run that  *)
(* begins a span, and nothing between lacks on the unit.                   *)
LEMMA SpansBegin ==
  ASSUME NEW runs \in Seq(Ranges), InSequence(runs),
         NEW implemented, WordsOfAll(runs) \subseteq implemented,
         NEW i \in DOMAIN runs
  PROVE  LET first == SpanBegins(runs, implemented) IN
         /\ first[i] \in 1 .. i
         /\ first[first[i]] = first[i]
         /\ runs[first[i]].start .. RunEnd(runs[i]) - 1 \subseteq implemented
<1> DEFINE first == SpanBegins(runs, implemented)
           N == Len(runs)
           From(f, k) == runs[f].start .. RunEnd(runs[k]) - 1
           Good(k) == /\ first[k] \in 1 .. k
                      /\ first[first[k]] = first[k]
                      /\ From(first[k], k) \subseteq implemented
           Bad == {k \in 1 .. N : ~Good(k)}
<1>1. N \in Nat /\ DOMAIN runs = 1 .. N /\ \A k \in 1 .. N : runs[k] \in Ranges
  OBVIOUS
<1>2. \A k \in 1 .. N : runs[k].start \in Nat /\ RunEnd(runs[k]) \in Nat
  BY <1>1, RangeIs
<1>3. \A k \in 1 .. N : From(k, k) \subseteq implemented
  <2>1. \A k \in DOMAIN runs : Words(runs[k]) \subseteq implemented
    BY DEF WordsOfAll
  <2>2. \A k \in 1 .. N : From(k, k) = Words(runs[k])
    BY <1>1, RangeIs
  <2> QED BY <1>1, <2>1, <2>2
<1>4. \A k \in 1 .. N : first[k] = BeginOf(runs, implemented, first, k)
  <2> HIDE DEF N
  <2> QED BY <1>1, BeginsExist
<1> HIDE DEF first, N
<1>5. Bad = {}
  <2> SUFFICES ASSUME Bad # {} PROVE FALSE
    OBVIOUS
  <2>1. Bad \in SUBSET Nat
    BY <1>1
  <2>2. PICK k \in Bad : \A m \in Bad : k <= m
    <3> HIDE DEF Bad
    <3> QED BY <2>1, LeastNatural
  <2>3. k \in 1 .. N /\ ~Good(k) /\ k \in Nat
    BY <1>1
  <2>4. CASE first[k] = k
    BY <1>1, <1>3, <2>3, <2>4
  <2>5. CASE first[k] # k
    <3> DEFINE f == first[k - 1]
               gap == RunEnd(runs[k - 1]) .. runs[k].start - 1
    <3>1. k > 1 /\ Joins(runs, f, k, implemented) /\ first[k] = f
      BY <1>4, <2>3, <2>5 DEF BeginOf
    <3>2. k - 1 \in 1 .. N /\ ~(k <= k - 1)
      BY <1>1, <2>3, <3>1
    <3>3. Good(k - 1)
      <4> HIDE DEF Good
      <4> QED BY <2>2, <3>2
    <3>4. f \in 1 .. k - 1 /\ first[f] = f /\ From(f, k - 1) \subseteq implemented
      BY <3>3
    <3>5. gap \subseteq implemented
      BY <3>1 DEF Joins
    <3>6. From(f, k) \subseteq From(f, k - 1) \union gap \union From(k, k)
      <4> DEFINE a == runs[f].start
                 b == RunEnd(runs[k - 1])
                 c == runs[k].start
                 d == RunEnd(runs[k])
      <4>1. f \in 1 .. N
        BY <1>1, <2>3, <3>4
      <4>2. a \in Int /\ b \in Int /\ c \in Int /\ d \in Int
        <5>1. k \in 1 .. N
          BY <2>3
        <5> HIDE DEF f, Bad, Good
        <5> QED BY <1>2, <3>2, <4>1, <5>1
      <4> HIDE DEF a, b, c, d
      <4>3. a .. d - 1 \subseteq (a .. b - 1) \union (b .. c - 1) \union (c .. d - 1)
        BY <4>2
      <4> QED BY <4>3 DEF a, b, c, d
    <3>7. From(f, k) \subseteq implemented
      <4> HIDE DEF From, gap
      <4> QED BY <1>3, <2>3, <3>4, <3>5, <3>6
    <3>8. f \in 1 .. k
      BY <2>3, <3>4
    <3> HIDE DEF From, f
    <3> QED BY <2>3, <3>1, <3>4, <3>7, <3>8
  <2> QED BY <2>4, <2>5
<1>6. Good(i)
  BY <1>1, <1>5
<1> QED BY <1>6 DEF first

(* The runs that begin a span.                                             *)
SpanHeads(runs, implemented) == {i \in DOMAIN runs : SpanBegins(runs, implemented)[i] = i}

(* Merging runs reads all of them and, between them, only what is there.   *)
LEMMA BridgeIsSafe ==
  ASSUME NEW runs \in Seq(Ranges), InSequence(runs),
         NEW implemented, WordsOfAll(runs) \subseteq implemented
  PROVE  LET spans == Bridge(runs, implemented) IN
         /\ spans \in Seq(Ranges)
         /\ WordsOfAll(runs) \subseteq WordsOfAll(spans)
         /\ WordsOfAll(spans) \subseteq implemented
         /\ Len(spans) = Cardinality(SpanHeads(runs, implemented))
         /\ (\A i \in DOMAIN runs : runs[i].count <= MaxBlock) =>
              \A k \in DOMAIN spans : spans[k].count <= MaxBlock
<1> DEFINE first == SpanBegins(runs, implemented)
           N == Len(runs)
           begins == {i \in DOMAIN runs : first[i] = i}
           Group(f) == {i \in DOMAIN runs : first[i] = f}
           Final(f) == Max(Group(f))
           Span(f) == [start |-> runs[f].start,
                       count |-> RunEnd(runs[Final(f)]) - runs[f].start]
           c == Cardinality(begins)
           spans == Bridge(runs, implemented)
<1>1. N \in Nat /\ DOMAIN runs = 1 .. N /\ \A k \in 1 .. N : runs[k] \in Ranges
  OBVIOUS
<1>2. \A k \in 1 .. N : runs[k].start \in Nat /\ RunEnd(runs[k]) \in Nat
                        /\ runs[k].start < RunEnd(runs[k])
  BY <1>1, RangeIs
<1>3. \A i \in 1 .. N : /\ first[i] \in 1 .. i /\ first[first[i]] = first[i]
                        /\ runs[first[i]].start .. RunEnd(runs[i]) - 1 \subseteq implemented
  BY <1>1, SpansBegin
<1>4. spans = [k \in 1 .. c |-> Span(InOrder(begins, k))]
  BY DEF Bridge
<1> HIDE DEF first, N
<1>5. begins \in SUBSET Nat /\ IsFiniteSet(begins)
  <2>1. begins \in SUBSET (1 .. N) /\ IsFiniteSet(1 .. N)
    BY <1>1, FS_Interval
  <2>2. 1 .. N \subseteq Nat
    BY <1>1
  <2> HIDE DEF begins
  <2>3. IsFiniteSet(begins)
    BY <2>1, FS_Subset
  <2> QED BY <2>1, <2>2, <2>3
<1>6. ASSUME NEW f \in begins
      PROVE  /\ Final(f) \in 1 .. N /\ first[Final(f)] = f
             /\ \A i \in Group(f) : i <= Final(f)
  <2>1. Group(f) \in SUBSET Nat /\ Group(f) # {} /\ \A i \in Group(f) : i <= N
    BY <1>1
  <2>2. \E g \in Group(f) : \A m \in Group(f) : g >= m
    <3> HIDE DEF Group
    <3>1. PICK g \in Group(f) : \A m \in Group(f) : m <= g
      BY <1>1, <2>1, GreatestNatural
    <3>2. \A m \in Group(f) : g >= m
      BY <2>1, <3>1
    <3> QED BY <3>2
  <2>3. Final(f) \in Group(f) /\ \A m \in Group(f) : Final(f) >= m
    <3> HIDE DEF Group
    <3> QED BY <2>2 DEF Max
  <2> QED BY <1>1, <2>1, <2>3
<1> HIDE DEF Final
<1>7. ASSUME NEW f \in begins
      PROVE  /\ Span(f) \in Ranges
             /\ Words(Span(f)) = runs[f].start .. RunEnd(runs[Final(f)]) - 1
             /\ Words(Span(f)) \subseteq implemented
  <2> DEFINE a == runs[f].start
             b == RunEnd(runs[Final(f)])
  <2>1. f \in 1 .. N /\ f \in Group(f)
    BY <1>1
  <2>2. f = Final(f) \/ f < Final(f)
    BY <1>1, <1>6, <2>1
  <2>3. a \in Nat /\ b \in Nat /\ a < b
    <3>1. CASE f = Final(f)
      BY <1>2, <2>1, <3>1
    <3>2. CASE f < Final(f)
      <4>1. RunEnd(runs[f]) <= runs[Final(f)].start
        BY <1>1, <1>6, <2>1, <3>2 DEF InSequence
      <4>2. Final(f) \in 1 .. N
        BY <1>6
      <4> QED BY <1>2, <2>1, <4>1, <4>2
    <3> QED BY <2>2, <3>1, <3>2
  <2>4. a .. b - 1 \subseteq implemented
    BY <1>3, <1>6
  <2>5. Span(f) = [start |-> a, count |-> b - a]
    OBVIOUS
  <2> HIDE DEF a, b, Span
  <2>6. a + (b - a) - 1 = b - 1
    BY <2>3
  <2>7. Words(Span(f)) = a .. b - 1
    BY <2>5, <2>6 DEF Words, Addresses
  <2>8. Span(f) \in Ranges
    BY <2>3, <2>5 DEF Ranges
  <2> QED BY <2>4, <2>7, <2>8 DEF a, b
<1>8. /\ c \in Nat
      /\ \A k \in 1 .. c : InOrder(begins, k) \in begins
      /\ \A f \in begins : \E k \in 1 .. c : InOrder(begins, k) = f
  <2> HIDE DEF begins
  <2> QED BY <1>5, InOrderIs
<1> HIDE DEF c, Span, begins, spans
<1>9. /\ spans \in Seq(Ranges) /\ DOMAIN spans = 1 .. c
      /\ \A k \in 1 .. c : spans[k] = Span(InOrder(begins, k))
  BY <1>4, <1>7, <1>8
<1>10. WordsOfAll(spans) \subseteq implemented
  BY <1>7, <1>8, <1>9 DEF WordsOfAll
<1>11. ASSUME NEW i \in 1 .. N
       PROVE  Words(runs[i]) \subseteq WordsOfAll(spans)
  <2> DEFINE f == first[i]
             m == Final(f)
  <2>1. f \in 1 .. N /\ f <= i /\ f \in begins /\ i \in Group(f)
    BY <1>1, <1>3 DEF begins
  <2>2. m \in 1 .. N /\ i <= m
    BY <1>6, <2>1
  <2> HIDE DEF f, m
  <2>3. /\ f = i \/ RunEnd(runs[f]) <= runs[i].start
        /\ i = m \/ RunEnd(runs[i]) <= runs[m].start
    <3>1. (f = i \/ f < i) /\ (i = m \/ i < m)
      BY <1>1, <2>1, <2>2
    <3> QED BY <1>1, <2>1, <2>2, <3>1 DEF InSequence
  <2> DEFINE a == runs[f].start
             b == RunEnd(runs[m])
             s == runs[i].start
             e == RunEnd(runs[i])
  <2>4. a <= s /\ e <= b /\ a \in Nat /\ b \in Nat /\ s \in Nat /\ e \in Nat
    BY <1>2, <2>1, <2>2, <2>3
  <2>5. Words(runs[i]) = s .. e - 1
    BY <1>1, RangeIs
  <2>6. Words(Span(f)) = a .. b - 1
    BY <1>7, <2>1 DEF m
  <2> HIDE DEF a, b, s, e
  <2>7. Words(runs[i]) \subseteq Words(Span(f))
    BY <2>4, <2>5, <2>6
  <2>8. PICK k \in 1 .. c : InOrder(begins, k) = f
    BY <1>8, <2>1
  <2> QED BY <1>9, <2>7, <2>8 DEF WordsOfAll
<1>12. WordsOfAll(runs) \subseteq WordsOfAll(spans)
  BY <1>1, <1>11 DEF WordsOfAll
<1>13. ASSUME \A i \in 1 .. N : runs[i].count <= MaxBlock, NEW f \in begins
       PROVE  Span(f).count <= MaxBlock
  <2> DEFINE m == Final(f)
  <2>1. f \in 1 .. N /\ m \in 1 .. N /\ first[m] = f
    BY <1>1, <1>6 DEF begins
  <2>2. Span(f).count = RunEnd(runs[m]) - runs[f].start
    BY DEF Span
  <2> HIDE DEF m
  <2>3. CASE m = f
    <3>1. runs[m] \in Ranges /\ runs[m].count <= MaxBlock
      BY <1>1, <1>13, <2>1
    <3>2. RunEnd(runs[m]) - runs[m].start = runs[m].count
      BY <3>1 DEF RunEnd, Ranges
    <3> QED BY <2>2, <2>3, <3>1, <3>2
  <2>4. CASE m # f
    <3>1. first[m] = BeginOf(runs, implemented, first, m)
      BY <1>1, <2>1, BeginsExist DEF first
    <3>2. Joins(runs, f, m, implemented)
      BY <2>1, <2>4, <3>1 DEF BeginOf
    <3> QED BY <2>2, <3>2 DEF Joins
  <2> QED BY <2>3, <2>4
<1>14. Len(spans) = c
  BY <1>8, <1>9
<1>15. c = Cardinality(SpanHeads(runs, implemented))
  BY DEF c, begins, first, SpanHeads
<1>16. (\A i \in DOMAIN runs : runs[i].count <= MaxBlock) =>
         \A k \in DOMAIN spans : spans[k].count <= MaxBlock
  BY <1>1, <1>8, <1>9, <1>13
<1> QED BY <1>9, <1>10, <1>12, <1>14, <1>15, <1>16 DEF spans

(* No later run is read in a span before one that begins a span.           *)
LEMMA BeginsInOrder ==
  ASSUME NEW runs, NEW N \in Nat, DOMAIN runs = 1 .. N, NEW implemented,
         NEW f \in SpanHeads(runs, implemented), NEW i \in 1 .. N, f <= i
  PROVE  f <= SpanBegins(runs, implemented)[i]
<1> DEFINE first == SpanBegins(runs, implemented)
           Bad == {k \in 1 .. N : f <= k /\ ~(f <= first[k])}
<1>1. \A k \in 1 .. N : first[k] = BeginOf(runs, implemented, first, k)
  BY BeginsExist
<1>2. f \in 1 .. N /\ first[f] = f
  BY DEF SpanHeads
<1> HIDE DEF first
<1>3. Bad = {}
  <2> SUFFICES ASSUME Bad # {} PROVE FALSE
    OBVIOUS
  <2>1. PICK k \in Bad : \A m \in Bad : k <= m
    <3>1. Bad \in SUBSET Nat
      OBVIOUS
    <3> HIDE DEF Bad
    <3> QED BY <3>1, LeastNatural
  <2>2. k \in 1 .. N /\ f <= k /\ ~(f <= first[k])
    OBVIOUS
  <2>3. k # f /\ first[k] = first[k - 1]
    <3>1. first[k] # k
      BY <2>2
    <3> QED BY <1>1, <1>2, <2>2, <3>1 DEF BeginOf
  <2>4. k - 1 \in 1 .. N /\ f <= k - 1 /\ ~(k <= k - 1)
    BY <1>2, <2>2, <2>3
  <2>5. k - 1 \in Bad
    BY <2>2, <2>3, <2>4
  <2> HIDE DEF Bad
  <2> QED BY <2>1, <2>4, <2>5
<1> QED BY <1>3 DEF first

----------------------------------------------------------------------------
(* Spans cut into reads, and the reads in one sequence *)

(* Division of naturals, as the provers need it. *)
LEMMA DivBounds ==
  ASSUME NEW t \in Nat, NEW n \in Nat, n > 0
  PROVE  t \div n \in Nat /\ (t \div n) * n <= t /\ t < ((t \div n) + 1) * n
OBVIOUS

(* Multiplication keeps order. *)
LEMMA TimesMonotonic ==
  ASSUME NEW a \in Int, NEW b \in Int, NEW n \in Nat, n > 0, a <= b
  PROVE  a * n \in Int /\ b * n \in Int /\ a * n <= b * n
OBVIOUS

(* No read is longer than it may be, and together they are the span.       *)
LEMMA BlocksCover ==
  ASSUME NEW span \in Ranges
  PROVE  /\ Blocks(span) \in Seq(Ranges)
         /\ \A i \in DOMAIN Blocks(span) : Blocks(span)[i].count \in 1 .. MaxBlock
         /\ WordsOfAll(Blocks(span)) = Words(span)
<1> DEFINE s == span.start
           k == span.count
           B == MaxBlock
           n == (k + B - 1) \div B
           Size(i) == IF i < n THEN B ELSE k - (n - 1) * B
           Read(i) == [start |-> s + (i - 1) * B, count |-> Size(i)]
<1>1. Blocks(span) = [i \in 1 .. n |-> Read(i)]
  BY DEF Blocks
<1>2. s \in Nat /\ k \in Nat /\ k > 0 /\ B \in Nat /\ B > 0
  BY LimitsAssumption DEF Ranges
<1>3. Words(span) = s .. s + k - 1
  BY DEF Words, Addresses
<1> HIDE DEF s, k, B
<1>4. k + B - 1 \in Nat
  BY <1>2
<1>5. n \in Nat /\ n * B <= k + B - 1 /\ k + B - 1 < (n + 1) * B
  BY <1>2, <1>4, DivBounds
<1> HIDE DEF n
<1>6. n * B \in Int /\ (n - 1) * B = n * B - B /\ (n + 1) * B = n * B + B
  BY <1>2, <1>5
<1>7. n >= 1 /\ k - (n - 1) * B \in 1 .. B
  <2>1. k <= n * B /\ n * B - B < k
    BY <1>2, <1>5, <1>6
  <2>2. n # 0
    BY <1>2, <2>1
  <2> QED BY <1>2, <1>5, <1>6, <2>1, <2>2
<1>8. \A i \in 1 .. n : Size(i) \in 1 .. B
  BY <1>2, <1>7
<1>9. ASSUME NEW i \in 1 .. n
      PROVE  /\ (i - 1) * B \in Nat
             /\ (i - 1) * B + Size(i) <= k
  <2>1. i \in Int /\ i - 1 \in Nat /\ i - 1 <= n - 1 /\ n - 1 \in Int
    BY <1>5
  <2>2. (i - 1) * B \in Nat
    BY <1>2, <2>1
  <2>3. CASE i < n
    <3>1. (i - 1) + 1 <= n - 1 /\ (i - 1) + 1 \in Int
      BY <1>5, <2>1, <2>3
    <3>2. ((i - 1) + 1) * B <= (n - 1) * B
      BY <1>2, <2>1, <3>1, TimesMonotonic
    <3>3. ((i - 1) + 1) * B = (i - 1) * B + B
      BY <1>2, <2>1
    <3>4. Size(i) = B
      BY <2>3
    <3> HIDE DEF Size
    <3> QED BY <1>2, <1>6, <1>7, <2>2, <3>2, <3>3, <3>4
  <2>4. CASE ~(i < n)
    <3>1. i = n
      BY <1>5, <2>4
    <3>2. Size(i) = k - (n - 1) * B
      BY <2>4
    <3> HIDE DEF Size
    <3> QED BY <1>2, <1>6, <2>2, <3>1, <3>2
  <2> QED BY <2>3, <2>4
<1>10. ASSUME NEW i \in 1 .. n PROVE Read(i) \in Ranges
  <2>1. s + (i - 1) * B \in Nat
    BY <1>2, <1>9
  <2>2. Size(i) \in Nat \ {0}
    BY <1>2, <1>8
  <2> HIDE DEF Size
  <2> QED BY <2>1, <2>2 DEF Ranges
<1> HIDE DEF Size
<1>11. /\ Blocks(span) \in Seq(Ranges) /\ DOMAIN Blocks(span) = 1 .. n
       /\ \A i \in 1 .. n : Blocks(span)[i] = Read(i)
  <2> HIDE DEF Read
  <2> QED BY <1>1, <1>5, <1>10
<1>12. \A i \in DOMAIN Blocks(span) : Blocks(span)[i].count \in 1 .. B
  BY <1>8, <1>11
<1>13. ASSUME NEW i \in 1 .. n
       PROVE  Words(Read(i)) = s + (i - 1) * B .. s + (i - 1) * B + Size(i) - 1
  BY DEF Words, Addresses
<1>14. WordsOfAll(Blocks(span)) \subseteq Words(span)
  <2> SUFFICES ASSUME NEW i \in 1 .. n PROVE Words(Read(i)) \subseteq Words(span)
    BY <1>11 DEF WordsOfAll
  <2> DEFINE o == (i - 1) * B
             z == Size(i)
  <2>1. o \in Nat /\ z \in Int /\ o + z <= k
    BY <1>2, <1>8, <1>9
  <2>2. Words(Read(i)) = s + o .. s + o + z - 1
    BY <1>13
  <2> HIDE DEF o, z
  <2> QED BY <1>2, <1>3, <2>1, <2>2
<1>15. ASSUME NEW x \in Words(span)
       PROVE  x \in WordsOfAll(Blocks(span))
  <2> DEFINE d == x - s
             q == d \div B
             o == q * B
  <2>1. d \in Nat /\ d < k /\ x = s + d
    BY <1>2, <1>3
  <2> HIDE DEF d
  <2>2. q \in Nat /\ o <= d /\ d < (q + 1) * B
    BY <1>2, <2>1, DivBounds
  <2> HIDE DEF q
  <2>3. (q + 1) * B = o + B /\ o \in Nat
    BY <1>2, <2>2
  <2>4. q + 1 \in 1 .. n
    <3>1. SUFFICES ASSUME n <= q PROVE FALSE
      BY <1>5, <2>2
    <3>2. n * B <= o
      BY <1>2, <1>5, <2>2, <3>1, TimesMonotonic
    <3> HIDE DEF o
    <3> QED BY <1>2, <1>6, <1>7, <2>1, <2>2, <2>3, <3>2
  <2> DEFINE z == Size(q + 1)
  <2>5. d < o + z
    <3>1. CASE q + 1 < n
      <4>1. z = B
        BY <3>1 DEF Size
      <4> HIDE DEF o, z
      <4> QED BY <2>2, <2>3, <4>1
    <3>2. CASE ~(q + 1 < n)
      <4>1. n - 1 = q
        BY <1>5, <2>2, <2>4, <3>2
      <4>2. z = k - o
        BY <3>2, <4>1 DEF Size
      <4> HIDE DEF o, z
      <4> QED BY <1>2, <2>1, <2>3, <4>2
    <3> QED BY <3>1, <3>2
  <2>6. z \in Int /\ (q + 1) - 1 = q
    BY <1>2, <1>8, <2>2, <2>4
  <2>7. Words(Read(q + 1)) = s + o .. s + o + z - 1
    BY <1>13, <2>4, <2>6
  <2> HIDE DEF o, z
  <2>8. x \in Words(Read(q + 1))
    BY <1>2, <2>1, <2>2, <2>3, <2>5, <2>6, <2>7
  <2> QED BY <1>11, <2>4, <2>8 DEF WordsOfAll
<1> QED BY <1>11, <1>12, <1>14, <1>15 DEF B

(* What fits into one read is one.                                         *)
LEMMA OneBlock ==
  ASSUME NEW span \in Ranges, span.count <= MaxBlock
  PROVE  Len(Blocks(span)) = 1
<1> DEFINE k == span.count
           n == (k + MaxBlock - 1) \div MaxBlock
<1>1. k \in Nat /\ k > 0 /\ MaxBlock \in Nat /\ MaxBlock > 0 /\ k <= MaxBlock
  BY LimitsAssumption DEF Ranges
<1> HIDE DEF k
<1>2. n = 1
  BY <1>1
<1>3. DOMAIN Blocks(span) = 1 .. 1 /\ Blocks(span) \in Seq(Ranges)
  <2>1. DOMAIN Blocks(span) = 1 .. n
    BY DEF Blocks, k
  <2> HIDE DEF n
  <2> QED BY <1>2, <2>1, BlocksCover
<1> QED BY <1>3

Members(q) == {q[i] : i \in DOMAIN q}

(* What joining two sequences holds is what each held. *)
LEMMA Appended ==
  ASSUME NEW S, NEW a \in Seq(S), NEW b \in Seq(S)
  PROVE  a \o b \in Seq(S) /\ Members(a \o b) = Members(a) \union Members(b)
<1> DEFINE q == a \o b
<1>1. /\ q \in Seq(S) /\ Len(a) \in Nat /\ Len(b) \in Nat /\ DOMAIN a = 1 .. Len(a)
      /\ DOMAIN b = 1 .. Len(b) /\ DOMAIN q = 1 .. Len(a) + Len(b)
      /\ \A i \in 1 .. Len(a) : q[i] = a[i]
      /\ \A i \in 1 .. Len(b) : q[Len(a) + i] = b[i]
  OBVIOUS
<1> HIDE DEF q
<1>2. \A i \in 1 .. Len(a) : i \in DOMAIN q
  BY <1>1
<1>3. \A i \in 1 .. Len(b) : Len(a) + i \in DOMAIN q
  BY <1>1
<1>4. ASSUME NEW i \in DOMAIN q PROVE q[i] \in Members(a) \union Members(b)
  <2>1. CASE i \in 1 .. Len(a)
    BY <1>1, <2>1 DEF Members
  <2>2. CASE i \notin 1 .. Len(a)
    <3>1. i - Len(a) \in 1 .. Len(b) /\ Len(a) + (i - Len(a)) = i
      BY <1>1, <2>2
    <3> QED BY <1>1, <3>1 DEF Members
  <2> QED BY <2>1, <2>2
<1>5. Members(a) \subseteq Members(q) /\ Members(b) \subseteq Members(q)
  BY <1>1, <1>2, <1>3 DEF Members
<1>6. Members(q) \subseteq Members(a) \union Members(b)
  BY <1>4 DEF Members
<1> QED BY <1>1, <1>5, <1>6 DEF q

(* The concatenation of a sequence of sequences has their members.         *)
LEMMA Flattened ==
  ASSUME NEW S, NEW s \in Seq(Seq(S))
  PROVE  /\ FlattenSeq(s) \in Seq(S)
         /\ Members(FlattenSeq(s)) = UNION {Members(s[i]) : i \in DOMAIN s}
         /\ (\A i \in DOMAIN s : Len(s[i]) = 1) => Len(FlattenSeq(s)) = Len(s)
<1> DEFINE N == Len(s)
           Step(f, i) == IF i = 1 THEN s[i] ELSE f[i - 1] \o s[i]
           Flattens(f, n) == f = [i \in 1 .. n |-> Step(f, i)]
           Upto(n) == UNION {Members(s[i]) : i \in 1 .. n}
           Good(q, n) == /\ q \in Seq(S) /\ Members(q) = Upto(n)
                         /\ (\A i \in 1 .. n : Len(s[i]) = 1) => Len(q) = n
           Bad == {n \in Nat : n <= N /\ ~\E f : Flattens(f, n)
                                                /\ (n > 0 => Good(f[n], n))}
<1>1. N \in Nat /\ DOMAIN s = 1 .. N /\ \A i \in 1 .. N : s[i] \in Seq(S)
  OBVIOUS
<1>2. CASE N = 0
  <2>1. FlattenSeq(s) = s /\ s = <<>> /\ DOMAIN s = {}
    BY <1>1, <1>2 DEF FlattenSeq
  <2> QED BY <1>2, <2>1 DEF Members
<1>3. CASE N # 0
  <2>1. \A i, f, g : f[i - 1] = g[i - 1] => Step(f, i) = Step(g, i)
    OBVIOUS
  <2>2. \A f : Step(f, 1) = s[1]
    OBVIOUS
  <2>3. FlattenSeq(s) = (CHOOSE f : Flattens(f, N))[N]
    BY <1>3 DEF FlattenSeq
  <2>4. \A f, i : i # 1 => Step(f, i) = f[i - 1] \o s[i]
    OBVIOUS
  <2> HIDE DEF N, Step
  <2>5. \A n \in Nat : n > 0 => Upto(n) = Upto(n - 1) \union Members(s[n])
    <3> SUFFICES ASSUME NEW n \in Nat, n > 0
                 PROVE  Upto(n) = Upto(n - 1) \union Members(s[n])
      OBVIOUS
    <3>1. 1 .. n = (1 .. n - 1) \union {n}
      OBVIOUS
    <3> QED BY <3>1
  <2>6. Upto(0) = {}
    OBVIOUS
  <2> HIDE DEF Upto
  <2>7. ASSUME NEW n \in Nat, n > 0, n <= N, NEW f, Flattens(f, n - 1),
               n - 1 > 0 => Good(f[n - 1], n - 1)
        PROVE  \E g : Flattens(g, n) /\ Good(g[n], n)
    <3> DEFINE g == [i \in 1 .. n |-> IF i = n THEN Step(f, n) ELSE f[i]]
    <3>1. ASSUME NEW i \in 1 .. n PROVE g[i] = Step(g, i)
      <4>1. i - 1 \in 1 .. n - 1 \/ i = 1
        BY <2>7
      <4>2. g[i] = IF i = n THEN Step(f, n) ELSE f[i]
        OBVIOUS
      <4>3. i = n \/ i \in 1 .. n - 1
        BY <2>7
      <4>4. g[i] = Step(f, i)
        BY <2>7, <4>2, <4>3
      <4>5. CASE i = 1
        BY <2>2, <4>4, <4>5
      <4>6. CASE i - 1 \in 1 .. n - 1
        <5>1. i - 1 \in 1 .. n /\ i - 1 # n
          BY <2>7, <4>6
        <5>2. g[i - 1] = f[i - 1]
          BY <5>1
        <5> HIDE DEF g
        <5> QED BY <2>1, <4>4, <5>2
      <4> QED BY <4>1, <4>5, <4>6
    <3>2. g[n] = Step(f, n)
      BY <2>7
    <3>3. Flattens(g, n)
      <4>1. g = [i \in 1 .. n |-> g[i]]
        OBVIOUS
      <4> HIDE DEF g
      <4> QED BY <3>1, <4>1
    <3> HIDE DEF g
    <3>4. s[n] \in Seq(S)
      BY <1>1, <2>7
    <3>5. Good(g[n], n)
      <4>1. CASE n = 1
        <5>1. Upto(1) = Upto(1 - 1) \union Members(s[1]) /\ 1 - 1 = 0
          BY <2>5
        <5>2. Upto(1) = Members(s[1])
          <6>1. Upto(1 - 1) = {}
            BY <2>6, <5>1
          <6> QED BY <5>1, <6>1
        <5>3. g[n] = s[1]
          BY <2>2, <3>2, <4>1
        <5>4. (\A i \in 1 .. n : Len(s[i]) = 1) => Len(g[n]) = n
          BY <4>1, <5>3
        <5> QED BY <3>4, <4>1, <5>2, <5>3, <5>4
      <4>2. CASE n # 1
        <5>1. n - 1 > 0 /\ n - 1 \in Nat
          BY <2>7, <4>2
        <5>2. f[n - 1] \in Seq(S) /\ Members(f[n - 1]) = Upto(n - 1)
          BY <2>7, <5>1
        <5>3. g[n] = f[n - 1] \o s[n]
          BY <2>4, <3>2, <4>2
        <5>4. g[n] \in Seq(S) /\ Members(g[n]) = Upto(n - 1) \union Members(s[n])
          BY <3>4, <5>2, <5>3, Appended
        <5>5. Len(g[n]) = Len(f[n - 1]) + Len(s[n])
          BY <3>4, <5>2, <5>3
        <5>6. (\A i \in 1 .. n - 1 : Len(s[i]) = 1) => Len(f[n - 1]) = n - 1
          BY <2>7, <5>1
        <5>7. (\A i \in 1 .. n : Len(s[i]) = 1) => Len(g[n]) = n
          <6> SUFFICES ASSUME \A i \in 1 .. n : Len(s[i]) = 1 PROVE Len(g[n]) = n
            OBVIOUS
          <6>1. Len(s[n]) = 1 /\ \A i \in 1 .. n - 1 : Len(s[i]) = 1
            BY <2>7
          <6> QED BY <2>7, <5>5, <5>6, <6>1
        <5> QED BY <2>5, <2>7, <5>4, <5>7
      <4> QED BY <4>1, <4>2
    <3> QED BY <3>3, <3>5
  <2> HIDE DEF Good
  <2>8. Bad = {}
    <3> SUFFICES ASSUME Bad # {} PROVE FALSE
      OBVIOUS
    <3>1. PICK n \in Bad : \A m \in Bad : n <= m
      <4>1. Bad \in SUBSET Nat
        OBVIOUS
      <4> HIDE DEF Bad
      <4> QED BY <4>1, LeastNatural
    <3>2. n \in Nat /\ n <= N
      OBVIOUS
    <3>3. n # 0
      <4> DEFINE e == [i \in 1 .. 0 |-> 0]
      <4>1. Flattens(e, 0)
        OBVIOUS
      <4>2. Flattens(e, 0) /\ (0 > 0 => Good(e[0], 0))
        BY <4>1
      <4>3. 0 \notin Bad
        <5> HIDE DEF e, Flattens
        <5> QED BY <4>2
      <4> HIDE DEF Bad
      <4> QED BY <4>3
    <3>4. n - 1 \in Nat /\ n - 1 <= N /\ n - 1 \notin Bad
      <4> HIDE DEF Bad
      <4>1. n - 1 \in Nat /\ n - 1 <= N /\ ~(n <= n - 1)
        BY <1>1, <3>2, <3>3
      <4> QED BY <3>1, <4>1
    <3>5. PICK f : Flattens(f, n - 1) /\ (n - 1 > 0 => Good(f[n - 1], n - 1))
      BY <3>4
    <3>6. n > 0
      BY <3>2, <3>3
    <3> HIDE DEF Flattens
    <3>7. \E g : Flattens(g, n) /\ Good(g[n], n)
      BY <2>7, <3>2, <3>5, <3>6
    <3> QED BY <3>7
  <2>9. PICK f : Flattens(f, N) /\ Good(f[N], N)
    <3>1. N > 0 /\ N <= N /\ N \notin Bad
      <4> HIDE DEF Bad
      <4> QED BY <1>1, <1>3, <2>8
    <3> HIDE DEF Flattens
    <3> QED BY <1>1, <3>1
  <2>10. ASSUME NEW h, Flattens(h, N)
         PROVE  Good(h[N], N)
    (* The equation has but one solution. *)
    <3> DEFINE Differ == {i \in 1 .. N : h[i] # f[i]}
    <3>1. Differ = {}
      <4> SUFFICES ASSUME Differ # {} PROVE FALSE
        OBVIOUS
      <4>1. PICK i \in Differ : \A j \in Differ : i <= j
        <5>1. Differ \in SUBSET Nat
          BY <1>1
        <5> HIDE DEF Differ
        <5> QED BY <5>1, LeastNatural
      <4>2. i \in 1 .. N /\ h[i] # f[i] /\ i \in Nat
        BY <1>1
      <4>3. h[i] = Step(h, i) /\ f[i] = Step(f, i)
        BY <2>9, <2>10, <4>2
      <4>4. i # 1
        BY <2>2, <4>2, <4>3
      <4>5. i - 1 \in 1 .. N /\ ~(i <= i - 1)
        BY <1>1, <4>2, <4>4
      <4>6. h[i - 1] = f[i - 1]
        BY <4>1, <4>5
      <4> QED BY <2>1, <4>2, <4>3, <4>6
    <3>2. N \in 1 .. N
      BY <1>1, <1>3
    <3> QED BY <2>9, <3>1, <3>2
  <2>11. Good(FlattenSeq(s), N)
    <3> DEFINE h == CHOOSE e : Flattens(e, N)
    <3>1. Flattens(h, N)
      <4> HIDE DEF Flattens
      <4> QED BY <2>9
    <3> HIDE DEF h
    <3>2. Good(h[N], N)
      BY <2>10, <3>1
    <3> QED BY <2>3, <3>2 DEF h
  <2> QED BY <1>1, <2>11 DEF Good, Upto
<1> QED BY <1>2, <1>3

----------------------------------------------------------------------------
(* A plan for registers that are all there reads every word of them and,   *)
(* besides, only words that are there, in reads that are not too long.     *)
LEMMA PlanIsSafe ==
  ASSUME NEW present \in SUBSET Registers, NEW wanted \in SUBSET present
  PROVE  LET plan == PlanSpans(wanted, present) IN
         /\ plan \in Seq(Ranges)
         /\ \A i \in DOMAIN plan : plan[i].count \in 1 .. MaxBlock
         /\ AddressSet(wanted) \subseteq PlanWords(plan)
         /\ PlanWords(plan) \subseteq AddressSet(present)
         /\ LET runs == Contiguous(AddressSet(wanted)) IN
            (\A i \in DOMAIN runs : runs[i].count <= MaxBlock) =>
              Len(plan) = Cardinality(SpanHeads(runs, AddressSet(present)))
<1> DEFINE A == AddressSet(wanted)
           there == AddressSet(present)
           runs == Contiguous(A)
           spans == Bridge(runs, there)
           reads == [i \in DOMAIN spans |-> Blocks(spans[i])]
           plan == PlanSpans(wanted, present)
           Short == {r \in Ranges : r.count \in 1 .. MaxBlock}
<1>1. A \in SUBSET Nat /\ IsFiniteSet(A) /\ A \subseteq there
  <2>1. A \in SUBSET AddressSet(Registers) /\ A \subseteq there
    BY DEF AddressSet
  <2>2. AddressSet(Registers) \subseteq Nat
    BY WordsAssumption DEF AddressSet
  <2> HIDE DEF A
  <2>3. IsFiniteSet(A)
    BY <2>1, MapAssumption, FS_Subset
  <2> QED BY <2>1, <2>2, <2>3
<1>2. plan = FlattenSeq(reads)
  BY DEF PlanSpans
<1> HIDE DEF A, there
<1>3. runs \in Seq(Ranges) /\ WordsOfAll(runs) = A /\ InSequence(runs)
  BY <1>1, RunsAreRanges
<1> HIDE DEF runs
<1>4. /\ spans \in Seq(Ranges) /\ A \subseteq WordsOfAll(spans) /\ WordsOfAll(spans) \subseteq there
      /\ Len(spans) = Cardinality(SpanHeads(runs, there))
      /\ (\A i \in DOMAIN runs : runs[i].count <= MaxBlock) =>
           \A k \in DOMAIN spans : spans[k].count <= MaxBlock
  BY <1>1, <1>3, BridgeIsSafe
<1> HIDE DEF spans
<1>5. /\ DOMAIN spans = 1 .. Len(spans) /\ Len(spans) \in Nat
      /\ \A i \in DOMAIN spans : spans[i] \in Ranges
  BY <1>4
<1>6. ASSUME NEW i \in DOMAIN spans
      PROVE  Blocks(spans[i]) \in Seq(Short) /\ WordsOfAll(Blocks(spans[i])) = Words(spans[i])
  <2> DEFINE b == Blocks(spans[i])
  <2>1. /\ b \in Seq(Ranges) /\ \A j \in DOMAIN b : b[j].count \in 1 .. MaxBlock
        /\ WordsOfAll(b) = Words(spans[i])
    BY <1>5, BlocksCover
  <2> HIDE DEF b
  <2>2. \A j \in DOMAIN b : b[j] \in Short
    BY <2>1
  <2> HIDE DEF Short
  <2>3. b \in Seq(Short)
    BY <2>1, <2>2
  <2> QED BY <2>1, <2>3 DEF b
<1>7. reads \in Seq(Seq(Short)) /\ DOMAIN reads = DOMAIN spans
  <2> HIDE DEF Short
  <2> QED BY <1>5, <1>6
<1>8. \A i \in DOMAIN spans : reads[i] = Blocks(spans[i])
  OBVIOUS
<1> HIDE DEF reads, plan
<1>9. plan \in Seq(Short) /\ Members(plan) = UNION {Members(reads[i]) : i \in DOMAIN reads}
  <2> HIDE DEF Short
  <2> QED BY <1>2, <1>7, Flattened
<1>16. ASSUME \A i \in DOMAIN runs : runs[i].count <= MaxBlock
       PROVE  Len(plan) = Cardinality(SpanHeads(runs, there))
  <2>1. \A i \in DOMAIN reads : Len(reads[i]) = 1
    BY <1>4, <1>5, <1>7, <1>8, <1>16, OneBlock
  <2>2. Len(plan) = Len(reads)
    <3> HIDE DEF Short
    <3> QED BY <1>2, <1>7, <2>1, Flattened
  <2>3. Len(reads) = Len(spans)
    BY <1>5, <1>7
  <2> QED BY <1>4, <2>2, <2>3
<1>10. \A i \in DOMAIN plan : plan[i] \in Short
  <2> HIDE DEF Short
  <2> QED BY <1>9
<1>11. plan \in Seq(Ranges) /\ \A i \in DOMAIN plan : plan[i].count \in 1 .. MaxBlock
  <2>1. Short \subseteq Ranges
    OBVIOUS
  <2>2. plan \in Seq(Ranges)
    <3> HIDE DEF Short
    <3> QED BY <1>9, <1>10, <2>1
  <2> QED BY <1>10, <2>2
<1>12. \A q : WordsOfAll(q) = UNION {Words(r) : r \in Members(q)}
  BY DEF WordsOfAll, Members
<1>13. PlanWords(plan) = WordsOfAll(plan)
  BY DEF PlanWords, SpanWords, WordsOfAll, Words
<1>14. PlanWords(plan) = UNION {WordsOfAll(reads[i]) : i \in DOMAIN reads}
  BY <1>9, <1>12, <1>13
<1>15. PlanWords(plan) = WordsOfAll(spans)
  BY <1>6, <1>7, <1>8, <1>14 DEF WordsOfAll
<1> QED BY <1>4, <1>11, <1>15, <1>16 DEF plan, A, there, runs
=============================================================================
