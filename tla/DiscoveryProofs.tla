--------------------------- MODULE DiscoveryProofs ---------------------------
(* What is proved of the register scan for any register map, any unit, any *)
(* length of a read and any number of tries: it finds exactly what is      *)
(* there, and at no more than two reads an address.                        *)
EXTENDS Discovery, SpanPlanProofs

----------------------------------------------------------------------------
(* The ranges still to scan *)

(* Taking the first range of a work list takes its words, and no other's. *)
LEMMA HeadFirst ==
  ASSUME NEW s \in Seq(Ranges), s # <<>>
  PROVE  /\ Head(s) \in Ranges /\ Tail(s) \in Seq(Ranges) /\ Len(Tail(s)) = Len(s) - 1
         /\ WordsOfAll(s) = Words(Head(s)) \union WordsOfAll(Tail(s))
         /\ Apart(s) => /\ Apart(Tail(s))
                        /\ Words(Head(s)) \intersect WordsOfAll(Tail(s)) = {}
<1>1. /\ Head(s) \in Ranges /\ Tail(s) \in Seq(Ranges) /\ Len(Tail(s)) = Len(s) - 1
      /\ Len(s) \in Nat \ {0} /\ DOMAIN s = 1 .. Len(s) /\ Head(s) = s[1]
      /\ DOMAIN Tail(s) = 1 .. Len(s) - 1
      /\ \A i \in 1 .. Len(s) - 1 : Tail(s)[i] = s[i + 1]
  OBVIOUS
<1>2. \A i \in 2 .. Len(s) : i - 1 \in DOMAIN Tail(s) /\ Tail(s)[i - 1] = s[i]
  BY <1>1
<1>3. \A i \in DOMAIN Tail(s) : i + 1 \in DOMAIN s /\ i + 1 # 1 /\ Tail(s)[i] = s[i + 1]
  BY <1>1
<1>4. 1 \in DOMAIN s /\ \A i \in DOMAIN s : i = 1 \/ i \in 2 .. Len(s)
  BY <1>1
<1>5. WordsOfAll(s) = Words(Head(s)) \union WordsOfAll(Tail(s))
  BY <1>1, <1>2, <1>3, <1>4 DEF WordsOfAll
<1>6. ASSUME Apart(s)
      PROVE  Apart(Tail(s)) /\ Words(Head(s)) \intersect WordsOfAll(Tail(s)) = {}
  <2>1. \A i, j \in DOMAIN Tail(s) : i # j => i + 1 # j + 1
    BY <1>1
  <2>2. Apart(Tail(s))
    BY <1>3, <1>6, <2>1 DEF Apart
  <2>3. \A i \in DOMAIN Tail(s) : Words(Head(s)) \intersect Words(Tail(s)[i]) = {}
    BY <1>1, <1>3, <1>4, <1>6 DEF Apart
  <2> QED BY <2>2, <2>3 DEF WordsOfAll
<1> QED BY <1>1, <1>5, <1>6

(* Putting a range first adds its words, and keeps apart what was apart. *)
LEMMA PutFirst ==
  ASSUME NEW r \in Ranges, NEW s \in Seq(Ranges)
  PROVE  /\ <<r>> \o s \in Seq(Ranges) /\ Len(<<r>> \o s) = Len(s) + 1
         /\ WordsOfAll(<<r>> \o s) = Words(r) \union WordsOfAll(s)
         /\ Apart(s) /\ Words(r) \intersect WordsOfAll(s) = {} => Apart(<<r>> \o s)
<1> DEFINE q == <<r>> \o s
<1>1. /\ q \in Seq(Ranges) /\ Len(q) = Len(s) + 1 /\ Len(s) \in Nat
      /\ DOMAIN s = 1 .. Len(s) /\ DOMAIN q = 1 .. Len(s) + 1
      /\ q[1] = r /\ \A i \in 1 .. Len(s) : q[i + 1] = s[i]
  OBVIOUS
<1> HIDE DEF q
<1>2. \A i \in DOMAIN q : i = 1 \/ (i - 1 \in DOMAIN s /\ q[i] = s[i - 1])
  <2> SUFFICES ASSUME NEW i \in DOMAIN q, i # 1
               PROVE  i - 1 \in DOMAIN s /\ q[i] = s[i - 1]
    OBVIOUS
  <2>1. i - 1 \in 1 .. Len(s) /\ (i - 1) + 1 = i
    BY <1>1
  <2> QED BY <1>1, <2>1
<1>3. \A i \in DOMAIN s : i + 1 \in DOMAIN q /\ q[i + 1] = s[i]
  BY <1>1
<1>4. 1 \in DOMAIN q
  BY <1>1
<1>5. WordsOfAll(q) = Words(r) \union WordsOfAll(s)
  BY <1>1, <1>2, <1>3, <1>4 DEF WordsOfAll
<1>6. ASSUME Apart(s), Words(r) \intersect WordsOfAll(s) = {}
      PROVE  Apart(q)
  <2> SUFFICES ASSUME NEW i \in DOMAIN q, NEW j \in DOMAIN q, i # j
               PROVE  Words(q[i]) \intersect Words(q[j]) = {}
    BY DEF Apart
  <2>1. \A k \in DOMAIN s : Words(r) \intersect Words(s[k]) = {}
    BY <1>6 DEF WordsOfAll
  <2>2. CASE i = 1 \/ j = 1
    BY <1>1, <1>2, <2>1, <2>2
  <2>3. CASE i # 1 /\ j # 1
    <3>1. i - 1 # j - 1
      BY <1>1
    <3> QED BY <1>2, <1>6, <2>3, <3>1 DEF Apart
  <2> QED BY <2>2, <2>3
<1> QED BY <1>1, <1>5, <1>6 DEF q

----------------------------------------------------------------------------
(* The scan *)

Left == WordsOfAll(todo)

ScanTyped ==
  /\ unit \in Units /\ todo \in Seq(Ranges)
  /\ Left \subseteq MapWords /\ found \subseteq MapWords
  /\ attempt \in 0 .. Tries - 1 /\ requests \in Nat
  /\ outcome \in {"running", "done", "failed"}

(* What has answered is there; what is there has answered, or is still to  *)
(* be scanned, by one of the calls only.                                   *)
Exact ==
  /\ found \subseteq unit
  /\ unit \intersect MapWords \subseteq found \union Left
  /\ Apart(todo)
  /\ outcome = "done" => todo = <<>>

(* Each address still to be scanned may cost two reads, but a range of     *)
(* them one less.                                                          *)
Cheap == requests + 2 * Cardinality(Left) <= 2 * Cardinality(MapWords) + Len(todo)

ScanInv == ScanTyped /\ Exact /\ Cheap

(* The words of the map, and any of them, can be counted. *)
LEMMA MapFinite ==
  /\ MapWords \in SUBSET Nat /\ IsFiniteSet(MapWords)
  /\ Cardinality(MapWords) \in Nat
  /\ \A S \in SUBSET MapWords : IsFiniteSet(S) /\ Cardinality(S) \in Nat
<1>1. MapWords \in SUBSET Nat /\ IsFiniteSet(MapWords)
  BY WordsAssumption, MapAssumption DEF MapWords, AddressSet
<1> QED BY <1>1, FS_CardinalityType, FS_Subset

(* Ranges are not empty, so there are no more of them than addresses.      *)
LEMMA NoMoreRangesThanWords ==
  ASSUME NEW s \in Seq(Ranges), Apart(s), IsFiniteSet(WordsOfAll(s))
  PROVE  Len(s) <= Cardinality(WordsOfAll(s))
<1> DEFINE f == [i \in DOMAIN s |-> s[i].start]
           W == WordsOfAll(s)
<1>1. DOMAIN s = 1 .. Len(s) /\ Len(s) \in Nat /\ \A i \in DOMAIN s : s[i] \in Ranges
  OBVIOUS
<1>2. \A i \in DOMAIN s : s[i].start \in Words(s[i])
  <2> SUFFICES ASSUME NEW i \in DOMAIN s PROVE s[i].start \in Words(s[i])
    OBVIOUS
  <2>1. s[i] \in Ranges /\ s[i].count \in 1 .. s[i].count
    BY <1>1 DEF Ranges
  <2> QED BY <2>1, RangeWords
<1>3. f \in [DOMAIN s -> W]
  BY <1>2 DEF WordsOfAll
<1>4. \A i, j \in DOMAIN s : f[i] = f[j] => i = j
  BY <1>2 DEF Apart
<1> HIDE DEF f, W
<1>5. f \in Injection(DOMAIN s, W)
  BY <1>3, <1>4, Fun_IsInj
<1>6. Cardinality(DOMAIN s) <= Cardinality(W)
  BY <1>5, FS_Injection DEF W
<1>7. Cardinality(1 .. Len(s)) = IF 1 > Len(s) THEN 0 ELSE Len(s) - 1 + 1
  BY <1>1, FS_Interval
<1> QED BY <1>1, <1>6, <1>7 DEF W

(* The next block lies within the range it is read from. *)
LEMMA BlockFits ==
  ASSUME ScanTyped, todo # <<>>
  PROVE  Block \in 1 .. Head(todo).count /\ Head(todo) \in Ranges
<1>1. Head(todo) \in Ranges
  BY HeadFirst DEF ScanTyped
<1> QED BY <1>1, LimitsAssumption DEF Block, Ranges

(* After the first n addresses of the present range these are left.        *)
LEMMA AfterLeaves ==
  ASSUME ScanTyped, Apart(todo), todo # <<>>, NEW n \in 1 .. Head(todo).count
  PROVE  /\ After(n) \in Seq(Ranges) /\ Apart(After(n))
         /\ WordsOfAll(After(n)) = Left \ Addresses(Head(todo).start, n)
         /\ Len(After(n)) >= Len(todo) - 1
         /\ n < Head(todo).count => Len(After(n)) = Len(todo)
<1> DEFINE h == Head(todo)
           t == Tail(todo)
           rest == [start |-> h.start + n, count |-> h.count - n]
           gone == Addresses(h.start, n)
<1>1. /\ h \in Ranges /\ t \in Seq(Ranges) /\ Len(t) = Len(todo) - 1 /\ Apart(t)
      /\ Left = Words(h) \union WordsOfAll(t) /\ Words(h) \intersect WordsOfAll(t) = {}
  BY HeadFirst DEF ScanTyped, Left
<1>2. /\ gone \subseteq Words(h) /\ Words(h) \ gone = Addresses(h.start + n, h.count - n)
  BY <1>1, RangeWords
<1>3. h.start \in Nat /\ h.count \in Nat /\ n \in Nat /\ n # 0 /\ n <= h.count
      /\ Len(todo) \in Nat
  BY <1>1 DEF Ranges, ScanTyped
<1>4. After(n) = (IF h.count - n = 0 THEN <<>> ELSE <<rest>>) \o t
  BY DEF After
<1>5. Words(rest) = Words(h) \ gone
  BY <1>2 DEF Words
<1>6. CASE n = h.count
  <2>1. After(n) = <<>> \o t
    BY <1>3, <1>4, <1>6
  <2>2. After(n) = t
    BY <1>1, <2>1
  <2>3. Addresses(h.start + n, h.count - n) = {}
    BY <1>3, <1>6 DEF Addresses
  <2> HIDE DEF h, t, gone
  <2> QED BY <1>1, <1>2, <1>3, <1>6, <2>2, <2>3 DEF h, gone
<1>7. CASE n < h.count
  <2>1. After(n) = <<rest>> \o t
    BY <1>3, <1>4, <1>7
  <2>2. rest \in Ranges
    BY <1>3, <1>7 DEF Ranges
  <2> HIDE DEF h, t, gone, rest
  <2>3. Words(rest) \intersect WordsOfAll(t) = {}
    BY <1>1, <1>5
  <2>4. WordsOfAll(After(n)) = Words(rest) \union WordsOfAll(t)
    BY <1>1, <2>1, <2>2, PutFirst
  <2>5. After(n) \in Seq(Ranges) /\ Apart(After(n)) /\ Len(After(n)) = Len(t) + 1
    BY <1>1, <2>1, <2>2, <2>3, PutFirst
  <2>6. WordsOfAll(After(n)) = Left \ gone
    BY <1>1, <1>2, <1>5, <2>4
  <2> QED BY <1>1, <1>3, <2>5, <2>6 DEF h, gone
<1> QED BY <1>3, <1>6, <1>7

(* The scan's invariant holds at the start. *)
LEMMA ScanInvInit == ScanInit => ScanInv
<1> SUFFICES ASSUME ScanInit PROVE ScanInv
  OBVIOUS
<1>1. /\ todo \in Seq(Ranges) /\ Left = MapWords /\ Apart(todo)
  BY RunsAreRanges, SequenceApart, MapFinite DEF ScanInit, Left, MapWords
<1>2. Len(todo) \in Nat
  BY <1>1
<1>3. ScanTyped
  BY <1>1, TriesAssumption DEF ScanInit, ScanTyped
<1>4. Exact
  BY <1>1 DEF ScanInit, Exact
<1>5. Cheap
  BY <1>1, <1>2, MapFinite DEF ScanInit, Cheap
<1> QED BY <1>3, <1>4, <1>5 DEF ScanInv

(* What a scan has still to spend: two reads for each address left, less   *)
(* one for each range already told apart, each of them tried so many times.*)
Spare == 2 * Cardinality(Left) - Len(todo)
Fuel == Spare * Tries + (Tries - attempt)

(* A read that settles the first n addresses: all of them answer, or the   *)
(* one there is does not.                                                  *)
LEMMA Settled ==
  ASSUME ScanInv, todo # <<>>, outcome = "running", NEW n \in 1 .. Head(todo).count,
         BlockProbed, todo' = After(n), found' = found \union (unit \intersect Addresses(Head(todo).start, n))
  PROVE  ScanInv' /\ Spare' < Spare
<1> DEFINE gone == Addresses(Head(todo).start, n)
<1>1. /\ After(n) \in Seq(Ranges) /\ Apart(After(n)) /\ WordsOfAll(After(n)) = Left \ gone
      /\ Len(After(n)) >= Len(todo) - 1
  BY AfterLeaves DEF ScanInv, Exact
<1>2. Head(todo) \in Ranges /\ Words(Head(todo)) \subseteq Left
  BY HeadFirst DEF ScanInv, ScanTyped, Left
<1>3. gone \subseteq Left /\ IsFiniteSet(gone) /\ Cardinality(gone) = n
  BY <1>2, RangeWords
<1> HIDE DEF gone
<1>4. IsFiniteSet(Left) /\ Cardinality(Left) \in Nat
  BY MapFinite DEF ScanInv, ScanTyped
<1>5. Cardinality(Left') = Cardinality(Left) - n
  <2>1. Left' = Left \ gone /\ Left \intersect gone = gone
    BY <1>1, <1>3 DEF Left
  <2> QED BY <1>3, <1>4, <2>1, FS_Difference
<1>6. ScanTyped'
  BY <1>1, <1>3, TriesAssumption DEF ScanInv, ScanTyped, BlockProbed, Left, gone
<1>7. Exact'
  BY <1>1, <1>3 DEF ScanInv, Exact, BlockProbed, Left, gone
<1>8. Cheap'
  <2>1. requests' = requests + 1 /\ todo' = After(n) /\ n \in Nat /\ n # 0
    BY <1>2 DEF BlockProbed, Ranges
  <2>2. requests + 2 * Cardinality(Left) <= 2 * Cardinality(MapWords) + Len(todo)
    BY DEF ScanInv, Cheap
  <2>3. requests \in Nat /\ Len(todo) \in Nat /\ Len(After(n)) \in Nat
    BY <1>1 DEF ScanInv, ScanTyped
  <2>4. MapWords' = MapWords
    BY DEF MapWords, AddressSet
  <2> QED BY <1>1, <1>4, <1>5, <2>1, <2>2, <2>3, <2>4, MapFinite DEF Cheap
<1>9. Spare' < Spare
  <2>1. /\ n \in Nat /\ n # 0 /\ Len(todo) \in Nat /\ Len(todo') \in Nat
        /\ Len(todo') >= Len(todo) - 1
    BY <1>1, <1>2 DEF ScanInv, ScanTyped, Ranges
  <2> QED BY <1>4, <1>5, <2>1 DEF Spare
<1> QED BY <1>6, <1>7, <1>8, <1>9 DEF ScanInv

(* A block that answers, and a single address that does not, are settled. *)
LEMMA ProbeSettles ==
  ASSUME ScanInv, LiveBlock \/ Hole
  PROVE  ScanInv' /\ Spare' < Spare
<1>1. CASE LiveBlock
  <2>1. Block \in 1 .. Head(todo).count
    BY <1>1, BlockFits DEF LiveBlock, ScanInv
  <2>2. unit \intersect BlockWords = BlockWords
    BY <1>1 DEF LiveBlock
  <2> QED BY <1>1, <2>1, <2>2, Settled DEF LiveBlock, BlockWords, Running
<1>2. CASE Hole
  <2>1. Block \in 1 .. Head(todo).count /\ Block = 1 /\ Head(todo) \in Ranges
    BY <1>2, BlockFits DEF Hole, ScanInv
  <2>2. BlockWords = {Head(todo).start}
    BY <2>1 DEF BlockWords, Addresses, Ranges
  <2>3. unit \intersect BlockWords = {}
    BY <1>2, <2>2 DEF Hole
  <2> QED BY <1>2, <2>1, <2>3, Settled DEF Hole, BlockWords, Running
<1> QED BY <1>1, <1>2

(* A block with a hole leaves what there was, in one range more. *)
LEMMA SplitLeaves ==
  ASSUME ScanInv, Split
  PROVE  ScanInv' /\ Spare' < Spare
<1> USE DEF ScanInv
<1> DEFINE half == Block \div 2
           h == Head(todo)
           first == [start |-> h.start, count |-> half]
<1>1. Block \in 1 .. h.count /\ h \in Ranges /\ Block > 1 /\ todo # <<>>
  BY BlockFits DEF Split
<1>2. half \in 1 .. h.count /\ half < h.count /\ first \in Ranges
  BY <1>1 DEF Ranges
<1>3. /\ After(half) \in Seq(Ranges) /\ Apart(After(half))
      /\ WordsOfAll(After(half)) = Left \ Addresses(h.start, half)
      /\ Len(After(half)) = Len(todo)
  BY <1>1, <1>2, AfterLeaves DEF Exact
<1>4. Addresses(h.start, half) \subseteq Left
  BY <1>1, <1>2, HeadFirst, RangeWords DEF ScanTyped, Left
<1>5. Words(first) = Addresses(h.start, half)
  BY DEF Words
<1>6. todo' = <<first>> \o After(half) /\ BlockProbed /\ UNCHANGED found
  BY DEF Split
<1> HIDE DEF half, h, first
<1>7. /\ todo' \in Seq(Ranges) /\ Len(todo') = Len(todo) + 1
      /\ WordsOfAll(todo') = Words(first) \union WordsOfAll(After(half))
      /\ Apart(todo')
  <2>1. Words(first) \intersect WordsOfAll(After(half)) = {}
    BY <1>3, <1>5
  <2> QED BY <1>2, <1>3, <1>6, <2>1, PutFirst
<1>8. Left' = Left
  BY <1>3, <1>4, <1>5, <1>7 DEF Left
<1>9. ScanTyped'
  BY <1>6, <1>7, <1>8, TriesAssumption DEF ScanTyped, BlockProbed, MapWords
<1>10. Exact'
  BY <1>6, <1>7, <1>8 DEF Exact, BlockProbed, MapWords, Split
<1>11. Cheap'
  <2>1. Cardinality(Left) \in Nat /\ requests \in Nat /\ Len(todo) \in Nat
    BY MapFinite DEF ScanTyped
  <2>2. requests' = requests + 1 /\ MapWords' = MapWords
    BY <1>6 DEF BlockProbed, MapWords
  <2> QED BY <1>7, <1>8, <2>1, <2>2, MapFinite DEF Cheap
<1>12. Spare' < Spare
  <2>1. Cardinality(Left) \in Nat /\ Len(todo) \in Nat
    BY MapFinite DEF ScanTyped
  <2> QED BY <1>7, <1>8, <2>1 DEF Spare
<1> QED BY <1>9, <1>10, <1>11, <1>12

(* Every read, split, retry and give-up keeps it. *)
LEMMA ScanInvNext == ScanInv /\ [ScanNext]_scanVars => ScanInv'
<1> SUFFICES ASSUME ScanInv, [ScanNext]_scanVars PROVE ScanInv'
  OBVIOUS
<1>1. CASE LiveBlock \/ Hole
  BY <1>1, ProbeSettles
<1>2. CASE Split
  BY <1>2, SplitLeaves
<1> USE DEF ScanInv
<1>3. CASE Retry
  BY <1>3, TriesAssumption DEF Retry, ScanTyped, Exact, Cheap, Left, MapWords
<1>4. CASE Raises
  BY <1>4 DEF Raises, ScanTyped, Exact, Cheap, Left, MapWords
<1>5. CASE Done
  BY <1>5 DEF Done, ScanTyped, Exact, Cheap, Left, MapWords
<1>6. CASE UNCHANGED scanVars
  BY <1>6 DEF scanVars, ScanTyped, Exact, Cheap, Left, MapWords
<1> QED BY <1>1, <1>2, <1>3, <1>4, <1>5, <1>6 DEF ScanNext

(* It holds for ever. *)
LEMMA ScanInvHolds == ScanSpec => []ScanInv
<1> QED BY ScanInvInit, ScanInvNext, PTL DEF ScanSpec

----------------------------------------------------------------------------
(* Ranges to scan are never empty and lie in the map, and no read is tried *)
(* more often than it may be (_probe, _scan_range), on any unit.           *)
THEOREM ScanTypeCorrect == ScanSpec => []ScanTypeOK
<1>1. ScanInv => ScanTypeOK
  <2> SUFFICES ASSUME ScanInv PROVE ScanTypeOK
    OBVIOUS
  <2>1. \A i \in DOMAIN todo : todo[i] \in Ranges
    BY DEF ScanInv, ScanTyped
  <2>2. \A i \in DOMAIN todo : todo[i].count > 0
    BY <2>1 DEF Ranges
  <2>3. \A i \in DOMAIN todo :
          Addresses(todo[i].start, todo[i].count) \subseteq AddressSet(Registers)
    BY DEF ScanInv, ScanTyped, Left, WordsOfAll, Words, MapWords
  <2> QED BY <2>2, <2>3 DEF ScanInv, ScanTyped, ScanTypeOK, MapWords
<1> QED BY <1>1, ScanInvHolds, PTL

(* A finished scan (RegisterDiscovery.run) has found exactly the registers *)
(* of the map that the unit implements, wherever its holes lie.            *)
THEOREM ScanExact == ScanSpec => []FindsTheUnit
<1>1. ScanInv => FindsTheUnit
  <2> SUFFICES ASSUME ScanInv, outcome = "done" PROVE FindsTheUnit
    BY DEF FindsTheUnit
  <2>1. Left = {}
    BY DEF ScanInv, Exact, Left, WordsOfAll
  <2>2. found = unit \intersect MapWords
    BY <2>1 DEF ScanInv, ScanTyped, Exact
  <2>3. \A r \in Registers : WordsOf[r] \subseteq MapWords
    BY DEF MapWords, AddressSet
  <2>4. \A r \in Registers : WordsOf[r] \subseteq found <=> WordsOf[r] \subseteq unit
    BY <2>2, <2>3
  <2> QED BY <2>4 DEF FindsTheUnit, Present
<1> QED BY <1>1, ScanInvHolds, PTL

(* However its holes lie, no unit costs more than two reads for each       *)
(* address of the map.                                                     *)
THEOREM ScanCheap == ScanSpec => []TwoReadsPerAddress
<1>1. ScanInv => TwoReadsPerAddress
  <2> SUFFICES ASSUME ScanInv PROVE requests <= 2 * Cardinality(MapWords)
    BY DEF TwoReadsPerAddress, MapWords
  <2>1. IsFiniteSet(Left) /\ Cardinality(Left) \in Nat
    BY MapFinite DEF ScanInv, ScanTyped
  <2>2. Len(todo) <= Cardinality(Left)
    BY <2>1, NoMoreRangesThanWords DEF ScanInv, ScanTyped, Exact, Left
  <2>3. requests \in Nat /\ Len(todo) \in Nat
    BY DEF ScanInv, ScanTyped
  <2>4. requests + 2 * Cardinality(Left) <= 2 * Cardinality(MapWords) + Len(todo)
    BY DEF ScanInv, Cheap
  <2> QED BY <2>1, <2>2, <2>3, <2>4, MapFinite
<1> QED BY <1>1, ScanInvHolds, PTL

(* No step of a running scan leaves as much to spend as before it, a retry *)
(* included: it ends after at most so many steps, on any unit and however  *)
(* the connection fails (RegisterDiscovery._scan_range, _probe).           *)
THEOREM ScanRunsDown ==
  ScanSpec => [](Fuel \in Nat) /\ [][outcome' # "running" \/ Fuel' < Fuel]_scanVars
<1>1. ASSUME ScanInv
      PROVE  Spare \in Nat /\ Fuel \in Nat /\ attempt \in 0 .. Tries - 1
  <2>1. IsFiniteSet(Left) /\ Cardinality(Left) \in Nat
    BY <1>1, MapFinite DEF ScanInv, ScanTyped
  <2>2. Len(todo) <= Cardinality(Left) /\ Len(todo) \in Nat
    BY <1>1, <2>1, NoMoreRangesThanWords DEF ScanInv, ScanTyped, Exact, Left
  <2>3. Spare \in Nat
    BY <2>1, <2>2 DEF Spare
  <2>4. attempt \in 0 .. Tries - 1
    BY <1>1 DEF ScanInv, ScanTyped
  <2> QED BY <2>3, <2>4, TriesAssumption DEF Fuel
<1>2. ASSUME ScanInv, ScanInv', LiveBlock \/ Hole \/ Split PROVE Fuel' < Fuel
  <2>1. Spare \in Int /\ Spare' < Spare /\ attempt \in 0 .. Tries - 1
    BY <1>1, <1>2, ProbeSettles, SplitLeaves
  <2>2. Spare' \in Int
    <3>1. Left' \subseteq MapWords /\ Len(todo') \in Nat
      BY <1>2 DEF ScanInv, ScanTyped, MapWords, AddressSet
    <3>2. Cardinality(Left') \in Nat
      BY <3>1, MapFinite
    <3> QED BY <3>1, <3>2 DEF Spare
  <2>3. attempt' = 0
    BY <1>2 DEF LiveBlock, Hole, Split, BlockProbed
  <2>4. Tries \in Nat /\ Tries > 0 /\ Spare' + 1 \in Int /\ Spare' + 1 <= Spare
    <3>1. \A a, b \in Int : a < b => a + 1 \in Int /\ a + 1 <= b
      OBVIOUS
    <3> HIDE DEF Spare
    <3>2. Spare' + 1 \in Int /\ Spare' + 1 <= Spare
      BY <3>1, <2>1, <2>2
    <3> QED BY <3>2, TriesAssumption
  <2>5. (Spare' + 1) * Tries <= Spare * Tries
    BY <2>1, <2>4, TimesMonotonic
  <2>6. /\ (Spare' + 1) * Tries = Spare' * Tries + Tries
        /\ Spare * Tries \in Int /\ Spare' * Tries \in Int
    BY <2>1, <2>2, <2>4
  <2> HIDE DEF Spare
  <2> QED BY <2>1, <2>3, <2>4, <2>5, <2>6 DEF Fuel
<1>3. ASSUME ScanInv, Retry PROVE Fuel' < Fuel
  <2>1. Spare' = Spare
    BY <1>3 DEF Retry, Spare, Left
  <2>2. Spare * Tries \in Int /\ attempt' = attempt + 1 /\ attempt \in Nat
    BY <1>1, <1>3, TriesAssumption DEF Retry
  <2> QED BY <2>1, <2>2, TriesAssumption DEF Fuel
<1>4. ScanInv /\ ScanInv' /\ [ScanNext]_scanVars =>
        [outcome' # "running" \/ Fuel' < Fuel]_scanVars
  BY <1>2, <1>3 DEF ScanNext, Raises, Done
<1>5. ScanInv => Fuel \in Nat
  BY <1>1
<1> QED BY <1>4, <1>5, ScanInvHolds, PTL DEF ScanSpec

(* Whatever is wanted of what a finished scan found, the plan for it reads *)
(* every word, in no read that is too long, and touches no address the     *)
(* unit lacks, wherever its holes lie (plan_spans after RegisterDiscovery  *)
(* has run).                                                               *)
THEOREM PlansSafe == ScanSpec => []PlansAreSafe
<1>1. ScanInv => PlansAreSafe
  <2> SUFFICES ASSUME ScanInv, outcome = "done", NEW wanted \in SUBSET Present
               PROVE  LET plan == PlanSpans(wanted, Present) IN
                      /\ AddressSet(wanted) \subseteq PlanWords(plan)
                      /\ PlanWords(plan) \subseteq unit
                      /\ \A i \in DOMAIN plan : plan[i].count \in 1 .. MaxBlock
    BY DEF PlansAreSafe
  <2>1. Present \in SUBSET Registers
    BY DEF Present
  <2>2. AddressSet(Present) \subseteq unit
    BY DEF Present, AddressSet, ScanInv, Exact
  <2> QED BY <2>1, <2>2, PlanIsSafe
<1> QED BY <1>1, ScanInvHolds, PTL

----------------------------------------------------------------------------
(* The fewest reads *)

(* The words wanted are finitely many of those present.                    *)
LEMMA WantedWords ==
  ASSUME NEW present \in SUBSET Registers, NEW wanted \in SUBSET present
  PROVE  /\ AddressSet(wanted) \in SUBSET Nat /\ IsFiniteSet(AddressSet(wanted))
         /\ AddressSet(wanted) \subseteq AddressSet(present)
         /\ IsFiniteSet(AddressSet(present))
<1>1. /\ AddressSet(present) \in SUBSET AddressSet(Registers)
      /\ AddressSet(wanted) \in SUBSET AddressSet(present)
      /\ AddressSet(Registers) \subseteq Nat
  BY WordsAssumption DEF AddressSet
<1> QED BY <1>1, MapAssumption, FS_Subset

(* A safe read that holds the beginnings of two runs holds the second run  *)
(* whole, and all between.                                                 *)
LEMMA SafeReadIsWhole ==
  ASSUME NEW present \in SUBSET Registers, NEW wanted \in SUBSET present,
         NEW read \in SafeReads(wanted, present),
         NEW i \in DOMAIN Contiguous(AddressSet(wanted)),
         NEW s \in read, s <= Contiguous(AddressSet(wanted))[i].start,
         Contiguous(AddressSet(wanted))[i].start \in read
  PROVE  /\ s .. RunEnd(Contiguous(AddressSet(wanted))[i]) - 1 \subseteq read
         /\ RunEnd(Contiguous(AddressSet(wanted))[i]) - s <= MaxBlock
<1> DEFINE A == AddressSet(wanted)
           starts == {a \in A : a - 1 \notin A}
           ends == {b \in A : b + 1 \notin A}
           runs == Contiguous(A)
           o == runs[i].start
           e == RunEnd(runs[i])
<1>1. A \in SUBSET Nat /\ IsFiniteSet(A)
  BY WantedWords
<1>2. PICK a \in starts, b \in ends : read = a .. b /\ Cardinality(read) <= MaxBlock
  BY DEF SafeReads
<1>3. runs \in Seq(Ranges) /\ WordsOfAll(runs) = A
  BY <1>1, RunsAreRanges
<1>4. o \in Nat /\ e \in Nat /\ o < e /\ o .. e - 1 \subseteq A
  BY <1>3, RangeIs DEF WordsOfAll
<1>5. a \in Nat /\ b \in Nat /\ b + 1 \notin A /\ s \in Nat /\ a <= s /\ o <= b /\ s <= o
  BY <1>1, <1>2
<1> HIDE DEF A, runs, o, e
<1>6. e - 1 <= b
  <2> SUFFICES ASSUME b + 1 <= e - 1 PROVE FALSE
    BY <1>4, <1>5
  <2>1. b + 1 \in o .. e - 1
    BY <1>4, <1>5
  <2> QED BY <1>4, <1>5, <2>1
<1>7. Cardinality(a .. b) = (b - a) + 1
  <2>1. a <= b
    BY <1>4, <1>5
  <2>2. Cardinality(a .. b) = IF a > b THEN 0 ELSE b - a + 1
    BY <1>5, FS_Interval
  <2> QED BY <1>5, <2>1, <2>2
<1>8. s .. e - 1 \subseteq a .. b /\ e - s <= (b - a) + 1
  BY <1>4, <1>5, <1>6
<1> QED BY <1>2, <1>4, <1>5, <1>7, <1>8, LimitsAssumption DEF A, runs, o, e

(* No safe read serves two of the plan's reads: it would hold the          *)
(* beginnings of both, and the run that begins the second had been joined. *)
LEMMA NoReadServesTwo ==
  ASSUME NEW present \in SUBSET Registers, NEW wanted \in SUBSET present,
         NEW read \in SafeReads(wanted, present),
         NEW f \in SpanHeads(Contiguous(AddressSet(wanted)), AddressSet(present)),
         NEW g \in SpanHeads(Contiguous(AddressSet(wanted)), AddressSet(present)),
         f < g, Contiguous(AddressSet(wanted))[f].start \in read
  PROVE  Contiguous(AddressSet(wanted))[g].start \notin read
<1> DEFINE A == AddressSet(wanted)
           there == AddressSet(present)
           runs == Contiguous(A)
           N == Len(runs)
           first == SpanBegins(runs, there)
           h == first[g - 1]
           gap == RunEnd(runs[g - 1]) .. runs[g].start - 1
<1> SUFFICES ASSUME runs[g].start \in read PROVE FALSE
  OBVIOUS
<1>1. A \in SUBSET Nat /\ IsFiniteSet(A) /\ A \subseteq there
  BY WantedWords
<1>2. /\ runs \in Seq(Ranges) /\ WordsOfAll(runs) = A /\ InSequence(runs)
      /\ \A i \in DOMAIN runs : RunEnd(runs[i]) \notin A
  BY <1>1, RunsAreRanges
<1>3. N \in Nat /\ DOMAIN runs = 1 .. N /\ \A i \in 1 .. N : runs[i] \in Ranges
  BY <1>2
<1>4. \A i \in 1 .. N : /\ runs[i].start \in Nat /\ RunEnd(runs[i]) \in Nat
                        /\ runs[i].start < RunEnd(runs[i])
                        /\ Words(runs[i]) = runs[i].start .. RunEnd(runs[i]) - 1
  BY <1>3, RangeIs
<1>5. f \in 1 .. N /\ g \in 1 .. N /\ g - 1 \in 1 .. N /\ f <= g - 1 /\ first[g] = g
  BY <1>3 DEF SpanHeads
<1>6. h \in 1 .. g - 1 /\ f <= h
  <2>1. h \in 1 .. g - 1
    BY <1>1, <1>2, <1>3, <1>5, SpansBegin
  <2>2. f <= h
    BY <1>3, <1>5, BeginsInOrder
  <2> QED BY <2>1, <2>2
<1>7. ~Joins(runs, h, g, there)
  <2>1. first[g] = BeginOf(runs, there, first, g)
    BY <1>3, <1>5, BeginsExist
  <2>2. h # g /\ g > 1
    BY <1>5, <1>6
  <2> HIDE DEF h
  <2> QED BY <1>5, <2>1, <2>2 DEF BeginOf, h
<1> HIDE DEF runs, A, there, first, h, N
<1>8. \A i, j \in 1 .. N : i <= j => runs[i].start <= runs[j].start /\ RunEnd(runs[i]) <= RunEnd(runs[j])
  <2> SUFFICES ASSUME NEW i \in 1 .. N, NEW j \in 1 .. N, i <= j
               PROVE  runs[i].start <= runs[j].start /\ RunEnd(runs[i]) <= RunEnd(runs[j])
    OBVIOUS
  <2>1. CASE i = j
    BY <1>4, <2>1
  <2>2. CASE i < j
    <3>1. RunEnd(runs[i]) <= runs[j].start
      BY <1>2, <1>3, <2>2 DEF InSequence
    <3> QED BY <1>4, <3>1
  <2>3. i = j \/ i < j
    BY <1>3
  <2> QED BY <2>1, <2>2, <2>3
<1> DEFINE s == runs[f].start
           o == runs[h].start
           p == RunEnd(runs[g - 1])
           t == runs[g].start
           e == RunEnd(runs[g])
<1>9. /\ s \in Nat /\ o \in Nat /\ p \in Nat /\ t \in Nat /\ e \in Nat
      /\ s <= o /\ o < p /\ p <= t /\ t < e
  <2>1. h \in 1 .. N
    BY <1>3, <1>5, <1>6
  <2>2. s <= o
    BY <1>5, <1>6, <1>8, <2>1
  <2>3. runs[h].start <= runs[g - 1].start /\ runs[g - 1].start < p
    BY <1>4, <1>5, <1>6, <1>8, <2>1
  <2>4. p <= t
    <3>1. g - 1 < g
      BY <1>3, <1>5
    <3> QED BY <1>2, <1>3, <1>5, <3>1 DEF InSequence
  <2> QED BY <1>4, <1>5, <2>1, <2>2, <2>3, <2>4
<1>10. s .. e - 1 \subseteq read /\ e - s <= MaxBlock
  <2>1. s \in read /\ t \in read /\ s <= t
    BY <1>9 DEF runs, A
  <2> QED BY <1>3, <1>5, <2>1, SafeReadIsWhole DEF runs, A
<1>11. e - o <= MaxBlock
  BY <1>9, <1>10, LimitsAssumption
<1>12. gap \subseteq s .. e - 1
  BY <1>9
<1>13. read \subseteq there
  BY DEF SafeReads, there
<1>14. p - 1 \in A /\ t \in A
  <2>1. p - 1 \in Words(runs[g - 1]) /\ t \in Words(runs[g])
    BY <1>4, <1>5
  <2> QED BY <1>2, <1>3, <1>5, <2>1 DEF WordsOfAll
<1>15. ASSUME NEW x \in (p - 1) + 1 .. t - 1 PROVE x \notin A
  <2> SUFFICES ASSUME x \in A PROVE FALSE
    OBVIOUS
  <2>1. PICK j \in 1 .. N : x \in Words(runs[j])
    BY <1>2, <1>3 DEF WordsOfAll
  <2>2. x \in Nat /\ p <= x /\ x < t /\ runs[j].start <= x /\ x < RunEnd(runs[j])
    BY <1>1, <1>4, <1>9, <2>1
  <2>3. CASE j <= g - 1
    <3>1. RunEnd(runs[j]) <= p
      BY <1>5, <1>8, <2>3
    <3> QED BY <1>4, <1>9, <2>2, <3>1
  <2>4. CASE ~(j <= g - 1)
    <3>1. g <= j
      BY <1>3, <1>5, <2>4
    <3>2. t <= runs[j].start
      BY <1>5, <1>8, <3>1
    <3> QED BY <1>4, <1>9, <2>2, <3>2
  <2> QED BY <2>3, <2>4
<1>16. t - (p - 1) - 1 <= MaxGap
  <2>1. \A x, y \in read \intersect A :
          (x < y /\ x + 1 .. y - 1 \intersect A = {}) => y - x - 1 <= MaxGap
    BY DEF SafeReads, A
  <2>2. p - 1 \in read /\ t \in read
    BY <1>9, <1>10
  <2>3. p - 1 < t /\ (p - 1) + 1 .. t - 1 \intersect A = {}
    BY <1>9, <1>15
  <2> HIDE DEF p, t
  <2> QED BY <1>14, <2>1, <2>2, <2>3
<1>17. Cardinality(gap) <= MaxGap
  <2> HIDE DEF p, t
  <2>1. Cardinality(p .. t - 1) = IF p > t - 1 THEN 0 ELSE t - 1 - p + 1
    BY <1>9, FS_Interval
  <2> QED BY <1>9, <1>16, <2>1, LimitsAssumption DEF p, t
<1> QED BY <1>7, <1>10, <1>11, <1>12, <1>13, <1>17 DEF Joins

(* The plan has no more reads than any set of safe reads that covers what  *)
(* is wanted: each of them serves at most one of the plan's.               *)
LEMMA PlanIsFewest ==
  ASSUME NEW present \in SUBSET Registers, NEW wanted \in SUBSET present,
         NEW reads \in SUBSET SafeReads(wanted, present),
         AddressSet(wanted) \subseteq UNION reads
  PROVE  Len(PlanSpans(wanted, present)) <= Cardinality(reads)
<1> DEFINE A == AddressSet(wanted)
           there == AddressSet(present)
           runs == Contiguous(A)
           begins == SpanHeads(runs, there)
           Serving(f) == CHOOSE read \in reads : runs[f].start \in read
           serving == [f \in begins |-> Serving(f)]
<1>1. A \in SUBSET Nat /\ IsFiniteSet(A) /\ A \subseteq there /\ IsFiniteSet(there)
  BY WantedWords
<1>2. /\ runs \in Seq(Ranges) /\ WordsOfAll(runs) = A
  BY <1>1, RunsAreRanges
<1>3. \A i \in DOMAIN runs : /\ runs[i] \in Ranges
                             /\ runs[i].start \in Nat /\ runs[i].start \in A
  <2> SUFFICES ASSUME NEW i \in DOMAIN runs
               PROVE  runs[i] \in Ranges /\ runs[i].start \in Nat /\ runs[i].start \in A
    OBVIOUS
  <2>1. runs[i] \in Ranges
    BY <1>2
  <2>2. runs[i].start \in Words(runs[i]) /\ runs[i].start \in Nat
    <3> HIDE DEF runs
    <3> QED BY <2>1, RangeIs
  <2> QED BY <1>2, <2>1, <2>2 DEF WordsOfAll
<1>4. \A i \in DOMAIN runs : \E read \in reads : runs[i].start \in read
  BY <1>3
<1>5. ASSUME NEW i \in DOMAIN runs PROVE runs[i].count <= MaxBlock
  <2>1. PICK read \in reads : runs[i].start \in read
    BY <1>4
  <2>2. RunEnd(runs[i]) - runs[i].start <= MaxBlock
    <3>1. read \in SafeReads(wanted, present) /\ runs[i].start <= runs[i].start
      BY <1>3
    <3> QED BY <2>1, <3>1, SafeReadIsWhole
  <2> HIDE DEF runs
  <2> QED BY <1>3, <2>2 DEF RunEnd, Ranges
<1>6. IsFiniteSet(reads)
  <2>1. reads \subseteq SUBSET there
    BY DEF SafeReads
  <2> HIDE DEF there
  <2> QED BY <1>1, <2>1, FS_SUBSET, FS_Subset
<1>7. begins \subseteq DOMAIN runs
  BY DEF SpanHeads
<1>8. ASSUME NEW f \in begins
      PROVE  Serving(f) \in reads /\ runs[f].start \in Serving(f)
  BY <1>4, <1>7
<1> HIDE DEF Serving
<1>9. ASSUME NEW f \in begins, NEW g \in begins, f < g
      PROVE  serving[f] # serving[g]
  BY <1>8, <1>9, NoReadServesTwo
<1>10. begins \subseteq Nat
  BY <1>2, <1>7
<1> HIDE DEF begins, runs, there
<1>11. serving \in Injection(begins, reads)
  <2>1. serving \in [begins -> reads]
    BY <1>8
  <2>2. ASSUME NEW f \in begins, NEW g \in begins, serving[f] = serving[g] PROVE f = g
    <3>1. f \in Nat /\ g \in Nat
      BY <1>10
    <3>2. ~(f < g) /\ ~(g < f)
      BY <1>9, <2>2
    <3> QED BY <3>1, <3>2
  <2> HIDE DEF serving
  <2> QED BY <2>1, <2>2 DEF Injection, IsInjective
<1>12. Cardinality(begins) <= Cardinality(reads)
  <2> HIDE DEF serving
  <2> QED BY <1>6, <1>11, FS_Injection
<1>13. Len(PlanSpans(wanted, present)) = Cardinality(begins)
  BY <1>5, PlanIsSafe DEF begins, runs, there
<1> QED BY <1>12, <1>13

(* The plan made from a finished scan takes the fewest safe reads that     *)
(* read each run of wanted addresses at once (plan_spans, _bridge).        *)
THEOREM ReadsAreFewest == ScanSpec => []FewestReads
<1>1. ScanInv => FewestReads
  <2>1. Present \in SUBSET Registers
    BY DEF Present
  <2> QED BY <2>1, PlanIsFewest DEF FewestReads
<1> QED BY <1>1, ScanInvHolds, PTL
=============================================================================
