----------------------------- MODULE ValueProofs ------------------------------
(* What is proved of the values the integration reckons and writes: the    *)
(* electricity counter, the daily reports, the imported history, and the   *)
(* thermostat's and the water heater's writes - for any meters, entries,   *)
(* spans of time, pumps and temperatures.                                  *)
EXTENDS EnergyCounter, DailyReports, CopHistory, ComfortWrites, RegisterTables,
        FiniteSetTheorems, FunctionTheorems, WellFoundedInduction,
        SequenceTheorems, TLAPS

----------------------------------------------------------------------------
(* Sums over a finite set *)

Pick(s) == CHOOSE x \in s : TRUE

(* The fold of the community modules, for one function and addition.       *)
Total(f, S) ==
  LET iter[s \in SUBSET S] == IF s = {} THEN 0 ELSE f[Pick(s)] + iter[s \ {Pick(s)}]
  IN  iter[S]

(* A sum has a unit for each one of each of its positive terms, less one   *)
(* for each one of each of its negative terms.                             *)
Counted(f, s) == {p \in s \X (Nat \ {0}) : p[2] <= f[p[1]]}
Opposite(f) == [x \in DOMAIN f |-> 0 - f[x]]
Net(f, s) == Cardinality(Counted(f, s)) - Cardinality(Counted(Opposite(f), s))

(* Of the subsets of a finite set that have some fault, one is least.      *)
LEMMA LeastSubset ==
  ASSUME NEW S, IsFiniteSet(S), NEW Bad \in SUBSET SUBSET S, Bad # {}
  PROVE  \E T \in Bad : \A U \in SUBSET T : U # T => U \notin Bad
<1>1. Bad \subseteq FiniteSubsetsOf(S)
  BY FS_Subset DEF FiniteSubsetsOf
<1>2. PICK T \in Bad : \A U \in Bad : <<U, T>> \notin StrictSubsetOrdering(S)
  BY <1>1, FS_StrictSubsetOrderingWellFounded, WFMin
<1>3. ASSUME NEW U \in SUBSET T, U # T, U \in Bad PROVE FALSE
  BY <1>2, <1>3 DEF StrictSubsetOrdering
<1> QED BY <1>3

(* One element's units.                                                    *)
LEMMA UnitsStep ==
  ASSUME NEW S, NEW f \in [S -> Int], NEW T \in SUBSET S, NEW x \in S, x \notin T,
         IsFiniteSet(Counted(f, T))
  PROVE  /\ IsFiniteSet(Counted(f, T \union {x}))
         /\ Cardinality(Counted(f, T \union {x})) =
              Cardinality(Counted(f, T)) + IF f[x] > 0 THEN f[x] ELSE 0
<1> DEFINE n == f[x]
           new == {x} \X (1 .. n)
<1>1. n \in Int
  OBVIOUS
<1>2. Counted(f, T \union {x}) = Counted(f, T) \union new
  <2>1. \A p \in Counted(f, T \union {x}) : p \in Counted(f, T) \union new
    BY <1>1 DEF Counted
  <2>2. \A p \in Counted(f, T) : p \in Counted(f, T \union {x})
    BY DEF Counted
  <2>3. \A p \in new : p \in Counted(f, T \union {x})
    <3> SUFFICES ASSUME NEW i \in 1 .. n PROVE <<x, i>> \in Counted(f, T \union {x})
      OBVIOUS
    <3> QED BY <1>1 DEF Counted
  <2> QED BY <2>1, <2>2, <2>3
<1>3. Counted(f, T) \intersect new = {}
  BY DEF Counted
<1> HIDE DEF n
<1>4. IsFiniteSet(1 .. n) /\ Cardinality(1 .. n) = IF 1 > n THEN 0 ELSE n - 1 + 1
  BY <1>1, FS_Interval
<1>5. IsFiniteSet({x}) /\ Cardinality({x}) = 1
  BY FS_Singleton
<1>6. IsFiniteSet(new) /\ Cardinality(new) = 1 * Cardinality(1 .. n)
  BY <1>4, <1>5, FS_Product
<1>7. Cardinality(new) = IF n > 0 THEN n ELSE 0
  BY <1>1, <1>4, <1>6
<1> HIDE DEF new
<1>8. /\ IsFiniteSet(Counted(f, T) \union new)
      /\ Cardinality(Counted(f, T) \union new) =
           Cardinality(Counted(f, T)) + Cardinality(new) - Cardinality({})
  BY <1>3, <1>6, FS_Union
<1>9. Cardinality(Counted(f, T)) \in Nat /\ Cardinality({}) = 0
  BY FS_CardinalityType, FS_EmptySet
<1>10. Cardinality(Counted(f, T) \union new) = Cardinality(Counted(f, T)) + IF n > 0 THEN n ELSE 0
  BY <1>1, <1>7, <1>8, <1>9
<1> QED BY <1>2, <1>8, <1>10 DEF n

(* The units a total counts can be counted. *)
LEMMA UnitsFinite ==
  ASSUME NEW S, IsFiniteSet(S), NEW f \in [S -> Int]
  PROVE  \A T \in SUBSET S : IsFiniteSet(Counted(f, T)) /\ Cardinality(Counted(f, T)) \in Nat
<1> DEFINE Bad == {T \in SUBSET S : ~IsFiniteSet(Counted(f, T))}
<1>1. Bad = {}
  <2> SUFFICES ASSUME Bad # {} PROVE FALSE
    OBVIOUS
  <2>1. PICK T \in Bad : \A U \in SUBSET T : U # T => U \notin Bad
    <3>1. Bad \in SUBSET SUBSET S
      OBVIOUS
    <3> HIDE DEF Bad
    <3> QED BY <3>1, LeastSubset
  <2>2. T # {}
    <3>1. Counted(f, {}) = {}
      BY DEF Counted
    <3> QED BY <3>1, FS_EmptySet
  <2>3. PICK x \in T : TRUE
    BY <2>2
  <2>4. T \ {x} \in SUBSET S /\ x \notin T \ {x} /\ (T \ {x}) \union {x} = T /\ x \in S
    BY <2>3
  <2>5. IsFiniteSet(Counted(f, T \ {x}))
    BY <2>1, <2>4
  <2> QED BY <2>4, <2>5, UnitsStep
<1> QED BY <1>1, FS_CardinalityType

(* The opposite of a function of integers is one too. *)
LEMMA OppositeType ==
  ASSUME NEW S, NEW f \in [S -> Int]
  PROVE  Opposite(f) \in [S -> Int] /\ \A x \in S : Opposite(f)[x] = 0 - f[x]
BY DEF Opposite

(* A total over a set is one value more than over the set without its
   argument. *)
LEMMA NetStep ==
  ASSUME NEW S, IsFiniteSet(S), NEW f \in [S -> Int]
  PROVE  /\ Net(f, {}) = 0
         /\ \A T \in SUBSET S : Net(f, T) \in Int
         /\ \A T \in SUBSET S : \A x \in T : Net(f, T) = f[x] + Net(f, T \ {x})
<1> DEFINE g == Opposite(f)
<1>1. g \in [S -> Int] /\ \A x \in S : g[x] = 0 - f[x]
  BY OppositeType
<1> HIDE DEF g
<1>2. Net(f, {}) = 0
  <2>1. Counted(f, {}) = {} /\ Counted(g, {}) = {}
    BY DEF Counted
  <2> QED BY <2>1, FS_EmptySet DEF Net, g
<1>3. \A T \in SUBSET S : /\ IsFiniteSet(Counted(f, T)) /\ Cardinality(Counted(f, T)) \in Nat
                          /\ IsFiniteSet(Counted(g, T)) /\ Cardinality(Counted(g, T)) \in Nat
  BY <1>1, UnitsFinite
<1>4. \A T \in SUBSET S : Net(f, T) \in Int
  BY <1>3 DEF Net, g
<1>5. ASSUME NEW T \in SUBSET S, NEW x \in T
      PROVE  Net(f, T) = f[x] + Net(f, T \ {x})
  <2> DEFINE U == T \ {x}
  <2>1. U \in SUBSET S /\ x \notin U /\ U \union {x} = T /\ x \in S
    OBVIOUS
  <2> HIDE DEF U
  <2>2. /\ Cardinality(Counted(f, T)) = Cardinality(Counted(f, U)) + IF f[x] > 0 THEN f[x] ELSE 0
        /\ Cardinality(Counted(g, T)) = Cardinality(Counted(g, U)) + IF g[x] > 0 THEN g[x] ELSE 0
    BY <1>1, <1>3, <2>1, UnitsStep
  <2>3. f[x] \in Int /\ g[x] = 0 - f[x]
    BY <1>1
  <2>4. Cardinality(Counted(f, U)) \in Nat /\ Cardinality(Counted(g, U)) \in Nat
    BY <1>3, <2>1
  <2>5. Net(f, T) = f[x] + Net(f, U)
    BY <2>2, <2>3, <2>4 DEF Net, g
  <2> QED BY <2>5 DEF U
<1> QED BY <1>2, <1>4, <1>5

(* The recursion has a solution, and only that: the net number of units.   *)
LEMMA TotalIsNet ==
  ASSUME NEW S, IsFiniteSet(S), NEW f \in [S -> Int]
  PROVE  Total(f, S) = Net(f, S)
<1> DEFINE Term(s, g) == IF s = {} THEN 0 ELSE f[Pick(s)] + g[s \ {Pick(s)}]
           Step(g) == [s \in SUBSET S |-> Term(s, g)]
           iter == CHOOSE g : g = Step(g)
           net == [s \in SUBSET S |-> Net(f, s)]
<1>1. net = Step(net)
  <2>1. \A s \in SUBSET S : s # {} => Pick(s) \in s /\ s \ {Pick(s)} \in SUBSET S
    BY DEF Pick
  <2>2. ASSUME NEW s \in SUBSET S
        PROVE  net[s] = Term(s, net)
    <3>1. CASE s = {}
      BY <3>1, NetStep
    <3>2. CASE s # {}
      <4> DEFINE x == Pick(s)
      <4>1. x \in s /\ s \ {x} \in SUBSET S
        BY <2>1, <3>2
      <4>2. net[s] = Net(f, s) /\ net[s \ {x}] = Net(f, s \ {x})
        BY <4>1
      <4> HIDE DEF x, net
      <4>3. net[s] = f[x] + net[s \ {x}]
        BY <4>1, <4>2, NetStep
      <4> QED BY <3>2, <4>3 DEF x
    <3> QED BY <3>1, <3>2
  <2>3. net = [s \in SUBSET S |-> net[s]]
    OBVIOUS
  <2> HIDE DEF net, Term
  <2>4. [s \in SUBSET S |-> net[s]] = [s \in SUBSET S |-> Term(s, net)]
    BY <2>2
  <2> QED BY <2>3, <2>4
<1>2. iter = Step(iter)
  BY <1>1
<1>3. Total(f, S) = iter[S]
  BY DEF Total
<1> HIDE DEF iter
<1>4. \A s \in SUBSET S : iter[s] = Term(s, iter)
  BY <1>2
<1> DEFINE Bad == {s \in SUBSET S : iter[s] # Net(f, s)}
<1>5. Bad = {}
  <2> SUFFICES ASSUME Bad # {} PROVE FALSE
    OBVIOUS
  <2>1. PICK T \in Bad : \A U \in SUBSET T : U # T => U \notin Bad
    <3>1. Bad \in SUBSET SUBSET S
      OBVIOUS
    <3> HIDE DEF Bad
    <3> QED BY <3>1, LeastSubset
  <2>2. T \in SUBSET S /\ iter[T] # Net(f, T)
    OBVIOUS
  <2>3. T # {}
    BY <1>4, <2>2, NetStep
  <2> DEFINE x == Pick(T)
  <2>4. x \in T
    BY <2>3 DEF Pick
  <2>5. iter[T] = f[x] + iter[T \ {x}]
    BY <1>4, <2>2, <2>3
  <2> HIDE DEF x
  <2>6. iter[T \ {x}] = Net(f, T \ {x})
    BY <2>1, <2>2, <2>4
  <2> QED BY <2>2, <2>4, <2>5, <2>6, NetStep
<1> QED BY <1>3, <1>5

(* What proofs need of a sum: its type, and what one term's change does.   *)
LEMMA TotalType ==
  ASSUME NEW S, IsFiniteSet(S), NEW f \in [S -> Int]
  PROVE  Total(f, S) \in Int /\ (f \in [S -> Nat] => Total(f, S) \in Nat)
<1>1. Total(f, S) = Net(f, S) /\ Net(f, S) \in Int
  BY TotalIsNet, NetStep
<1>2. ASSUME f \in [S -> Nat]
      PROVE  Net(f, S) \in Nat
  <2>1. Counted(Opposite(f), S) = {}
    BY <1>2 DEF Counted, Opposite
  <2>2. Cardinality(Counted(Opposite(f), S)) = 0
    BY <2>1, FS_EmptySet
  <2>3. Cardinality(Counted(f, S)) \in Nat
    BY UnitsFinite
  <2> QED BY <2>2, <2>3 DEF Net
<1> QED BY <1>1, <1>2

(* Changing one value changes the total by as much. *)
LEMMA TotalChanged ==
  ASSUME NEW S, IsFiniteSet(S), NEW f \in [S -> Int], NEW g \in [S -> Int], NEW x \in S,
         \A y \in S : y # x => g[y] = f[y]
  PROVE  Total(g, S) = Total(f, S) - f[x] + g[x]
<1> DEFINE T == S \ {x}
<1>1. Counted(f, T) = Counted(g, T)
  BY DEF Counted
<1>2. Counted(Opposite(f), T) = Counted(Opposite(g), T)
  BY DEF Counted, Opposite
<1>3. Net(f, T) = Net(g, T)
  BY <1>1, <1>2 DEF Net
<1>4. Total(f, S) = f[x] + Net(f, T) /\ Total(g, S) = g[x] + Net(g, T) /\ Net(f, T) \in Int
  BY TotalIsNet, NetStep
<1>5. f[x] \in Int /\ g[x] \in Int
  OBVIOUS
<1> QED BY <1>3, <1>4, <1>5

(* The sum the counter takes of its meters is a total. *)
LEMMA MeterSumIsTotal ==
  ASSUME NEW f
  PROVE  MeterSum(f) = Total(f, Meters)
BY DEF MeterSum, MapThenSumSet, MapThenFoldSet, Total, Pick

----------------------------------------------------------------------------
(* The electricity counter *)

CounterType ==
  [total : Nat, heatMark : Nat \union {Unmarked}, electricityMark : Nat,
   last : Nat \union {Unmarked}, power : Nat, lag : Int, bent : BOOLEAN, gap : BOOLEAN]

(* What the meters, m units together, have counted since the marks is what *)
(* a counter has at a moment, apart from what was behind when they were    *)
(* set and what is not sampled yet.                                        *)
Balanced(c, now, m) ==
  /\ c.last \in 0 .. now
  /\ m - c.heatMark - c.lag - (now - c.last) = c.total - c.electricityMark

Kept(c, now, m) ==
  /\ c \in CounterType
  /\ c.electricityMark <= c.total
  /\ c.last # Unmarked => c.power = Power
  /\ c.heatMark # Unmarked /\ ~c.bent /\ ~c.gap => Balanced(c, now, m)

EnergyTyped ==
  /\ clock \in Nat /\ clock <= MaxTime
  /\ meter \in [Meters -> Nat]
  /\ reading \in [Meters -> Nat \union {Unread}]
  /\ running \in BOOLEAN

(* The inductive invariant.  It speaks of the store as well: what a        *)
(* restart goes on from has to balance against the meters of now.          *)
EnergyInv ==
  /\ EnergyTyped
  /\ Kept(counter, clock, MeterSum(meter))
  /\ Kept(stored, clock, MeterSum(meter))

(* Sums of meters are naturals, and a meter one higher makes the sum one
   higher. *)
LEMMA MeterSums ==
  ASSUME EnergyTyped
  PROVE  /\ MeterSum(meter) \in Nat /\ MeterSum(reading) \in Int
         /\ AllRead => MeterSum(reading) \in Nat
         /\ \A m \in Meters : MeterSum([meter EXCEPT ![m] = @ + 1]) = MeterSum(meter) + 1
<1>1. meter \in [Meters -> Int] /\ reading \in [Meters -> Int] /\ IsFiniteSet(Meters)
  BY EnergyAssumption DEF EnergyTyped, Unread
<1>2. meter \in [Meters -> Nat] /\ (AllRead => reading \in [Meters -> Nat])
  BY DEF EnergyTyped, AllRead
<1>3. MeterSum(meter) \in Nat /\ MeterSum(reading) \in Int
      /\ (AllRead => MeterSum(reading) \in Nat)
  BY <1>1, <1>2, TotalType, MeterSumIsTotal
<1>4. ASSUME NEW m \in Meters
      PROVE  MeterSum([meter EXCEPT ![m] = @ + 1]) = MeterSum(meter) + 1
  <2>1. meter[m] \in Nat /\ meter[m] + 1 \in Int
    BY <1>2
  <2>2. MeterSum([meter EXCEPT ![m] = meter[m] + 1]) = MeterSum(meter) - meter[m] + (meter[m] + 1)
    <3> DEFINE g == [meter EXCEPT ![m] = meter[m] + 1]
    <3>1. /\ meter \in [Meters -> Int] /\ IsFiniteSet(Meters) /\ g \in [Meters -> Int]
          /\ g[m] = meter[m] + 1 /\ \A n \in Meters : n # m => g[n] = meter[n]
      BY <1>1, <2>1
    <3> HIDE DEF g
    <3>2. Total(g, Meters) = Total(meter, Meters) - meter[m] + g[m]
      BY <3>1, TotalChanged
    <3> QED BY <3>1, <3>2, MeterSumIsTotal DEF g
  <2> QED BY <1>3, <2>1, <2>2
<1> QED BY <1>3, <1>4

(* The counter's invariant holds at the start. *)
LEMMA EnergyStarts == EnergyInit => EnergyInv
<1> SUFFICES ASSUME EnergyInit PROVE EnergyInv
  OBVIOUS
<1>1. EnergyTyped
  BY EnergyAssumption DEF EnergyInit, EnergyTyped, Unread
<1>2. Kept(NewCounter, clock, MeterSum(meter))
  BY DEF Kept, CounterType, NewCounter, Unmarked
<1> QED BY <1>1, <1>2 DEF EnergyInit, EnergyInv

(* One unit of time, and one of heat.                                      *)
LEMMA RunsKeeps ==
  ASSUME NEW c, NEW now \in Nat, NEW m \in Nat, Kept(c, now, m)
  PROVE  Kept(c, now + 1, m + 1)
<1>1. c.heatMark \in Int /\ c.lag \in Int /\ c.last \in Int /\ c.total \in Int
      /\ c.electricityMark \in Int
  BY DEF Kept, CounterType, Unmarked
<1>2. ASSUME Balanced(c, now, m)
      PROVE  Balanced(c, now + 1, m + 1)
  <2>1. c.last \in 0 .. now /\ c.last \in 0 .. now + 1
    BY <1>1, <1>2 DEF Balanced
  <2>2. m - c.heatMark - c.lag - (now - c.last)
          = (m + 1) - c.heatMark - c.lag - ((now + 1) - c.last)
    BY <1>1
  <2> QED BY <1>2, <2>1, <2>2 DEF Balanced
<1> QED BY <1>2 DEF Kept

(* A sample adds the time since the last one, or there was a gap.          *)
Sampled(c, now) ==
  LET seconds == now - c.last
      first == c.last = Unmarked
  IN [c EXCEPT !.last = now, !.power = Power,
               !.total = IF first THEN @ ELSE @ + Doubled(seconds, c.power, Power) \div 2,
               !.gap = @ \/ (~first /\ seconds > LongestGap)]

(* What a sample adds at a constant power of one: the seconds since the
   last, or nothing over a gap. *)
LEMMA AddedIs ==
  ASSUME NEW s \in Int
  PROVE  Doubled(s, 1, 1) \div 2 = IF s <= 0 \/ s > LongestGap THEN 0 ELSE s
<1>1. LongestGap \in Nat /\ MaxTrapezoid \in Nat
  BY EnergyAssumption
<1>2. Doubled(s, 1, 1) = IF s <= 0 \/ s > LongestGap THEN 0 ELSE 2 * s
  BY <1>1 DEF Doubled
<1>3. CASE s <= 0 \/ s > LongestGap
  BY <1>2, <1>3
<1>4. CASE ~(s <= 0 \/ s > LongestGap)
  BY <1>2, <1>4
<1> QED BY <1>3, <1>4

(* A sample keeps a counter's books, whether it counts the time or skips
   it. *)
LEMMA SampleKeeps ==
  ASSUME NEW c, NEW now \in Nat, NEW m \in Nat, Kept(c, now, m)
  PROVE  Kept(Sampled(c, now), now, m)
<1> DEFINE seconds == now - c.last
           d == Sampled(c, now)
<1>1. c \in CounterType /\ c.electricityMark <= c.total /\ c.total \in Nat
      /\ c.electricityMark \in Nat
  BY DEF Kept, CounterType
<1>2. CASE c.last = Unmarked
  <2>1. d = [c EXCEPT !.last = now, !.power = Power]
    BY <1>1, <1>2 DEF CounterType, Sampled
  <2> HIDE DEF d
  <2>2. /\ d \in CounterType /\ d.total = c.total /\ d.electricityMark = c.electricityMark
        /\ d.power = Power /\ d.heatMark = c.heatMark /\ d.bent = c.bent /\ d.gap = c.gap
    BY <1>1, <2>1 DEF CounterType, Power
  <2>3. ~Balanced(c, now, m)
    BY <1>2 DEF Balanced, Unmarked
  <2>4. ~(c.heatMark # Unmarked /\ ~c.bent /\ ~c.gap)
    BY <2>3 DEF Kept
  <2>5. Kept(d, now, m)
    BY <1>1, <2>2, <2>4 DEF Kept
  <2> QED BY <2>5 DEF d
<1>3. CASE c.last # Unmarked
  <2> DEFINE added == Doubled(seconds, c.power, Power) \div 2
  <2>1. c.last \in Nat /\ c.power = 1 /\ seconds \in Int
    BY <1>1, <1>3 DEF Kept, CounterType, Power
  <2>2. added = IF seconds <= 0 \/ seconds > LongestGap THEN 0 ELSE seconds
    <3> HIDE DEF seconds
    <3> QED BY <2>1, AddedIs DEF Power
  <2>3. added \in Nat /\ LongestGap \in Nat
    BY <2>1, <2>2, EnergyAssumption
  <2>4. d = [c EXCEPT !.last = now, !.power = Power, !.total = @ + added,
                      !.gap = @ \/ seconds > LongestGap]
    BY <1>1, <1>3 DEF CounterType, Sampled
  <2> HIDE DEF added, d
  <2>5. d \in CounterType
    <3>1. c.total + added \in Nat /\ (c.gap \/ seconds > LongestGap) \in BOOLEAN
      BY <1>1, <2>3
    <3> QED BY <1>1, <2>4, <3>1 DEF CounterType, Power
  <2>6. /\ d.total = c.total + added
        /\ d.electricityMark = c.electricityMark /\ d.power = Power
        /\ d.heatMark = c.heatMark /\ d.bent = c.bent
        /\ d.last = now /\ d.lag = c.lag /\ d.gap = (c.gap \/ seconds > LongestGap)
    BY <1>1, <2>4 DEF CounterType
  <2>7. ASSUME d.heatMark # Unmarked, ~d.bent, ~d.gap
        PROVE  Balanced(d, now, m)
    <3>1. Balanced(c, now, m) /\ ~(seconds > LongestGap)
      BY <2>6, <2>7 DEF Kept
    <3>2. added = seconds
      BY <2>1, <2>2, <2>3, <3>1 DEF Balanced
    <3>3. c.heatMark \in Int /\ c.lag \in Int
      BY <1>1 DEF CounterType, Unmarked
    <3>4. m - c.heatMark - c.lag - (now - c.last) = c.total - c.electricityMark
      BY <3>1 DEF Balanced
    <3>5. /\ d.heatMark = c.heatMark /\ d.lag = c.lag /\ d.last = now
          /\ d.total = c.total + added /\ d.electricityMark = c.electricityMark
      BY <2>6
    <3> DEFINE h == c.heatMark
               l == c.lag
               a == c.last
               t == c.total
               e == c.electricityMark
    <3>6. /\ m \in Int /\ h \in Int /\ l \in Int /\ now \in Int /\ a \in Int
          /\ t \in Int /\ e \in Int /\ added = now - a
          /\ m - h - l - (now - a) = t - e
      BY <1>1, <2>1, <3>2, <3>3, <3>4
    <3>7. /\ d.heatMark = h /\ d.lag = l /\ d.last = now
          /\ d.total = t + added /\ d.electricityMark = e
      BY <3>5
    <3> HIDE DEF h, l, a, t, e
    <3>8. m - d.heatMark - d.lag - (now - d.last) = d.total - d.electricityMark
      BY <3>6, <3>7
    <3>9. d.last \in 0 .. now
      BY <3>7
    <3> QED BY <3>8, <3>9 DEF Balanced
  <2>8. d.electricityMark <= d.total
    BY <1>1, <2>3, <2>6
  <2>9. Kept(d, now, m)
    BY <2>5, <2>6, <2>7, <2>8 DEF Kept
  <2> QED BY <2>9 DEF d
<1> QED BY <1>2, <1>3

(* Setting the marks starts the balance anew, whatever was behind.         *)
LEMMA MarkedKeeps ==
  ASSUME EnergyInv, AllRead
  PROVE  Kept(Marked(counter, MeterSum(reading)), clock, MeterSum(meter))
<1> DEFINE m == MeterSum(meter)
           r == MeterSum(reading)
           d == Marked(counter, MeterSum(reading))
<1>1. m \in Nat /\ r \in Nat
  BY MeterSums DEF EnergyInv
<1>2. counter \in CounterType /\ clock \in Nat
  BY DEF EnergyInv, EnergyTyped, Kept
<1>3. counter.last \in Int /\ counter.total \in Nat
  BY <1>2 DEF CounterType, Unmarked
<1>4. d = [counter EXCEPT !.heatMark = r, !.electricityMark = counter.total,
             !.lag = m - r - (clock - counter.last),
             !.bent = counter.last \notin 0 .. clock, !.gap = FALSE]
  BY DEF Marked, Lag
<1> HIDE DEF d, m, r
<1>10. d \in CounterType
  <2>1. m - r - (clock - counter.last) \in Int /\ (counter.last \notin 0 .. clock) \in BOOLEAN
    BY <1>1, <1>2, <1>3
  <2> QED BY <1>1, <1>2, <1>3, <1>4, <2>1 DEF CounterType
<1>5. /\ d.total = counter.total
      /\ d.electricityMark = counter.total /\ d.heatMark = r
      /\ d.last = counter.last /\ d.power = counter.power
      /\ d.lag = m - r - (clock - counter.last)
      /\ d.bent = (counter.last \notin 0 .. clock)
  BY <1>2, <1>4 DEF CounterType
<1>6. m - r - (m - r - (clock - counter.last)) - (clock - counter.last)
        = counter.total - counter.total
  BY <1>1, <1>2, <1>3
<1>7. ~d.bent => Balanced(d, clock, m)
  BY <1>5, <1>6 DEF Balanced
<1>8. counter.last # Unmarked => counter.power = Power
  BY DEF EnergyInv, Kept
<1>9. Kept(d, clock, m)
  BY <1>3, <1>5, <1>7, <1>8, <1>10 DEF Kept
<1> QED BY <1>9 DEF d, m

(* A reset or a clock set back is known of, in the store as well.          *)
LEMMA BentKeeps ==
  ASSUME NEW c, NEW now, NEW m, Kept(c, now, m), NEW then, NEW n
  PROVE  Kept([c EXCEPT !.bent = TRUE], then, n)
<1> DEFINE d == [c EXCEPT !.bent = TRUE]
<1>1. /\ c \in CounterType /\ c.electricityMark <= c.total
      /\ (c.last # Unmarked => c.power = Power)
  BY DEF Kept
<1>2. d \in CounterType /\ d.bent /\ d.electricityMark = c.electricityMark
      /\ d.total = c.total /\ d.last = c.last /\ d.power = c.power
  BY <1>1 DEF CounterType
<1> HIDE DEF d
<1>3. Kept(d, then, n)
  BY <1>1, <1>2 DEF Kept
<1> QED BY <1>3 DEF d

(* Samples, meters, polls, saves, crashes and restarts keep the invariant. *)
LEMMA EnergySteps == EnergyInv /\ [EnergyNext]_energyVars => EnergyInv'
<1> SUFFICES ASSUME EnergyInv, [EnergyNext]_energyVars PROVE EnergyInv'
  OBVIOUS
<1> USE DEF EnergyInv
<1>0. MeterSum(meter) \in Nat /\ clock \in Nat /\ clock <= MaxTime /\ MaxTime \in Nat
  BY MeterSums, EnergyAssumption DEF EnergyTyped
<1>1. ASSUME NEW m \in Meters, Runs(m) PROVE EnergyInv'
  <2>1. /\ clock' = clock + 1 /\ meter' = [meter EXCEPT ![m] = @ + 1]
        /\ counter' = counter /\ stored' = stored
    BY <1>1 DEF Runs
  <2>2. MeterSum(meter)' = MeterSum(meter) + 1
    BY <2>1, MeterSums
  <2>3. EnergyTyped'
    BY <1>0, <1>1 DEF EnergyTyped, Runs
  <2>4. /\ Kept(counter, clock + 1, MeterSum(meter) + 1)
        /\ Kept(stored, clock + 1, MeterSum(meter) + 1)
    BY <1>0, RunsKeeps
  <2> QED BY <2>1, <2>2, <2>3, <2>4
<1>2. ASSUME NEW m \in Meters, ReadMeter(m) PROVE EnergyInv'
  <2>1. EnergyTyped'
    BY <1>2 DEF EnergyTyped, ReadMeter
  <2> QED BY <1>2, <2>1 DEF ReadMeter
<1>3. ASSUME NEW reset \in SUBSET Meters, MetersReset(reset) PROVE EnergyInv'
  <2>1. EnergyTyped'
    BY <1>3 DEF EnergyTyped, MetersReset
  <2>2. counter' = [counter EXCEPT !.bent = TRUE] /\ stored' = [stored EXCEPT !.bent = TRUE]
    BY <1>3 DEF MetersReset
  <2> QED BY <2>1, <2>2, BentKeeps
<1>4. ASSUME ClockSetBack PROVE EnergyInv'
  <2>1. EnergyTyped'
    BY <1>0, <1>4 DEF EnergyTyped, ClockSetBack
  <2>2. counter' = [counter EXCEPT !.bent = TRUE] /\ stored' = [stored EXCEPT !.bent = TRUE]
    BY <1>4 DEF ClockSetBack
  <2> QED BY <2>1, <2>2, BentKeeps
<1>5. ASSUME Sample PROVE EnergyInv'
  <2>1. EnergyTyped'
    BY <1>5 DEF EnergyTyped, Sample
  <2>2. counter' = Sampled(counter, clock) /\ clock' = clock /\ stored' = stored
        /\ MeterSum(meter)' = MeterSum(meter)
    BY <1>5 DEF Sample, Sampled
  <2>3. Kept(Sampled(counter, clock), clock, MeterSum(meter))
    BY <1>0, SampleKeeps
  <2> QED BY <2>1, <2>2, <2>3
<1>6. ASSUME Figures PROVE EnergyInv'
  <2>1. EnergyTyped'
    BY <1>6 DEF EnergyTyped, Figures
  <2>2. counter' = counter \/ (AllRead /\ counter' = Marked(counter, MeterSum(reading)))
    BY <1>6 DEF Figures, Produced, HeatTotal
  <2>3. clock' = clock /\ stored' = stored /\ MeterSum(meter)' = MeterSum(meter)
    BY <1>6 DEF Figures
  <2> QED BY <2>1, <2>2, <2>3, MarkedKeeps
<1>7. ASSUME Save PROVE EnergyInv'
  BY <1>7 DEF EnergyTyped, Save
<1>8. ASSUME Starts PROVE EnergyInv'
  BY <1>8 DEF EnergyTyped, Starts
<1>9. ASSUME NEW cleanly \in BOOLEAN, Stops(cleanly) PROVE EnergyInv'
  <2>1. EnergyTyped'
    BY <1>9 DEF EnergyTyped, Stops
  <2>2. stored' \in {counter, stored} /\ counter' = counter /\ clock' = clock
        /\ MeterSum(meter)' = MeterSum(meter)
    BY <1>9 DEF Stops
  <2> QED BY <2>1, <2>2
<1>10. CASE UNCHANGED energyVars
  BY <1>10 DEF energyVars, EnergyTyped
<1> QED BY <1>1, <1>2, <1>3, <1>4, <1>5, <1>6, <1>7, <1>8, <1>9, <1>10 DEF EnergyNext

(* The books give the two counters the same span. *)
LEMMA BalancedIsEven ==
  ASSUME EnergyInv
  PROVE  FairSpan
<1> SUFFICES ASSUME ~counter.bent, ~counter.gap, counter.heatMark # Unmarked, AllRead,
                    counter.last = clock
             PROVE  EnergyOut + Lag - counter.lag = EnergyIn
  BY DEF FairSpan, Even
<1> DEFINE m == MeterSum(meter)
           r == MeterSum(reading)
<1>1. m \in Nat /\ r \in Nat
  BY MeterSums DEF EnergyInv
<1>2. counter \in CounterType /\ counter.electricityMark <= counter.total /\ clock \in Nat
      /\ Balanced(counter, clock, m)
  BY DEF EnergyInv, EnergyTyped, Kept
<1>3. EnergyOut = r - counter.heatMark /\ Lag = m - r
  BY DEF EnergyOut, HeatTotal, Lag
<1> HIDE DEF m, r
<1>4. /\ counter.heatMark \in Int /\ counter.lag \in Int /\ counter.total \in Nat
      /\ counter.electricityMark \in Nat
  BY <1>2 DEF CounterType, Unmarked
<1>5. m - counter.heatMark - counter.lag = counter.total - counter.electricityMark
  BY <1>1, <1>2, <1>4 DEF Balanced
<1>6. EnergyIn = counter.total - counter.electricityMark
  BY <1>2, <1>4 DEF EnergyIn
<1> QED BY <1>1, <1>3, <1>4, <1>5, <1>6

(* The invariant has the types in it. *)
LEMMA EnergyTypes ==
  ASSUME EnergyInv
  PROVE  EnergyTypeOK
<1>1. clock \in 0 .. MaxTime /\ meter \in [Meters -> Nat] /\ running \in BOOLEAN
  BY EnergyAssumption DEF EnergyInv, EnergyTyped
<1>2. \A m \in Meters : reading[m] >= Unread
  BY DEF EnergyInv, EnergyTyped, Unread
<1>3. ASSUME NEW c \in {counter, stored}
      PROVE  /\ c.total \in Nat /\ c.electricityMark \in 0 .. c.total
             /\ c.heatMark >= Unmarked /\ c.last >= Unmarked
  BY DEF EnergyInv, Kept, CounterType, Unmarked
<1> QED BY <1>1, <1>2, <1>3 DEF EnergyTypeOK

(* For any meters, gaps and restarts, the energy counter keeps its books
   (EnergyCounter.sample, mark and async_save). *)
THEOREM EnergyInvariant == EnergySpec => []EnergyInv
BY EnergyStarts, EnergySteps, PTL DEF EnergySpec

(* The heat and the electricity a coefficient divides cover the same span  *)
(* (power.ElectricityCounter.produced, gateway_coordinator.energy_in),     *)
(* for any number of meters, any limits and however often it restarts.     *)
THEOREM FairSpans == EnergySpec => []FairSpan
BY EnergyInvariant, BalancedIsEven, PTL

(* Every variable of the energy counter stays in its type. *)
THEOREM EnergyTypeCorrect == EnergySpec => []EnergyTypeOK
BY EnergyInvariant, EnergyTypes, PTL

----------------------------------------------------------------------------
(* The daily reports *)

ReportStates == [step : {"none", "building", "sent"}, lines : Nat, failures : Nat]

(* The lines an entry still answers for: those of its report on the wire,  *)
(* and if the counter is its own those the counter holds, of which the     *)
(* report's are a part unless the counter has been given up in between.    *)
Answerable(e) ==
  IF owner = {e} /\ lines > report[e].lines THEN lines ELSE report[e].lines
Weights == [e \in Reporting |-> Answerable(e)]

(* The failures it still answers for.                                      *)
Pending(e) == report[e].failures + IF e \in ready THEN Delta(e) ELSE 0

ReportsTyped ==
  /\ ready \subseteq arming /\ arming \subseteq Reporting
  /\ owner \in {{}} \union {{e} : e \in Reporting} /\ lines \in Nat
  /\ failures \in [Reporting -> Nat] /\ seen \in [Reporting -> Nat]
  /\ report \in [Reporting -> ReportStates]
  /\ \A e \in Reporting : report[e].step # "sent" =>
       report[e].lines = 0 /\ report[e].failures = 0
  /\ logged \in Nat /\ told \in Nat
  /\ failed \in [Reporting -> Nat] /\ toldFailed \in [Reporting -> Nat]

ReportsInv ==
  /\ ReportsTyped
  /\ told + Total(Weights, Reporting) <= logged
  /\ \A e \in Reporting : toldFailed[e] + Pending(e) <= failed[e]

(* What is above zero of a number. *)
LEMMA MaxOfZero ==
  ASSUME NEW a \in Int
  PROVE  Max({0, a}) = IF a > 0 THEN a ELSE 0
BY DEF Max

(* The reports an entry still owes an answer for can be counted. *)
LEMMA AnswerableType ==
  ASSUME ReportsTyped
  PROVE  /\ \A e \in Reporting : Answerable(e) \in Nat
         /\ Weights \in [Reporting -> Nat] /\ Weights \in [Reporting -> Int]
         /\ Total(Weights, Reporting) \in Nat
<1>1. \A e \in Reporting : report[e].lines \in Nat /\ lines \in Nat
  BY DEF ReportsTyped, ReportStates
<1>2. \A e \in Reporting : Answerable(e) \in Nat
  BY <1>1 DEF Answerable
<1>3. Weights \in [Reporting -> Nat] /\ Weights \in [Reporting -> Int]
  BY <1>2 DEF Weights
<1> HIDE DEF Weights
<1>4. Total(Weights, Reporting) \in Nat
  BY <1>3, TotalType, ReportsAssumption
<1> QED BY <1>2, <1>3, <1>4

(* A step changes what one entry answers for.                              *)
LEMMA LinesKept ==
  ASSUME ReportsInv, ReportsTyped', NEW e \in Reporting,
         \A d \in Reporting : d # e => Answerable(d)' = Answerable(d),
         told' + Answerable(e)' + logged <= told + Answerable(e) + logged'
  PROVE  told' + Total(Weights, Reporting)' <= logged'
<1> DEFINE W == Weights
           V == Weights'
<1>1. W \in [Reporting -> Int] /\ Total(W, Reporting) \in Nat
  BY AnswerableType DEF ReportsInv
<1>2. V \in [Reporting -> Int]
  <2>1. \A d \in Reporting : report'[d].lines \in Nat /\ lines' \in Nat
    BY DEF ReportsTyped, ReportStates
  <2>2. \A d \in Reporting : Answerable(d)' \in Nat
    BY <2>1 DEF Answerable
  <2> QED BY <2>2 DEF Weights
<1>3. V[e] = Answerable(e)' /\ W[e] = Answerable(e)
      /\ \A d \in Reporting : d # e => V[d] = W[d]
  BY DEF Weights
<1>4. Total(V, Reporting) = Total(Weights, Reporting)'
  OBVIOUS
<1> HIDE DEF W, V
<1>5. Total(V, Reporting) = Total(W, Reporting) - W[e] + V[e]
  BY <1>1, <1>2, <1>3, TotalChanged, ReportsAssumption
<1>6. W[e] \in Int /\ V[e] \in Int /\ told \in Nat /\ told' \in Nat
      /\ logged \in Nat /\ logged' \in Nat
  BY <1>1, <1>2 DEF ReportsInv, ReportsTyped
<1>7. told + Total(W, Reporting) <= logged
  BY DEF ReportsInv, W
<1>8. told' + V[e] + logged <= told + W[e] + logged'
  BY <1>3
<1>9. told' + Total(V, Reporting) <= logged'
  BY <1>1, <1>5, <1>6, <1>7, <1>8
<1> QED BY <1>4, <1>9

(* The reporter's invariant holds at the start. *)
LEMMA ReportsStart == ReportsInit => ReportsInv
<1> SUFFICES ASSUME ReportsInit PROVE ReportsInv
  OBVIOUS
<1>1. ReportsTyped
  BY DEF ReportsInit, ReportsTyped, ReportStates, NoReport, None
<1>2. Weights = [e \in Reporting |-> 0]
  BY DEF ReportsInit, Weights, Answerable, NoReport
<1>3. Total(Weights, Reporting) = 0
  <2>1. Weights \in [Reporting -> Int] /\ Counted(Weights, Reporting) = {}
    BY <1>2 DEF Counted
  <2>2. Counted(Opposite(Weights), Reporting) = {}
    BY <1>2 DEF Counted, Opposite
  <2> QED BY <2>1, <2>2, FS_EmptySet, TotalIsNet, ReportsAssumption DEF Net
<1>4. \A e \in Reporting : toldFailed[e] + Pending(e) <= failed[e]
  BY DEF ReportsInit, Pending, NoReport, None
<1> QED BY <1>1, <1>3, <1>4 DEF ReportsInv, ReportsInit

(* The log counter changes hands without a line being told twice.          *)
LEMMA CounterFor ==
  ASSUME ReportsTyped, NEW e \in Reporting, LogCounterFor(e)
  PROVE  /\ owner' \in {{}} \union {{d} : d \in Reporting} /\ lines' \in Nat
         /\ owner' = {e} => lines' = IF owner = {e} THEN lines ELSE 0
         /\ \A d \in Reporting : d # e =>
            (owner' = {d} <=> owner = {d}) /\ (owner = {d} => lines' = lines)
<1>1. \A d \in Reporting : {d} # {} /\ (d # e => {d} # {e})
  OBVIOUS
<1>2. CASE owner = {}
  <2>1. owner' = {e} /\ lines' = 0 /\ owner # {e}
    BY <1>1, <1>2 DEF LogCounterFor
  <2>2. owner' \in {{}} \union {{d} : d \in Reporting}
    BY <2>1
  <2>3. \A d \in Reporting : d # e => owner' # {d} /\ owner # {d}
    BY <1>1, <1>2, <2>1
  <2> QED BY <2>1, <2>2, <2>3
<1>3. CASE owner # {}
  BY <1>1, <1>3 DEF LogCounterFor, ReportsTyped
<1> QED BY <1>2, <1>3

(* Of the others' lines nothing changes unless the counter was theirs.     *)
LEMMA OthersAnswer ==
  ASSUME NEW e \in Reporting,
         \A d \in Reporting : d # e =>
           (owner' = {d} <=> owner = {d}) /\ (owner = {d} => lines' = lines)
           /\ report'[d] = report[d]
  PROVE  \A d \in Reporting : d # e => Answerable(d)' = Answerable(d)
<1> SUFFICES ASSUME NEW d \in Reporting, d # e PROVE Answerable(d)' = Answerable(d)
  OBVIOUS
<1>1. CASE owner = {d}
  <2>1. owner' = {d} /\ lines' = lines /\ report'[d] = report[d]
    BY <1>1
  <2> QED BY <1>1, <2>1 DEF Answerable
<1>2. CASE owner # {d}
  <2>1. owner' # {d} /\ report'[d] = report[d]
    BY <1>2
  <2> QED BY <1>2, <2>1 DEF Answerable
<1> QED BY <1>1, <1>2

(* Counting, sending, answers, losses and stops keep it. *)
LEMMA ReportsSteps == ReportsInv /\ [ReportsNext]_reportVars => ReportsInv'
<1> SUFFICES ASSUME ReportsInv, [ReportsNext]_reportVars PROVE ReportsInv'
  OBVIOUS
<1> DEFINE LinesOK(e) ==
             /\ \A d \in Reporting : d # e => Answerable(d)' = Answerable(d)
             /\ told' + Answerable(e)' + logged <= told + Answerable(e) + logged'
           FailuresOK == \A e \in Reporting : toldFailed'[e] + Pending(e)' <= failed'[e]
<1>a. ReportsTyped /\ \A e \in Reporting : toldFailed[e] + Pending(e) <= failed[e]
  BY DEF ReportsInv
<1>b. ASSUME ReportsTyped', NEW e \in Reporting, LinesOK(e), FailuresOK
      PROVE  ReportsInv'
  BY <1>b, LinesKept DEF ReportsInv
<1>c. \A e \in Reporting :
        /\ report[e] \in ReportStates /\ report[e].lines \in Nat /\ report[e].failures \in Nat
        /\ failures[e] \in Nat /\ seen[e] \in Nat /\ failed[e] \in Nat
        /\ toldFailed[e] \in Nat /\ Answerable(e) \in Nat
  BY <1>a, AnswerableType DEF ReportsTyped, ReportStates
<1>d. lines \in Nat /\ logged \in Nat /\ told \in Nat
  BY <1>a DEF ReportsTyped
<1> HIDE DEF LinesOK, FailuresOK
<1>1. ASSUME NEW e \in Reporting, Arms(e) PROVE ReportsInv'
  <2>1. ReportsTyped'
    BY <1>1, <1>a, CounterFor DEF Arms, ReportsTyped, tallies
  <2>2. LinesOK(e)
    <3>1. report' = report /\ told' = told /\ logged' = logged
      BY <1>1 DEF Arms, tallies
    <3>2. LogCounterFor(e)
      BY <1>1 DEF Arms
    <3>3. \A d \in Reporting : d # e => Answerable(d)' = Answerable(d)
      BY <1>a, <3>1, <3>2, CounterFor, OthersAnswer
    <3>4. Answerable(e)' <= Answerable(e) /\ Answerable(e)' \in Nat
      BY <1>a, <1>c, <1>d, <3>1, <3>2, CounterFor DEF Answerable
    <3> QED BY <1>c, <1>d, <3>1, <3>3, <3>4 DEF LinesOK
  <2>3. FailuresOK
    BY <1>1, <1>a DEF Arms, tallies, Pending, Delta, FailuresOK
  <2> QED BY <1>b, <2>1, <2>2, <2>3
<1>2. ASSUME NEW e \in Reporting, Readies(e) PROVE ReportsInv'
  <2>1. ReportsTyped'
    BY <1>2, <1>a DEF Readies, ReportsTyped, tallies
  <2>2. LinesOK(e)
    BY <1>2, <1>c, <1>d DEF Readies, tallies, Answerable, LinesOK
  <2>3. FailuresOK
    <3> SUFFICES ASSUME NEW d \in Reporting PROVE toldFailed'[d] + Pending(d)' <= failed'[d]
      BY DEF FailuresOK
    <3>1. e \notin ready /\ failures'[e] = 0 /\ e \in Reporting
          /\ \A c \in Reporting : c # e => failures'[c] = failures[c] /\ (c \in ready' <=> c \in ready)
      BY <1>2, <1>a DEF Readies, ReportsTyped
    <3>2. seen' = seen /\ report' = report /\ failed' = failed /\ toldFailed' = toldFailed
      BY <1>2 DEF Readies, tallies
    <3>3. Pending(d)' <= Pending(d)
      BY <1>c, <3>1, <3>2 DEF Pending, Delta
    <3>4. Pending(d) \in Nat /\ Pending(d)' \in Nat
      BY <1>c, <3>1, <3>2 DEF Pending, Delta
    <3> QED BY <1>a, <1>c, <3>2, <3>3, <3>4
  <2> QED BY <1>b, <2>1, <2>2, <2>3
<1>3. ASSUME NEW e \in Reporting, Disarms(e) PROVE ReportsInv'
  <2>1. ReportsTyped'
    BY <1>3, <1>a DEF Disarms, ReportsTyped, tallies
  <2>2. LinesOK(e)
    <3>1. report' = report /\ told' = told /\ logged' = logged
      BY <1>3 DEF Disarms, tallies
    <3>2. \A d \in Reporting : d # e => Answerable(d)' = Answerable(d)
      <4>1. \A d \in Reporting : d # e =>
            (owner' = {d} <=> owner = {d}) /\ (owner = {d} => lines' = lines)
        <5>1. owner' = owner \ {e} /\ (owner # {e} => lines' = lines)
          BY <1>3 DEF Disarms
        <5>2. \A d \in Reporting : {d} # {} /\ (d # e => {d} # {e} /\ {d} \ {e} = {d})
          OBVIOUS
        <5>3. owner = {} \/ \E c \in Reporting : owner = {c}
          BY <1>a DEF ReportsTyped
        <5>4. owner = {e} => owner' = {}
          BY <5>1
        <5>5. owner # {e} => owner' = owner
          BY <5>1, <5>2, <5>3
        <5> QED BY <5>1, <5>2, <5>4, <5>5
      <4> QED BY <3>1, <4>1, OthersAnswer
    <3>3. Answerable(e)' <= Answerable(e) /\ Answerable(e)' \in Nat
      BY <1>3, <1>c, <1>d, <3>1 DEF Disarms, Answerable
    <3> QED BY <1>c, <1>d, <3>1, <3>2, <3>3 DEF LinesOK
  <2>3. FailuresOK
    <3> SUFFICES ASSUME NEW d \in Reporting PROVE toldFailed'[d] + Pending(d)' <= failed'[d]
      BY DEF FailuresOK
    <3>1. ready' \subseteq ready /\ seen' = seen /\ failures' = failures /\ report' = report
          /\ failed' = failed /\ toldFailed' = toldFailed
      BY <1>3 DEF Disarms, tallies
    <3>2. Pending(d)' <= Pending(d) /\ Pending(d) \in Nat /\ Pending(d)' \in Nat
      BY <1>c, <3>1 DEF Pending, Delta
    <3> QED BY <1>a, <1>c, <3>1, <3>2
  <2> QED BY <1>b, <2>1, <2>2, <2>3
<1>4. ASSUME Emit PROVE ReportsInv'
  <2>1. PICK e \in Reporting : owner = {e}
    BY <1>4, <1>a DEF Emit, ReportsTyped
  <2>2. ReportsTyped'
    BY <1>4, <1>a DEF Emit, ReportsTyped
  <2>3. LinesOK(e)
    BY <1>4, <1>c, <1>d, <2>1 DEF Emit, Answerable, LinesOK
  <2>4. FailuresOK
    BY <1>4, <1>a DEF Emit, Pending, Delta, FailuresOK
  <2> QED BY <1>b, <2>2, <2>3, <2>4
<1>5. ASSUME NEW e \in Reporting, ReadFails(e) PROVE ReportsInv'
  <2>1. ReportsTyped'
    BY <1>5, <1>a DEF ReadFails, ReportsTyped
  <2>2. LinesOK(e)
    BY <1>5, <1>c, <1>d DEF ReadFails, Answerable, LinesOK
  <2>3. FailuresOK
    <3> SUFFICES ASSUME NEW d \in Reporting PROVE toldFailed'[d] + Pending(d)' <= failed'[d]
      BY DEF FailuresOK
    <3>1. /\ failures'[e] = failures[e] + 1 /\ failed'[e] = failed[e] + 1
          /\ \A c \in Reporting : c # e => failures'[c] = failures[c] /\ failed'[c] = failed[c]
          /\ ready' = ready /\ seen' = seen /\ report' = report /\ toldFailed' = toldFailed
      BY <1>5, <1>a DEF ReadFails, ReportsTyped
    <3>2. CASE d = e
      <4>1. Pending(e)' <= Pending(e) + 1 /\ Pending(e) \in Nat /\ Pending(e)' \in Nat
        BY <1>c, <3>1 DEF Pending, Delta
      <4> QED BY <1>a, <1>c, <3>1, <3>2, <4>1
    <3>3. CASE d # e
      BY <1>a, <3>1, <3>3 DEF Pending, Delta
    <3> QED BY <3>2, <3>3
  <2> QED BY <1>b, <2>1, <2>2, <2>3
<1>6. ASSUME NEW e \in Reporting, Fetches(e) PROVE ReportsInv'
  <2>1. ReportsTyped'
    BY <1>6, <1>a DEF Fetches, ReportsTyped, ReportStates, tallies, counters
  <2>2. \A d \in Reporting :
          report'[d].lines = report[d].lines /\ report'[d].failures = report[d].failures
    BY <1>6, <1>a, <1>c DEF Fetches, ReportsTyped, ReportStates
  <2>3. LinesOK(e)
    BY <1>6, <1>c, <1>d, <2>2 DEF Fetches, tallies, counters, Answerable, LinesOK
  <2>4. FailuresOK
    BY <1>6, <1>a, <2>2 DEF Fetches, tallies, counters, Pending, Delta, FailuresOK
  <2> QED BY <1>b, <2>1, <2>3, <2>4
<1>7. ASSUME NEW e \in Reporting, Builds(e) PROVE ReportsInv'
  <2> DEFINE sent == [step |-> "sent", lines |-> Reportable(e), failures |-> ReadFailures(e)]
  <2>1. report[e].lines = 0 /\ report[e].failures = 0 /\ LogCounterFor(e)
    BY <1>7, <1>a DEF Builds, ReportsTyped
  <2>2. Reportable(e) \in Nat /\ ReadFailures(e) \in Nat
    BY <1>c, <1>d DEF Reportable, ReadFailures, Delta
  <2>3. /\ report'[e] = sent /\ \A d \in Reporting : d # e => report'[d] = report[d]
        /\ report' \in [Reporting -> ReportStates]
    BY <1>7, <1>a, <2>2 DEF Builds, ReportsTyped, ReportStates
  <2>4. ReportsTyped'
    <3>1. seen' \in [Reporting -> Nat] /\ failed' \in [Reporting -> Nat]
      BY <1>7, <1>a, <1>c DEF Builds, ReportsTyped
    <3>2. \A d \in Reporting : report'[d].step # "sent" =>
            report'[d].lines = 0 /\ report'[d].failures = 0
      BY <1>a, <2>3 DEF ReportsTyped
    <3> QED BY <1>7, <1>a, <2>1, <2>3, <3>1, <3>2, CounterFor DEF Builds, ReportsTyped
  <2>5. LinesOK(e)
    <3>1. told' = told /\ logged' = logged
      BY <1>7 DEF Builds
    <3>2. \A d \in Reporting : d # e => Answerable(d)' = Answerable(d)
      BY <1>a, <2>1, <2>3, CounterFor, OthersAnswer
    <3>3. Answerable(e)' <= Answerable(e) /\ Answerable(e)' \in Nat
      BY <1>a, <1>d, <2>1, <2>3, CounterFor DEF Answerable, Reportable
    <3> QED BY <1>c, <1>d, <3>1, <3>2, <3>3 DEF LinesOK
  <2>6. FailuresOK
    <3> SUFFICES ASSUME NEW d \in Reporting PROVE toldFailed'[d] + Pending(d)' <= failed'[d]
      BY DEF FailuresOK
    <3>1. ready' = ready /\ failures' = failures /\ toldFailed' = toldFailed
      BY <1>7 DEF Builds
    <3>2. CASE d # e
      <4>1. seen'[d] = seen[d] /\ failed'[d] = failed[d] /\ report'[d] = report[d]
        BY <1>7, <1>a, <2>3, <3>2 DEF Builds, ReportsTyped
      <4> QED BY <1>a, <3>1, <4>1 DEF Pending, Delta
    <3>3. CASE d = e /\ e \in ready
      <4>1. seen'[e] = failures[e] /\ failed' = failed
        BY <1>7, <1>a, <3>3 DEF Builds, ReportsTyped
      <4>2. Pending(e)' = Delta(e) /\ Pending(e) = Delta(e) /\ Delta(e) \in Nat
        BY <1>c, <2>1, <2>3, <3>1, <3>3, <4>1 DEF Pending, Delta, ReadFailures
      <4> QED BY <1>a, <3>1, <3>3, <4>1, <4>2
    <3>4. CASE d = e /\ e \notin ready
      <4>1. failed'[e] = failed[e] + 1
        BY <1>7, <1>a, <3>4 DEF Builds, ReportsTyped
      <4>2. Pending(e)' = 1 /\ Pending(e) = 0
        BY <2>1, <2>3, <3>1, <3>4 DEF Pending, ReadFailures
      <4> QED BY <1>a, <1>c, <3>1, <3>4, <4>1, <4>2
    <3> QED BY <3>2, <3>3, <3>4
  <2> QED BY <1>b, <2>4, <2>5, <2>6
<1>8. ASSUME NEW e \in Reporting, Unacknowledged(e) PROVE ReportsInv'
  <2>1. /\ report'[e] = NoReport /\ \A d \in Reporting : d # e => report'[d] = report[d]
        /\ report' \in [Reporting -> ReportStates]
    BY <1>8, <1>a DEF Unacknowledged, ReportsTyped, ReportStates, NoReport
  <2>2. ReportsTyped'
    BY <1>8, <1>a, <2>1 DEF Unacknowledged, ReportsTyped, NoReport, tallies, counters
  <2>3. LinesOK(e)
    <3>1. told' = told /\ logged' = logged /\ owner' = owner /\ lines' = lines
      BY <1>8 DEF Unacknowledged, tallies, counters
    <3>2. Answerable(e)' <= Answerable(e) /\ Answerable(e)' \in Nat
      BY <1>c, <1>d, <2>1, <3>1 DEF Answerable, NoReport
    <3>3. \A d \in Reporting : d # e => Answerable(d)' = Answerable(d)
      BY <2>1, <3>1 DEF Answerable
    <3> QED BY <1>c, <1>d, <3>1, <3>2, <3>3 DEF LinesOK
  <2>4. FailuresOK
    <3> SUFFICES ASSUME NEW d \in Reporting PROVE toldFailed'[d] + Pending(d)' <= failed'[d]
      BY DEF FailuresOK
    <3>1. ready' = ready /\ failures' = failures /\ toldFailed' = toldFailed
          /\ seen' = seen /\ failed' = failed
      BY <1>8 DEF Unacknowledged, tallies, counters
    <3>2. report'[d].failures \in Nat /\ report'[d].failures <= report[d].failures
      BY <1>c, <2>1 DEF NoReport
    <3>3. Pending(d)' <= Pending(d) /\ Pending(d) \in Nat /\ Pending(d)' \in Nat
      BY <1>c, <3>1, <3>2 DEF Pending, Delta
    <3> QED BY <1>a, <1>c, <3>1, <3>3
  <2> QED BY <1>b, <2>2, <2>3, <2>4
<1>9. ASSUME NEW e \in Reporting, Answered(e) PROVE ReportsInv'
  <2>1. /\ report'[e] = NoReport /\ \A d \in Reporting : d # e => report'[d] = report[d]
        /\ report' \in [Reporting -> ReportStates]
    BY <1>9, <1>a DEF Answered, ReportsTyped, ReportStates, NoReport
  <2>2. /\ owner' \in {{}} \union {{d} : d \in Reporting} /\ lines' \in Nat
        /\ owner' = {e} => lines' = IF owner = {e} /\ lines > report[e].lines
                                      THEN lines - report[e].lines ELSE 0
        /\ \A d \in Reporting : d # e =>
            (owner' = {d} <=> owner = {d}) /\ (owner = {d} => lines' = lines)
    <3>1. CASE owner = {e}
      <4>1. lines' = Max({0, lines - report[e].lines}) /\ owner' = owner
        BY <1>9, <3>1 DEF Answered
      <4>2. lines' = IF lines - report[e].lines > 0 THEN lines - report[e].lines ELSE 0
        BY <1>c, <1>d, <4>1, MaxOfZero
      <4>3. lines' \in Nat /\ lines' = IF lines > report[e].lines
                                       THEN lines - report[e].lines ELSE 0
        BY <1>c, <1>d, <4>2
      <4>4. \A d \in Reporting : d # e => {d} # {e}
        OBVIOUS
      <4>5. owner' \in {{}} \union {{d} : d \in Reporting}
        BY <3>1, <4>1
      <4> QED BY <3>1, <4>1, <4>3, <4>4, <4>5
    <3>2. CASE owner # {e}
      <4>1. LogCounterFor(e)
        BY <1>9, <3>2 DEF Answered
      <4> QED BY <1>a, <3>2, <4>1, CounterFor
    <3> QED BY <3>1, <3>2
  <2>3. ReportsTyped'
    <3>1. toldFailed' \in [Reporting -> Nat] /\ told' \in Nat
      BY <1>9, <1>a, <1>c, <1>d DEF Answered, ReportsTyped
    <3>2. \A d \in Reporting : report'[d].step # "sent" =>
            report'[d].lines = 0 /\ report'[d].failures = 0
      BY <1>a, <2>1 DEF ReportsTyped, NoReport
    <3> QED BY <1>9, <1>a, <2>1, <2>2, <3>1, <3>2 DEF Answered, ReportsTyped
  <2>4. LinesOK(e)
    <3>1. told' = told + report[e].lines /\ logged' = logged
      BY <1>9 DEF Answered
    <3>2. \A d \in Reporting : d # e => Answerable(d)' = Answerable(d)
      BY <2>1, <2>2, OthersAnswer
    <3>3. Answerable(e)' \in Nat /\ Answerable(e)' + report[e].lines <= Answerable(e)
      BY <1>c, <1>d, <2>1, <2>2 DEF Answerable, NoReport
    <3> QED BY <1>c, <1>d, <3>1, <3>2, <3>3 DEF LinesOK
  <2>5. FailuresOK
    <3> SUFFICES ASSUME NEW d \in Reporting PROVE toldFailed'[d] + Pending(d)' <= failed'[d]
      BY DEF FailuresOK
    <3>1. ready' = ready /\ failures' = failures /\ seen' = seen /\ failed' = failed
      BY <1>9 DEF Answered
    <3>2. CASE d # e
      <4>1. toldFailed'[d] = toldFailed[d]
        BY <1>9, <1>a, <3>2 DEF Answered, ReportsTyped
      <4> QED BY <1>a, <2>1, <3>1, <3>2, <4>1 DEF Pending, Delta
    <3>3. CASE d = e
      <4>1. toldFailed'[e] = toldFailed[e] + report[e].failures
        BY <1>9, <1>a DEF Answered, ReportsTyped
      <4>2. Pending(e)' + report[e].failures = Pending(e) /\ Pending(e)' \in Nat
        BY <1>c, <2>1, <3>1 DEF Pending, Delta, NoReport
      <4> QED BY <1>a, <1>c, <3>1, <3>3, <4>1, <4>2
    <3> QED BY <3>2, <3>3
  <2> QED BY <1>b, <2>3, <2>4, <2>5
<1>10. CASE UNCHANGED reportVars
  BY <1>10, <1>a DEF ReportsInv, ReportsTyped, reportVars, counters, tallies, Weights,
                     Answerable, Pending, Delta
<1> QED BY <1>1, <1>2, <1>3, <1>4, <1>5, <1>6, <1>7, <1>8, <1>9, <1>10 DEF ReportsNext

(* Where it holds no log line is told twice in acknowledged reports. *)
LEMMA NothingTwiceHolds ==
  ASSUME ReportsInv
  PROVE  NothingTwice
<1>1. told <= logged
  <2>1. Total(Weights, Reporting) \in Nat
    BY AnswerableType DEF ReportsInv
  <2> QED BY <2>1 DEF ReportsInv, ReportsTyped
<1>2. ASSUME NEW e \in Reporting PROVE toldFailed[e] <= failed[e]
  <2>1. toldFailed[e] \in Nat /\ failed[e] \in Nat /\ failures[e] \in Nat /\ seen[e] \in Nat
        /\ report[e].failures \in Nat
    BY DEF ReportsInv, ReportsTyped, ReportStates
  <2>2. Pending(e) \in Nat
    BY <2>1 DEF Pending, Delta
  <2> QED BY <2>1, <2>2 DEF ReportsInv
<1> QED BY <1>1, <1>2 DEF NothingTwice

(* For any entries and reports on the way, what was told and what is still
   to be told add up to what was logged (StatsReporter with its
   LogCounter). *)
THEOREM ReportsInvariant == ReportsSpec => []ReportsInv
BY ReportsStart, ReportsSteps, PTL DEF ReportsSpec

(* No line of the log and no failed read is told of twice in reports the   *)
(* server has acknowledged (stats.async_report,                            *)
(* stats_extra.ErrorCounter.reported), for any number of entries that come *)
(* and go while reports are on the wire.  Of a report whose answer is lost *)
(* nothing is claimed: its lines are sent again.                           *)
THEOREM NothingToldTwice == ReportsSpec => []NothingTwice
BY ReportsInvariant, NothingTwiceHolds, PTL

(* Every variable of the daily reports stays in its type. *)
THEOREM ReportsTypeCorrect == ReportsSpec => []ReportsTypeOK
<1>1. ReportsInv => ReportsTypeOK
  BY DEF ReportsInv, ReportsTyped, ReportsTypeOK, ReportStates
<1> QED BY <1>1, ReportsInvariant, PTL

----------------------------------------------------------------------------
(* The COP tracker and the imported history *)

CounterPairs == [out : Nat, used : Nat]

HistoryTyped ==
  /\ moment \in Installed .. LastMoment /\ replaced \in 0 .. moment
  /\ awake \in BOOLEAN /\ imported \in BOOLEAN
  /\ samples \in [DaysSeen -> CounterPairs \union {Unsampled}]
  /\ \A r \in recent : r.at \in 1 .. moment
  /\ ownDays \subseteq DaysSeen
  /\ importing # NoImport =>
       importing \in [at : 1 .. moment, out : {"production"}, used : {"consumption"}]

(* A day's sample was taken, or dated, in that day.                        *)
OfItsDay(d) ==
  \E t \in d * DayLength .. (d + 1) * DayLength :
    /\ samples[d] = Counters(t)
    /\ IF d \in ownDays THEN Day(t) = d ELSE t > d * DayLength

(* No day has a sample before it has begun.                                *)
SamplesTrue ==
  \A d \in DaysSeen : samples[d] # Unsampled =>
    d * DayLength <= moment /\ (replaced < d * DayLength => OfItsDay(d))

RecentTrue == \A r \in recent : replaced < r.at => r.counters = Counters(r.at)

(* A day the tracker sampled itself lost its sample to its age only, so an *)
(* import does not bring it back.                                          *)
OwnDaysKept ==
  \A d \in ownDays : samples[d] = Unsampled =>
    \E e \in DaysSeen : samples[e] # Unsampled /\ d < e - HistoryDays

HistoryInv == HistoryTyped /\ SamplesTrue /\ RecentTrue /\ OwnDaysKept

----------------------------------------------------------------------------
(* Days *)

(* Division of naturals, as the provers need it. *)
LEMMA QuotientBounds ==
  ASSUME NEW t \in Nat, NEW n \in Nat, n > 0
  PROVE  t \div n \in Nat /\ (t \div n) * n <= t /\ t < ((t \div n) + 1) * n
OBVIOUS

(* Multiplication keeps order. *)
LEMMA ProductGrows ==
  ASSUME NEW a \in Int, NEW b \in Int, NEW n \in Nat, n > 0, a < b
  PROVE  a * n < b * n
OBVIOUS

(* So does division. *)
LEMMA DivMonotonic ==
  ASSUME NEW s \in Nat, NEW t \in Nat, s <= t, NEW n \in Nat, n > 0
  PROVE  s \div n <= t \div n
<1> DEFINE p == s \div n
           q == t \div n
<1>1. /\ p \in Int /\ q \in Int /\ p * n <= s /\ s < (p + 1) * n
      /\ q * n <= t /\ t < (q + 1) * n
  BY QuotientBounds
<1> HIDE DEF p, q
<1>2. SUFFICES ASSUME q + 1 <= p PROVE FALSE
  BY <1>1 DEF p, q
<1>3. (q + 1) * n <= p * n
  BY <1>1, <1>2, ProductGrows
<1> QED BY <1>1, <1>3

(* A moment lies in its day. *)
LEMMA DayIs ==
  ASSUME NEW t \in 0 .. LastMoment
  PROVE  /\ Day(t) \in DaysSeen /\ Day(t) \in Nat
         /\ Day(t) * DayLength <= t /\ t <= (Day(t) + 1) * DayLength
<1>1. t \in Nat /\ LastMoment \in Nat /\ DayLength \in Nat /\ DayLength > 0 /\ t <= LastMoment
  BY HistoryAssumption
<1>2. Day(t) \in Nat /\ Day(LastMoment) \in Nat /\ Day(t) <= Day(LastMoment)
  BY <1>1, QuotientBounds, DivMonotonic DEF Day
<1>3. Day(t) * DayLength <= t /\ t < (Day(t) + 1) * DayLength
  BY <1>1, QuotientBounds DEF Day
<1>4. (Day(t) + 1) * DayLength \in Int
  BY <1>1, <1>2
<1> QED BY <1>1, <1>2, <1>3, <1>4 DEF DaysSeen

(* Days begin in order. *)
LEMMA DaysAre ==
  /\ DaysSeen \subseteq Nat
  /\ \A d \in DaysSeen : d * DayLength \in Nat /\ (d + 1) * DayLength \in Nat
                        /\ d * DayLength < (d + 1) * DayLength
<1>1. LastMoment \in Nat /\ DayLength \in Nat /\ DayLength > 0
  BY HistoryAssumption
<1>2. DaysSeen \subseteq Nat
  BY DEF DaysSeen
<1>3. ASSUME NEW d \in DaysSeen
      PROVE  d * DayLength \in Nat /\ (d + 1) * DayLength \in Nat
             /\ d * DayLength < (d + 1) * DayLength
  <2>1. d \in Nat
    BY <1>2
  <2>2. d * DayLength \in Nat /\ (d + 1) * DayLength \in Nat
    BY <1>1, <2>1
  <2> QED BY <1>1, <2>1, <2>2, ProductGrows
<1> QED BY <1>2, <1>3

(* A day begun by a moment is that of the moment or an earlier one. *)
LEMMA DayBegun ==
  ASSUME NEW t \in 0 .. LastMoment, NEW d \in DaysSeen, d * DayLength <= t
  PROVE  d <= Day(t)
<1>1. t \in Nat /\ DayLength \in Nat /\ DayLength > 0 /\ d \in Nat
  BY HistoryAssumption, DaysAre
<1>2. Day(t) \in Nat /\ t < (Day(t) + 1) * DayLength
  BY <1>1, QuotientBounds DEF Day
<1>3. ASSUME Day(t) + 1 <= d PROVE (Day(t) + 1) * DayLength <= d * DayLength
  BY <1>1, <1>2, <1>3, ProductGrows
<1>4. (Day(t) + 1) * DayLength \in Int /\ d * DayLength \in Int
  BY <1>1, <1>2
<1> QED BY <1>1, <1>2, <1>3, <1>4

(* A set of numbers that has a bound has a greatest.                       *)
LEMMA Greatest ==
  ASSUME NEW n \in Nat, NEW S \in SUBSET (0 .. n), S # {}
  PROVE  \E m \in S : \A k \in S : k <= m
<1> DEFINE Above(m) == {k \in 0 .. n : k > m}
           Bad == {Above(m) : m \in S}
<1>1. IsFiniteSet(0 .. n)
  BY FS_Interval
<1>2. PICK T \in Bad : \A U \in SUBSET T : U # T => U \notin Bad
  <2>1. Bad \in SUBSET SUBSET (0 .. n) /\ Bad # {}
    OBVIOUS
  <2> HIDE DEF Bad
  <2> QED BY <1>1, <2>1, LeastSubset
<1>3. PICK m \in S : T = Above(m)
  OBVIOUS
<1>4. ASSUME NEW k \in S, k > m
      PROVE  FALSE
  <2>1. Above(k) \subseteq T /\ k \in T /\ k \notin Above(k) /\ Above(k) \in Bad
    BY <1>3, <1>4
  <2> HIDE DEF Above, Bad
  <2> QED BY <1>2, <2>1
<1>5. \A k \in S : k \in Int /\ m \in Int
  OBVIOUS
<1> QED BY <1>4, <1>5

(* The newest sample of a store is a sample, and none is newer. *)
LEMMA NewestIs ==
  ASSUME NEW s
  PROVE  /\ Newest(s) \in DaysSeen
         /\ \A d \in DaysSeen : s[d] # Unsampled => s[Newest(s)] # Unsampled /\ d <= Newest(s)
         /\ Newest(s) # 0 => s[Newest(s)] # Unsampled
<1> DEFINE have == {d \in DaysSeen : s[d] # Unsampled}
<1>1. LastMoment \in Nat /\ DayLength \in Nat /\ DayLength > 0
  BY HistoryAssumption
<1>2. Day(LastMoment) \in Nat
  BY <1>1, QuotientBounds DEF Day
<1>3. CASE have = {}
  BY <1>2, <1>3 DEF Newest, DaysSeen
<1>4. CASE have # {}
  <2>1. have \in SUBSET (0 .. Day(LastMoment))
    BY DEF DaysSeen
  <2>2. \E m \in have : \A k \in have : k <= m
    <3> HIDE DEF have
    <3> QED BY <1>2, <1>4, <2>1, Greatest
  <2>3. Newest(s) \in have /\ \A k \in have : k <= Newest(s)
    BY <1>4, <2>2 DEF Newest
  <2> QED BY <2>3
<1> QED BY <1>3, <1>4

----------------------------------------------------------------------------
(* The match *)

(* What the pump's counters show at a moment, since it was replaced. *)
LEMMA CountersAre ==
  ASSUME replaced \in Nat, NEW t \in Nat
  PROVE  /\ Since(t) \in Nat
         /\ Counters(t) \in CounterPairs /\ Counters(t) # Unsampled
         /\ Counters(t).out = 2 * Since(t) /\ Counters(t).used = Since(t)
<1>1. Since(t) \in Nat
  BY DEF Since
<1>2. Counters(t) = [out |-> 2 * Since(t), used |-> Since(t)]
  BY DEF Counters
<1>3. Counters(t).out = 2 * Since(t) /\ Counters(t).used = Since(t)
  BY <1>2
<1>4. Unsampled.used = -1
  BY DEF Unsampled
<1> QED BY <1>1, <1>2, <1>3, <1>4 DEF CounterPairs

(* Within half of its own value a counter is not taken for the other.      *)
LEMMA NotSwapped ==
  ASSUME NEW a \in Nat, NEW s \in Nat, CloseTo(a, 2 * s), CloseTo(2 * a, s)
  PROVE  FALSE
<1>1. Tolerance \in Nat /\ Tolerance >= 2
  BY HistoryAssumption
<1>2. s > 0 /\ Tolerance * Distance(a, 2 * s) <= 2 * s /\ Tolerance * Distance(2 * a, s) <= s
  BY DEF CloseTo
<1>3. Distance(a, 2 * s) \in Nat /\ Distance(2 * a, s) \in Nat
  BY DEF Distance
<1>4. ASSUME NEW x \in Nat PROVE 2 * x <= Tolerance * x
  BY <1>1
<1>5. Tolerance * Distance(a, 2 * s) \in Int /\ Tolerance * Distance(2 * a, s) \in Int
  BY <1>1, <1>3
<1>6. 2 * Distance(a, 2 * s) <= 2 * s /\ 2 * Distance(2 * a, s) <= s
  BY <1>2, <1>3, <1>4, <1>5
<1>7. a >= s
  BY <1>6 DEF Distance
<1> QED BY <1>2, <1>6, <1>7 DEF Distance

(* The pair of series the import picks is that of production and
   consumption. *)
LEMMA MatchIsRight ==
  ASSUME HistoryTyped, Pairs(Counters(moment)) # {}
  PROVE  LET p == Matched(Counters(moment))
         IN  p[1].id = "production" /\ p[2].id = "consumption"
<1> DEFINE now == Counters(moment)
           lagging == Counters(moment - 1)
           produced == [id |-> "production", device |-> "pump", latest |-> lagging.out]
           consumed == [id |-> "consumption", device |-> "pump", latest |-> lagging.used]
           house == [id |-> "house", device |-> "house", latest |-> Counters(moment).used]
<1>1. moment \in Nat /\ moment - 1 \in Nat /\ replaced \in Nat
  BY HistoryAssumption DEF HistoryTyped
<1> DEFINE s == Since(moment)
           a == Since(moment - 1)
<1>2. s \in Nat /\ a \in Nat /\ now.out = 2 * s /\ now.used = s
      /\ lagging.out = 2 * a /\ lagging.used = a
  BY <1>1, CountersAre
<1>3. Candidates = {produced, consumed, house}
  BY DEF Candidates
<1>4. \A p \in Pairs(now) : p = <<produced, consumed>>
  <2> SUFFICES ASSUME NEW p \in Pairs(now) PROVE p = <<produced, consumed>>
    OBVIOUS
  <2> DEFINE x == p[1]
             y == p[2]
  <2>0. p \in Candidates \X Candidates
    BY DEF Pairs
  <2>1. /\ CloseTo(x.latest, now.out) /\ CloseTo(y.latest, now.used)
        /\ x.id # y.id /\ x.device = y.device
    BY DEF Pairs
  <2>2. x \in {produced, consumed, house} /\ y \in {produced, consumed, house} /\ p = <<x, y>>
    BY <1>3, <2>0
  <2> HIDE DEF x, y
  <2>3. (x = produced /\ y = consumed) \/ (x = consumed /\ y = produced)
    BY <2>1, <2>2
  <2>4. ~(x = consumed /\ y = produced)
    <3> SUFFICES ASSUME x = consumed, y = produced PROVE FALSE
      OBVIOUS
    <3>1. x.latest = lagging.used /\ y.latest = lagging.out
      OBVIOUS
    <3>2. CloseTo(a, 2 * s) /\ CloseTo(2 * a, s)
      BY <1>2, <2>1, <3>1
    <3> HIDE DEF a, s
    <3> QED BY <1>2, <3>2, NotSwapped
  <2> QED BY <2>2, <2>3, <2>4
<1>5. <<produced, consumed>> \in Pairs(now)
  BY <1>4
<1>6. Mismatch(<<produced, consumed>>, now) \in Int
  <2>1. produced.latest = 2 * a /\ consumed.latest = a
    BY <1>2
  <2> HIDE DEF produced, consumed, now, a, s
  <2>2. a \in Nat /\ s \in Nat /\ 2 * a \in Nat /\ 2 * s \in Nat
    BY <1>2
  <2>3. Distance(2 * a, 2 * s) \in Nat /\ Distance(a, s) \in Nat
    BY <2>2 DEF Distance
  <2> QED BY <1>2, <2>1, <2>3 DEF Mismatch
<1>7. \A q \in Pairs(now) : Mismatch(<<produced, consumed>>, now) <= Mismatch(q, now)
  <2> HIDE DEF produced, consumed, now
  <2> QED BY <1>4, <1>6
<1>8. Matched(now) = <<produced, consumed>>
  <2> HIDE DEF produced, consumed, now
  <2>1. Matched(now) \in Pairs(now)
    BY <1>5, <1>7 DEF Matched
  <2> QED BY <1>4, <2>1
<1>9. Matched(now)[1] = produced /\ Matched(now)[2] = consumed
  BY <1>8
<1> QED BY <1>9
----------------------------------------------------------------------------
(* The inductive invariant *)

(* The history's invariant holds at the start. *)
LEMMA HistoryStarts ==
  HistoryInit => HistoryInv
<1> SUFFICES ASSUME HistoryInit PROVE HistoryInv
  OBVIOUS
<1>1. HistoryTyped
  <2>1. /\ moment = Installed /\ replaced = 0 /\ awake = FALSE /\ imported = FALSE
        /\ recent = {} /\ ownDays = {} /\ importing = NoImport
        /\ samples = [d \in DaysSeen |-> Unsampled]
    BY DEF HistoryInit
  <2>2. Installed \in 1 .. LastMoment /\ LastMoment \in Nat
    BY HistoryAssumption
  <2>3. moment \in Installed .. LastMoment /\ replaced \in 0 .. moment
    BY <2>1, <2>2
  <2>4. samples \in [DaysSeen -> CounterPairs \union {Unsampled}]
    BY <2>1
  <2> QED BY <2>1, <2>3, <2>4 DEF HistoryTyped
<1>2. SamplesTrue /\ RecentTrue /\ OwnDaysKept
  BY DEF HistoryInit, SamplesTrue, RecentTrue, OwnDaysKept
<1> QED BY <1>1, <1>2 DEF HistoryInv

(* While the pump stays its counters' past stays. *)
LEMMA PumpStays ==
  ASSUME replaced' = replaced
  PROVE  \A t : Counters(t)' = Counters(t)
BY DEF Counters, Since

(* What is not touched stays true while the controller stays.              *)
LEMMA SamplesStay ==
  ASSUME HistoryInv, replaced' = replaced, moment' \in Int, moment <= moment',
         UNCHANGED <<samples, recent, ownDays>>
  PROVE  SamplesTrue' /\ RecentTrue' /\ OwnDaysKept'
<1>1. \A t : Counters(t)' = Counters(t)
  BY PumpStays
<1>2. moment \in Int
  BY DEF HistoryInv, HistoryTyped
<1>3. ASSUME NEW d \in DaysSeen, samples[d] # Unsampled
      PROVE  d * DayLength <= moment' /\ (replaced' < d * DayLength => OfItsDay(d)')
  <2>1. d * DayLength <= moment /\ (replaced < d * DayLength => OfItsDay(d))
    BY <1>3 DEF HistoryInv, SamplesTrue
  <2>2. OfItsDay(d)' <=> OfItsDay(d)
    BY <1>1 DEF OfItsDay
  <2>3. d * DayLength \in Int
    BY DaysAre
  <2> QED BY <1>2, <2>1, <2>2, <2>3
<1>4. SamplesTrue'
  BY <1>3 DEF SamplesTrue
<1>5. RecentTrue'
  BY <1>1 DEF HistoryInv, RecentTrue
<1>6. OwnDaysKept'
  BY DEF HistoryInv, OwnDaysKept
<1> QED BY <1>4, <1>5, <1>6

(* An hourly record keeps the invariant, while an import runs or not. *)
LEMMA RecordedKeeps ==
  ASSUME HistoryInv, Recorded(moment), UNCHANGED <<moment, replaced, imported, importing>>,
         awake' \in BOOLEAN
  PROVE  HistoryInv'
<1> DEFINE today == Day(moment)
<1>1. /\ moment \in 0 .. LastMoment /\ moment \in Installed .. LastMoment
      /\ moment \in 1 .. moment /\ moment \in Nat /\ replaced \in Nat
      /\ HistoryDays \in Nat
  BY HistoryAssumption DEF HistoryInv, HistoryTyped
<1>2. today \in DaysSeen /\ today \in Nat /\ today * DayLength <= moment
      /\ moment <= (today + 1) * DayLength
  BY <1>1, DayIs
<1>3. today * DayLength \in Int /\ (today + 1) * DayLength \in Int
  BY <1>2, DaysAre
<1>4. /\ \A t : Counters(t)' = Counters(t)
      /\ Counters(moment) \in CounterPairs /\ Counters(moment) # Unsampled
  BY <1>1, PumpStays, CountersAre
<1>5. /\ samples \in [DaysSeen -> CounterPairs \union {Unsampled}]
      /\ \A r \in recent : r.at \in 1 .. moment
      /\ ownDays \subseteq DaysSeen
  BY DEF HistoryInv, HistoryTyped
<1>6. ownDays' = ownDays \union {today}
  BY DEF Recorded
<1>7. /\ samples' = [d \in DaysSeen |->
          IF d >= today - HistoryDays
            THEN [samples EXCEPT ![today] = Counters(moment)][d] ELSE Unsampled]
      /\ \A r \in recent' : r \in recent \/ r = [at |-> moment, counters |-> Counters(moment)]
  BY DEF Recorded, Trimmed, Recent
<1> HIDE DEF today
<1>8. ASSUME NEW d \in DaysSeen
      PROVE  samples'[d] = IF d = today THEN Counters(moment)
                           ELSE IF d >= today - HistoryDays THEN samples[d] ELSE Unsampled
  <2>1. samples'[d] = IF d >= today - HistoryDays
            THEN [samples EXCEPT ![today] = Counters(moment)][d] ELSE Unsampled
    BY <1>7
  <2>2. [samples EXCEPT ![today] = Counters(moment)][d]
          = IF d = today THEN Counters(moment) ELSE samples[d]
    BY <1>5
  <2>3. today >= today - HistoryDays
    BY <1>1, <1>2
  <2> QED BY <2>1, <2>2, <2>3
<1>9. HistoryTyped'
  <2>1. samples' \in [DaysSeen -> CounterPairs \union {Unsampled}]
    <3>1. \A d \in DaysSeen : samples'[d] \in CounterPairs \union {Unsampled}
      BY <1>4, <1>5, <1>8
    <3>2. samples' = [d \in DaysSeen |-> samples'[d]]
      BY <1>7
    <3> QED BY <3>1, <3>2
  <2>2. \A r \in recent' : r.at \in 1 .. moment
    BY <1>1, <1>5, <1>7
  <2>3. ownDays' \subseteq DaysSeen
    BY <1>2, <1>5, <1>6
  <2> QED BY <2>1, <2>2, <2>3 DEF HistoryInv, HistoryTyped
<1>10. SamplesTrue'
  <2> SUFFICES ASSUME NEW d \in DaysSeen, samples'[d] # Unsampled
               PROVE  d * DayLength <= moment' /\ (replaced' < d * DayLength => OfItsDay(d)')
    BY DEF SamplesTrue
  <2>1. CASE d = today
    <3>1. moment \in today * DayLength .. (today + 1) * DayLength
      BY <1>1, <1>2, <1>3
    <3>2. samples'[d] = Counters(moment)' /\ Day(moment) = d
      BY <1>4, <1>8, <2>1 DEF today
    <3>3. OfItsDay(d)'
      BY <1>6, <2>1, <3>1, <3>2 DEF OfItsDay, Day
    <3> QED BY <1>2, <2>1, <3>3
  <2>2. CASE d # today
    <3>1. samples'[d] = samples[d] /\ (d \in ownDays' <=> d \in ownDays)
      BY <1>6, <1>8, <2>2
    <3>2. d * DayLength <= moment /\ (replaced < d * DayLength => OfItsDay(d))
      BY <3>1 DEF HistoryInv, SamplesTrue
    <3>3. OfItsDay(d)' <=> OfItsDay(d)
      BY <1>4, <3>1 DEF OfItsDay
    <3> QED BY <3>2, <3>3
  <2> QED BY <2>1, <2>2
<1>11. RecentTrue'
  BY <1>4, <1>7 DEF HistoryInv, RecentTrue
<1>12. OwnDaysKept'
  <2>1. samples'[today] # Unsampled
    BY <1>2, <1>4, <1>8
  <2> SUFFICES ASSUME NEW d \in ownDays', samples'[d] = Unsampled
               PROVE  d < today - HistoryDays
    BY <1>2, <2>1 DEF OwnDaysKept
  <2>2. d # today /\ d \in ownDays /\ d \in DaysSeen
    BY <1>5, <1>6, <2>1
  <2>3. CASE d >= today - HistoryDays
    <3>1. samples[d] = Unsampled
      BY <1>8, <2>2, <2>3
    <3>2. PICK e \in DaysSeen : samples[e] # Unsampled /\ d < e - HistoryDays
      BY <2>2, <3>1 DEF HistoryInv, OwnDaysKept
    <3>3. e <= today
      BY <1>1, <3>2, DayBegun DEF HistoryInv, SamplesTrue, today
    <3> QED BY <1>1, <1>2, <2>2, <3>2, <3>3, DaysAre
  <2> QED BY <1>1, <1>2, <2>2, <2>3, DaysAre
<1> QED BY <1>9, <1>10, <1>11, <1>12 DEF HistoryInv

(* The end of an import keeps it, whatever was recorded meanwhile. *)
LEMMA EndImportKeeps ==
  HistoryInv /\ EndImport => HistoryInv'
<1> SUFFICES ASSUME HistoryInv, EndImport PROVE HistoryInv'
  OBVIOUS
<1> DEFINE seeded == [d \in DaysSeen |-> SeededDay(d)]
           n == Newest(seeded)
<1>1. /\ moment \in Nat /\ replaced \in Nat /\ HistoryDays \in Nat
      /\ samples \in [DaysSeen -> CounterPairs \union {Unsampled}]
      /\ \A r \in recent : r.at \in 1 .. moment
      /\ ownDays \subseteq DaysSeen
  BY HistoryAssumption DEF HistoryInv, HistoryTyped
<1>2. /\ importing.at \in 1 .. moment
      /\ importing.out = "production" /\ importing.used = "consumption"
  BY DEF EndImport, HistoryInv, HistoryTyped
<1>3. ASSUME NEW t PROVE Row(t) = Counters(t)
  BY <1>2 DEF Row, StateOf, Counters
<1>4. /\ \A t : Counters(t)' = Counters(t)
      /\ UNCHANGED <<moment, replaced, awake, ownDays>>
  BY PumpStays DEF EndImport
<1>5. ASSUME NEW d \in DaysSeen, samples[d] = Unsampled, SeededDay(d) # Unsampled
      PROVE  \E t \in d * DayLength .. (d + 1) * DayLength :
               t \in 1 .. moment /\ t > d * DayLength /\ SeededDay(d) = Counters(t)
  <2> DEFINE t == Earlier((d + 1) * DayLength, importing.at)
  <2>1. SeededDay(d) = Counters(t) /\ d * DayLength < importing.at
    BY <1>3, <1>5 DEF SeededDay, Seedable, DayRow
  <2>2. d * DayLength \in Nat /\ (d + 1) * DayLength \in Nat
        /\ d * DayLength < (d + 1) * DayLength
    BY DaysAre
  <2>3. t \in d * DayLength .. (d + 1) * DayLength /\ t \in 1 .. moment /\ t > d * DayLength
    BY <1>1, <1>2, <2>1, <2>2 DEF Earlier
  <2> QED BY <2>1, <2>3
<1>6. ASSUME NEW d \in DaysSeen
      PROVE  /\ seeded[d] = SeededDay(d)
             /\ samples[d] # Unsampled => SeededDay(d) = samples[d]
             /\ SeededDay(d) \in CounterPairs \union {Unsampled}
  <2>1. samples[d] # Unsampled => SeededDay(d) = samples[d]
    BY DEF SeededDay
  <2>2. SeededDay(d) \in CounterPairs \union {Unsampled}
    <3>1. CASE samples[d] # Unsampled
      BY <1>1, <2>1, <3>1
    <3>2. CASE samples[d] = Unsampled /\ SeededDay(d) # Unsampled
      <4>1. PICK t \in 1 .. moment : SeededDay(d) = Counters(t)
        BY <1>5, <3>2
      <4> QED BY <1>1, <4>1, CountersAre
    <3> QED BY <3>1, <3>2
  <2> QED BY <2>1, <2>2
<1>7. /\ samples' = [d \in DaysSeen |-> IF d >= n - HistoryDays THEN seeded[d] ELSE Unsampled]
      /\ importing' = NoImport /\ imported' = TRUE
  BY DEF EndImport, Trimmed
<1>8. \A r \in recent' :
        r \in recent \/ \E t \in 1 .. importing.at : r = [at |-> t, counters |-> Row(t)]
  BY DEF EndImport, Recent, SeededRecent
<1>9. /\ n \in DaysSeen /\ n \in Nat
      /\ \A d \in DaysSeen : seeded[d] # Unsampled => d <= n
      /\ n # 0 => seeded[n] # Unsampled
  <2> HIDE DEF seeded
  <2> QED BY NewestIs, DaysAre
<1> HIDE DEF seeded, n
<1>10. ASSUME NEW d \in DaysSeen
       PROVE  samples'[d] = IF d >= n - HistoryDays THEN SeededDay(d) ELSE Unsampled
  BY <1>6, <1>7
(* The tracker's own days are not brought back.                            *)
<1>11. ASSUME NEW d \in ownDays, samples[d] = Unsampled
       PROVE  d < n - HistoryDays
  <2>1. PICK e \in DaysSeen : samples[e] # Unsampled /\ d < e - HistoryDays
    BY <1>11 DEF HistoryInv, OwnDaysKept
  <2>2. seeded[e] # Unsampled
    BY <1>6, <2>1
  <2> QED BY <1>1, <1>9, <2>1, <2>2, DaysAre
<1>12. HistoryTyped'
  <2>1. samples' \in [DaysSeen -> CounterPairs \union {Unsampled}]
    <3>1. \A d \in DaysSeen : samples'[d] \in CounterPairs \union {Unsampled}
      BY <1>6, <1>10
    <3>2. samples' = [d \in DaysSeen |-> samples'[d]]
      BY <1>7
    <3> QED BY <3>1, <3>2
  <2>2. \A r \in recent' : r.at \in 1 .. moment
    BY <1>1, <1>2, <1>8
  <2> QED BY <1>4, <1>7, <2>1, <2>2 DEF HistoryInv, HistoryTyped
<1>13. SamplesTrue'
  <2> SUFFICES ASSUME NEW d \in DaysSeen, samples'[d] # Unsampled
               PROVE  d * DayLength <= moment' /\ (replaced' < d * DayLength => OfItsDay(d)')
    BY DEF SamplesTrue
  <2>1. samples'[d] = SeededDay(d) /\ SeededDay(d) # Unsampled /\ d >= n - HistoryDays
    BY <1>10
  <2>2. d \in ownDays' <=> d \in ownDays
    BY <1>4
  <2>3. CASE samples[d] # Unsampled
    <3>1. samples'[d] = samples[d]
      BY <1>6, <2>1, <2>3
    <3>2. d * DayLength <= moment /\ (replaced < d * DayLength => OfItsDay(d))
      BY <2>3 DEF HistoryInv, SamplesTrue
    <3>3. OfItsDay(d)' <=> OfItsDay(d)
      BY <1>4, <2>2, <3>1 DEF OfItsDay
    <3> QED BY <1>4, <3>2, <3>3
  <2>4. CASE samples[d] = Unsampled
    <3>1. d \notin ownDays
      BY <1>1, <1>9, <1>11, <2>1, <2>4, DaysAre
    <3>2. PICK t \in d * DayLength .. (d + 1) * DayLength :
            t \in 1 .. moment /\ t > d * DayLength /\ SeededDay(d) = Counters(t)
      BY <1>5, <2>1, <2>4
    <3>3. samples'[d] = Counters(t)'
      BY <1>4, <2>1, <3>2
    <3>4. OfItsDay(d)'
      BY <2>2, <3>1, <3>2, <3>3 DEF OfItsDay
    <3>5. d * DayLength <= moment
      BY <1>1, <3>2, DaysAre
    <3> QED BY <1>4, <3>4, <3>5
  <2> QED BY <2>3, <2>4
<1>14. RecentTrue'
  BY <1>3, <1>4, <1>8 DEF HistoryInv, RecentTrue
<1>15. OwnDaysKept'
  <2> SUFFICES ASSUME NEW d \in ownDays', samples'[d] = Unsampled
               PROVE  \E e \in DaysSeen : samples'[e] # Unsampled /\ d < e - HistoryDays
    BY DEF OwnDaysKept
  <2>1. d \in ownDays /\ d \in DaysSeen /\ d \in Nat
    BY <1>1, <1>4, DaysAre
  <2>2. d < n - HistoryDays
    <3>1. CASE d >= n - HistoryDays
      <4>1. SeededDay(d) = Unsampled
        BY <1>10, <2>1, <3>1
      <4>2. samples[d] = Unsampled
        BY <1>6, <2>1, <4>1
      <4> QED BY <1>11, <2>1, <4>2
    <3> QED BY <1>1, <1>9, <2>1, <3>1
  <2>3. samples'[n] # Unsampled
    <3>1. n # 0 /\ n >= n - HistoryDays
      BY <1>1, <1>9, <2>1, <2>2
    <3> QED BY <1>6, <1>9, <1>10, <3>1
  <2> QED BY <1>9, <2>2, <2>3
<1> QED BY <1>12, <1>13, <1>14, <1>15 DEF HistoryInv

(* Every step keeps it. *)
LEMMA HistorySteps ==
  HistoryInv /\ [HistoryNext]_historyVars => HistoryInv'
<1> SUFFICES ASSUME HistoryInv, [HistoryNext]_historyVars PROVE HistoryInv'
  OBVIOUS
<1>0. /\ moment \in Nat /\ replaced \in 0 .. moment /\ LastMoment \in Nat
      /\ Installed \in Nat /\ Installed > 0 /\ moment \in Installed .. LastMoment
      /\ \A r \in recent : r.at \in 1 .. moment
      /\ importing # NoImport =>
           importing \in [at : 1 .. moment, out : {"production"}, used : {"consumption"}]
  BY HistoryAssumption DEF HistoryInv, HistoryTyped
<1>1. CASE TimePasses
  <2>1. /\ moment' = moment + 1 /\ moment < LastMoment
        /\ UNCHANGED <<replaced, awake, samples, recent, imported, importing, ownDays>>
    BY <1>1 DEF TimePasses
  <2>2. SamplesTrue' /\ RecentTrue' /\ OwnDaysKept'
    BY <1>0, <2>1, SamplesStay
  <2>3. HistoryTyped'
    <3>1. moment' \in Installed .. LastMoment /\ replaced' \in 0 .. moment'
      BY <1>0, <2>1
    <3>2. \A r \in recent' : r.at \in 1 .. moment'
      BY <1>0, <2>1
    <3>3. importing' # NoImport =>
            importing' \in [at : 1 .. moment', out : {"production"}, used : {"consumption"}]
      BY <1>0, <2>1
    <3> QED BY <2>1, <3>1, <3>2, <3>3 DEF HistoryInv, HistoryTyped
  <2> QED BY <2>2, <2>3 DEF HistoryInv
<1>2. CASE Replaced
  <2>1. /\ replaced' = moment
        /\ UNCHANGED <<moment, awake, samples, recent, imported, importing, ownDays>>
    BY <1>2 DEF Replaced
  <2>2. HistoryTyped'
    BY <1>0, <2>1 DEF HistoryInv, HistoryTyped
  <2>3. SamplesTrue'
    <3> SUFFICES ASSUME NEW d \in DaysSeen, samples'[d] # Unsampled
                 PROVE  d * DayLength <= moment' /\ (replaced' < d * DayLength => OfItsDay(d)')
      BY DEF SamplesTrue
    <3>1. d * DayLength <= moment /\ d * DayLength \in Int
      BY <2>1, DaysAre DEF HistoryInv, SamplesTrue
    <3> QED BY <1>0, <2>1, <3>1
  <2>4. RecentTrue'
    BY <1>0, <2>1 DEF RecentTrue
  <2>5. OwnDaysKept'
    BY <2>1 DEF HistoryInv, OwnDaysKept
  <2> QED BY <2>2, <2>3, <2>4, <2>5 DEF HistoryInv
<1>3. CASE Record
  BY <1>3, RecordedKeeps DEF Record, HistoryInv, HistoryTyped
<1>4. CASE Wake
  BY <1>4, RecordedKeeps DEF Wake
<1>5. CASE Sleep
  <2>1. HistoryTyped'
    BY <1>5 DEF Sleep, HistoryInv, HistoryTyped
  <2>2. SamplesTrue' /\ RecentTrue' /\ OwnDaysKept'
    BY <1>0, <1>5, SamplesStay DEF Sleep
  <2> QED BY <2>1, <2>2 DEF HistoryInv
<1>6. CASE BeginImport
  <2>1. HistoryTyped'
    <3>1. HistoryTyped /\ Pairs(Counters(moment)) # {}
      BY <1>6 DEF BeginImport, HistoryInv
    <3>2. /\ Matched(Counters(moment))[1].id = "production"
          /\ Matched(Counters(moment))[2].id = "consumption"
      BY <3>1, MatchIsRight
    <3>3. importing' = [at |-> moment, out |-> "production", used |-> "consumption"]
      BY <1>6, <3>2 DEF BeginImport
    <3>4. importing' \in [at : 1 .. moment, out : {"production"}, used : {"consumption"}]
      BY <1>0, <3>3
    <3> QED BY <1>6, <3>1, <3>4 DEF BeginImport, HistoryTyped
  <2>2. SamplesTrue' /\ RecentTrue' /\ OwnDaysKept'
    BY <1>0, <1>6, SamplesStay DEF BeginImport
  <2> QED BY <2>1, <2>2 DEF HistoryInv
<1>7. CASE ImportFails
  <2>1. HistoryTyped'
    BY <1>7 DEF ImportFails, HistoryInv, HistoryTyped
  <2>2. SamplesTrue' /\ RecentTrue' /\ OwnDaysKept'
    BY <1>0, <1>7, SamplesStay DEF ImportFails
  <2> QED BY <2>1, <2>2 DEF HistoryInv
<1>8. CASE EndImport
  BY <1>8, EndImportKeeps
<1>9. CASE UNCHANGED historyVars
  <2>1. HistoryTyped'
    BY <1>9 DEF historyVars, HistoryInv, HistoryTyped
  <2>2. SamplesTrue' /\ RecentTrue' /\ OwnDaysKept'
    BY <1>0, <1>9, SamplesStay DEF historyVars
  <2> QED BY <2>1, <2>2 DEF HistoryInv
<1> QED BY <1>1, <1>2, <1>3, <1>4, <1>5, <1>6, <1>7, <1>8, <1>9 DEF HistoryNext

(* What an import seeds and what the tracker records is what the counters  *)
(* showed, and no day the tracker had is brought back.                     *)
THEOREM HistoryInvariant == HistorySpec => []HistoryInv
<1>1. HistoryInit => HistoryInv
  BY HistoryStarts
<1>2. HistoryInv /\ [HistoryNext]_historyVars => HistoryInv'
  BY HistorySteps
<1> QED BY <1>1, <1>2, PTL DEF HistorySpec

(* Where it holds a figure is the ratio of its own span. *)
LEMMA HistoryInvShowsSpans ==
  HistoryInv => FigureIsItsSpan
<1> SUFFICES ASSUME HistoryInv PROVE FigureIsItsSpan
  OBVIOUS
<1>1. /\ moment \in Nat /\ moment \in 0 .. LastMoment /\ LastMoment \in Nat
      /\ {WindowDays, YearMaxDays, DayMin, DayMax} \subseteq Nat
      /\ \A r \in recent : r.at \in 1 .. moment
  BY HistoryAssumption DEF HistoryInv, HistoryTyped
<1>2. Day(moment) \in Nat /\ Day(LastMoment) \in Nat
  <2>1. LastMoment \in 0 .. LastMoment
    BY <1>1
  <2> QED BY <1>1, <2>1, DayIs
<1>3. ASSUME NEW d \in YearBase
      PROVE  /\ Day(moment) - d \in WindowDays .. YearMaxDays
             /\ replaced < d * DayLength => OfItsDay(d)
  <2>1. YearBases \in SUBSET (0 .. Day(LastMoment)) /\ YearBases # {}
    BY DEF YearBase, YearBases, DaysSeen
  <2>2. \E m \in YearBases : \A k \in YearBases : k <= m
    BY <1>2, <2>1, Greatest
  <2>3. d = CHOOSE m \in YearBases : \A k \in YearBases : k <= m
    BY DEF YearBase
  <2>4. d \in YearBases
    BY <2>2, <2>3
  <2>5. /\ d \in DaysSeen /\ d \in Nat /\ samples[d] # Unsampled
        /\ Day(moment) - YearMaxDays <= d /\ d <= Day(moment) - WindowDays
    BY <2>4, DaysAre DEF YearBases
  <2>6. Day(moment) - d \in WindowDays .. YearMaxDays
    BY <1>1, <1>2, <2>5
  <2> QED BY <2>5, <2>6 DEF HistoryInv, SamplesTrue
<1>4. ASSUME NEW r \in DayBase
      PROVE  /\ moment - r.at \in DayMin .. DayMax
             /\ replaced < r.at => r.counters = Counters(r.at)
  <2>1. r \in recent /\ r.at \in moment - DayMax .. moment - DayMin
    BY DEF DayBase, DayBases
  <2>2. moment - r.at \in DayMin .. DayMax
    BY <1>1, <2>1
  <2> QED BY <2>1, <2>2 DEF HistoryInv, RecentTrue
<1> QED BY <1>3, <1>4 DEF FigureIsItsSpan, OfItsDay

(* A figure stands on its own span, whatever was imported, interleaved     *)
(* with samples or lost while the entry was away (cop.CopTracker, history).*)
THEOREM FiguresAreTheirSpans == HistorySpec => []FigureIsItsSpan
<1>1. HistorySpec => []HistoryInv
  BY HistoryInvariant
<1>2. HistoryInv => FigureIsItsSpan
  BY HistoryInvShowsSpans
<1> QED BY <1>1, <1>2, PTL

(* What the tracker holds has its type.                                    *)
THEOREM HistoryTypeCorrect == HistorySpec => []HistoryTypeOK
<1>1. HistorySpec => []HistoryInv
  BY HistoryInvariant
<1>2. HistoryInv => HistoryTypeOK
  <2> SUFFICES ASSUME HistoryInv PROVE HistoryTypeOK
    OBVIOUS
  <2>1. \A d \in DaysSeen : samples[d] \in CounterPairs \/ samples[d] = Unsampled
    BY DEF HistoryInv, HistoryTyped
  <2>2. \A d \in DaysSeen : samples[d].out >= -1 /\ samples[d].used >= -1
    BY <2>1 DEF CounterPairs, Unsampled
  <2> QED BY <2>2 DEF HistoryInv, HistoryTyped, HistoryTypeOK
<1> QED BY <1>1, <1>2, PTL

----------------------------------------------------------------------------
(* The writes of thermostat and water heater *)

Value == {Off, On, Set} \union Degrees \union HotModes
Writes == Seq(Held \X Value)

(* Writes that touch neither the room sensor nor the cooling.              *)
Plain(writes) ==
  \A i \in 1 .. Len(writes) : writes[i][1] \notin {"room", "cooling"}

(* Writes that do not bring cooling by room sensor about, from where the   *)
(* pump is and wherever they stop: none turns the cooling on, and before   *)
(* the room sensor is used the cooling is off, or is turned off.           *)
Safe(writes, h) ==
  /\ \A i \in 1 .. Len(writes) : writes[i][1] = "cooling" => writes[i][2] # On
  /\ \A i \in 1 .. Len(writes) : writes[i][1] = "room" /\ writes[i][2] = On =>
       \/ h["cooling"] # On
       \/ \E j \in 1 .. i - 1 : writes[j][1] = "cooling"

CoolsNot == Has("cooling") /\ call.asked \notin {"heat_cool", "plain"} /\ ~call.touched

WritesTyped ==
  /\ DOMAIN holds = Held
  /\ DOMAIN call = {"asked", "target", "writes", "raises", "touched"}
  /\ call.writes \in Writes
  /\ touches \in Nat

(* The inductive invariant: what is left of a call.                        *)
CoolInv == WritesTyped /\ (CoolsNot => Safe(call.writes, holds))

----------------------------------------------------------------------------
(* What calls write *)

(* Writes that touch neither room sensor nor cooling bring no cooling
   about. *)
LEMMA PlainIsSafe ==
  ASSUME NEW writes, NEW h, Plain(writes)
  PROVE  Safe(writes, h)
BY DEF Plain, Safe

(* Nor do such writes after safe ones. *)
LEMMA SafeThenPlain ==
  ASSUME NEW s \in Writes, NEW t \in Writes, NEW h, Safe(s, h), Plain(t)
  PROVE  s \o t \in Writes /\ Safe(s \o t, h)
<1> DEFINE u == s \o t
<1>1. /\ u \in Writes /\ Len(u) = Len(s) + Len(t)
      /\ \A i \in 1 .. Len(u) : u[i] = IF i <= Len(s) THEN s[i] ELSE t[i - Len(s)]
      /\ Len(s) \in Nat /\ Len(t) \in Nat
  BY ConcatProperties, LenProperties DEF Writes
<1> HIDE DEF u
<1>2. ASSUME NEW i \in 1 .. Len(u), u[i][1] \in {"room", "cooling"}
      PROVE  i \in 1 .. Len(s) /\ u[i] = s[i] /\ \A j \in 1 .. i - 1 : u[j] = s[j]
  <2>1. i <= Len(s)
    <3> SUFFICES ASSUME ~(i <= Len(s)) PROVE FALSE
      OBVIOUS
    <3>1. i - Len(s) \in 1 .. Len(t) /\ u[i] = t[i - Len(s)]
      BY <1>1
    <3> QED BY <1>2, <3>1 DEF Plain
  <2> QED BY <1>1, <2>1
<1>3. ASSUME NEW i \in 1 .. Len(u), u[i][1] = "cooling" PROVE u[i][2] # On
  BY <1>2, <1>3 DEF Safe
<1>4. ASSUME NEW i \in 1 .. Len(u), u[i][1] = "room", u[i][2] = On, h["cooling"] = On
      PROVE  \E j \in 1 .. i - 1 : u[j][1] = "cooling"
  <2>1. i \in 1 .. Len(s) /\ u[i] = s[i] /\ \A j \in 1 .. i - 1 : u[j] = s[j]
    BY <1>2, <1>4
  <2>2. PICK j \in 1 .. i - 1 : s[j][1] = "cooling"
    BY <1>4, <2>1 DEF Safe
  <2> QED BY <2>1, <2>2
<1> QED BY <1>1, <1>3, <1>4 DEF Safe, u

(* One more such write changes nothing in that. *)
LEMMA PlainAppended ==
  ASSUME NEW s \in Writes, Plain(s), NEW w \in Held \X Value, w[1] \notin {"room", "cooling"}
  PROVE  Append(s, w) \in Writes /\ Plain(Append(s, w))
<1> DEFINE u == Append(s, w)
<1>1. s \in Seq(Held \X Value)
  BY DEF Writes
<1>2. Len(s) \in Nat
  BY <1>1, LenProperties
<1>3. /\ u \in Seq(Held \X Value) /\ Len(u) = Len(s) + 1
      /\ \A i \in 1 .. Len(s) : u[i] = s[i]
      /\ u[Len(s) + 1] = w
  BY <1>1, AppendProperties
<1> HIDE DEF u
<1>4. \A i \in 1 .. Len(u) : i \in 1 .. Len(s) \/ i = Len(s) + 1
  BY <1>2, <1>3
<1>5. Plain(u)
  BY <1>3, <1>4 DEF Plain
<1> QED BY <1>3, <1>5 DEF u, Writes

(* A pair of writes, and one, as sequences.                                *)
LEMMA OneWrite ==
  ASSUME NEW r \in Held, NEW v \in Value
  PROVE  <<<<r, v>>>> \in Writes /\ Len(<<<<r, v>>>>) = 1 /\ <<<<r, v>>>>[1] = <<r, v>>
BY DEF Writes

(* No write is the empty sequence. *)
LEMMA NoWrite ==
  <<>> \in Writes /\ Plain(<<>>) /\ \A s \in Writes : <<>> \o s = s /\ s \o <<>> = s
BY EmptySeq, ConcatEmptySeq DEF Writes, Plain

(* Two writes are a sequence of two. *)
LEMMA TwoWrites ==
  ASSUME NEW r \in Held, NEW v \in Value, NEW p \in Held, NEW w \in Value
  PROVE  LET s == <<<<r, v>>>> \o <<<<p, w>>>>
         IN  s \in Writes /\ Len(s) = 2 /\ s[1] = <<r, v>> /\ s[2] = <<p, w>>
<1> DEFINE s == <<<<r, v>>>>
           t == <<<<p, w>>>>
<1>1. /\ s \in Writes /\ Len(s) = 1 /\ s[1] = <<r, v>>
      /\ t \in Writes /\ Len(t) = 1 /\ t[1] = <<p, w>>
  BY OneWrite
<1> HIDE DEF s, t
<1>2. /\ s \o t \in Writes /\ Len(s \o t) = Len(s) + Len(t)
      /\ \A i \in 1 .. Len(s) + Len(t) : (s \o t)[i] = IF i <= Len(s) THEN s[i] ELSE t[i - Len(s)]
  BY <1>1, ConcatProperties DEF Writes
<1>3. Len(s \o t) = 2 /\ (s \o t)[1] = s[1] /\ (s \o t)[2] = t[1]
  BY <1>1, <1>2
<1> QED BY <1>1, <1>2, <1>3 DEF s, t

(* The registers the two devices write, and their values. *)
LEMMA HeldKnown ==
  /\ {"room", "cooling", "boost", "setpoint", "zone", "cool setpoint", "water"} \subseteq Held
  /\ {Off, On, Set} \subseteq Value /\ Degrees \subseteq Value /\ HotModes \subseteq Value
  /\ \A r \in Held : ValuesOf(r) \subseteq Value
BY DEF Held, Switches, Setpoints, Value, ValuesOf

(* A mode other than heating and cooling turns the cooling off first.      *)
LEMMA ModeWritesSafe ==
  ASSUME NEW mode, NEW h
  PROVE  /\ ModeWrites(mode) \in Writes
         /\ Has("cooling") /\ mode # "heat_cool" => Safe(ModeWrites(mode), h)
<1> DEFINE c == IF mode = "heat_cool" THEN On ELSE Off
           r == IF mode = "auto" THEN Off ELSE On
<1>1. c \in Value /\ r \in Value /\ "room" \in Held /\ "cooling" \in Held
  BY HeldKnown
<1>2. CASE ~Has("cooling")
  <2>1. ModeWrites(mode) = <<>> \o <<<<"room", r>>>>
    BY <1>2 DEF ModeWrites
  <2> HIDE DEF r, c
  <2>2. ModeWrites(mode) = <<<<"room", r>>>>
    BY <1>1, <2>1, OneWrite, NoWrite
  <2> QED BY <1>1, <1>2, <2>2, OneWrite
<1>3. CASE Has("cooling")
  <2>1. ModeWrites(mode) = <<<<"cooling", c>>>> \o <<<<"room", r>>>>
    BY <1>3 DEF ModeWrites
  <2>2. mode # "heat_cool" => c # On
    BY DEF On, Off
  <2> DEFINE s == ModeWrites(mode)
  <2> HIDE DEF r, c
  <2>3. s \in Writes /\ Len(s) = 2 /\ s[1] = <<"cooling", c>> /\ s[2] = <<"room", r>>
    BY <1>1, <2>1, TwoWrites
  <2> HIDE DEF s
  <2>4. ASSUME mode # "heat_cool" PROVE Safe(s, h)
    <3>1. \A i \in 1 .. Len(s) : i = 1 \/ i = 2
      BY <2>3
    <3>2. \A i \in 1 .. Len(s) : s[i][1] = "cooling" => s[i][2] # On
      BY <2>2, <2>3, <2>4, <3>1
    <3>3. \A i \in 1 .. Len(s) : s[i][1] = "room" => \E j \in 1 .. i - 1 : s[j][1] = "cooling"
      <4>1. 1 \in 1 .. 2 - 1 /\ s[1][1] = "cooling"
        BY <2>3
      <4> QED BY <2>3, <3>1, <4>1
    <3> QED BY <3>2, <3>3 DEF Safe
  <2> QED BY <2>3, <2>4 DEF s
<1> QED BY <1>2, <1>3

(* Writing a setpoint touches neither room sensor nor cooling. *)
LEMMA SetpointWritesPlain ==
  ASSUME NEW d \in Degrees
  PROVE  SetpointWrites(d) \in Writes /\ Plain(SetpointWrites(d))
<1>1. d \in Value /\ "setpoint" \in Held /\ "zone" \in Held
  BY HeldKnown
<1>2. CASE Has("zone")
  <2>1. SetpointWrites(d) = <<<<"setpoint", d>>>> \o <<<<"zone", d>>>>
    BY <1>2 DEF SetpointWrites
  <2> DEFINE s == SetpointWrites(d)
  <2>2. s \in Writes /\ Len(s) = 2 /\ s[1] = <<"setpoint", d>> /\ s[2] = <<"zone", d>>
    BY <1>1, <2>1, TwoWrites
  <2> HIDE DEF s
  <2>3. \A i \in 1 .. Len(s) : i = 1 \/ i = 2
    BY <2>2
  <2>4. Plain(s)
    BY <2>2, <2>3 DEF Plain
  <2> QED BY <2>2, <2>4 DEF s
<1>3. CASE ~Has("zone")
  <2>1. SetpointWrites(d) = <<<<"setpoint", d>>>> \o <<>>
    BY <1>3 DEF SetpointWrites
  <2>2. SetpointWrites(d) = <<<<"setpoint", d>>>>
    BY <1>1, <2>1, OneWrite, NoWrite
  <2> QED BY <1>1, <2>2, OneWrite DEF Plain
<1> QED BY <1>2, <1>3

----------------------------------------------------------------------------
(* How a call goes on *)

(* Once its first write is made, what is left of a call is safe from where *)
(* the pump is then, and the pump does not cool by it.                     *)
LEMMA FirstMade ==
  ASSUME NEW s \in Writes, s # <<>>, NEW h, NEW g, DOMAIN h = Held,
         g = [h EXCEPT ![Head(s)[1]] = Head(s)[2]], Safe(s, h)
  PROVE  /\ Safe(Tail(s), g)
         /\ g["room"] = On /\ g["cooling"] = On => h["room"] = On /\ h["cooling"] = On
<1>1. /\ Head(s) = s[1] /\ 1 \in 1 .. Len(s) /\ s[1] \in Held \X Value
      /\ Len(Tail(s)) = Len(s) - 1 /\ Len(s) \in Nat
      /\ \A i \in 1 .. Len(s) - 1 : Tail(s)[i] = s[i + 1] /\ i + 1 \in 1 .. Len(s)
  BY HeadTailProperties, EmptySeq, LenProperties, ElementOfSeq DEF Writes
<1>2. s[1][1] \in Held /\ "room" \in Held /\ "cooling" \in Held
  BY <1>1, HeldKnown
<1>3. \A r \in Held : g[r] = IF r = s[1][1] THEN s[1][2] ELSE h[r]
  BY <1>1, <1>2
<1> DEFINE t == Tail(s)
<1>4. ASSUME NEW i \in 1 .. Len(t), t[i][1] = "cooling" PROVE t[i][2] # On
  BY <1>1, <1>4 DEF Safe
<1>5. ASSUME NEW i \in 1 .. Len(t), t[i][1] = "room", t[i][2] = On, g["cooling"] = On
      PROVE  \E j \in 1 .. i - 1 : t[j][1] = "cooling"
  <2>1. s[1][1] # "cooling"
    BY <1>1, <1>2, <1>3, <1>5 DEF Safe
  <2>2. h["cooling"] = On
    BY <1>2, <1>3, <1>5, <2>1
  <2>3. i + 1 \in 1 .. Len(s) /\ s[i + 1] = t[i] /\ i \in 1 .. Len(s) - 1
    BY <1>1
  <2>4. PICK j \in 1 .. (i + 1) - 1 : s[j][1] = "cooling"
    BY <1>5, <2>2, <2>3 DEF Safe
  <2>5. j # 1
    BY <2>1, <2>4
  <2>6. j - 1 \in 1 .. i - 1 /\ t[j - 1] = s[j]
    <3>1. j - 1 \in 1 .. Len(s) - 1 /\ (j - 1) + 1 = j /\ j - 1 \in 1 .. i - 1
      BY <1>1, <2>3, <2>4, <2>5
    <3> QED BY <1>1, <3>1
  <2> QED BY <2>4, <2>6
<1>6. Safe(t, g)
  BY <1>4, <1>5 DEF Safe
<1>7. ASSUME g["room"] = On, g["cooling"] = On PROVE h["room"] = On /\ h["cooling"] = On
  <2>1. s[1][1] # "cooling"
    BY <1>1, <1>2, <1>3, <1>7 DEF Safe
  <2>2. h["cooling"] = On
    BY <1>2, <1>3, <1>7, <2>1
  <2>3. s[1][1] # "room"
    <3> SUFFICES ASSUME s[1][1] = "room" PROVE FALSE
      OBVIOUS
    <3>1. s[1][2] = On
      BY <1>2, <1>3, <1>7
    <3>2. \E j \in 1 .. 1 - 1 : s[j][1] = "cooling"
      BY <1>1, <2>2, <3>1 DEF Safe
    <3> QED BY <3>2
  <2> QED BY <1>2, <1>3, <1>7, <2>2, <2>3
<1> QED BY <1>6, <1>7

----------------------------------------------------------------------------
(* The invariant *)

(* A call that begins with safe writes keeps the invariant. *)
LEMMA BeginsKeeps ==
  ASSUME CoolInv, NEW asked, NEW target, NEW writes \in Writes, NEW raises, NEW goesBy,
         Begins(asked, target, writes, raises, goesBy),
         Has("cooling") /\ asked \notin {"heat_cool", "plain"} => Safe(writes, holds)
  PROVE  CoolInv' /\ holds' = holds
<1>1. /\ call' = [asked |-> asked, target |-> target, writes |-> writes, raises |-> raises,
                  touched |-> \E r \in goesBy : shows[r] # holds[r]]
      /\ fit' = fit /\ holds' = holds /\ touches' = touches
  BY DEF Begins
<1>2. call'.asked = asked /\ call'.writes = writes
      /\ DOMAIN call' = {"asked", "target", "writes", "raises", "touched"}
  BY <1>1
<1> QED BY <1>1, <1>2 DEF CoolInv, WritesTyped, CoolsNot, Has, Safe

(* The invariant holds at the start. *)
LEMMA CoolInvInit == ComfortInit => CoolInv
<1> SUFFICES ASSUME ComfortInit PROVE CoolInv
  OBVIOUS
<1>1. call = NoCall /\ DOMAIN holds = Held /\ touches \in Nat
  BY DEF ComfortInit
<1>2. call.writes = <<>> /\ DOMAIN call = {"asked", "target", "writes", "raises", "touched"}
  BY <1>1 DEF NoCall
<1> QED BY <1>1, <1>2, NoWrite, PlainIsSafe DEF CoolInv, WritesTyped

(* What a step may not do.                                                 *)
Cools(h) == Has("cooling") /\ h["room"] = On /\ h["cooling"] = On
Asked == call.asked \in {"heat_cool", "plain"} \/ call.touched

(* Every step keeps it, and none brings cooling about unasked. *)
LEMMA StepCools ==
  ASSUME CoolInv, [ComfortNext]_comfortVars
  PROVE  CoolInv' /\ (touches' = touches => Asked \/ (fit' = fit /\ (Cools(holds') => Cools(holds))))
<1> DEFINE Goal == CoolInv' /\ (touches' = touches =>
                                Asked \/ (fit' = fit /\ (Cools(holds') => Cools(holds))))
<1>0. ASSUME NEW asked, NEW target, NEW writes \in Writes, NEW raises, NEW goesBy,
             Begins(asked, target, writes, raises, goesBy),
             Has("cooling") /\ asked \notin {"heat_cool", "plain"} => Safe(writes, holds)
      PROVE  Goal
  BY <1>0, BeginsKeeps DEF Begins
<1>1. ASSUME Written PROVE Goal
  <2>1. /\ call.writes # <<>> /\ fit' = fit
        /\ holds' = [holds EXCEPT ![Head(call.writes)[1]] = Head(call.writes)[2]]
        /\ call' = [call EXCEPT !.writes = Tail(@)] /\ touches' = touches
    BY <1>1 DEF Written, Changes
  <2>2. /\ call'.writes = Tail(call.writes) /\ call'.asked = call.asked
        /\ call'.touched = call.touched /\ DOMAIN call' = DOMAIN call
        /\ DOMAIN holds' = DOMAIN holds
    BY <2>1 DEF CoolInv, WritesTyped
  <2>3. Tail(call.writes) \in Writes
    BY <2>1, HeadTailProperties DEF CoolInv, WritesTyped, Writes
  <2>4. CoolsNot => /\ Safe(Tail(call.writes), holds')
                    /\ holds'["room"] = On /\ holds'["cooling"] = On =>
                         holds["room"] = On /\ holds["cooling"] = On
    BY <2>1, FirstMade DEF CoolInv, WritesTyped
  <2>5. CoolInv'
    BY <2>1, <2>2, <2>3, <2>4 DEF CoolInv, WritesTyped, CoolsNot, Has, Safe
  <2> QED BY <2>1, <2>4, <2>5 DEF Asked, CoolsNot, Cools
<1>2. ASSUME NEW keeps \in BOOLEAN, WriteFails(keeps) PROVE Goal
  <2> DEFINE made == [holds EXCEPT ![Head(call.writes)[1]] = Head(call.writes)[2]]
  <2>1. /\ call.writes # <<>> /\ fit' = fit /\ call' = NoCall /\ touches' = touches
        /\ holds' = holds \/ holds' = made
    BY <1>2 DEF WriteFails, Changes
  <2>2. /\ call'.writes = <<>>
        /\ DOMAIN call' = {"asked", "target", "writes", "raises", "touched"}
    BY <2>1 DEF NoCall
  <2>3. DOMAIN holds' = Held
    BY <2>1 DEF CoolInv, WritesTyped
  <2>4. CoolsNot /\ holds' = made =>
          (holds'["room"] = On /\ holds'["cooling"] = On =>
             holds["room"] = On /\ holds["cooling"] = On)
    BY <2>1, FirstMade DEF CoolInv, WritesTyped
  <2>5. CoolInv'
    BY <2>1, <2>2, <2>3, NoWrite, PlainIsSafe DEF CoolInv, WritesTyped
  <2> QED BY <2>1, <2>4, <2>5 DEF Asked, CoolsNot, Cools
<1>3. ASSUME Ends PROVE Goal
  <2>1. call' = NoCall /\ fit' = fit /\ holds' = holds /\ touches' = touches
    BY <1>3 DEF Ends
  <2>2. /\ call'.writes = <<>>
        /\ DOMAIN call' = {"asked", "target", "writes", "raises", "touched"}
    BY <2>1 DEF NoCall
  <2>3. CoolInv'
    BY <2>1, <2>2, NoWrite, PlainIsSafe DEF CoolInv, WritesTyped
  <2> QED BY <2>1, <2>3
<1>4. ASSUME UNCHANGED <<fit, holds, call, touches>> PROVE Goal
  BY <1>4 DEF CoolInv, WritesTyped, CoolsNot, Has, Safe, Cools
<1>5. ASSUME NEW mode, SetHvacMode(mode) PROVE Goal
  <2> DEFINE writes == IF Refused(mode) THEN <<>> ELSE ModeWrites(mode)
  <2>1. writes \in Writes
    BY ModeWritesSafe, NoWrite
  <2>2. Has("cooling") /\ mode \notin {"heat_cool", "plain"} => Safe(writes, holds)
    BY ModeWritesSafe, NoWrite, PlainIsSafe
  <2>3. Begins(mode, Off, writes, Refused(mode), {})
    BY <1>5 DEF SetHvacMode
  <2> HIDE DEF writes, Goal
  <2> QED BY <1>0, <2>1, <2>2, <2>3
<1>6. ASSUME NEW mode, NEW degrees \in Degrees, SetTemperature(mode, degrees) PROVE Goal
  <2> DEFINE writes == IF mode = "none" THEN <<>> ELSE ModeWrites(mode)
             meets == IF mode = "none" THEN HvacMode ELSE mode
             both == writes \o SetpointWrites(degrees)
             goesBy == IF mode = "none" THEN {"room", "cooling"} ELSE {}
  <2>1. writes \in Writes /\ (Has("cooling") /\ mode # "heat_cool" => Safe(writes, holds))
    BY ModeWritesSafe, NoWrite, PlainIsSafe
  <2>2. both \in Writes /\ (Has("cooling") /\ mode # "heat_cool" => Safe(both, holds))
    <3>1. SetpointWrites(degrees) \in Writes /\ Plain(SetpointWrites(degrees))
      BY SetpointWritesPlain
    <3> HIDE DEF writes
    <3>2. both \in Writes
      BY <2>1, <3>1, ConcatProperties DEF Writes
    <3> QED BY <2>1, <3>1, <3>2, SafeThenPlain
  <2>3. \/ Begins("none", Off, <<>>, TRUE, {})
        \/ Begins(mode, Off, writes, TRUE, {})
        \/ Begins("heat", degrees, both, FALSE, goesBy) /\ meets = "heat"
    BY <1>6 DEF SetTemperature
  <2>4. meets = "heat" => mode # "heat_cool"
    OBVIOUS
  <2>5. <<>> \in Writes /\ Safe(<<>>, holds)
    BY NoWrite, PlainIsSafe
  <2> HIDE DEF writes, both, meets, goesBy, Goal
  <2>6. CASE Begins("none", Off, <<>>, TRUE, {})
    BY <1>0, <2>5, <2>6
  <2>7. CASE Begins(mode, Off, writes, TRUE, {})
    BY <1>0, <2>1, <2>7
  <2>8. CASE Begins("heat", degrees, both, FALSE, goesBy) /\ meets = "heat"
    BY <1>0, <2>2, <2>4, <2>8
  <2> QED BY <2>3, <2>6, <2>7, <2>8
<1>7. ASSUME NEW mode, NEW low \in Degrees, SetRange(mode, low) PROVE Goal
  <2> DEFINE s == SetpointWrites(low)
             last == <<"cool setpoint", Set>>
             ends == Append(s, last)
             both == ModeWrites(mode) \o ends
  <2>1. s \in Writes /\ Plain(s) /\ last \in Held \X Value /\ last[1] = "cool setpoint"
    BY SetpointWritesPlain, HeldKnown
  <2>2. \/ Begins(HvacMode, low, ends, FALSE, {"room", "cooling"})
        \/ Begins("none", Off, <<>>, TRUE, {})
        \/ Begins(mode, low, both, FALSE, {})
    BY <1>7 DEF SetRange
  <2> HIDE DEF s, last
  <2>3. ends \in Writes /\ Plain(ends)
    BY <2>1, PlainAppended
  <2> HIDE DEF ends
  <2>4. both \in Writes /\ (Has("cooling") /\ mode # "heat_cool" => Safe(both, holds))
    <3>1. ModeWrites(mode) \in Writes
          /\ (Has("cooling") /\ mode # "heat_cool" => Safe(ModeWrites(mode), holds))
      BY ModeWritesSafe
    <3>2. both \in Writes
      BY <2>3, <3>1, ConcatProperties DEF Writes
    <3> QED BY <2>3, <3>1, <3>2, SafeThenPlain
  <2>5. <<>> \in Writes /\ Safe(<<>>, holds)
    BY NoWrite, PlainIsSafe
  <2> HIDE DEF both, Goal
  <2>6. CASE Begins(HvacMode, low, ends, FALSE, {"room", "cooling"})
    BY <1>0, <2>3, <2>6, PlainIsSafe
  <2>7. CASE Begins("none", Off, <<>>, TRUE, {})
    BY <1>0, <2>5, <2>7
  <2>8. CASE Begins(mode, low, both, FALSE, {})
    BY <1>0, <2>4, <2>8
  <2> QED BY <2>2, <2>6, <2>7, <2>8
<1>8. ASSUME NEW operation \in HotModes \union {"boost"}, SetOperationMode(operation) PROVE Goal
  <2> DEFINE writes == OperationWrites(operation)
  <2>1. writes \in Writes /\ Plain(writes)
    <3>1. /\ "boost" \in Held /\ "water" \in Held /\ {Off, On} \subseteq Value
          /\ Boost.register = "boost" /\ Boost.on = On /\ Boost.off = Off
      BY HeldKnown DEF Boost
    <3>2. CASE operation = "boost"
      <4>1. writes = <<<<"boost", On>>>>
        BY <3>1, <3>2 DEF OperationWrites
      <4> HIDE DEF writes
      <4> QED BY <3>1, <4>1, OneWrite DEF Plain
    <3>3. CASE operation # "boost" /\ Boosting
      <4>1. writes = <<<<"boost", Off>>>> \o <<<<"water", operation>>>>
        BY <3>1, <3>3 DEF OperationWrites
      <4>2. operation \in Value
        BY <3>3, HeldKnown
      <4> HIDE DEF writes
      <4>3. /\ writes \in Writes /\ Len(writes) = 2
            /\ writes[1] = <<"boost", Off>> /\ writes[2] = <<"water", operation>>
        BY <3>1, <4>1, <4>2, TwoWrites
      <4>4. \A i \in 1 .. Len(writes) : i = 1 \/ i = 2
        BY <4>3
      <4> QED BY <4>3, <4>4 DEF Plain
    <3>4. CASE operation # "boost" /\ ~Boosting
      <4>1. writes = <<>> \o <<<<"water", operation>>>>
        BY <3>4 DEF OperationWrites
      <4>2. operation \in Value
        BY <3>4, HeldKnown
      <4> HIDE DEF writes
      <4>3. writes = <<<<"water", operation>>>>
        BY <3>1, <4>1, <4>2, OneWrite, NoWrite
      <4> QED BY <3>1, <4>2, <4>3, OneWrite DEF Plain
    <3> QED BY <3>2, <3>3, <3>4
  <2>2. Begins(operation, Off, writes, FALSE, {"boost"})
    BY <1>8 DEF SetOperationMode
  <2> HIDE DEF writes, Goal
  <2> QED BY <1>0, <2>1, <2>2, PlainIsSafe
<1>9. ASSUME NEW r \in Held, NEW v \in ValuesOf(r), PlainWrite(r, v) PROVE Goal
  <2> DEFINE writes == <<<<r, v>>>>
  <2>1. writes \in Writes
    BY HeldKnown, OneWrite
  <2>2. Begins("plain", Off, writes, FALSE, {})
    BY <1>9 DEF PlainWrite
  <2> HIDE DEF writes, Goal
  <2> QED BY <1>0, <2>1, <2>2
<1>10. ASSUME NEW r \in Held, NEW v \in ValuesOf(r), Touched(r, v) PROVE Goal
  <2>1. /\ touches' = touches + 1 /\ touches' # touches /\ touches' \in Nat
        /\ holds' = [holds EXCEPT ![r] = v]
        /\ call' = IF call = NoCall THEN call ELSE [call EXCEPT !.touched = TRUE]
    BY <1>10 DEF Touched, Changes, CoolInv, WritesTyped
  <2>2. DOMAIN holds' = Held
    BY <2>1 DEF CoolInv, WritesTyped
  <2>3. CASE call = NoCall
    <3>1. call'.writes = <<>> /\ call' = call
      BY <2>1, <2>3 DEF NoCall
    <3> QED BY <2>1, <2>2, <3>1, NoWrite, PlainIsSafe DEF CoolInv, WritesTyped
  <2>4. CASE call # NoCall
    <3>1. call'.touched /\ call'.writes = call.writes /\ DOMAIN call' = DOMAIN call
      BY <2>1, <2>4 DEF CoolInv, WritesTyped
    <3> QED BY <2>1, <2>2, <3>1 DEF CoolInv, WritesTyped, CoolsNot
  <2> QED BY <2>3, <2>4
<1>11. ASSUME Polled PROVE Goal
  BY <1>4, <1>11 DEF Polled
<1>12. ASSUME UNCHANGED comfortVars PROVE Goal
  BY <1>4, <1>12 DEF comfortVars
<1> HIDE DEF Goal
<1>13. ASSUME ComfortNext PROVE Goal
  <2>1. CASE Written \/ Ends \/ Polled
    BY <1>1, <1>3, <1>11, <2>1
  <2>2. CASE \E keeps \in BOOLEAN : WriteFails(keeps)
    BY <1>2, <2>2
  <2>3. CASE \E mode \in Modes : SetHvacMode(mode)
    BY <1>5, <2>3
  <2>4. CASE \E mode \in Modes \union {"none"}, degrees \in Degrees : SetTemperature(mode, degrees)
    BY <1>6, <2>4
  <2>5. CASE \E mode \in Modes \union {"none"}, low \in Degrees : SetRange(mode, low)
    BY <1>7, <2>5
  <2>6. CASE \E operation \in HotModes \union {"boost"} : SetOperationMode(operation)
    BY <1>8, <2>6
  <2>7. CASE \E r \in Held : \E v \in ValuesOf(r) : PlainWrite(r, v) \/ Touched(r, v)
    BY <1>9, <1>10, <2>7
  <2> QED BY <1>13, <2>1, <2>2, <2>3, <2>4, <2>5, <2>6, <2>7 DEF ComfortNext
<1> QED BY <1>12, <1>13 DEF Goal

(* Wherever a call of the thermostat or the hot water heater fails, the    *)
(* pump is not left, and is not for a moment, to cool by its room sensor   *)
(* unless that was asked (async_set_hvac_mode writes the cooling first).   *)
THEOREM NeverCoolsUnasked == ComfortSpec => CoolsOnlyWhenAsked
<1>1. CoolInv /\ [ComfortNext]_comfortVars =>
        CoolInv' /\ (touches' = touches => Asked \/ (fit' = fit /\ (Cools(holds') => Cools(holds))))
  BY StepCools
<1>2. (touches' = touches => Asked \/ (fit' = fit /\ (Cools(holds') => Cools(holds)))) =>
        [LET cools(h) == Has("cooling") /\ h["room"] = On /\ h["cooling"] = On IN
         cools(holds') /\ ~cools(holds) =>
           \/ call.asked \in {"heat_cool", "plain"}
           \/ call.touched \/ touches' # touches]_comfortVars
  BY DEF Asked, Cools
<1> QED BY CoolInvInit, <1>1, <1>2, PTL DEF ComfortSpec, CoolsOnlyWhenAsked

----------------------------------------------------------------------------
(* What the writes mean *)

(* The mode and the operation the registers h of a pump with features F    *)
(* stand for, and what a call asks of them.                                *)
ModeOf(F, h) ==
  CASE h["room"] # On -> "auto"
    [] "cooling" \in F /\ h["cooling"] # Off -> "heat_cool"
    [] OTHER -> "heat"

OperationOf(F, h) == IF "boost" \in F /\ h["boost"] # Off THEN "boost" ELSE h["water"]

Fulfils(F, asked, target, h) ==
  /\ asked \in Modes =>
       /\ ModeOf(F, h) = asked
       /\ (target # Off =>
             h["setpoint"] = target /\ ("zone" \in F => h["zone"] = target))
  /\ asked \in HotModes \union {"boost"} => OperationOf(F, h) = asked

(* The last of the writes to r gives it v; without one it keeps what h has.*)
Leaves(writes, h, r, v) ==
  \/ \E i \in 1 .. Len(writes) : /\ writes[i][1] = r /\ writes[i][2] = v
                                 /\ \A j \in i + 1 .. Len(writes) : writes[j][1] # r
  \/ v = h[r] /\ \A j \in 1 .. Len(writes) : writes[j][1] # r

Comes(writes, h, g) == \A r \in Held : Leaves(writes, h, r, g[r])

(* What is left of a call brings about what it asked.                      *)
Will(F, asked, target, writes, h) ==
  \E g : Comes(writes, h, g) /\ Fulfils(F, asked, target, g)

MeantInv ==
  /\ DOMAIN shows = Held
  /\ call # NoCall => meant = NoCall
  /\ call # NoCall /\ ~call.raises /\ ~call.touched =>
       /\ late \/ Will(fit, call.asked, call.target, call.writes, shows)
       /\ Will(fit, call.asked, call.target, call.writes, holds)
  /\ late \/ Fulfils(fit, meant.asked, meant.target, shows)
  /\ Fulfils(fit, meant.asked, meant.target, holds)

----------------------------------------------------------------------------
(* Where writes lead *)

(* Whether a call got what it asked depends only on what the registers
   hold. *)
LEMMA FulfilsAlike ==
  ASSUME NEW F, NEW asked, NEW target, NEW g, NEW h,
         \A r \in Held : g[r] = h[r], Fulfils(F, asked, target, g)
  PROVE  Fulfils(F, asked, target, h)
<1>1. /\ g["room"] = h["room"] /\ g["cooling"] = h["cooling"] /\ g["boost"] = h["boost"]
      /\ g["setpoint"] = h["setpoint"] /\ g["zone"] = h["zone"] /\ g["water"] = h["water"]
  BY HeldKnown
<1>2. ModeOf(F, g) = ModeOf(F, h) /\ OperationOf(F, g) = OperationOf(F, h)
  BY <1>1 DEF ModeOf, OperationOf
<1> QED BY <1>1, <1>2 DEF Fulfils

(* No writes lead to where one is. *)
LEMMA ComesNone ==
  ASSUME NEW h, NEW g
  PROVE  Comes(<<>>, h, g) <=> \A r \in Held : g[r] = h[r]
BY DEF Comes, Leaves

(* One write leads to its value. *)
LEMMA ComesOne ==
  ASSUME NEW r \in Held, NEW v \in Value, NEW h
  PROVE  Comes(<<<<r, v>>>>, h, [x \in Held |-> IF x = r THEN v ELSE h[x]])
<1> DEFINE s == <<<<r, v>>>>
           g == [x \in Held |-> IF x = r THEN v ELSE h[x]]
<1>1. Len(s) = 1 /\ s[1] = <<r, v>>
  BY OneWrite
<1>2. \A x \in Held : g[x] = IF x = r THEN v ELSE h[x]
  OBVIOUS
<1> HIDE DEF s, g
<1>3. ASSUME NEW x \in Held PROVE Leaves(s, h, x, g[x])
  <2>1. CASE x = r
    <3>1. 1 \in 1 .. Len(s) /\ s[1][1] = r /\ s[1][2] = v /\ \A j \in 1 + 1 .. Len(s) : FALSE
      BY <1>1
    <3> QED BY <1>2, <2>1, <3>1 DEF Leaves
  <2>2. CASE x # r
    <3>1. \A j \in 1 .. Len(s) : s[j][1] # x
      BY <1>1, <2>2
    <3> QED BY <1>2, <2>2, <3>1 DEF Leaves
  <2> QED BY <2>1, <2>2
<1> QED BY <1>3 DEF Comes, s, g

(* Writes after writes lead where the second lead from where the first do. *)
LEMMA ComesThen ==
  ASSUME NEW s \in Writes, NEW t \in Writes, NEW h, NEW f, NEW g,
         Comes(s, h, f), Comes(t, f, g)
  PROVE  Comes(s \o t, h, g)
<1> DEFINE u == s \o t
<1>1. /\ Len(u) = Len(s) + Len(t) /\ Len(s) \in Nat /\ Len(t) \in Nat
      /\ \A i \in 1 .. Len(u) : u[i] = IF i <= Len(s) THEN s[i] ELSE t[i - Len(s)]
  BY ConcatProperties, LenProperties DEF Writes
<1> HIDE DEF u
<1>2. \A i \in 1 .. Len(s) : i \in 1 .. Len(u) /\ u[i] = s[i]
  BY <1>1
<1>3. \A i \in 1 .. Len(t) : Len(s) + i \in 1 .. Len(u) /\ u[Len(s) + i] = t[i]
  <2> SUFFICES ASSUME NEW i \in 1 .. Len(t)
               PROVE  Len(s) + i \in 1 .. Len(u) /\ u[Len(s) + i] = t[i]
    OBVIOUS
  <2>1. Len(s) + i \in 1 .. Len(u) /\ ~(Len(s) + i <= Len(s)) /\ (Len(s) + i) - Len(s) = i
    BY <1>1
  <2> QED BY <1>1, <2>1
<1>4. ASSUME NEW j \in 1 .. Len(u)
      PROVE  \/ j \in 1 .. Len(s) /\ u[j] = s[j]
             \/ j - Len(s) \in 1 .. Len(t) /\ u[j] = t[j - Len(s)]
  BY <1>1
<1>5. ASSUME NEW r \in Held PROVE Leaves(u, h, r, g[r])
  <2>1. Leaves(t, f, r, g[r]) /\ Leaves(s, h, r, f[r])
    BY DEF Comes
  <2>2. CASE \E i \in 1 .. Len(t) : /\ t[i][1] = r /\ t[i][2] = g[r]
                                    /\ \A j \in i + 1 .. Len(t) : t[j][1] # r
    <3>1. PICK i \in 1 .. Len(t) : /\ t[i][1] = r /\ t[i][2] = g[r]
                                   /\ \A j \in i + 1 .. Len(t) : t[j][1] # r
      BY <2>2
    <3>2. ASSUME NEW j \in Len(s) + i + 1 .. Len(u) PROVE u[j][1] # r
      <4>1. j \in 1 .. Len(u) /\ j - Len(s) \in i + 1 .. Len(t) /\ j \notin 1 .. Len(s)
        BY <1>1
      <4> QED BY <1>4, <3>1, <4>1
    <3> QED BY <1>3, <3>1, <3>2 DEF Leaves
  <2>3. CASE g[r] = f[r] /\ \A j \in 1 .. Len(t) : t[j][1] # r
    <3>1. CASE \E i \in 1 .. Len(s) : /\ s[i][1] = r /\ s[i][2] = f[r]
                                      /\ \A j \in i + 1 .. Len(s) : s[j][1] # r
      <4>1. PICK i \in 1 .. Len(s) : /\ s[i][1] = r /\ s[i][2] = f[r]
                                     /\ \A j \in i + 1 .. Len(s) : s[j][1] # r
        BY <3>1
      <4>2. ASSUME NEW j \in i + 1 .. Len(u) PROVE u[j][1] # r
        <5>1. j \in 1 .. Len(u) /\ (j \in 1 .. Len(s) => j \in i + 1 .. Len(s))
          BY <1>1
        <5> QED BY <1>4, <2>3, <4>1, <5>1
      <4> QED BY <1>2, <2>3, <4>1, <4>2 DEF Leaves
    <3>2. CASE f[r] = h[r] /\ \A j \in 1 .. Len(s) : s[j][1] # r
      <4>1. \A j \in 1 .. Len(u) : u[j][1] # r
        BY <1>4, <2>3, <3>2
      <4> QED BY <2>3, <3>2, <4>1 DEF Leaves
    <3> QED BY <2>1, <3>1, <3>2 DEF Leaves
  <2> QED BY <2>1, <2>2, <2>3 DEF Leaves
<1> QED BY <1>5 DEF Comes, u

(* After the first write the rest leads to the same end. *)
LEMMA ComesTail ==
  ASSUME NEW s \in Writes, s # <<>>, NEW h, DOMAIN h = Held, NEW g, Comes(s, h, g), NEW k,
         k = [h EXCEPT ![Head(s)[1]] = Head(s)[2]]
  PROVE  Comes(Tail(s), k, g)
<1> DEFINE t == Tail(s)
<1>1. /\ Head(s) = s[1] /\ 1 \in 1 .. Len(s) /\ s[1] \in Held \X Value
      /\ Len(t) = Len(s) - 1 /\ Len(s) \in Nat
      /\ \A i \in 1 .. Len(s) - 1 : t[i] = s[i + 1] /\ i + 1 \in 1 .. Len(s)
  BY HeadTailProperties, EmptySeq, LenProperties, ElementOfSeq DEF Writes
<1>2. \A r \in Held : k[r] = IF r = s[1][1] THEN s[1][2] ELSE h[r]
  BY <1>1
<1> HIDE DEF t
<1>3. \A i \in 1 .. Len(s) : i = 1 \/ (i - 1 \in 1 .. Len(t) /\ t[i - 1] = s[i])
  <2> SUFFICES ASSUME NEW i \in 1 .. Len(s), i # 1
               PROVE  i - 1 \in 1 .. Len(t) /\ t[i - 1] = s[i]
    OBVIOUS
  <2>1. i - 1 \in 1 .. Len(s) - 1 /\ (i - 1) + 1 = i
    BY <1>1
  <2> QED BY <1>1, <2>1
<1>4. ASSUME NEW r \in Held PROVE Leaves(t, k, r, g[r])
  <2>1. Leaves(s, h, r, g[r])
    BY DEF Comes
  <2>2. CASE \E i \in 1 .. Len(s) : /\ s[i][1] = r /\ s[i][2] = g[r]
                                    /\ \A j \in i + 1 .. Len(s) : s[j][1] # r
    <3>1. PICK i \in 1 .. Len(s) : /\ s[i][1] = r /\ s[i][2] = g[r]
                                   /\ \A j \in i + 1 .. Len(s) : s[j][1] # r
      BY <2>2
    <3>2. ASSUME NEW j \in 1 .. Len(t), j + 1 > i PROVE t[j][1] # r
      <4>1. j \in 1 .. Len(s) - 1 /\ j + 1 \in i + 1 .. Len(s)
        BY <1>1, <3>2
      <4> QED BY <1>1, <3>1, <4>1
    <3>3. CASE i = 1
      <4>1. \A j \in 1 .. Len(t) : t[j][1] # r
        BY <1>1, <3>2, <3>3
      <4> QED BY <1>2, <3>1, <3>3, <4>1 DEF Leaves
    <3>4. CASE i # 1
      <4>1. i - 1 \in 1 .. Len(t) /\ t[i - 1] = s[i]
        BY <1>3, <3>4
      <4>2. \A j \in (i - 1) + 1 .. Len(t) : t[j][1] # r
        BY <1>1, <3>2, <4>1
      <4> QED BY <3>1, <4>1, <4>2 DEF Leaves
    <3> QED BY <3>3, <3>4
  <2>3. CASE g[r] = h[r] /\ \A j \in 1 .. Len(s) : s[j][1] # r
    <3>1. k[r] = h[r]
      BY <1>1, <1>2, <2>3
    <3>2. \A j \in 1 .. Len(t) : t[j][1] # r
      BY <1>1, <2>3
    <3> QED BY <2>3, <3>1, <3>2 DEF Leaves
  <2> QED BY <2>1, <2>2, <2>3 DEF Leaves
<1> QED BY <1>4 DEF Comes, t

----------------------------------------------------------------------------
(* Where the calls lead *)

(* Where the writes of a mode lead. *)
LEMMA ModeWritesLead ==
  ASSUME NEW mode, NEW h
  PROVE  \E g : /\ Comes(ModeWrites(mode), h, g)
                /\ g["room"] = IF mode = "auto" THEN Off ELSE On
                /\ (Has("cooling") => g["cooling"] = IF mode = "heat_cool" THEN On ELSE Off)
<1> DEFINE c == IF mode = "heat_cool" THEN On ELSE Off
           r == IF mode = "auto" THEN Off ELSE On
           f == [x \in Held |-> IF x = "cooling" THEN c ELSE h[x]]
           g == [x \in Held |-> IF x = "room" THEN r ELSE f[x]]
           k == [x \in Held |-> IF x = "room" THEN r ELSE h[x]]
<1>1. c \in Value /\ r \in Value /\ "room" \in Held /\ "cooling" \in Held
  BY HeldKnown
<1>2. CASE ~Has("cooling")
  <2>1. ModeWrites(mode) = <<>> \o <<<<"room", r>>>>
    BY <1>2 DEF ModeWrites
  <2>2. k["room"] = r
    BY <1>1
  <2> HIDE DEF c, r
  <2>3. ModeWrites(mode) = <<<<"room", r>>>>
    BY <1>1, <2>1, OneWrite, NoWrite
  <2>4. Comes(ModeWrites(mode), h, k)
    BY <1>1, <2>3, ComesOne
  <2> QED BY <1>2, <2>2, <2>4 DEF r
<1>3. CASE Has("cooling")
  <2>1. ModeWrites(mode) = <<<<"cooling", c>>>> \o <<<<"room", r>>>>
    BY <1>3 DEF ModeWrites
  <2> HIDE DEF c, r
  <2>2. Comes(<<<<"cooling", c>>>>, h, f) /\ Comes(<<<<"room", r>>>>, f, g)
    BY <1>1, ComesOne
  <2>3. g["room"] = r /\ g["cooling"] = c
    BY <1>1
  <2> HIDE DEF f, g
  <2>4. Comes(ModeWrites(mode), h, g)
    BY <1>1, <2>1, <2>2, OneWrite, ComesThen
  <2> QED BY <1>3, <2>3, <2>4 DEF c, r
<1> QED BY <1>2, <1>3

(* Where the writes of a setpoint lead. *)
LEMMA SetpointWritesLead ==
  ASSUME NEW d \in Degrees, NEW h
  PROVE  \E g : /\ Comes(SetpointWrites(d), h, g)
                /\ g["setpoint"] = d /\ (Has("zone") => g["zone"] = d)
                /\ g["room"] = h["room"] /\ g["cooling"] = h["cooling"]
<1> DEFINE f == [x \in Held |-> IF x = "setpoint" THEN d ELSE h[x]]
           g == [x \in Held |-> IF x = "zone" THEN d ELSE f[x]]
<1>1. d \in Value /\ {"setpoint", "zone", "room", "cooling"} \subseteq Held
  BY HeldKnown
<1>2. /\ f["setpoint"] = d /\ f["room"] = h["room"] /\ f["cooling"] = h["cooling"]
      /\ g["setpoint"] = d /\ g["zone"] = d /\ g["room"] = h["room"]
      /\ g["cooling"] = h["cooling"]
  BY <1>1
<1>3. Comes(<<<<"setpoint", d>>>>, h, f) /\ Comes(<<<<"zone", d>>>>, f, g)
  BY <1>1, ComesOne
<1> HIDE DEF f, g
<1>4. CASE Has("zone")
  <2>1. SetpointWrites(d) = <<<<"setpoint", d>>>> \o <<<<"zone", d>>>>
    BY <1>4 DEF SetpointWrites
  <2>2. Comes(SetpointWrites(d), h, g)
    BY <1>1, <1>3, <2>1, OneWrite, ComesThen
  <2> QED BY <1>2, <2>2
<1>5. CASE ~Has("zone")
  <2>1. SetpointWrites(d) = <<<<"setpoint", d>>>> \o <<>>
    BY <1>5 DEF SetpointWrites
  <2>2. SetpointWrites(d) = <<<<"setpoint", d>>>>
    BY <1>1, <2>1, OneWrite, NoWrite
  <2> QED BY <1>2, <1>3, <1>5, <2>2
<1> QED BY <1>4, <1>5

(* The mode shown depends on room sensor and cooling alone. *)
LEMMA ModeIs ==
  ASSUME NEW F, NEW h, NEW g, g["room"] = h["room"], g["cooling"] = h["cooling"]
  PROVE  ModeOf(F, g) = ModeOf(F, h)
BY DEF ModeOf

(* What registers stand for, on the pump there is. *)
LEMMA HvacModeIs ==
  /\ \A h : ModeIn(h) = ModeOf(fit, h) /\ OperationIn(h) = OperationOf(fit, h)
  /\ HvacMode = ModeOf(fit, shows)
<1>1. ASSUME NEW h PROVE ModeIn(h) = ModeOf(fit, h) /\ OperationIn(h) = OperationOf(fit, h)
  BY DEF ModeIn, ModeOf, OperationIn, OperationOf, BoostingIn, Boost, Has
<1> QED BY <1>1 DEF HvacMode

(* Without a call nothing is asked or left to write. *)
LEMMA NoCallIs ==
  /\ NoCall.asked = "none" /\ NoCall.writes = <<>> /\ NoCall.target = Off
  /\ ~NoCall.raises /\ ~NoCall.touched
  /\ \A F, h : Fulfils(F, NoCall.asked, NoCall.target, h)
BY DEF NoCall, Fulfils, Modes, HotModes

----------------------------------------------------------------------------
(* The invariant holds at the start. *)
LEMMA MeantStarts ==
  ComfortInit => MeantInv
<1> SUFFICES ASSUME ComfortInit PROVE MeantInv
  OBVIOUS
<1>1. call = NoCall /\ meant = NoCall /\ shows = holds /\ DOMAIN holds = Held
  BY DEF ComfortInit
<1> QED BY <1>1, NoCallIs DEF MeantInv

(* A call whose writes lead to what it asks keeps it. *)
LEMMA BeginsMeans ==
  ASSUME MeantInv, NEW asked, NEW target, NEW writes, NEW raises, NEW goesBy,
         Begins(asked, target, writes, raises, goesBy),
         ~raises /\ (\A r \in goesBy : shows[r] = holds[r]) =>
           Will(fit, asked, target, writes, shows) /\ Will(fit, asked, target, writes, holds)
  PROVE  MeantInv'
<1>1. /\ call' = [asked |-> asked, target |-> target, writes |-> writes, raises |-> raises,
                  touched |-> \E r \in goesBy : shows[r] # holds[r]]
      /\ meant' = NoCall /\ UNCHANGED <<fit, holds, shows>> /\ late' = FALSE
  BY DEF Begins
<1>2. /\ call'.asked = asked /\ call'.target = target /\ call'.writes = writes
      /\ call'.raises = raises /\ call'.touched = \E r \in goesBy : shows[r] # holds[r]
  BY <1>1
<1> QED BY <1>1, <1>2, NoCallIs DEF MeantInv

(* Choosing a mode is such a call. *)
LEMMA HvacMeans ==
  ASSUME MeantInv, NEW mode, SetHvacMode(mode)
  PROVE  MeantInv'
<1> DEFINE writes == IF Refused(mode) THEN <<>> ELSE ModeWrites(mode)
<1>1. /\ Begins(mode, Off, writes, Refused(mode), {})
      /\ mode \in {"auto", "heat"} \/ (mode = "heat_cool" /\ Has("cooling"))
      /\ mode \notin HotModes \union {"boost"}
  BY DEF SetHvacMode, HvacModes, HotModes, HvacMode, ModeIn
<1>2. ASSUME ~Refused(mode), NEW h PROVE Will(fit, mode, Off, writes, h)
  <2>1. PICK g : /\ Comes(ModeWrites(mode), h, g)
                 /\ g["room"] = IF mode = "auto" THEN Off ELSE On
                 /\ Has("cooling") => g["cooling"] = IF mode = "heat_cool" THEN On ELSE Off
    BY ModeWritesLead
  <2>2. ModeOf(fit, g) = mode
    BY <1>1, <2>1 DEF ModeOf, Has, On, Off
  <2> QED BY <1>1, <1>2, <2>1, <2>2 DEF Will, Fulfils
<1> HIDE DEF writes
<1> QED BY <1>1, <1>2, BeginsMeans

(* So is a setpoint after other writes. *)
LEMMA SetpointMeans ==
  ASSUME NEW writes \in Writes, NEW d \in Degrees, NEW h, NEW f, Comes(writes, h, f)
  PROVE  Will(fit, ModeOf(fit, f), d, writes \o SetpointWrites(d), h)
<1>1. PICK g : /\ Comes(SetpointWrites(d), f, g)
               /\ g["setpoint"] = d /\ (Has("zone") => g["zone"] = d)
               /\ g["room"] = f["room"] /\ g["cooling"] = f["cooling"]
  BY SetpointWritesLead
<1>2. Comes(writes \o SetpointWrites(d), h, g)
  BY <1>1, SetpointWritesPlain, ComesThen
<1>3. ModeOf(fit, g) = ModeOf(fit, f)
  BY <1>1, ModeIs
<1>4. ModeOf(fit, f) \notin HotModes \union {"boost"}
  BY DEF ModeOf, HotModes
<1> QED BY <1>1, <1>2, <1>3, <1>4 DEF Will, Fulfils, Has

(* So is choosing a temperature, with a mode or without. *)
LEMMA TemperatureMeans ==
  ASSUME MeantInv, NEW mode, NEW degrees \in Degrees, SetTemperature(mode, degrees)
  PROVE  MeantInv'
<1> DEFINE writes == IF mode = "none" THEN <<>> ELSE ModeWrites(mode)
           meets == IF mode = "none" THEN HvacMode ELSE mode
           both == writes \o SetpointWrites(degrees)
           goesBy == IF mode = "none" THEN {"room", "cooling"} ELSE {}
<1>1. \/ Begins("none", Off, <<>>, TRUE, {})
      \/ Begins(mode, Off, writes, TRUE, {})
      \/ Begins("heat", degrees, both, FALSE, goesBy) /\ meets = "heat"
  BY DEF SetTemperature
<1>2. ASSUME meets = "heat", \A r \in goesBy : shows[r] = holds[r], NEW h \in {shows, holds}
      PROVE  Will(fit, "heat", degrees, both, h)
  <2>1. CASE mode = "none"
    <3>1. both = <<>> \o SetpointWrites(degrees) /\ Comes(<<>>, h, h)
      BY <2>1, ComesNone
    <3>2. h["room"] = shows["room"] /\ h["cooling"] = shows["cooling"]
      BY <1>2, <2>1
    <3>3. ModeOf(fit, h) = "heat"
      BY <1>2, <2>1, <3>2, HvacModeIs, ModeIs
    <3> HIDE DEF both
    <3> QED BY <3>1, <3>3, NoWrite, SetpointMeans
  <2>2. CASE mode # "none"
    <3>1. both = ModeWrites("heat") \o SetpointWrites(degrees)
      BY <1>2, <2>2
    <3>2. PICK g : /\ Comes(ModeWrites("heat"), h, g)
                   /\ g["room"] = On
                   /\ Has("cooling") => g["cooling"] = Off
      BY ModeWritesLead
    <3>3. ModeOf(fit, g) = "heat"
      BY <3>2 DEF ModeOf, Has, On, Off
    <3> HIDE DEF both
    <3> QED BY <3>1, <3>2, <3>3, ModeWritesSafe, SetpointMeans
  <2> QED BY <2>1, <2>2
<1> HIDE DEF writes, meets, both, goesBy
<1>3. CASE Begins("none", Off, <<>>, TRUE, {})
  BY <1>3, BeginsMeans
<1>4. CASE Begins(mode, Off, writes, TRUE, {})
  BY <1>4, BeginsMeans
<1>5. CASE Begins("heat", degrees, both, FALSE, goesBy) /\ meets = "heat"
  BY <1>2, <1>5, BeginsMeans
<1> QED BY <1>1, <1>3, <1>4, <1>5

(* So is choosing a range, with a mode or without. *)
LEMMA RangeMeans ==
  ASSUME MeantInv, NEW mode, NEW low \in Degrees, SetRange(mode, low)
  PROVE  MeantInv'
<1> DEFINE s == SetpointWrites(low)
           last == <<<<"cool setpoint", Set>>>>
           ends == Append(s, <<"cool setpoint", Set>>)
           both == ModeWrites(mode) \o ends
<1>1. \/ mode = "none" /\ Begins(HvacMode, low, ends, FALSE, {"room", "cooling"})
      \/ Begins("none", Off, <<>>, TRUE, {})
      \/ /\ mode \in {"auto", "heat"} \/ (mode = "heat_cool" /\ Has("cooling"))
         /\ Begins(mode, low, both, FALSE, {})
  BY DEF SetRange, HvacModes, HvacMode, ModeIn
<1>2. ends = s \o last /\ s \in Writes /\ last \in Writes /\ ends \in Writes
  <2>1. s \in Writes /\ Plain(s) /\ "cool setpoint" \in Held /\ Set \in Value
    BY SetpointWritesPlain, HeldKnown
  <2>2. <<"cool setpoint", Set>> \in Held \X Value
    BY <2>1
  <2> HIDE DEF s
  <2>3. ends = s \o last
    BY <2>1, <2>2, AppendIsConcat DEF Writes
  <2>4. ends \in Writes
    BY <2>1, <2>2, AppendProperties DEF Writes
  <2> QED BY <2>1, <2>3, <2>4, OneWrite
<1>3. ASSUME NEW h
      PROVE  \E g : /\ Comes(ends, h, g)
                    /\ Fulfils(fit, ModeOf(fit, h), low, g)
  <2>1. PICK f : /\ Comes(s, h, f)
                 /\ f["setpoint"] = low /\ (Has("zone") => f["zone"] = low)
                 /\ f["room"] = h["room"] /\ f["cooling"] = h["cooling"]
    BY SetpointWritesLead
  <2> DEFINE g == [x \in Held |-> IF x = "cool setpoint" THEN Set ELSE f[x]]
  <2>2. Comes(last, f, g)
    BY ComesOne, HeldKnown
  <2>3. /\ g["setpoint"] = low /\ (Has("zone") => g["zone"] = low)
        /\ g["room"] = h["room"] /\ g["cooling"] = h["cooling"]
    BY <2>1, HeldKnown
  <2> HIDE DEF g, s, last, ends
  <2>4. Comes(ends, h, g)
    BY <1>2, <2>1, <2>2, ComesThen
  <2>5. ModeOf(fit, g) = ModeOf(fit, h)
    BY <2>3, ModeIs
  <2>6. ModeOf(fit, h) \notin HotModes \union {"boost"}
    BY DEF ModeOf, HotModes
  <2> QED BY <2>3, <2>4, <2>5, <2>6 DEF Fulfils, Has
<1> HIDE DEF s, last, ends
<1>4. ASSUME \A r \in {"room", "cooling"} : shows[r] = holds[r], NEW h \in {shows, holds}
      PROVE  Will(fit, HvacMode, low, ends, h)
  <2>1. h["room"] = shows["room"] /\ h["cooling"] = shows["cooling"]
    BY <1>4
  <2>2. HvacMode = ModeOf(fit, h)
    BY <2>1, HvacModeIs, ModeIs
  <2> QED BY <1>3, <2>2 DEF Will
<1>5. ASSUME mode \in {"auto", "heat"} \/ (mode = "heat_cool" /\ Has("cooling")), NEW h
      PROVE  Will(fit, mode, low, both, h)
  <2>1. PICK f : /\ Comes(ModeWrites(mode), h, f)
                 /\ f["room"] = IF mode = "auto" THEN Off ELSE On
                 /\ Has("cooling") => f["cooling"] = IF mode = "heat_cool" THEN On ELSE Off
    BY ModeWritesLead
  <2>2. ModeOf(fit, f) = mode
    BY <1>5, <2>1 DEF ModeOf, Has, On, Off
  <2>3. PICK g : Comes(ends, f, g) /\ Fulfils(fit, mode, low, g)
    BY <1>3, <2>2
  <2>4. Comes(both, h, g)
    BY <1>2, <2>1, <2>3, ModeWritesSafe, ComesThen
  <2> QED BY <2>3, <2>4 DEF Will
<1> HIDE DEF both
<1>6. CASE Begins(HvacMode, low, ends, FALSE, {"room", "cooling"})
  BY <1>4, <1>6, BeginsMeans
<1>7. CASE Begins("none", Off, <<>>, TRUE, {})
  BY <1>7, BeginsMeans
<1>8. CASE /\ mode \in {"auto", "heat"} \/ (mode = "heat_cool" /\ Has("cooling"))
           /\ Begins(mode, low, both, FALSE, {})
  BY <1>5, <1>8, BeginsMeans
<1> QED BY <1>1, <1>6, <1>7, <1>8

(* So is choosing a hot water operation. *)
LEMMA OperationMeans ==
  ASSUME MeantInv, NEW operation \in HotModes \union {"boost"}, SetOperationMode(operation)
  PROVE  MeantInv'
<1> DEFINE writes == OperationWrites(operation)
<1>1. Begins(operation, Off, writes, FALSE, {"boost"}) /\ (operation = "boost" => Has("boost"))
  BY DEF SetOperationMode
<1>2. /\ "boost" \in Held /\ "water" \in Held /\ {Off, On} \subseteq Value
      /\ Boost.register = "boost" /\ Boost.on = On /\ Boost.off = Off /\ On # Off
      /\ (operation # "boost" => operation \in Value)
      /\ operation \notin Modes
  <2>1. operation # "boost" => operation \in Value
    BY HeldKnown
  <2>2. operation \notin Modes
    BY DEF Modes, HotModes
  <2>3. Boost.register = "boost" /\ Boost.on = On /\ Boost.off = Off /\ On # Off
    BY DEF Boost, On, Off
  <2>4. "boost" \in Held /\ "water" \in Held /\ {Off, On} \subseteq Value
    BY HeldKnown
  <2> QED BY <2>1, <2>2, <2>3, <2>4
<1>3. ASSUME shows["boost"] = holds["boost"], NEW h \in {shows, holds}
      PROVE  \E g : Comes(writes, h, g) /\ OperationOf(fit, g) = operation
  <2>0. h["boost"] = shows["boost"]
    BY <1>3
  <2>1. CASE operation = "boost"
    <3> DEFINE g == [x \in Held |-> IF x = "boost" THEN On ELSE h[x]]
    <3>1. Comes(writes, h, g)
      BY <1>2, <2>1, ComesOne DEF OperationWrites
    <3>2. g["boost"] = On
      BY <1>2
    <3> HIDE DEF g
    <3>3. OperationOf(fit, g) = operation
      BY <1>1, <1>2, <2>1, <3>2 DEF OperationOf, Has
    <3> QED BY <3>1, <3>3
  <2>2. CASE operation # "boost" /\ Boosting
    <3> DEFINE f == [x \in Held |-> IF x = "boost" THEN Off ELSE h[x]]
               g == [x \in Held |-> IF x = "water" THEN operation ELSE f[x]]
    <3>1. writes = <<<<"boost", Off>>>> \o <<<<"water", operation>>>>
      BY <1>2, <2>2 DEF OperationWrites
    <3>2. Comes(<<<<"boost", Off>>>>, h, f) /\ Comes(<<<<"water", operation>>>>, f, g)
      BY <1>2, <2>2, ComesOne
    <3>3. g["water"] = operation /\ g["boost"] = Off
      BY <1>2
    <3> HIDE DEF f, g, writes
    <3>4. Comes(writes, h, g)
      BY <1>2, <2>2, <3>1, <3>2, OneWrite, ComesThen
    <3>5. OperationOf(fit, g) = operation
      BY <3>3 DEF OperationOf
    <3> QED BY <3>4, <3>5
  <2>3. CASE operation # "boost" /\ ~Boosting
    <3> DEFINE g == [x \in Held |-> IF x = "water" THEN operation ELSE h[x]]
    <3>1. writes = <<>> \o <<<<"water", operation>>>>
      BY <2>3 DEF OperationWrites
    <3>2. Comes(<<<<"water", operation>>>>, h, g)
      BY <1>2, <2>3, ComesOne
    <3>3. g["water"] = operation /\ g["boost"] = h["boost"]
      BY <1>2
    <3> HIDE DEF g, writes
    <3>4. Comes(writes, h, g)
      BY <1>2, <2>3, <3>1, <3>2, OneWrite, NoWrite
    <3>5. OperationOf(fit, g) = operation
      BY <1>2, <2>0, <2>3, <3>3 DEF OperationOf, Boosting, BoostingIn, Has
    <3> QED BY <3>4, <3>5
  <2> QED BY <2>1, <2>2, <2>3
<1> HIDE DEF writes
<1>4. ASSUME shows["boost"] = holds["boost"], NEW h \in {shows, holds}
      PROVE  Will(fit, operation, Off, writes, h)
  BY <1>2, <1>3, <1>4 DEF Will, Fulfils
<1> QED BY <1>1, <1>4, BeginsMeans

(* A plain entity's write keeps it too: it marks the call it runs beside. *)
LEMMA PlainMeans ==
  ASSUME MeantInv, NEW r \in Held, NEW v \in ValuesOf(r), PlainWrite(r, v)
  PROVE  MeantInv'
<1>1. Begins("plain", Off, <<<<r, v>>>>, FALSE, {})
  BY DEF PlainWrite
<1>2. ASSUME NEW h PROVE Will(fit, "plain", Off, <<<<r, v>>>>, h)
  <2>1. v \in Value
    BY HeldKnown
  <2>2. \E g : Comes(<<<<r, v>>>>, h, g)
    BY <2>1, ComesOne
  <2> QED BY <2>2 DEF Will, Fulfils, Modes, HotModes
<1> QED BY <1>1, <1>2, BeginsMeans

(* One write of a call keeps it: the rest still leads to what was asked. *)
LEMMA WrittenMeans ==
  ASSUME CoolInv, MeantInv, Written
  PROVE  MeantInv'
<1>1. /\ call.writes # <<>> /\ call.writes \in Writes /\ UNCHANGED <<fit, late, meant>>
      /\ holds' = [holds EXCEPT ![Head(call.writes)[1]] = Head(call.writes)[2]]
      /\ shows' = [shows EXCEPT ![Head(call.writes)[1]] = Head(call.writes)[2]]
      /\ call' = [call EXCEPT !.writes = Tail(@)]
      /\ DOMAIN shows = Held /\ DOMAIN holds = Held
  BY DEF Written, Changes, CoolInv, WritesTyped, MeantInv
<1>2. call # NoCall /\ meant = NoCall
  BY <1>1, NoCallIs DEF MeantInv
<1>3. /\ call'.asked = call.asked /\ call'.target = call.target
      /\ call'.raises = call.raises /\ call'.touched = call.touched
      /\ call'.writes = Tail(call.writes) /\ DOMAIN shows' = Held
  BY <1>1 DEF CoolInv, WritesTyped
<1>4. ASSUME NEW F, NEW asked, NEW target, NEW h, DOMAIN h = Held, NEW k,
             k = [h EXCEPT ![Head(call.writes)[1]] = Head(call.writes)[2]],
             Will(F, asked, target, call.writes, h)
      PROVE  Will(F, asked, target, Tail(call.writes), k)
  BY <1>1, <1>4, ComesTail DEF Will
<1>5. ~call.raises /\ ~call.touched =>
        /\ late \/ Will(fit, call.asked, call.target, call.writes, shows)
        /\ Will(fit, call.asked, call.target, call.writes, holds)
  BY <1>2 DEF MeantInv
<1>6. ~call.raises /\ ~call.touched =>
        /\ late \/ Will(fit, call.asked, call.target, Tail(call.writes), shows')
        /\ Will(fit, call.asked, call.target, Tail(call.writes), holds')
  BY <1>1, <1>4, <1>5
<1> QED BY <1>1, <1>2, <1>3, <1>6, NoCallIs DEF MeantInv

(* The end of a call keeps it. *)
LEMMA EndsMeans ==
  ASSUME MeantInv, Ends
  PROVE  MeantInv'
<1>1. /\ call # NoCall /\ call.writes = <<>> /\ call' = NoCall
      /\ meant' = IF call.raises \/ call.touched THEN NoCall ELSE call
      /\ UNCHANGED <<fit, holds, shows, late>>
  BY DEF Ends
<1>2. ASSUME NEW F, NEW asked, NEW target, NEW h, Will(F, asked, target, <<>>, h)
      PROVE  Fulfils(F, asked, target, h)
  BY <1>2, ComesNone, FulfilsAlike DEF Will
<1>3. ~call.raises /\ ~call.touched =>
        /\ late \/ Fulfils(fit, call.asked, call.target, shows)
        /\ Fulfils(fit, call.asked, call.target, holds)
  BY <1>1, <1>2 DEF MeantInv
<1> QED BY <1>1, <1>3, NoCallIs DEF MeantInv

(* Every step keeps it. *)
LEMMA MeantSteps ==
  ASSUME CoolInv, MeantInv, [ComfortNext]_comfortVars
  PROVE  MeantInv'
<1>1. CASE Written
  BY <1>1, WrittenMeans
<1>2. CASE Ends
  BY <1>2, EndsMeans
<1>3. CASE Polled
  <2>1. /\ DOMAIN shows' = Held /\ (late' \/ shows' = holds')
        /\ UNCHANGED <<fit, holds, call, meant>>
    BY <1>3 DEF Polled
  <2> QED BY <2>1 DEF MeantInv
<1>4. ASSUME NEW keeps \in BOOLEAN, WriteFails(keeps) PROVE MeantInv'
  <2>1. call.writes # <<>> /\ call' = NoCall /\ UNCHANGED <<fit, shows, late, meant>>
    BY <1>4 DEF WriteFails
  <2>2. meant = NoCall
    BY <2>1, NoCallIs DEF MeantInv
  <2> QED BY <2>1, <2>2, NoCallIs DEF MeantInv
<1>5. ASSUME NEW mode, SetHvacMode(mode) PROVE MeantInv'
  BY <1>5, HvacMeans
<1>6. ASSUME NEW mode, NEW degrees \in Degrees, SetTemperature(mode, degrees) PROVE MeantInv'
  BY <1>6, TemperatureMeans
<1>7. ASSUME NEW mode, NEW low \in Degrees, SetRange(mode, low) PROVE MeantInv'
  BY <1>7, RangeMeans
<1>8. ASSUME NEW operation \in HotModes \union {"boost"}, SetOperationMode(operation)
      PROVE  MeantInv'
  BY <1>8, OperationMeans
<1>9. ASSUME NEW r \in Held, NEW v \in ValuesOf(r), PlainWrite(r, v) PROVE MeantInv'
  BY <1>9, PlainMeans
<1>10. ASSUME NEW r \in Held, NEW v \in ValuesOf(r), Touched(r, v) PROVE MeantInv'
  <2>1. /\ call' = IF call = NoCall THEN call ELSE [call EXCEPT !.touched = TRUE]
        /\ meant' = NoCall /\ UNCHANGED <<fit, shows, late>>
    BY <1>10 DEF Touched
  <2>2. call' = NoCall \/ call'.touched
    BY <2>1 DEF CoolInv, WritesTyped
  <2> QED BY <2>1, <2>2, NoCallIs DEF MeantInv
<1>11. CASE UNCHANGED comfortVars
  BY <1>11 DEF comfortVars, MeantInv
<1>12. ASSUME ComfortNext PROVE MeantInv'
  <2>1. CASE Written \/ Ends \/ Polled
    BY <1>1, <1>2, <1>3, <2>1
  <2>2. CASE \E keeps \in BOOLEAN : WriteFails(keeps)
    BY <1>4, <2>2
  <2>3. CASE \E mode \in Modes : SetHvacMode(mode)
    BY <1>5, <2>3
  <2>4. CASE \E mode \in Modes \union {"none"}, degrees \in Degrees : SetTemperature(mode, degrees)
    BY <1>6, <2>4
  <2>5. CASE \E mode \in Modes \union {"none"}, low \in Degrees : SetRange(mode, low)
    BY <1>7, <2>5
  <2>6. CASE \E operation \in HotModes \union {"boost"} : SetOperationMode(operation)
    BY <1>8, <2>6
  <2>7. CASE \E r \in Held : \E v \in ValuesOf(r) : PlainWrite(r, v) \/ Touched(r, v)
    BY <1>9, <1>10, <2>7
  <2> QED BY <1>12, <2>1, <2>2, <2>3, <2>4, <2>5, <2>6, <2>7 DEF ComfortNext
<1> QED BY <1>11, <1>12

(* Where it holds, a call that ended well left the pump as it asked, and   *)
(* that is shown.                                                          *)
LEMMA MeantInvShows ==
  MeantInv => ShownIsMeant
<1> SUFFICES ASSUME MeantInv PROVE ShownIsMeant
  OBVIOUS
<1>1. ASSUME NEW h, Fulfils(fit, meant.asked, meant.target, h) PROVE MeantIn(h)
  <2>1. "zone" \in Writable => "zone" \in fit
    BY DEF Writable, Has
  <2>2. ModeIn(h) = ModeOf(fit, h) /\ OperationIn(h) = OperationOf(fit, h)
    BY HvacModeIs
  <2>3. meant.asked \in Modes => meant.asked \notin HotModes \union {"boost"}
    BY DEF Modes, HotModes
  <2> QED BY <1>1, <2>1, <2>2, <2>3 DEF Fulfils, MeantIn
<1> QED BY <1>1 DEF MeantInv, ShownIsMeant

(* A call that ended undisturbed left the pump as it asked, through any    *)
(* other calls, refreshes and hands before it, on any pump, and that is    *)
(* shown unless a refresh has published what it read before the call       *)
(* changed it (climate.async_set_hvac_mode, async_set_temperature,         *)
(* water_heater.async_set_operation_mode beside                            *)
(* NibeCoordinator._async_update_data).                                    *)
THEOREM CallsMeanWhatTheyShow == ComfortSpec => []ShownIsMeant
<1>1. CoolInv /\ [ComfortNext]_comfortVars => CoolInv'
  BY StepCools
<1>2. CoolInv /\ MeantInv /\ [ComfortNext]_comfortVars => MeantInv'
  BY MeantSteps
<1> QED BY CoolInvInit, MeantStarts, MeantInvShows, <1>1, <1>2, PTL DEF ComfortSpec

----------------------------------------------------------------------------
(* What is written is a value of its register *)

Offered == {w \in Held \X Value : w[2] \in ValuesOf(w[1])}

(* Every register holds and shows one of its values, and a call has only   *)
(* such values left to write.                                              *)
ValuesTyped ==
  /\ fit \in Fits
  /\ DOMAIN holds = Held /\ DOMAIN shows = Held
  /\ \A r \in Held : holds[r] \in ValuesOf(r) /\ shows[r] \in ValuesOf(r)
  /\ \A r \in DOMAIN outdated : r \in Held /\ outdated[r] \in ValuesOf(r)
  /\ late \in BOOLEAN
  /\ DOMAIN call = {"asked", "target", "writes", "raises", "touched"}
  /\ call.writes \in Seq(Offered)

(* Sequences of such writes, put together. *)
LEMMA OfferedWrites ==
  /\ <<>> \in Seq(Offered)
  /\ \A r \in Held : \A v \in ValuesOf(r) : <<<<r, v>>>> \in Seq(Offered)
  /\ \A s, t \in Seq(Offered) : s \o t \in Seq(Offered)
<1>1. ASSUME NEW r \in Held, NEW v \in ValuesOf(r) PROVE <<<<r, v>>>> \in Seq(Offered)
  <2>1. <<r, v>> \in Offered
    BY <1>1, HeldKnown DEF Offered
  <2> QED BY <2>1
<1>2. \A s, t \in Seq(Offered) : s \o t \in Seq(Offered)
  BY ConcatProperties
<1> QED BY <1>1, <1>2

(* The values of the registers by name. *)
LEMMA ValuesKnown ==
  /\ \A r \in {"room", "cooling", "boost"} : r \in Held /\ ValuesOf(r) = {Off, On}
  /\ \A r \in {"setpoint", "zone"} : r \in Held /\ ValuesOf(r) = Degrees
  /\ "water" \in Held /\ ValuesOf("water") = HotModes
  /\ "cool setpoint" \in Held /\ ValuesOf("cool setpoint") = {Set}
  /\ Held = {"room", "cooling", "boost", "setpoint", "zone", "cool setpoint", "water"}
  /\ \A r \in Held : ValuesOf(r) # {}
BY ComfortAssumption DEF Held, Switches, Setpoints, ValuesOf, HotModes

(* Every call writes such values. *)
LEMMA CallsOffered ==
  /\ \A mode : ModeWrites(mode) \in Seq(Offered)
  /\ \A d \in Degrees : SetpointWrites(d) \in Seq(Offered)
  /\ \A o \in HotModes \union {"boost"} : OperationWrites(o) \in Seq(Offered)
<1>1. ASSUME NEW mode PROVE ModeWrites(mode) \in Seq(Offered)
  <2> DEFINE cooling == IF mode = "heat_cool" THEN On ELSE Off
             room == IF mode = "auto" THEN Off ELSE On
             first == IF Has("cooling") THEN <<<<"cooling", cooling>>>> ELSE <<>>
             last == <<<<"room", room>>>>
  <2>1. first \in Seq(Offered) /\ last \in Seq(Offered)
    <3>1. cooling \in {Off, On} /\ room \in {Off, On}
      OBVIOUS
    <3> HIDE DEF cooling, room
    <3> QED BY <3>1, ValuesKnown, OfferedWrites
  <2>2. ModeWrites(mode) = first \o last
    BY DEF ModeWrites
  <2> HIDE DEF first, last
  <2> QED BY <2>1, <2>2, OfferedWrites
<1>2. ASSUME NEW d \in Degrees PROVE SetpointWrites(d) \in Seq(Offered)
  <2> DEFINE first == <<<<"setpoint", d>>>>
             last == IF Has("zone") THEN <<<<"zone", d>>>> ELSE <<>>
  <2>1. first \in Seq(Offered) /\ last \in Seq(Offered)
    BY ValuesKnown, OfferedWrites
  <2>2. SetpointWrites(d) = first \o last
    BY DEF SetpointWrites
  <2> HIDE DEF first, last
  <2> QED BY <2>1, <2>2, OfferedWrites
<1>3. ASSUME NEW o \in HotModes \union {"boost"} PROVE OperationWrites(o) \in Seq(Offered)
  <2>0. Boost.register = "boost" /\ Boost.on = On /\ Boost.off = Off
    BY DEF Boost
  <2>1. CASE o = "boost"
    <3>1. OperationWrites(o) = <<<<"boost", On>>>>
      BY <2>0, <2>1 DEF OperationWrites
    <3> QED BY <3>1, ValuesKnown, OfferedWrites
  <2>2. CASE o # "boost"
    <3> DEFINE first == IF Boosting THEN <<<<"boost", Off>>>> ELSE <<>>
               last == <<<<"water", o>>>>
    <3>1. first \in Seq(Offered) /\ last \in Seq(Offered)
      BY <2>2, ValuesKnown, OfferedWrites
    <3>2. OperationWrites(o) = first \o last
      BY <2>0, <2>2 DEF OperationWrites
    <3> HIDE DEF first, last
    <3> QED BY <3>1, <3>2, OfferedWrites
  <2> QED BY <2>1, <2>2
<1> QED BY <1>1, <1>2, <1>3

(* Before any call every register has one of its values. *)
LEMMA ValuesInit == ComfortInit => ValuesTyped
<1> SUFFICES ASSUME ComfortInit PROVE ValuesTyped
  OBVIOUS
<1>1. \A r \in Held : (CHOOSE v \in ValuesOf(r) : TRUE) \in ValuesOf(r)
  BY ValuesKnown
<1>2. /\ fit \in Fits /\ shows = holds /\ call = NoCall
      /\ outdated = <<>> /\ late = FALSE /\ DOMAIN <<>> = {}
      /\ holds = [r \in Held |-> CHOOSE v \in ValuesOf(r) : TRUE]
  BY DEF ComfortInit
<1>3. call.writes = <<>> /\ DOMAIN call = {"asked", "target", "writes", "raises", "touched"}
  BY <1>2 DEF NoCall
<1> QED BY <1>1, <1>2, <1>3, OfferedWrites DEF ValuesTyped

(* A register that becomes one of its values keeps them, and what was read *)
(* before.                                                                 *)
LEMMA ChangesTyped ==
  ASSUME ValuesTyped, NEW r \in Held, NEW v \in ValuesOf(r), Changes(r, v)
  PROVE  /\ DOMAIN holds' = Held /\ \A q \in Held : holds'[q] \in ValuesOf(q)
         /\ \A q \in DOMAIN outdated' : q \in Held /\ outdated'[q] \in ValuesOf(q)
<1> USE DEF ValuesTyped
<1>1. holds' = [holds EXCEPT ![r] = v]
  BY DEF Changes
<1>2. PICK old \in SUBSET (DOMAIN outdated \union {r}) :
        outdated' = [q \in old |-> IF q \in DOMAIN outdated THEN outdated[q] ELSE holds[q]]
  BY DEF Changes
<1> QED BY <1>1, <1>2

(* No call, finished or broken off, no poll and no hand at the panel gives *)
(* a register a value that is none of its own.                             *)
LEMMA ValuesNext == ValuesTyped /\ [ComfortNext]_comfortVars => ValuesTyped'
<1> SUFFICES ASSUME ValuesTyped, [ComfortNext]_comfortVars PROVE ValuesTyped'
  OBVIOUS
<1> USE DEF ValuesTyped
<1>1. ASSUME NEW asked, NEW target, NEW writes \in Seq(Offered), NEW raises, NEW goesBy,
             Begins(asked, target, writes, raises, goesBy)
      PROVE  ValuesTyped'
  <2>1. /\ call'.writes = writes
        /\ DOMAIN call' = {"asked", "target", "writes", "raises", "touched"}
    BY <1>1 DEF Begins
  <2> QED BY <1>1, <2>1 DEF Begins
<1>2. call.writes # <<>> =>
        /\ Head(call.writes)[1] \in Held
        /\ Head(call.writes)[2] \in ValuesOf(Head(call.writes)[1])
        /\ Tail(call.writes) \in Seq(Offered)
  BY HeadTailProperties DEF Offered
<1>3. NoCall.writes = <<>> /\ <<>> \in Seq(Offered)
      /\ DOMAIN NoCall = {"asked", "target", "writes", "raises", "touched"}
  BY OfferedWrites DEF NoCall
<1>4. CASE Written
  <2>1. /\ call'.writes = Tail(call.writes) /\ call.writes # <<>> /\ fit' = fit /\ late' = late
        /\ DOMAIN call' = DOMAIN call
        /\ Changes(Head(call.writes)[1], Head(call.writes)[2])
    BY <1>4 DEF Written
  <2>2. DOMAIN shows' = Held /\ \A r \in Held : shows'[r] \in ValuesOf(r)
    BY <1>2, <1>4 DEF Written
  <2> QED BY <1>2, <2>1, <2>2, ChangesTyped
<1>5. ASSUME NEW keeps \in BOOLEAN, WriteFails(keeps) PROVE ValuesTyped'
  <2>1. /\ call' = NoCall /\ fit' = fit /\ shows' = shows /\ late' = late /\ call.writes # <<>>
        /\ \/ UNCHANGED <<holds, outdated>>
           \/ Changes(Head(call.writes)[1], Head(call.writes)[2])
    BY <1>5 DEF WriteFails
  <2>2. CASE UNCHANGED <<holds, outdated>>
    BY <1>3, <2>1, <2>2
  <2>3. CASE Changes(Head(call.writes)[1], Head(call.writes)[2])
    BY <1>2, <1>3, <2>1, <2>3, ChangesTyped
  <2> QED BY <2>1, <2>2, <2>3
<1>6. CASE Ends
  BY <1>3, <1>6 DEF Ends
<1>7. CASE Polled
  <2>1. /\ UNCHANGED <<fit, holds, call>> /\ late' \in BOOLEAN
        /\ shows' = [r \in Held |-> IF r \in DOMAIN outdated THEN outdated[r] ELSE holds[r]]
        /\ outdated' \in {outdated, <<>>} /\ DOMAIN <<>> = {}
    BY <1>7 DEF Polled
  <2> QED BY <2>1
<1>8. ASSUME NEW mode, SetHvacMode(mode) PROVE ValuesTyped'
  <2> DEFINE writes == IF Refused(mode) THEN <<>> ELSE ModeWrites(mode)
  <2>1. writes \in Seq(Offered) /\ Begins(mode, Off, writes, Refused(mode), {})
    BY <1>8, CallsOffered, OfferedWrites DEF SetHvacMode
  <2> HIDE DEF writes
  <2> QED BY <1>1, <2>1
<1>9. ASSUME NEW mode, NEW degrees \in Degrees, SetTemperature(mode, degrees) PROVE ValuesTyped'
  <2> DEFINE writes == IF mode = "none" THEN <<>> ELSE ModeWrites(mode)
             both == writes \o SetpointWrites(degrees)
             goesBy == IF mode = "none" THEN {"room", "cooling"} ELSE {}
  <2>1. writes \in Seq(Offered) /\ SetpointWrites(degrees) \in Seq(Offered)
    BY CallsOffered, OfferedWrites
  <2>2. \/ Begins("none", Off, <<>>, TRUE, {})
        \/ Begins(mode, Off, writes, TRUE, {})
        \/ Begins("heat", degrees, both, FALSE, goesBy)
    BY <1>9 DEF SetTemperature
  <2> HIDE DEF writes, goesBy
  <2>3. both \in Seq(Offered) /\ <<>> \in Seq(Offered)
    BY <2>1, OfferedWrites
  <2> HIDE DEF both
  <2> QED BY <1>1, <2>1, <2>2, <2>3
<1>10. ASSUME NEW mode, NEW low \in Degrees, SetRange(mode, low) PROVE ValuesTyped'
  <2> DEFINE s == SetpointWrites(low)
             ends == Append(s, <<"cool setpoint", Set>>)
             both == ModeWrites(mode) \o ends
  <2>1. s \in Seq(Offered) /\ <<"cool setpoint", Set>> \in Offered
        /\ ModeWrites(mode) \in Seq(Offered) /\ <<>> \in Seq(Offered)
    BY CallsOffered, ValuesKnown, HeldKnown, OfferedWrites DEF Offered
  <2>2. \/ Begins(HvacMode, low, ends, FALSE, {"room", "cooling"})
        \/ Begins("none", Off, <<>>, TRUE, {})
        \/ Begins(mode, low, both, FALSE, {})
    BY <1>10 DEF SetRange
  <2> HIDE DEF s
  <2>3. ends \in Seq(Offered)
    BY <2>1, AppendProperties
  <2> HIDE DEF ends
  <2>4. both \in Seq(Offered)
    BY <2>1, <2>3, OfferedWrites
  <2> HIDE DEF both
  <2> QED BY <1>1, <2>1, <2>2, <2>3, <2>4
<1>11. ASSUME NEW operation \in HotModes \union {"boost"}, SetOperationMode(operation)
       PROVE  ValuesTyped'
  <2>1. /\ OperationWrites(operation) \in Seq(Offered)
        /\ Begins(operation, Off, OperationWrites(operation), FALSE, {"boost"})
    BY <1>11, CallsOffered DEF SetOperationMode
  <2> QED BY <1>1, <2>1
<1>12. ASSUME NEW r \in Held, NEW v \in ValuesOf(r), PlainWrite(r, v) PROVE ValuesTyped'
  <2>1. <<<<r, v>>>> \in Seq(Offered) /\ Begins("plain", Off, <<<<r, v>>>>, FALSE, {})
    BY <1>12, OfferedWrites DEF PlainWrite
  <2> QED BY <1>1, <2>1
<1>13. ASSUME NEW r \in Held, NEW v \in ValuesOf(r), Touched(r, v) PROVE ValuesTyped'
  <2>1. /\ DOMAIN call' = DOMAIN call /\ call'.writes = call.writes
        /\ Changes(r, v) /\ UNCHANGED <<fit, shows, late>>
    BY <1>13 DEF Touched
  <2> QED BY <1>13, <2>1, ChangesTyped
<1>14. CASE UNCHANGED comfortVars
  BY <1>14 DEF comfortVars
<1> USE DEF ComfortNext
<1> HIDE DEF ValuesTyped
<1> QED BY <1>4, <1>5, <1>6, <1>7, <1>8, <1>9, <1>10, <1>11, <1>12, <1>13, <1>14

(* Whatever calls, failed writes, polls and hands there are, every         *)
(* register holds and shows one of its own values.                         *)
THEOREM ComfortTypeCorrect == ComfortSpec => []ComfortTypeOK
<1>1. ComfortSpec => []ValuesTyped
  BY ValuesInit, ValuesNext, PTL DEF ComfortSpec
<1>2. ValuesTyped => ComfortTypeOK
  BY DEF ValuesTyped, ComfortTypeOK
<1> QED BY <1>1, <1>2, PTL

----------------------------------------------------------------------------
(* Register tables, words and names *)

(* The first of the greatest of a row of numbers. *)
LEMMA FirstGreatest ==
  ASSUME NEW n \in Nat \ {0}, NEW f \in [1 .. n -> Nat]
  PROVE  \E i \in 1 .. n : /\ \A j \in 1 .. n : f[i] >= f[j]
                           /\ \A j \in 1 .. i - 1 : f[j] < f[i]
<1> DEFINE Better(i) == {j \in 1 .. n : f[j] > f[i] \/ (f[j] = f[i] /\ j < i)}
           All == {Better(i) : i \in 1 .. n}
<1>1. IsFiniteSet(1 .. n) /\ All \in SUBSET SUBSET (1 .. n) /\ All # {}
  <2>1. 1 \in 1 .. n /\ IsFiniteSet(1 .. n)
    BY FS_Interval
  <2>2. Better(1) \in All
    BY <2>1
  <2>3. \A i \in 1 .. n : Better(i) \in SUBSET (1 .. n)
    OBVIOUS
  <2> HIDE DEF Better
  <2>4. All \in SUBSET SUBSET (1 .. n)
    BY <2>3
  <2> HIDE DEF All
  <2> QED BY <2>1, <2>2, <2>4
<1>2. PICK T \in All : \A U \in SUBSET T : U # T => U \notin All
  <2> HIDE DEF All
  <2> QED BY <1>1, LeastSubset
<1>3. PICK i \in 1 .. n : T = Better(i)
  OBVIOUS
<1>4. ASSUME NEW j \in Better(i) PROVE FALSE
  <2>1. j \in 1 .. n /\ j \in Better(i) /\ j \notin Better(j)
    OBVIOUS
  <2>2. \A k \in Better(j) : k \in Better(i)
    <3> SUFFICES ASSUME NEW k \in 1 .. n, f[k] > f[j] \/ (f[k] = f[j] /\ k < j)
                 PROVE  f[k] > f[i] \/ (f[k] = f[i] /\ k < i)
      OBVIOUS
    <3>1. f[i] \in Nat /\ f[j] \in Nat /\ f[k] \in Nat
      BY <2>1
    <3>2. f[j] > f[i] \/ (f[j] = f[i] /\ j < i)
      OBVIOUS
    <3> QED BY <2>1, <3>1, <3>2
  <2>3. Better(j) \in All
    BY <2>1
  <2> HIDE DEF Better, All
  <2> QED BY <1>2, <1>3, <2>1, <2>2, <2>3
<1>5. ASSUME NEW j \in 1 .. n PROVE f[i] >= f[j] /\ (j < i => f[j] < f[i])
  <2>1. j \notin Better(i)
    BY <1>4
  <2>2. f[i] \in Nat /\ f[j] \in Nat
    OBVIOUS
  <2> QED BY <2>1, <2>2
<1>6. \A j \in 1 .. i - 1 : j \in 1 .. n /\ j < i
  OBVIOUS
<1> QED BY <1>5, <1>6

----------------------------------------------------------------------------
(* Register maps *)

Rows(S) == UNION {[1 .. n -> S] : n \in Nat \ {0}}

(* The commonest of some values is one of them. *)
LEMMA MostCommonIsOne ==
  ASSUME NEW S, NEW s \in Rows(S)
  PROVE  MostCommon(s) \in S
<1> DEFINE Votes(x) == Cardinality({i \in DOMAIN s : s[i] = x})
           f == [i \in DOMAIN s |-> Votes(s[i])]
           Won(i) == /\ \A j \in DOMAIN s : Votes(s[i]) >= Votes(s[j])
                     /\ \A j \in 1 .. i - 1 : Votes(s[j]) < Votes(s[i])
<1>1. PICK n \in Nat \ {0} : s \in [1 .. n -> S]
  BY DEF Rows
<1>2. f \in [1 .. n -> Nat]
  <2>1. ASSUME NEW x PROVE Votes(x) \in Nat
    <3>1. {i \in DOMAIN s : s[i] = x} \in SUBSET (1 .. n) /\ IsFiniteSet(1 .. n)
      BY <1>1, FS_Interval
    <3> QED BY <3>1, FS_Subset, FS_CardinalityType
  <2> HIDE DEF Votes
  <2> QED BY <1>1, <2>1
<1> HIDE DEF Votes
<1>3. \E i \in DOMAIN s : Won(i)
  <2>1. PICK i \in 1 .. n : /\ \A j \in 1 .. n : f[i] >= f[j]
                            /\ \A j \in 1 .. i - 1 : f[j] < f[i]
    <3> HIDE DEF f
    <3> QED BY <1>2, FirstGreatest
  <2>2. \A j \in 1 .. n : f[j] = Votes(s[j])
    BY <1>1
  <2>3. \A j \in 1 .. i - 1 : j \in 1 .. n
    BY <1>1
  <2> HIDE DEF f
  <2> QED BY <1>1, <2>1, <2>2, <2>3
<1>4. MostCommon(s) = s[CHOOSE i \in DOMAIN s : Won(i)]
  BY DEF MostCommon, Votes
<1> HIDE DEF Won
<1>5. (CHOOSE i \in DOMAIN s : Won(i)) \in DOMAIN s
  BY <1>3
<1> QED BY <1>1, <1>4, <1>5

(* So is the most informative variant. *)
LEMMA MostInformativeIsOne ==
  ASSUME NEW s \in Rows(Variants)
  PROVE  MostInformative(s) \in Variants
<1> DEFINE Weight(m) == 2 * m.title + (IF m.table # NoTable THEN 1 ELSE 0)
           f == [i \in DOMAIN s |-> Weight(s[i])]
           Won(i) == /\ \A j \in DOMAIN s : Weight(s[i]) >= Weight(s[j])
                     /\ \A j \in 1 .. i - 1 : Weight(s[j]) < Weight(s[i])
<1>1. PICK n \in Nat \ {0} : s \in [1 .. n -> Variants]
  BY DEF Rows
<1>2. f \in [1 .. n -> Nat]
  <2>1. ASSUME NEW m \in Variants PROVE Weight(m) \in Nat
    <3>1. m.title \in Nat
      BY VariantsAssumption
    <3> QED BY <3>1
  <2> HIDE DEF Weight
  <2> QED BY <1>1, <2>1
<1> HIDE DEF Weight
<1>3. \E i \in DOMAIN s : Won(i)
  <2>1. PICK i \in 1 .. n : /\ \A j \in 1 .. n : f[i] >= f[j]
                            /\ \A j \in 1 .. i - 1 : f[j] < f[i]
    <3> HIDE DEF f
    <3> QED BY <1>2, FirstGreatest
  <2>2. \A j \in 1 .. n : f[j] = Weight(s[j])
    BY <1>1
  <2>3. \A j \in 1 .. i - 1 : j \in 1 .. n
    BY <1>1
  <2> HIDE DEF f
  <2> QED BY <1>1, <2>1, <2>2, <2>3
<1>4. MostInformative(s) = s[CHOOSE i \in DOMAIN s : Won(i)]
  BY DEF MostInformative, Weight
<1> HIDE DEF Won
<1>5. (CHOOSE i \in DOMAIN s : Won(i)) \in DOMAIN s
  BY <1>3
<1> QED BY <1>1, <1>4, <1>5

(* The table taken from the variants has numbers for keys. *)
LEMMA AnyTableIsOne ==
  ASSUME NEW s \in Rows(Variants)
  PROVE  DOMAIN AnyTable(s) \subseteq Int
<1> DEFINE with == {i \in DOMAIN s : s[i].table # NoTable}
<1>1. PICK n \in Nat \ {0} : s \in [1 .. n -> Variants]
  BY DEF Rows
<1>2. \A m \in Variants : DOMAIN m.table \subseteq Int
  BY VariantsAssumption
<1>3. DOMAIN NoTable = {}
  BY DEF NoTable
<1>4. ASSUME with # {} PROVE Min(with) \in 1 .. n
  <2> DEFINE f == [i \in 1 .. n |-> IF i \in with THEN 1 ELSE 0]
  <2>1. f \in [1 .. n -> Nat] /\ with \subseteq 1 .. n
    BY <1>1
  <2>2. \A i \in 1 .. n : f[i] = IF i \in with THEN 1 ELSE 0
    OBVIOUS
  <2> HIDE DEF f, with
  <2>3. PICK i \in 1 .. n : /\ \A j \in 1 .. n : f[i] >= f[j]
                            /\ \A j \in 1 .. i - 1 : f[j] < f[i]
    BY <2>1, FirstGreatest
  <2>4. i \in with
    <3>1. PICK j \in with : TRUE
      BY <1>4
    <3>2. f[j] = 1 /\ f[i] >= f[j]
      BY <2>1, <2>2, <2>3, <3>1
    <3> QED BY <2>2, <3>2
  <2>5. \A j \in with : i <= j
    <3> SUFFICES ASSUME NEW j \in with, ~(i <= j) PROVE FALSE
      OBVIOUS
    <3>1. j \in 1 .. i - 1 /\ j \in 1 .. n
      BY <1>1, <2>1
    <3>2. f[j] < f[i] /\ f[j] = 1 /\ f[i] = 1
      BY <2>2, <2>3, <2>4, <3>1
    <3> QED BY <3>2
  <2>6. Min(with) \in with
    BY <2>4, <2>5 DEF Min
  <2> QED BY <2>1, <2>6
<1>5. MostInformative(s) \in Variants
  BY MostInformativeIsOne
<1>6. CASE MostInformative(s).table # NoTable
  BY <1>2, <1>5, <1>6 DEF AnyTable
<1>7. CASE MostInformative(s).table = NoTable /\ with # {}
  <2>1. AnyTable(s) = s[Min(with)].table
    BY <1>7 DEF AnyTable
  <2>2. Min(with) \in 1 .. n
    BY <1>4, <1>7
  <2> HIDE DEF with
  <2> QED BY <1>1, <1>2, <2>1, <2>2
<1>8. CASE MostInformative(s).table = NoTable /\ with = {}
  BY <1>3, <1>8 DEF AnyTable
<1> QED BY <1>6, <1>7, <1>8

(* Merged variants have a size the pump has, limits and a table. *)
LEMMA MergedType ==
  ASSUME NEW s \in Rows(Variants), NEW own \in NibeTables
  PROVE  LET m == Merged(s, own) IN
         /\ m.size \in Sizes /\ m.low \in Int /\ m.high \in Int
         /\ m.write \in BOOLEAN /\ m.momentary \in BOOLEAN
         /\ DOMAIN m.table \subseteq Int
<1> DEFINE b == MostInformative(s)
           sizes == [i \in DOMAIN s |-> s[i].size]
           size == MostCommon(sizes)
           table == IF own # NoTable THEN own ELSE AnyTable(s)
           unit == MostCommon([i \in DOMAIN s |-> s[i].unit])
<1>1. Merged(s, own) = [b EXCEPT !.size = size, !.unit = unit, !.table = table]
  BY DEF Merged
<1>2. PICK n \in Nat \ {0} : s \in [1 .. n -> Variants]
  BY DEF Rows
<1>3. sizes \in Rows(Sizes)
  <2>1. sizes \in [1 .. n -> Sizes]
    BY <1>2, VariantsAssumption
  <2> HIDE DEF sizes
  <2> QED BY <2>1 DEF Rows
<1> HIDE DEF sizes
<1>4. size \in Sizes
  BY <1>3, MostCommonIsOne
<1>5. DOMAIN table \subseteq Int
  BY AnyTableIsOne, VariantsAssumption
<1>6. b \in Variants
  BY MostInformativeIsOne
<1>7. b \in [title : Nat, size : Sizes, write : BOOLEAN, momentary : BOOLEAN,
             low : Int, high : Int, unit : BOOLEAN, table : {m.table : m \in Variants}]
  <2> HIDE DEF b
  <2> QED BY <1>6, VariantsAssumption
<1> HIDE DEF b, size, table, unit
<1>8. /\ Merged(s, own).size = size /\ Merged(s, own).table = table
      /\ Merged(s, own).low = b.low /\ Merged(s, own).high = b.high
      /\ Merged(s, own).write = b.write /\ Merged(s, own).momentary = b.momentary
  BY <1>1, <1>7
<1>9. b.low \in Int /\ b.high \in Int /\ b.write \in BOOLEAN /\ b.momentary \in BOOLEAN
  BY <1>7
<1> QED BY <1>4, <1>5, <1>8, <1>9

----------------------------------------------------------------------------
(* Words *)

(* A value of a register is a number. *)
LEMMA UnscaleType ==
  ASSUME NEW halves \in Int
  PROVE  Unscale(halves) \in Int
<1>1. CASE halves % 2 = 0
  BY <1>1 DEF Unscale
<1>2. CASE halves % 2 # 0
  <2>1. \E n \in {halves \div 2, halves \div 2 + 1} : n % 2 = 0
    OBVIOUS
  <2>2. Unscale(halves) \in {halves \div 2, halves \div 2 + 1}
    BY <1>2, <2>1 DEF Unscale
  <2> QED BY <2>2
<1> QED BY <1>1, <1>2

(* A signed value modulo the capacity is its complement. *)
LEMMA ModSigned ==
  ASSUME NEW c \in Nat, c > 0, NEW v \in Int, 0 - (c \div 2) <= v, 2 * v < c
  PROVE  v % c = IF v < 0 THEN v + c ELSE v
OBVIOUS

(* An unsigned value modulo the capacity is itself. *)
LEMMA ModUnsigned ==
  ASSUME NEW c \in Nat, NEW v \in 0 .. c - 1
  PROVE  v % c = v
OBVIOUS

(* The low and the high word make up the number. *)
LEMMA ModParts ==
  ASSUME NEW w \in Nat, w > 0, NEW n \in Nat
  PROVE  (n % w) + w * (n \div w) = n
OBVIOUS

(* Words written high first and stored the other way round come back as    *)
(* the number they were made from, whatever its width and its sign.        *)
LEMMA WordsComeBack ==
  ASSUME NEW size \in Sizes, NEW v \in Int, Encodable(size, v)
  PROVE  DecodeRaw(size, StoredByPump(EncodeRaw(size, v))) = v
<1> DEFINE c == Counts(size)
           n == v % c
           w == Word
<1>1. w \in Nat /\ w > 0
  BY ByteAssumption DEF Word
<1>2. c \in Nat /\ c > 0
  <2>1. c = w * w \/ c = w
    BY DEF Counts
  <2> HIDE DEF c, w
  <2> QED BY <1>1, <2>1
<1>3. size.words \in {1, 2} /\ size.signed \in BOOLEAN
  BY DEF Sizes
<1>4. StoredByPump(EncodeRaw(size, v)) = IF size.words = 2 THEN <<n % w, n \div w>> ELSE <<n>>
  <2>1. \A a, b : Reverse(<<a, b>>) = <<b, a>>
    BY DEF Reverse
  <2>2. \A a : Reverse(<<a>>) = <<a>>
    BY DEF Reverse
  <2>3. EncodeRaw(size, v) = IF size.words = 2 THEN <<n \div w, n % w>> ELSE <<n>>
    BY DEF EncodeRaw
  <2> HIDE DEF n, w
  <2> QED BY <2>1, <2>2, <2>3 DEF StoredByPump
<1>5. n \in Nat
  <2> HIDE DEF c
  <2> QED BY <1>2
<1>6. DecodeRaw(size, StoredByPump(EncodeRaw(size, v))) = Signed(n, size)
  <2>1. (n % w) + w * (n \div w) = n
    <3> HIDE DEF n, w
    <3> QED BY <1>1, <1>5, ModParts
  <2> DEFINE words == StoredByPump(EncodeRaw(size, v))
  <2>2. CASE size.words = 2
    <3>1. words[1] = n % w /\ words[2] = n \div w
      <4> HIDE DEF n, w
      <4> QED BY <1>4, <2>2
    <3>2. DecodeRaw(size, words) = Signed(words[1] + w * words[2], size)
      BY <2>2 DEF DecodeRaw
    <3> HIDE DEF words, n, w
    <3> QED BY <2>1, <3>1, <3>2 DEF words
  <2>3. CASE size.words # 2
    <3>1. words[1] = n
      <4> HIDE DEF n, w
      <4> QED BY <1>4, <2>3
    <3>2. DecodeRaw(size, words) = Signed(words[1], size)
      BY <2>3 DEF DecodeRaw
    <3> HIDE DEF words, n
    <3> QED BY <3>1, <3>2 DEF words
  <2> QED BY <2>2, <2>3
<1>7. CASE size.signed
  <2>1. 0 - (c \div 2) <= v /\ 2 * v < c
    <3>1. -(c \div 2) <= v /\ 2 * v < c
      BY <1>7 DEF Encodable
    <3> HIDE DEF c
    <3> QED BY <1>2, <3>1
  <2>2. n = IF v < 0 THEN v + c ELSE v
    <3> HIDE DEF c
    <3> QED BY <1>2, <2>1, ModSigned
  <2>3. Signed(n, size) = IF 2 * n >= c THEN n - c ELSE n
    BY <1>7 DEF Signed
  <2> HIDE DEF n, c
  <2>4. 2 * (c \div 2) <= c
    BY <1>2
  <2>5. c \div 2 \in Int
    BY <1>2
  <2> QED BY <1>2, <1>6, <2>1, <2>2, <2>3, <2>4, <2>5
<1>8. CASE ~size.signed
  <2>1. v \in 0 .. c - 1
    BY <1>8 DEF Encodable
  <2>2. n = v
    <3> HIDE DEF c
    <3> QED BY <1>2, <2>1, ModUnsigned
  <2>3. Signed(n, size) = n
    BY <1>8 DEF Signed
  <2> QED BY <1>6, <2>2, <2>3
<1> QED BY <1>3, <1>7, <1>8

(* What a register offers are numbers, and a table belongs to a select. *)
LEMMA OptionsAreInt ==
  ASSUME NEW m, m.low \in Int, m.high \in Int, m.write \in BOOLEAN, m.momentary \in BOOLEAN,
         DOMAIN m.table \subseteq Int, NEW halves \in Options(m)
  PROVE  /\ halves \in Int
         /\ PlatformFor(m) = "select" \/ m.table = NoTable
<1> DEFINE p == PlatformFor(m)
<1>1. p = "select" => Options(m) = {2 * raw : raw \in DOMAIN m.table}
  BY DEF Options
<1>2. p = "switch" => Options(m) = {0, 2}
  BY DEF Options
<1>3. p = "button" => Options(m) = {}
  BY DEF Options
<1>4. p \notin {"select", "switch", "button"} =>
        Options(m) = IF m.write THEN 2 * m.low .. 2 * m.high ELSE {}
  BY DEF Options
<1>5. m.write /\ p \notin {"select", "button"} => m.table = NoTable
  BY DEF PlatformFor
<1>6. p \in {"select", "switch"} => m.write
  BY DEF PlatformFor
<1> HIDE DEF p
<1>7. halves \in Int
  BY <1>1, <1>2, <1>3, <1>4
<1> QED BY <1>3, <1>4, <1>5, <1>6, <1>7 DEF p

(* Whatever maps a register has - how they size it, whichever tables - and *)
(* whatever the user asks of it, in bytes of any even number of values:    *)
(* what was accepted, written and read back shows as what was asked        *)
(* (codec.encode_raw, decode_raw; registry.union_map; fseries).            *)
THEOREM WritesReadBack == TablesInit => ReadBackIsWritten
<1> SUFFICES ASSUME TablesInit, variants # <<>> PROVE ReadBackIsWritten
  BY DEF ReadBackIsWritten
<1>1. variants \in Rows(Variants) /\ labels \in NibeTables
  <2>1. PICK n \in 1 .. 3 : variants \in [1 .. n -> Variants]
    BY DEF TablesInit
  <2>2. n \in Nat \ {0}
    OBVIOUS
  <2> QED BY <2>1, <2>2 DEF TablesInit, Rows
<1> DEFINE m == Merged(variants, labels)
<1>2. /\ m.size \in Sizes /\ m.low \in Int /\ m.high \in Int
      /\ m.write \in BOOLEAN /\ m.momentary \in BOOLEAN
      /\ DOMAIN m.table \subseteq Int
  BY <1>1, MergedType
<1> HIDE DEF m
<1>3. ASSUME NEW halves \in Options(m), Accepted(m, halves)
      PROVE  LET raw == Unscale(halves) IN
             /\ ShownAfterWrite(m, halves) = ShownAs(m, raw)
             /\ CoilDataForWrite(m, raw) => ShownAfterCoilWrite(m, halves) = ShownAs(m, raw)
  <2> DEFINE raw == Unscale(halves)
  <2>1. halves \in Int /\ (PlatformFor(m) = "select" \/ m.table = NoTable)
    BY <1>2, OptionsAreInt
  <2>2. raw \in Int
    BY <2>1, UnscaleType
  <2>3. Encodable(m.size, raw)
    BY <1>3 DEF Accepted
  <2> HIDE DEF raw
  <2>4. DecodeRaw(m.size, StoredByPump(EncodeRaw(m.size, raw))) = raw
    BY <1>2, <2>2, <2>3, WordsComeBack
  <2>5. ShownAfterWrite(m, halves) = ShownAs(m, raw)
    BY <2>4 DEF ShownAfterWrite, Decode, raw
  <2>6. ASSUME CoilDataForWrite(m, raw) PROVE ShownAs(m, ValueFromCoil(m, raw)) = ShownAs(m, raw)
    <3>1. CASE m.table = NoTable
      BY <3>1 DEF ValueFromCoil
    <3>2. CASE m.table # NoTable
      <4> DEFINE v == ValueFromCoil(m, raw)
      <4>1. raw \in DOMAIN m.table /\ CoilLabel(m, raw) = m.table[raw]
        BY <2>6, <3>2 DEF CoilDataForWrite, CoilLabel
      <4>2. v = CHOOSE k \in DOMAIN m.table : m.table[k] = m.table[raw]
        BY <3>2, <4>1 DEF ValueFromCoil
      <4>3. v \in DOMAIN m.table /\ m.table[v] = m.table[raw]
        BY <4>1, <4>2
      <4>4. PlatformFor(m) = "select"
        BY <2>1, <3>2
      <4> HIDE DEF v
      <4>5. ShownAs(m, v) = m.table[v] /\ ShownAs(m, raw) = m.table[raw]
        BY <4>1, <4>3, <4>4 DEF ShownAs
      <4> QED BY <4>3, <4>5 DEF v
    <3> QED BY <3>1, <3>2
  <2> QED BY <2>5, <2>6 DEF ShownAfterCoilWrite, raw
<1> QED BY <1>3 DEF ReadBackIsWritten, m

----------------------------------------------------------------------------
(* What stands in a sequence of one or two after something was appended.   *)
LEMMA AppendedToOne ==
  ASSUME NEW S, NEW p \in Seq(S), NEW t \in S, Len(p) = 1
  PROVE  /\ Append(p, t) \in Seq(S) /\ Len(Append(p, t)) = 2
         /\ Append(p, t)[1] = p[1] /\ Append(p, t)[2] = t
<1>1. /\ Append(p, t) \in Seq(S)
      /\ Append(p, t) # << >>
      /\ Len(Append(p, t)) = Len(p) + 1
      /\ \A i \in 1 .. Len(p) : Append(p, t)[i] = p[i]
      /\ Append(p, t)[Len(p) + 1] = t
  BY AppendProperties, ZenonT(60)
<1>2. 1 \in 1 .. Len(p) /\ Len(p) + 1 = 2
  OBVIOUS
<1>3. Append(p, t)[1] = p[1]
  BY <1>1, <1>2
<1> QED BY <1>1, <1>2, <1>3

(* What was appended to equal sequences is equal.                          *)
LEMMA LastAppended ==
  ASSUME NEW S, NEW p \in Seq(S), NEW q \in Seq(S), NEW t \in S, NEW u \in S,
         Append(p, t) = Append(q, u)
  PROVE  t = u /\ Len(p) = Len(q)
<1>1. /\ Append(p, t)[Len(p) + 1] = t /\ Len(Append(p, t)) = Len(p) + 1
      /\ Append(q, u)[Len(q) + 1] = u /\ Len(Append(q, u)) = Len(q) + 1
  BY AppendProperties
<1>2. Len(p) = Len(q)
  BY <1>1, LenProperties
<1> QED BY <1>1, <1>2

(* Names *)

(* No two of a pump's registers end up with one name (names.assign_names), *)
(* for any titles with any designations, if no two curated names are the   *)
(* same.                                                                   *)
THEOREM NamesTellApart == TablesInit => NamesDistinct
<1> SUFFICES ASSUME TablesInit, NEW q \in DOMAIN titled, NEW r \in DOMAIN titled, q # r,
                    AssignNames[q] = AssignNames[r]
             PROVE  FALSE
  BY DEF NamesDistinct
<1> DEFINE plain == [x \in DOMAIN titled |-> ShortName(x)]
           apart == [x \in DOMAIN titled |-> ToldApart(plain, x)]
<1>1. IsFiniteSet(DOMAIN titled) /\ Curated(titled)
  <2>1. CASE titled = <<>>
    <3>1. DOMAIN titled = {}
      BY <2>1
    <3> QED BY <3>1, FS_EmptySet DEF Curated
  <2>2. CASE titled # <<>>
    BY <2>2, TitledAssumption DEF TablesInit
  <2> QED BY <2>1, <2>2
<1> DEFINE Own(x) == {c \in titled[x].codes :
                        \E o \in Clashing(plain, x) : c \notin titled[o].codes}
           Code(x) == CHOOSE c \in Own(x) : \A d \in Own(x) : d <= c
           U == {titled[x].name : x \in DOMAIN titled} \union {<<"set">>}
                \union {<<"code", Code(x)>> : x \in DOMAIN titled}
                \union {<<"number", x>> : x \in DOMAIN titled}
(* What ToldApart appends to a name that is not curated.                   *)
           Second(x, t) == /\ x \notin Pinned /\ t \in U
                           /\ t = <<"set">> \/ t = <<"code", Code(x)>> \/ t = <<"number", x>>
<1>2. ASSUME NEW x \in DOMAIN titled
      PROVE  /\ plain[x] \in Seq(U) /\ Len(plain[x]) = 1 /\ plain[x][1] = titled[x].name
             /\ <<"number", x>> \in U
  <2>1. plain[x] = <<titled[x].name>> /\ titled[x].name \in U /\ <<"number", x>> \in U
    BY DEF ShortName
  <2> HIDE DEF plain, U
  <2> QED BY <2>1
<1>3. \A x \in DOMAIN titled : AssignNames[x] = Numbered(apart, x)
  BY DEF AssignNames
<1>4. ASSUME NEW x \in DOMAIN titled
      PROVE  apart[x] = plain[x] \/ \E t : Second(x, t) /\ apart[x] = Append(plain[x], t)
  <2>1. apart[x] = ToldApart(plain, x)
    OBVIOUS
  <2>2. <<"set">> \in U /\ <<"number", x>> \in U /\ <<"code", Code(x)>> \in U
    OBVIOUS
  <2>3. \/ apart[x] = plain[x]
        \/ /\ x \notin Pinned
           /\ \/ apart[x] = Append(plain[x], <<"set">>)
              \/ apart[x] = Append(plain[x], <<"number", x>>)
              \/ apart[x] = Append(plain[x], <<"code", Code(x)>>)
    <3> HIDE DEF plain, apart, U
    <3> QED BY <2>1 DEF ToldApart
  <2> HIDE DEF plain, apart, U, Code, Own
  <2>4. x \notin Pinned =>
          Second(x, <<"set">>) /\ Second(x, <<"number", x>>) /\ Second(x, <<"code", Code(x)>>)
    BY <2>2
  <2> HIDE DEF Second
  <2> QED BY <2>3, <2>4
<1>5. ASSUME NEW x \in DOMAIN titled
      PROVE  \/ AssignNames[x] = Append(apart[x], <<"number", x>>)
             \/ AssignNames[x] = apart[x]
  <2> HIDE DEF apart
  <2> QED BY <1>3 DEF Numbered
<1>6. DOMAIN apart = DOMAIN titled
  OBVIOUS
<1> HIDE DEF apart, plain, U, Code, Own
<1>7. ASSUME NEW x \in DOMAIN titled
      PROVE  /\ apart[x] \in Seq(U) /\ Len(apart[x]) \in {1, 2}
             /\ Len(apart[x]) = 1 => apart[x] = plain[x]
             /\ Len(apart[x]) = 2 => Second(x, apart[x][2])
  <2>1. CASE apart[x] = plain[x]
    <3>1. plain[x] \in Seq(U) /\ Len(plain[x]) = 1
      BY <1>2
    <3> QED BY <2>1, <3>1
  <2>2. CASE apart[x] # plain[x]
    <3>1. PICK t : Second(x, t) /\ apart[x] = Append(plain[x], t)
      BY <1>4, <2>2
    <3>2. plain[x] \in Seq(U) /\ Len(plain[x]) = 1 /\ t \in U
      BY <1>2, <3>1
    <3>3. Append(plain[x], t) \in Seq(U) /\ Len(Append(plain[x], t)) = 2
          /\ Append(plain[x], t)[2] = t
      BY <3>2, AppendedToOne
    <3> QED BY <3>1, <3>3
  <2> QED BY <2>1, <2>2
(* If both get a number, the numbers differ.                               *)
<1>8. ASSUME NEW x \in DOMAIN titled, NEW y \in DOMAIN titled, x # y
      PROVE  Append(apart[x], <<"number", x>>) # Append(apart[y], <<"number", y>>)
  <2>1. <<"number", x>> # <<"number", y>>
    BY <1>8
  <2> QED BY <1>2, <1>7, <2>1, LastAppended
(* If only one does, the number cannot be a part of the other's name.      *)
<1>9. ASSUME NEW x \in DOMAIN titled, NEW y \in DOMAIN titled, x # y
      PROVE  apart[y] # Append(apart[x], <<"number", x>>)
  <2> SUFFICES ASSUME apart[y] = Append(apart[x], <<"number", x>>) PROVE FALSE
    OBVIOUS
  <2>1. /\ Len(apart[y]) = Len(apart[x]) + 1
        /\ apart[y][Len(apart[x]) + 1] = <<"number", x>>
    BY <1>2, <1>7, AppendProperties
  <2>2. Len(apart[y]) = 2 /\ apart[y][2] = <<"number", x>>
    BY <1>7, <2>1
  <2>3. Second(y, <<"number", x>>)
    BY <1>7, <2>2
  <2>4. <<"number", x>> # <<"set">> /\ <<"number", x>> # <<"code", Code(y)>>
        /\ <<"number", x>> # <<"number", y>>
    BY <1>9
  <2> QED BY <2>3, <2>4
(* If neither does, both are curated, and then the names differ.           *)
<1>10. ASSUME NEW x \in DOMAIN titled, NEW y \in DOMAIN titled, x # y,
              apart[x] = apart[y], AssignNames[x] = apart[x]
       PROVE  x \in Pinned
  <2> DEFINE like == Clashing(apart, x)
  <2>1. like \in SUBSET DOMAIN titled /\ x \in like /\ y \in like
    BY <1>6, <1>10 DEF Clashing
  <2>2. Cardinality(like) > 1
    <3> HIDE DEF like
    <3>1. IsFiniteSet(like) /\ Cardinality(like) \in Nat
      BY <1>1, <2>1, FS_Subset, FS_CardinalityType
    <3>2. Cardinality({x, y}) <= Cardinality(like)
      BY <2>1, <3>1, FS_Subset
    <3>3. Cardinality({x, y}) = 2
      <4>1. Cardinality({x}) = 1 /\ IsFiniteSet({x}) /\ y \notin {x} /\ {x, y} = {x} \union {y}
        BY <1>10, FS_Singleton
      <4> QED BY <4>1, FS_AddElement
    <3> QED BY <3>1, <3>2, <3>3
  <2>3. SUFFICES ASSUME x \notin Pinned PROVE FALSE
    OBVIOUS
  <2>4. Numbered(apart, x) = Append(apart[x], <<"number", x>>)
    BY <2>2, <2>3 DEF Numbered
  <2>5. Append(apart[x], <<"number", x>>) # apart[x]
    BY <1>2, <1>7, AppendProperties
  <2> QED BY <1>3, <1>10, <2>4, <2>5
<1>11. AssignNames[q] = apart[q] /\ AssignNames[r] = apart[r]
  BY <1>5, <1>8, <1>9
<1>12. q \in Pinned /\ r \in Pinned
  BY <1>10, <1>11
<1>13. plain[q] = plain[r]
  BY <1>7, <1>11, <1>12
<1>14. titled[q].name = titled[r].name
  BY <1>2, <1>13
<1> QED BY <1>1, <1>12, <1>14 DEF Curated, Pinned
=============================================================================
