-------------------------- MODULE CoordinatorProofs --------------------------
(* What is proved of Coordinator for any registers, entities, layouts and  *)
(* number of rescans.                                                      *)
EXTENDS Coordinator, SpanPlanProofs

Showing(entities, r) == {e \in entities : RegisterOf[e] = r}

(* The count of a register's entities changes with the register's own      *)
(* entities only.                                                          *)
LEMMA CountAdded ==
  ASSUME NEW S, S \subseteq Entities, NEW e \in Entities, e \notin S, NEW r \in Registers
  PROVE  /\ RegisterOf[e] = r =>
              Cardinality(Showing(S \union {e}, r)) = Cardinality(Showing(S, r)) + 1
         /\ RegisterOf[e] # r =>
              Cardinality(Showing(S \union {e}, r)) = Cardinality(Showing(S, r))
<1>1. IsFiniteSet(Showing(S, r))
  BY EntitiesAssumption, FS_Subset DEF Showing
<1>2. CASE RegisterOf[e] = r
  <2>1. Showing(S \union {e}, r) = Showing(S, r) \union {e} /\ e \notin Showing(S, r)
    BY <1>2 DEF Showing
  <2> QED BY <1>1, <1>2, <2>1, FS_AddElement
<1>3. CASE RegisterOf[e] # r
  <2>1. Showing(S \union {e}, r) = Showing(S, r)
    BY <1>3 DEF Showing
  <2> QED BY <1>3, <2>1
<1> QED BY <1>2, <1>3

(* Taking one entity away lowers the count of its own register by one and
   no other. *)
LEMMA CountRemoved ==
  ASSUME NEW S, S \subseteq Entities, NEW e \in S, NEW r \in Registers
  PROVE  /\ RegisterOf[e] = r =>
              Cardinality(Showing(S \ {e}, r)) = Cardinality(Showing(S, r)) - 1
         /\ RegisterOf[e] # r =>
              Cardinality(Showing(S \ {e}, r)) = Cardinality(Showing(S, r))
<1> DEFINE T == S \ {e}
<1>1. T \subseteq Entities /\ e \in Entities /\ e \notin T /\ T \union {e} = S
  OBVIOUS
<1>2. Cardinality(Showing(T, r)) \in Nat
  BY <1>1, EntitiesAssumption, FS_Subset, FS_CardinalityType DEF Showing
<1> HIDE DEF T
<1>3. /\ RegisterOf[e] = r => Cardinality(Showing(S, r)) = Cardinality(Showing(T, r)) + 1
      /\ RegisterOf[e] # r => Cardinality(Showing(S, r)) = Cardinality(Showing(T, r))
  BY <1>1, CountAdded
<1>4. /\ RegisterOf[e] = r => Cardinality(Showing(T, r)) = Cardinality(Showing(S, r)) - 1
      /\ RegisterOf[e] # r => Cardinality(Showing(T, r)) = Cardinality(Showing(S, r))
  BY <1>2, <1>3
<1> QED BY <1>4 DEF T

(* A register nobody shows has count nought, and the other way about. *)
LEMMA CountNone ==
  ASSUME NEW S, S \subseteq Entities, NEW r \in Registers
  PROVE  /\ Cardinality(Showing(S, r)) \in Nat
         /\ Cardinality(Showing(S, r)) = 0 <=> \A e \in S : RegisterOf[e] # r
<1>1. IsFiniteSet(Showing(S, r))
  BY EntitiesAssumption, FS_Subset DEF Showing
<1>2. Cardinality(Showing(S, r)) \in Nat
  BY <1>1, FS_CardinalityType
<1>3. Cardinality(Showing(S, r)) = 0 <=> Showing(S, r) = {}
  BY <1>1, FS_EmptySet
<1> QED BY <1>2, <1>3 DEF Showing

(* SubscriptionsCounted with what it needs to be inductive. *)
CountInv ==
  /\ added \subseteq Entities
  /\ subscribers = [r \in Registers |-> Cardinality(Showing(added, r))]
  /\ subscribed = {RegisterOf[e] : e \in added}

(* A coordinator just made counts nothing, and nothing is shown yet. *)
LEMMA FreshCounts ==
  ASSUME NEW stored, FreshCoordinator(stored)
  PROVE  CountInv'
<1>1. \A r \in Registers : Cardinality(Showing({}, r)) = 0
  BY FS_EmptySet DEF Showing
<1> QED BY <1>1 DEF FreshCoordinator, CountInv

(* Every step keeps the counts: each subscribe, unsubscribe, reload and
   failed set-up. *)
LEMMA CountStep == CountInv /\ [Next]_vars => CountInv'
<1> SUFFICES ASSUME CountInv, [Next]_vars PROVE CountInv'
  OBVIOUS
<1>1. CASE UNCHANGED <<added, subscribers, subscribed>>
  BY <1>1 DEF CountInv, Showing
<1>2. ASSUME NEW e \in Entities, Subscribe(e) PROVE CountInv'
  <2>1. /\ e \notin added /\ added' = added \union {e}
        /\ subscribers' = [subscribers EXCEPT ![RegisterOf[e]] = @ + 1]
        /\ subscribed' = subscribed \union {RegisterOf[e]}
    BY <1>2 DEF Subscribe
  <2>2. RegisterOf[e] \in Registers
    BY EntitiesAssumption
  <2>3. \A r \in Registers : subscribers'[r] = Cardinality(Showing(added', r))
    BY <2>1, <2>2, CountAdded DEF CountInv
  <2>4. subscribers' = [r \in Registers |-> subscribers'[r]]
    BY <2>1 DEF CountInv
  <2>5. subscribers' = [r \in Registers |-> Cardinality(Showing(added', r))]
    BY <2>3, <2>4
  <2> QED BY <2>1, <2>5 DEF CountInv
<1>3. ASSUME NEW e \in Entities, Unsubscribe(e) PROVE CountInv'
  <2> DEFINE r0 == RegisterOf[e]
  <2>1. /\ e \in added /\ added' = added \ {e}
        /\ subscribers' = [subscribers EXCEPT ![r0] = @ - 1]
        /\ IF subscribers'[r0] > 0 THEN subscribed' = subscribed
                                   ELSE subscribed' = subscribed \ {r0}
    BY <1>3 DEF Unsubscribe
  <2>2. r0 \in Registers
    BY EntitiesAssumption
  <2>3. \A r \in Registers : subscribers'[r] = Cardinality(Showing(added', r))
    BY <2>1, <2>2, CountRemoved DEF CountInv
  <2>4. subscribers' = [r \in Registers |-> subscribers'[r]]
    BY <2>1 DEF CountInv
  <2>5. subscribers' = [r \in Registers |-> Cardinality(Showing(added', r))]
    BY <2>3, <2>4
  <2>6. /\ subscribers'[r0] \in Nat
        /\ subscribers'[r0] = 0 <=> \A d \in added' : RegisterOf[d] # r0
    BY <2>1, <2>2, <2>3, CountNone DEF CountInv
  <2>7. subscribed' = {RegisterOf[d] : d \in added'}
    <3>1. CASE subscribers'[r0] > 0
      <4>1. PICK d \in added' : RegisterOf[d] = r0
        BY <2>6, <3>1
      <4> QED BY <2>1, <3>1, <4>1 DEF CountInv
    <3>2. CASE ~(subscribers'[r0] > 0)
      <4>1. \A d \in added' : RegisterOf[d] # r0
        BY <2>6, <3>2
      <4> QED BY <2>1, <3>2, <4>1 DEF CountInv
    <3> QED BY <3>1, <3>2
  <2> QED BY <2>1, <2>5, <2>7 DEF CountInv
<1>4. ASSUME NEW c, NEW replan, CycleFails(c, replan) PROVE CountInv'
  <2>1. CASE phase = "up"
    BY <1>1, <1>4, <2>1 DEF CycleFails, entityVars
  <2>2. CASE phase # "up"
    BY <1>4, <2>2, FreshCounts DEF CycleFails
  <2> QED BY <2>1, <2>2
<1>5. CASE \E c \in Cycles : ReadHole(c) \/ ReadFails(c)
  BY <1>4, <1>5 DEF ReadHole, ReadFails
<1>6. CASE Reload \/ ScanAtSetup \/ \E s \in Rescans : RescanSaved(s)
  BY <1>6, FreshCounts DEF Reload, ScanAtSetup, RescanSaved
<1>7. CASE \/ \E u \in Units : Refit(u)
           \/ \E e \in Entities : Write(e)
           \/ \E c \in Cycles : StartCycle(c) \/ ReadSpan(c)
           \/ \E s \in Rescans : StartRescan(s) \/ RescanFails(s) \/ RescanFinds(s)
  BY <1>1, <1>7 DEF Refit, Write, StartCycle, ReadSpan, StartRescan, RescanFails,
       RescanFinds, entityVars
<1>8. CASE UNCHANGED vars
  BY <1>1, <1>8 DEF vars, entityVars
<1> QED BY <1>2, <1>3, <1>5, <1>6, <1>7, <1>8 DEF Next

(* The counts hold at the start. *)
LEMMA CountInit == Init => CountInv
<1>1. \A r \in Registers : Cardinality(Showing({}, r)) = 0
  BY FS_EmptySet DEF Showing
<1> QED BY <1>1 DEF Init, CountInv

(* A register is polled exactly as long as some entity shows it, whatever  *)
(* comes and goes in whatever order: coordinator.subscribe, unsubscribe.   *)
THEOREM Counted == Spec => []SubscriptionsCounted
<1>1. CountInv => SubscriptionsCounted
  BY DEF CountInv, SubscriptionsCounted, Showing
<1> QED BY <1>1, CountInit, CountStep, PTL DEF Spec

----------------------------------------------------------------------------
(* Every step keeps the plan current or marks it stale. *)
LEMMA PlanStep == PlanCurrent /\ [Next]_vars => PlanCurrent'
<1> SUFFICES ASSUME PlanCurrent, [Next]_vars PROVE PlanCurrent'
  OBVIOUS
<1>1. CASE UNCHANGED <<present, spans, stale, subscribed>>
  BY <1>1 DEF PlanCurrent, Polled
<1>2. CASE stale'
  BY <1>2 DEF PlanCurrent
<1>3. ASSUME NEW e \in Entities, Subscribe(e) PROVE PlanCurrent'
  <2>1. CASE RegisterOf[e] \in subscribed
    <3>1. subscribed' = subscribed
      BY <1>3, <2>1 DEF Subscribe
    <3>2. (~stale' => ~stale) /\ present' = present /\ spans' = spans
      BY <1>3 DEF Subscribe
    <3> QED BY <3>1, <3>2 DEF PlanCurrent, Polled
  <2>2. CASE RegisterOf[e] \notin subscribed
    BY <1>2, <1>3, <2>2 DEF Subscribe
  <2> QED BY <2>1, <2>2
<1>4. ASSUME NEW e \in Entities, Unsubscribe(e) PROVE PlanCurrent'
  BY <1>1, <1>2, <1>4 DEF Unsubscribe
<1>5. ASSUME NEW c \in Cycles, StartCycle(c) PROVE PlanCurrent'
  <2>1. spans' = Ensured /\ present' = present /\ subscribed' = subscribed
    BY <1>5 DEF StartCycle, entityVars
  <2>2. Ensured = PlanSpans(Polled \intersect present, present)
    BY DEF Ensured, PlanCurrent
  <2> QED BY <2>1, <2>2 DEF PlanCurrent, Polled
<1>6. ASSUME NEW stored, FreshCoordinator(stored) PROVE PlanCurrent'
  BY <1>2, <1>6 DEF FreshCoordinator
<1>7. ASSUME NEW c, NEW replan \in BOOLEAN, CycleFails(c, replan) PROVE PlanCurrent'
  <2>1. CASE phase = "up"
    <3>1. /\ UNCHANGED <<present, spans, subscribed>>
          /\ ~stale' => ~stale
      BY <1>7, <2>1 DEF CycleFails, entityVars
    <3> QED BY <3>1 DEF PlanCurrent, Polled
  <2>2. CASE phase # "up"
    BY <1>6, <1>7, <2>2 DEF CycleFails
  <2> QED BY <2>1, <2>2
<1>8. CASE \E c \in Cycles : ReadHole(c) \/ ReadFails(c)
  BY <1>7, <1>8 DEF ReadHole, ReadFails
<1>9. ASSUME NEW s \in Rescans, RescanFinds(s) PROVE PlanCurrent'
  <2>1. PICK found \in SUBSET scan[s].ever :
          /\ present' = IF scan[s].own THEN RegistersIn(found) ELSE present
          /\ stale' = (stale \/ scan[s].own)
    BY <1>9 DEF RescanFinds
  <2>2. CASE scan[s].own
    BY <1>2, <2>1, <2>2
  <2>3. CASE ~scan[s].own
    <3>1. present' = present /\ spans' = spans /\ subscribed' = subscribed
      BY <1>9, <2>1, <2>3 DEF RescanFinds, entityVars
    <3>2. ~stale' => ~stale
      BY <2>1
    <3> QED BY <3>1, <3>2 DEF PlanCurrent, Polled
  <2> QED BY <2>2, <2>3
<1>10. CASE Reload \/ ScanAtSetup \/ \E s \in Rescans : RescanSaved(s)
  BY <1>6, <1>10 DEF Reload, ScanAtSetup, RescanSaved
<1>11. CASE \/ \E u \in Units : Refit(u)
            \/ \E e \in Entities : Write(e)
            \/ \E c \in Cycles : ReadSpan(c)
            \/ \E s \in Rescans : StartRescan(s) \/ RescanFails(s)
  BY <1>1, <1>11 DEF Refit, Write, ReadSpan, StartRescan, RescanFails,
       planVars, entityVars
<1>12. CASE UNCHANGED vars
  BY <1>1, <1>12 DEF vars, planVars, entityVars
<1> QED BY <1>3, <1>4, <1>5, <1>8, <1>9, <1>10, <1>11, <1>12 DEF Next

(* A plan that counts as current is the plan for the subscriptions and the *)
(* scan in force: subscribe, unsubscribe, async_rescan and failed cycles   *)
(* all mark it stale whenever they change what it was made from.           *)
THEOREM PlanKept == Spec => []PlanCurrent
<1>1. Init => PlanCurrent
  BY DEF Init, PlanCurrent
<1> QED BY <1>1, PlanStep, PTL DEF Spec

----------------------------------------------------------------------------
RescanState == [pc : {"none", "probing", "saving"}, own : BOOLEAN,
                always : SUBSET UNION Units, ever : SUBSET UNION Units]

(* A cycle is inside its plan, and the plan reads nothing but addresses of *)
(* the scan the cycle began with.                                          *)
CycleState == [plan : Seq(Ranges), at : Nat, words : SUBSET AddressSet(Registers),
               scanned : SUBSET Registers]
Sound(x) ==
  /\ x \in CycleState /\ x.at \in 0 .. Len(x.plan)
  /\ PlanWords(x.plan) \subseteq AddressSet(x.scanned)

(* What belongs to the coordinator of one set-up, ... *)
CoordinatorTyped ==
  /\ phase \in {"setup", "up"}
  /\ present \subseteq Registers /\ data \subseteq Registers
  /\ DOMAIN cycle = Cycles /\ \A c \in Cycles : Sound(cycle[c])
  /\ stale \in BOOLEAN /\ ok \in BOOLEAN

(* ... and what outlives it. *)
OutsideTyped ==
  /\ unit \in Units
  /\ disk \subseteq Registers
  /\ scan \in [Rescans -> RescanState]
  /\ \A s \in Rescans : scan[s].always \subseteq scan[s].ever

CoordinatorInv == CountInv /\ PlanCurrent /\ CoordinatorTyped /\ OutsideTyped

(* What is subscribed and polled lies in the map. *)
LEMMA PolledInMap ==
  ASSUME CountInv
  PROVE  subscribed \subseteq Registers /\ Polled \subseteq Registers
BY EntitiesAssumption DEF CountInv, Polled

(* A cycle that does not run is sound. *)
LEMMA NoCycleSound == Sound(NoCycle)
<1>1. DOMAIN <<>> = {} /\ <<>> \in Seq(Ranges) /\ Len(<<>>) = 0
  OBVIOUS
<1>2. NoCycle \in CycleState
  BY <1>1 DEF NoCycle, CycleState
<1> QED BY <1>1, <1>2 DEF Sound, NoCycle, PlanWords

(* A coordinator just made has its types. *)
LEMMA FreshTyped ==
  ASSUME NEW stored, FreshCoordinator(stored), stored \subseteq Registers
  PROVE  CoordinatorTyped'
BY NoCycleSound DEF FreshCoordinator, CoordinatorTyped

(* The strengthened invariant holds at the start. *)
LEMMA CoordinatorInvInit == Init => CoordinatorInv
<1> SUFFICES ASSUME Init PROVE CoordinatorInv
  OBVIOUS
<1>1. CoordinatorTyped
  BY NoCycleSound DEF Init, CoordinatorTyped, RegistersIn
<1>2. OutsideTyped
  <2>1. NoScan \in RescanState /\ NoScan.always \subseteq NoScan.ever
    BY DEF NoScan, RescanState
  <2> QED BY <2>1 DEF Init, OutsideTyped, RegistersIn
<1> QED BY <1>1, <1>2, CountInit DEF CoordinatorInv, Init, PlanCurrent

(* The plan a cycle begins with. *)
LEMMA EnsuredIsSafe ==
  ASSUME CoordinatorInv
  PROVE  Ensured \in Seq(Ranges) /\ PlanWords(Ensured) \subseteq AddressSet(present)
<1>1. Ensured = PlanSpans(Polled \intersect present, present)
  BY DEF Ensured, CoordinatorInv, PlanCurrent
<1>2. present \in SUBSET Registers /\ Polled \intersect present \in SUBSET present
  BY DEF CoordinatorInv, CoordinatorTyped
<1> QED BY <1>1, <1>2, PlanIsSafe

(* Every step keeps the types, the plan's included. *)
LEMMA TypedStep == CoordinatorInv /\ [Next]_vars => CoordinatorTyped' /\ OutsideTyped'
<1> SUFFICES ASSUME CoordinatorInv, [Next]_vars PROVE CoordinatorTyped' /\ OutsideTyped'
  OBVIOUS
<1> USE DEF CoordinatorInv
<1>1. /\ present \subseteq Registers /\ Polled \subseteq Registers
      /\ AddressSet(present) \subseteq AddressSet(Registers)
  BY PolledInMap DEF CoordinatorTyped, AddressSet
<1>2. ASSUME UNCHANGED <<phase, planVars, cycleVars>> PROVE CoordinatorTyped'
  BY <1>2 DEF planVars, cycleVars, CoordinatorTyped
<1>3. ASSUME UNCHANGED <<unitVars, scan>> PROVE OutsideTyped'
  BY <1>3 DEF unitVars, OutsideTyped
<1>4. \A s \in Rescans : scan[s] \in RescanState /\ scan[s].always \subseteq scan[s].ever
  BY DEF OutsideTyped
<1>5. NoScan \in RescanState /\ NoScan.always \subseteq NoScan.ever
  BY DEF NoScan, RescanState
<1>6. ASSUME NEW u \in Units, Refit(u) PROVE CoordinatorTyped' /\ OutsideTyped'
  <2>1. CoordinatorTyped'
    BY <1>2, <1>6 DEF Refit
  <2>2. ASSUME NEW s \in Rescans
        PROVE  scan'[s] \in RescanState /\ scan'[s].always \subseteq scan'[s].ever
    <3>1. CASE scan[s].pc = "probing"
      <4>1. scan'[s] = [scan[s] EXCEPT !.always = @ \intersect u, !.ever = @ \union u]
        BY <1>6, <3>1 DEF Refit
      <4>2. scan[s].always \intersect u \in SUBSET UNION Units
            /\ scan[s].ever \union u \in SUBSET UNION Units
        BY <1>4 DEF RescanState
      <4>3. /\ scan'[s] \in RescanState
            /\ scan'[s].always = scan[s].always \intersect u
            /\ scan'[s].ever = scan[s].ever \union u
        BY <1>4, <4>1, <4>2 DEF RescanState
      <4> QED BY <1>4, <4>3
    <3>2. CASE scan[s].pc # "probing"
      <4>1. scan'[s] = scan[s]
        BY <1>6, <3>2 DEF Refit
      <4> QED BY <1>4, <4>1
    <3> QED BY <3>1, <3>2
  <2>3. scan' = [s \in Rescans |-> scan'[s]]
    BY <1>6 DEF Refit
  <2>4. scan' \in [Rescans -> RescanState]
    BY <2>2, <2>3
  <2> QED BY <1>6, <2>1, <2>2, <2>4 DEF Refit, OutsideTyped
<1>7. ASSUME NEW e \in Entities, Subscribe(e) \/ Unsubscribe(e)
      PROVE  CoordinatorTyped' /\ OutsideTyped'
  <2>1. /\ UNCHANGED <<phase, present, spans, cycleVars, unitVars, scan>>
        /\ stale' \in BOOLEAN
    BY <1>7 DEF Subscribe, Unsubscribe, CoordinatorTyped
  <2> QED BY <1>3, <2>1 DEF CoordinatorTyped, cycleVars
<1>8. ASSUME NEW e \in Entities, Write(e) PROVE CoordinatorTyped' /\ OutsideTyped'
  <2>1. data' \subseteq Registers
    BY <1>8, EntitiesAssumption DEF Write, CoordinatorTyped
  <2>2. UNCHANGED <<phase, planVars, cycle, unitVars, scan>> /\ ok' = TRUE
    BY <1>8 DEF Write
  <2> QED BY <1>3, <2>1, <2>2 DEF CoordinatorTyped, planVars
<1>9. ASSUME NEW c \in Cycles, NEW x, Sound(x), cycle' = [cycle EXCEPT ![c] = x]
      PROVE  DOMAIN cycle' = Cycles /\ \A d \in Cycles : Sound(cycle'[d])
  BY <1>9 DEF CoordinatorTyped
<1>10. ASSUME NEW c \in Cycles, StartCycle(c) \/ ReadSpan(c)
       PROVE  CoordinatorTyped' /\ OutsideTyped'
  <2>1. OutsideTyped' /\ present' = present /\ stale' \in BOOLEAN
    BY <1>3, <1>10 DEF StartCycle, ReadSpan, planVars, CoordinatorTyped
  <2>2. CASE StartCycle(c)
    <3>1. CASE Ensured # <<>>
      <4> DEFINE x == [plan |-> Ensured, at |-> 1, words |-> {}, scanned |-> present]
      <4>1. cycle' = [cycle EXCEPT ![c] = x] /\ UNCHANGED <<data, ok, phase>>
        BY <2>2, <3>1 DEF StartCycle
      <4>2. Ensured \in Seq(Ranges) /\ PlanWords(Ensured) \subseteq AddressSet(present)
        BY EnsuredIsSafe
      <4>3. 1 \in 0 .. Len(Ensured)
        BY <3>1, <4>2
      <4>4. Sound(x)
        BY <1>1, <4>2, <4>3 DEF Sound, CycleState
      <4> HIDE DEF x
      <4> QED BY <1>9, <2>1, <4>1, <4>4 DEF CoordinatorTyped
    <3>2. CASE ~(Ensured # <<>>)
      <4>1. cycle' = cycle /\ data' = {} /\ ok' = TRUE /\ phase' = "up"
        BY <2>2, <3>2 DEF StartCycle
      <4> QED BY <2>1, <4>1 DEF CoordinatorTyped
    <3> QED BY <3>1, <3>2
  <2>3. CASE ReadSpan(c)
    <3> DEFINE read == cycle[c].words \union NextWords(c)
    <3>1. Sound(cycle[c]) /\ Runs(c)
      BY <2>3 DEF ReadSpan, CoordinatorTyped
    <3>2. /\ cycle[c].at \in DOMAIN cycle[c].plan /\ Len(cycle[c].plan) \in Nat
          /\ cycle[c].at \in Nat
      BY <3>1 DEF Sound, CycleState, Runs
    <3>3. read \subseteq AddressSet(Registers)
      <4>1. NextWords(c) \subseteq PlanWords(cycle[c].plan)
        BY <3>2 DEF NextWords, PlanWords
      <4>2. AddressSet(cycle[c].scanned) \subseteq AddressSet(Registers)
        BY <3>1 DEF Sound, CycleState, AddressSet
      <4> QED BY <3>1, <4>1, <4>2 DEF Sound, CycleState
    <3>6. cycle[c] \in CycleState
      BY <3>1 DEF Sound
    <3> HIDE DEF read
    <3>4. CASE cycle[c].at < Len(cycle[c].plan)
      <4> DEFINE v == [cycle[c] EXCEPT !.at = @ + 1]
                 x == [v EXCEPT !.words = read]
      <4>1. cycle' = [cycle EXCEPT ![c] = x] /\ UNCHANGED <<data, ok, phase>>
        BY <2>3, <3>4 DEF ReadSpan, read
      <4>2. /\ x \in CycleState /\ x.at = cycle[c].at + 1
            /\ x.plan = cycle[c].plan /\ x.scanned = cycle[c].scanned
        <5>1. /\ v \in CycleState /\ v.at = cycle[c].at + 1
              /\ v.plan = cycle[c].plan /\ v.scanned = cycle[c].scanned
          BY <3>2, <3>6 DEF CycleState
        <5> HIDE DEF v
        <5>2. x \in CycleState /\ x.at = v.at /\ x.plan = v.plan /\ x.scanned = v.scanned
          BY <3>3, <5>1 DEF CycleState
        <5> QED BY <5>1, <5>2
      <4>3. cycle[c].at + 1 \in 0 .. Len(cycle[c].plan)
        BY <3>2, <3>4
      <4>4. Sound(x)
        BY <3>1, <4>2, <4>3 DEF Sound
      <4> HIDE DEF x
      <4> QED BY <1>9, <2>1, <4>1, <4>4 DEF CoordinatorTyped
    <3>5. CASE ~(cycle[c].at < Len(cycle[c].plan))
      <4>1. /\ cycle' = [cycle EXCEPT ![c] = NoCycle] /\ ok' = TRUE /\ phase' = "up"
            /\ data' \subseteq Polled
        BY <2>3, <3>5 DEF ReadSpan, read
      <4> QED BY <1>1, <1>9, <2>1, <4>1, NoCycleSound DEF CoordinatorTyped
    <3> QED BY <3>4, <3>5
  <2> QED BY <1>10, <2>2, <2>3
<1>11. ASSUME NEW c \in Cycles, NEW replan \in BOOLEAN, CycleFails(c, replan)
       PROVE  CoordinatorTyped' /\ OutsideTyped'
  <2>1. OutsideTyped'
    BY <1>3, <1>11 DEF CycleFails
  <2>2. CASE phase = "up"
    <3>1. /\ cycle' = [cycle EXCEPT ![c] = NoCycle] /\ ok' = FALSE /\ stale' \in BOOLEAN
          /\ UNCHANGED <<phase, present, data>>
      BY <1>11, <2>2 DEF CycleFails, CoordinatorTyped
    <3> QED BY <1>9, <2>1, <3>1, NoCycleSound DEF CoordinatorTyped
  <2>3. CASE phase # "up"
    BY <1>11, <2>1, <2>3, FreshTyped DEF CycleFails, OutsideTyped
  <2> QED BY <2>2, <2>3
<1>12. CASE \E c \in Cycles : ReadHole(c) \/ ReadFails(c)
  BY <1>11, <1>12 DEF ReadHole, ReadFails
<1>13. ASSUME NEW s \in Rescans, StartRescan(s) \/ RescanFails(s)
       PROVE  CoordinatorTyped' /\ OutsideTyped'
  <2>1. CoordinatorTyped' /\ UNCHANGED unitVars
    BY <1>2, <1>13 DEF StartRescan, RescanFails
  <2>2. PICK new : /\ scan' = [scan EXCEPT ![s] = new]
                   /\ new \in RescanState /\ new.always \subseteq new.ever
    <3>1. CASE StartRescan(s)
      <4> DEFINE new == [pc |-> "probing", own |-> TRUE, always |-> unit, ever |-> unit]
      <4>1. new \in RescanState /\ new.always \subseteq new.ever
        BY DEF OutsideTyped, RescanState
      <4> QED BY <3>1, <4>1 DEF StartRescan
    <3>2. CASE RescanFails(s)
      BY <1>5, <3>2 DEF RescanFails
    <3> QED BY <1>13, <3>1, <3>2
  <2> QED BY <1>4, <2>1, <2>2 DEF OutsideTyped, unitVars
<1>14. ASSUME NEW s \in Rescans, RescanFinds(s)
       PROVE  CoordinatorTyped' /\ OutsideTyped'
  <2>1. PICK found \in SUBSET scan[s].ever :
          /\ scan' = [scan EXCEPT ![s] = [@ EXCEPT !.pc = "saving", !.always = found,
                                                   !.ever = found]]
          /\ present' = IF scan[s].own THEN RegistersIn(found) ELSE present
          /\ stale' = (stale \/ scan[s].own)
    BY <1>14 DEF RescanFinds
  <2>2. UNCHANGED <<unitVars, phase, spans, cycleVars>>
    BY <1>14 DEF RescanFinds
  <2>3. present' \subseteq Registers /\ stale' \in BOOLEAN
    BY <1>1, <1>4, <2>1 DEF RegistersIn, CoordinatorTyped, RescanState
  <2> DEFINE new == [scan[s] EXCEPT !.pc = "saving", !.always = found, !.ever = found]
  <2>4. new \in RescanState /\ new.always = found /\ new.ever = found
    BY <1>4 DEF RescanState
  <2>5. scan' = [scan EXCEPT ![s] = new]
    BY <2>1
  <2> HIDE DEF new
  <2>6. OutsideTyped'
    BY <1>4, <2>2, <2>4, <2>5 DEF OutsideTyped, unitVars
  <2> QED BY <2>2, <2>3, <2>6 DEF CoordinatorTyped, cycleVars
<1>15. ASSUME NEW s \in Rescans
       PROVE  LET disowned == [scan[s] EXCEPT !.own = FALSE]
              IN disowned \in RescanState /\ disowned.always \subseteq disowned.ever
  BY <1>4 DEF RescanState
<1>16. ASSUME NEW s \in Rescans, RescanSaved(s)
       PROVE  CoordinatorTyped' /\ OutsideTyped'
  <2>1. /\ disk' = RegistersIn(scan[s].ever) /\ FreshCoordinator(disk') /\ unit' = unit
        /\ scan' = [t \in Rescans |->
                       IF t = s THEN NoScan ELSE [scan[t] EXCEPT !.own = FALSE]]
    BY <1>16 DEF RescanSaved
  <2>2. disk' \subseteq Registers
    BY <2>1 DEF RegistersIn
  <2> QED BY <1>5, <1>15, <2>1, <2>2, FreshTyped DEF OutsideTyped
<1>17. CASE Reload
  <2>1. /\ FreshCoordinator(disk) /\ UNCHANGED unitVars
        /\ \/ scan' = [s \in Rescans |-> [scan[s] EXCEPT !.own = FALSE]]
           \/ scan' = [s \in Rescans |-> NoScan]
    BY <1>17 DEF Reload
  <2> QED BY <1>5, <1>15, <2>1, FreshTyped DEF OutsideTyped, unitVars
<1>18. CASE ScanAtSetup
  <2>1. disk' \subseteq Registers
    BY <1>18 DEF ScanAtSetup, RegistersIn
  <2> QED BY <1>18, <2>1, FreshTyped DEF ScanAtSetup, OutsideTyped
<1>19. CASE UNCHANGED vars
  BY <1>2, <1>3, <1>19 DEF vars
<1> QED BY <1>6, <1>7, <1>8, <1>10, <1>12, <1>13, <1>14, <1>16, <1>17, <1>18, <1>19
    DEF Next

(* The strengthened invariant holds for ever. *)
LEMMA CoordinatorInvHolds == Spec => []CoordinatorInv
<1>1. CoordinatorInv /\ [Next]_vars => CoordinatorInv'
  BY CountStep, PlanStep, TypedStep DEF CoordinatorInv
<1> QED BY <1>1, CoordinatorInvInit, PTL DEF Spec

(* Whatever happens in whatever order, the coordinator deals in registers  *)
(* and addresses of the map only, and a cycle never leaves its plan.       *)
THEOREM CoordinatorTypeCorrect == Spec => []TypeOK
<1>1. CoordinatorInv => TypeOK
  <2> SUFFICES ASSUME CoordinatorInv PROVE TypeOK
    OBVIOUS
  <2>1. subscribers \in [Registers -> 0 .. Cardinality(Entities)]
    <3>1. \A r \in Registers : Cardinality(Showing(added, r)) \in 0 .. Cardinality(Entities)
      <4> SUFFICES ASSUME NEW r \in Registers
                   PROVE  Cardinality(Showing(added, r)) \in 0 .. Cardinality(Entities)
        OBVIOUS
      <4>1. Showing(added, r) \in SUBSET Entities /\ IsFiniteSet(Entities)
        BY EntitiesAssumption DEF Showing, CoordinatorInv, CountInv
      <4> QED BY <4>1, FS_Subset, FS_CardinalityType
    <3> QED BY <3>1 DEF CoordinatorInv, CountInv
  <2>2. added \subseteq Entities /\ subscribed \subseteq Registers
    BY PolledInMap DEF CoordinatorInv, CountInv
  <2>3. \A s \in Rescans : scan[s].pc \in {"none", "probing", "saving"}
                           /\ scan[s].always \subseteq scan[s].ever
    BY DEF CoordinatorInv, OutsideTyped, RescanState
  <2>4. \A c \in Cycles :
          /\ cycle[c].at \in 0 .. Len(cycle[c].plan)
          /\ cycle[c].words \subseteq AddressSet(Registers) /\ cycle[c].scanned \subseteq Registers
    BY DEF CoordinatorInv, CoordinatorTyped, Sound, CycleState
  <2> QED BY <2>1, <2>2, <2>3, <2>4 DEF CoordinatorInv, CoordinatorTyped, OutsideTyped, TypeOK
<1> QED BY <1>1, CoordinatorInvHolds, PTL

(* A read is refused (ModbusIllegalAddress in _async_update_data) only if  *)
(* the unit has lost an address of the scan in force when the cycle began, *)
(* whichever other cycles, rescans and subscriptions have changed the plan *)
(* since: bridging gaps never draws an exception from the pump.            *)
THEOREM RefusedRightly == Spec => RefusedOnlyAfterRefit
<1>1. ASSUME CoordinatorInv, NEW c \in Cycles, ReadHole(c)
      PROVE  ~(AddressSet(cycle[c].scanned) \subseteq unit)
  <2> SUFFICES ASSUME AddressSet(cycle[c].scanned) \subseteq unit PROVE FALSE
    OBVIOUS
  <2>1. Sound(cycle[c])
    BY <1>1 DEF CoordinatorInv, CoordinatorTyped
  <2>2. cycle[c].at \in DOMAIN cycle[c].plan
    BY <1>1, <2>1 DEF ReadHole, Runs, Sound, CycleState
  <2>3. NextWords(c) \subseteq PlanWords(cycle[c].plan)
    BY <2>2 DEF NextWords, PlanWords
  <2>4. PlanWords(cycle[c].plan) \subseteq AddressSet(cycle[c].scanned)
    BY <2>1 DEF Sound
  <2>5. ~(NextWords(c) \subseteq unit)
    BY <1>1 DEF ReadHole
  <2> QED BY <2>3, <2>4, <2>5
<1>2. CoordinatorInv =>
        [\A c \in Cycles : ReadHole(c) => ~(AddressSet(cycle[c].scanned) \subseteq unit)]_vars
  BY <1>1
<1> QED BY <1>2, CoordinatorInvHolds, PTL DEF RefusedOnlyAfterRefit
=============================================================================
