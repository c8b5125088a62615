----------------------------- MODULE Coordinator -----------------------------
(***************************************************************************)
(* The coordinator of an S-series entry (coordinator.NibeCoordinator) with *)
(* what it works between: entities that subscribe to registers, the unit   *)
(* whose register layout a firmware update or a fitted accessory changes,  *)
(* the stored scan, rescans, and the entry's set-up and reloads.           *)
(*                                                                         *)
(* An action runs from one await to the next.  Values are left out: of the *)
(* data only which registers it has matters here.  A refresh that a write  *)
(* or a rescan asks for may overlap the one that was due, each with the    *)
(* plan it began with.                                                     *)
(***************************************************************************)
EXTENDS SpanPlan

CONSTANTS
  Internal,     \* registers read whether or not an entity shows them
  Entities,     \* whatever subscribes: entities, and the mode controller
  RegisterOf,   \* the register each shows; two may share one
  Units,        \* the layouts the unit may have: sets of addresses
  Rescans,      \* rescans that may run at once
  Cycles,       \* poll cycles that may run at once
  MaxTasks      \* bound: cycles and rescans under way at once

ASSUME EntitiesAssumption ==
  /\ Internal \subseteq Registers
  /\ IsFiniteSet(Entities) /\ RegisterOf \in [Entities -> Registers]
(* Rescans alone never keep cycles from starting. *)
ASSUME TasksAssumption == MaxTasks \in Nat /\ Cardinality(Rescans) < MaxTasks

VARIABLES
  unit,        \* the addresses the unit implements now
  disk,        \* the stored scan: the registers it found present
  phase,       \* setup (the first refresh is still to come) or up
  present,     \* coordinator.discovery.present
  added,       \* the entities that have subscribed
  subscribers, \* _subscribers
  subscribed,  \* _subscribed
  spans,       \* _spans
  stale,       \* _spans_stale
  cycle,       \* per poll cycle: its plan, the span it reads (0 when it is none),
               \* the addresses read, and the scan in force when it began
  data,        \* the registers coordinator.data has a value for
  ok,          \* last_update_success
  scan         \* per rescan: where it is and what it can have found

unitVars == <<unit, disk>>
entityVars == <<added, subscribers, subscribed>>
planVars == <<present, spans, stale>>
cycleVars == <<cycle, data, ok>>
vars == <<unitVars, phase, entityVars, planVars, cycleVars, scan>>

RegistersIn(addresses) == {r \in Registers : WordsOf[r] \subseteq addresses}

NoScan == [pc |-> "none", own |-> FALSE, always |-> {}, ever |-> {}]

NoCycle == [plan |-> <<>>, at |-> 0, words |-> {}, scanned |-> {}]
Runs(c) == cycle[c].at # 0

Polled == subscribed \union Internal

Tasks == {c \in Cycles : Runs(c)} \union {s \in Rescans : scan[s].pc # "none"}

Init ==
  /\ unit \in Units
  /\ disk = RegistersIn(unit)
  /\ phase = "setup"
  /\ present = disk
  /\ added = {}
  /\ subscribers = [r \in Registers |-> 0]
  /\ subscribed = {}
  /\ spans = <<>>
  /\ stale = TRUE
  /\ cycle = [c \in Cycles |-> NoCycle]
  /\ data = {}
  /\ ok = TRUE
  /\ scan = [s \in Rescans |-> NoScan]

(* A firmware update, an accessory fitted or taken away. *)
Refit(u) ==
  /\ u # unit
  /\ unit' = u
  /\ scan' = [s \in Rescans |->
                IF scan[s].pc = "probing"
                  THEN [scan[s] EXCEPT !.always = @ \intersect u, !.ever = @ \union u]
                  ELSE scan[s]]
  /\ UNCHANGED <<disk, phase, entityVars, planVars, cycleVars>>

----------------------------------------------------------------------------
(* Entities *)

SubscribeUnplanned(e) ==
  LET r == RegisterOf[e] IN
  /\ phase = "up"
  /\ e \notin added
  /\ r \in disk
  /\ added' = added \union {e}
  /\ subscribers' = [subscribers EXCEPT ![r] = @ + 1]
  /\ subscribed' = subscribed \union {r}
  /\ UNCHANGED <<unitVars, phase, present, spans, stale, cycleVars, scan>>

(* An entity is added; platforms made one for each register of the scan.   *)
Subscribe(e) ==
  LET r == RegisterOf[e] IN
  /\ phase = "up"
  /\ e \notin added
  /\ r \in disk
  /\ added' = added \union {e}
  /\ subscribers' = [subscribers EXCEPT ![r] = @ + 1]
  /\ subscribed' = subscribed \union {r}
  /\ stale' = (stale \/ r \notin subscribed)
  /\ UNCHANGED <<unitVars, phase, present, spans, cycleVars, scan>>

UnsubscribeUncounted(e) ==
  LET r == RegisterOf[e] IN
  /\ phase = "up"
  /\ e \in added
  /\ added' = added \ {e}
  /\ subscribers' = [subscribers EXCEPT ![r] = @ - 1]
  /\ subscribed' = subscribed \ {r}
  /\ stale' = TRUE
  /\ UNCHANGED <<unitVars, phase, present, spans, cycleVars, scan>>

(* An entity is disabled or removed; the last one takes the register out.  *)
Unsubscribe(e) ==
  LET r == RegisterOf[e] IN
  /\ phase = "up"
  /\ e \in added
  /\ added' = added \ {e}
  /\ subscribers' = [subscribers EXCEPT ![r] = @ - 1]
  /\ IF subscribers'[r] > 0
       THEN UNCHANGED <<subscribed, stale>>
       ELSE subscribed' = subscribed \ {r} /\ stale' = TRUE
  /\ UNCHANGED <<unitVars, phase, present, spans, cycleVars, scan>>

(* A write is read back: the register is in the data at once, and the data *)
(* counts as updated.                                                      *)
Write(e) ==
  LET r == RegisterOf[e] IN
  /\ phase = "up"
  /\ e \in added
  /\ WordsOf[r] \subseteq unit
  /\ data' = data \union {r}
  /\ ok' = TRUE
  /\ UNCHANGED <<unitVars, phase, entityVars, planVars, cycle, scan>>

----------------------------------------------------------------------------
(* The poll cycle *)

Ensured ==
  IF stale THEN PlanSpans(Polled \intersect present, present) ELSE spans

(* A cycle begins with a new plan if the old one is stale; with nothing to *)
(* read it is over at once.  Until the first is over there is no other.    *)
StartCycle(c) ==
  /\ ~Runs(c) /\ (phase = "setup" => \A d \in Cycles : ~Runs(d))
  /\ Cardinality(Tasks) < MaxTasks
  /\ stale' = FALSE
  /\ LET plan == Ensured IN
       /\ spans' = plan
       /\ IF plan # <<>>
            THEN /\ cycle' = [cycle EXCEPT ![c] = [plan |-> plan, at |-> 1, words |-> {},
                                                  scanned |-> present]]
                 /\ UNCHANGED <<data, ok, phase>>
            ELSE data' = {} /\ ok' = TRUE /\ phase' = "up" /\ UNCHANGED cycle
  /\ UNCHANGED <<unitVars, entityVars, present, scan>>

(* The words of the span a cycle reads next. *)
NextWords(c) == SpanWords(cycle[c].plan[cycle[c].at])

ReadSpanPastEnd(c) ==
  /\ Runs(c)
  /\ NextWords(c) \subseteq unit
  /\ cycle' = [cycle EXCEPT ![c].at = @ + 1, ![c].words = @ \union NextWords(c)]
  /\ UNCHANGED <<data, ok, phase, unitVars, entityVars, planVars, scan>>

(* A span is read; after the last one the data is replaced by every polled *)
(* register whose words are all there.                                     *)
ReadSpan(c) ==
  /\ Runs(c)
  /\ NextWords(c) \subseteq unit
  /\ LET read == cycle[c].words \union NextWords(c) IN
       IF cycle[c].at < Len(cycle[c].plan)
         THEN /\ cycle' = [cycle EXCEPT ![c].at = @ + 1, ![c].words = read]
              /\ UNCHANGED <<data, ok, phase>>
         ELSE /\ cycle' = [cycle EXCEPT ![c] = NoCycle]
              /\ data' = Polled \intersect RegistersIn(read)
              /\ ok' = TRUE
              /\ phase' = "up"
  /\ UNCHANGED <<unitVars, entityVars, planVars, scan>>

(* The coordinator an entry is set up with knows what was stored, and      *)
(* nobody has subscribed to it.                                            *)
FreshCoordinator(stored) ==
  /\ phase' = "setup"
  /\ present' = stored
  /\ added' = {}
  /\ subscribers' = [r \in Registers |-> 0]
  /\ subscribed' = {}
  /\ spans' = <<>>
  /\ stale' = TRUE
  /\ cycle' = [c \in Cycles |-> NoCycle]
  /\ data' = {}
  /\ ok' = TRUE

(* UpdateFailed.  Once the entry is up the data stays; if it was the first *)
(* refresh, the set-up is tried again from the start.                      *)
CycleFails(c, replan) ==
  /\ IF phase = "up"
       THEN /\ cycle' = [cycle EXCEPT ![c] = NoCycle]
            /\ ok' = FALSE
            /\ stale' = (stale \/ replan)
            /\ UNCHANGED <<phase, entityVars, present, spans, data>>
       ELSE FreshCoordinator(disk)
  /\ UNCHANGED <<unitVars, scan>>

(* A span reaches over an address the unit lacks: an exception answer. *)
ReadHole(c) ==
  /\ Runs(c)
  /\ ~(NextWords(c) \subseteq unit)
  /\ CycleFails(c, TRUE)

(* The connection is lost, or the pump is too busy to answer: an exception *)
(* answer as well.                                                         *)
ReadFails(c) ==
  /\ Runs(c)
  /\ \E replan \in BOOLEAN : CycleFails(c, replan)

----------------------------------------------------------------------------
(* Rescans, set-up and restarts *)

StartRescan(s) ==
  /\ phase = "up"
  /\ scan[s].pc = "none" /\ Cardinality(Tasks) < MaxTasks
  /\ scan' = [scan EXCEPT ![s] =
                [pc |-> "probing", own |-> TRUE, always |-> unit, ever |-> unit]]
  /\ UNCHANGED <<unitVars, phase, entityVars, planVars, cycleVars>>

(* The scan raises, and its result is dropped. *)
RescanFails(s) ==
  /\ scan[s].pc = "probing"
  /\ scan' = [scan EXCEPT ![s] = NoScan]
  /\ UNCHANGED <<unitVars, phase, entityVars, planVars, cycleVars>>

RescanKeepsPlan(s) ==
  /\ scan[s].pc = "probing"
  /\ \E found \in SUBSET scan[s].ever :
       /\ scan[s].always \subseteq found
       /\ scan' = [scan EXCEPT ![s] = [@ EXCEPT !.pc = "saving", !.always = found,
                                                !.ever = found]]
       /\ present' = IF scan[s].own THEN RegistersIn(found) ELSE present
  /\ UNCHANGED <<unitVars, phase, entityVars, spans, stale, cycleVars>>

(* Its result is taken up: each address that was there all along was       *)
(* found, and none that never was.  A scan that outlived a reload belongs  *)
(* to the coordinator of before.                                           *)
RescanFinds(s) ==
  /\ scan[s].pc = "probing"
  /\ \E found \in SUBSET scan[s].ever :
       /\ scan[s].always \subseteq found
       /\ scan' = [scan EXCEPT ![s] = [@ EXCEPT !.pc = "saving", !.always = found,
                                                !.ever = found]]
       /\ present' = IF scan[s].own THEN RegistersIn(found) ELSE present
       /\ stale' = (stale \/ scan[s].own)
  /\ UNCHANGED <<unitVars, phase, entityVars, spans, cycleVars>>

RescanUnsaved(s) ==
  /\ scan[s].pc = "saving"
  /\ scan' = [t \in Rescans |->
                IF t = s THEN NoScan ELSE [scan[t] EXCEPT !.own = FALSE]]
  /\ FreshCoordinator(disk)
  /\ UNCHANGED unitVars

(* The result is stored and the entry reloaded: entities for what was      *)
(* found.                                                                  *)
RescanSaved(s) ==
  /\ scan[s].pc = "saving"
  /\ disk' = RegistersIn(scan[s].ever)
  /\ scan' = [t \in Rescans |->
                IF t = s THEN NoScan ELSE [scan[t] EXCEPT !.own = FALSE]]
  /\ FreshCoordinator(disk')
  /\ UNCHANGED unit

(* The entry is set up again: options changed (rescans go on), or Home     *)
(* Assistant started anew (they are gone).                                 *)
Reload ==
  /\ scan' \in {[s \in Rescans |-> [scan[s] EXCEPT !.own = FALSE]],
                [s \in Rescans |-> NoScan]}
  /\ FreshCoordinator(disk)
  /\ UNCHANGED unitVars

(* The set-up of another version of the integration scans for itself. *)
ScanAtSetup ==
  /\ phase = "setup" /\ \A c \in Cycles : ~Runs(c)
  /\ disk' = RegistersIn(unit)
  /\ FreshCoordinator(disk')
  /\ UNCHANGED <<unit, scan>>

Next ==
  \/ \E u \in Units : Refit(u)
  \/ \E e \in Entities : Subscribe(e) \/ Unsubscribe(e) \/ Write(e)
  \/ \E c \in Cycles : StartCycle(c) \/ ReadSpan(c) \/ ReadHole(c) \/ ReadFails(c)
  \/ \E s \in Rescans :
       StartRescan(s) \/ RescanFails(s) \/ RescanFinds(s) \/ RescanSaved(s)
  \/ Reload \/ ScanAtSetup

Spec == Init /\ [][Next]_vars

(* Nothing is read, and one more cycle would change nothing. *)
Running == \E c \in Cycles : Runs(c)
Idle == ~Running /\ spans = <<>> /\ ~stale /\ data = {} /\ ok /\ phase = "up"

(* Cycles are repeated for ever and end, as do rescans.  (The first        *)
(* conjunct is WF_vars(StartCycle(c) of any c): a cycle can start whenever *)
(* none is going on, and only when Idle does it change nothing.)           *)
Fairness ==
  /\ []<>(Running \/ Idle)
  /\ \A c \in Cycles : WF_vars(ReadSpan(c) \/ ReadHole(c))
  /\ \A s \in Rescans :
       WF_vars(RescanFinds(s) \/ RescanFails(s)) /\ WF_vars(RescanSaved(s))

FairSpec == Spec /\ Fairness

----------------------------------------------------------------------------
(* Properties *)

(* Every variable stays in its type: registers and addresses of the map, a *)
(* cycle inside its plan, rescans at one of their awaits.                  *)
TypeOK ==
  /\ unit \in Units
  /\ phase \in {"setup", "up"}
  /\ UNION {disk, present, subscribed, data} \subseteq Registers
  /\ added \subseteq Entities
  /\ subscribers \in [Registers -> 0 .. Cardinality(Entities)]
  /\ \A c \in Cycles :
       /\ cycle[c].at \in 0 .. Len(cycle[c].plan)
       /\ cycle[c].words \subseteq AddressSet(Registers) /\ cycle[c].scanned \subseteq Registers
  /\ stale \in BOOLEAN /\ ok \in BOOLEAN
  /\ \A s \in Rescans :
       scan[s].pc \in {"none", "probing", "saving"} /\ scan[s].always \subseteq scan[s].ever

(* A register is polled for as long as somebody shows it - "the heat       *)
(* offset backs both its own number and the heating mode select" - and no  *)
(* longer.                                                                 *)
SubscriptionsCounted ==
  /\ \A r \in Registers :
       subscribers[r] = Cardinality({e \in added : RegisterOf[e] = r})
  /\ subscribed = {RegisterOf[e] : e \in added}

(* A plan that is not marked stale is the one for what is polled now and   *)
(* for the scan in force now.                                              *)
PlanCurrent == ~stale => spans = PlanSpans(Polled \intersect present, present)

(* A cycle is refused only if the unit has lost an address of the scan in  *)
(* force when the cycle began: what is subscribed, scanned and planned     *)
(* beside it, and the gaps bridged, never draw an exception from the pump. *)
RefusedOnlyAfterRefit ==
  [][\A c \in Cycles : ReadHole(c) => ~(AddressSet(cycle[c].scanned) \subseteq unit)]_vars

Refused == \E c \in Cycles : ReadHole(c)
Fails == \E c \in Cycles : ReadFails(c)

Refits == unit' # unit

(* What disturbs polling from outside: the unit, rescans, the network,     *)
(* restarts.                                                               *)
Disturbed ==
  \/ Refits \/ scan' # scan
  \/ (Fails /\ ~Refused) \/ Reload \/ ScanAtSetup

EntitiesChange == added' # added

(* Left alone on a unit that has what was scanned, the coordinator comes   *)
(* to show a value for exactly the registers polled, entities added in the *)
(* middle of a cycle included.                                             *)
ShowsWhatIsPolled ==
  <>[][~Disturbed /\ ~EntitiesChange]_vars =>
    <>[](AddressSet(disk) \subseteq unit =>
           phase = "up" /\ ok /\ data = Polled \intersect present)

(* Once the layout rests and rescans are carried through, no cycle is      *)
(* refused any more: rescans that overlap, outlive a reload or began       *)
(* before the refit do no lasting harm.                                    *)
RescanHeals ==
  (<>[][~Refits]_vars /\ []<><<\E s \in Rescans : RescanSaved(s)>>_vars)
    => <>[][~Refused]_vars

(* "Force a re-plan so the next cycle skips the bad range": refused cycles *)
(* come to an end by themselves.                                           *)
SkipsBadRange == <>[][~Disturbed]_vars => <>[][~Refused]_vars
=============================================================================
