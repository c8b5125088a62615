------------------------- MODULE GatewayCoordinator -------------------------
(***************************************************************************)
(* The coordinator of an F-series entry: poll cycles that read what is due *)
(* one register at a time within a budget, values the pump pushes, writes  *)
(* that are read back, and rescans, all through one gateway.               *)
(*                                                                         *)
(* An action runs from one await to the next.  Time passes while a request *)
(* is answered or times out, and between cycles.                           *)
(***************************************************************************)
EXTENDS PollSchedule

CONSTANTS
  Internal,          \* read whether or not an entity shows them
  Toggled,           \* registers whose entity is switched on and off
  Pushed,            \* registers in LOG.SET
  Defaults,          \* what a rescan reads whatever is fitted
  Accessories,       \* what it reads besides where a flag says it is fitted
  Announce,          \* read when nothing else keeps the gateway relaying
  Outcomes,          \* how the registers may answer, one for each
  Values, None,
  Cycles,            \* bound: refreshes that may overlap
  ReadCost, TimeoutCost, Keepalive, UnreachableAfter,
  Relay,             \* how long the gateway relays to a host that asked
  MaxDisturbances    \* bound: changes of the pump, writes, toggles, losses

ASSUME SetsAssumption ==
  /\ Internal \union Toggled \union Pushed \union Defaults \union Accessories
       \union {Announce} \subseteq Registers
  /\ None \notin Values /\ Values # {}
  /\ Outcomes \subseteq {o \in [Registers -> {"value", "garbage", "silent"}] :
                           o[Announce] = "value"}
ASSUME CostsAssumption ==
  {ReadCost, TimeoutCost, Keepalive, UnreachableAfter, Relay} \subseteq Nat \ {0}

VARIABLES
  pump,         \* what each register holds
  answers,      \* how each register answers: a value, garbage or not at all
  subscribed,   \* _subscribed; the subscriber counts are Coordinator's
  values,       \* _values
  data,         \* coordinator.data
  ok,           \* last_update_success
  schedule,     \* one record per register
  quiet,        \* time since _last_request
  heard,        \* time since a request of ours was last sent
  refused,      \* history: a write was refused here, unsent, after that request
  timer,        \* time until the next refresh
  flush,        \* a flush is scheduled
  cycle,        \* the refreshes under way
  write,        \* the write under way
  rescan,       \* the rescan under way
  disturbed     \* disturbances so far

pumpVars == <<pump, answers>>
timeVars == <<schedule, quiet, heard, refused, timer, cycle>>
vars == <<pumpVars, subscribed, values, data, ok, timeVars, flush, write, rescan,
          disturbed>>

NoCycle == [queue |-> <<>>, elapsed |-> 0, got |-> FALSE, row |-> 0, answer |-> None]
NoWrite == [pc |-> "none", register |-> Announce, value |-> None]
NoRescan == [queue |-> <<>>, row |-> 0, found |-> [r \in Registers |-> None],
             more |-> TRUE]

Wanted == subscribed \union Internal
Idle(c) == cycle[c].queue = <<>>
Scanning == rescan.queue # <<>>
Readable == {r \in Registers : answers[r] = "value"}

(* Set-up has read the announcing register, its first refresh has found    *)
(* nothing wanted, and the platforms have added their entities.            *)
Init ==
  /\ pump = [r \in Registers |-> CHOOSE v \in Values : TRUE]
  /\ answers \in Outcomes
  /\ subscribed = Registers
  /\ values = [r \in Registers |-> IF r = Announce THEN pump[r] ELSE None]
  /\ data = values
  /\ ok = TRUE
  /\ schedule = Seen([r \in Registers |-> Unknown], Announce)
  /\ quiet = 0 /\ heard = 0 /\ refused = FALSE /\ timer = 0 /\ flush = FALSE
  /\ cycle = [c \in Cycles |-> NoCycle]
  /\ write = NoWrite
  /\ rescan = NoRescan
  /\ disturbed = 0

Disturb == disturbed < MaxDisturbances /\ disturbed' = disturbed + 1

----------------------------------------------------------------------------
(* The passing of time.  A timer that is due fires before time goes on; a  *)
(* cycle's clock matters up to its budget.                                 *)

(* A refresh disarms the timer until it is over. *)
Unarmed == Base + 1

(* The longest request, and the longest the gateway may go without one:    *)
(* the request, a silence just short of the keep-alive and one interval.   *)
Slow == Larger(ReadCost, TimeoutCost)
Longest == Slow + Keepalive - 1 + Base

(* Bound: longer silences are not told apart. *)
Unheard == Larger(Relay, Longest + 1)

InTime == timer > 0 \/ \A c \in Cycles : ~Idle(c)

LaterTimer(d) == IF timer = Unarmed THEN Unarmed ELSE Larger(timer - d, 0)
LaterQuiet(d) == Smaller(quiet + d, Keepalive)
LaterCycles(d) ==
  [c \in Cycles |-> IF Idle(c) THEN NoCycle
                    ELSE [cycle[c] EXCEPT !.elapsed = Smaller(@ + d, Base)]]

(* A request was sent, and has ended after `cost'. *)
Sent(cost) == heard' = cost /\ refused' = FALSE

Wait ==
  /\ timer \in 1 .. Base
  /\ write = NoWrite /\ ~Scanning /\ \A c \in Cycles : Idle(c)
  /\ schedule' = Later(schedule, 1)
  /\ quiet' = LaterQuiet(1)
  /\ heard' = Smaller(heard + 1, Unheard)
  /\ timer' = LaterTimer(1)
  /\ UNCHANGED <<pumpVars, subscribed, values, data, ok, refused, cycle, flush, write,
                 rescan, disturbed>>

----------------------------------------------------------------------------
(* Values that arrive (_on_value, _flush): pushed, or answers to any read  *)

ArrivesUnseen(r, v) ==
  /\ values' = [values EXCEPT ![r] = IF @ = None THEN v ELSE @]
  /\ flush' = (flush \/ (values[r] # v /\ r \in subscribed))

Arrives(r, v) ==
  /\ values' = [values EXCEPT ![r] = v]
  /\ flush' = (flush \/ (values[r] # v /\ r \in subscribed))

Push(r) ==
  /\ r \in Pushed \intersect Readable
  /\ heard < Relay
  /\ Arrives(r, pump[r])
  /\ schedule' = Seen(schedule, r)
  /\ UNCHANGED <<pumpVars, subscribed, data, ok, quiet, heard, refused, timer, cycle, write,
                 rescan, disturbed>>

Flush ==
  /\ flush
  /\ flush' = FALSE
  /\ data' = values
  /\ UNCHANGED <<pumpVars, subscribed, values, ok, timeVars, write, rescan, disturbed>>

----------------------------------------------------------------------------
(* Poll cycles (_async_update_data) *)

Published == data' = values' /\ ok' = TRUE

(* Cycle c, now `next` while the cycles are `cycles`, is over or requests  *)
(* its next register.                                                      *)
Continue(c, next, cycles, passed) ==
  IF next.queue = <<>> \/ 4 * next.elapsed > 3 * Base
    THEN /\ cycle' = [cycles EXCEPT ![c] = NoCycle]
         /\ Published
         /\ timer' = Base
         /\ quiet' = LaterQuiet(passed)
    ELSE /\ cycle' = [cycles EXCEPT ![c] = next]
         /\ quiet' = 0
         /\ timer' = LaterTimer(passed)
         /\ UNCHANGED <<data, ok>>

QueueNoKeepalive == Due(schedule, Wanted)

Queue ==
  LET due == Due(schedule, Wanted) IN
  IF due = <<>> /\ quiet >= Keepalive THEN <<Announce>> ELSE due

(* The timer's refresh, or one an added entity or a rescan asks for.       *)
StartCycle(c) ==
  /\ Idle(c) /\ c = CHOOSE b \in Cycles : Idle(b)
  /\ timer = 0
  /\ UNCHANGED values
  /\ IF Queue = <<>>
       THEN Continue(c, NoCycle, cycle, 0)
       ELSE /\ cycle' = [cycle EXCEPT ![c] = [NoCycle EXCEPT !.queue = Queue]]
            /\ quiet' = 0
            /\ timer' = Unarmed
            /\ UNCHANGED <<data, ok>>
  /\ UNCHANGED <<pumpVars, subscribed, schedule, heard, refused, flush, write, rescan,
                 disturbed>>

Asked(c) == Head(cycle[c].queue)
Reading(c) == ~Idle(c) /\ cycle[c].answer = None

(* The answer arrives: the listener takes it, then the cycle's coroutine   *)
(* is resumed with it.                                                     *)
Answered(c) ==
  LET r == Asked(c) IN
  /\ Reading(c) /\ InTime
  /\ r \in Readable
  /\ Arrives(r, pump[r])
  /\ schedule' = Seen(Later(schedule, ReadCost), r)
  /\ Sent(ReadCost)
  /\ quiet' = LaterQuiet(ReadCost)
  /\ timer' = LaterTimer(ReadCost)
  /\ cycle' = [LaterCycles(ReadCost) EXCEPT ![c].answer = pump[r]]
  /\ UNCHANGED <<pumpVars, subscribed, data, ok, write, rescan, disturbed>>

Resume(c) ==
  /\ ~Idle(c) /\ ~Reading(c)
  /\ values' = [values EXCEPT ![Asked(c)] = cycle[c].answer]
  /\ schedule' = Seen(schedule, Asked(c))
  /\ Continue(c, [cycle[c] EXCEPT !.queue = Tail(@), !.got = TRUE, !.row = 0,
                                  !.answer = None], cycle, 0)
  /\ UNCHANGED <<pumpVars, subscribed, heard, refused, flush, write, rescan, disturbed>>

(* A row of timeouts before anything has answered ends the cycle: the      *)
(* gateway is taken to be gone.                                            *)
Unreachable(next) == ~next.got /\ next.row >= UnreachableAfter

GivesUp(c, cycles) ==
  /\ cycle' = [cycles EXCEPT ![c] = NoCycle]
  /\ ok' = FALSE
  /\ timer' = Base
  /\ quiet' = LaterQuiet(TimeoutCost)
  /\ UNCHANGED data

TimesOut(c) ==
  LET cycles == LaterCycles(TimeoutCost)
      next == [cycles[c] EXCEPT !.queue = Tail(@), !.row = @ + 1]
  IN
  /\ Reading(c) /\ InTime
  /\ IF answers[Asked(c)] = "silent" THEN UNCHANGED disturbed
                                     ELSE answers[Asked(c)] = "value" /\ Disturb
  /\ schedule' = Failed(Later(schedule, TimeoutCost), Asked(c))
  /\ Sent(TimeoutCost)
  /\ UNCHANGED values
  /\ IF Unreachable(next) THEN GivesUp(c, cycles)
                          ELSE Continue(c, next, cycles, TimeoutCost)
  /\ UNCHANGED <<pumpVars, subscribed, flush, write, rescan>>

(* The answer cannot be decoded; that says nothing of the gateway.         *)
Garbled(c) ==
  LET cycles == LaterCycles(ReadCost) IN
  /\ Reading(c) /\ InTime
  /\ answers[Asked(c)] = "garbage"
  /\ schedule' = Failed(Later(schedule, ReadCost), Asked(c))
  /\ Sent(ReadCost)
  /\ UNCHANGED values
  /\ Continue(c, [cycles[c] EXCEPT !.queue = Tail(@)], cycles, ReadCost)
  /\ UNCHANGED <<pumpVars, subscribed, flush, write, rescan, disturbed>>

----------------------------------------------------------------------------
(* Entities (subscribe, unsubscribe) *)

Subscribe(r) ==
  /\ r \in Toggled \ subscribed
  /\ Disturb
  /\ subscribed' = subscribed \union {r}
  /\ timer' = 0
  /\ UNCHANGED <<pumpVars, values, data, ok, schedule, quiet, heard, refused, cycle, flush,
                 write, rescan>>

Unsubscribe(r) ==
  /\ r \in Toggled \intersect subscribed
  /\ Disturb
  /\ subscribed' = subscribed \ {r}
  /\ schedule' = Forget(schedule, r)
  /\ UNCHANGED <<pumpVars, values, data, ok, quiet, heard, refused, timer, cycle, flush,
                 write, rescan>>

----------------------------------------------------------------------------
(* Writes (async_write): write, read back, seed, publish *)

Seeded(r, v) ==
  /\ values' = [values EXCEPT ![r] = v]
  /\ schedule' = Seen(Later(schedule, ReadCost), r)
  /\ quiet' = 0

Write(r, v) ==
  /\ write = NoWrite
  /\ Kind[r] = "setting" /\ r \in subscribed
  /\ Disturb
  /\ write' = [pc |-> "sent", register |-> r, value |-> v]
  /\ quiet' = 0
  /\ UNCHANGED <<pumpVars, subscribed, values, data, ok, schedule, heard, refused, timer,
                 cycle, flush, rescan>>

(* A value the register's table does not have, or a date: the client       *)
(* raises before it sends anything, but _last_request is set by then.      *)
WriteRefused(r) ==
  /\ write = NoWrite
  /\ Kind[r] = "setting" /\ r \in subscribed
  /\ Disturb
  /\ quiet' = 0
  /\ refused' = TRUE
  /\ UNCHANGED <<pumpVars, subscribed, values, data, ok, schedule, heard, timer, cycle,
                 flush, write, rescan>>

(* The pump stores what was asked or what it clamps that to, and accepts;  *)
(* or it refuses, or its answer is lost, and the call raises.              *)
WriteEnds(accepted) ==
  /\ write.pc = "sent" /\ InTime
  /\ \E kept \in {write.value, pump[write.register]} :
       pump' = [pump EXCEPT ![write.register] = kept]
  /\ write' = IF accepted THEN [write EXCEPT !.pc = "read"] ELSE NoWrite
  /\ schedule' = Later(schedule, ReadCost)
  /\ Sent(ReadCost)
  /\ quiet' = LaterQuiet(ReadCost)
  /\ timer' = LaterTimer(ReadCost)
  /\ cycle' = LaterCycles(ReadCost)
  /\ UNCHANGED <<answers, subscribed, values, data, ok, flush, rescan, disturbed>>

(* Without an answer the value asked for is taken as stored.               *)
ReadsBack(answered) ==
  LET r == write.register IN
  /\ write.pc = "read" /\ InTime
  /\ Seeded(r, IF answered THEN pump[r] ELSE write.value)
  /\ IF answered
       THEN r \in Readable /\ UNCHANGED disturbed
       ELSE IF r \in Readable THEN Disturb ELSE UNCHANGED disturbed
  /\ Published
  /\ Sent(ReadCost)
  /\ timer' = Base
  /\ cycle' = LaterCycles(ReadCost)
  /\ write' = NoWrite
  /\ UNCHANGED <<pumpVars, subscribed, flush, rescan>>

----------------------------------------------------------------------------
(* Rescans (async_rescan, gateway.probe) *)

StartRescan ==
  /\ ~Scanning
  /\ Disturb
  /\ rescan' = [NoRescan EXCEPT !.queue =
       SetToSortSeq(Defaults \union subscribed, LAMBDA q, r : q < r)]
  /\ UNCHANGED <<pumpVars, subscribed, values, data, ok, timeVars, flush, write>>

(* The accessories' registers a second probe may read: which ones the      *)
(* flags just read decide.                                                 *)
Further(found) == {q \in Accessories : found[q] = None}

(* One read of a probe, whose answer may be lost.  The last one seeds      *)
(* everything both probes have found and asks for a refresh; a row of      *)
(* timeouts ends the rescan with nothing changed.                          *)
Probe(lost) ==
  LET r == Head(rescan.queue)
      answered == r \in Readable /\ ~lost
      silent == answers[r] = "silent" \/ lost
      cost == IF silent THEN TimeoutCost ELSE ReadCost
      found == IF answered THEN [rescan.found EXCEPT ![r] = pump[r]] ELSE rescan.found
      row == IF silent THEN rescan.row + 1 ELSE IF answered THEN 0 ELSE rescan.row
      gone == row >= UnreachableAfter
      known == IF answered THEN Seen(Later(schedule, cost), r) ELSE Later(schedule, cost)
  IN
  /\ Scanning /\ InTime
  /\ IF lost THEN r \in Readable /\ Disturb ELSE UNCHANGED disturbed
  /\ \E extra \in SUBSET Further(found) :
       LET ended == Len(rescan.queue) = 1 /\ ~gone
           last == ended /\ extra = {}
       IN
       /\ extra # {} => ended /\ rescan.more
       /\ values' = [q \in Registers |->
                       IF last /\ found[q] # None THEN found[q]
                       ELSE IF q = r /\ answered THEN pump[r] ELSE values[q]]
       /\ schedule' = [q \in Registers |->
                         IF last /\ found[q] # None THEN Seen(known, q)[q] ELSE known[q]]
       /\ rescan' = IF last \/ gone THEN NoRescan
                    ELSE IF ended
                      THEN [queue |-> SetToSortSeq(extra, LAMBDA p, q : p < q), row |-> 0,
                            found |-> found, more |-> FALSE]
                      ELSE [queue |-> Tail(rescan.queue), row |-> row, found |-> found,
                            more |-> rescan.more]
       /\ quiet' = IF last /\ \E q \in Registers : found[q] # None
                     THEN 0 ELSE LaterQuiet(cost)
       /\ timer' = IF last THEN 0 ELSE LaterTimer(cost)
  /\ flush' = (flush \/ (answered /\ r \in subscribed /\ pump[r] # values[r]))
  /\ Sent(cost)
  /\ cycle' = LaterCycles(cost)
  /\ UNCHANGED <<pumpVars, subscribed, data, ok, write>>

----------------------------------------------------------------------------
(* The pump *)

PumpChanges(r, v) ==
  /\ v # pump[r]
  /\ Disturb
  /\ pump' = [pump EXCEPT ![r] = v]
  /\ UNCHANGED <<answers, subscribed, values, data, ok, timeVars, flush, write, rescan>>

CycleStep(c) == Answered(c) \/ Resume(c) \/ TimesOut(c) \/ Garbled(c)

Next ==
  \/ Wait \/ Flush \/ StartRescan
  \/ \E c \in Cycles : StartCycle(c) \/ CycleStep(c)
  \/ \E r \in Registers : Push(r) \/ Subscribe(r) \/ Unsubscribe(r) \/ WriteRefused(r)
  \/ \E r \in Registers, v \in Values : Write(r, v) \/ PumpChanges(r, v)
  \/ \E b \in BOOLEAN : WriteEnds(b) \/ ReadsBack(b) \/ Probe(b)

Spec == Init /\ [][Next]_vars

(* Timers fire, requests end in an answer or a timeout.                    *)
FairSpec ==
  /\ Spec
  /\ WF_vars(Wait) /\ WF_vars(Flush) /\ WF_vars(\E b \in BOOLEAN : Probe(b))
  /\ WF_vars(\E c \in Cycles : StartCycle(c))
  /\ \A c \in Cycles : WF_vars(CycleStep(c))
  /\ WF_vars(\E b \in BOOLEAN : WriteEnds(b) \/ ReadsBack(b))

----------------------------------------------------------------------------
(* Types: every variable keeps to the values the code can give it.         *)
TypeOK ==
  /\ pump \in [Registers -> Values]
  /\ answers \in [Registers -> {"value", "garbage", "silent"}]
  /\ subscribed \subseteq Registers
  /\ {values, data} \subseteq [Registers -> Values \union {None}]
  /\ ok \in BOOLEAN /\ flush \in BOOLEAN
  /\ schedule \in Schedules
  /\ quiet \in 0 .. Keepalive /\ heard \in 0 .. Unheard /\ timer \in 0 .. Unarmed
  /\ refused \in BOOLEAN
  /\ \A c \in Cycles :
       /\ cycle[c].elapsed \in 0 .. Base /\ cycle[c].row \in 0 .. Cardinality(Registers)
       /\ cycle[c].answer \in Values \union {None}
       /\ ToSet(cycle[c].queue) \subseteq Registers
       /\ Len(cycle[c].queue) = Cardinality(ToSet(cycle[c].queue))
  /\ write.pc \in {"none", "sent", "read"}
  /\ rescan.row < UnreachableAfter

(* However fresh the pushes, flushes and read-backs keep everything, and   *)
(* however cycles, writes and rescans overlap, the gateway is asked for    *)
(* something at the first refresh after a silence of KEEPALIVE_INTERVAL -  *)
(* unless a write was refused here, which counts as a request but is none. *)
AskedOften == refused \/ heard <= Longest

(* "esphome-nibe relays what the pump sends on its own ... only to hosts   *)
(* that sent it a request in the last two minutes.  A read at least this   *)
(* often keeps Home Assistant on that list": the gateway never stops       *)
(* relaying to us.                                                         *)
RelayKept == heard < Relay

(* Nobody starves: a register somebody shows and the pump answers is heard *)
(* again and again, whatever else fails, is slow or comes before it.       *)
NobodyStarves ==
  \A r \in Registers :
    []<>(r \in Wanted \intersect Readable => schedule[r].age = 0)

(* Once the pump is left alone the entities come to show what it holds and *)
(* go on doing so, though cycles, pushes, flushes, read-backs and rescans  *)
(* store values they got at different moments.                             *)
ShowsPump ==
  \A r \in Registers : <>[](r \in Wanted \intersect Readable => data[r] = pump[r])

(* Registers that never answer do not make a gateway that does answer      *)
(* count as gone for good.                                                 *)
StaysAvailable == []<>(Wanted \intersect Readable # {} => ok)
=============================================================================
