# Verification of NIBE Easyconf

TLA+ models, TLC runs and TLAPS proofs for the Home Assistant integration in
`src/custom_components/nibe_local_easyconf` (paths below are relative to it).
Everything there runs on one asyncio event loop: code is interrupted only at an
`await`, so an action of a model is what runs between two awaits, and the
models' interleavings are those of tasks, timers, UDP callbacks, the pump, the
network and people at the pump's display.

## 1. Inventory

| component | state | operations | hard behaviour | what makes it correct |
|---|---|---|---|---|
| **Heating mode** `heating_mode.py`, `select.py`, preset of `climate.py` | `state` (mode, normal, offset), `_writing`, the store's file and pending delayed save | `async_load`, `start`, `follow` (listener), `async_choose` | calls overlap (no `PARALLEL_UPDATES`), stale polls, two saves of one file, lost answers, restarts in any mode | normal is only learned from hands; pump, mode and file agree |
| **Modbus client** `modbus.py` | connection, `_lock`, transaction id | `connect`, `close`, `_transact`, reads, writes, `probe` | one stream for all callers, timeouts, late answers, cancellation, close while callers wait | an answer goes to who asked; the lock is given back |
| **Discovery** `discovery.py` | range to scan, found addresses, attempts | `run`, `_scan_range`, `_probe`, `plan_spans` | holes at block edges, two-word registers, gaps that may be bridged | exact result, bounded cost, plans that cannot be refused |
| **Coordinator** `coordinator.py`, `entity.py` | subscriptions and counts, spans and their staleness, data, `last_update_success` | `subscribe`, `unsubscribe`, poll cycle, `async_write`, `async_rescan` | entities come and go within a cycle, rescans change the plan under it | current plan, everything polled is shown |
| **Rescan and stored scan** `actions.py`, `storage.py` | file with the scan and its version | rescan, save, reload | overlapping rescans, rescans that outlive a reload | a changed unit ends up with what it has |
| **Entry life cycle** `__init__.py` | `runtime_data`, services, stores, statistics | set-up (S-series, gateway), unload, remove, reload on options | failing set-ups leave connections and timers | nothing is left behind, nothing is lost |
| **Gateway client and coordinator** `gateway.py`, `gateway_coordinator.py` | values, `PollSchedule`, pending flush, `_last_request` | poll with budget and back-off, push, flush, seed, write | one read a second, pushes between reads, registers unsubscribed in mid-cycle | no register starves, pushed values are shown |
| **Electricity counter** `power.py` | parts, baselines, last sample | `sample`, `produced`, save, load | clock changes, gaps, meters reset | energy never runs backwards, both figures cover one span |
| **COP tracker, history import** `cop.py`, `history.py` | daily and hourly samples | `async_record`, `async_seed`, results | import between records | own samples are never overwritten |
| **Statistics** `stats.py`, `stats_extra.py` | armed reporter, counters, timers | start, stop, report, retire | stop or replacement while a report is sent | one timer, none after stop |
| **Thermostat, hot water** `climate.py`, `water_heater.py`, `hot_water_boost.py`, `climate_systems.py` | none of their own | writes of several registers | failure between two writes | a failed call leaves a known mix |
| **Codec, names, tables** `codec.py`, `names.py`, `registry.py`, `fseries.py`, ... | none | pure functions | width, sign, sentinels; unique names | round trip; uniqueness |
| **Config flow, scanner, frontend, texts, card** | forms, one flag | I/O and presentation | a client left open, a flag set before its awaits | - |

How they interact: entities and the heating mode controller *subscribe*
registers at the coordinator and listen to it; the coordinator reads spans and
writes registers through the *client*; its `data` is replaced by a cycle,
patched by a write's read-back and, behind a gateway, by pushes; each change
calls all listeners synchronously. Discovery uses the same client and gives
`present` to the coordinator; a rescan saves it and reloads the entry, which
makes all of these objects anew from the files.

The hazards, one by one with their lines and the properties that cover them,
are in `PROJECT.json`.

## 2. Plan

The most important behaviour came first: what writes to the heat pump by itself
(heating mode), then what every request goes through (Modbus client), then what
is read and shown (discovery, the two coordinators), then what is counted
(energy, COP), then the life of an entry and of its entities, and the pure
functions. All of it is written; which module rests on which:

* `HeatingMode` implements the abstract `HeatingPromise`, `ModbusClient` the
  abstract `RegisterService`.
* `SpanPlan` is used by `Discovery` and `Coordinator`, `PollSchedule` by
  `GatewayCoordinator`, `RegisterTables` by `EntityRegistry`.
* `Components` puts the modules that need only a small instance each side by
  side: `Discovery`, `EnergyCounter`, `CopHistory`, `EntryLifecycle`,
  `ConfigFlow`, `ComfortWrites`, `RegisterTables`, `EntityRegistry`,
  `DailyReports`. The variable `part` says which of them a behaviour is of; the
  others rest in one initial state. They do not interact in this model: where
  one relies on another, the module has that other's effect in it (the reporter
  of `EntryLifecycle`, say, whose counting is `DailyReports`').
* `...Proofs` modules hold the theorems, section 5.

Left to do: several thermostat calls at once, and two stores of one file across
a reload.

## 3. What is modelled

### HeatingMode

| TLA+ | code |
|---|---|
| `pump` | the offset in the heat pump (external); `Kept` is the clamping the pump does itself |
| `held`, `data` | what a poll has read and not yet published; `coordinator.data[register]` |
| `state`, `writing` | `Controller.state`, `_writing` |
| `call[c]` | a call of `async_choose`: before the write is answered (`write`), before the read-back is in (`readback`), in `async_save` (`saving`) |
| `disk`, `dirty` | the store's file, and a delayed save pending |
| `meant`, `touched` | history only, for the properties |
| `Read`, `Publish`, `PollFails` | a poll cycle of either coordinator; a gateway's push is a `Read`, its flush a `Publish` |
| `EntityReadBack` | read-back of another entity's write, which patches `data` |
| `Choose`, `Written`, `Refused`, `Abandoned`, `ReadBack`, `Saved` | `async_choose` with the coordinator's `async_write` inside it |
| `DelayedSave`, `Restart` | `async_delay_save`; load and `start()` of a new controller |

`Buffered` tells the two coordinators apart: an S-series cycle keeps its words
until the last span is read (`TRUE`), a gateway stores each value as it comes
(`FALSE`). `CallsAbandoned` and `CrashMidCall` switch the faults. Left out:
translations, icons, the energy manager's side.

`HeatingPromise` is what a user is promised, with no polls, calls, files or
restarts: a mode, a normal offset, the pump and the offsets hands have set.
`Promise` in `HeatingMode` is the refinement (`INSTANCE ... WITH`).

### ModbusClient

`conn`, `wire`, `stream` are the TCP connection, the requests the pump has not
answered and the answers nobody has read; `owner` and `queue` are the fair
`asyncio.Lock`; `pc`, `asked`, `reply` the callers. `Acquire` runs from the lock
to the next await (a request written, or a connection started), `Receive` takes
the next answer *whatever it answers*, because the code compares nothing but its
length (`Taken`); `TimesOut` closes the connection, `Cancelled` does not.
`Unload` closes the client under whoever waits. A read answered short raises
without closing, as in the code. Left out: the connection closing exactly
between the two reads of one frame (an `AttributeError` in that caller), the
transaction id, and frames of other lengths than their request implies.
`RegisterService` is the abstract specification: asked, then answered with
one's own answer or failed.

### SpanPlan, Discovery, Coordinator

`SpanPlan` is `plan_spans` as operators: runs (`Contiguous`), gaps that are read
through (`Joins`, `Bridge`), cutting to the read limit (`Blocks`). Function
codes are left out: addresses of the two codes never lie in one run or gap.

`Discovery` keeps the stack of `_scan_range` calls as the sequence `todo`
(innermost range first): `Live`, `Hole` and `Split` are the three outcomes of a
block read, `Retry` and `Raises` those of a failing one. Both Modbus errors that
mean "not implemented" are `Hole`/`Split`; any other exception answer is `Raises`.

`Coordinator` has the unit's layout (`unit`), the stored scan (`disk`), the
coordinator's fields under their own names, poll cycles read span by span
(`cycle[c]`: the plan the cycle began with, the span it is at, its words, and the
scan in force when it began), and rescans that run beside them (`scan`: while
probing, the addresses that were there all along and ever, which bound what the
scan can find). Cycles may overlap, each with its own plan over the awaits of
coordinator.py:179-222, as a write or a rescan asks for a refresh while another is
under way; releases of Home Assistant that run one refresh at a time have fewer
behaviours. `Refit` is a firmware update or an accessory. `FreshCoordinator` is a
reload: rescans of the old coordinator go on and still save. Values are left
out: `data` is the set of registers with a value.

### PollSchedule, GatewayCoordinator

`PollSchedule` is the class of that name, as operators on a function from
registers to how long ago each was seen and how long it has still to wait. The
code's moments on the monotonic clock become these two durations, cut off where
nothing tells them apart any more (`Oldest`, `MaxFailures`).

| TLA+ | code |
|---|---|
| `cycle[c]` | a run of `_async_update_data`: what is left of `due`, time used of the budget, timeouts in a row |
| `values`, `data`, `flush` | `_values`, `coordinator.data`, the pending `_flush` |
| `quiet`, `heard` | since `_last_request`, and since the gateway really got a request |
| `refused` | history: a write was refused here after that request (`WriteRefused`: `_last_request` is set at gateway_coordinator.py:404, then gateway.py:144-157 raises and nothing is sent) |
| `Wait` | time until the next timer |
| `StartCycle`, `Answered`, `Resume`, `TimesOut`, `Garbled` | a poll cycle, read by read: the listener takes an answer before the cycle's coroutine is resumed with it |
| `Push`, `Flush` | `_on_value` called by the library, and the delayed publication |
| `Subscribe`, `Unsubscribe` | entities switched on and off, in mid-cycle too |
| `Write`, `WriteEnds`, `ReadsBack` | `async_write` |
| `StartRescan`, `Probe` | `async_rescan` with `seed` and its two `gateway.probe`s: the defaults and what is shown, then whichever of `Accessories` the flags name; any read's answer may be lost |

`answers` says once and for all which registers answer with a value, with
something that is none, or not at all. A read that is lost now and then is
`TimesOut` on a register that answers.

### EnergyCounter, CopHistory

`EnergyCounter`: `Sample` is `sample` with its trapezoid, its gap and its clock
set back; `Marked` and `Produced` move both marks (`produced`); `ReadMeter` and
`Figures` are what the coordinator does; `MetersReset`, `Stops`, `Starts` are
service visits, clean and unclean stops, and loads. The counter's three
parts (compressor, heater, pumps) are one. The pump of the model uses a unit of
electricity and delivers a unit of heat in each unit of time, so that the two
figures may be compared; `bent`, `gap` and `lag` are history only.

`CopHistory`: `Record` is the hourly `async_record`; `BeginImport`,
`ImportFails`, `EndImport` are the import around its awaits; `Wake` and `Sleep`
load and unload; `Replaced` is a new controller that counts from nothing. The
import's awaits before it matches (history.py:144-175: the list of counters, the
latest figures) are one step with its beginning: no property hinges on what
happens between them.
`YearBase` and `DayBase` are the samples the two figures are measured from. What
the recorder returns is what the pump's counters were (external), for the
entities `Candidates` names, one of which belongs to another device.

### EntryLifecycle, DailyReports

`EntryLifecycle`: `step[e]` is the await a set-up or an unload has come to, so
each action runs from one await to the next: `SetUp`, `Connect`, `Scans`,
`Refresh` (S-series), `GatewayReady` (F-series), `RegisterFrontend`,
`PanelAdded`; `Unload`, `PlatformsUnloaded`, `Close`, `Drop`; `RemoveEntry`.
Every one that may raise does, but for the panel's registration itself. Home Assistant's part is external: one entry is
worked on at a time, a retry, a reload and a disabling as `Asks` has them. The
reporter's timers and the report on the wire are `Fires` and `ReportEnds`; there
are two slots as a reporter that was stopped while it was sending lives until
the answer is in. `clients[e]` is what is open: `own`, with the entry as its
holder; `lost`, with none, which must not be; `stuck`, open where nothing closes it
any more. A client becomes stuck where the steps outside the `try` that closes it
raise (`PageRaises`: __init__.py:407-415, and 272-284) or the platforms refuse to
unload (`PlatformsUnloaded`), and stays so through the entry's removal, as
`async_remove_entry` (637-644) closes nothing.

`DailyReports` looks at what these reports say: the one log counter of the
integration, which belongs to the entry that asked first (`LogCounterFor`), the
failures since the last report (`Delta`), reports that are refused, lost or
answered after their entry was unloaded. `logged`, `told`, `failed`,
`toldFailed` are history only, and of acknowledged reports: what a report whose
answer is lost has said is sent again.

### ConfigFlow

A flow is a record: the await or form it is at, the host, the kind, the unique
id, and the pump the id was taken from. Flows begin by a discovery
(`Announced`, `GatewayDiscovered`), a search or an address typed in; `Lease`
moves the pumps to other addresses at any moment. `Adopts` is
`_abort_if_unique_id_configured(updates=...)`, `Adds` the entry's creation, which
ends other flows of that id. `leftOpen` records that a Modbus client was left
connected, as aborts and closed dialogs do; no property is about it.

### ComfortWrites

A service call is the sequence of writes that follow from what is shown when it
starts. `Written`, `WriteFails` (refused, or stored with the answer lost) and
`Ends` carry it on; `Touched` is the panel. `Polled` publishes what a refresh has
read, of any register perhaps before it changed (`outdated`): the race of
`heating_stalepoll`, which the entities here are open to as well. `late` is history:
such readings have been published since the last call began. `SetRange` is the range of a
pump that cools, with a mode or without. One call is under way at a time, so calls
that overlap are not looked at here (the heating mode's are, in `HeatingMode`).

### RegisterTables, EntityRegistry

`RegisterTables` has the pure functions: merging of the maps (`MostCommon`,
`MostInformative`, `AnyTable`, `Merged`), words (`EncodeRaw`, `DecodeRaw`), what
numbers, switches and selects offer, write and show, and `assign_names`. It is a
machine of one state per input: `TablesInit` puts every input to the test. A byte
has `Byte` values, so a word has `Byte ^ 2`; scaled values are counted in halves,
which is what a rounding can tell.

`EntityRegistry` has Home Assistant's registry of a pump's entities: what a
set-up adds, removes and switches on (`SetsUp`: `_async_remove_moved_entities`
and the platforms), with the user's last `choice` beside it, and in `moved` the
registers whose entity has been made anew since. Updates change a register's platform
or default, rescans and accessories what is present. An entity that is added has no
memory of one that was removed: what newer releases of Home Assistant keep of deleted
entities they keep by platform, so it could only reach a register that moves back.

## 4. Runs

| run | instance | shows |
|---|---|---|
| `heating_gateway` | range -2..2, the pump keeps -1..2, steps -3/-1/0/1, hands set 0 or 1, all four modes, one caller, gateway | types, `NormalIsMeant`, refinement `KeepsPromise` |
| `heating_settles` | same ranges, two modes, S-series, lost answers, cancelled calls, crashes in mid-call | `Settles` under fairness; `DiskCurrent` and `NormalStays` with all faults |
| `heating_stalepoll` | S-series, no fault at all | **violation** of `NormalIsMeant` |
| `heating_twocalls` | gateway, two callers, no fault | **violation** of `NormalIsMeant` |
| `modbus` | three callers; a read, a write, a read of a missing register; unloading; calls cancelled while they wait for the lock or the connection | `OneOutstanding`, `OneInside`, refinement `OwnAnswers`, `CallsEnd` |
| `modbus_selfhealing` | one caller at a time, cancelled once | **violation** of `SelfHeals` |
| `gateway` | a pushed temperature, a setting switched on and off, an internal counter; all answering but one that answers garbage, or two silent; two overlapping cycles; two disturbances, refused writes and lost answers of either probe among them | types, `AskedOften`, `NobodyStarves`, `ShowsPump`, `StaysAvailable` |
| `gateway_relay` | scan interval of three minutes, keep-alive of one, relay of two, in units of 15 s; no disturbance at all | **violation** of `RelayKept` |
| `coordinator` | three registers (one shown twice, one internal of two words, one never shown between them), two layouts, two rescans and two cycles, three of these four at once | types, `SubscriptionsCounted`, `PlanCurrent`, `RefusedOnlyAfterRefit`, `ShowsWhatIsPolled`, `RescanHeals` |
| `coordinator_replan` | the same with one rescan and one cycle | **violation** of `SkipsBadRange` |
| `components` | the nine components of `Components`, below | 19 properties, below |
| `energy_gap` | one meter, gaps beyond `MAX_GAP_S` | **violation** of `SameSpan` |

| part of `components` | instance | shows |
|---|---|---|
| scan | eight addresses in two runs, a register of two words across the middle of a block, block 4, gap 2, three tries, each of the 256 possible units | `FindsTheUnit`, `TwoReadsPerAddress`, `PlansAreSafe`, `FewestReads`, `ScanIsOver` |
| energy | two meters, two units of time, one reset, clock change or stop | `FairSpan` |
| history | days of two units of time, a year of two to three days, eight moments, one controller replaced | `FigureIsItsSpan` |
| entries | an S-series entry, and a gateway entry that reports; one wish of a user | `OneReporter`, `PanelShown`, `NoGatewayLeft`, `DisabledFallsSilent` |
| flow | a pump on Modbus with a name and one behind a gateway without; two hosts, two flows, two changes of address | `OnePumpOneEntry` |
| comfort | a pump that cools, one with a zone setpoint, one with a boost and no room sensor; two temperatures, one change at the panel, one reading out of date | `ShownIsMeant`, `CoolsOnlyWhenAsked` |
| tables | bytes of two values; up to three maps out of five meanings (one or two words, signed or not, flags, a value table with a hole); three registers of one title with all designations | `ReadBackIsWritten`, `NamesDistinct` |
| registry | three registers, three versions of the integration that change platform and default, four steps | `ChoicesKept` |
| reports | two entries, two log lines, one failed read | `NothingTwice` |

Why the bounds are enough. Offsets: clamping by the map and by the pump differ,
both hit, and two hand offsets are needed to tell "the normal offset" from "some
offset". Callers: three make a queue behind a holder; two suffice for a stale
answer. `MaxUnread` bounds the requests that cancelled calls leave on a
connection: none in `modbus`, whose answers would go astray as `modbus_selfhealing`
(one) shows. That calls cancelled with a request out keep the lock's discipline is
proved (`LockExcludes`). Gateway: the budget of a cycle is used up by two reads, so the third
register depends on the order of the queue; the longest back-off, the keep-alive
and `UnreachableAfter` are all reached; silences are told apart up to `Unheard`,
beyond the longest there may be. Coordinator: two cycles with the plans from before
and after a rescan (`MaxTasks` keeps two rescans from running beside two cycles: one
rescan is enough to have the cycles read by different plans, and one cycle to have a
rescan change the plan under it), a bridged gap, a shared
register, two rescans that can begin and save in either order. Discovery: blocks
of 4 are split twice, runs are longer and shorter than a block, and holes lie
everywhere as all units are tried. Energy: with two meters the sum is read in two
steps and a reset may hit one or both; a mark is moved before, between and after
samples. History: days begin and end between records, an import finds days the
tracker has sampled, days before the installation and days of the old controller.
Entries: a set-up that fails at each await is retried with a report on the wire,
beside an entry that is unloaded. Flows: two for one pump, with the address given
to the other pump in between. Comfort: each pump lacks something another has; `MaxOutdated` of one lets a
refresh bring back what any one write of a call has changed, but not two at once.
Tables: two words with a sign, its sentinel, and the carry between words are all
there with two values to a byte, and all inputs are tried. Registry: an update,
a switch, a rescan and another update in any order. Reports: two entries hand
the counter over in between the sending and the answer.

Deadlock is checked in every run but `components`, where a scan that has ended,
a history at its last moment and the tables stop.

### What the violations say

* `heating_stalepoll`: mode normal is chosen while a cycle already holds the
  offset of eco. The cycle ends after the write, `data` goes back to eco's
  offset, and `follow` takes it for a change made by hand: eco's offset becomes
  normal. The next poll puts it right unless a mode is chosen first.
* `heating_twocalls`: the first of two overlapping calls lowers `_writing`
  while the second has still to read back.
* `modbus_selfhealing`: after a cancelled call answers are one behind, until a
  timeout or a length that does not fit closes or drops something.
* `gateway_relay`: `gateway.py:61-64` says of the keep-alive that "a read at least
  this often keeps Home Assistant on that list", those the gateway relays to for two
  minutes after a request. But the keep-alive is only looked at once a poll cycle, and the
  options allow intervals of up to ten minutes (config_flow.py:426, 650, 715). With
  one of three, pushes keep the registers fresh, nothing is due, and nothing is asked until
  the pushes have stopped. A unit of 15 s is more than a request takes; the
  violation is the interval's. What the code does keep is `AskedOften`: a request, the
  keep-alive time and an interval, which by default are just above two minutes too.
* `coordinator_replan`: the plan forced after a refused read is computed from
  the same scan, so it is the same plan.
* `energy_gap`: after a gap of more than `MAX_GAP_S` between two samples its
  electricity is skipped, while the heat meters have counted through it and the
  marks stay: the two figures no longer cover the same span. `FairSpan` is the
  same with that gap left out, and holds.

Also met, without a run of their own:

* `plan_spans` says "the fewest safe block reads" (discovery.py:220). That holds
  of the reads that each read every run of wanted addresses whole
  (`FewestReads`), but not of all: with a limit of 4 words, a gap of 2 and the
  wanted addresses 0-1, 3-5 and 7, all of 0-7 there, `_bridge` takes three reads,
  while 0-3 and 4-7 would do, which share the run 3-5. TLC found this when the
  property was first stated for all reads; it also does not hold where a run is
  longer than a read.
* `__init__.py:563-567` says of entities that "anything the user switched off stays
  off". An update that moves a register to another platform removes its entity with
  the user's choice (556-561), and the new one is on if it is on by default.
  `ChoicesKept` says so: the choice is kept until such a move.
* A gateway's client whose platforms raise or will not unload stays open, after the
  entry's removal too (`NoGatewayLeft` states the exception).

### Fairness

The event loop runs what is ready: a call's awaits end (client timeouts bound
each), the delayed save fires, cycles are scheduled again and again. So weak
fairness of call steps, saves, reads and cycles. `Publish` has strong fairness:
a cycle may fail any number of times but not for ever (a pump that never answers
settles nothing). `GatewayCoordinator`: timers fire, and a request ends in an answer or a
timeout, as the library bounds it. `Components`: the scan goes on, as each probe
ends, and so do a reporter's timers and reports; set-ups and unloads need not.
Users, pushes, losses and the pump are never fair. `Coordinator` states the
fairness of `StartCycle` as "again and again a cycle goes on, unless one would
change nothing", which is its weak fairness in state form. `RescanHeals` assumes that rescans are carried through
again and again: they are made by the user.

## 5. Proofs

Each theorem holds for all constants within the assumptions the modules declare
of them, and no others unless named here. An invariant that is not inductive as
it stands is proved from the stronger one named with it.

`HeatingModeProofs`:

* `TypeCorrect`: `Spec => []TypeOK`.
* `NothingForgotten`: `Spec => []DiskCurrent`, with any number of overlapping
  calls, lost answers and crashes.
* `NormalStaysPut`: `Spec => NormalStays`, likewise.
* `NormalFromHands` and `PromiseKept` assume `Undisturbed`: a gateway, one call
  at a time, no call broken off. The runs `heating_stalepoll` and
  `heating_twocalls` show that the first two of these are needed. `NormalIsMeant`
  is not inductive: a read-back may hold any offset, and a restart takes up the
  file. `IInv` adds that the flag is up exactly while a call is before its
  read-back and the call's target still belongs to the present normal
  (`CallsTracked`), that the file has the shown mode and, outside normal, the
  normal offset (`FileTracked`), and that in normal only offsets from a hand are
  anywhere in the coordinator (`NormalSeen`).

`ModbusClientProofs`:

* `LockExcludes`: `Spec => [](TypeOK /\ OneInside)`, with cancellation.
* `Serialised` (no cancellation): `OneOutstanding` and `NothingStale`, from
  `Clean`: the connection carries nothing, or the one request of the lock's
  owner, or its answer.
* `ServiceKept` (no cancellation): `Spec => OwnAnswers`, the refinement of
  `RegisterService`; `Waiting` ties queue, request and place together.
* `FirstComeFirstServed`: whoever waits has a place in the queue (`Queued`), and no
  step puts anyone before him (`NobodyOvertakes`), though others are cancelled out of
  the middle of it. A step does one of three things to the queue (`QueueSteps`).
  With `LockExcludes` this is the safety half of `CallsEnd`: it leaves to fairness
  only that the caller inside ends and that the first one waiting is let in.

`SpanPlanProofs` (lemmas about `plan_spans` for any register map whose addresses
are finitely many, any read limit and any gap): `RunsAreRanges` - `Contiguous`
cuts a set of addresses into runs in sequence that have all of it; `BridgeIsSafe` -
merged spans have all of the runs, only words that are there, and are no longer
than a read unless a single run is; `Flattened` - what `FlattenSeq` makes of the
blocks; `PlanIsSafe` puts these together. Sequences built by recursion
(`SpanBegins`, the fold in `FlattenSeq`) are met without induction over data: the
recursive function is shown to exist and to be unique by a least counterexample
(`LeastNatural`), and from then on its equation is all that is used.

`DiscoveryProofs`:

* `ScanTypeCorrect`, `ScanExact` (`FindsTheUnit`) and `ScanCheap`
  (`TwoReadsPerAddress`, retries not counted) from `ScanInv`: the ranges still to
  scan lie in the map and apart from each other; what is found is the unit's part
  of what is no longer to do; and the reads made, plus two for each address left,
  are no more than two for each address of the map plus one for each range left
  (a block with a hole costs a read and leaves one range more; a block that
  answers, or a single address, costs a read and takes a range and its addresses away).
* `ScanRunsDown`: each step of a running scan, a retry too, makes a natural number
  smaller (`Fuel`): two for each address left less one for each range to scan
  (`Spare`), times the tries, and the tries left for the read at hand. `ProbeSettles`
  and `SplitLeaves` show the three outcomes of a read, `Split` the one that puts
  two ranges in the place of one and still takes from `Spare`. It leaves
  to fairness only that steps are taken, of what `ScanIsOver` says.
* `PlansSafe` (`PlansAreSafe`) from `ScanExact` and `PlanIsSafe`.
* `ReadsAreFewest` (`FewestReads`): each span's first run is covered by some read
  of any other plan, and no one read covers the first runs of two spans, or
  `Joins` would have merged them (`NoReadServesTwo`); so the map from spans to reads
  is one to one.

`CoordinatorProofs`:

* `Counted`: `Spec => []SubscriptionsCounted`. `CountInv` writes the counts as the
  cardinalities of the entities that show each register; `CountAdded` and
  `CountRemoved` say how these change by one entity.
* `PlanKept`: `Spec => []PlanCurrent`, inductive as it stands.
* `CoordinatorTypeCorrect` (`TypeOK`) and `RefusedRightly` (`RefusedOnlyAfterRefit`)
  from `CoordinatorInv`: `CountInv` and `PlanCurrent` with the types, among them that
  a plan stays in the map and that a rescan finds no less than was always there and no
  more than was ever there, and that each cycle under way has a plan that reads nothing
  but what the scan it began with has, which `PlanIsSafe` says of the plan it takes. A
  cycle on an older plan is so covered beside one that has planned anew.

`GatewayCoordinatorProofs`:

* `GatewayIsAsked`: `Spec => []AskedOften`, with any disturbances: the gateway never
  goes longer without a request than `Longest`, one request and `Keepalive - 1 + Base`,
  unless a write was refused here since (`refused`), which the coordinator takes for
  a request though none was sent. `RelayInv` says why: while nothing is
  under way the silence is told by the time since the last request
  (`HeardByQuiet`) until that reaches `Keepalive`, and from then on by the refresh that
  is due (`HeardByTimer`).
* `GatewayTypeCorrect` (`TypeOK`) from `GatewayTyped`. Of the schedule it rests on
  `ScheduleKept`: no back-off is longer than the longest, as the number of failures
  that reaches it exists (`FailuresBounded`) because powers of two (`Doubled`) outgrow
  any bound (`DoubledGrows`, by a least counterexample). Of a cycle's queue it rests on
  `DueIs`: `Due` is a sequence of every due register, each once, in the order of
  `Before`, so it is no longer than there are registers, and a cycle's row of
  timeouts no longer than what it has asked for.

`ComponentsProofs`, three components of one installation, and all of them side by
side:

* `OneReporterEver`, `NoGatewayLeftEver`, `PanelShownEver` (any entries, gateways,
  wishes) from `LifeInv` (`LifeHolds`): an entry works on a step only in a life that
  has it (`StepsInLife`); a reporter that runs is the kept one and one that was stopped
  is on the wire (`ReporterInv`, `KeptInv`); a gateway's client has its holder only
  from its ready to its close, and is otherwise closed or one that nothing closes
  (`ClientInv`); and the panel is there, or its registration
  is under way, as soon as an entry is past that step (`PanelInv`).
* `OneEntryEach` (any pumps, hosts, flows) from `IdInv`: the id of a flow or of an
  entry is its pump's where that has a name (`IdsMatch`), a flow has one before it
  scans (`IdsInTime`), no two flows (`FlowsApart`) and no two entries
  (`EntriesApart`) have the same, and none that a flow is about to add is taken
  (`Unclaimed`).
* `ChoicesKeptEver` (any registers, versions and steps) from `RegistryInv`: at most
  one entity of a register exists, whatever the platform, and it tells of the user's
  choice or, where it was made anew since, is not off by his hand (`Tied`); and what is present has the entity of today's platform,
  on if it is on by default (`AsWanted`).
* `EntriesTypeCorrect`, `FlowTypeCorrect` and `RegistryTypeCorrect`: their types, from
  the same invariants; the flow's with the addresses it goes to (`PlacesKnown`), the
  registry's with the versions it has seen (`VersionsKnown`).
* `AllTypesCorrect` (`TypeOK` of `Components`), `AllPromisesKept` and
  `TablesPromisesKept` take what is proved of each component alone to the
  specification the run checks: a step of one leaves the variables of the others
  (`EachSteps`), so a behaviour of all is a behaviour of each (`EachRuns`). The tables
  take no step, so what is proved of their input holds for ever (`TablesKept`).

`ValueProofs`, what is reckoned and written:

* `FairSpans` (`FairSpan`) and `EnergyTypeCorrect` (any meters, gaps, resets, stops)
  from `EnergyInv`: what a counter has, at its last save too, and what its marks and the meters say
  stand in balance with the time that has passed, was skipped or was bent. A sum over the
  meters is a fold; `Total` is that fold, and `TotalChanged` - one value more makes the
  sum as much more - is proved by counting units (`Counted`, `LeastSubset`) instead of
  induction.
* `NothingToldTwice` (`NothingTwice`) and `ReportsTypeCorrect` from `ReportsInv`: what
  was told in acknowledged reports, what is on the wire and may still be acknowledged, and what the present
  counters have are together no more than was logged.
* `FiguresAreTheirSpans` (`FigureIsItsSpan`) and `HistoryTypeCorrect` (any days,
  years, candidates, imports) from `HistoryInv`: no day has a
  sample before it has begun; a sample of the tracker, of the import or of the short
  run that is younger than the controller is the counters of a moment of its day; and a
  day the tracker sampled itself is only ever lost to its age (`OwnDaysKept`), so an
  import running since before does not put its own figure there.
* `NeverCoolsUnasked` (`CoolsOnlyWhenAsked`) from `CoolInv`: of a call that does not
  ask for cooling, what is left to write never turns it on, and before it uses the
  room sensor the cooling is off or is turned off. `ComfortTypeCorrect`: its types, with
  the values still to write (`ValuesTyped`).
* `CallsMeanWhatTheyShow` (`ShownIsMeant`) from `MeantInv`: what an undisturbed call
  has still to write leads (`Comes`) from what the pump holds to what was asked, and so from what is
  shown, unless a refresh has published older readings since it began (`late`).
* `WritesReadBack` (`ReadBackIsWritten`) and `NamesTellApart` (`NamesDistinct`) of every
  input `TablesInit` allows: any maps of a register within `VariantsAssumption`, any
  even number of values to a byte, any titles and designations with curated names apart.

Every safety property the passing runs check is so stated by a theorem, the action
properties and refinements included. Some have conditions: `NormalFromHands` and
`PromiseKept` are of a gateway with one call at a time, `Serialised` and
`ServiceKept` of callers that are not cancelled, as said with each.

Only model-checked is all liveness (`Settles`, `CallsEnd`, `ScanIsOver`,
`NobodyStarves`, `ShowsPump`, `StaysAvailable`, `DisabledFallsSilent`,
`ShowsWhatIsPolled`, `RescanHeals`): liveness under fairness and ENABLED are beyond
the prover. And the six violations, which are no theorems: their runs are the
counterexamples.

## 6. Not modelled

* Presentation: the dashboard card, texts, translations, units, diagnostics, how
  a title is shortened and how a sensor's value is dressed up.
* Text that is cut out of text: serial numbers and models in network names, the
  product message of a gateway.
* The contents of the register tables: the modules take them as constants.
* The maintenance tools, which run offline.
* Home Assistant's own machinery beyond what the code uses of it (stores,
  timers, the refresh debouncer, unique ids, the entity registry's file), and
  the nibe library behind the gateway client, except for how its answers arrive.
* Left out of modules that are there: register values in `Coordinator`, the
  sentinel values of a scan (`reporting`) in `Discovery`, frames and transaction ids
  in `ModbusClient`, overlapping calls in `ComfortWrites`, more than one history
  import at a time in `CopHistory`, the other fields of a report in
  `DailyReports`, and two stores of one file after a reload (the old controller's
  delayed save beside the new one's).

## 7. Reading and running

Every run is an `MC...` module with the instance and a `.cfg` with the question:
`tlc -config HeatingMode_gateway.cfg MCHeatingMode`. The small components share
`MCComponents`. Proofs: `tlapm HeatingModeProofs.tla`; `ComponentsProofs` and
`ValueProofs` take a few minutes. An operator that bears a definition's name with a
fault in it (`OffsetForUnclamped` before `OffsetFor`) is a mutant: put in the
definition's place it makes the property named beside it in `PROJECT.json` fail,
which shows that the property can.
