---------------------------- MODULE DailyReports ----------------------------
(***************************************************************************)
(* What the daily reports tell of warnings, errors and failed reads        *)
(* (stats.StatsReporter, stats_extra.ErrorCounter): one log counter, owned *)
(* by one entry of the integration, and a failure count for each.          *)
(*                                                                         *)
(* A report that is on the wire goes on when its entry is unloaded.  An    *)
(* action runs from one await to the next; log lines are all alike.        *)
(***************************************************************************)
EXTENDS Integers, FiniteSets, FiniteSetsExt, Functions

CONSTANTS
  Reporting,      \* the entries that report
  MaxLines,       \* bound: lines logged
  MaxFailures     \* bound: failed reads, of all entries

ASSUME ReportsAssumption ==
  IsFiniteSet(Reporting) /\ MaxLines \in Nat /\ MaxFailures \in Nat

VARIABLES
  arming,     \* entries whose timers run
  ready,      \* entries whose set-up has finished
  owner,      \* whose the log counter is: {} if there is none
  lines,      \* the lines it has counted
  failures,   \* the failed reads each entry's coordinator has counted
  seen,       \* ErrorCounter._seen
  report,     \* each entry's report: how far it has come, and what it says
  logged,     \* lines logged while a counter was there
  told,       \* lines in the reports the server has acknowledged
  failed,     \* failed reads of each entry, and reports sent while it was away
  toldFailed  \* failures in those reports

counters == <<owner, lines, failures, seen>>
tallies == <<logged, told, failed, toldFailed>>
reportVars == <<arming, ready, counters, report, tallies>>

NoReport == [step |-> "none", lines |-> 0, failures |-> 0]
None == [e \in Reporting |-> 0]

ReportsInit ==
  /\ arming = {} /\ ready = {}
  /\ owner = {} /\ lines = 0
  /\ failures = None /\ seen = None
  /\ report = [e \in Reporting |-> NoReport]
  /\ logged = 0 /\ told = 0
  /\ failed = None /\ toldFailed = None

(* The counter goes to whoever asks for it first, and starts anew.         *)
LogCounterFor(e) ==
  IF owner = {} THEN owner' = {e} /\ lines' = 0 ELSE UNCHANGED <<owner, lines>>

ReportableByAll(e) == lines

(* What e may report of it.                                                *)
Reportable(e) == IF owner = {e} THEN lines ELSE 0

(* Failures since the previous report.  Fewer than seen then are those of  *)
(* a new coordinator.                                                      *)
Delta(e) == IF failures[e] < seen[e] THEN failures[e] ELSE failures[e] - seen[e]

(* An entry whose pump is away reports one failure.                        *)
ReadFailures(e) == IF e \in ready THEN Delta(e) ELSE 1

----------------------------------------------------------------------------
Arms(e) ==
  /\ e \notin arming
  /\ arming' = arming \union {e}
  /\ LogCounterFor(e)
  /\ UNCHANGED <<ready, failures, seen, report, tallies>>

(* The set-up ends, with a coordinator that has failed nowhere yet.        *)
Readies(e) ==
  /\ e \in arming \ ready
  /\ ready' = ready \union {e}
  /\ failures' = [failures EXCEPT ![e] = 0]
  /\ UNCHANGED <<arming, owner, lines, seen, report, tallies>>

(* Unloaded, or given up: the counter is released.                         *)
Disarms(e) ==
  /\ e \in arming
  /\ arming' = arming \ {e} /\ ready' = ready \ {e}
  /\ owner' = owner \ {e}
  /\ lines' = IF owner = {e} THEN 0 ELSE lines
  /\ UNCHANGED <<failures, seen, report, tallies>>

(* A warning or an error goes to the integration's log.                    *)
Emit ==
  /\ logged < MaxLines /\ owner # {}
  /\ lines' = lines + 1 /\ logged' = logged + 1
  /\ UNCHANGED <<arming, ready, owner, failures, seen, report, told, failed, toldFailed>>

ReadFails(e) ==
  /\ e \in ready /\ SumFunction(failed) < MaxFailures
  /\ failures' = [failures EXCEPT ![e] = @ + 1]
  /\ failed' = [failed EXCEPT ![e] = @ + 1]
  /\ UNCHANGED <<arming, ready, owner, lines, seen, report, logged, told, toldFailed>>

----------------------------------------------------------------------------
(* async_report: a timer fires, and ids are awaited.                       *)
Fetches(e) ==
  /\ e \in arming /\ report[e].step = "none"
  /\ report' = [report EXCEPT ![e].step = "building"]
  /\ UNCHANGED <<arming, ready, counters, tallies>>

(* What is known when the ids are there, whether the entry is or not.      *)
Builds(e) ==
  LET away == e \notin ready IN
  /\ report[e].step = "building"
  /\ LogCounterFor(e)
  /\ report' = [report EXCEPT ![e] =
       [step |-> "sent", lines |-> Reportable(e), failures |-> ReadFailures(e)]]
  /\ seen' = IF away THEN seen ELSE [seen EXCEPT ![e] = failures[e]]
  /\ failed' = IF away THEN [failed EXCEPT ![e] = @ + 1] ELSE failed
  /\ (away => SumFunction(failed) < MaxFailures)
  /\ UNCHANGED <<arming, ready, failures, logged, told, toldFailed>>

(* Refused, lost, or its answer is: the lines stay, to be sent once more.  *)
Unacknowledged(e) ==
  /\ report[e].step = "sent"
  /\ report' = [report EXCEPT ![e] = NoReport]
  /\ UNCHANGED <<arming, ready, counters, tallies>>

(* The lines that were sent are taken off, those logged since are kept.    *)
Answered(e) ==
  /\ report[e].step = "sent"
  /\ report' = [report EXCEPT ![e] = NoReport]
  /\ IF owner = {e}
       THEN lines' = Max({0, lines - report[e].lines}) /\ UNCHANGED owner
       ELSE LogCounterFor(e)
  /\ told' = told + report[e].lines
  /\ toldFailed' = [toldFailed EXCEPT ![e] = @ + report[e].failures]
  /\ UNCHANGED <<arming, ready, failures, seen, logged, failed>>

ReportsNext ==
  \/ Emit
  \/ \E e \in Reporting :
       \/ Arms(e) \/ Readies(e) \/ Disarms(e) \/ ReadFails(e)
       \/ Fetches(e) \/ Builds(e) \/ Unacknowledged(e) \/ Answered(e)

ReportsSpec == ReportsInit /\ [][ReportsNext]_reportVars

----------------------------------------------------------------------------
ReportsTypeOK ==
  /\ ready \subseteq arming /\ arming \subseteq Reporting
  /\ owner \in {{}} \union {{e} : e \in Reporting} /\ lines \in Nat
  /\ \A e \in Reporting :
       /\ failures[e] \in Nat /\ seen[e] \in Nat
       /\ report[e].step \in {"none", "building", "sent"}

(* No line of the log is in two reports the server has acknowledged, of    *)
(* one entry or of two, and the acknowledged reports of an entry tell of   *)
(* no more failures than it has had, however entries come and go while     *)
(* reports are on the wire.  A report whose answer is lost may have        *)
(* arrived all the same: its lines and failures are sent again.            *)
NothingTwice ==
  /\ told <= logged
  /\ \A e \in Reporting : toldFailed[e] <= failed[e]
=============================================================================
