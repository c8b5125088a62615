------------------------------ MODULE CopHistory ------------------------------
(***************************************************************************)
(* The coefficient of performance of a pump that counts its own energy     *)
(* (cop.CopTracker) and the import of what Home Assistant recorded of the  *)
(* same counters before (history): samples, the run that covers the last   *)
(* day, an import that works on what it read before its awaits, restarts,  *)
(* and a controller that is replaced and counts from nothing.              *)
(*                                                                         *)
(* The pump of the model delivers two units of heat for each unit of       *)
(* electricity, one in each unit of time.                                  *)
(***************************************************************************)
EXTENDS Integers, FiniteSets

CONSTANTS
  DayLength,                   \* units of time in a day
  HistoryDays, WindowDays, YearMaxDays,
  DayMin, DayMax, RecentSpan,  \* DAY_MIN_HOURS, DAY_MAX_HOURS, RECENT_DAYS
  MinConsumption,              \* MIN_CONSUMPTION_KWH, the day's own left out
  Tolerance,                   \* MATCH_TOLERANCE is one part in so many
  Installed,                   \* when the integration is set up
  LastMoment                   \* bound: how long the model watches

ASSUME HistoryAssumption ==
  /\ {HistoryDays, WindowDays, YearMaxDays, DayMin, DayMax, RecentSpan, MinConsumption,
      LastMoment} \subseteq Nat
  /\ Tolerance \in Nat \ {0, 1} /\ Installed \in 1 .. LastMoment
  /\ DayLength \in Nat \ {0}
  /\ WindowDays <= YearMaxDays /\ YearMaxDays <= HistoryDays /\ DayMin <= DayMax

VARIABLES
  moment,     \* the wall clock
  replaced,   \* when the pump's controller was replaced, 0 before
  awake,      \* the entry is loaded
  samples,    \* _samples: day -> counters
  recent,     \* _recent: the rows of the short run
  imported,   \* history is set
  importing,  \* the import under way
  ownDays     \* days the tracker has sampled itself (not the code's)

historyVars == <<moment, replaced, awake, samples, recent, imported, importing, ownDays>>

Day(t) == t \div DayLength
DaysSeen == 0 .. Day(LastMoment)
Unsampled == [out |-> -1, used |-> -1]

(* What the pump's counters showed at a moment. *)
Since(t) == IF t > replaced THEN t - replaced ELSE t
Counters(t) == [out |-> 2 * Since(t), used |-> Since(t)]

NoImport == [at |-> 0, out |-> "none", used |-> "none"]

HistoryInit ==
  /\ moment = Installed
  /\ replaced = 0
  /\ awake = FALSE
  /\ samples = [d \in DaysSeen |-> Unsampled]
  /\ recent = {}
  /\ imported = FALSE
  /\ importing = NoImport
  /\ ownDays = {}

TimePasses ==
  /\ moment < LastMoment
  /\ moment' = moment + 1
  /\ UNCHANGED <<replaced, awake, samples, recent, imported, importing, ownDays>>

Replaced ==
  /\ replaced = 0 /\ moment > 0
  /\ replaced' = moment
  /\ UNCHANGED <<moment, awake, samples, recent, imported, importing, ownDays>>

----------------------------------------------------------------------------
(* The tracker.  Each change is saved at once, so a restart finds it all.  *)

Trimmed(s, today) ==
  [d \in DaysSeen |-> IF d >= today - HistoryDays THEN s[d] ELSE Unsampled]

Recent(rows) == {r \in rows : r.at >= moment - RecentSpan}

Recorded(now) ==
  /\ samples' = Trimmed([samples EXCEPT ![Day(now)] = Counters(now)], Day(now))
  /\ recent' = Recent(recent \union {[at |-> now, counters |-> Counters(now)]})
  /\ ownDays' = ownDays \union {Day(now)}

(* At set-up and at every interval. *)
Record ==
  /\ awake
  /\ Recorded(moment)
  /\ UNCHANGED <<moment, replaced, awake, imported, importing>>

Wake ==
  /\ ~awake
  /\ awake' = TRUE
  /\ Recorded(moment)
  /\ UNCHANGED <<moment, replaced, imported, importing>>

Sleep ==
  /\ awake
  /\ awake' = FALSE
  /\ importing' = NoImport
  /\ UNCHANGED <<moment, replaced, samples, recent, imported, ownDays>>

----------------------------------------------------------------------------
(* What the recorder holds: the two counters, lagging, as another          *)
(* integration's device reports them, and the meter of the house, which    *)
(* happens to stand where the pump's consumption does.                     *)

Candidates ==
  LET lagging == Counters(moment - 1) IN
  {[id |-> "production", device |-> "pump", latest |-> lagging.out],
   [id |-> "consumption", device |-> "pump", latest |-> lagging.used],
   [id |-> "house", device |-> "house", latest |-> Counters(moment).used]}

StateOf(id, t) ==
  CASE id = "production" -> Counters(t).out
    [] id = "consumption" -> Counters(t).used
    [] id = "house" -> Counters(moment).used

Distance(a, b) == IF a > b THEN a - b ELSE b - a
CloseTo(value, target) == target > 0 /\ Tolerance * Distance(value, target) <= target

PairsOfAnyDevice(now) ==
  {p \in Candidates \X Candidates :
     /\ CloseTo(p[1].latest, now.out) /\ CloseTo(p[2].latest, now.used)
     /\ p[1].id # p[2].id}

(* The closest pair of series of one device that match both counters.      *)
Pairs(now) ==
  {p \in Candidates \X Candidates :
     /\ CloseTo(p[1].latest, now.out) /\ CloseTo(p[2].latest, now.used)
     /\ p[1].id # p[2].id
     /\ p[1].device = p[2].device}

Mismatch(p, now) ==
  Distance(p[1].latest, now.out) * now.used + Distance(p[2].latest, now.used) * now.out

Matched(now) ==
  CHOOSE p \in Pairs(now) : \A q \in Pairs(now) : Mismatch(p, now) <= Mismatch(q, now)

(* Started once Home Assistant is up if nothing was imported before, or by *)
(* the service: the series are matched against the counters of now, and    *)
(* the recorder is asked in the background.  The recorder's list and its   *)
(* latest figures are asked for in this same step.                         *)
BeginImport ==
  /\ awake /\ importing = NoImport
  /\ Pairs(Counters(moment)) # {}
  /\ LET match == Matched(Counters(moment)) IN
       importing' = [at |-> moment, out |-> match[1].id, used |-> match[2].id]
  /\ UNCHANGED <<moment, replaced, awake, samples, recent, imported, ownDays>>

(* Nothing suitable was recorded, or the recorder fails. *)
ImportFails ==
  /\ importing # NoImport
  /\ importing' = NoImport
  /\ UNCHANGED <<moment, replaced, awake, samples, recent, imported, ownDays>>

Row(t) == [out |-> StateOf(importing.out, t), used |-> StateOf(importing.used, t)]
Earlier(a, b) == IF a < b THEN a ELSE b

(* A day's row holds the counters as the day ended, dated by the day it    *)
(* ends in; that of today as they are.                                     *)
DayRow(d) == Row(Earlier((d + 1) * DayLength, importing.at))
(* A value above the counter cannot be its past. *)
Plausible(row) ==
  LET now == Counters(importing.at) IN
  /\ 0 < row.out /\ row.out <= now.out
  /\ 0 < row.used /\ row.used <= now.used

Seedable(d) == d * DayLength < importing.at /\ Plausible(DayRow(d))

(* Days the tracker has are never overwritten. *)
SeededDay(d) == IF samples[d] = Unsampled /\ Seedable(d) THEN DayRow(d) ELSE samples[d]

Newest(s) ==
  LET have == {d \in DaysSeen : s[d] # Unsampled} IN
  IF have = {} THEN 0 ELSE CHOOSE d \in have : \A e \in have : e <= d

SeededRecent ==
  LET have == {r.at : r \in recent} IN
  recent \union
  {[at |-> t, counters |-> Row(t)] :
     t \in {u \in 1 .. importing.at : u \notin have /\ Plausible(Row(u))}}

EndImport ==
  LET seeded == [d \in DaysSeen |-> SeededDay(d)] IN
  /\ importing # NoImport
  /\ samples' = Trimmed(seeded, Newest(seeded))
  /\ recent' = Recent(SeededRecent)
  /\ imported' = TRUE
  /\ importing' = NoImport
  /\ UNCHANGED <<moment, replaced, awake, ownDays>>

HistoryNext ==
  \/ TimePasses \/ Replaced \/ Record \/ Wake \/ Sleep
  \/ BeginImport \/ ImportFails \/ EndImport

HistorySpec == HistoryInit /\ [][HistoryNext]_historyVars

----------------------------------------------------------------------------
(* The figures *)

Difference(base) ==
  [out |-> Counters(moment).out - base.out, used |-> Counters(moment).used - base.used]
Forwards(d) == d.out >= 0 /\ d.used >= 0

YearBases ==
  {d \in DaysSeen : /\ samples[d] # Unsampled
                    /\ Day(moment) - YearMaxDays <= d /\ d <= Day(moment) - WindowDays}

(* The day whose sample the yearly figure is measured from; none where the *)
(* lifetime figure stands in.                                              *)
YearBase ==
  LET base == CHOOSE d \in YearBases : \A e \in YearBases : e <= d
      over == Difference(samples[base])
  IN IF YearBases # {} /\ Forwards(over) /\ over.used >= MinConsumption THEN {base} ELSE {}

DayBases == {r \in recent : r.at \in moment - DayMax .. moment - DayMin}

DayBase ==
  {r \in DayBases : /\ \A q \in DayBases : q.at <= r.at
                    /\ Forwards(Difference(r.counters))}

----------------------------------------------------------------------------
HistoryTypeOK ==
  /\ moment \in Installed .. LastMoment /\ replaced \in 0 .. moment
  /\ awake \in BOOLEAN /\ imported \in BOOLEAN
  /\ \A d \in DaysSeen : samples[d].out >= -1 /\ samples[d].used >= -1
  /\ \A r \in recent : r.at \in 1 .. moment
  /\ ownDays \subseteq DaysSeen

(* A figure stands on its own span: what it divides is what the pump       *)
(* delivered and used since a moment of the day it is counted from, a year *)
(* is no shorter than the window and no longer than its slack, and a day   *)
(* is a day, whatever was imported, interleaved with samples or lost while *)
(* the entry was away.  A controller replaced since makes no promise.      *)
FigureIsItsSpan ==
  /\ \A d \in YearBase :
       /\ Day(moment) - d \in WindowDays .. YearMaxDays
       /\ replaced < d * DayLength =>
            \E t \in d * DayLength .. (d + 1) * DayLength :
              /\ samples[d] = Counters(t)
              /\ IF d \in ownDays THEN Day(t) = d ELSE t > d * DayLength
  /\ \A r \in DayBase :
       /\ moment - r.at \in DayMin .. DayMax
       /\ replaced < r.at => r.counters = Counters(r.at)
=============================================================================
