---------------------------- MODULE EnergyCounter ----------------------------
(***************************************************************************)
(* The electricity counter of an F-series pump (power.ElectricityCounter)  *)
(* and the two figures a coefficient of performance divides                *)
(* (gateway_coordinator: heat_total, energy_out, energy_in): readings of   *)
(* the pump's heat meters that come one by one, samples of the power it    *)
(* draws, the marks both figures are measured from, saves and restarts.    *)
(*                                                                         *)
(* The pump of the model draws one unit of energy in one unit of time and  *)
(* delivers one unit of heat, counted by one of its meters: its true       *)
(* coefficient is one, so a difference between the figures is an error of  *)
(* the counting.                                                           *)
(***************************************************************************)
EXTENDS Integers, FiniteSets, FiniteSetsExt

CONSTANTS
  Meters,           \* the heat meters the pump answers
  MaxTrapezoid,     \* MAX_TRAPEZOID_S, in units of time
  LongestGap,           \* MAX_GAP_S
  MaxTime,          \* bound: how long the model watches
  MaxEvents         \* bound: resets, clock changes and stops

ASSUME EnergyAssumption ==
  /\ IsFiniteSet(Meters) /\ Meters # {}
  /\ MaxTrapezoid \in Nat \ {0} /\ LongestGap \in Nat /\ MaxTrapezoid <= LongestGap
  /\ {MaxTime, MaxEvents} \subseteq Nat

VARIABLES
  clock,       \* the wall clock
  meter,       \* the pump's meters
  reading,     \* what the coordinator has read of each, Unread before
  counter,     \* the ElectricityCounter
  stored,      \* its store
  running,     \* whether Home Assistant is up
  events       \* resets, clock changes and stops so far

energyVars == <<clock, meter, reading, counter, stored, running, events>>

Unread == -1
Unmarked == -1

(* A new counter.  The last three fields are not the code's: how far the   *)
(* counts of heat and of electricity were behind when the mark was set,    *)
(* whether a reset or a clock set back has come since, and whether a gap   *)
(* has been skipped since.                                                 *)
NewCounter == [total |-> 0, heatMark |-> Unmarked, electricityMark |-> 0,
               last |-> Unmarked, power |-> 0, lag |-> 0,
               bent |-> FALSE, gap |-> FALSE]

MeterSum(f) == MapThenSumSet(LAMBDA m : f[m], Meters)

EnergyInit ==
  /\ clock = 0
  /\ meter = [m \in Meters |-> 1]
  /\ reading = [m \in Meters |-> Unread]
  /\ counter = NewCounter
  /\ stored = NewCounter
  /\ running = TRUE
  /\ events = 0

AllRead == \A m \in Meters : reading[m] # Unread
Lag == MeterSum(meter) - MeterSum(reading)

----------------------------------------------------------------------------
(* The pump *)

Runs(m) ==
  /\ clock < MaxTime
  /\ clock' = clock + 1
  /\ meter' = [meter EXCEPT ![m] = @ + 1]
  /\ UNCHANGED <<reading, counter, stored, running, events>>

Event == events < MaxEvents /\ events' = events + 1

(* A service visit: one meter, or with a new controller all of them, start *)
(* again from nothing.                                                     *)
MetersReset(reset) ==
  /\ reset # {} /\ \E m \in reset : meter[m] > 0
  /\ Event
  /\ meter' = [m \in Meters |-> IF m \in reset THEN 0 ELSE meter[m]]
  /\ counter' = [counter EXCEPT !.bent = TRUE]
  /\ stored' = [stored EXCEPT !.bent = TRUE]
  /\ UNCHANGED <<clock, reading, running>>

ClockSetBack ==
  /\ clock > 0
  /\ Event
  /\ clock' = clock - 1
  /\ counter' = [counter EXCEPT !.bent = TRUE]
  /\ stored' = [stored EXCEPT !.bent = TRUE]
  /\ UNCHANGED <<meter, reading, running>>

----------------------------------------------------------------------------
(* Readings and samples *)

ReadMeter(m) ==
  /\ running
  /\ reading' = [reading EXCEPT ![m] = meter[m]]
  /\ UNCHANGED <<clock, meter, counter, stored, running, events>>

(* Twice the energy between two samples: a straight line over a short gap, *)
(* the lower power over a longer one, nothing over one too long to tell.   *)
Doubled(seconds, before, after) ==
  IF seconds <= 0 \/ seconds > LongestGap THEN 0
  ELSE IF seconds <= MaxTrapezoid THEN (before + after) * seconds
  ELSE 2 * (IF before < after THEN before ELSE after) * seconds

Power == 1

(* The end of a poll cycle: the first sample only starts the line.         *)
Sample ==
  LET seconds == clock - counter.last
      first == counter.last = Unmarked
  IN
  /\ running
  /\ counter' = [counter EXCEPT
       !.last = clock, !.power = Power,
       !.total = IF first THEN @ ELSE @ + Doubled(seconds, counter.power, Power) \div 2,
       !.gap = @ \/ (~first /\ seconds > LongestGap)]
  /\ UNCHANGED <<clock, meter, reading, stored, running, events>>

----------------------------------------------------------------------------
(* The figures *)

(* The whole set of meters or nothing.                                     *)
HeatTotal == IF AllRead THEN MeterSum(reading) ELSE Unread

MarkedHeatOnly(c, total) ==
  [c EXCEPT !.heatMark = total,
            !.electricityMark = IF c.heatMark = Unmarked THEN c.total ELSE @,
            !.lag = Lag - (clock - c.last), !.bent = c.last \notin 0 .. clock, !.gap = FALSE]

(* The first total, and one below the mark, move both marks.               *)
Marked(c, total) ==
  [c EXCEPT !.heatMark = total, !.electricityMark = c.total,
            !.lag = Lag - (clock - c.last), !.bent = c.last \notin 0 .. clock, !.gap = FALSE]

Produced(c, total) ==
  IF total # Unread /\ (c.heatMark = Unmarked \/ total < c.heatMark)
    THEN Marked(c, total) ELSE c

(* Somebody asks: a sensor, the record of the day, the daily report.       *)
Figures ==
  /\ running
  /\ counter' = Produced(counter, HeatTotal)
  /\ UNCHANGED <<clock, meter, reading, stored, running, events>>

EnergyOut == HeatTotal - counter.heatMark
EnergyIn == LET kwh == counter.total - counter.electricityMark IN IF kwh > 0 THEN kwh ELSE 0

----------------------------------------------------------------------------
(* Saves and restarts *)

Save ==
  /\ running
  /\ stored' = counter
  /\ UNCHANGED <<clock, meter, reading, counter, running, events>>

Stops(cleanly) ==
  /\ running
  /\ Event
  /\ running' = FALSE
  /\ stored' = IF cleanly THEN counter ELSE stored
  /\ reading' = [m \in Meters |-> Unread]
  /\ UNCHANGED <<clock, meter, counter>>

(* Counting goes on from the stored sample.                                *)
Starts ==
  /\ ~running
  /\ running' = TRUE
  /\ counter' = stored
  /\ UNCHANGED <<clock, meter, reading, stored, events>>

EnergyNext ==
  \/ \E m \in Meters : Runs(m) \/ ReadMeter(m)
  \/ \E reset \in SUBSET Meters : MetersReset(reset)
  \/ ClockSetBack \/ Sample \/ Figures \/ Save \/ Starts
  \/ \E cleanly \in BOOLEAN : Stops(cleanly)

EnergySpec == EnergyInit /\ [][EnergyNext]_energyVars

----------------------------------------------------------------------------
EnergyTypeOK ==
  /\ clock \in 0 .. MaxTime
  /\ meter \in [Meters -> Nat]
  /\ \A m \in Meters : reading[m] >= Unread
  /\ \A c \in {counter, stored} :
       /\ c.total \in Nat /\ c.electricityMark \in 0 .. c.total
       /\ c.heatMark >= Unmarked /\ c.last >= Unmarked
  /\ running \in BOOLEAN

(* Since the marks were set the meters have counted as much as the counter *)
(* has, apart from what was read or sampled late.                          *)
Even ==
  counter.heatMark # Unmarked /\ AllRead /\ counter.last = clock
    => EnergyOut + Lag - counter.lag = EnergyIn

(* The two figures cover the same span: through meters read one by one,    *)
(* marks moved at any moment between samples, crashes that lose samples,   *)
(* restarts, and meters that were reset, once the reset is noticed.        *)
FairSpan == ~counter.bent /\ ~counter.gap => Even

(* The same through any gap, as the docstring of `produced` has it: "the   *)
(* two always cover the same span".                                        *)
SameSpan == ~counter.bent => Even
=============================================================================
