---------------------------- MODULE PollSchedule ----------------------------
(***************************************************************************)
(* Which registers a gateway's poll cycle reads, when every read costs     *)
(* about a second (gateway.PollSchedule).  The code keeps moments on a     *)
(* monotonic clock; here each register has the time since it was last seen *)
(* and the time left until it may be tried again.                          *)
(***************************************************************************)
EXTENDS Integers, FiniteSets, SequencesExt

CONSTANTS
  Registers,       \* register numbers
  Kind,            \* what the register map says: setting, counter, measurement
  Base,            \* the scan interval, in units of time
  SettingFactor, SettingMinimum, CounterFactor, CounterMinimum, MaxBackoff,
  Oldest           \* bound: ages are not told apart from here on

ASSUME RegistersAssumption == Registers \subseteq Nat /\ IsFiniteSet(Registers)
ASSUME KindAssumption ==
  Kind \in [Registers -> {"setting", "counter", "measurement"}]
ASSUME TimesAssumption ==
  /\ Base \in Nat \ {0}
  /\ {SettingFactor, SettingMinimum, CounterFactor, CounterMinimum} \subseteq Nat
  /\ MaxBackoff \in Nat \ {0} /\ Oldest \in Nat

Never == Oldest + 1
Larger(a, b) == IF a > b THEN a ELSE b
Smaller(a, b) == IF a < b THEN a ELSE b

(* 2 ** n, as a function that can be reasoned about.                       *)
Doubled[n \in Nat] == IF n = 0 THEN 1 ELSE 2 * Doubled[n - 1]

(* Bound: a count of failures that gives the longest back-off is not told  *)
(* from higher ones.                                                       *)
MaxFailures == CHOOSE n \in 1 .. MaxBackoff + 1 :
                 /\ Base * Doubled[n - 1] >= MaxBackoff
                 /\ \A m \in 1 .. n - 1 : Base * Doubled[m - 1] < MaxBackoff

Schedules == [Registers ->
  [age : 0 .. Never, failures : 0 .. MaxFailures, retry : 0 .. MaxBackoff]]

Unknown == [age |-> Never, failures |-> 0, retry |-> 0]

Interval(r) ==
  CASE Kind[r] = "setting" -> Larger(SettingFactor * Base, SettingMinimum)
    [] Kind[r] = "counter" -> Larger(CounterFactor * Base, CounterMinimum)
    [] OTHER -> Base

Seen(s, r) == [s EXCEPT ![r] = [age |-> 0, failures |-> 0, retry |-> 0]]

FailedNoBackoff(s, r) == [s EXCEPT ![r].failures = Smaller(@ + 1, MaxFailures)]

FailedUncapped(s, r) ==
  [s EXCEPT ![r].failures = Smaller(@ + 1, MaxFailures),
            ![r].retry = Base * Doubled[s[r].failures]]

Failed(s, r) ==
  LET count == s[r].failures + 1 IN
  [s EXCEPT ![r].failures = Smaller(count, MaxFailures),
            ![r].retry = Smaller(Base * Doubled[count - 1], MaxBackoff)]

Forget(s, r) == [s EXCEPT ![r] = Unknown]

Later(s, d) ==
  [r \in Registers |->
    [s[r] EXCEPT !.age = IF @ = Never THEN Never ELSE Smaller(@ + d, Oldest),
                 !.retry = Larger(@ - d, 0)]]

(* A quarter of a cycle early counts as due. *)
Lateness(s, r) == s[r].age - Interval(r)
IsDueOnceRead(s, r) ==
  s[r].retry = 0 /\ s[r].age # Never /\ 4 * Lateness(s, r) + Base >= 0

IsDue(s, r) ==
  /\ s[r].retry = 0
  /\ s[r].age = Never \/ 4 * Lateness(s, r) + Base >= 0

(* Never read before read, then the most overdue, then by number. *)
Before(s, q, r) ==
  IF s[q].age = Never \/ s[r].age = Never
    THEN s[r].age # Never \/ (s[q].age = Never /\ q < r)
    ELSE \/ Lateness(s, q) > Lateness(s, r)
         \/ Lateness(s, q) = Lateness(s, r) /\ q < r

(* All that are due, each where as many come before it as are due before.  *)
Due(s, wanted) ==
  LET due == {r \in wanted : IsDue(s, r)} IN
  [i \in 1 .. Cardinality(due) |->
    CHOOSE r \in due : Cardinality({q \in due : Before(s, q, r)}) = i - 1]
=============================================================================
