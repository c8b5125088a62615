----------------------- MODULE GatewayCoordinatorProofs -----------------------
(***************************************************************************)
(* Theorems about GatewayCoordinator: how long the gateway can go without  *)
(* a request of ours, for every scan interval and every way the registers  *)
(* answer.                                                                 *)
(***************************************************************************)
EXTENDS GatewayCoordinator, FiniteSetTheorems, FunctionTheorems, WellFoundedInduction, TLAPS

Busy == write # NoWrite \/ Scanning \/ \E c \in Cycles : ~Idle(c)

Fields == {"queue", "elapsed", "got", "row", "answer"}
Shaped(cs) ==
  /\ cs = [c \in Cycles |-> cs[c]]
  /\ \A c \in Cycles : /\ DOMAIN cs[c] = Fields
                       /\ cs[c].queue = <<>> => cs[c].answer = None

TimesTyped == heard \in Nat /\ quiet \in 0 .. Keepalive /\ timer \in 0 .. Unarmed

(* An answer a cycle has not taken yet has only just come.                 *)
HeardByAnswer == \A c \in Cycles : cycle[c].answer # None => heard <= Slow
(* While nothing is under way the time since our last request tells how    *)
(* long the gateway has heard nothing, until the time is up ...            *)
HeardByQuiet == Busy \/ quiet = Keepalive \/ heard <= quiet + Slow
(* ... and from then on the refresh that is due tells.                     *)
HeardByTimer == Busy \/ timer \notin 1 .. Base \/ heard + timer <= Longest

(* A write refused unsent makes the silence look shorter than it is, until *)
(* something is sent again.                                                *)
AskedInTime == heard <= Longest /\ HeardByQuiet /\ HeardByTimer

RelayInv ==
  /\ TimesTyped /\ Shaped(cycle) /\ HeardByAnswer
  /\ refused \/ AskedInTime

----------------------------------------------------------------------------
(* How the times compare: a request costs at most Slow, and no pause is
   longer than Longest. *)
LEMMA CostsAre ==
  /\ {ReadCost, TimeoutCost, Keepalive, Base, Slow, Longest} \subseteq Nat \ {0}
  /\ ReadCost <= Slow /\ TimeoutCost <= Slow /\ Slow <= Longest
  /\ Longest = Slow + Keepalive - 1 + Base /\ Unarmed = Base + 1
  /\ Unheard \in Nat /\ Longest < Unheard
BY CostsAssumption, TimesAssumption DEF Slow, Longest, Larger, Unarmed, Unheard

(* A cycle not begun has nothing to do and no answer. *)
LEMMA NoCycleShaped ==
  DOMAIN NoCycle = Fields /\ NoCycle.queue = <<>> /\ NoCycle.answer = None
BY DEF NoCycle, Fields

(* Time passing lowers the timer, lengthens the silence up to its bound,
   and leaves the cycles' work alone. *)
LEMMA LaterIs ==
  ASSUME TimesTyped, Shaped(cycle), NEW d \in Nat
  PROVE  /\ LaterQuiet(d) \in 0 .. Keepalive
         /\ LaterTimer(d) \in 0 .. Unarmed
         /\ Shaped(LaterCycles(d))
         /\ \A c \in Cycles : /\ LaterCycles(d)[c].answer = cycle[c].answer
                              /\ LaterCycles(d)[c].queue = cycle[c].queue
<1>1. LaterQuiet(d) \in 0 .. Keepalive
  BY CostsAre DEF TimesTyped, LaterQuiet, Smaller
<1>2. LaterTimer(d) \in 0 .. Unarmed
  BY CostsAre DEF TimesTyped, LaterTimer, Larger
<1>3. ASSUME NEW c \in Cycles
      PROVE  /\ LaterCycles(d)[c].answer = cycle[c].answer
             /\ LaterCycles(d)[c].queue = cycle[c].queue
             /\ DOMAIN LaterCycles(d)[c] = Fields
  <2>1. DOMAIN cycle[c] = Fields
    BY DEF Shaped
  <2>2. CASE Idle(c)
    <3>1. cycle[c].queue = <<>> /\ cycle[c].answer = None
      BY <2>2 DEF Shaped, Idle
    <3>2. LaterCycles(d)[c] = NoCycle
      BY <2>2 DEF LaterCycles
    <3> QED BY <3>1, <3>2, NoCycleShaped
  <2>3. CASE ~Idle(c)
    <3>1. LaterCycles(d)[c]
            = [cycle[c] EXCEPT !.elapsed = Smaller(cycle[c].elapsed + d, Base)]
      BY <2>3 DEF LaterCycles
    <3> QED BY <2>1, <3>1 DEF Fields
  <2> QED BY <2>2, <2>3
<1>4. LaterCycles(d) = [c \in Cycles |-> LaterCycles(d)[c]]
  BY DEF LaterCycles
<1>5. Shaped(LaterCycles(d))
  BY <1>3, <1>4 DEF Shaped
<1> QED BY <1>1, <1>2, <1>3, <1>5

(* Replacing one cycle by a well-formed one keeps all well-formed. *)
LEMMA ChangedShaped ==
  ASSUME NEW cs, Shaped(cs), NEW c \in Cycles, NEW next, DOMAIN next = Fields,
         next.queue = <<>> => next.answer = None
  PROVE  Shaped([cs EXCEPT ![c] = next])
<1>1. [cs EXCEPT ![c] = next] = [b \in Cycles |-> IF b = c THEN next ELSE cs[b]]
  BY DEF Shaped
<1> DEFINE f == [b \in Cycles |-> IF b = c THEN next ELSE cs[b]]
<1>2. \A b \in Cycles : f[b] = IF b = c THEN next ELSE cs[b]
  OBVIOUS
<1>3. f = [b \in Cycles |-> f[b]]
  OBVIOUS
<1> HIDE DEF f
<1>4. Shaped(f)
  BY <1>2, <1>3 DEF Shaped
<1> QED BY <1>1, <1>4 DEF f

(* Going on with a cycle, or ending it, keeps the cycles and the times in
   form. *)
LEMMA ContinueShaped ==
  ASSUME TimesTyped, Shaped(cycle), NEW cycles, Shaped(cycles), NEW c \in Cycles, NEW next,
         DOMAIN next = Fields, next.answer = None, NEW passed \in Nat,
         Continue(c, next, cycles, passed)
  PROVE  Shaped(cycle') /\ quiet' \in 0 .. Keepalive /\ timer' \in 0 .. Unarmed
<1>1. /\ Shaped([cycles EXCEPT ![c] = NoCycle])
      /\ Shaped([cycles EXCEPT ![c] = next])
  BY NoCycleShaped, ChangedShaped
<1>2. /\ LaterQuiet(passed) \in 0 .. Keepalive /\ LaterTimer(passed) \in 0 .. Unarmed
      /\ 0 \in 0 .. Keepalive /\ Base \in 0 .. Unarmed
  BY LaterIs, CostsAre
<1> QED BY <1>1, <1>2 DEF Continue

(* Whatever ends a request, or comes right after, leaves the gateway as    *)
(* somebody who has just been asked.                                       *)
LEMMA JustAsked ==
  ASSUME heard' \in Nat, heard' <= Slow, quiet' \in 0 .. Keepalive, timer' \in 0 .. Unarmed,
         Shaped(cycle')
  PROVE  RelayInv'
<1>1. TimesTyped' /\ heard' <= Longest
  BY CostsAre DEF TimesTyped
<1>2. HeardByAnswer'
  BY DEF HeardByAnswer
<1>3. HeardByQuiet'
  BY CostsAre DEF HeardByQuiet
<1>4. HeardByTimer'
  BY CostsAre DEF HeardByTimer
<1> QED BY <1>1, <1>2, <1>3, <1>4 DEF RelayInv, AskedInTime

----------------------------------------------------------------------------
(* The relay's invariant holds at the start. *)
LEMMA RelayStarts ==
  Init => RelayInv
<1> SUFFICES ASSUME Init PROVE RelayInv
  OBVIOUS
<1>1. heard = 0 /\ quiet = 0 /\ timer = 0 /\ cycle = [c \in Cycles |-> NoCycle]
  BY DEF Init
<1>2. TimesTyped
  BY <1>1, CostsAre DEF TimesTyped
<1>3. Shaped(cycle)
  BY <1>1, NoCycleShaped DEF Shaped
<1>4. heard <= Longest /\ HeardByAnswer /\ HeardByQuiet /\ HeardByTimer
  BY <1>1, CostsAre DEF HeardByAnswer, HeardByQuiet, HeardByTimer
<1> QED BY <1>2, <1>3, <1>4 DEF RelayInv, AskedInTime

(* Time passing keeps it: a tick is due before the silence is too long. *)
LEMMA WaitKeeps ==
  RelayInv /\ Wait => RelayInv'
<1> SUFFICES ASSUME RelayInv, Wait PROVE RelayInv'
  OBVIOUS
<1>1. /\ heard \in Nat /\ quiet \in 0 .. Keepalive /\ timer \in 1 .. Base
      /\ heard' = Smaller(heard + 1, Unheard) /\ UNCHANGED <<refused, cycle, write, rescan>>
      /\ quiet' = Smaller(quiet + 1, Keepalive) /\ timer' = timer - 1
      /\ \A c \in Cycles : Idle(c)
  BY CostsAre DEF Wait, RelayInv, TimesTyped, LaterQuiet, LaterTimer, Larger
<1>2. heard' \in Nat /\ heard' <= heard + 1
  BY <1>1, CostsAre DEF Smaller
<1>3. ~Busy /\ (Busy' <=> Busy)
  BY <1>1 DEF Busy, Wait, Scanning, Idle
<1>4. TimesTyped'
  BY <1>1, <1>2, CostsAre DEF TimesTyped, Smaller
<1>5. HeardByAnswer'
  BY <1>1 DEF RelayInv, Shaped, HeardByAnswer, Idle
<1>6. ASSUME ~refused
      PROVE  AskedInTime'
  <2>1. /\ quiet = Keepalive \/ heard <= quiet + Slow
        /\ heard + timer <= Longest
    BY <1>1, <1>3, <1>6 DEF RelayInv, AskedInTime, HeardByQuiet, HeardByTimer
  <2>2. heard' <= Longest
    BY <1>1, <1>2, <2>1, CostsAre
  <2>3. HeardByQuiet'
    BY <1>1, <1>2, <2>1, CostsAre DEF HeardByQuiet, Smaller
  <2>4. HeardByTimer'
    BY <1>1, <1>2, <2>1, CostsAre DEF HeardByTimer
  <2> QED BY <2>2, <2>3, <2>4 DEF AskedInTime
<1> QED BY <1>1, <1>4, <1>5, <1>6 DEF RelayInv

(* The start of a cycle keeps it: a silence of Keepalive makes the cycle
   send a request. *)
LEMMA StartKeeps ==
  ASSUME RelayInv, NEW c \in Cycles, StartCycle(c)
  PROVE  RelayInv'
<1>1. /\ heard \in Nat /\ quiet \in 0 .. Keepalive /\ timer = 0
      /\ UNCHANGED <<heard, refused, write, rescan>> /\ Idle(c) /\ Shaped(cycle)
      /\ ~refused => AskedInTime /\ heard <= Longest
  BY DEF StartCycle, RelayInv, TimesTyped, AskedInTime
<1>2. CASE Queue # <<>>
  <2>1. /\ cycle' = [cycle EXCEPT ![c] = [NoCycle EXCEPT !.queue = Queue]]
        /\ quiet' = 0 /\ timer' = Unarmed
    BY <1>2 DEF StartCycle
  <2> DEFINE started == [NoCycle EXCEPT !.queue = Queue]
  <2>2. DOMAIN started = Fields /\ started.queue = Queue /\ started.answer = None
    BY DEF NoCycle, Fields
  <2> HIDE DEF started
  <2>3. Shaped(cycle')
    BY <1>1, <2>1, <2>2, ChangedShaped DEF started
  <2>4. \A b \in Cycles : cycle'[b] = IF b = c THEN started ELSE cycle[b]
    BY <1>1, <2>1 DEF started, Shaped
  <2>5. Busy'
    BY <1>2, <2>2, <2>4 DEF Busy, Idle
  <2>6. TimesTyped' /\ (~refused => heard' <= Longest)
    BY <1>1, <2>1, CostsAre DEF TimesTyped
  <2>7. HeardByAnswer'
    BY <1>1, <2>2, <2>4 DEF RelayInv, HeardByAnswer
  <2> QED BY <1>1, <2>3, <2>5, <2>6, <2>7
          DEF RelayInv, AskedInTime, HeardByQuiet, HeardByTimer
<1>3. CASE Queue = <<>>
  <2>1. quiet < Keepalive
    <3>1. <<Announce>> # <<>>
      OBVIOUS
    <3>2. CASE ~(quiet >= Keepalive)
      BY <1>1, <3>2, CostsAre
    <3>3. CASE quiet >= Keepalive
      BY <1>3, <3>1, <3>3 DEF Queue
    <3> QED BY <3>2, <3>3
  <2>2. Continue(c, NoCycle, cycle, 0)
    BY <1>3 DEF StartCycle
  <2>3. /\ cycle' = [cycle EXCEPT ![c] = NoCycle]
        /\ quiet' = LaterQuiet(0) /\ timer' = Base
    BY <2>2, NoCycleShaped DEF Continue
  <2>4. quiet' = quiet
    BY <1>1, <2>3, CostsAre DEF LaterQuiet, Smaller
  <2>5. Shaped(cycle')
    BY <1>1, <2>3, NoCycleShaped, ChangedShaped
  <2>6. \A b \in Cycles : cycle'[b] = IF b = c THEN NoCycle ELSE cycle[b]
    BY <1>1, <2>3 DEF Shaped
  <2>7. \A b \in Cycles : cycle'[b].queue = cycle[b].queue
    BY <1>1, <2>6, NoCycleShaped DEF Idle
  <2>8. Busy' <=> Busy
    BY <1>1, <2>7 DEF Busy, Idle, Scanning
  <2>9. TimesTyped' /\ (~refused => heard' <= Longest)
    BY <1>1, <2>3, <2>4, CostsAre DEF TimesTyped
  <2>10. HeardByAnswer'
    BY <1>1, <2>6, NoCycleShaped DEF RelayInv, HeardByAnswer
  <2>11. ~refused => Busy \/ heard <= quiet + Slow
    BY <1>1, <2>1, CostsAre DEF AskedInTime, HeardByQuiet
  <2>12. ~refused => HeardByQuiet' /\ HeardByTimer'
    BY <1>1, <2>1, <2>3, <2>4, <2>8, <2>11, CostsAre DEF HeardByQuiet, HeardByTimer
  <2> QED BY <1>1, <2>5, <2>9, <2>10, <2>12 DEF RelayInv, AskedInTime
<1> QED BY <1>2, <1>3

(* Each step of a cycle keeps it: every answer and every timeout is a
   request that was sent. *)
LEMMA CycleKeeps ==
  ASSUME RelayInv, NEW c \in Cycles, CycleStep(c)
  PROVE  RelayInv'
<1>1. TimesTyped /\ Shaped(cycle) /\ cycle[c].answer \in {cycle[c].answer}
      /\ DOMAIN cycle[c] = Fields
  BY DEF RelayInv, Shaped
<1>2. ReadCost \in Nat /\ TimeoutCost \in Nat
  BY CostsAre
<1>3. CASE Answered(c)
  <2>1. /\ heard' = ReadCost /\ quiet' = LaterQuiet(ReadCost) /\ timer' = LaterTimer(ReadCost)
        /\ cycle' = [LaterCycles(ReadCost) EXCEPT ![c].answer = pump[Asked(c)]]
        /\ ~Idle(c)
    BY <1>3 DEF Answered, Sent, Reading
  <2> DEFINE later == LaterCycles(ReadCost)
             next == [later[c] EXCEPT !.answer = pump[Asked(c)]]
  <2>2. Shaped(later) /\ later[c].queue = cycle[c].queue
    BY <1>1, <1>2, LaterIs
  <2>3. cycle' = [later EXCEPT ![c] = next]
    BY <2>1
  <2> HIDE DEF later
  <2>4. DOMAIN next = Fields /\ next.queue # <<>>
    BY <2>1, <2>2 DEF Shaped, Fields, Idle
  <2> HIDE DEF next
  <2>5. Shaped(cycle')
    BY <2>2, <2>3, <2>4, ChangedShaped
  <2> QED BY <1>1, <1>2, <2>1, <2>5, LaterIs, JustAsked, CostsAre
<1>4. CASE Resume(c)
  <2> DEFINE next == [cycle[c] EXCEPT !.queue = Tail(@), !.got = TRUE, !.row = 0,
                                      !.answer = None]
  <2>1. Continue(c, next, cycle, 0) /\ heard' = heard /\ cycle[c].answer # None
    BY <1>4 DEF Resume, Reading
  <2>2. DOMAIN next = Fields /\ next.answer = None
    BY <1>1 DEF Fields
  <2> HIDE DEF next
  <2>3. Shaped(cycle') /\ quiet' \in 0 .. Keepalive /\ timer' \in 0 .. Unarmed
    BY <1>1, <2>1, <2>2, ContinueShaped
  <2>4. heard' <= Slow /\ heard' \in Nat
    BY <1>1, <2>1 DEF RelayInv, HeardByAnswer, TimesTyped
  <2> QED BY <2>3, <2>4, JustAsked
<1>5. CASE TimesOut(c)
  <2> DEFINE cycles == LaterCycles(TimeoutCost)
             next == [cycles[c] EXCEPT !.queue = Tail(@), !.row = @ + 1]
  <2>1. /\ heard' = TimeoutCost /\ cycle[c].answer = None
        /\ IF Unreachable(next) THEN GivesUp(c, cycles)
                                ELSE Continue(c, next, cycles, TimeoutCost)
    BY <1>5 DEF TimesOut, Sent, Reading
  <2>2. Shaped(cycles) /\ cycles[c].answer = None
    BY <1>1, <1>2, <2>1, LaterIs
  <2> HIDE DEF cycles
  <2>3. DOMAIN next = Fields /\ next.answer = None
    BY <2>2 DEF Shaped, Fields
  <2> HIDE DEF next
  <2>4. CASE Continue(c, next, cycles, TimeoutCost)
    <3>1. Shaped(cycle') /\ quiet' \in 0 .. Keepalive /\ timer' \in 0 .. Unarmed
      BY <1>1, <1>2, <2>2, <2>3, <2>4, ContinueShaped
    <3> QED BY <2>1, <3>1, JustAsked, CostsAre
  <2>5. CASE GivesUp(c, cycles)
    <3>1. cycle' = [cycles EXCEPT ![c] = NoCycle] /\ timer' = Base
          /\ quiet' = LaterQuiet(TimeoutCost)
      BY <2>5 DEF GivesUp
    <3>2. Shaped(cycle')
      BY <2>2, <3>1, NoCycleShaped, ChangedShaped
    <3>3. quiet' \in 0 .. Keepalive /\ timer' \in 0 .. Unarmed
      BY <1>1, <1>2, <3>1, LaterIs, CostsAre
    <3> QED BY <2>1, <3>2, <3>3, JustAsked, CostsAre
  <2> QED BY <2>1, <2>4, <2>5
<1>6. CASE Garbled(c)
  <2> DEFINE cycles == LaterCycles(ReadCost)
             next == [cycles[c] EXCEPT !.queue = Tail(@)]
  <2>1. heard' = ReadCost /\ cycle[c].answer = None /\ Continue(c, next, cycles, ReadCost)
    BY <1>6 DEF Garbled, Sent, Reading
  <2>2. Shaped(cycles) /\ cycles[c].answer = None
    BY <1>1, <1>2, <2>1, LaterIs
  <2> HIDE DEF cycles
  <2>3. DOMAIN next = Fields /\ next.answer = None
    BY <2>2 DEF Shaped, Fields
  <2> HIDE DEF next
  <2>4. Shaped(cycle') /\ quiet' \in 0 .. Keepalive /\ timer' \in 0 .. Unarmed
    BY <1>1, <1>2, <2>1, <2>2, <2>3, ContinueShaped
  <2> QED BY <2>1, <2>4, JustAsked, CostsAre
<1> QED BY <1>3, <1>4, <1>5, <1>6 DEF CycleStep

(* What neither asks the gateway nor lets time pass.                       *)
LEMMA OthersKeep ==
  ASSUME RelayInv, UNCHANGED <<heard, cycle>>, timer' \in {timer, 0},
         refused' = refused \/ refused' = TRUE,
         \/ UNCHANGED <<quiet, write, rescan>>
         \/ (refused' \/ Busy') /\ quiet' \in 0 .. Keepalive
  PROVE  RelayInv'
<1>1. heard \in Nat /\ quiet \in 0 .. Keepalive /\ timer \in 0 .. Unarmed
  BY DEF RelayInv, TimesTyped
<1>2. TimesTyped'
  BY <1>1, CostsAre DEF TimesTyped
<1>3. Shaped(cycle') /\ HeardByAnswer'
  BY DEF RelayInv, HeardByAnswer
<1>4. ASSUME ~refused'
      PROVE  AskedInTime'
  <2>1. AskedInTime /\ heard' <= Longest
    BY <1>4 DEF RelayInv, AskedInTime
  <2>2. CASE Busy'
    BY <2>1, <2>2 DEF AskedInTime, HeardByQuiet, HeardByTimer
  <2>3. CASE UNCHANGED <<quiet, write, rescan>>
    <3>1. Busy' <=> Busy
      BY <2>3 DEF Busy, Idle, Scanning
    <3>2. HeardByQuiet /\ HeardByTimer /\ 0 \notin 1 .. Base
      BY <2>1, CostsAre DEF AskedInTime
    <3> QED BY <2>1, <2>3, <3>1, <3>2 DEF AskedInTime, HeardByQuiet, HeardByTimer
  <2> QED BY <1>4, <2>2, <2>3
<1> QED BY <1>2, <1>3, <1>4 DEF RelayInv

(* Every step keeps it. *)
LEMMA RelaySteps ==
  RelayInv /\ [Next]_vars => RelayInv'
<1> SUFFICES ASSUME RelayInv, [Next]_vars PROVE RelayInv'
  OBVIOUS
<1>0. TimesTyped /\ Shaped(cycle) /\ ReadCost \in Nat /\ TimeoutCost \in Nat
  BY CostsAre DEF RelayInv
<1>1. CASE Wait
  BY <1>1, WaitKeeps
<1>2. CASE Flush
  BY <1>2, OthersKeep DEF Flush, timeVars
<1>3. CASE StartRescan
  <2>1. UNCHANGED <<heard, refused, cycle, timer, quiet, write>>
    BY <1>3 DEF StartRescan, timeVars
  <2>2. ~Scanning
    BY <1>3 DEF StartRescan
  <2>3. CASE Scanning'
    BY <1>0, <2>1, <2>3, OthersKeep DEF Busy, TimesTyped
  <2>4. CASE ~Scanning'
    <3>1. Busy' <=> Busy
      BY <2>1, <2>2, <2>4 DEF Busy, Idle
    <3> QED BY <2>1, <3>1
            DEF RelayInv, AskedInTime, TimesTyped, HeardByAnswer, HeardByQuiet, HeardByTimer
  <2> QED BY <2>3, <2>4
<1>4. ASSUME NEW b \in BOOLEAN, Probe(b) PROVE RelayInv'
  <2>1. PICK cost \in {ReadCost, TimeoutCost} :
          /\ heard' = cost /\ cycle' = LaterCycles(cost)
          /\ quiet' \in {0, LaterQuiet(cost)} /\ timer' \in {0, LaterTimer(cost)}
    BY <1>4 DEF Probe, Sent
  <2>2. /\ Shaped(cycle') /\ LaterQuiet(cost) \in 0 .. Keepalive
        /\ LaterTimer(cost) \in 0 .. Unarmed
    BY <1>0, <2>1, LaterIs
  <2>3. quiet' \in 0 .. Keepalive /\ timer' \in 0 .. Unarmed
    BY <2>1, <2>2, CostsAre
  <2> QED BY <2>1, <2>2, <2>3, JustAsked, CostsAre
<1>5. ASSUME NEW c \in Cycles, StartCycle(c) PROVE RelayInv'
  BY <1>5, StartKeeps
<1>6. ASSUME NEW c \in Cycles, CycleStep(c) PROVE RelayInv'
  BY <1>6, CycleKeeps
<1>7. ASSUME NEW r \in Registers, Push(r) PROVE RelayInv'
  BY <1>7, OthersKeep DEF Push
<1>8. ASSUME NEW r \in Registers, Subscribe(r) PROVE RelayInv'
  BY <1>8, OthersKeep DEF Subscribe
<1>9. ASSUME NEW r \in Registers, Unsubscribe(r) PROVE RelayInv'
  BY <1>9, OthersKeep DEF Unsubscribe
<1>10. ASSUME NEW r \in Registers, NEW v \in Values, Write(r, v) PROVE RelayInv'
  <2>1. /\ write' = [pc |-> "sent", register |-> r, value |-> v] /\ quiet' = 0
        /\ UNCHANGED <<heard, refused, cycle, timer>>
    BY <1>10 DEF Write
  <2>2. write'.pc = "sent" /\ NoWrite.pc = "none"
    BY <2>1 DEF NoWrite
  <2>3. Busy' /\ quiet' \in 0 .. Keepalive
    BY <2>1, <2>2, CostsAre DEF Busy, NoWrite
  <2> QED BY <2>1, <2>3, OthersKeep
<1>11. ASSUME NEW r \in Registers, NEW v \in Values, PumpChanges(r, v) PROVE RelayInv'
  BY <1>11, OthersKeep DEF PumpChanges, timeVars
<1>12. ASSUME NEW b \in BOOLEAN, WriteEnds(b) PROVE RelayInv'
  <2>1. /\ heard' = ReadCost /\ quiet' = LaterQuiet(ReadCost)
        /\ timer' = LaterTimer(ReadCost) /\ cycle' = LaterCycles(ReadCost)
    BY <1>12 DEF WriteEnds, Sent
  <2> QED BY <1>0, <2>1, LaterIs, JustAsked, CostsAre
<1>13. ASSUME NEW b \in BOOLEAN, ReadsBack(b) PROVE RelayInv'
  <2>1. /\ heard' = ReadCost /\ quiet' = 0 /\ timer' = Base /\ cycle' = LaterCycles(ReadCost)
    BY <1>13 DEF ReadsBack, Seeded, Sent
  <2>2. Shaped(cycle') /\ quiet' \in 0 .. Keepalive /\ timer' \in 0 .. Unarmed
    BY <1>0, <2>1, LaterIs, CostsAre
  <2> QED BY <2>1, <2>2, JustAsked, CostsAre
<1>14. ASSUME NEW r \in Registers, WriteRefused(r) PROVE RelayInv'
  BY <1>14, OthersKeep, CostsAre DEF WriteRefused
<1>15. CASE UNCHANGED vars
  BY <1>15, OthersKeep DEF vars, timeVars
<1> QED BY <1>1, <1>2, <1>3, <1>4, <1>5, <1>6, <1>7, <1>8, <1>9, <1>10, <1>11, <1>12,
           <1>13, <1>14, <1>15 DEF Next

(* However the registers answer and whatever is pushed, written, scanned   *)
(* or switched, the gateway is asked for something at least as often as    *)
(* one request, the keep-alive and one scan interval take together         *)
(* (gateway_coordinator._async_update_data, the keep-alive read) - as long *)
(* as no write is refused before it is sent, which the code takes for a    *)
(* request (gateway_coordinator.py:404).  How that compares with the two   *)
(* minutes of the relay depends on the interval chosen.                    *)
THEOREM GatewayIsAsked == Spec => []AskedOften
<1>1. Init => RelayInv
  BY RelayStarts
<1>2. RelayInv /\ [Next]_vars => RelayInv'
  BY RelaySteps
<1>3. RelayInv => AskedOften
  BY DEF RelayInv, AskedInTime, AskedOften
<1> QED BY <1>1, <1>2, <1>3, PTL DEF Spec

----------------------------------------------------------------------------
(* The back-off: powers of two by their own equation *)

(* A set of naturals that is not empty has a least member. *)
LEMMA LeastNatural ==
  ASSUME NEW S \in SUBSET Nat, S # {}
  PROVE  \E n \in S : \A m \in S : n <= m
<1> DEFINE Upto(n) == {m \in S : m <= n}
           T == {Upto(n) : n \in S}
<1>0. \A n \in S : n \in Nat
  OBVIOUS
<1>1. T \subseteq FiniteSubsetsOf(Nat)
  <2> SUFFICES ASSUME NEW n \in S PROVE Upto(n) \in FiniteSubsetsOf(Nat)
    OBVIOUS
  <2>1. n \in Int /\ \A m \in Upto(n) : m \in Nat /\ m \in 0 .. n
    BY <1>0
  <2> HIDE DEF Upto
  <2>2. IsFiniteSet(0 .. n)
    BY <2>1, FS_Interval
  <2>3. IsFiniteSet(Upto(n))
    BY <2>1, <2>2, FS_Subset
  <2> QED BY <2>1, <2>3 DEF FiniteSubsetsOf
<1>2. T # {}
  OBVIOUS
<1>3. PICK U \in T : \A V \in T : <<V, U>> \notin StrictSubsetOrdering(Nat)
  <2> HIDE DEF T
  <2> QED BY <1>1, <1>2, FS_StrictSubsetOrderingWellFounded, WFMin
<1>4. PICK n \in S : U = Upto(n)
  OBVIOUS
<1>5. ASSUME NEW m \in S, m < n
      PROVE  FALSE
  <2>1. Upto(m) \in T
    OBVIOUS
  <2>2. \A x \in Upto(m) : x \in S /\ x <= n
    BY <1>5
  <2>3. n \in Upto(n) /\ n \notin Upto(m) /\ \A x \in Upto(n) : x \in Nat
    BY <1>0, <1>5
  <2>4. Upto(m) \subseteq Upto(n)
    BY <2>2
  <2> HIDE DEF T, Upto
  <2>5. <<Upto(m), U>> \in StrictSubsetOrdering(Nat)
    BY <1>4, <2>3, <2>4 DEF StrictSubsetOrdering
  <2> QED BY <1>3, <2>1, <2>5
<1> QED BY <1>5

(* Doubled, which looks back on itself, is what its own equation says.     *)
LEMMA DoubledIs ==
  \A n \in Nat : Doubled[n] = IF n = 0 THEN 1 ELSE 2 * Doubled[n - 1]
<1> DEFINE B(f, i) == IF i = 0 THEN 1 ELSE 2 * f[i - 1]
           Is(f, n) == f = [i \in 0 .. n |-> B(f, i)]
           Bad == {n \in Nat : ~\E f : Is(f, n)}
           Same == {n \in Nat : \E f, g, k, l : /\ k \in Nat /\ l \in Nat /\ n <= k /\ n <= l
                                                /\ Is(f, k) /\ Is(g, l) /\ f[n] # g[n]}
<1>1. \A i, f, g : f[i - 1] = g[i - 1] => B(f, i) = B(g, i)
  OBVIOUS
<1>2. \A f : B(f, 0) = 1
  OBVIOUS
<1> HIDE DEF B
<1>3. Bad = {}
  <2> SUFFICES ASSUME Bad # {} PROVE FALSE
    OBVIOUS
  <2>1. PICK n \in Bad : \A m \in Bad : n <= m
    BY LeastNatural
  <2>2. n \in Nat
    OBVIOUS
  <2>3. n # 0
    <3> DEFINE e == [i \in 0 .. 0 |-> 1]
    <3>1. Is(e, 0)
      BY <1>2
    <3> QED BY <3>1
  <2>4. n - 1 \in Nat /\ n - 1 \notin Bad
    <3> HIDE DEF Bad
    <3>1. n - 1 \in Nat /\ ~(n <= n - 1)
      BY <2>2, <2>3
    <3> QED BY <2>1, <3>1
  <2>5. PICK f : Is(f, n - 1)
    BY <2>4
  <2> DEFINE g == [i \in 0 .. n |-> IF i = n THEN B(f, n) ELSE f[i]]
  <2>6. ASSUME NEW i \in 0 .. n PROVE g[i] = B(g, i)
    <3>1. i - 1 \in 0 .. n - 1 \/ i = 0
      BY <2>2
    <3>2. i # 0 => g[i - 1] = f[i - 1]
      BY <2>2, <3>1
    <3>3. B(g, i) = B(f, i)
      BY <1>1, <1>2, <3>2
    <3>4. i # n => i \in 0 .. n - 1
      BY <2>2
    <3>5. i # n => f[i] = B(f, i)
      BY <2>5, <3>4
    <3> QED BY <3>3, <3>5
  <2>7. g = [i \in 0 .. n |-> B(g, i)]
    <3> DEFINE h == [i \in 0 .. n |-> B(g, i)]
    <3>1. \A i \in 0 .. n : g[i] = h[i]
      BY <2>6
    <3>2. g = [i \in 0 .. n |-> g[i]] /\ h = [i \in 0 .. n |-> h[i]]
      OBVIOUS
    <3> HIDE DEF g, h
    <3> QED BY <3>1, <3>2 DEF h
  <2>8. n \notin Bad
    <3> HIDE DEF g
    <3> QED BY <2>7
  <2> QED BY <2>8
<1>4. Same = {}
  <2> SUFFICES ASSUME Same # {} PROVE FALSE
    OBVIOUS
  <2>1. PICK n \in Same : \A m \in Same : n <= m
    BY LeastNatural
  <2>2. PICK f, g, k, l : /\ k \in Nat /\ l \in Nat /\ n <= k /\ n <= l
                          /\ Is(f, k) /\ Is(g, l) /\ f[n] # g[n]
    OBVIOUS
  <2>3. n \in Nat /\ n \in 0 .. k /\ n \in 0 .. l
    BY <2>2
  <2>4. f[n] = B(f, n) /\ g[n] = B(g, n)
    BY <2>2, <2>3
  <2>5. n # 0 /\ f[n - 1] # g[n - 1]
    <3>1. B(f, n) # B(g, n)
      BY <2>2, <2>4
    <3>2. n # 0
      BY <1>2, <3>1
    <3>3. f[n - 1] # g[n - 1]
      BY <1>1, <3>1
    <3> QED BY <3>2, <3>3
  <2>6. n - 1 \in Nat /\ n - 1 <= k /\ n - 1 <= l /\ ~(n <= n - 1)
    BY <2>2, <2>3, <2>5
  <2>7. n - 1 \in Same
    BY <2>2, <2>5, <2>6
  <2> HIDE DEF Same
  <2> QED BY <2>1, <2>6, <2>7
<1> DEFINE the(n) == CHOOSE f : Is(f, n)
           F == [n \in Nat |-> the(n)[n]]
<1>5. \A n \in Nat : Is(the(n), n)
  BY <1>3
<1>6. ASSUME NEW n \in Nat, n # 0 PROVE the(n)[n - 1] = the(n - 1)[n - 1]
  <2>1. n - 1 \in Nat /\ n - 1 <= n
    BY <1>6
  <2>2. Is(the(n), n) /\ Is(the(n - 1), n - 1)
    BY <1>5, <2>1
  <2> HIDE DEF the, Is
  <2>3. n - 1 \notin Same
    BY <1>4
  <2> QED BY <2>1, <2>2, <2>3
<1>7. ASSUME NEW n \in Nat PROVE F[n] = B(F, n)
  <2>1. n \in 0 .. n
    OBVIOUS
  <2>2. F[n] = the(n)[n] /\ the(n)[n] = B(the(n), n)
    <3>1. Is(the(n), n)
      BY <1>5
    <3> HIDE DEF the
    <3> QED BY <2>1, <3>1
  <2>3. n # 0 => n - 1 \in Nat /\ F[n - 1] = the(n)[n - 1]
    <3> SUFFICES ASSUME n # 0 PROVE n - 1 \in Nat /\ F[n - 1] = the(n)[n - 1]
      OBVIOUS
    <3>1. n - 1 \in Nat
      OBVIOUS
    <3>2. F[n - 1] = the(n - 1)[n - 1]
      BY <3>1
    <3> QED BY <1>6, <3>1, <3>2
  <2> HIDE DEF F, the
  <2> QED BY <1>1, <1>2, <2>2, <2>3
<1>8. F = [n \in Nat |-> B(F, n)]
  <2> DEFINE h == [n \in Nat |-> B(F, n)]
  <2>1. \A n \in Nat : F[n] = h[n]
    BY <1>7
  <2>2. F = [n \in Nat |-> F[n]] /\ h = [n \in Nat |-> h[n]]
    OBVIOUS
  <2> HIDE DEF F, h
  <2> QED BY <2>1, <2>2 DEF h
<1>9. Doubled = CHOOSE f : f = [n \in Nat |-> B(f, n)]
  BY DEF Doubled, B
<1> HIDE DEF F
<1>10. Doubled = [n \in Nat |-> B(Doubled, n)]
  BY <1>8, <1>9
<1> QED BY <1>10 DEF B

(* Powers of two are naturals that outgrow their exponents.                *)
LEMMA DoubledGrows ==
  \A n \in Nat : Doubled[n] \in Nat /\ Doubled[n] > n
<1> DEFINE Bad == {n \in Nat : ~(Doubled[n] \in Nat /\ Doubled[n] > n)}
<1> SUFFICES ASSUME Bad # {} PROVE FALSE
  OBVIOUS
<1>1. PICK n \in Bad : \A m \in Bad : n <= m
  BY LeastNatural
<1>2. n \in Nat /\ ~(Doubled[n] \in Nat /\ Doubled[n] > n)
  OBVIOUS
<1>3. Doubled[n] = IF n = 0 THEN 1 ELSE 2 * Doubled[n - 1]
  BY <1>2, DoubledIs
<1>4. n # 0
  BY <1>2, <1>3
<1>5. n - 1 \in Nat /\ ~(n <= n - 1)
  BY <1>2, <1>4
<1>6. Doubled[n - 1] \in Nat /\ Doubled[n - 1] > n - 1
  <2>1. n - 1 \notin Bad
    <3> HIDE DEF Bad
    <3> QED BY <1>1, <1>5
  <2> QED BY <1>5, <2>1
<1> QED BY <1>2, <1>3, <1>4, <1>5, <1>6

(* Some count of failures has the longest back-off, and the first that     *)
(* does is the one the schedule counts to.                                 *)
LEMMA FailuresBounded ==
  /\ MaxFailures \in Nat \ {0}
  /\ Base * Doubled[MaxFailures - 1] >= MaxBackoff
<1> DEFINE Long(n) == Base * Doubled[n - 1] >= MaxBackoff
           S == {n \in Nat \ {0} : Long(n)}
<1>1. Base \in Nat \ {0} /\ MaxBackoff \in Nat \ {0}
  BY TimesAssumption
<1>2. \A b \in Nat \ {0}, d \in Nat : b * d >= d
  OBVIOUS
<1>3. MaxBackoff + 1 \in S
  <2>1. Doubled[MaxBackoff] \in Nat /\ Doubled[MaxBackoff] > MaxBackoff
    BY <1>1, DoubledGrows
  <2>2. (MaxBackoff + 1) - 1 = MaxBackoff
    BY <1>1
  <2>3. Base * Doubled[MaxBackoff] >= Doubled[MaxBackoff]
    BY <1>1, <1>2, <2>1
  <2>4. Base * Doubled[MaxBackoff] \in Nat
    BY <1>1, <2>1
  <2> QED BY <1>1, <2>1, <2>2, <2>3, <2>4
<1>4. PICK n \in S : \A m \in S : n <= m
  <2>1. S \in SUBSET Nat /\ S # {}
    BY <1>3
  <2> HIDE DEF S
  <2> QED BY <2>1, LeastNatural
<1>5. n \in 1 .. MaxBackoff + 1 /\ Long(n)
  BY <1>1, <1>3, <1>4
<1>6. ASSUME NEW m \in 1 .. n - 1 PROVE Base * Doubled[m - 1] < MaxBackoff
  <2>1. m \in Nat \ {0} /\ ~(n <= m) /\ m - 1 \in Nat
    BY <1>5
  <2>2. ~Long(m)
    BY <1>4, <2>1
  <2>3. Base * Doubled[m - 1] \in Nat
    BY <1>1, <2>1, DoubledGrows
  <2> QED BY <1>1, <2>2, <2>3
<1> HIDE DEF S
<1>7. /\ MaxFailures \in 1 .. MaxBackoff + 1
      /\ Base * Doubled[MaxFailures - 1] >= MaxBackoff
  BY <1>5, <1>6 DEF MaxFailures
<1> QED BY <1>1, <1>7

----------------------------------------------------------------------------
(* The schedule *)

(* What a register's record says of it keeps to its bounds.                *)
LEMMA ScheduleParts ==
  ASSUME NEW s \in Schedules, NEW r \in Registers
  PROVE  /\ s[r] \in [age : 0 .. Never, failures : 0 .. MaxFailures, retry : 0 .. MaxBackoff]
         /\ s[r].age \in Nat /\ s[r].failures \in Nat /\ s[r].retry \in Nat
         /\ Oldest \in Nat /\ Never = Oldest + 1 /\ MaxBackoff \in Nat
BY FailuresBounded, TimesAssumption DEF Schedules, Never

(* Seeing, forgetting and failing to read a register, and time, keep the
   schedule in its bounds: counts of failures and back-offs do not grow
   beyond their limits. *)
LEMMA ScheduleKept ==
  ASSUME NEW s \in Schedules, NEW r, NEW d \in Nat
  PROVE  /\ Seen(s, r) \in Schedules
         /\ Forget(s, r) \in Schedules
         /\ Later(s, d) \in Schedules
         /\ r \in Registers => Failed(s, r) \in Schedules
<1> DEFINE One == [age : 0 .. Never, failures : 0 .. MaxFailures, retry : 0 .. MaxBackoff]
<1>0. /\ Oldest \in Nat /\ Never = Oldest + 1 /\ MaxBackoff \in Nat /\ MaxFailures \in Nat
      /\ Base \in Nat
  BY FailuresBounded, TimesAssumption DEF Never
<1>1. Schedules = [Registers -> One]
  BY DEF Schedules
<1>2. Unknown \in One /\ [age |-> 0, failures |-> 0, retry |-> 0] \in One
  BY <1>0 DEF Unknown
<1>3. Seen(s, r) \in Schedules /\ Forget(s, r) \in Schedules
  <2> HIDE DEF One
  <2> QED BY <1>1, <1>2 DEF Seen, Forget
<1>4. Later(s, d) \in Schedules
  <2>1. ASSUME NEW q \in Registers
        PROVE  [s[q] EXCEPT !.age = IF @ = Never THEN Never ELSE Smaller(@ + d, Oldest),
                            !.retry = Larger(@ - d, 0)] \in One
    <3>1. s[q] \in One /\ s[q].age \in 0 .. Never /\ s[q].retry \in 0 .. MaxBackoff
      BY <1>1
    <3>2. (IF s[q].age = Never THEN Never ELSE Smaller(s[q].age + d, Oldest)) \in 0 .. Never
      BY <1>0, <3>1 DEF Smaller
    <3>3. Larger(s[q].retry - d, 0) \in 0 .. MaxBackoff
      BY <1>0, <3>1 DEF Larger
    <3> QED BY <3>1, <3>2, <3>3
  <2> HIDE DEF One
  <2> QED BY <1>1, <2>1 DEF Later
<1>5. ASSUME r \in Registers PROVE Failed(s, r) \in Schedules
  <2> DEFINE count == s[r].failures + 1
             some == Smaller(count, MaxFailures)
             pause == Smaller(Base * Doubled[count - 1], MaxBackoff)
  <2>1. s[r] \in One /\ s[r].failures \in 0 .. MaxFailures
    BY <1>1, <1>5
  <2>2. some \in 0 .. MaxFailures
    BY <1>0, <2>1 DEF Smaller
  <2>3. pause \in 0 .. MaxBackoff
    <3>1. count - 1 \in Nat
      BY <1>0, <2>1
    <3>2. Doubled[count - 1] \in Nat
      BY <3>1, DoubledGrows
    <3> HIDE DEF count
    <3>3. Base * Doubled[count - 1] \in Nat
      BY <1>0, <3>2
    <3> QED BY <1>0, <3>3 DEF Smaller
  <2>4. Failed(s, r) = [s EXCEPT ![r].failures = some, ![r].retry = pause]
    BY DEF Failed
  <2> HIDE DEF some, pause
  <2>5. Failed(s, r) = [s EXCEPT ![r] = [s[r] EXCEPT !.failures = some, !.retry = pause]]
    BY <1>1, <1>5, <2>4
  <2>6. [s[r] EXCEPT !.failures = some, !.retry = pause] \in One
    BY <2>1, <2>2, <2>3
  <2> HIDE DEF One
  <2> QED BY <1>1, <1>5, <2>5, <2>6
<1> QED BY <1>3, <1>4, <1>5

(* Being due before is a strict order of all registers.                    *)
LEMMA BeforeOrders ==
  ASSUME NEW s \in Schedules, NEW p \in Registers, NEW q \in Registers, NEW r \in Registers
  PROVE  /\ ~Before(s, p, p)
         /\ p # q => Before(s, p, q) \/ Before(s, q, p)
         /\ Before(s, p, q) /\ Before(s, q, r) => Before(s, p, r)
<1>1. \A x \in {p, q, r} : x \in Nat /\ s[x].age \in Nat
  BY RegistersAssumption, ScheduleParts
<1>2. \A x \in {p, q, r} : Interval(x) \in Nat
  <2>1. Base \in Nat /\ SettingFactor \in Nat /\ SettingMinimum \in Nat
        /\ CounterFactor \in Nat /\ CounterMinimum \in Nat
    BY TimesAssumption
  <2>2. SettingFactor * Base \in Nat /\ CounterFactor * Base \in Nat
    BY <2>1
  <2> QED BY <2>1, <2>2 DEF Interval, Larger
<1>3. \A x \in {p, q, r} : Lateness(s, x) \in Int
  BY <1>1, <1>2 DEF Lateness
<1> QED BY <1>1, <1>3 DEF Before

NoTwice(queue) == \A i, j \in DOMAIN queue : queue[i] = queue[j] => i = j

(* What is due is every register that is, once, and each before those that
   are due after it. *)
LEMMA DueIs ==
  ASSUME NEW s \in Schedules, NEW wanted \in SUBSET Registers
  PROVE  LET due == {r \in wanted : IsDue(s, r)} IN
         /\ Due(s, wanted) \in Seq(Registers)
         /\ Len(Due(s, wanted)) = Cardinality(due)
         /\ Cardinality(due) <= Cardinality(Registers)
         /\ NoTwice(Due(s, wanted))
         /\ ToSet(Due(s, wanted)) = due
         /\ \A i, j \in DOMAIN Due(s, wanted) :
              i < j => Before(s, Due(s, wanted)[i], Due(s, wanted)[j])
<1> DEFINE T == {r \in wanted : IsDue(s, r)}
           c == Cardinality(T)
           Ahead(a) == {b \in T : Before(s, b, a)}
           Rank(a) == Cardinality(Ahead(a))
           f == [a \in T |-> Rank(a) + 1]
           At(i) == CHOOSE r \in T : Rank(r) = i - 1
           queue == Due(s, wanted)
<1>0. T \in SUBSET Registers /\ IsFiniteSet(T)
  <2>1. T \in SUBSET Registers
    OBVIOUS
  <2> HIDE DEF T
  <2> QED BY <2>1, RegistersAssumption, FS_Subset
<1>1. c \in Nat /\ c <= Cardinality(Registers)
  <2> HIDE DEF T
  <2> QED BY <1>0, RegistersAssumption, FS_CardinalityType, FS_Subset
<1>q. queue = [i \in 1 .. c |-> At(i)]
  BY DEF Due
<1> HIDE DEF T
<1>2. \A a \in T : Ahead(a) \in SUBSET T /\ a \notin Ahead(a)
  BY <1>0, BeforeOrders
<1>3. ASSUME NEW a \in T PROVE Rank(a) \in Nat /\ Rank(a) < c
  <2>1. Ahead(a) \in SUBSET T /\ Ahead(a) # T
    BY <1>2
  <2> HIDE DEF Ahead
  <2> QED BY <1>0, <1>1, <2>1, FS_Subset, FS_CardinalityType
<1>4. ASSUME NEW a \in T, NEW b \in T, Before(s, a, b) PROVE Rank(a) < Rank(b)
  <2>1. Ahead(a) \in SUBSET Ahead(b) /\ Ahead(a) # Ahead(b) /\ Ahead(b) \in SUBSET T
    <3>1. \A x \in T : Before(s, x, a) => Before(s, x, b)
      BY <1>0, <1>4, BeforeOrders
    <3>2. a \in Ahead(b) /\ a \notin Ahead(a)
      BY <1>2, <1>4
    <3> QED BY <3>1, <3>2
  <2>2. Rank(a) \in Nat /\ Rank(b) \in Nat
    BY <1>3
  <2> HIDE DEF Ahead
  <2>3. IsFiniteSet(Ahead(b))
    BY <1>0, <2>1, FS_Subset
  <2>4. Cardinality(Ahead(a)) <= Cardinality(Ahead(b))
        /\ Cardinality(Ahead(a)) # Cardinality(Ahead(b))
    BY <2>1, <2>3, FS_Subset
  <2> QED BY <2>2, <2>4
<1>5. \A a, b \in T : Rank(a) = Rank(b) => a = b
  <2> SUFFICES ASSUME NEW a \in T, NEW b \in T, a # b PROVE Rank(a) # Rank(b)
    OBVIOUS
  <2>1. Before(s, a, b) \/ Before(s, b, a)
    BY <1>0, BeforeOrders
  <2> HIDE DEF Rank
  <2> QED BY <1>3, <1>4, <2>1
<1> HIDE DEF c, Rank
<1>6. f \in Injection(T, 1 .. c)
  <2>1. f \in [T -> 1 .. c]
    BY <1>1, <1>3
  <2>2. \A a, b \in T : f[a] = f[b] => a = b
    BY <1>3, <1>5
  <2> HIDE DEF f
  <2> QED BY <2>1, <2>2, Fun_IsInj
<1>7. IsFiniteSet(1 .. c) /\ Cardinality(1 .. c) = c
  BY <1>1, FS_Interval
<1>8. f \in Surjection(T, 1 .. c)
  <2> HIDE DEF f
  <2> QED BY <1>6, <1>7, FS_Injection DEF c
<1>9. \A i \in 1 .. c : \E a \in T : f[a] = i
  <2> HIDE DEF f
  <2> QED BY <1>8, Fun_SurjectionProperties
<1>10. \A i \in 1 .. c : At(i) \in T /\ Rank(At(i)) = i - 1
  <2> SUFFICES ASSUME NEW i \in 1 .. c PROVE At(i) \in T /\ Rank(At(i)) = i - 1
    OBVIOUS
  <2>1. PICK a \in T : f[a] = i
    BY <1>9
  <2>2. Rank(a) = i - 1
    BY <1>1, <1>3, <2>1
  <2> QED BY <2>2
<1>11. \A a \in T : Rank(a) + 1 \in 1 .. c /\ At(Rank(a) + 1) = a
  <2> SUFFICES ASSUME NEW a \in T PROVE Rank(a) + 1 \in 1 .. c /\ At(Rank(a) + 1) = a
    OBVIOUS
  <2>1. Rank(a) + 1 \in 1 .. c /\ (Rank(a) + 1) - 1 = Rank(a)
    BY <1>1, <1>3
  <2> HIDE DEF At
  <2> QED BY <1>5, <1>10, <2>1
<1> HIDE DEF At, queue
<1>12. queue \in Seq(Registers) /\ Len(queue) = c /\ DOMAIN queue = 1 .. c
  BY <1>0, <1>1, <1>10, <1>q
<1>13. NoTwice(queue)
  <2>1. \A i, j \in 1 .. c : At(i) = At(j) => i = j
    BY <1>1, <1>10
  <2> QED BY <1>q, <2>1 DEF NoTwice
<1>14. ToSet(queue) = T
  BY <1>10, <1>11, <1>q DEF ToSet
<1>15. ASSUME NEW i \in 1 .. c, NEW j \in 1 .. c, i < j PROVE Before(s, queue[i], queue[j])
  <2>1. /\ queue[i] \in T /\ queue[j] \in T
        /\ Rank(queue[i]) = i - 1 /\ Rank(queue[j]) = j - 1
    BY <1>10, <1>q
  <2>2. i - 1 < j - 1 /\ ~(j - 1 < i - 1) /\ i - 1 # j - 1
    BY <1>1, <1>15
  <2>3. queue[i] # queue[j] /\ ~Before(s, queue[j], queue[i])
    BY <1>4, <2>1, <2>2
  <2> QED BY <1>0, <2>1, <2>3, BeforeOrders
<1> QED BY <1>1, <1>12, <1>13, <1>14, <1>15 DEF c, T, queue

----------------------------------------------------------------------------
(* Types *)

Held == Values \union {None}
CycleStates ==
  {s \in [queue : Seq(Registers), elapsed : 0 .. Base, got : BOOLEAN, row : Nat, answer : Held] :
     NoTwice(s.queue) /\ Len(s.queue) + s.row <= Cardinality(Registers)}
WriteStates == [pc : {"sent", "read"}, register : Registers, value : Values] \union {NoWrite}

PumpTyped ==
  pump \in [Registers -> Values] /\ answers \in [Registers -> {"value", "garbage", "silent"}]
DataTyped == values \in [Registers -> Held] /\ data \in [Registers -> Held]
                /\ ok \in BOOLEAN /\ flush \in BOOLEAN /\ subscribed \in SUBSET Registers
ClockTyped == /\ quiet \in 0 .. Keepalive /\ heard \in 0 .. Unheard /\ timer \in 0 .. Unarmed
              /\ refused \in BOOLEAN
RescanTyped == /\ rescan = [queue |-> rescan.queue, row |-> rescan.row,
                             found |-> rescan.found, more |-> rescan.more]
               /\ rescan.row \in Nat /\ rescan.row < UnreachableAfter
               /\ rescan.found \in [Registers -> Held]

(* A cycle has asked for a register less for each timeout in its row.      *)
GatewayTyped ==
  /\ PumpTyped /\ DataTyped /\ ClockTyped /\ RescanTyped
  /\ schedule \in Schedules
  /\ cycle \in [Cycles -> CycleStates]
  /\ write \in WriteStates

(* There is a register at least, to announce ourselves with. *)
LEMMA SomeRegisters ==
  /\ Announce \in Registers
  /\ Cardinality(Registers) \in Nat /\ Cardinality(Registers) > 0
<1>1. Announce \in Registers
  BY SetsAssumption
<1>2. {Announce} \in SUBSET Registers
  BY <1>1
<1>3. Cardinality({Announce}) <= Cardinality(Registers) /\ Cardinality({Announce}) = 1
  BY <1>2, RegistersAssumption, FS_Subset, FS_Singleton
<1> QED BY <1>1, <1>3, RegistersAssumption, FS_CardinalityType

(* A queue without repeats stays one without its head. *)
LEMMA TailKept ==
  ASSUME NEW queue \in Seq(Registers), queue # <<>>, NoTwice(queue)
  PROVE  /\ Tail(queue) \in Seq(Registers) /\ NoTwice(Tail(queue))
         /\ Len(Tail(queue)) = Len(queue) - 1 /\ Len(queue) \in Nat \ {0}
         /\ Head(queue) \in Registers
<1>1. /\ Tail(queue) \in Seq(Registers) /\ Len(Tail(queue)) = Len(queue) - 1
      /\ Len(queue) \in Nat \ {0} /\ Head(queue) \in Registers
      /\ DOMAIN queue = 1 .. Len(queue) /\ DOMAIN Tail(queue) = 1 .. Len(queue) - 1
  OBVIOUS
<1>2. \A i \in 1 .. Len(queue) - 1 : Tail(queue)[i] = queue[i + 1]
  BY <1>1
<1>3. NoTwice(Tail(queue))
  <2> SUFFICES ASSUME NEW i \in 1 .. Len(queue) - 1, NEW j \in 1 .. Len(queue) - 1,
                      Tail(queue)[i] = Tail(queue)[j]
               PROVE  i = j
    BY <1>1 DEF NoTwice
  <2>1. i + 1 \in 1 .. Len(queue) /\ j + 1 \in 1 .. Len(queue)
    BY <1>1
  <2>2. queue[i + 1] = queue[j + 1]
    BY <1>2
  <2>3. i + 1 = j + 1
    BY <1>1, <2>1, <2>2 DEF NoTwice
  <2> QED BY <2>3
<1> QED BY <1>1, <1>3

(* A cycle that has not begun is a cycle's state. *)
LEMMA NoCycleTyped == NoCycle \in CycleStates /\ NoCycle.queue = <<>>
<1>1. 0 \in 0 .. Base
  BY TimesAssumption
<1>2. <<>> \in Seq(Registers) /\ NoTwice(<<>>) /\ Len(<<>>) = 0
  BY DEF NoTwice
<1> QED BY <1>1, <1>2, SomeRegisters DEF NoCycle, CycleStates, Held

(* Time passing keeps the cycles in their states and their queues and rows
   as they are. *)
LEMMA LaterTyped ==
  ASSUME GatewayTyped, NEW d \in Nat
  PROVE  /\ LaterCycles(d) \in [Cycles -> CycleStates]
         /\ LaterQuiet(d) \in 0 .. Keepalive
         /\ LaterTimer(d) \in 0 .. Unarmed
         /\ \A c \in Cycles : ~Idle(c) => /\ LaterCycles(d)[c].queue = cycle[c].queue
                                          /\ LaterCycles(d)[c].row = cycle[c].row
<1>1. LaterQuiet(d) \in 0 .. Keepalive
  BY CostsAre DEF GatewayTyped, ClockTyped, LaterQuiet, Smaller
<1>2. LaterTimer(d) \in 0 .. Unarmed
  BY CostsAre DEF GatewayTyped, ClockTyped, LaterTimer, Larger
<1>3. ASSUME NEW c \in Cycles, ~Idle(c)
      PROVE  /\ LaterCycles(d)[c] \in CycleStates
             /\ LaterCycles(d)[c].queue = cycle[c].queue
             /\ LaterCycles(d)[c].row = cycle[c].row
  <2>1. LaterCycles(d)[c] = [cycle[c] EXCEPT !.elapsed = Smaller(cycle[c].elapsed + d, Base)]
    BY <1>3 DEF LaterCycles
  <2>2. cycle[c] \in CycleStates
    BY DEF GatewayTyped
  <2>3. Smaller(cycle[c].elapsed + d, Base) \in 0 .. Base
    <3>1. cycle[c].elapsed \in 0 .. Base /\ Base \in Nat
      BY <2>2, CostsAre DEF CycleStates
    <3> QED BY <3>1 DEF Smaller
  <2> DEFINE e == Smaller(cycle[c].elapsed + d, Base)
  <2> HIDE DEF e
  <2> QED BY <2>1, <2>2, <2>3 DEF CycleStates, e
<1>4. ASSUME NEW c \in Cycles, Idle(c)
      PROVE  LaterCycles(d)[c] \in CycleStates
  BY <1>4, NoCycleTyped DEF LaterCycles
<1>5. LaterCycles(d) = [c \in Cycles |-> LaterCycles(d)[c]]
  BY DEF LaterCycles
<1>6. LaterCycles(d) \in [Cycles -> CycleStates]
  BY <1>3, <1>4, <1>5
<1> QED BY <1>1, <1>2, <1>3, <1>6

(* Going on with a cycle keeps what it changes in form. *)
LEMMA ContinueTyped ==
  ASSUME GatewayTyped, NEW cycles \in [Cycles -> CycleStates], NEW c \in Cycles,
         NEW next \in CycleStates, NEW passed \in Nat,
         Continue(c, next, cycles, passed), values' \in [Registers -> Held]
  PROVE  /\ cycle' \in [Cycles -> CycleStates]
         /\ data' \in [Registers -> Held] /\ ok' \in BOOLEAN
         /\ quiet' \in 0 .. Keepalive /\ timer' \in 0 .. Unarmed
<1>1. /\ LaterQuiet(passed) \in 0 .. Keepalive /\ LaterTimer(passed) \in 0 .. Unarmed
      /\ 0 \in 0 .. Keepalive /\ Base \in 0 .. Unarmed
  BY LaterTyped, CostsAre
<1>2. /\ [cycles EXCEPT ![c] = NoCycle] \in [Cycles -> CycleStates]
      /\ [cycles EXCEPT ![c] = next] \in [Cycles -> CycleStates]
  BY NoCycleTyped
<1>3. data \in [Registers -> Held] /\ ok \in BOOLEAN
  BY DEF GatewayTyped, DataTyped
<1> QED BY <1>1, <1>2, <1>3 DEF Continue, Published

(* At the start every variable is in form. *)
LEMMA GatewayStarts == Init => GatewayTyped
<1> SUFFICES ASSUME Init PROVE GatewayTyped
  OBVIOUS
<1>1. PumpTyped
  BY SetsAssumption DEF Init, PumpTyped
<1>2. DataTyped
  <2>1. values \in [Registers -> Held]
    BY <1>1, SomeRegisters DEF Init, Held, PumpTyped
  <2> QED BY <2>1 DEF Init, DataTyped
<1>3. ClockTyped
  <2>1. quiet = 0 /\ heard = 0 /\ timer = 0
    BY DEF Init
  <2>2. refused \in BOOLEAN
    BY DEF Init
  <2>3. quiet \in 0 .. Keepalive /\ heard \in 0 .. Unheard /\ timer \in 0 .. Unarmed
    BY <2>1, CostsAre
  <2> QED BY <2>2, <2>3 DEF ClockTyped
<1>4. RescanTyped
  <2>1. rescan = [queue |-> <<>>, row |-> 0, found |-> [r \in Registers |-> None],
                  more |-> TRUE]
    BY DEF Init, NoRescan
  <2>2. [r \in Registers |-> None] \in [Registers -> Held]
    BY DEF Held
  <2> QED BY <2>1, <2>2, CostsAssumption DEF RescanTyped
<1>5. schedule \in Schedules
  <2>1. [r \in Registers |-> Unknown] \in Schedules
    BY FailuresBounded, TimesAssumption DEF Schedules, Unknown, Never
  <2>2. schedule = Seen([r \in Registers |-> Unknown], Announce)
    BY DEF Init
  <2> QED BY <2>1, <2>2, ScheduleKept
<1>6. cycle \in [Cycles -> CycleStates]
  BY NoCycleTyped DEF Init
<1>7. write \in WriteStates
  BY DEF Init, WriteStates
<1> QED BY <1>1, <1>2, <1>3, <1>4, <1>5, <1>6, <1>7 DEF GatewayTyped

(* A cycle that starts has each register of its queue once, and no more
   than there are. *)
LEMMA StartTyped ==
  ASSUME GatewayTyped, NEW c \in Cycles, StartCycle(c)
  PROVE  GatewayTyped'
<1>1. UNCHANGED <<values, pump, answers, subscribed, schedule, heard, refused, flush, write,
                  rescan>>
  BY DEF StartCycle, pumpVars
<1>2. values' \in [Registers -> Held]
  BY <1>1 DEF GatewayTyped, DataTyped
<1>3. Wanted \in SUBSET Registers /\ schedule \in Schedules
  BY SetsAssumption DEF GatewayTyped, DataTyped, Wanted
<1>4. Queue \in Seq(Registers) /\ NoTwice(Queue) /\ Len(Queue) <= Cardinality(Registers)
  <2> DEFINE due == Due(schedule, Wanted)
  <2>1. due \in Seq(Registers) /\ NoTwice(due) /\ Len(due) <= Cardinality(Registers)
    BY <1>3, DueIs
  <2>2. /\ <<Announce>> \in Seq(Registers) /\ NoTwice(<<Announce>>)
        /\ Len(<<Announce>>) <= Cardinality(Registers)
    BY SomeRegisters DEF NoTwice
  <2> HIDE DEF due
  <2>3. Queue \in {due, <<Announce>>}
    BY DEF Queue, due
  <2> QED BY <2>1, <2>2, <2>3
<1>5. CASE Queue = <<>>
  <2>1. Continue(c, NoCycle, cycle, 0)
    BY <1>5 DEF StartCycle
  <2>2. cycle \in [Cycles -> CycleStates]
    BY DEF GatewayTyped
  <2>3. /\ cycle' \in [Cycles -> CycleStates]
        /\ data' \in [Registers -> Held] /\ ok' \in BOOLEAN
        /\ quiet' \in 0 .. Keepalive /\ timer' \in 0 .. Unarmed
    BY <1>2, <2>1, <2>2, NoCycleTyped, ContinueTyped
  <2> QED BY <1>1, <2>3 DEF GatewayTyped, PumpTyped, DataTyped, ClockTyped, RescanTyped
<1>6. CASE Queue # <<>>
  <2> DEFINE started == [NoCycle EXCEPT !.queue = Queue]
  <2>1. /\ cycle' = [cycle EXCEPT ![c] = started]
        /\ quiet' = 0 /\ timer' = Unarmed /\ UNCHANGED <<data, ok>>
    BY <1>6 DEF StartCycle
  <2>2. started \in CycleStates
    <3>1. NoCycle \in CycleStates /\ NoCycle.row = 0
      BY NoCycleTyped DEF NoCycle
    <3>2. Len(Queue) + 0 <= Cardinality(Registers)
      BY <1>4, SomeRegisters
    <3> QED BY <1>4, <3>1, <3>2 DEF CycleStates
  <2> HIDE DEF started
  <2>3. cycle' \in [Cycles -> CycleStates]
    BY <2>1, <2>2 DEF GatewayTyped
  <2>4. quiet' \in 0 .. Keepalive /\ timer' \in 0 .. Unarmed
    BY <2>1, CostsAre
  <2> QED BY <1>1, <2>1, <2>3, <2>4 DEF GatewayTyped, PumpTyped, DataTyped, ClockTyped, RescanTyped
<1> QED BY <1>5, <1>6

(* Each step of a cycle keeps all in form: a timeout takes a register off
   the queue for the one it adds to the row. *)
LEMMA StepTyped ==
  ASSUME GatewayTyped, NEW c \in Cycles, CycleStep(c)
  PROVE  GatewayTyped'
<1>0. /\ ReadCost \in Nat /\ TimeoutCost \in Nat
      /\ ReadCost \in 0 .. Unheard /\ TimeoutCost \in 0 .. Unheard
  BY CostsAre
<1>1. /\ ~Idle(c) /\ UNCHANGED <<pump, answers, subscribed, write, rescan>>
      /\ refused' \in BOOLEAN
  BY DEF CycleStep, Answered, Resume, TimesOut, Garbled, Reading, Sent, pumpVars,
         GatewayTyped, ClockTyped
<1>2. /\ cycle[c] \in CycleStates /\ cycle \in [Cycles -> CycleStates]
      /\ cycle[c].queue \in Seq(Registers) /\ cycle[c].queue # <<>> /\ NoTwice(cycle[c].queue)
      /\ cycle[c].row \in Nat /\ Len(cycle[c].queue) + cycle[c].row <= Cardinality(Registers)
  BY <1>1 DEF GatewayTyped, CycleStates, Idle
<1> DEFINE left == Tail(cycle[c].queue)
<1>3. /\ left \in Seq(Registers) /\ NoTwice(left) /\ Len(left) = Len(cycle[c].queue) - 1
      /\ Len(cycle[c].queue) \in Nat \ {0} /\ Asked(c) \in Registers
  BY <1>2, TailKept DEF Asked
<1>4. /\ values \in [Registers -> Held] /\ data \in [Registers -> Held] /\ flush \in BOOLEAN
      /\ schedule \in Schedules /\ pump \in [Registers -> Values]
      /\ ok \in BOOLEAN /\ heard \in 0 .. Unheard
  BY DEF GatewayTyped, DataTyped, PumpTyped, ClockTyped
<1> HIDE DEF left
<1>5. ASSUME heard' \in 0 .. Unheard, schedule' \in Schedules, flush' \in BOOLEAN,
             values' \in [Registers -> Held], cycle' \in [Cycles -> CycleStates],
             data' \in [Registers -> Held], ok' \in BOOLEAN,
             quiet' \in 0 .. Keepalive, timer' \in 0 .. Unarmed
      PROVE  GatewayTyped'
  BY <1>1, <1>5 DEF GatewayTyped, PumpTyped, DataTyped, ClockTyped, RescanTyped
<1>6. ASSUME NEW s \in CycleStates, s.queue = cycle[c].queue, s.row = cycle[c].row,
             NEW row \in {cycle[c].row, cycle[c].row + 1, 0}, NEW got \in BOOLEAN,
             NEW answer \in Held
      PROVE  [s EXCEPT !.queue = left, !.row = row, !.got = got, !.answer = answer] \in CycleStates
  <2>1. row \in Nat /\ Len(left) + row <= Cardinality(Registers)
    BY <1>2, <1>3, SomeRegisters
  <2> QED BY <1>3, <1>6, <2>1 DEF CycleStates
<1>7. CASE Answered(c)
  <2>1. /\ values' = [values EXCEPT ![Asked(c)] = pump[Asked(c)]]
        /\ flush' = (flush \/ (values[Asked(c)] # pump[Asked(c)] /\ Asked(c) \in subscribed))
        /\ schedule' = Seen(Later(schedule, ReadCost), Asked(c))
        /\ heard' = ReadCost /\ quiet' = LaterQuiet(ReadCost) /\ timer' = LaterTimer(ReadCost)
        /\ cycle' = [LaterCycles(ReadCost) EXCEPT ![c].answer = pump[Asked(c)]]
        /\ UNCHANGED <<data, ok>>
    BY <1>7 DEF Answered, Arrives, Sent
  <2> DEFINE later == LaterCycles(ReadCost)
             next == [later[c] EXCEPT !.answer = pump[Asked(c)]]
  <2>2. /\ later \in [Cycles -> CycleStates]
        /\ LaterQuiet(ReadCost) \in 0 .. Keepalive /\ LaterTimer(ReadCost) \in 0 .. Unarmed
    BY <1>0, LaterTyped
  <2>3. pump[Asked(c)] \in Held
    BY <1>3, <1>4 DEF Held
  <2>4. cycle' = [later EXCEPT ![c] = next]
    BY <2>1, <2>2
  <2> HIDE DEF later
  <2>5. next \in CycleStates
    <3>1. later[c] \in CycleStates
      BY <2>2
    <3> QED BY <2>3, <3>1 DEF CycleStates
  <2> HIDE DEF next
  <2>6. cycle' \in [Cycles -> CycleStates]
    BY <2>2, <2>4, <2>5
  <2>7. values' \in [Registers -> Held] /\ flush' \in BOOLEAN
    BY <1>4, <2>1, <2>3
  <2>8. schedule' \in Schedules
    BY <1>0, <1>4, <2>1, ScheduleKept
  <2> QED BY <1>0, <1>4, <1>5, <2>1, <2>2, <2>6, <2>7, <2>8
<1>8. CASE Resume(c)
  <2> DEFINE next == [cycle[c] EXCEPT !.queue = Tail(@), !.got = TRUE, !.row = 0,
                                      !.answer = None]
  <2>1. /\ Continue(c, next, cycle, 0) /\ UNCHANGED <<heard, flush>>
        /\ values' = [values EXCEPT ![Asked(c)] = cycle[c].answer]
        /\ schedule' = Seen(schedule, Asked(c))
    BY <1>8 DEF Resume
  <2>2. next \in CycleStates
    <3>1. next = [cycle[c] EXCEPT !.queue = left, !.row = 0, !.got = TRUE, !.answer = None]
      BY <1>2 DEF left, CycleStates
    <3>2. None \in Held
      BY DEF Held
    <3> QED BY <1>2, <1>6, <3>1, <3>2
  <2> HIDE DEF next
  <2>3. cycle[c].answer \in Held
    BY <1>2 DEF CycleStates
  <2>4. values' \in [Registers -> Held]
    BY <1>4, <2>1, <2>3
  <2>5. schedule' \in Schedules
    BY <1>4, <2>1, ScheduleKept
  <2>6. /\ cycle' \in [Cycles -> CycleStates]
        /\ data' \in [Registers -> Held] /\ ok' \in BOOLEAN
        /\ quiet' \in 0 .. Keepalive /\ timer' \in 0 .. Unarmed
    BY <1>2, <2>1, <2>2, <2>4, ContinueTyped
  <2> QED BY <1>4, <1>5, <2>1, <2>4, <2>5, <2>6
<1>9. CASE TimesOut(c)
  <2> DEFINE cycles == LaterCycles(TimeoutCost)
             next == [cycles[c] EXCEPT !.queue = Tail(@), !.row = @ + 1]
  <2>1. /\ heard' = TimeoutCost /\ UNCHANGED <<values, flush>>
        /\ schedule' = Failed(Later(schedule, TimeoutCost), Asked(c))
        /\ IF Unreachable(next) THEN GivesUp(c, cycles)
                                ELSE Continue(c, next, cycles, TimeoutCost)
    BY <1>9 DEF TimesOut, Sent
  <2>2. /\ cycles \in [Cycles -> CycleStates]
        /\ cycles[c].queue = cycle[c].queue /\ cycles[c].row = cycle[c].row
        /\ LaterQuiet(TimeoutCost) \in 0 .. Keepalive
    BY <1>0, <1>1, LaterTyped
  <2> HIDE DEF cycles
  <2>3. next \in CycleStates
    <3>1. cycles[c] \in CycleStates
      BY <2>2
    <3>2. next = [cycles[c] EXCEPT !.queue = left, !.row = cycle[c].row + 1,
                                   !.got = cycles[c].got, !.answer = cycles[c].answer]
      BY <2>2, <3>1 DEF left, CycleStates
    <3>3. cycles[c].got \in BOOLEAN /\ cycles[c].answer \in Held
      BY <3>1 DEF CycleStates
    <3>4. cycle[c].row + 1 \in {cycle[c].row, cycle[c].row + 1, 0}
          /\ cycle[c].row \in {cycle[c].row, cycle[c].row + 1, 0}
      OBVIOUS
    <3> HIDE DEF next
    <3> QED BY <1>6, <2>2, <3>1, <3>2, <3>3, <3>4
  <2> HIDE DEF next
  <2>4. values' \in [Registers -> Held] /\ flush' \in BOOLEAN
    BY <1>4, <2>1
  <2>5. schedule' \in Schedules
    <3>1. Later(schedule, TimeoutCost) \in Schedules
      BY <1>0, <1>4, ScheduleKept
    <3> QED BY <1>3, <2>1, <3>1, ScheduleKept
  <2>6. /\ cycle' \in [Cycles -> CycleStates]
        /\ data' \in [Registers -> Held] /\ ok' \in BOOLEAN
        /\ quiet' \in 0 .. Keepalive /\ timer' \in 0 .. Unarmed
    <3>1. CASE Continue(c, next, cycles, TimeoutCost)
      BY <1>0, <2>2, <2>3, <2>4, <3>1, ContinueTyped
    <3>2. CASE GivesUp(c, cycles)
      <4>1. /\ cycle' = [cycles EXCEPT ![c] = NoCycle] /\ ok' = FALSE /\ timer' = Base
            /\ quiet' = LaterQuiet(TimeoutCost) /\ data' = data
        BY <3>2 DEF GivesUp
      <4>2. timer' \in 0 .. Unarmed
        BY <4>1, CostsAre
      <4>3. cycle' \in [Cycles -> CycleStates]
        BY <2>2, <4>1, NoCycleTyped
      <4> QED BY <1>4, <2>2, <4>1, <4>2, <4>3
    <3> QED BY <2>1, <3>1, <3>2
  <2> QED BY <1>0, <1>5, <2>1, <2>4, <2>5, <2>6
<1>10. CASE Garbled(c)
  <2> DEFINE cycles == LaterCycles(ReadCost)
             next == [cycles[c] EXCEPT !.queue = Tail(@)]
  <2>1. /\ heard' = ReadCost /\ UNCHANGED <<values, flush>>
        /\ schedule' = Failed(Later(schedule, ReadCost), Asked(c))
        /\ Continue(c, next, cycles, ReadCost)
    BY <1>10 DEF Garbled, Sent
  <2>2. /\ cycles \in [Cycles -> CycleStates]
        /\ cycles[c].queue = cycle[c].queue /\ cycles[c].row = cycle[c].row
    BY <1>0, <1>1, LaterTyped
  <2> HIDE DEF cycles
  <2>3. next \in CycleStates
    <3>1. cycles[c] \in CycleStates
      BY <2>2
    <3>2. next = [cycles[c] EXCEPT !.queue = left, !.row = cycle[c].row,
                                   !.got = cycles[c].got, !.answer = cycles[c].answer]
      BY <2>2, <3>1 DEF left, CycleStates
    <3>3. cycles[c].got \in BOOLEAN /\ cycles[c].answer \in Held
      BY <3>1 DEF CycleStates
    <3>4. cycle[c].row + 1 \in {cycle[c].row, cycle[c].row + 1, 0}
          /\ cycle[c].row \in {cycle[c].row, cycle[c].row + 1, 0}
      OBVIOUS
    <3> HIDE DEF next
    <3> QED BY <1>6, <2>2, <3>1, <3>2, <3>3, <3>4
  <2> HIDE DEF next
  <2>4. values' \in [Registers -> Held] /\ flush' \in BOOLEAN
    BY <1>4, <2>1
  <2>5. schedule' \in Schedules
    <3>1. Later(schedule, ReadCost) \in Schedules
      BY <1>0, <1>4, ScheduleKept
    <3> QED BY <1>3, <2>1, <3>1, ScheduleKept
  <2>6. /\ cycle' \in [Cycles -> CycleStates]
        /\ data' \in [Registers -> Held] /\ ok' \in BOOLEAN
        /\ quiet' \in 0 .. Keepalive /\ timer' \in 0 .. Unarmed
    BY <1>0, <2>1, <2>2, <2>3, <2>4, ContinueTyped
  <2> QED BY <1>0, <1>5, <2>1, <2>4, <2>5, <2>6
<1> QED BY <1>7, <1>8, <1>9, <1>10 DEF CycleStep

(* A write, and its read-back, keep all in form. *)
LEMMA WriteTyped ==
  ASSUME GatewayTyped, NEW b \in BOOLEAN, WriteEnds(b) \/ ReadsBack(b)
  PROVE  GatewayTyped'
<1>0. ReadCost \in Nat /\ ReadCost \in 0 .. Unheard
  BY CostsAre
<1>1. /\ values \in [Registers -> Held] /\ schedule \in Schedules
      /\ pump \in [Registers -> Values] /\ write \in WriteStates
  BY DEF GatewayTyped, DataTyped, PumpTyped
<1>2. write.pc # "none"
  BY DEF WriteEnds, ReadsBack
<1>3. write \in [pc : {"sent", "read"}, register : Registers, value : Values]
  BY <1>1, <1>2 DEF WriteStates, NoWrite
<1>4. /\ LaterCycles(ReadCost) \in [Cycles -> CycleStates]
      /\ LaterQuiet(ReadCost) \in 0 .. Keepalive /\ LaterTimer(ReadCost) \in 0 .. Unarmed
      /\ Later(schedule, ReadCost) \in Schedules
  BY <1>0, <1>1, LaterTyped, ScheduleKept
<1>5. CASE WriteEnds(b)
  <2>1. /\ write' = IF b THEN [write EXCEPT !.pc = "read"] ELSE NoWrite
        /\ schedule' = Later(schedule, ReadCost) /\ heard' = ReadCost
        /\ quiet' = LaterQuiet(ReadCost) /\ timer' = LaterTimer(ReadCost)
        /\ cycle' = LaterCycles(ReadCost)
        /\ UNCHANGED <<answers, subscribed, values, data, ok, flush, rescan>>
        /\ refused' = FALSE
    BY <1>5 DEF WriteEnds, Sent
  <2>2. pump' \in [Registers -> Values]
    <3>1. PICK kept \in {write.value, pump[write.register]} :
             pump' = [pump EXCEPT ![write.register] = kept]
      BY <1>5 DEF WriteEnds
    <3>2. kept \in Values
      BY <1>1, <1>3
    <3> QED BY <1>1, <3>1, <3>2
  <2>3. write' \in WriteStates
    BY <1>3, <2>1 DEF WriteStates
  <2> QED BY <1>0, <1>4, <2>1, <2>2, <2>3
          DEF GatewayTyped, PumpTyped, DataTyped, ClockTyped, RescanTyped
<1>6. CASE ReadsBack(b)
  <2> DEFINE r == write.register
             v == IF b THEN pump[r] ELSE write.value
  <2>1. /\ values' = [values EXCEPT ![r] = v]
        /\ schedule' = Seen(Later(schedule, ReadCost), r)
        /\ quiet' = 0 /\ data' = values' /\ ok' = TRUE /\ heard' = ReadCost /\ timer' = Base
        /\ cycle' = LaterCycles(ReadCost) /\ write' = NoWrite
        /\ UNCHANGED <<pump, answers, subscribed, flush, rescan>> /\ refused' = FALSE
    BY <1>6 DEF ReadsBack, Seeded, Published, Sent, pumpVars
  <2>2. v \in Held
    BY <1>1, <1>3 DEF Held
  <2>3. values' \in [Registers -> Held]
    <3> HIDE DEF v
    <3> QED BY <1>1, <2>1, <2>2
  <2>4. schedule' \in Schedules
    BY <1>4, <2>1, ScheduleKept
  <2>5. quiet' \in 0 .. Keepalive /\ timer' \in 0 .. Unarmed
    BY <2>1, CostsAre
  <2>6. write' \in WriteStates
    BY <2>1 DEF WriteStates
  <2> HIDE DEF r, v
  <2> QED BY <1>0, <1>4, <2>1, <2>3, <2>4, <2>5, <2>6
          DEF GatewayTyped, PumpTyped, DataTyped, ClockTyped, RescanTyped
<1> QED BY <1>5, <1>6

(* A read of a rescan's probes keeps all in form. *)
LEMMA ProbeTyped ==
  ASSUME GatewayTyped, NEW lost \in BOOLEAN, Probe(lost)
  PROVE  GatewayTyped'
<1> DEFINE r == Head(rescan.queue)
           answered == r \in Readable /\ ~lost
           silent == answers[r] = "silent" \/ lost
           cost == IF silent THEN TimeoutCost ELSE ReadCost
           found == IF answered THEN [rescan.found EXCEPT ![r] = pump[r]] ELSE rescan.found
           row == IF silent THEN rescan.row + 1 ELSE IF answered THEN 0 ELSE rescan.row
           gone == row >= UnreachableAfter
           ended == Len(rescan.queue) = 1 /\ ~gone
           known == IF answered THEN Seen(Later(schedule, cost), r) ELSE Later(schedule, cost)
<1>1. /\ values \in [Registers -> Held] /\ schedule \in Schedules /\ flush \in BOOLEAN
      /\ pump \in [Registers -> Values]
      /\ rescan.row \in Nat /\ rescan.found \in [Registers -> Held]
      /\ UnreachableAfter \in Nat \ {0}
  BY CostsAssumption DEF GatewayTyped, DataTyped, PumpTyped, RescanTyped
<1>0. PICK extra \in SUBSET Further(found) :
        LET last == ended /\ extra = {} IN
        /\ values' = [q \in Registers |->
                       IF last /\ found[q] # None THEN found[q]
                       ELSE IF q = r /\ answered THEN pump[r] ELSE values[q]]
        /\ schedule' = [q \in Registers |->
                         IF last /\ found[q] # None THEN Seen(known, q)[q] ELSE known[q]]
        /\ rescan' = IF last \/ gone THEN NoRescan
                     ELSE IF ended
                       THEN [queue |-> SetToSortSeq(extra, LAMBDA p, q : p < q), row |-> 0,
                             found |-> found, more |-> FALSE]
                       ELSE [queue |-> Tail(rescan.queue), row |-> row, found |-> found,
                             more |-> rescan.more]
        /\ quiet' = IF last /\ \E q \in Registers : found[q] # None
                      THEN 0 ELSE LaterQuiet(cost)
        /\ timer' = IF last THEN 0 ELSE LaterTimer(cost)
  BY DEF Probe
<1> DEFINE last == ended /\ extra = {}
           second == SetToSortSeq(extra, LAMBDA p, q : p < q)
<1>a. /\ values' = [q \in Registers |->
                     IF last /\ found[q] # None THEN found[q]
                     ELSE IF q = r /\ answered THEN pump[r] ELSE values[q]]
      /\ schedule' = [q \in Registers |->
                       IF last /\ found[q] # None THEN Seen(known, q)[q] ELSE known[q]]
      /\ rescan' = IF last \/ gone THEN NoRescan
                   ELSE IF ended
                     THEN [queue |-> second, row |-> 0, found |-> found, more |-> FALSE]
                     ELSE [queue |-> Tail(rescan.queue), row |-> row, found |-> found,
                           more |-> rescan.more]
  BY <1>0
<1>b. quiet' \in {0, LaterQuiet(cost)} /\ timer' \in {0, LaterTimer(cost)}
  BY <1>0
<1>2. /\ flush' = (flush \/ (answered /\ r \in subscribed /\ pump[r] # values[r]))
      /\ heard' = cost /\ refused' = FALSE /\ cycle' = LaterCycles(cost)
      /\ UNCHANGED <<pump, answers, subscribed, data, ok, write>>
  BY DEF Probe, Sent, pumpVars
<1>3. cost \in Nat /\ cost \in 0 .. Unheard
  BY CostsAre
<1>4. answered => r \in Registers /\ pump[r] \in Held
  BY <1>1 DEF Readable, Held
<1>5. found \in [Registers -> Held]
  BY <1>1, <1>4
<1>6. row \in Nat
  BY <1>1
<1> HIDE DEF cost
<1>7. known \in Schedules
  BY <1>1, <1>3, ScheduleKept
<1> HIDE DEF r, answered, silent, found, row, gone, ended, known, last, second
<1>8. values' \in [Registers -> Held]
  BY <1>1, <1>a, <1>4, <1>5
<1>9. schedule' \in Schedules
  <2> DEFINE One == [age : 0 .. Never, failures : 0 .. MaxFailures, retry : 0 .. MaxBackoff]
  <2>1. Schedules = [Registers -> One]
    BY DEF Schedules
  <2>2. \A q \in Registers : Seen(known, q) \in Schedules
    BY <1>7, ScheduleKept
  <2> HIDE DEF One
  <2>3. \A q \in Registers : Seen(known, q)[q] \in One /\ known[q] \in One
    BY <1>7, <2>1, <2>2
  <2> QED BY <1>a, <2>1, <2>3
<1>10. RescanTyped'
  <2>1. CASE last \/ gone
    <3>1. rescan' = [queue |-> <<>>, row |-> 0, found |-> [q \in Registers |-> None],
                     more |-> TRUE]
      BY <1>a, <2>1 DEF NoRescan
    <3>2. [q \in Registers |-> None] \in [Registers -> Held]
      BY DEF Held
    <3> QED BY <1>1, <3>1, <3>2 DEF RescanTyped
  <2>2. CASE ~(last \/ gone) /\ ended
    <3>1. rescan' = [queue |-> second, row |-> 0, found |-> found, more |-> FALSE]
      BY <1>a, <2>2
    <3> QED BY <1>1, <1>5, <3>1 DEF RescanTyped
  <2>3. CASE ~(last \/ gone) /\ ~ended
    <3>1. rescan' = [queue |-> Tail(rescan.queue), row |-> row, found |-> found,
                     more |-> rescan.more]
      BY <1>a, <2>3
    <3>2. row < UnreachableAfter
      BY <1>1, <1>6, <2>3 DEF gone
    <3> QED BY <1>5, <1>6, <3>1, <3>2 DEF RescanTyped
  <2> QED BY <2>1, <2>2, <2>3
<1>11. /\ cycle' \in [Cycles -> CycleStates]
       /\ quiet' \in 0 .. Keepalive /\ timer' \in 0 .. Unarmed
  <2>1. /\ LaterCycles(cost) \in [Cycles -> CycleStates]
        /\ LaterQuiet(cost) \in 0 .. Keepalive /\ LaterTimer(cost) \in 0 .. Unarmed
    BY <1>3, LaterTyped
  <2> QED BY <1>b, <1>2, <2>1, CostsAre
<1>12. flush' \in BOOLEAN
  BY <1>1, <1>2
<1> QED BY <1>2, <1>3, <1>8, <1>9, <1>10, <1>11, <1>12
        DEF GatewayTyped, PumpTyped, DataTyped, ClockTyped

(* Every step keeps all in form. *)
LEMMA GatewaySteps ==
  GatewayTyped /\ [Next]_vars => GatewayTyped'
<1> SUFFICES ASSUME GatewayTyped, [Next]_vars PROVE GatewayTyped'
  OBVIOUS
<1> USE DEF GatewayTyped, PumpTyped, DataTyped, ClockTyped, RescanTyped
<1>1. CASE Wait
  <2>1. /\ LaterQuiet(1) \in 0 .. Keepalive /\ LaterTimer(1) \in 0 .. Unarmed
        /\ Later(schedule, 1) \in Schedules
    BY LaterTyped, ScheduleKept
  <2>2. heard' \in 0 .. Unheard
    <3>1. /\ heard \in 0 .. Unheard /\ Unheard \in Nat
          /\ heard' = Smaller(heard + 1, Unheard)
      BY <1>1, CostsAre DEF Wait
    <3> QED BY <3>1 DEF Smaller
  <2> QED BY <1>1, <2>1, <2>2 DEF Wait, pumpVars
<1>2. CASE Flush
  BY <1>2 DEF Flush, pumpVars, timeVars
<1>3. CASE StartRescan
  <2>1. UNCHANGED <<pump, answers, subscribed, values, data, ok, timeVars, flush, write>>
    BY <1>3 DEF StartRescan, pumpVars
  <2>2. rescan' = [NoRescan EXCEPT !.queue =
          SetToSortSeq(Defaults \union subscribed, LAMBDA q, r : q < r)]
    BY <1>3 DEF StartRescan
  <2>3. rescan' = [queue |-> rescan'.queue, row |-> 0, found |-> [r \in Registers |-> None],
                   more |-> TRUE]
    BY <2>2 DEF NoRescan
  <2>4. RescanTyped'
    <3>1. [r \in Registers |-> None] \in [Registers -> Held]
      BY DEF Held
    <3> QED BY <2>3, <3>1, CostsAssumption
  <2> QED BY <2>1, <2>4 DEF timeVars
<1>4. ASSUME NEW b \in BOOLEAN, Probe(b) PROVE GatewayTyped'
  BY <1>4, ProbeTyped
<1>5. ASSUME NEW c \in Cycles, StartCycle(c) PROVE GatewayTyped'
  BY <1>5, StartTyped
<1>6. ASSUME NEW c \in Cycles, CycleStep(c) PROVE GatewayTyped'
  BY <1>6, StepTyped
<1>7. ASSUME NEW r \in Registers, Push(r) PROVE GatewayTyped'
  <2>1. Seen(schedule, r) \in Schedules
    BY ScheduleKept
  <2>2. values' = [values EXCEPT ![r] = pump[r]] /\ pump[r] \in Held
    BY <1>7 DEF Push, Arrives, Held
  <2>3. flush' \in BOOLEAN
    BY <1>7 DEF Push, Arrives
  <2>4. values' \in [Registers -> Held]
    BY <2>2
  <2> QED BY <1>7, <2>1, <2>3, <2>4 DEF Push, pumpVars
<1>8. ASSUME NEW r \in Registers, Subscribe(r) PROVE GatewayTyped'
  <2>1. 0 \in 0 .. Unarmed
    BY CostsAre
  <2> QED BY <1>8, <2>1 DEF Subscribe, pumpVars
<1>9. ASSUME NEW r \in Registers, Unsubscribe(r) PROVE GatewayTyped'
  <2>1. Forget(schedule, r) \in Schedules
    BY ScheduleKept
  <2> QED BY <1>9, <2>1 DEF Unsubscribe, pumpVars
<1>10. ASSUME NEW r \in Registers, NEW v \in Values, Write(r, v) PROVE GatewayTyped'
  <2>1. write' = [pc |-> "sent", register |-> r, value |-> v] /\ quiet' = 0
    BY <1>10 DEF Write
  <2>2. write' \in WriteStates /\ quiet' \in 0 .. Keepalive
    BY <2>1, CostsAre DEF WriteStates
  <2> QED BY <1>10, <2>2 DEF Write, pumpVars
<1>11. ASSUME NEW r \in Registers, NEW v \in Values, PumpChanges(r, v) PROVE GatewayTyped'
  BY <1>11 DEF PumpChanges, timeVars
<1>12. ASSUME NEW b \in BOOLEAN, WriteEnds(b) \/ ReadsBack(b) PROVE GatewayTyped'
  BY <1>12, WriteTyped
<1>13. ASSUME NEW r \in Registers, WriteRefused(r) PROVE GatewayTyped'
  <2>1. 0 \in 0 .. Keepalive
    BY CostsAre
  <2> QED BY <1>13, <2>1 DEF WriteRefused, pumpVars
<1>14. CASE UNCHANGED vars
  BY <1>14 DEF vars, pumpVars, timeVars
<1> QED BY <1>1, <1>2, <1>3, <1>4, <1>5, <1>6, <1>7, <1>8, <1>9, <1>10, <1>11, <1>12,
           <1>13, <1>14 DEF Next

(* In form, every variable has its type: a queue without repeats is as     *)
(* long as the set of its registers is large.                              *)
LEMMA GatewayTypes == GatewayTyped => TypeOK
<1> SUFFICES ASSUME GatewayTyped PROVE TypeOK
  OBVIOUS
<1>1. ASSUME NEW c \in Cycles
      PROVE  /\ cycle[c].elapsed \in 0 .. Base /\ cycle[c].row \in 0 .. Cardinality(Registers)
             /\ cycle[c].answer \in Values \union {None}
             /\ ToSet(cycle[c].queue) \subseteq Registers
             /\ Len(cycle[c].queue) = Cardinality(ToSet(cycle[c].queue))
  <2> DEFINE queue == cycle[c].queue
             N == Len(queue)
             S == ToSet(queue)
  <2>1. cycle[c] \in CycleStates
    BY DEF GatewayTyped
  <2>2. /\ queue \in Seq(Registers) /\ NoTwice(queue) /\ N \in Nat /\ DOMAIN queue = 1 .. N
        /\ cycle[c].row \in Nat /\ N + cycle[c].row <= Cardinality(Registers)
        /\ cycle[c].elapsed \in 0 .. Base /\ cycle[c].answer \in Held
    BY <2>1 DEF CycleStates
  <2> HIDE DEF queue, N
  <2>3. S = {queue[i] : i \in 1 .. N}
    BY <2>2 DEF ToSet
  <2> HIDE DEF S
  <2>4. queue \in Injection(1 .. N, S)
    <3>1. queue \in [1 .. N -> S]
      BY <2>2, <2>3
    <3>2. \A i, j \in 1 .. N : queue[i] = queue[j] => i = j
      BY <2>2 DEF NoTwice
    <3> QED BY <3>1, <3>2, Fun_IsInj
  <2>5. queue \in Surjection(1 .. N, S)
    <3>1. queue \in [1 .. N -> S] /\ \A x \in S : \E i \in 1 .. N : queue[i] = x
      BY <2>2, <2>3
    <3> QED BY <3>1, Fun_IsSurj
  <2>6. IsFiniteSet(1 .. N) /\ Cardinality(1 .. N) = N
    BY <2>2, FS_Interval
  <2>7. Cardinality(S) = N
    BY <2>4, <2>5, <2>6, FS_Surjection
  <2>8. cycle[c].row \in 0 .. Cardinality(Registers)
    BY <2>2, SomeRegisters
  <2>9. S \subseteq Registers
    BY <2>2, <2>3
  <2> QED BY <2>2, <2>7, <2>8, <2>9 DEF queue, N, S, Held
<1>2. write.pc \in {"none", "sent", "read"}
  BY DEF GatewayTyped, WriteStates, NoWrite
<1> QED BY <1>1, <1>2 DEF GatewayTyped, PumpTyped, DataTyped, ClockTyped, RescanTyped, TypeOK, Held

(* Whatever the gateway answers, pushes or loses, no cycle's queue names a *)
(* register twice or one that is none, no row of timeouts is longer than   *)
(* the register map, and no back-off is longer than the longest there is   *)
(* (gateway.PollSchedule, gateway_coordinator._async_update_data).         *)
THEOREM GatewayTypeCorrect == Spec => []TypeOK
<1>1. Init => GatewayTyped
  BY GatewayStarts
<1>2. GatewayTyped /\ [Next]_vars => GatewayTyped'
  BY GatewaySteps
<1>3. GatewayTyped => TypeOK
  BY GatewayTypes
<1> QED BY <1>1, <1>2, <1>3, PTL DEF Spec
=============================================================================
