------------------------------ MODULE Discovery ------------------------------
(***************************************************************************)
(* The register scan (discovery.RegisterDiscovery): find the addresses a   *)
(* unit implements when a block read answers only if all of its addresses  *)
(* are there, and what poll plan follows from what was found.              *)
(***************************************************************************)
EXTENDS SpanPlan

CONSTANTS
  Units,    \* what a unit may implement: sets of addresses
  Tries     \* attempts at one read before the scan is given up

ASSUME TriesAssumption == Tries \in Nat \ {0}
ASSUME UnitsAssumption == \A u \in Units : u \subseteq Nat

VARIABLES
  unit,      \* the addresses this unit implements
  todo,      \* the ranges still to scan, the innermost call's first
  found,     \* addresses that answered
  attempt,   \* failed attempts at the present read
  requests,  \* probes made
  outcome    \* running, done, or failed: the exception left run()

scanVars == <<unit, todo, found, attempt, requests, outcome>>

Running == outcome = "running"

(* The addresses there are to scan. *)
MapWords == AddressSet(Registers)

ScanInit ==
  /\ unit \in Units
  /\ todo = Contiguous(MapWords)
  /\ found = {}
  /\ attempt = 0
  /\ requests = 0
  /\ outcome = "running"

Block == IF Head(todo).count < MaxBlock THEN Head(todo).count ELSE MaxBlock
BlockWords == Addresses(Head(todo).start, Block)

(* What is left once the first n addresses of the present range are known. *)
After(n) ==
  LET range == Head(todo)
      rest == [start |-> range.start + n, count |-> range.count - n]
  IN (IF rest.count = 0 THEN <<>> ELSE <<rest>>) \o Tail(todo)

(* Every read counts once, however many attempts it takes. *)
BlockProbed ==
  /\ attempt' = 0
  /\ requests' = requests + 1
  /\ UNCHANGED <<unit, outcome>>

(* The whole block answers. *)
LiveBlock ==
  /\ Running /\ todo # <<>>
  /\ BlockWords \subseteq unit
  /\ found' = found \union BlockWords
  /\ todo' = After(Block)
  /\ BlockProbed

(* One address, and it is not implemented. *)
Hole ==
  /\ Running /\ todo # <<>>
  /\ Block = 1 /\ ~(BlockWords \subseteq unit)
  /\ todo' = After(1)
  /\ BlockProbed
  /\ UNCHANGED found

SplitDropping ==
  /\ Running /\ todo # <<>>
  /\ Block > 1 /\ ~(BlockWords \subseteq unit)
  /\ LET half == Block \div 2
     IN todo' = <<[start |-> Head(todo).start, count |-> half]>> \o After(Block)
  /\ BlockProbed
  /\ UNCHANGED found

SplitStaying ==
  /\ Running /\ todo # <<>>
  /\ Block > 1 /\ ~(BlockWords \subseteq unit)
  /\ todo' = <<[start |-> Head(todo).start, count |-> Block \div 2]>> \o todo
  /\ BlockProbed
  /\ UNCHANGED found

(* A hole somewhere in the block: its first half is scanned by a call of   *)
(* its own, then the loop goes on with everything behind that half.        *)
Split ==
  /\ Running /\ todo # <<>>
  /\ Block > 1 /\ ~(BlockWords \subseteq unit)
  /\ LET half == Block \div 2
     IN todo' = <<[start |-> Head(todo).start, count |-> half]>> \o After(half)
  /\ BlockProbed
  /\ UNCHANGED found

RetryUncounted ==
  /\ Running /\ todo # <<>>
  /\ attempt' = (attempt + 1) % Tries
  /\ UNCHANGED <<unit, todo, found, requests, outcome>>

RetryOnceMore ==
  /\ Running /\ todo # <<>>
  /\ attempt + 1 <= Tries
  /\ attempt' = attempt + 1
  /\ UNCHANGED <<unit, todo, found, requests, outcome>>

(* The connection fails: the read is tried again, up to its last attempt.  *)
Retry ==
  /\ Running /\ todo # <<>>
  /\ attempt + 1 < Tries
  /\ attempt' = attempt + 1
  /\ UNCHANGED <<unit, todo, found, requests, outcome>>

(* The last attempt fails too, or the pump answers with an exception that  *)
(* does not mean a missing register: run() raises and nothing is kept.     *)
Raises ==
  /\ Running /\ todo # <<>>
  /\ outcome' = "failed"
  /\ UNCHANGED <<unit, todo, found, attempt, requests>>

Done ==
  /\ Running /\ todo = <<>>
  /\ outcome' = "done"
  /\ UNCHANGED <<unit, todo, found, attempt, requests>>

(* DiscoveryResult.present: a register needs every one of its words. *)
Present == {r \in Registers : WordsOf[r] \subseteq found}

ScanNext == LiveBlock \/ Hole \/ Split \/ Retry \/ Raises \/ Done

ScanSpec == ScanInit /\ [][ScanNext]_scanVars
ScanFairSpec == ScanSpec /\ WF_scanVars(ScanNext)

----------------------------------------------------------------------------
(* Properties *)

(* Every variable stays in its type; the ranges to scan are never empty    *)
(* and lie in the map, and no read is tried more often than it may be.     *)
ScanTypeOK ==
  /\ unit \in Units
  /\ \A i \in DOMAIN todo :
       /\ todo[i].count > 0
       /\ Addresses(todo[i].start, todo[i].count) \subseteq MapWords
  /\ found \subseteq MapWords
  /\ attempt \in 0 .. Tries - 1
  /\ requests \in Nat
  /\ outcome \in {"running", "done", "failed"}

(* A finished scan knows the unit exactly: a register is present if and    *)
(* only if the unit implements all of its words, wherever the holes lie    *)
(* relative to the blocks.                                                 *)
FindsTheUnit ==
  outcome = "done" => Present = {r \in Registers : WordsOf[r] \subseteq unit}

(* The scan is never dearer than two reads per address, holes or not. *)
TwoReadsPerAddress == requests <= 2 * Cardinality(MapWords)

(* Retries and splits come to an end. *)
ScanEnds == <>~Running

(* Whatever is wanted of the registers present is read by some span, and   *)
(* no read is too long or touches an address the unit lacks - a plan made  *)
(* from a finished scan never draws an error.                              *)
PlansAreSafe ==
  outcome = "done" =>
    \A wanted \in SUBSET Present :
      LET plan == PlanSpans(wanted, Present) IN
      /\ AddressSet(wanted) \subseteq PlanWords(plan)
      /\ PlanWords(plan) \subseteq unit
      /\ \A i \in DOMAIN plan : plan[i].count \in 1 .. MaxBlock

(* "The fewest safe block reads", of those that read each run of wanted   *)
(* addresses at once: no smaller set of safe reads, bridging no longer     *)
(* gap, covers what is wanted.  Reads that share a run could be fewer.     *)
SafeReads(wanted, present) ==
  LET words == AddressSet(wanted)
      starts == {a \in words : a - 1 \notin words}
      ends == {b \in words : b + 1 \notin words}
  IN {read \in {a .. b : a \in starts, b \in ends} :
        /\ Cardinality(read) <= MaxBlock
        /\ read \subseteq AddressSet(present)
        /\ \A x, y \in read \intersect words :
             (x < y /\ x + 1 .. y - 1 \intersect words = {}) => y - x - 1 <= MaxGap}

FewestReads ==
  outcome = "done" =>
    \A wanted \in SUBSET Present : \A reads \in SUBSET SafeReads(wanted, Present) :
      AddressSet(wanted) \subseteq UNION reads =>
        Len(PlanSpans(wanted, Present)) <= Cardinality(reads)
=============================================================================
