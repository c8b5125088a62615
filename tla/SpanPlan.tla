------------------------------ MODULE SpanPlan ------------------------------
(***************************************************************************)
(* How registers are grouped into block reads (discovery.plan_spans).  An  *)
(* address is a Modbus address together with its function code: the codes' *)
(* addresses lie further apart than any gap that is bridged, so the plan   *)
(* never mixes them, as the code plans each code by itself.                *)
(***************************************************************************)
EXTENDS Integers, FiniteSets, Sequences, SequencesExt

CONSTANTS
  Registers,   \* the register map's registers
  WordsOf,     \* the addresses each takes, one or two in a row
  MaxBlock,    \* words the pump answers in one read
  MaxGap       \* unwanted words worth reading to save a read

ASSUME WordsAssumption ==
  /\ WordsOf \in [Registers -> SUBSET Nat]
  /\ \A r \in Registers : WordsOf[r] # {}
ASSUME LimitsAssumption == MaxBlock \in Nat \ {0} /\ MaxGap \in Nat

AddressSet(regs) == UNION {WordsOf[r] : r \in regs}

ASSUME MapAssumption == IsFiniteSet(AddressSet(Registers))

Addresses(start, count) == start .. start + count - 1

(* The i-th of a set of numbers. *)
InOrder(numbers, i) ==
  CHOOSE n \in numbers : Cardinality({m \in numbers : m < n}) = i - 1

(* The addresses as runs without a gap, in order (_contiguous). *)
Contiguous(addresses) ==
  LET starts == {a \in addresses : a - 1 \notin addresses}
      Length(a) == CHOOSE n \in 1 .. Cardinality(addresses) :
                     Addresses(a, n) \subseteq addresses /\ a + n \notin addresses
      Run(a) == [start |-> a, count |-> Length(a)]
  IN [i \in 1 .. Cardinality(starts) |-> Run(InOrder(starts, i))]

RunEnd(run) == run.start + run.count

JoinsAcrossHoles(runs, f, i, implemented) ==
  LET gap == RunEnd(runs[i - 1]) .. runs[i].start - 1 IN
  /\ Cardinality(gap) <= MaxGap
  /\ RunEnd(runs[i]) - runs[f].start <= MaxBlock

JoinsShort(runs, f, i, implemented) ==
  LET gap == RunEnd(runs[i - 1]) .. runs[i].start - 1 IN
  /\ Cardinality(gap) < MaxGap
  /\ RunEnd(runs[i]) - runs[f].start <= MaxBlock
  /\ gap \subseteq implemented

(* Run i is read in the span that run f begins, if the gap before it is    *)
(* short and implemented and the read does not get too long.               *)
Joins(runs, f, i, implemented) ==
  LET gap == RunEnd(runs[i - 1]) .. runs[i].start - 1 IN
  /\ Cardinality(gap) <= MaxGap
  /\ RunEnd(runs[i]) - runs[f].start <= MaxBlock
  /\ gap \subseteq implemented

(* The run that begins the span each run is read in, greedily from the     *)
(* left.                                                                   *)
SpanBegins(runs, implemented) ==
  LET first[i \in DOMAIN runs] ==
        IF i > 1 /\ Joins(runs, first[i - 1], i, implemented) THEN first[i - 1] ELSE i
  IN first

(* Runs merged over such gaps. *)
Bridge(runs, implemented) ==
  LET first == SpanBegins(runs, implemented)
      begins == {i \in DOMAIN runs : first[i] = i}
      End(f) == RunEnd(runs[Max({i \in DOMAIN runs : first[i] = f})])
      Span(f) == [start |-> runs[f].start, count |-> End(f) - runs[f].start]
  IN [k \in 1 .. Cardinality(begins) |-> Span(InOrder(begins, k))]

(* A span longer than a read may be is cut into full reads and a rest. *)
Blocks(span) ==
  LET n == (span.count + MaxBlock - 1) \div MaxBlock
      Size(i) == IF i < n THEN MaxBlock ELSE span.count - (n - 1) * MaxBlock
  IN [i \in 1 .. n |-> [start |-> span.start + (i - 1) * MaxBlock, count |-> Size(i)]]

PlanSpans(wanted, present) ==
  LET spans == Bridge(Contiguous(AddressSet(wanted)), AddressSet(present))
  IN FlattenSeq([i \in DOMAIN spans |-> Blocks(spans[i])])

SpanWords(span) == Addresses(span.start, span.count)
PlanWords(plan) == UNION {SpanWords(plan[i]) : i \in DOMAIN plan}
=============================================================================
