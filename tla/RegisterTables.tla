--------------------------- MODULE RegisterTables ---------------------------
(***************************************************************************)
(* What the register maps make of a register: how a value becomes words    *)
(* and comes back, what an entity shows of it, and its name.               *)
(*                                                                         *)
(* A meaning is a record: size, write, low and high (raw limits), table (a *)
(* function from raw values to labels, empty without one).  A scaled value *)
(* is counted in halves of one raw count, the least a rounding can tell.   *)
(* A machine of one state per input: each is put to the test at Init.      *)
(***************************************************************************)
EXTENDS Integers, FiniteSets, SequencesExt

CONSTANTS
  Byte,        \* how many values a byte has
  Variants,    \* meanings a register map of the library may give a register
  NibeTables,  \* value tables NIBE publishes for it; the empty one for none
  Titled       \* what a register's title may say: name, codes, write, pinned

ASSUME ByteAssumption == Byte \in Nat /\ Byte % 2 = 0 /\ Byte > 0

Sizes == [words : {1, 2}, signed : BOOLEAN, byte : BOOLEAN]

ASSUME VariantsAssumption ==
  /\ Variants \subseteq
       [title : Nat, size : Sizes, write : BOOLEAN, momentary : BOOLEAN,
        low : Int, high : Int, unit : BOOLEAN, table : {m.table : m \in Variants}]
  /\ \A table \in {m.table : m \in Variants} \union NibeTables : DOMAIN table \subseteq Int
ASSUME TitledAssumption == \A t \in Titled : IsFiniteSet(DOMAIN t)

VARIABLES
  variants,  \* the maps' meanings of the register under test, in map order
  labels,    \* NIBE's own table for it
  titled     \* the titles of the registers that are present

tableVars == <<variants, labels, titled>>

NoTable == [raw \in {} |-> ""]
Word == Byte * Byte
Counts(size) == IF size.words = 2 THEN Word * Word ELSE Word

----------------------------------------------------------------------------
(* Register maps (registry.union_map) *)

MostCommon(s) ==
  LET Votes(x) == Cardinality({i \in DOMAIN s : s[i] = x}) IN
  s[CHOOSE i \in DOMAIN s :
      /\ \A j \in DOMAIN s : Votes(s[i]) >= Votes(s[j])
      /\ \A j \in 1 .. i - 1 : Votes(s[j]) < Votes(s[i])]

MostInformative(s) ==
  LET Weight(m) == 2 * m.title + (IF m.table # NoTable THEN 1 ELSE 0) IN
  s[CHOOSE i \in DOMAIN s :
      /\ \A j \in DOMAIN s : Weight(s[i]) >= Weight(s[j])
      /\ \A j \in 1 .. i - 1 : Weight(s[j]) < Weight(s[i])]

AnyTable(s) ==
  LET with == {i \in DOMAIN s : s[i].table # NoTable} IN
  IF MostInformative(s).table # NoTable THEN MostInformative(s).table
  ELSE IF with # {} THEN s[Min(with)].table ELSE NoTable

(* A table of NIBE's own wins over the library's. *)
Merged(s, own) ==
  [MostInformative(s) EXCEPT
     !.size = MostCommon([i \in DOMAIN s |-> s[i].size]),
     !.unit = MostCommon([i \in DOMAIN s |-> s[i].unit]),
     !.table = IF own # NoTable THEN own ELSE AnyTable(s)]

----------------------------------------------------------------------------
(* Words (codec) *)

Signed(n, size) == IF size.signed /\ 2 * n >= Counts(size) THEN n - Counts(size) ELSE n

(* Read with the low word first ... *)
DecodeRaw(size, words) ==
  Signed(IF size.words = 2 THEN words[1] + Word * words[2] ELSE words[1], size)

(* ... and written with the high word first. *)
EncodeRawAsRead(size, value) ==
  LET n == value % Counts(size) IN
  IF size.words = 2 THEN <<n % Word, n \div Word>> ELSE <<n>>

EncodeRaw(size, value) ==
  LET n == value % Counts(size) IN
  IF size.words = 2 THEN <<n \div Word, n % Word>> ELSE <<n>>

(* The value a size uses for: no reading. *)
Sentinel(size) ==
  LET n == IF size.byte THEN Byte ELSE Counts(size) IN
  IF size.signed THEN -(n \div 2) ELSE n - 1

Encodable(size, value) ==
  IF size.signed THEN -(Counts(size) \div 2) <= value /\ 2 * value < Counts(size)
                 ELSE value \in 0 .. Counts(size) - 1

(* Python rounds a half to the even neighbour. *)
Unscale(halves) ==
  IF halves % 2 = 0 THEN halves \div 2
  ELSE CHOOSE n \in {halves \div 2, halves \div 2 + 1} : n % 2 = 0

(* The pump's own memory: a write of two words carries the high one first. *)
StoredByPump(words) == Reverse(words)

Decode(m, words) == DecodeRaw(m.size, words)

----------------------------------------------------------------------------
(* Values by the gateway: the library's labels, and numbers for the rest   *)

CoilDataForWrite(m, raw) ==
  m.write /\ (m.table # NoTable => raw \in DOMAIN m.table)

(* The library reads a table value as its label, or as UNKNOWN (5). *)
CoilLabel(m, raw) ==
  IF raw \in DOMAIN m.table THEN m.table[raw] ELSE <<"UNKNOWN", raw>>

ValueFromCoil(m, raw) ==
  LET label == CoilLabel(m, raw) IN
  IF m.table = NoTable THEN raw
  ELSE IF \E n \in DOMAIN m.table : m.table[n] = label
         THEN CHOOSE n \in DOMAIN m.table : m.table[n] = label
         ELSE label[2]

----------------------------------------------------------------------------
(* Entities *)

FlagRange(m) == m.low = 0 /\ m.high = 1 /\ ~m.unit /\ m.table = NoTable

PlatformFor(m) ==
  CASE m.write /\ m.momentary -> "button"
    [] ~(m.write /\ m.momentary) /\ m.table # NoTable ->
         IF m.write THEN "select" ELSE "sensor"
    [] ~(m.write /\ m.momentary) /\ m.table = NoTable /\ FlagRange(m) ->
         IF m.write THEN "switch" ELSE "binary_sensor"
    [] OTHER -> IF m.write THEN "number" ELSE "sensor"

(* What a user may ask an entity for, as halves of a count. *)
Options(m) ==
  CASE PlatformFor(m) = "select" -> {2 * raw : raw \in DOMAIN m.table}
    [] PlatformFor(m) = "switch" -> {0, 2}
    [] PlatformFor(m) = "button" -> {}
    [] OTHER -> IF m.write THEN 2 * m.low .. 2 * m.high ELSE {}

(* What the entity shows of a raw value. *)
ShownAs(m, raw) ==
  CASE PlatformFor(m) = "select" ->
         IF raw \in DOMAIN m.table THEN m.table[raw] ELSE "none"
    [] PlatformFor(m) = "switch" -> raw # 0
    [] OTHER -> raw

(* coordinator.async_write: what is refused, what is sent, what is shown. *)
Accepted(m, halves) ==
  LET raw == Unscale(halves) IN
  m.write /\ m.low <= raw /\ raw <= m.high /\ Encodable(m.size, raw)

ShownAfterWrite(m, halves) ==
  ShownAs(m, Decode(m, StoredByPump(EncodeRaw(m.size, Unscale(halves)))))

ShownAfterCoilWrite(m, halves) == ShownAs(m, ValueFromCoil(m, Unscale(halves)))

----------------------------------------------------------------------------
(* Names (names.assign_names): a name, then what tells it from its like    *)

ShortName(r) == <<titled[r].name>>
Clashing(names, r) == {q \in DOMAIN names : names[q] = names[r]}
Pinned == {r \in DOMAIN titled : titled[r].pinned}

(* The designation only some of the clashing titles carry, then being the  *)
(* one setting among them, then the register's number.                     *)
ToldApart(names, r) ==
  LET like == Clashing(names, r)
      own == {c \in titled[r].codes : \E q \in like : c \notin titled[q].codes}
      settings == {q \in like : titled[q].write}
  IN
  IF Cardinality(like) < 2 \/ r \in Pinned THEN names[r]
  ELSE IF own # {} THEN Append(names[r], <<"code", CHOOSE c \in own : \A d \in own : d <= c>>)
  ELSE IF settings = {r} THEN Append(names[r], <<"set">>)
  ELSE IF Cardinality(settings) # 1 THEN Append(names[r], <<"number", r>>)
  ELSE names[r]

Numbered(names, r) ==
  LET like == Clashing(names, r) IN
  IF Cardinality(like) > 1 /\ (r \notin Pinned \/ like \subseteq Pinned)
    THEN Append(names[r], <<"number", r>>) ELSE names[r]

AssignNamesOnce ==
  LET plain == [r \in DOMAIN titled |-> ShortName(r)] IN
  [r \in DOMAIN titled |-> ToldApart(plain, r)]

AssignNames ==
  LET plain == [r \in DOMAIN titled |-> ShortName(r)]
      apart == [r \in DOMAIN titled |-> ToldApart(plain, r)]
  IN  [r \in DOMAIN titled |-> Numbered(apart, r)]

----------------------------------------------------------------------------
(* Two curated names for one thing would be a mistake in the table itself. *)
Curated(t) ==
  \A q, r \in DOMAIN t : q # r /\ t[q].pinned /\ t[r].pinned => t[q].name # t[r].name

TablesInit ==
  /\ \/ variants \in UNION {[1 .. n -> Variants] : n \in 1 .. 3} /\ labels \in NibeTables
        /\ titled = <<>>
     \/ variants = <<>> /\ labels = NoTable
        /\ titled \in {t \in Titled : Curated(t)}

TablesTypeOK == variants \in Seq(Variants) /\ labels \in NibeTables \union {NoTable}

(* A setting shows what it was asked to be once it is written and read     *)
(* back, to the nearest count and whichever way the words, the signs and   *)
(* the value tables go - unless it holds the very value that stands for no *)
(* reading.                                                                *)
ReadBackIsWritten ==
  variants # <<>> =>
    LET m == Merged(variants, labels) IN
    \A halves \in Options(m) :
      LET raw == Unscale(halves) IN
      Accepted(m, halves) /\ raw # Sentinel(m.size) =>
        /\ ShownAfterWrite(m, halves) = ShownAs(m, raw)
        /\ variants = <<m>> /\ CoilDataForWrite(m, raw) =>
             ShownAfterCoilWrite(m, halves) = ShownAs(m, raw)

(* No two registers of a pump have the same name, however many share a     *)
(* title, a designation or a curated name.                                 *)
NamesDistinct ==
  \A q, r \in DOMAIN titled : q # r => AssignNames[q] # AssignNames[r]
=============================================================================
