----------------------------- MODULE MCComponents -----------------------------
(* Values for model-checking Components.                                   *)
EXTENDS Components

(* Eight addresses in two runs of the map, one register of two words that  *)
(* a block with a hole is split in, and every set of addresses a unit may  *)
(* have.                                                                   *)
MCRegisters == {"a", "wide", "b", "c", "d", "e", "f"}
MCWordsOf == [r \in MCRegisters |->
  CASE r = "a" -> {0} [] r = "wide" -> {1, 2} [] r = "b" -> {3} [] r = "c" -> {4}
    [] r = "d" -> {6} [] r = "e" -> {7} [] r = "f" -> {8}]
MCUnits == SUBSET AddressSet(MCRegisters)

(* Pumps that cool, that have a zone, and with a boosted tank and no room  *)
(* sensor.                                                                 *)
MCFits == {{"sensor", "cooling"}, {"sensor", "zone"}, {"tank", "boost"}}

(* A flag, a signed and a wide setting, a wide one another map has         *)
(* unsigned, and one with a sparse value table.                            *)
Size(words, signed, byte) == [words |-> words, signed |-> signed, byte |-> byte]
Setting(title, size, low, high, measured, table) ==
  [title |-> title, size |-> size, write |-> TRUE, momentary |-> FALSE,
   low |-> low, high |-> high, unit |-> measured, table |-> table]
MCVariants == {
  Setting(1, Size(1, FALSE, TRUE), 0, 1, FALSE, NoTable),
  Setting(1, Size(1, TRUE, FALSE), -2, 1, TRUE, NoTable),
  Setting(2, Size(2, TRUE, FALSE), -8, 7, TRUE, NoTable),
  Setting(1, Size(2, FALSE, FALSE), 0, 15, TRUE, NoTable),
  Setting(2, Size(1, FALSE, FALSE), 0, 3, FALSE, [raw \in {0, 2} |-> <<"library", raw>>])}
MCNibeTables == {NoTable, [raw \in {1, 2} |-> <<"NIBE", raw>>]}
MCTitled == [1 .. 3 -> [name : {"Permit"}, codes : SUBSET {1, 2}, write : BOOLEAN,
                        pinned : BOOLEAN]]

(* A flag, a setting that becomes usual and then gets a value table, and   *)
(* an accessory's register that a later version takes for a date.          *)
Meant(about, writes, table, date, apart) ==
  [about |-> about, write |-> writes, momentary |-> FALSE, low |-> 0, high |-> 3,
   unit |-> TRUE, table |-> table, date |-> date, apart |-> apart]
Words == [raw \in {0, 1} |-> "word"]
MCNumbers == 1 .. 3
MCMeanings == <<
  <<Meant("flag", FALSE, Words, FALSE, FALSE), Meant("other", TRUE, NoTable, FALSE, FALSE),
    Meant("accessory", FALSE, NoTable, FALSE, FALSE)>>,
  <<Meant("flag", FALSE, Words, FALSE, FALSE), Meant("usual", TRUE, NoTable, FALSE, FALSE),
    Meant("accessory", FALSE, NoTable, FALSE, FALSE)>>,
  <<Meant("other", FALSE, Words, FALSE, FALSE), Meant("usual", TRUE, Words, FALSE, TRUE),
    Meant("usual", FALSE, NoTable, TRUE, FALSE)>> >>
=============================================================================
