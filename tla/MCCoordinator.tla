---------------------------- MODULE MCCoordinator ----------------------------
(* Values for model-checking Coordinator: the heat offset shown twice, the *)
(* energy counter of two words that is read in any case, and between them  *)
(* a register that an accessory brings and nobody shows.                   *)
EXTENDS Coordinator

MCRegisters == {"offset", "gap", "energy"}
MCWordsOf == [r \in MCRegisters |->
  CASE r = "offset" -> {0} [] r = "gap" -> {1} [] r = "energy" -> {2, 3}]
MCEntities == {"number", "mode"}
MCRegisterOf == [e \in MCEntities |-> "offset"]
MCUnits == {0 .. 3, {0, 2, 3}}
=============================================================================
