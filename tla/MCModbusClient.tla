--------------------------- MODULE MCModbusClient ---------------------------
(* Values for model-checking ModbusClient: a block read, a write and a     *)
(* read of a register the unit lacks; two block reads of other lengths.    *)
EXTENDS ModbusClient

MCThree == {"span1", "write", "absent"}
MCThreeSize == [r \in MCThree |-> IF r = "write" THEN 0 ELSE 1]
MCTwoSpans == {"span1", "long"}
MCTwoSize == [r \in MCTwoSpans |-> IF r = "long" THEN 2 ELSE 1]
=============================================================================
