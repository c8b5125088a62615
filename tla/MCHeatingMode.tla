--------------------------- MODULE MCHeatingMode ---------------------------
(* Values for model-checking HeatingMode on small ranges. *)
EXTENDS HeatingMode

MCLow == -2
MCPumpLow == -1
MCSteps == [m \in Modes |-> CASE m = "blocked" -> -3
                               [] m = "eco" -> -1
                               [] m = "boost" -> 1
                               [] OTHER -> 0]

MCHands == {0, 1}
MCAllModes == Modes
MCTwoModes == {Normal, "eco"}
============================================================================
