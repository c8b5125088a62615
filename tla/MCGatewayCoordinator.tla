------------------------ MODULE MCGatewayCoordinator ------------------------
(* Values for model-checking GatewayCoordinator: a temperature that is     *)
(* pushed and announces us, a setting that is switched on and off and      *)
(* written, and a counter nobody switches off.                             *)
EXTENDS GatewayCoordinator

MCRegisters == 1 .. 3
MCKind == [r \in MCRegisters |->
  CASE r = 1 -> "measurement" [] r = 2 -> "setting" [] r = 3 -> "counter"]

MCOutcomes == {<<"value", "value", "garbage">>, <<"value", "silent", "silent">>}
=============================================================================
