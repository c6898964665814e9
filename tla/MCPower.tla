------------------------------ MODULE MCPower -------------------------------
(* A model-checking instance of PowerSystem.                                 *)
EXTENDS PowerSystem

MCLoad == [m \in Mode |-> CASE m = "nominal" -> 3 [] m = "low_power" -> 2
                            [] m = "safe" -> 1 [] m = "off" -> 0]
MCOverride == {<<"battery_percent", 0>>, <<"power_mode", "low_power">>,
               <<"payload_rail_enabled", TRUE>>, <<"powered", TRUE>>,
               <<"capture_enabled", TRUE>>}
=============================================================================
