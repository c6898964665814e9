---------------------------- MODULE MCThermalLoop ----------------------------
(* The thermal-heater example, in quarters of a degree, with several layouts *)
(* and few digits: a binary32 of 4 bits and a binary64 of 11.                 *)
EXTENDS ThermalLoop

MCAmbient == -120
MCAbsoluteZero == -1093

Layout(offset, length, type, endian, scale, shift) ==
  [offset |-> offset, length |-> length, type |-> type, endian |-> endian,
   scale |-> scale, shift |-> shift]

MCSingle == [precision |-> 16, least |-> 2]
MCDouble == [precision |-> 2048, least |-> 1]

MCTemperatureField ==
  {Layout(0, 4, "float", "big", One, 0), Layout(1, 2, "uint", "little", -6, 240),
   Layout(0, 1, "int", "big", One, 0)}

MCStatusField == Layout(0, 1, "uint", "big", One, 0)
MCStatusLabel == 0 :> "off" @@ 1 :> "on"

MCOverride ==
  {<<"temperature_c", -200>>, <<"conductance_w_per_k", 100>>,
   <<"signal", 2000>>}

(* The example can be held by its heater and its environment, its thresholds *)
(* are far enough apart for what the layouts blur, and its labels fit.       *)
ASSUME ExampleAssumption == WellSized /\ FarApart /\ Discerned /\ LabelsFit
=============================================================================
