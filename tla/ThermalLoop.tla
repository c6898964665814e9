----------------------------- MODULE ThermalLoop ----------------------------
(***************************************************************************)
(* A thermal node (modules/thermal.py) whose temperature an OBC reads from *)
(* the bus and answers with heater commands: the packaged example          *)
(* thermal-heater, with the faults and overrides the node reads.           *)
(*                                                                         *)
(* Each step of the runner settles before the next (see Testbed), so that  *)
(* telemetry, the rules it fires and their commands are part of the step   *)
(* that sends it.  Temperatures are counts of parts, One to the degree; a  *)
(* tick rounds to a part, towards zero, where the code rounds to a number  *)
(* of Double; on the wire every rounding of the code is made (SignalCodec).*)
(***************************************************************************)
EXTENDS SignalCodec, FiniteSets

CONSTANTS
  Capacity,          (* thermal_capacity_j_per_k / tick_seconds              *)
  Conductance,       (* conductance_w_per_k                                  *)
  DegradedDivisor,   (* 1 / radiator_degraded_conductance_factor             *)
  Internal, Heater,  (* internal_heat_w, heater_power_w                      *)
  Ambient, Initial, AbsoluteZero,
  Cold, Warm,        (* thresholds of the two rules of the OBC               *)
  Margin,            (* around a threshold, where the wire may blur it       *)
  TemperatureField,  (* wire layouts of temperature_c                        *)
  StatusField, StatusLabel,  (* wire layout and enum of heater_status       *)
  Override,          (* overrides that may be set: <<name, value>>, of       *)
                     (* values the node's coercions accept                   *)
  None,
  MaxFaults          (* bound: overrides and faults active at once           *)

Fault == {"heater_stuck_off", "heater_stuck_on", "radiator_degraded"}

(* State overrides of the model, and the override of the telemetry signal.   *)
Overridden == {"temperature_c", "heater_enabled", "heater_power_w",
               "conductance_w_per_k", "ambient_temperature_c", "signal"}

(* A step is no longer than the time constant of the node.                   *)
StableIntegration == Conductance <= Capacity

(* What the configuration has validated.                                     *)
ASSUME ThermalAssumption ==
  /\ Capacity \in Nat \ {0} /\ Conductance \in Nat /\ StableIntegration
  /\ DegradedDivisor \in Nat \ {0} /\ Conductance % DegradedDivisor = 0
  /\ Internal \in Nat /\ Heater \in Nat
  /\ AbsoluteZero \in Int
  /\ \A t \in {Ambient, Initial, Cold, Warm} : t \in Int /\ t >= AbsoluteZero
  /\ \A o \in Override :
       /\ o[1] \in Overridden
       /\ o[1] # "heater_enabled" => o[2] \in Int
       /\ o[1] \in {"temperature_c", "ambient_temperature_c"} => o[2] >= AbsoluteZero
  /\ TemperatureField \cup {StatusField} \subseteq Field
  /\ Margin \in Nat /\ MaxFaults \in Nat /\ None \notin Int

VARIABLES
  temperature,  (* ThermalRcState.temperature_c                             *)
  commanded,    (* ThermalRcState.heater_commanded_on                       *)
  over,         (* the override of each name, or None                       *)
  faults,       (* active named faults                                      *)
  field,        (* wire layout of temperature_c in this setup               *)
  seen,         (* telemetry last decoded from the bus                      *)
  running,      (* FALSE once a step has raised                             *)
  switched      (* history: the last thing done was a physical step after   *)
                (* which a rule switched the heater                         *)

vars == <<temperature, commanded, over, faults, field, seen, running, switched>>

-----------------------------------------------------------------------------
(* Effective values.                                                         *)

Resolve(name, value) == IF over[name] = None THEN value ELSE over[name]

Temperature == Resolve("temperature_c", temperature)

HeaterEnabled(command) ==
  Resolve("heater_enabled",
          \/ "heater_stuck_on" \in faults
          \/ command /\ "heater_stuck_off" \notin faults)

HeaterPower == Resolve("heater_power_w", IF HeaterEnabled(commanded) THEN Heater ELSE 0)

(* Mutant: a degraded radiator conducts better.                              *)
Coupling_Inverse ==
  Resolve("conductance_w_per_k",
          IF "radiator_degraded" \in faults THEN Conductance * DegradedDivisor ELSE Conductance)

Coupling ==
  Resolve("conductance_w_per_k",
          IF "radiator_degraded" \in faults THEN Conductance \div DegradedDivisor ELSE Conductance)

Environment == Resolve("ambient_temperature_c", Ambient)

(* What flows into the node at temperature t.                                *)
Net(t) == Internal + HeaterPower - Coupling * (t - Environment)

Change(power) ==
  IF power >= 0 THEN power \div Capacity ELSE -((-power) \div Capacity)

Floor(t) == IF t < AbsoluteZero THEN AbsoluteZero ELSE t

(* tick: what is read through the overrides goes into the state.             *)
Ticked == Floor(Temperature + Change(Net(Temperature)))

-----------------------------------------------------------------------------
(* Telemetry, and what comes of it.                                          *)

HeaterStatus(command) == IF HeaterEnabled(command) THEN "on" ELSE "off"
Reported == Resolve("signal", Temperature)

(* YAML writes a whole number as an int; what the node itself reports, and a *)
(* state override after its coercion, is a float.                            *)
IsInt == IF over["signal"] = None THEN FALSE ELSE over["signal"] % One = 0

(* Mutant: one threshold for both rules.                                     *)
Reaction_OneThreshold(t, on) == t < Warm

(* The two rules of the OBC.                                                 *)
Reaction(t, on) == t < Cold \/ (on /\ t <= Warm)

(* Mutant: the OBC answers what it saw before.                               *)
Answered_Late(t, on) ==
  IF seen.temperature = None THEN on ELSE Reaction(seen.temperature, on)

Answered(t, on) == Reaction(t, on)

(* _emit_configured_telemetry and what settles behind it, from the state the *)
(* handler leaves, the heater being commanded on or not: a value that does   *)
(* not fit its field raises out of the step.                                 *)
EmitTelemetry(on) ==
  \E value \in {Reported'}, status \in {HeaterStatus(on)'}, isInt \in {IsInt'} :
    IF Encodable(field, value, isInt)
      THEN \E payload \in {EncodeNumber(field, value)} :
           \E t \in {DecodeNumber(field, payload)} :
             /\ seen' = [temperature |-> t,
                         status |-> DecodeLabel(StatusField, StatusLabel,
                                      EncodeLabel(StatusField, StatusLabel, status))]
             /\ commanded' = Answered(t, on)
             /\ UNCHANGED running
      ELSE running' = FALSE /\ commanded' = on /\ UNCHANGED seen

-----------------------------------------------------------------------------
Init ==
  /\ temperature = Initial /\ commanded \in BOOLEAN
  /\ over = [name \in Overridden |-> None] /\ faults = {}
  /\ field \in TemperatureField
  /\ seen = [temperature |-> None, status |-> None]
  /\ running = TRUE /\ switched = FALSE

PhysicalStep ==
  /\ running
  /\ temperature' = Ticked
  /\ UNCHANGED <<over, faults, field>>
  /\ \E on \in {commanded} : EmitTelemetry(on)
  /\ switched' = (commanded' # commanded)

(* Overrides and named faults active.                                        *)
Active == Cardinality(faults) + Cardinality({n \in Overridden : over[n] # None})

(* The scenario steps inject_fault and send_command.                         *)
InjectFaultStep ==
  /\ running
  /\ \/ \E o \in Override : over' = [over EXCEPT ![o[1]] = o[2]] /\ UNCHANGED faults
     \/ \E f \in Fault :
          /\ faults' = IF f \in faults THEN faults \ {f} ELSE faults \cup {f}
          /\ UNCHANGED over
  /\ Active' <= MaxFaults
  /\ UNCHANGED <<temperature, field>>
  /\ \E on \in {commanded} : EmitTelemetry(on)
  /\ switched' = FALSE

SendCommandStep ==
  /\ running
  /\ UNCHANGED <<temperature, over, faults, field>>
  /\ \E on \in BOOLEAN : EmitTelemetry(on)
  /\ switched' = FALSE

(* An override runs out between two readings.                                *)
OverrideEnds ==
  /\ running
  /\ \E name \in Overridden :
       over[name] # None /\ over' = [over EXCEPT ![name] = None]
  /\ switched' = FALSE
  /\ UNCHANGED <<temperature, commanded, faults, field, seen, running>>

Next == PhysicalStep \/ InjectFaultStep \/ SendCommandStep \/ OverrideEnds

Spec == Init /\ [][Next]_vars

(* A scenario that goes on waiting: physical steps go on.                    *)
FairSpec == Spec /\ WF_vars(PhysicalStep)

-----------------------------------------------------------------------------
Clean == faults = {} /\ \A name \in Overridden : over[name] = None

(* The enum of heater_status has both labels, at integers its field takes.   *)
LabelsFit ==
  /\ {"on", "off"} \subseteq {StatusLabel[key] : key \in DOMAIN StatusLabel}
  /\ IsPlain(StatusField) /\ DOMAIN StatusLabel \subseteq RawRange(StatusField)

(* The wire distorts no more than it must: a step that does not raise shows  *)
(* an observer the status of the heater as it was, and the temperature to    *)
(* within half a unit in the last place of every rounding on the way, those  *)
(* of binary32 and of the tolerance included.  (The conversion "fails with a *)
(* clear error instead of silently truncating".)                             *)
WithinResolution ==
  [][temperature' # temperature /\ running' =>
       /\ seen'.status = HeaterStatus(commanded)
       /\ \A value \in {Reported'} :
            2 * One * Magnitude(seen'.temperature - value) <= Blur(field, value)]_vars

(* A step never carries the node past the temperature it tends to: what the  *)
(* stability check of the configuration promises, the degraded radiator      *)
(* included ("checking the nominal value is sufficient").  An override of    *)
(* the conductance is not checked.                                           *)
NoRinging ==
  [][/\ temperature' # temperature
     /\ over["temperature_c"] = None /\ over["conductance_w_per_k"] = None
     => \/ Net(temperature) >= 0 /\ Net(temperature') >= 0
        \/ Net(temperature) <= 0 /\ Net(temperature') <= 0]_vars

(* What is more than Margin beyond a threshold is seen to be beyond it, and  *)
(* what is Margin short of it is not.                                        *)
Discerned ==
  \A f \in TemperatureField :
    /\ Carried(f, Cold - Margin - 1) < Cold /\ Cold <= Carried(f, Cold + Margin)
    /\ Carried(f, Warm - Margin) <= Warm /\ Warm < Carried(f, Warm + Margin + 1)

(* A step that starts about one threshold does not reach about the other.    *)
FarApart ==
  /\ AbsoluteZero <= Warm - Margin
  /\ Cold + Margin + Change(Internal + Heater - Conductance * ((Cold + Margin) - Ambient))
       <= Warm - Margin
  /\ Warm - Margin + Change(Internal - Conductance * (Warm - Margin - Ambient))
       >= Cold + Margin

(* The thermostat does not switch the heater on two physical steps in a row: *)
(* "the two thresholds are far enough apart that the heater does not chatter *)
(* every tick" (thermal-heater/setup.toml).                                  *)
NoChatter == [][switched /\ Clean => ~switched']_vars

(* The temperatures one step outside the thresholds and what blurs them.     *)
Lower == Cold - Margin + Change(Internal - Conductance * (Cold - Margin - Ambient))
Upper == Warm + Margin + Change(Internal + Heater - Conductance * ((Warm + Margin) - Ambient))

InBand == Lower <= temperature /\ temperature <= Upper

(* The thresholds are in order, and at the edges of the band the heater warms*)
(* and the environment cools the node, as in the packaged example.           *)
WellSized ==
  /\ Cold <= Warm
  /\ Internal + Heater - Conductance * (Lower - Ambient) >= 0
  /\ Internal - Conductance * (Upper - Ambient) <= 0

(* With nothing injected, an OBC that has been sent the temperature keeps it *)
(* within a step of the thresholds, whatever the scenario commands and the   *)
(* wire rounds: the rules answer in the step that measures, not a step later.*)
BandHeld ==
  [][Clean /\ InBand /\ seen.temperature = Carried(field, temperature) => InBand']_vars

(* Once nothing is injected any more, the loop brings the node back from     *)
(* wherever the faults left it.                                              *)
Recovers == <>[](Clean /\ running) => <>[]InBand
=============================================================================
