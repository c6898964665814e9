---------------------------- MODULE PowerSystem -----------------------------
(***************************************************************************)
(* The EPS and the payload it powers: modules/eps.py, modules/payload.py.  *)
(*                                                                         *)
(* The EPS keeps the battery and a power mode with hysteresis, switches    *)
(* the payload's rail and reads the payload's draw back.  Every value is   *)
(* read through the fault engine: overrides (`over') and named faults      *)
(* change without telling the modules, which find out when they next look. *)
(*                                                                         *)
(* Charge is counted in integer levels, power in levels per tick; voltage, *)
(* signal overrides and wrong commands (which raise) are left out.         *)
(***************************************************************************)
EXTENDS Integers, FiniteSets

CONSTANTS
  Full, Critical, Low, Recovery,  (* charge: 100 % and the three thresholds *)
  InitialCharge,
  Solar,             (* solar_input_w                                       *)
  BaseLoad,          (* load of the bus in each power mode                  *)
  StandbyDraw, ActiveDraw,        (* draw of the payload                    *)
  DeadCellDivisor,   (* 1 / battery_cell_dead_capacity_factor               *)
  ShedInSafe, ShedInLowPower,     (* modes that shed the payload            *)
  DataRate, OneShot, MaxData,     (* data volume of the payload             *)
  Override,          (* overrides that may be set: <<field, value>>         *)
  None,
  MaxFaults          (* bound: overrides and faults active at once          *)

Mode == {"nominal", "low_power", "safe", "off"}
Fault == {"battery_cell_dead", "solar_array_offline",
          "payload_rail_stuck_off", "payload_rail_stuck_on"}
Field == {"battery_percent", "power_mode", "payload_rail_enabled",
          "powered", "capture_enabled"}

ASSUME PowerAssumption ==
  /\ {Full, Critical, Low, Recovery, InitialCharge} \subseteq Nat
  /\ Critical <= Low /\ Low <= Recovery /\ Recovery <= Full
  /\ InitialCharge <= Full
  /\ {Solar, StandbyDraw, ActiveDraw, DataRate, OneShot, MaxData} \subseteq Nat
  /\ BaseLoad \in [Mode -> Nat] /\ BaseLoad["off"] = 0
  /\ DeadCellDivisor \in Nat \ {0}
  /\ ShedInSafe \in BOOLEAN /\ ShedInLowPower \in BOOLEAN
  /\ \A o \in Override :
       \/ o \in {"battery_percent"} \X (0..Full)
       \/ o \in {"power_mode"} \X Mode
       \/ o \in {"payload_rail_enabled", "powered", "capture_enabled"} \X BOOLEAN
  /\ MaxFaults \in Nat

VARIABLES
  eps,        (* GenericEpsState                                            *)
  payload,    (* SimplePayloadState                                         *)
  over,       (* the state override of each field, or None                  *)
  faults      (* active named faults of the EPS                             *)

vars == <<eps, payload, over, faults>>

Min2(a, b) == IF a < b THEN a ELSE b

(* Mutant: no floor.                                                        *)
Clamp_NoFloor(v, top) == Min2(v, top)

Clamp(v, top) == IF v < 0 THEN 0 ELSE Min2(v, top)

-----------------------------------------------------------------------------
(* Effective values.                                                        *)

Resolve(field, value) == IF over[field] = None THEN value ELSE over[field]

MaxCharge == IF "battery_cell_dead" \in faults THEN Full \div DeadCellDivisor ELSE Full

Charge(e) == Min2(Resolve("battery_percent", e.battery), MaxCharge)

SolarInput == IF "solar_array_offline" \in faults THEN 0 ELSE Solar

(* Mutants: hysteresis on the wrong side of the band, and none at all.      *)
StaysLow_WrongSide(e) ==
  Charge(e) <= Low \/ (e.mode = "nominal" /\ Charge(e) < Recovery)
StaysLow_NoHysteresis(e) == Charge(e) <= Low

StaysLow(e) == Charge(e) <= Low \/ (e.mode = "low_power" /\ Charge(e) < Recovery)

(* Mutant: the mode kept decides whether the bus is off.                    *)
AutomaticMode_OffLatched(e) ==
  IF e.commanded = "off" \/ Charge(e) = 0 \/ e.mode = "off" THEN "off"
  ELSE IF Charge(e) <= Critical THEN "safe"
  ELSE IF e.commanded # "nominal" THEN e.commanded
  ELSE IF StaysLow(e) THEN "low_power" ELSE "nominal"

(* _automatic_power_mode: its early returns, in order.                      *)
AutomaticMode(e) ==
  IF e.commanded = "off" \/ Charge(e) = 0 THEN "off"
  ELSE IF Charge(e) <= Critical THEN "safe"
  ELSE IF e.commanded # "nominal" THEN e.commanded
  ELSE IF StaysLow(e) THEN "low_power" ELSE "nominal"

PowerMode(e) == Resolve("power_mode", AutomaticMode(e))

Sheds(mode) ==
  \/ mode = "off"
  \/ mode = "safe" /\ ShedInSafe
  \/ mode = "low_power" /\ ShedInLowPower

(* _effective_payload_rail_enabled                                          *)
RailEnabled(e, mode) ==
  Resolve("payload_rail_enabled",
          \/ "payload_rail_stuck_on" \in faults
          \/ /\ e.railCommanded
             /\ ~Sheds(mode)
             /\ "payload_rail_stuck_off" \notin faults)

Powered(p) == Resolve("powered", p.on /\ p.epsPower)

Capturing(p) == Powered(p) /\ Resolve("capture_enabled", p.capture)

Draw(p) == IF ~Powered(p) THEN 0 ELSE IF Capturing(p) THEN ActiveDraw ELSE StandbyDraw

LoadPower(mode, rail, p) == BaseLoad[mode] + IF rail THEN Draw(p) ELSE 0

(* set_eps_power_available                                                  *)
SyncPayload(p, rail) ==
  [on |-> p.on, epsPower |-> rail, capture |-> p.capture /\ rail, data |-> p.data]

(* _refresh_derived_state                                                   *)
Refreshed(e, p) ==
  LET mode == PowerMode(e)
      rail == RailEnabled(e, mode)
      synced == SyncPayload(p, rail)
  IN  [eps |-> [battery |-> e.battery, commanded |-> e.commanded,
                railCommanded |-> e.railCommanded,
                mode |-> mode, load |-> LoadPower(mode, rail, synced)],
       payload |-> synced]

-----------------------------------------------------------------------------
Init ==
  /\ over = [f \in Field |-> None]
  /\ faults = {}
  /\ \E rail, on \in BOOLEAN :
       LET start == Refreshed(
             [battery |-> InitialCharge, commanded |-> "nominal",
              railCommanded |-> rail, mode |-> "nominal", load |-> 0],
             [on |-> on, epsPower |-> TRUE, capture |-> FALSE, data |-> 0])
       IN  eps = start.eps /\ payload = start.payload

Become(s) == eps' = s.eps /\ payload' = s.payload

(* Commands of the EPS.                                                     *)
SetPayloadRailEnabled(on) ==
  /\ Become(Refreshed([eps EXCEPT !.railCommanded = on], payload))
  /\ UNCHANGED <<over, faults>>

SetPowerMode(mode) ==
  /\ Become(Refreshed([eps EXCEPT !.commanded = mode], payload))
  /\ UNCHANGED <<over, faults>>

(* The battery integrates what the mode, the rail and the payload draw at   *)
(* the start of the tick.  An overridden charge becomes the battery's own.  *)
TickedCharge ==
  LET mode == PowerMode(eps)
      rail == RailEnabled(eps, mode)
      net == SolarInput - LoadPower(mode, rail, SyncPayload(payload, rail))
      scaled == IF "battery_cell_dead" \in faults THEN DeadCellDivisor * net ELSE net
  IN  Clamp(Charge(eps) + scaled, MaxCharge)

(* tick(1): the new charge may change the mode at the end of the tick.  The *)
(* telemetry() it returns refreshes once more, without effect               *)
(* (RefreshSettles).                                                        *)
EpsTick ==
  /\ \E charge \in {TickedCharge} :
       Become(Refreshed([eps EXCEPT !.battery = charge],
                        SyncPayload(payload, RailEnabled(eps, PowerMode(eps)))))
  /\ UNCHANGED <<over, faults>>

EpsTelemetry ==
  /\ Become(Refreshed(eps, payload))
  /\ UNCHANGED <<over, faults>>

(* _increase_data_volume                                                    *)
Increased(p, amount) ==
  IF Powered(p) THEN [p EXCEPT !.data = Clamp(@ + amount, MaxData)] ELSE p

PayloadCommands == {"power_on", "power_off", "start_capture", "stop_capture",
                    "capture_once", "clear_data", "downlink_data"}

PayloadCommand(c) ==
  /\ \/ c = "power_on" /\ payload' = [payload EXCEPT !.on = TRUE]
     \/ c = "power_off" /\ payload' = [payload EXCEPT !.on = FALSE, !.capture = FALSE]
     \/ c = "start_capture" /\ payload' = [payload EXCEPT !.capture = TRUE]
     \/ c = "stop_capture" /\ payload' = [payload EXCEPT !.capture = FALSE]
     \/ c = "capture_once" /\ payload' = Increased(payload, OneShot)
     \/ c = "clear_data" /\ payload' = [payload EXCEPT !.data = 0]
     \/ c = "downlink_data" /\ payload' = [payload EXCEPT !.data = Clamp(@ - OneShot, MaxData)]
  /\ UNCHANGED <<eps, over, faults>>

PayloadTick ==
  /\ Capturing(payload)
  /\ payload' = Increased(payload, DataRate)
  /\ UNCHANGED <<eps, over, faults>>

-----------------------------------------------------------------------------
(* The fault engine: requests, and overrides that run out.                  *)
Active == Cardinality(faults) + Cardinality({f \in Field : over[f] # None})

SetOverride(o) ==
  /\ Active < MaxFaults
  /\ over' = [over EXCEPT ![o[1]] = o[2]]
  /\ UNCHANGED <<eps, payload, faults>>

OverridesEnd(ended) ==
  /\ over' = [field \in Field |-> IF field \in ended THEN None ELSE over[field]]
  /\ UNCHANGED <<eps, payload, faults>>

ActivateFault(f) ==
  /\ Active < MaxFaults
  /\ faults' = faults \cup {f}
  /\ UNCHANGED <<eps, payload, over>>

ClearFault(f) ==
  /\ faults' = faults \ {f}
  /\ UNCHANGED <<eps, payload, over>>

EpsCommand ==
  \/ \E on \in BOOLEAN : SetPayloadRailEnabled(on)
  \/ \E mode \in Mode : SetPowerMode(mode)

FaultRequest ==
  \/ \E o \in Override : SetOverride(o)
  \/ \E ended \in SUBSET {f \in Field : over[f] # None} : OverridesEnd(ended)
  \/ \E f \in Fault : ActivateFault(f) \/ ClearFault(f)

Next ==
  \/ EpsCommand
  \/ EpsTick
  \/ EpsTelemetry
  \/ \E c \in PayloadCommands : PayloadCommand(c)
  \/ PayloadTick
  \/ FaultRequest

Spec == Init /\ [][Next]_vars

(* The physical step re-arms itself: the EPS is ticked forever.             *)
FairSpec == Spec /\ WF_vars(EpsTick)

-----------------------------------------------------------------------------
EpsState == [battery : 0..Full, commanded : Mode, railCommanded : BOOLEAN,
             mode : Mode, load : Nat]
PayloadState == [on : BOOLEAN, epsPower : BOOLEAN, capture : BOOLEAN, data : 0..MaxData]

TypeOK ==
  /\ eps \in EpsState
  /\ payload \in PayloadState
  /\ DOMAIN over = Field
  /\ \A f \in Field : over[f] # None => <<f, over[f]>> \in Override
  /\ faults \subseteq Fault

(* A second look changes nothing: although the mode depends on the mode     *)
(* kept, and the load on a payload the refresh itself switches, reading     *)
(* telemetry twice at one instant reports the same values.                  *)
RefreshSettles ==
  LET once == Refreshed(eps, payload)
  IN  Refreshed(once.eps, once.payload) = once

(* Low power is left for nominal at the recovery threshold or above, unless *)
(* a power-mode override says otherwise.                                    *)
NoFlapping ==
  [][eps.mode = "low_power" /\ eps'.mode = "nominal" =>
       Charge(eps)' >= Recovery \/ over["power_mode"] = "nominal"]_vars

(* Data appears only while the payload has power.                           *)
DataNeedsPower ==
  [][payload'.data > payload.data => Powered(payload)]_vars

Undisturbed == faults = {} /\ \A f \in Field : over[f] = None

(* A drained bus comes back: with the sun on the array, nothing injected    *)
(* and no command to stay off, the EPS does not remain in OFF.              *)
DeadBusRecovers ==
  <>[](Undisturbed /\ eps.commanded # "off") => []<>(eps.mode # "off")
=============================================================================
