-------------------------- MODULE PowerSystemProofs -------------------------
(***************************************************************************)
(* Theorems about PowerSystem for every sizing of battery, loads and       *)
(* thresholds and every set of overrides.                                  *)
(***************************************************************************)
EXTENDS PowerSystem, TLAPS

(* TypeOK with `over' as a function.                                        *)
PowerInv == TypeOK /\ over = [f \in Field |-> over[f]]

(* The part of TypeOK that says what the modules read through the fault     *)
(* engine.                                                                  *)
OverridesTyped == \A f \in Field : over[f] # None => <<f, over[f]>> \in Override

(* An override has the type of its field.                                   *)
LEMMA OverrideTypes ==
  ASSUME OverridesTyped
  PROVE  /\ over["battery_percent"] # None => over["battery_percent"] \in 0..Full
         /\ over["power_mode"] # None => over["power_mode"] \in Mode
         /\ \A f \in {"payload_rail_enabled", "powered", "capture_enabled"} :
              over[f] # None => over[f] \in BOOLEAN
<1>1. \A f \in Field : over[f] # None => <<f, over[f]>> \in Override
  BY DEF OverridesTyped
<1>2. \A f, v : <<f, v>> \in Override =>
        \/ f = "battery_percent" /\ v \in 0..Full
        \/ f = "power_mode" /\ v \in Mode
        \/ f \in {"payload_rail_enabled", "powered", "capture_enabled"} /\ v \in BOOLEAN
  BY PowerAssumption
<1>3. {"battery_percent", "power_mode", "payload_rail_enabled", "powered", "capture_enabled"}
        = Field
  BY DEF Field
<1>4. over["battery_percent"] # None => over["battery_percent"] \in 0..Full
  <2>1. over["battery_percent"] # None => <<"battery_percent", over["battery_percent"]>> \in Override
    BY <1>1, <1>3
  <2> QED
    BY <1>2, <2>1
<1>5. over["power_mode"] # None => over["power_mode"] \in Mode
  <2>1. over["power_mode"] # None => <<"power_mode", over["power_mode"]>> \in Override
    BY <1>1, <1>3
  <2> QED
    BY <1>2, <2>1
<1>6. ASSUME NEW f \in {"payload_rail_enabled", "powered", "capture_enabled"}, over[f] # None
      PROVE  over[f] \in BOOLEAN
  <2>1. <<f, over[f]>> \in Override
    BY <1>1, <1>3, <1>6
  <2> QED
    BY <1>2, <2>1
<1> QED
  BY <1>4, <1>5, <1>6

(* Clamping gives a value between zero and the top.                         *)
LEMMA ClampRange ==
  ASSUME NEW v \in Int, NEW top \in Nat
  PROVE  Clamp(v, top) \in 0..top /\ (v \in 0..top => Clamp(v, top) = v)
  BY DEF Clamp, Min2

(* Effective charge and mode of a well-formed state.                        *)
LEMMA EffectiveTypes ==
  ASSUME OverridesTyped, NEW e \in EpsState
  PROVE  /\ MaxCharge \in 0..Full
         /\ Charge(e) \in 0..Full
         /\ PowerMode(e) \in Mode
<1>1. Full \in Nat /\ DeadCellDivisor \in Nat /\ DeadCellDivisor > 0
  BY PowerAssumption
<1>2. Full \div DeadCellDivisor \in 0..Full
  <2>1. \A n \in Nat, d \in Nat : d > 0 => n \div d \in 0..n
    BY Z3
  <2> QED
    BY <1>1, <2>1
<1>3. MaxCharge \in 0..Full
  BY <1>1, <1>2 DEF MaxCharge
<1>4. e.battery \in 0..Full /\ e.commanded \in Mode /\ e.mode \in Mode
  BY DEF EpsState
<1>5. Charge(e) \in 0..Full
  BY <1>1, <1>3, <1>4, OverrideTypes DEF Charge, Resolve, Min2
<1>6. AutomaticMode(e) \in Mode
  BY <1>4 DEF AutomaticMode, Mode
<1>7. PowerMode(e) \in Mode
  BY <1>6, OverrideTypes DEF PowerMode, Resolve
<1> QED
  BY <1>3, <1>5, <1>7

(* The rail and the payload's power are switched on or off.                 *)
LEMMA SwitchTypes ==
  ASSUME OverridesTyped, NEW e \in EpsState, NEW m \in Mode, NEW p \in PayloadState
  PROVE  RailEnabled(e, m) \in BOOLEAN /\ Powered(p) \in BOOLEAN
<1>1. e.railCommanded \in BOOLEAN /\ p.on \in BOOLEAN /\ p.epsPower \in BOOLEAN
  BY DEF EpsState, PayloadState
<1>2. RailEnabled(e, m) \in BOOLEAN
  BY OverrideTypes DEF RailEnabled, Resolve
<1>3. Powered(p) \in BOOLEAN
  BY <1>1, OverrideTypes DEF Powered, Resolve
<1> QED
  BY <1>2, <1>3

(* The load is a non-negative power.                                        *)
LEMMA LoadType ==
  ASSUME NEW m \in Mode, NEW rail \in BOOLEAN, NEW p
  PROVE  LoadPower(m, rail, p) \in Nat
<1>1. BaseLoad[m] \in Nat /\ ActiveDraw \in Nat /\ StandbyDraw \in Nat
  BY PowerAssumption
<1>2. Draw(p) \in Nat
  BY <1>1 DEF Draw
<1> QED
  BY <1>1, <1>2 DEF LoadPower

(* A payload told about its rail.                                           *)
LEMMA SyncedPayload ==
  ASSUME NEW p \in PayloadState, NEW rail \in BOOLEAN
  PROVE  SyncPayload(p, rail) \in PayloadState
  BY DEF SyncPayload, PayloadState

(* A refresh keeps the types.                                               *)
LEMMA RefreshTypes ==
  ASSUME OverridesTyped, NEW e \in EpsState, NEW p \in PayloadState
  PROVE  Refreshed(e, p).eps \in EpsState /\ Refreshed(e, p).payload \in PayloadState
<1> DEFINE mode == PowerMode(e)
           rail == RailEnabled(e, mode)
           load == LoadPower(mode, rail, SyncPayload(p, rail))
<1>1. mode \in Mode
  BY EffectiveTypes
<1>2. rail \in BOOLEAN
  BY <1>1, SwitchTypes
<1>3. load \in Nat
  BY <1>1, <1>2, LoadType
<1>4. SyncPayload(p, rail) \in PayloadState
  BY <1>2, SyncedPayload
<1>5. Refreshed(e, p) =
        [eps |-> [battery |-> e.battery, commanded |-> e.commanded,
                  railCommanded |-> e.railCommanded, mode |-> mode, load |-> load],
         payload |-> SyncPayload(p, rail)]
  BY DEF Refreshed
<1> HIDE DEF mode, rail, load
<1> QED
  BY <1>1, <1>3, <1>4, <1>5 DEF EpsState

-----------------------------------------------------------------------------
(* The mode is a fixed point of the hysteresis: it depends on the mode kept *)
(* only through low_power, and looking does not move the charge.            *)
LEMMA ModeSettles ==
  ASSUME OverridesTyped, NEW e \in EpsState, NEW f, f.battery = e.battery, f.commanded = e.commanded,
         f.mode = PowerMode(e)
  PROVE  PowerMode(f) = PowerMode(e)
<1>1. Charge(f) = Charge(e) /\ Charge(e) \in Nat /\ Low \in Nat /\ Recovery \in Nat
  BY EffectiveTypes, PowerAssumption DEF Charge
<1>2. CASE over["power_mode"] # None
  BY <1>2 DEF PowerMode, Resolve
<1>3. CASE over["power_mode"] = None
  <2>1. PowerMode(e) = AutomaticMode(e) /\ PowerMode(f) = AutomaticMode(f)
    BY <1>3 DEF PowerMode, Resolve
  <2> QED
    BY <1>1, <2>1 DEF AutomaticMode, StaysLow
<1> QED
  BY <1>2, <1>3

(* Telemetry read twice at one instant is the same, in every well-formed    *)
(* state and under every set of overrides and faults.                       *)
LEMMA Settles == TypeOK => RefreshSettles
<1> SUFFICES ASSUME TypeOK PROVE RefreshSettles
  OBVIOUS
<1> DEFINE mode == PowerMode(eps)
           rail == RailEnabled(eps, mode)
           synced == SyncPayload(payload, rail)
           e == [battery |-> eps.battery, commanded |-> eps.commanded,
                 railCommanded |-> eps.railCommanded,
                 mode |-> mode, load |-> LoadPower(mode, rail, synced)]
<1>1. Refreshed(eps, payload) = [eps |-> e, payload |-> synced]
  BY DEF Refreshed
<1>2. PowerMode(e) = mode
  BY ModeSettles DEF TypeOK, OverridesTyped
<1>3. RailEnabled(e, mode) = rail
  BY DEF RailEnabled
<1>4. SyncPayload(synced, rail) = synced
  BY DEF SyncPayload
<1>5. Refreshed(e, synced) = [eps |-> e, payload |-> synced]
  BY <1>2, <1>3, <1>4 DEF Refreshed
<1> QED
  BY <1>1, <1>5 DEF RefreshSettles

-----------------------------------------------------------------------------
(* Storing or deleting data keeps the payload's types.                      *)
LEMMA DataTypes ==
  ASSUME NEW p \in PayloadState, NEW v \in Int
  PROVE  [p EXCEPT !.data = Clamp(v, MaxData)] \in PayloadState
<1>1. MaxData \in Nat
  BY PowerAssumption
<1>2. Clamp(v, MaxData) \in 0..MaxData
  BY <1>1, ClampRange
<1> QED
  BY <1>2 DEF PayloadState

(* What is collected is stored within the payload's capacity.               *)
LEMMA IncreasedTypes ==
  ASSUME NEW p \in PayloadState, NEW amount \in Nat
  PROVE  Increased(p, amount) \in PayloadState
<1>1. p.data + amount \in Int
  BY PowerAssumption DEF PayloadState
<1>2. [p EXCEPT !.data = Clamp(p.data + amount, MaxData)] \in PayloadState
  BY <1>1, DataTypes
<1> QED
  BY <1>2 DEF Increased

(* A refresh of well-formed states makes the new state well formed.         *)
LEMMA BecomeInv ==
  ASSUME PowerInv, NEW e \in EpsState, NEW p \in PayloadState,
         Become(Refreshed(e, p)), UNCHANGED <<over, faults>>
  PROVE  PowerInv'
<1>1. eps' \in EpsState /\ payload' \in PayloadState
  BY RefreshTypes DEF PowerInv, TypeOK, OverridesTyped, Become
<1> QED
  BY <1>1 DEF PowerInv, TypeOK

(* The charge a tick leaves behind is one the battery can hold, whatever    *)
(* the load and however the dead cells scale it.                            *)
LEMMA TickedRange ==
  ASSUME PowerInv
  PROVE  TickedCharge \in 0..Full
<1> DEFINE mode == PowerMode(eps)
           rail == RailEnabled(eps, mode)
           synced == SyncPayload(payload, rail)
           net == SolarInput - LoadPower(mode, rail, synced)
           scaled == IF "battery_cell_dead" \in faults THEN DeadCellDivisor * net ELSE net
<1>1. eps \in EpsState /\ payload \in PayloadState /\ OverridesTyped
  BY DEF PowerInv, TypeOK, OverridesTyped
<1>2. mode \in Mode /\ rail \in BOOLEAN
  BY <1>1, EffectiveTypes, SwitchTypes
<1>3. net \in Int
  <2>1. SolarInput \in Nat
    BY PowerAssumption DEF SolarInput
  <2>2. LoadPower(mode, rail, synced) \in Nat
    BY <1>2, LoadType
  <2> QED
    BY <2>1, <2>2
<1>4. scaled \in Int
  <2>1. DeadCellDivisor \in Int
    BY PowerAssumption
  <2>2. \A x, y \in Int : x * y \in Int
    OBVIOUS
  <2> HIDE DEF net
  <2> QED
    BY <1>3, <2>1, <2>2
<1>5. MaxCharge \in 0..Full /\ Charge(eps) \in 0..Full /\ Full \in Nat
  BY <1>1, EffectiveTypes, PowerAssumption
<1>6. TickedCharge = Clamp(Charge(eps) + scaled, MaxCharge)
  BY DEF TickedCharge
<1> HIDE DEF scaled
<1>7. Charge(eps) + scaled \in Int /\ MaxCharge \in Nat
  BY <1>4, <1>5
<1>8. TickedCharge \in 0..MaxCharge
  BY <1>6, <1>7, ClampRange
<1> QED
  BY <1>5, <1>8

(* Commands and ticks of the EPS keep the types.                            *)
LEMMA EpsStepInv ==
  ASSUME PowerInv, EpsCommand \/ EpsTick \/ EpsTelemetry
  PROVE  PowerInv'
<1>1. OverridesTyped /\ eps \in EpsState /\ payload \in PayloadState
  BY DEF PowerInv, TypeOK, OverridesTyped
<1>2. ASSUME NEW on \in BOOLEAN, SetPayloadRailEnabled(on) PROVE PowerInv'
  <2>1. [eps EXCEPT !.railCommanded = on] \in EpsState
    BY <1>1 DEF EpsState
  <2> QED
    BY <1>1, <1>2, <2>1, BecomeInv DEF SetPayloadRailEnabled
<1>3. ASSUME NEW mode \in Mode, SetPowerMode(mode) PROVE PowerInv'
  <2>1. [eps EXCEPT !.commanded = mode] \in EpsState
    BY <1>1 DEF EpsState
  <2> QED
    BY <1>1, <1>3, <2>1, BecomeInv DEF SetPowerMode
<1>4. CASE EpsTelemetry
  BY <1>1, <1>4, BecomeInv DEF EpsTelemetry
<1>5. CASE EpsTick
  <2> DEFINE ticked == [eps EXCEPT !.battery = TickedCharge]
             synced == SyncPayload(payload, RailEnabled(eps, PowerMode(eps)))
  <2>1. RailEnabled(eps, PowerMode(eps)) \in BOOLEAN
    BY <1>1, EffectiveTypes, SwitchTypes
  <2>2. synced \in PayloadState
    BY <1>1, <2>1, SyncedPayload
  <2>3. ticked \in EpsState
    <3>1. TickedCharge \in 0..Full
      BY TickedRange
    <3> QED
      BY <1>1, <3>1 DEF EpsState
  <2>4. Become(Refreshed(ticked, synced)) /\ UNCHANGED <<over, faults>>
    BY <1>5 DEF EpsTick
  <2> HIDE DEF ticked, synced
  <2> QED
    BY <2>2, <2>3, <2>4, BecomeInv
<1> QED
  BY <1>2, <1>3, <1>4, <1>5 DEF EpsCommand

(* Commands and ticks of the payload, and the fault engine, keep the types. *)
LEMMA OtherStepInv ==
  ASSUME PowerInv,
         (\E c \in PayloadCommands : PayloadCommand(c)) \/ PayloadTick \/ FaultRequest
           \/ UNCHANGED vars
  PROVE  PowerInv'
<1>1. payload \in PayloadState /\ OneShot \in Nat /\ DataRate \in Nat /\ MaxData \in Nat
  BY PowerAssumption DEF PowerInv, TypeOK
<1>2. ASSUME payload' \in PayloadState, UNCHANGED <<eps, over, faults>> PROVE PowerInv'
  BY <1>2 DEF PowerInv, TypeOK
<1>3. CASE \E c \in PayloadCommands : PayloadCommand(c)
  <2>1. [payload EXCEPT !.on = TRUE] \in PayloadState
        /\ [payload EXCEPT !.capture = TRUE] \in PayloadState
        /\ [payload EXCEPT !.capture = FALSE] \in PayloadState
    BY <1>1 DEF PayloadState
  <2>2. [payload EXCEPT !.on = FALSE, !.capture = FALSE] \in PayloadState
    BY <1>1 DEF PayloadState
  <2>3. [payload EXCEPT !.data = 0] \in PayloadState
    BY <1>1 DEF PayloadState
  <2>4. [payload EXCEPT !.data = Clamp(payload.data - OneShot, MaxData)] \in PayloadState
    <3>1. payload.data - OneShot \in Int
      BY <1>1 DEF PayloadState
    <3> QED
      BY <1>1, <3>1, DataTypes
  <2>5. Increased(payload, OneShot) \in PayloadState
    BY <1>1, IncreasedTypes
  <2> QED
    BY <1>2, <1>3, <2>1, <2>2, <2>3, <2>4, <2>5 DEF PayloadCommand
<1>4. CASE PayloadTick
  BY <1>1, <1>2, <1>4, IncreasedTypes DEF PayloadTick
<1>5. ASSUME UNCHANGED <<eps, payload, faults>>, NEW f, NEW v, f \in Field,
             <<f, v>> \in Override, over' = [over EXCEPT ![f] = v]
      PROVE  PowerInv'
  <2>1. over' = [g \in Field |-> IF g = f THEN v ELSE over[g]]
    BY <1>5 DEF PowerInv
  <2> QED
    BY <1>5, <2>1 DEF PowerInv, TypeOK
<1>6. CASE FaultRequest
  <2>1. ASSUME NEW o \in Override, SetOverride(o) PROVE PowerInv'
    <3>1. o[1] \in Field /\ <<o[1], o[2]>> \in Override
      BY PowerAssumption DEF Field
    <3> QED
      BY <1>5, <2>1, <3>1 DEF SetOverride
  <2>2. ASSUME NEW ended \in SUBSET {f \in Field : over[f] # None}, OverridesEnd(ended)
        PROVE  PowerInv'
    BY <2>2 DEF OverridesEnd, PowerInv, TypeOK
  <2>3. ASSUME NEW f \in Fault, ActivateFault(f) \/ ClearFault(f) PROVE PowerInv'
    BY <2>3 DEF ActivateFault, ClearFault, PowerInv, TypeOK
  <2> QED
    BY <1>6, <2>1, <2>2, <2>3 DEF FaultRequest
<1>7. CASE UNCHANGED vars
  BY <1>7 DEF vars, PowerInv, TypeOK
<1> QED
  BY <1>3, <1>4, <1>6, <1>7

(* The first refresh, at the end of the modules' construction, makes a      *)
(* well-formed state of any configuration.                                  *)
LEMMA PowerInit == Init => PowerInv
<1> SUFFICES ASSUME Init PROVE PowerInv
  OBVIOUS
<1>1. over = [f \in Field |-> None] /\ faults = {}
  BY DEF Init
<1>2. OverridesTyped /\ over = [f \in Field |-> over[f]] /\ DOMAIN over = Field
  BY <1>1 DEF OverridesTyped
<1>3. PICK rail \in BOOLEAN, on \in BOOLEAN :
        LET start == Refreshed(
              [battery |-> InitialCharge, commanded |-> "nominal",
               railCommanded |-> rail, mode |-> "nominal", load |-> 0],
              [on |-> on, epsPower |-> TRUE, capture |-> FALSE, data |-> 0])
        IN  eps = start.eps /\ payload = start.payload
  BY DEF Init
<1>4. [battery |-> InitialCharge, commanded |-> "nominal",
       railCommanded |-> rail, mode |-> "nominal", load |-> 0] \in EpsState
  BY PowerAssumption DEF EpsState, Mode
<1>5. [on |-> on, epsPower |-> TRUE, capture |-> FALSE, data |-> 0] \in PayloadState
  BY PowerAssumption DEF PayloadState
<1>6. eps \in EpsState /\ payload \in PayloadState
  BY <1>2, <1>3, <1>4, <1>5, RefreshTypes
<1> QED
  BY <1>1, <1>2, <1>6 DEF PowerInv, TypeOK, OverridesTyped

(* The types are inductive by themselves.                                   *)
LEMMA PowerStepInv == PowerInv /\ [Next]_vars => PowerInv'
  BY EpsStepInv, OtherStepInv DEF Next

(* The types hold in every behaviour.                                       *)
LEMMA PowerInvariant == Spec => []PowerInv
  BY PowerInit, PowerStepInv, PTL DEF Spec

(* Charge, modes, rail, load and data stay in their ranges, whatever is     *)
(* overridden or faulted and however the loads are sized.                   *)
THEOREM PowerTypeCorrect == Spec => []TypeOK
<1>1. PowerInv => TypeOK
  BY DEF PowerInv
<1> QED
  BY <1>1, PowerInvariant, PTL

(* In every reachable state a second look at the telemetry changes nothing. *)
THEOREM TelemetrySettles == Spec => []RefreshSettles
<1>1. PowerInv => RefreshSettles
  BY Settles DEF PowerInv
<1> QED
  BY <1>1, PowerInvariant, PTL

-----------------------------------------------------------------------------
(* A refresh that leaves low power for nominal has seen the recovery charge.*)
LEMMA RefreshLeavesLowPower ==
  ASSUME PowerInv, NEW e \in EpsState, NEW p, Become(Refreshed(e, p)),
         UNCHANGED <<over, faults>>, e.mode = "low_power", eps'.mode = "nominal"
  PROVE  Charge(eps)' >= Recovery \/ over["power_mode"] = "nominal"
<1>1. eps'.mode = PowerMode(e) /\ eps'.battery = e.battery
  BY DEF Become, Refreshed
<1>2. Charge(eps)' = Charge(e)
  BY <1>1 DEF Charge, Resolve, MaxCharge
<1>3. Charge(e) \in Nat /\ Recovery \in Nat /\ OverridesTyped
  BY EffectiveTypes, PowerAssumption DEF PowerInv, TypeOK, OverridesTyped
<1>4. CASE over["power_mode"] = None
  BY <1>1, <1>2, <1>3, <1>4 DEF PowerMode, Resolve, AutomaticMode, StaysLow
<1>5. CASE over["power_mode"] # None
  BY <1>1, <1>5 DEF PowerMode, Resolve
<1> QED
  BY <1>4, <1>5

(* The states the EPS refreshes from: a command or a tick changes one field *)
(* of the EPS, and never its mode.                                          *)
LEMMA RefreshedFrom ==
  ASSUME PowerInv, EpsCommand \/ EpsTick \/ EpsTelemetry
  PROVE  /\ UNCHANGED <<over, faults>>
         /\ \E e \in EpsState : \E p :
              e.mode = eps.mode /\ p.data = payload.data /\ Become(Refreshed(e, p))
<1>1. eps \in EpsState /\ OverridesTyped
  BY DEF PowerInv, TypeOK, OverridesTyped
<1>2. ASSUME NEW on \in BOOLEAN, SetPayloadRailEnabled(on)
      PROVE  \E e \in EpsState : \E p :
               e.mode = eps.mode /\ p.data = payload.data /\ Become(Refreshed(e, p))
  <2>1. [eps EXCEPT !.railCommanded = on] \in EpsState
        /\ [eps EXCEPT !.railCommanded = on].mode = eps.mode
    BY <1>1 DEF EpsState
  <2> QED
    BY <1>2, <2>1 DEF SetPayloadRailEnabled
<1>3. ASSUME NEW mode \in Mode, SetPowerMode(mode)
      PROVE  \E e \in EpsState : \E p :
               e.mode = eps.mode /\ p.data = payload.data /\ Become(Refreshed(e, p))
  <2>1. [eps EXCEPT !.commanded = mode] \in EpsState
        /\ [eps EXCEPT !.commanded = mode].mode = eps.mode
    BY <1>1 DEF EpsState
  <2> QED
    BY <1>3, <2>1 DEF SetPowerMode
<1>4. CASE EpsTelemetry
  BY <1>1, <1>4 DEF EpsTelemetry
<1>5. CASE EpsTick
  <2> DEFINE ticked == [eps EXCEPT !.battery = TickedCharge]
             synced == SyncPayload(payload, RailEnabled(eps, PowerMode(eps)))
  <2>1. TickedCharge \in 0..Full
    BY TickedRange
  <2>2. ticked \in EpsState /\ ticked.mode = eps.mode
    BY <1>1, <2>1 DEF EpsState
  <2>3. synced.data = payload.data
    BY DEF SyncPayload
  <2>4. Become(Refreshed(ticked, synced)) /\ UNCHANGED <<over, faults>>
    BY <1>5 DEF EpsTick
  <2> HIDE DEF ticked, synced
  <2> QED
    BY <2>2, <2>3, <2>4
<1> QED
  BY <1>2, <1>3, <1>4, <1>5 DEF EpsCommand, EpsTick, EpsTelemetry, SetPayloadRailEnabled, SetPowerMode

(* The hysteresis holds: nominal follows low power only at the recovery     *)
(* charge, under any load, fault or override but one of the mode itself.    *)
THEOREM HysteresisHolds == Spec => NoFlapping
<1> DEFINE Held == eps.mode = "low_power" /\ eps'.mode = "nominal" =>
                     Charge(eps)' >= Recovery \/ over["power_mode"] = "nominal"
<1>1. PowerInv /\ [Next]_vars => [Held]_vars
  <2> SUFFICES ASSUME PowerInv, Next, eps.mode = "low_power", eps'.mode = "nominal"
               PROVE  Charge(eps)' >= Recovery \/ over["power_mode"] = "nominal"
    OBVIOUS
  <2>1. eps' # eps
    OBVIOUS
  <2>2. EpsCommand \/ EpsTick \/ EpsTelemetry
    BY <2>1 DEF Next, PayloadCommand, PayloadTick, FaultRequest, SetOverride, OverridesEnd,
                ActivateFault, ClearFault
  <2>3. PICK e \in EpsState : \E p : e.mode = eps.mode /\ Become(Refreshed(e, p))
    BY <2>2, RefreshedFrom
  <2> QED
    BY <2>2, <2>3, RefreshedFrom, RefreshLeavesLowPower
<1> QED
  BY <1>1, PowerInvariant, PTL DEF Spec, NoFlapping

(* The payload collects data only while it has power, and no command or     *)
(* switch of the rail creates any.                                          *)
THEOREM DataOnlyWithPower == Spec => DataNeedsPower
<1> DEFINE Held == payload'.data > payload.data => Powered(payload)
<1>1. PowerInv /\ [Next]_vars => [Held]_vars
  <2> SUFFICES ASSUME PowerInv, Next, payload'.data > payload.data
               PROVE  Powered(payload)
    OBVIOUS
  <2>1. payload \in PayloadState /\ payload.data \in 0..MaxData /\ MaxData \in Nat
        /\ OneShot \in Nat
    BY PowerAssumption DEF PowerInv, TypeOK, PayloadState
  <2>2. payload'.data # payload.data
    BY <2>1
  <2>3. CASE EpsCommand \/ EpsTick \/ EpsTelemetry
    <3>1. PICK e \in EpsState : \E p : p.data = payload.data /\ Become(Refreshed(e, p))
      BY <2>3, RefreshedFrom
    <3>2. payload'.data = payload.data
      BY <3>1 DEF Become, Refreshed, SyncPayload
    <3> QED
      BY <2>2, <3>2
  <2>4. CASE \E c \in PayloadCommands : PayloadCommand(c)
    <3>1. ASSUME payload' \in {[payload EXCEPT !.on = TRUE],
                               [payload EXCEPT !.on = FALSE, !.capture = FALSE],
                               [payload EXCEPT !.capture = TRUE],
                               [payload EXCEPT !.capture = FALSE]}
          PROVE  payload'.data = payload.data
      BY <2>1, <3>1 DEF PayloadState
    <3>2. ASSUME NEW v \in Int, v <= payload.data,
                 payload' = [payload EXCEPT !.data = Clamp(v, MaxData)]
          PROVE  ~(payload'.data > payload.data)
      <4>1. payload'.data = Clamp(v, MaxData)
        BY <2>1, <3>2 DEF PayloadState
      <4> QED
        BY <2>1, <3>2, <4>1 DEF Clamp, Min2
    <3>3. payload' = [payload EXCEPT !.data = Clamp(@ - OneShot, MaxData)] => Powered(payload)
      <4>1. payload.data - OneShot \in Int /\ payload.data - OneShot <= payload.data
        BY <2>1
      <4> QED
        BY <3>2, <4>1
    <3>4. payload' = [payload EXCEPT !.data = 0] => Powered(payload)
      BY <2>1 DEF PayloadState
    <3>5. payload' = Increased(payload, OneShot) => Powered(payload)
      BY <2>2 DEF Increased
    <3> QED
      BY <2>2, <2>4, <3>1, <3>3, <3>4, <3>5 DEF PayloadCommand
  <2>5. CASE PayloadTick
    BY <2>2, <2>5 DEF PayloadTick, Increased
  <2>6. CASE FaultRequest
    BY <2>2, <2>6 DEF FaultRequest, SetOverride, OverridesEnd, ActivateFault, ClearFault
  <2> QED
    BY <2>3, <2>4, <2>5, <2>6 DEF Next
<1> QED
  BY <1>1, PowerInvariant, PTL DEF Spec, DataNeedsPower
=============================================================================
