------------------------------- MODULE Testbed ------------------------------
(***************************************************************************)
(* One scenario against the whole testbed: scenario/runner.py over the     *)
(* event engine, the bus, the fault registry, an OBC peer, and the EPS and *)
(* payload of PowerSystem.                                                 *)
(*                                                                         *)
(* Everything runs in one thread, by nested calls.  `todo' is the rest of  *)
(* those calls: the task at its head runs next and may push the calls it   *)
(* makes.  The queue of the engine is kept in dispatch order               *)
(* (DispatchIsOrdered), an event with the tasks of its handlers.  Packets  *)
(* arrive whole (CspCfp), overrides act while their latest request lives   *)
(* (LookupsAreCurrent), and a rule whose condition matches may fire        *)
(* (ObcRules says when).  The clock is virtual; the paced wait is left out.*)
(***************************************************************************)
EXTENDS Integers, Sequences, FiniteSets

CONSTANTS
  Full, Critical, Low, Recovery, InitialCharge, Solar, BaseLoad, StandbyDraw,
  ActiveDraw, DeadCellDivisor, ShedInSafe, ShedInLowPower, DataRate, OneShot,
  MaxData, Override, None, MaxFaults,       (* of PowerSystem                *)
  Step,              (* _PHYSICAL_STEP_US                                   *)
  Limit,             (* values of max_settle_events                         *)
  TelemetryOrder,    (* the nodes, in the order of their telemetry routes   *)
  Signals,           (* the configured telemetry fields of each node        *)
  Rules,             (* rules of the OBC: [signal, value, command]          *)
  WaitTime, Timeout, Expected, Command, Span, NamedFault,  (* of scenarios  *)
  MaxSteps           (* bound: steps of a scenario                          *)

IsList(s) == s \in Seq({s[i] : i \in DOMAIN s})

ASSUME TestbedAssumption ==
  /\ Step \in Nat \ {0}
  /\ Limit \subseteq Nat /\ WaitTime \subseteq Nat /\ Timeout \subseteq Nat
  /\ IsList(TelemetryOrder) /\ IsList(Rules)
  /\ None \notin {"settle", "wait"}
  /\ \A node \in DOMAIN Signals :
       /\ IsList(Signals[node])
       /\ \E i \in DOMAIN TelemetryOrder : TelemetryOrder[i] = node

VARIABLES
  now, agenda,       (* the engine: virtual time, waiting events            *)
  bus,               (* envelopes sent and not drained                      *)
  todo, failed,      (* the calls in progress; what raised, or None         *)
  maxSettle,         (* _max_settle_events                                  *)
  cycle, request,    (* the registry: cycle, latest request of each field   *)
  eps, payload, faults,
  latest,            (* _latest_telemetry                                   *)
  verdict,           (* the last assertion result, or None                  *)
  steps,             (* scenario steps begun                                *)
  ticks,             (* history: ticks of the EPS                           *)
  touched,           (* history: a module was told something since its tick *)
  held               (* history: the condition of the assertion held in the *)
                     (* cache at the end of some instant it waited through  *)

engine == <<now, agenda>>
registry == <<cycle, request>>
modules == <<eps, payload, faults>>
script == <<verdict, steps, held>>
history == <<ticks, touched>>
vars == <<engine, bus, todo, failed, maxSettle, registry, modules, latest, script, history>>

Signal == UNION {{Signals[node][i] : i \in DOMAIN Signals[node]} : node \in DOMAIN Signals}

(* ActiveOverride.is_expired                                                *)
Lives(r) ==
  /\ r # None
  /\ r.until = None \/ now < r.until
  /\ r.lastCycle = None \/ cycle < r.lastCycle

Field == {"battery_percent", "power_mode", "payload_rail_enabled",
          "powered", "capture_enabled"}

Over == [f \in Field |-> IF Lives(request[f]) THEN request[f].value ELSE None]

Power == INSTANCE PowerSystem WITH over <- Over

(* What a module reports in telemetry.                                      *)
Report(signal) ==
  CASE signal = "battery_percent" -> Power!Charge(eps)
    [] signal = "power_mode" -> Power!PowerMode(eps)
    [] signal = "load" -> eps.load
    [] signal = "powered" -> Power!Powered(payload)
    [] signal = "capture_enabled" -> Power!Capturing(payload)
    [] signal = "data" -> payload.data

-----------------------------------------------------------------------------
(* Tasks.                                                                   *)

(* run_until(target, max_events=max_settle_events)                          *)
RunUntil(target) == <<"until", target, maxSettle>>

(* _run_current_events                                                      *)
Settle == <<<<"settle", maxSettle>>>>

(* Mutant: the frames wait for somebody else's drain.                       *)
Emission_Unsettled == [i \in DOMAIN TelemetryOrder |-> <<"emit", TelemetryOrder[i]>>]

(* _emit_configured_telemetry                                               *)
Emission == [i \in DOMAIN TelemetryOrder |-> <<"emit", TelemetryOrder[i]>>] \o Settle

(* _tick_modules, in build order                                            *)
Ticks == <<<<"tick", "payload">>, <<"tick", "eps">>>>

(* Mutant: telemetry leaves before the modules are ticked.                  *)
PhysicalStep_EmitFirst == Settle \o <<<<"cycles">>>> \o Emission \o Ticks \o <<<<"arm">>>>

(* _on_step                                                                 *)
PhysicalStep == Settle \o <<<<"cycles">>>> \o Ticks \o Emission \o <<<<"arm">>>>

(* Mutant: an empty wait drives the modules as well.                        *)
Wait_Ticks(d) ==
  IF d = 0 THEN Settle \o Ticks \o Emission
  ELSE <<RunUntil(now + d), <<"reached", now + d, d>>>> \o Settle

Wait(d) ==
  IF d = 0 THEN Settle \o Emission
  ELSE <<RunUntil(now + d), <<"reached", now + d, d>>>> \o Settle

(* Handlers of a telemetry event: the OBC peer attached before the recorder.*)
OnTelemetry(signal, value) ==
  [i \in DOMAIN Rules |-> <<"rule", Rules[i], signal, value>>] \o <<<<"record", signal, value>>>>

-----------------------------------------------------------------------------
DueBy(t) == agenda # <<>> /\ Head(agenda).time <= t

(* An event more, behind those of its instant.                              *)
ScheduleAt(t, handlers) ==
  \E k \in 0..Len(agenda) :
    /\ \A i \in DOMAIN agenda : i <= k <=> agenda[i].time <= t
    /\ agenda' = [i \in 1..(Len(agenda) + 1) |->
                    IF i <= k THEN agenda[i]
                    ELSE IF i = k + 1 THEN [time |-> t, handlers |-> handlers]
                    ELSE agenda[i - 1]]

Schedule(handlers) == ScheduleAt(now, handlers)

Doing(name) == todo # <<>> /\ failed = None /\ Head(todo)[1] = name

Arg == Head(todo)[2]

(* The task at the head is over; what it calls comes before the rest.       *)
Call(tasks) == todo' = tasks \o Tail(todo) /\ UNCHANGED <<failed, maxSettle>>

Raise(what) == failed' = what /\ UNCHANGED <<todo, maxSettle>>

Init ==
  /\ maxSettle \in Limit
  /\ now = 0 /\ agenda = <<[time |-> Step, handlers |-> PhysicalStep]>>
  /\ bus = <<>> /\ todo = <<>> /\ failed = None
  /\ cycle = 0 /\ request = [f \in Field |-> None]
  /\ latest = [s \in Signal |-> None]
  /\ verdict = None /\ steps = 0 /\ ticks = 0
  /\ touched = TRUE /\ held = FALSE
  /\ Power!Init

-----------------------------------------------------------------------------
(* _run_current_events: rounds of dispatching and draining until neither    *)
(* finds anything.                                                          *)
Idle == ~DueBy(now) /\ bus = <<>>

SettleRound ==
  /\ Doing("settle")
  /\ Arg > 0
  /\ Call(IF Idle THEN <<>> ELSE <<RunUntil(now), <<"drain">>, <<"settle", Arg - 1>>>>)
  /\ UNCHANGED <<engine, bus, registry, modules, latest, script, history>>

SettleGivesUp ==
  /\ Doing("settle")
  /\ Arg = 0
  /\ Raise("settle")
  /\ UNCHANGED <<engine, bus, registry, modules, latest, script, history>>

(* Time moves to t.  Overrides may end by it, unseen by the modules; the    *)
(* instant left behind has its final cache.                                 *)
Holds(x) == latest[x[1]] = x[2]

MoveTo(t) ==
  /\ now' = t
  /\ UNCHANGED <<registry, modules, latest, verdict, steps, ticks>>
  /\ touched' = (touched \/ Over' # Over)
  /\ held' = (held \/ (t > now /\ \E i \in DOMAIN todo :
                         todo[i][1] = "check" /\ Holds(todo[i][2])))

(* run_until: an event that is due ...                                      *)
Dispatch ==
  /\ Doing("until")
  /\ DueBy(Arg) /\ Head(todo)[3] > 0
  /\ agenda' = Tail(agenda)
  /\ Call(Head(agenda).handlers \o <<<<"until", Arg, Head(todo)[3] - 1>>>>)
  /\ UNCHANGED bus
  /\ MoveTo(Head(agenda).time)

(* ... none left ...                                                        *)
JumpToTarget ==
  /\ Doing("until")
  /\ ~DueBy(Arg)
  /\ Call(<<>>)
  /\ UNCHANGED <<agenda, bus>>
  /\ MoveTo(Arg)

(* ... or the limit of events met.                                          *)
StopByLimit ==
  /\ Doing("until")
  /\ DueBy(Arg) /\ Head(todo)[3] = 0
  /\ Call(<<>>)
  /\ UNCHANGED <<engine, bus, registry, modules, latest, script, history>>

Reached ==
  /\ Doing("reached")
  /\ IF now < Arg THEN Raise("wait") ELSE Call(<<>>)
  /\ UNCHANGED <<engine, bus, registry, modules, latest, script, history>>

(* Mutant: one envelope per round.                                          *)
Drained_One == SubSeq(bus, 1, IF bus = <<>> THEN 0 ELSE 1)

(* drain() takes everything queued before the first delivery.               *)
Drained == bus

Drain ==
  /\ Doing("drain")
  /\ Call(Drained)
  /\ bus' = SubSeq(bus, Len(Drained) + 1, Len(bus))
  /\ UNCHANGED <<engine, registry, modules, latest, script, history>>

(* _deliver_command                                                         *)
DeliverCommand ==
  /\ Doing("command")
  /\ Call(<<>>)
  /\ touched' = TRUE
  /\ UNCHANGED <<engine, bus, registry, latest, script, ticks>>
  /\ LET c == Arg
     IN  \/ c[1] = "payload" /\ Power!PayloadCommand(c[2])
         \/ c[1] = "rail" /\ Power!SetPayloadRailEnabled(c[2])
         \/ c[1] = "mode" /\ Power!SetPowerMode(c[2])

(* _deliver_telemetry                                                       *)
DeliverTelemetry ==
  /\ Doing("telemetry")
  /\ Call(<<>>)
  /\ Schedule(OnTelemetry(Arg, Head(todo)[3]))
  /\ UNCHANGED <<now, bus, registry, modules, latest, script, history>>

(* A rule of the OBC fires, or its condition, holding time or cooldown keeps*)
(* it from firing.                                                          *)
ObcRule ==
  /\ Doing("rule")
  /\ Call(<<>>)
  /\ \/ /\ Arg.signal = Head(todo)[3] /\ Arg.value = Head(todo)[4]
        /\ bus' = Append(bus, <<"command", Arg.command>>)
     \/ UNCHANGED bus
  /\ UNCHANGED <<engine, registry, modules, latest, script, history>>

RecordTelemetry ==
  /\ Doing("record")
  /\ Call(<<>>)
  /\ latest' = [latest EXCEPT ![Arg] = Head(todo)[3]]
  /\ UNCHANGED <<engine, bus, registry, modules, script, history>>

-----------------------------------------------------------------------------
(* The physical step.                                                       *)
AdvanceCycles ==
  /\ Doing("cycles")
  /\ Call(<<>>)
  /\ cycle' = cycle + 1
  /\ touched' = FALSE
  /\ UNCHANGED <<engine, bus, request, modules, latest, script, ticks>>

TickModule ==
  /\ Doing("tick")
  /\ Call(<<>>)
  /\ UNCHANGED <<engine, bus, registry, latest, script, touched>>
  /\ \/ /\ Arg = "payload"
        /\ Power!PayloadTick \/ (~Power!Capturing(payload) /\ UNCHANGED modules)
        /\ UNCHANGED ticks
     \/ /\ Arg = "eps"
        /\ Power!EpsTick
        /\ ticks' = ticks + 1

(* A node samples its telemetry and sends a packet for each field.          *)
EmitTelemetry ==
  /\ Doing("emit")
  /\ Call(<<>>)
  /\ UNCHANGED <<engine, registry, latest, script, history>>
  /\ \E node \in DOMAIN Signals :
       /\ node = Arg
       /\ IF node = "eps" THEN Power!EpsTelemetry ELSE UNCHANGED modules
       /\ bus' = bus \o [i \in DOMAIN Signals[node] |->
                           <<"telemetry", Signals[node][i], Report(Signals[node][i])'>>]

NextStepAt == now + Step

ArmPhysicalStep ==
  /\ Doing("arm")
  /\ Call(<<>>)
  /\ ScheduleAt(NextStepAt, PhysicalStep)
  /\ UNCHANGED <<now, bus, registry, modules, latest, script, history>>

-----------------------------------------------------------------------------
(* Tasks of the handlers of scenario events.                                *)
SendCommandFrame ==
  /\ Doing("send")
  /\ Call(<<>>)
  /\ bus' = Append(bus, <<"command", Arg>>)
  /\ UNCHANGED <<engine, registry, modules, latest, script, history>>

Boundary(start, length) == IF length = None THEN None ELSE start + length

ApplyOverride ==
  /\ Doing("override")
  /\ Call(<<>>)
  /\ LET span == Head(todo)[3]
     IN  request' = [request EXCEPT ![Arg[1]] =
           [value |-> Arg[2], until |-> Boundary(now, span.duration),
            lastCycle |-> Boundary(cycle, span.cycles)]]
  /\ touched' = TRUE
  /\ UNCHANGED <<engine, bus, cycle, modules, latest, script, ticks>>

ApplyNamedFault ==
  /\ Doing("named_fault")
  /\ Call(<<>>)
  /\ faults' = IF Head(todo)[3] THEN faults \cup {Arg} ELSE faults \ {Arg}
  /\ touched' = TRUE
  /\ UNCHANGED <<engine, bus, registry, eps, payload, latest, script, ticks>>

(* assert_step: its loop, from one reading of the cache to the next.        *)
(* Mutant: a deadline that has to be passed.                                *)
TimedOut_Strict(deadline) == now > deadline

TimedOut(deadline) == now >= deadline

(* Mutant: what happens on the way is not looked at.                        *)
NextStop_Deadline(deadline) == deadline

NextStop(deadline) ==
  IF DueBy(deadline) THEN Head(agenda).time ELSE deadline

CheckAgain ==
  /\ Doing("check")
  /\ ~Holds(Arg) /\ ~TimedOut(Head(todo)[3])
  /\ Call(Wait(NextStop(Head(todo)[3]) - now) \o <<Head(todo)>>)
  /\ UNCHANGED <<engine, bus, registry, modules, latest, script, history>>

Conclude ==
  /\ Doing("check")
  /\ Holds(Arg) \/ TimedOut(Head(todo)[3])
  /\ verdict' = [passed |-> Holds(Arg), expected |-> Arg, at |-> now,
                 deadline |-> Head(todo)[3]]
  /\ Schedule(<<>>)
  /\ Call(Settle)
  /\ UNCHANGED <<now, bus, registry, modules, latest, steps, held, history>>

-----------------------------------------------------------------------------
(* The steps of a scenario.                                                 *)
Between == todo = <<>> /\ failed = None

Begin(tasks) ==
  /\ Between
  /\ steps < MaxSteps
  /\ steps' = steps + 1
  /\ todo' = tasks
  /\ UNCHANGED <<now, bus, failed, maxSettle, registry, modules, latest, history>>

WaitStep ==
  \E d \in WaitTime : Begin(Wait(d)) /\ UNCHANGED <<agenda, verdict, held>>

Inject(handlers) ==
  Begin(Settle \o Emission) /\ Schedule(handlers) /\ UNCHANGED <<verdict, held>>

InjectFaultStep ==
  \/ \E o \in Override, span \in Span : Inject(<<<<"override", o, span>>>>)
  \/ \E f \in NamedFault, on \in BOOLEAN : Inject(<<<<"named_fault", f, on>>>>)

SendCommandStep == \E c \in Command : Inject(<<<<"send", c>>>>)

AssertStep ==
  \E x \in Expected, timeout \in Timeout :
    /\ Begin(<<<<"check", x, now + timeout>>>>)
    /\ verdict' = None /\ held' = FALSE
    /\ UNCHANGED agenda

Run ==
  \/ SettleRound \/ SettleGivesUp \/ Dispatch \/ JumpToTarget \/ StopByLimit \/ Reached
  \/ Drain \/ DeliverCommand \/ DeliverTelemetry \/ ObcRule \/ RecordTelemetry
  \/ AdvanceCycles \/ TickModule \/ EmitTelemetry \/ ArmPhysicalStep
  \/ SendCommandFrame \/ ApplyOverride \/ ApplyNamedFault \/ CheckAgain \/ Conclude

Next == WaitStep \/ InjectFaultStep \/ SendCommandStep \/ AssertStep \/ Run

Spec == Init /\ [][Next]_vars

(* The calls in progress go on: one thread that nothing blocks.             *)
FairSpec == Spec /\ WF_vars(Run)

-----------------------------------------------------------------------------
(* A scenario step returns only when the testbed is at rest: nothing is on  *)
(* the bus and no event of this instant or an earlier one waits.            *)
SettledBetweenSteps == Between => Idle

(* The modules are ticked and the fault cycles counted once per second of   *)
(* virtual time, whatever waits, assertions and injections the scenario     *)
(* mixes ("once per virtual second", docs/v1-scope.md), and a step is armed.*)
OncePerSecond ==
  Between => /\ cycle = now \div Step /\ ticks = cycle
             /\ Cardinality({i \in DOMAIN agenda : agenda[i].handlers = PhysicalStep}) = 1

(* Between steps the telemetry cache shows the modules as they are, unless  *)
(* a command, a fault or the end of an override reached them since their    *)
(* last tick: the one-step delay of docs/v1-scope.md is the only one.       *)
CacheIsCurrent ==
  Between /\ ~touched => \A s \in Signal : latest[s] = Report(s)

(* An assertion passes on a cached value and within its timeout; it fails   *)
(* at its deadline exactly, and only if its condition held at the end of no *)
(* instant of the window.                                                   *)
VerdictsHonest ==
  verdict # None =>
    /\ verdict.at <= verdict.deadline
    /\ verdict.passed \/ (verdict.at = verdict.deadline /\ ~held)

(* The telemetry of one emission, counted node by node, stays within any    *)
(* limit of three rounds or more: fewer packets than a settle may dispatch  *)
(* events (a premise of FeedbackDies).                                      *)
Counts(f) ==
  /\ f[0] = 0
  /\ \A i \in DOMAIN TelemetryOrder : f[i] = f[i - 1] + Len(Signals[TelemetryOrder[i]])

ReportsFit ==
  \A l \in Limit : l >= 3 => \E f \in [0..Len(TelemetryOrder) -> 0..l] : Counts(f)

(* Three rounds of _run_current_events see any telemetry, rules and commands*)
(* of one instant through, and a wait of no more steps than the limit does  *)
(* not run into it.                                                         *)
FeedbackDies ==
  /\ failed = "settle" => maxSettle < 3
  /\ failed = "wait" => Head(todo)[3] > maxSettle * Step

(* Every step of a scenario returns or raises.                              *)
StepsReturn == todo # <<>> ~> (todo = <<>> \/ failed # None)
=============================================================================
