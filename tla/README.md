# CubeSat testbed: TLA+ models

`cubesat_testbed` runs scenarios against a small satellite made of simulated and
real nodes: an EPS, a payload, a thermal node and an on-board computer exchange
CSP packets over a bus, faults are injected, and assertions judge the telemetry
that crosses the bus. A run has to be deterministic and its verdicts have to be
right, so what matters is order: of events at one virtual instant, of ticks,
samples and reactions, of frames of several senders, of overrides that run out.

This directory models those parts in TLA+, checks them with TLC on small
instances, and proves the main results for all sizes with TLAPS. Paths below are
relative to `src/cubesat_testbed/`.

    tlc -config MCTestbed.cfg MCTestbed        # any MC module and one of its configurations
    tlapm EngineAndFaultProofs.tla             # any *Proofs module

## The system

| Component | State | Operations | Hard because |
|---|---|---|---|
| Event engine (`engine.py`) | virtual time, heap of events, handlers by kind | schedule, run_until / run_until_idle / run_next, advance_to, add/remove handlers | handlers re-enter the engine inside a running loop, raise, or hit `max_events` |
| Fault injection (`fault_injection.py`) | overrides with two kinds of expiry, named-fault flags, cycle counter | set, look up, clear, advance cycles, attach | expiry is lazy, by two clocks at once |
| CSP over CAN (`protocol/csp_v2.py`) | packet counter per sender, partial packets per receiver | fragment, feed, expire | a lossy bus interleaves senders; counters are 2 and 3 bits wide |
| CSP packets and KISS framing (`protocol/csp_v2_packet.py`, `csp_v2_kiss.py`) | receive state machine of a serial line | encode, feed | lost delimiters, resynchronisation |
| Signal and telemetry codecs (`protocol/*_codec.py`) | none | encode, decode | bit placement, ranges, rounding: what is decoded is not what was encoded |
| OBC peer (`modules/obc_peer.py`) | per rule: since when its condition holds, when it last fired | observe telemetry, act, reset timing | holding times and cooldowns over many samples; an action that fails keeps later rules from seeing the sample |
| EPS and payload (`modules/eps.py`, `payload.py`) | charge, mode, rail; power, capture, data | commands, tick, telemetry | each reads the other's derived state; overrides change values behind them |
| Thermal node (`modules/thermal.py`) | temperature, heater | commands, tick, telemetry | integration step stability |
| Scenario runner (`scenario/runner.py`) | telemetry cache, verdicts, senders, reassemblers, drops | wait, inject fault, send command, assert | one physical step runs inside the engine loop of a wait and drives everything else |
| Transports (`transport/`) | queues of endpoints and of the runner, sequence numbers, sockets, a serial line | connect, send, receive, drain, clear, disconnect; tracing | each gives back something else of what is sent; blocking receive against virtual time |
| Clock (`clock.py`) | a wall-clock origin | seconds_until | pacing against real time |
| Registry (`modules/registry.py`) | module types of the process | register, replace, unregister, build | may change between loading a setup and building it; build order decides who finds whom |
| Configuration, DUT manager (`config/parser.py`, `dut/manager.py`) | none at run time | validate a setup, validate a scenario against it, tell simulated nodes from external ones | what validation lets through has to work when it runs, without a second check |
| Command line (`main.py`) | none | | |

How they interact: start-up loads a setup with the registered module types,
builds the simulated nodes in build order, and derives one route per configured
command and signal. Then the runner schedules scenario events on the engine and runs
it; handlers of those events change the fault registry or send packets; the
runner drains the bus, routes packets to modules (commands) or back onto the
engine (telemetry); telemetry events reach the OBC peer first and the runner's
cache second; rules put commands on the bus. Modules read every value through
the fault registry and learn of an override or fault only when they next look. A
timer that re-arms itself is the physical step: settle, count a cycle, tick the
modules in build order, sample and send telemetry, settle.

What makes each component correct is stated as the properties listed with the
runs below.

## Modules

    PacketChannel  <--implements--  CspCfp
    PacketChannel  <--implements--  PacedWait    (EXTENDS KissLink)
    SignalCodec    <--EXTENDS-----  ThermalLoop
    PowerSystem    <--INSTANCE----  Testbed      (with DiscreteEventEngine,
                                                  FaultInjection, ObcRules and CspCfp
                                                  in the simplified form their
                                                  results justify)
    Setup          <--EXTENDS-----  Startup
    PacketChannel  <--implements--  Routing      (EXTENDS Startup, TransportAdapter)
    EngineAndFaultProofs, ObcRulesProofs, PowerSystemProofs, ThermalLoopProofs,
    PacedWaitProofs, RoutingProofs, TestbedProofs, CspCfpProofs

**DiscreteEventEngine** models `engine.py`. Python's call stack is part of the
state: `frames` holds one record per engine loop in progress, with its horizon,
its remaining `max_events`, the event being dispatched and the snapshot of
handlers still to be called. Whatever user code may do (schedule, add or remove
handlers, enter the engine, raise) is enabled whenever user code has control.
The heap is a set ordered by `Precedes`. `HandlerStep` is the re-entry the
testbed really makes: `_run_current_events` with the horizon `now`. The engine
itself would also accept a later horizon from a handler; the outer loop would
then set time back to its own horizon (`engine.py:440`). No code under `src/`
does this, so the model does not either, and TimeNeverBackward holds under this
restriction only.

**FaultInjection** models `fault_injection.py`: two dictionaries of overrides
(`Slot`), each entry with an expiry time, an expiry cycle, both or neither,
cleaned by `clear_expired` from within every lookup. The history variable
`requested` is never cleaned by time; the properties compare the two.

**PacketChannel** is what fragmentation promises: packets are delivered whole,
at most once, and in order per route, or not at all. **CspCfp** models
`fragment`, `feed` (one action per way a frame can go) and `expire`, the runner's
drop records and the end of a run. A byte is the identity of the chunk it came
in; sizes, limits and counters keep their widths. Frames a node sends are unread
by others in the order it sent them; nodes interleave and frames are lost freely.

**ObcRules** models `observe_telemetry`: one action per sample, with the rule
whose action raises, if any, as a parameter, and `reset_rule_timing`. The
history `log` says who saw which sample and who fired.

**PowerSystem** models `eps.py` and `payload.py` with the faults and overrides
they read. Every handler ends with `_refresh_derived_state` (`Refreshed`), which
recomputes the mode from the mode kept, switches the payload's rail and reads its
draw back. Charge is counted in integer levels; voltage, signal overrides and
wrong arguments of commands are left out.

**Testbed** is one scenario against everything. `todo` is the rest of the calls
in progress: the task at its head runs next and pushes the calls it makes, so
the nesting of the Python code (wait, `run_until`, `_on_step`,
`_run_current_events`, drain, delivery) is explicit and every method is one
action or a short list of tasks. The engine's queue is a sequence in dispatch
order, which DispatchIsOrdered allows; an override acts while its latest request
lives, which LookupsAreCurrent allows; packets arrive whole, see CspCfp; a rule
whose condition matches may or may not fire, see ObcRules. EPS and payload are
the actions of PowerSystem. `max_settle_events` is a variable chosen at the
start. Time is virtual here; see PacedWait for hardware runs.

**KissLink** models a serial line: the frames a peer writes (`encode_kiss_frame`),
a line that loses and garbles bytes, the decoder of `csp_v2_kiss.py` with its
three modes and four drop reasons, and the queue behind `KissAdapter.receive`. A
byte is its kind (the four KISS codes, a header byte with the fragment flag,
anything else) and where it comes from; a CRC recognises whatever is not as it
was sent in the bytes it covers. It offers actions and no specification.
**PacedWait** is the composition with `_wait_paced` and `RealTimeClock`: a wall
clock, virtual time, the blocking receive in its two reads, and the physical
step. As an alternative to the line, the transport is a bus whose receive
returns one frame or times out, as SocketCAN's does; that SocketCAN raises on error
frames, remote frames and CAN FD (`socketcan.py:222-230`), which ends the run, is left
out. The round limit inside
`_run_current_events` is left out here (FeedbackDies, below, is about it).

**SignalCodec** is the wire format of telemetry as operators: integer ranges,
byte order, signs, scale and offset, enum labels, what is refused, and what is
rounded. A number is an integer count of parts, One to the unit. The code's numbers
are binary64, and `struct.pack` makes binary32 of a 4-byte float; with 2^1074
parts to the unit both are sets of integers, the m * 2^k * least with m below a
precision. Both formats are constants (Double, Single), so that the instance checked has
short numbers and the theorems are about all sizes. Each operation of the code
on floats rounds to the nearest number, ties to even (Plus, Times, Over, Rounded);
a 4-byte field refuses what rounds beyond Largest; an integer field takes what is
whole but for Tolerance (`abs_tol=1e-9`) and rounds it (Nearest). Left out: numbers that
overflow binary64 on their way, and NaN, which the code refuses.

**ThermalLoop** closes the loop of the packaged example `thermal-heater` over
these operators: a physical step ticks the node, reports through a wire layout, and the
two rules of the OBC answer with heater commands before the step ends. Faults
and overrides change what the node reads. What the OBC compares with its thresholds
is what the wire has rounded. The tick itself rounds to a part, towards zero,
where the code rounds each of its operations to a binary64.

**Setup** is what a setup file means, as operators on a record of transport and
nodes: what `TestbedConfig` and `NodeConfig` accept across nodes, commands,
telemetry, module types and transport; which nodes are simulated; the command
and telemetry routes; and the four places that resolve against them,
`_route_packet`, the annotator of the trace, `_resolve_command_route` for a
scenario step, and `_validate_command_reference` when the scenario is loaded.
Names are opaque. Value ranges and the syntax of single fields are left out;
"bad" parameters stand for whatever the dataclass of a module refuses.

**Startup** is the state before a run: the registry, which plug-ins and tests may
change, the setup loaded under it, and the modules as `build_runtime` makes them,
one action each. `_build_order` looks every type up first, so a type that
vanished after loading fails the build before a module exists (BuildFails). The
factory of the EPS looks for its payload among the modules built so far.

**TransportAdapter** is where a frame goes on each of the four kinds of transport
(SocketCAN counts twice, with and without `receive_own_messages`): the queue the
runner drains, the endpoint queues, the wire, and back from it; with the sequence
numbers that `send` returns and `receive` assigns. It offers actions and no
specification. Loss and framing are CspCfp's, KissLink's and PacedWait's.

**Routing** composes them to a run in which packets come from everywhere a packet
can come from: scenario steps with or without structured arguments, telemetry of
simulated modules, rules of the OBC, peers, strangers. The runner drains
everything, then deals with the frames in `hand` one action at a time, with one
action for each way a frame can go: collected, dropped over the limit of its
receiver, a command, a command for a node without a module, telemetry that
decodes or does not, no route or too many. An error ends the run in `status`, as
the exception does. Virtual time stands still: what happens between two instants
is Testbed's. `sent`, `outcomes` and `heard` are histories.

MCEngineAndFaults, MCCfp, MCObcRules, MCPower, MCTestbed, MCPacedWait,
MCThermalLoop and MCRouting give constants their values.

## Runs

| Run | Checks | Shows |
|---|---|---|
| engine_and_faults | TypeOK, DispatchOrder, HandlersAtEventTime, NoEventLost, TimeNeverBackward, LookupAnswersRequest | events are dispatched in (time, sequence) order over the whole run, none waits in the past, none is lost or dispatched twice, and a handler reads its event's time, with loops nested three deep, limits and exceptions; that overrides are cleaned up late cannot be observed. The two machines share nothing: each runs while the other rests |
| cfp_channel | TypeOK, ImplementsChannel | CFP2 implements the channel: no packet is delivered with a hole, twice or out of order |
| cfp_accounting | NoSilentLoss, DeliveredInStep | every frame is accounted for, also with two senders on one address, malformed packets and a small receiver, and a packet that has timed out when the run ends is reported; a delivery is in step with all counters |
| obc_rules | FiresExactlyWhenDue | rules fire exactly when the samples they saw say so |
| power | TypeOK, RefreshSettles, NoFlapping, DeadBusRecovers | telemetry is repeatable, the mode does not flap in its hysteresis band, a drained bus does not stay off |
| testbed | SettledBetweenSteps, OncePerSecond, CacheIsCurrent, VerdictsHonest, FeedbackDies, StepsReturn | see below |
| paced_wait | TypeOK, DamageContained, LeadBounded, PromptDelivery, ImplementsChannel | on a damaged serial line: packets whole, at most once and in order; damage reaches no further than the next frame; nothing decoded waits while the runner blocks or jumps; virtual time leads the wall clock by at most a step per read that brought no packet; a bus of frames has no such reads (in TypeOK) |
| thermal_loop | WithinResolution, NoRinging, NoChatter, BandHeld, Recovers | an observer sees what was reported to within the roundings on the way, or the step raises; the integration does not ring, also with the radiator degraded; the thermostat holds its band, does not switch on two steps in a row, and gets back into its band after any fault |
| routing | DeliveredAsSent, ArgumentsAreOwn, NothingLostQuietly, TraceTellsTheTruth, ValidatedStepsResolve, EpsFindsPayload, PeersHearOnceInOrder, ImplementsChannel, EverythingSettles | see below |
| cfp_counter, cfp_end, paced_ahead | one statement of the sources each | the code does not keep it |

The testbed run states what a scenario author relies on. A step returns only when the
bus is empty and no event of this instant waits. Modules are ticked and cycles
counted once per virtual second, whatever mix of waits, assertions and
injections drives time. Between steps the cache shows the modules as they are,
unless a command, a fault or the end of an override reached them after their
last tick; the documented one-step delay of reactions is the only one. An
assertion passes within its timeout on a cached value; it fails at its deadline
exactly and only if its condition held at the end of no instant on the way.
Telemetry, rules and commands of one instant die out within three rounds of
`_run_current_events`, and a wait of no more steps than `max_settle_events` never
exceeds it. Every step returns or raises.

The routing run states what the author of a setup relies on, over nineteen setups,
ten of which are refused, one each for a rule of the validation. A packet sent for a
command or a signal is never taken for another, except that a command a node
sends itself hides telemetry on the same ports. A module gets the arguments of
the very step whose packet it is given, though they travel beside the packet
under a sequence number; packets that are dropped, leave on the wire or come from
peers in between do not shift them. No packet disappears as long as no delivery
raises, and nothing that raises hides behind a packet that has been drained with
it. The trace, which resolves packets by code of its own, tells the same story as
the runner. A step that passed the check made at load time resolves to exactly
one route. The EPS finds the first payload of the setup, whatever the file order
and whatever is registered, as long as registrations keep the contract of build
orders (PayloadsFirst; `registry.py` documents it and does not enforce it).
Endpoint queues give each node what the others sent,
once and in order. The transports, all four, implement the same channel as CFP2
and the serial line do. And what is on the bus is dealt with, or the run raises.

### Bounds

Every bound is a constant of its module.

- engine_and_faults: times 0..2, three events, three nested loops, budgets 0 and 1 and no
  budget, one kind and one handler. Two events at one time, an event added at
  the instant being dispatched, and a loop cut short inside another all occur;
  the theorems remove these bounds. For the registry one state and one signal target, times and cycles to 2, spans
  0 and 1: expiry at, before and after its boundary by either clock.
- cfp_channel: three nodes, two senders, three packets of two or nine frames
  (the frame counter wraps at eight), two lost frames, one receiver too small.
  Two frames lost is fewer than the eight in a row the frame counter cannot see, and three
  packets fewer than the five it takes to repeat a key: beyond these limits a packet
  put together from two is possible by design of the protocol (2-bit packet
  counter, 3-bit frame counter, six bits of the sender's address). The theorem
  ChannelImplemented has these limits as premises, FewLosses and SendersApart.
  DeliveredInStep says what still holds then.
- cfp_accounting: two fragmenters of one address start at the same counter, so
  packets sharing a key occur with three packets; two lost frames, times to 2
  around a timeout of 1.
- obc_rules: three rules, two on one signal with overlapping conditions, holding
  times 0, 1, 2, cooldowns 0, 1, 2, four calls over three time units.
- power: seven charge levels with all three thresholds apart and one level inside
  the hysteresis band, two overrides or faults at once. One of the overrides reads
  the battery as empty and leaks into the state of the EPS (a tick stores the
  charge it read): it drains the bus in one step.
- testbed: scenarios of three steps out of all waits (none, two steps, four
  steps), overrides by time and by cycles, a named fault on and off, commands to
  EPS and payload, and assertions with and without a timeout, over both limits 2
  (too small) and 3. Three steps are enough for fault - reaction of a rule -
  assertion, for two requests on one field, and for an override that ends inside
  a wait or inside an assertion.

- paced_wait: three packets of two shapes, one of which the receiver's buffer is
  a byte too small for (the sender's limit is looser), two damaged bytes, reads
  of up to seven bytes; a wait of three units over a physical step of two, three
  rounds. A frame ends inside a read, two packets come with one read, a
  delimiter is lost or made up, all four drop reasons and the round limit occur.
  A byte is garbled into a delimiter or into one that raises the fragment flag:
  a header that turns into another valid one goes unnoticed by design where the
  sender's CRC covers the payload only. Damage hits the byte that is read next; a byte is read when the line has
  decided about it, so this is no restriction.
- thermal_loop: the numbers of the example in quarters of a degree, but for the
  radiator factor (1/8); a 4-byte float, a 2-byte little-endian field with a
  negative scale and an offset, and a plain signed byte; a Double of 11 binary
  digits and a Single of 4, which rounds temperatures about the thresholds, and all
  others more; a Margin of three parts is what that blurs; two faults or overrides
  at once, among them a conductance beyond what the configuration would accept
  and a signal override out of the range of the byte and of Single.

- routing: two packets that nobody inside asked for (steps, rounds of telemetry,
  packets of peers), which cause up to five more by telemetry and rules; two calls
  on endpoint queues; one change of the registry; one-byte chunks, so that packets of
  two bytes have two frames on CAN; structured and raw arguments. The setups contain
  what validation lets through and a run then has to cope with: two commands that
  differ in their payload only or not at all, a command on the ports of telemetry,
  two mappings on the same ports, a field no module reports, a rule for a missing
  command, a limit below what is sent, commands for nodes that take none, a class
  registered under another name. A sample fires one rule at most.

The configurations that disable the deadlock check have bounded behaviours that
end: all packets sent and read, all calls of a log made, a scenario over, a run
that raised.

### Fairness

PowerSystem's FairSpec assumes weak fairness of EpsTick alone: the physical step
re-arms itself in every handling (`runner.py:541`), so the EPS is ticked as long
as time advances. Nothing is assumed of commands or of faults being cleared;
DeadBusRecovers assumes in its premise that nothing is injected any more.
Testbed's FairSpec assumes that the calls in progress go on: one thread, virtual
time, no blocking. The next step of the scenario is not assumed to begin.
ThermalLoop's FairSpec assumes weak fairness of PhysicalStep, as PowerSystem does
of EpsTick: a scenario that goes on waiting. A step that raised disables it.
Routing's Spec assumes weak fairness of dispatching events, draining,
delivering and sending the rest of an emission: one thread that has begun
`_run_current_events` or `_emit_configured_telemetry`. Nothing is assumed of
steps, of new emissions or of peers.

### Where code and documents differ

- `csp_v2.py:445-447` says a node keeps one packet counter and back-to-back
  packets differ in it. A simulated OBC has two: the runner's sender for its
  address (`runner.py:633-641`) and the peer's own (`obc_peer.py:525-529`). Run
  cfp_counter.
- `runner.py:209-212` says a packet lost on the bus never goes unreported, and
  `docs/v1-scope.md:236-237` that nothing is discarded silently. At the end of a
  run only partial packets older than the timeout are reported
  (`runner.py:721-727`); younger ones vanish. Run cfp_end; NoSilentLoss says what
  does hold.
- `runner.py:410-414` says the paced wait jumps once the blocking receive has
  timed out, when the wall clock has caught up. On a serial line a read that
  brings bytes but completes no packet ends the receive early
  (`kiss.py:133-136`), and virtual time runs ahead. Run paced_ahead; LeadBounded
  says by how much.

Met while modelling and not made into runs:

- `main.py:340-343` and `docs/v1-scope.md` say that a SocketCAN setup whose nodes
  are all simulated runs correctly unpaced. With `receive_own_messages` off, the
  default, SocketCAN gives the testbed nothing back of what it sends
  (`socketcan.py:89-111`): telemetry of simulated nodes reaches neither the cache
  nor the rules, and commands between simulated nodes are not delivered. GoesAway
  names these packets. The serial link delivers them locally, and with
  `receive_own_messages` on they come back, but without structured arguments,
  which are kept under the number `send` returned and not under the one `receive`
  assigns (ArgumentsAreOwn has the exception).
- `docs/v1-scope.md` provides for `software` nodes on the in-memory bus, with a
  test standing in for the node, and validation accepts a command to one. But the
  runner drains the command's frame like any other and raises, since it has no
  module for the target (CommandWithoutModule, `runner.py:774`).
- Validation stops short of what a run needs: names of rule commands
  (`obc_peer.py:519-522`) and telemetry fields (`runner.py:568`) are looked up when they
  are first used, two telemetry mappings on the same ports can never be told
  apart, and a command of a node to itself hides telemetry on the same ports. In
  the other direction it is stricter than resolution: a step whose target alone
  tells two commands apart is refused. `run_scenario` as an API does not validate
  references at all.
- `csp_v2.py:22-23` says an incomplete packet is dropped after one second of
  silence, but `feed` expires only when a first frame opens another key, and a
  late continuation is joined (action Continuation).
- `thermal.py` validates the step against the configured conductance only; an
  override of the conductance is not checked and does make the integration ring,
  which NoRinging excludes.
- Endpoint queues of the in-memory bus that nobody reads grow without bound, and
  two EPS modules in one setup switch the same payload.

## Proofs

All theorems are for every value of the constants the modules' named assumptions
allow (EngineAssumption, FaultAssumption, RulesAssumption, PowerAssumption,
ThermalAssumption, CodecAssumption, KissAssumption, PacedAssumption, SetupAssumption,
StartupAssumption, TransportAssumption, RoutingAssumption, CfpAssumption,
TestbedAssumption), and, unless they are about operators of Setup, about the
specifications the runs check. A further premise of a theorem is named in the table.

| Theorem | Says | Along |
|---|---|---|
| EngineTypeCorrect, DispatchIsOrdered, HandlersReadTheirTime, VirtualTimeMonotonic | TypeOK, DispatchOrder, HandlersAtEventTime, TimeNeverBackward | EngineInv |
| EventsAccountedFor | NoEventLost | EngineInv and itself |
| LookupsAreCurrent | LookupAnswersRequest | LazyExpirationUnobservable |
| RulesFireWhenDue | FiresExactlyWhenDue | RulesInv |
| PowerTypeCorrect, TelemetrySettles, HysteresisHolds | TypeOK, RefreshSettles, NoFlapping | PowerInv |
| DataOnlyWithPower | data grow only in a step that finds the payload powered (DataNeedsPower; proved, in no run) | PowerInv |
| IntegrationNeverRings | NoRinging | ThermalInv |
| WireKeepsOrder | of every field and pair of formats: of two numbers the smaller is not decoded as the greater | RoundedMonotone, Nearest's |
| WireIsPrecise | WithinResolution, for an enum with LabelsFit | RoundTrip, CarriedError, LabelRoundTrip, ThermalInv |
| BandIsHeld | BandHeld, for a node that is WellSized and a wire with Discerned | ThermalInv, Obeyed, WireKeepsOrder |
| HeaterRests | NoChatter, for thresholds that are FarApart, a wire with Discerned and an enum with LabelsFit | Answering, Emission, WireKeepsOrder |
| LeadIsBounded | LeadBounded | ClockInv |
| PacketsComeOut | PromptDelivery | itself |
| KissChannel | ImplementsChannel (PacedWait) | LinkInv |
| DamageIsContained | DamageContained, given NoFragments | LinkInv |
| PacedTypeCorrect | TypeOK (PacedWait), given NoFragments | LinkInv, ClockInv, PhaseInv, FramesInv |
| ValidStepResolves, AnnotationIsRoute | in a valid setup a step that passed validation has exactly one route; the annotator of the trace and the runner resolve alike | no invariant |
| NeverMistaken, ArgumentsArrive, EveryPacketAccounted, TraceIsTruthful, StepsResolve | DeliveredAsSent, ArgumentsAreOwn, NothingLostQuietly, TraceTellsTheTruth, ValidatedStepsResolve | RoutingInv, ValidStepResolves, AnnotationIsRoute |
| EpsIsFed | EpsFindsPayload, given PayloadsFirst | BuildInv |
| PeersHearRight | PeersHearOnceInOrder | RoutingInv, HeardInv |
| ChannelKept | ImplementsChannel (Routing) | RoutingInv, HeardInv, OrderInv |
| TestbedInvariant | the invariant the next seven rest on | TestbedInv |
| StepsReturnSettled, AssertionsAreHonest, TickedOncePerSecond | SettledBetweenSteps, VerdictsHonest, OncePerSecond | TestbedInv |
| CacheInvariant | what the next row rests on | TestbedInv, CacheInv |
| CacheShowsModules | CacheIsCurrent | TestbedInv, CacheInv |
| SettleInvariant | what the next row rests on | TestbedInv, SettleInv |
| SettlesAndWaitsEnd | FeedbackDies, given ReportsFit | TestbedInv, SettleInv |
| CfpTypeCorrect, DeliveriesInStep, FramesAccountedFor | TypeOK, DeliveredInStep, NoSilentLoss (CspCfp) | CfpInv |
| ChannelImplemented | ImplementsChannel (CspCfp), given SendersApart and FewLosses | CfpInv, ChannelInv |

*EngineInv.* That dispatched events precede waiting ones is not inductive. An
event scheduled now could sort before one already dispatched unless dispatched
events lie in the past (DoneInPast) and their sequence numbers are given out
(SequencesGivenOut). That time does not run back when a loop ends needs every
loop below the top to stand at `now` and the outermost to have its horizon ahead
(LoopsAtNow), which in turn needs nested loops to have a horizon
(NestedLoopsBounded); HandlersAtEventTime then follows for a handler that waits
while another loop runs inside it.

*LazyExpirationUnobservable* says what makes late cleaning harmless: whatever a
lookup dropped has expired (OnlyExpiredDropped). It is inductive because both
clocks only advance: what has expired stays expired, so an entry dropped can never be
visible again.

*RulesInv* ties the two timers of a rule to the history: `since` is the time of
the first sample of the current run of matching samples (SinceIsStartOfRun),
`last` that of the latest firing that was not reset (LastIsLatestFiring). With
them each new entry of the log is decided rightly.

*PowerInv* is type correctness with the overrides in their types. RefreshSettles
follows from it without further strengthening, but not by calculation: the mode
after a refresh is a fixed point because the hysteresis test, which reads the
mode kept, gives the same answer once it has been stored.

*ThermalInv* says that the node and its overrides are numbers no colder than
absolute zero. The rest is arithmetic. The power a tick leaves has the sign of the one it
found, since the coupling times a change is no more than the power divided
(CoupledChange), and the clamp cannot turn it either, for no environment is
colder than absolute zero. Where a tick leads to is monotonic in the
temperature, rounding included (HeadsMonotonic), so that the band is closed once
its edges are, given *Obeyed*: the heater is commanded as the temperature last
seen asks for. WellSized, the premise about the edges, is checked for the numbers of
the example.

*RoundTrip.* from_bytes undoes to_bytes because after i bytes it holds what
all but the lower n - i bytes of the number come to, modulo 256^i (Taken); the sign then
follows from the range, which is narrower than the span of the bytes. So what
is decoded is the value Carried through scale, offset and roundings, and nothing else. Two
things are shown of it. A rounded number is at most half a Spacing away (RoundedIs), and
these halves add up along the way, scaled like the number (CarriedError): WireIsPrecise, with
Blur as the sum. And rounding keeps order: at one Exponent because Nearest does, and from one to
the next because the power of two between them is a number of both spacings
(RoundedMonotone); subtraction, division, multiplication and addition then keep it, the sign of
the scale turning it twice: WireKeepsOrder. Order is what the thermostat needs:
*Discerned*, which TLC evaluates at four temperatures of each layout, then says of
every temperature more than Margin beyond a threshold that the OBC sees it beyond it.
One case hangs on more than the codec: a
field with neither scale nor offset takes only a Python int, and that an int is a whole
number of units is a fact of the node (IsInt). *LabelsFit*: the enum of
heater_status has both labels, at raw values that its field takes. The
configuration checks neither (`parser.py:286-304` checks that the keys are
integers and the labels distinct); without it the first report raises.
*Answering* is what the thermostat needs: directly after a
rule has switched the heater, the temperature is outside the threshold that asked
for it, or within Margin of it. *FarApart* then says that one step from there does not
reach within Margin of the other, and HeadsMonotonic carries that to every temperature
beyond. MCThermalLoop has TLC evaluate all these premises.

*ClockInv* follows a paced wait through its phases. While the runner polls or
blocks, the wall clock plus the time left to block covers the way to the next
stop; once it may jump, either the blocking read has used that time up or a read
without a packet came back early, and `partial`, which counts those, pays for at
most one step. A wait never runs past the next physical step, so `now` never
gains more than that.

*LinkInv* follows the serial line byte by byte. It gives each unread byte its
place, the j-th byte of frame m, and the places ascend (Lies); a byte lost or
garbled leaves a gap, or a stranger at the first place. FeedOutcome says what one
byte does to the decoder, as one of nine outcomes. On this rest two relations
between the place read next and the decoder:

- *InTurn*: packets decoded so far are of frames before that place, in ascending
  order, and a byte in the buffer belongs to a later one and is not on the line
  any more. The decoder names a packet by its last byte, and that is the last byte
  sent of that packet (the CRC accepts nothing else), so it comes after all
  others: KissChannel, with no premise.
- *Sync*: while a frame is undamaged, the decoder ends it clear, since a
  delimiter closes or opens whatever came before (Tracked). The frame after it then
  finds the decoder clear, and if it is undamaged too the buffer holds what was
  sent, byte for byte (Aligned), until it is decoded or reported.

Sync needs *NoFragments*: peers do not set CSP_FLAG_FRAGMENT, which neither end
supports and for which the decoder drops an otherwise sound packet. The
paced runs check that their packets satisfy it. On a bus of frames nothing is
damaged and a read takes one whole frame that fits, so each read that ends brings
a packet (FramesInv, a part of TypeOK).

`Feed` is a recursive function over the bytes of a read. Recursion derives, from
SetInduction (below), that a function given by such a recursion runs through
its steps; each step is then one of the outcomes.

*RoutingInv* has six parts. RunInv says that a run has an accepted setup
and its endpoints, Typed that what waits anywhere is a packet that was sent, and
that the runner drains only once it has dealt with what it drained before.
ResolutionInv relates the route a packet was sent for, and each outcome, to what
`_route_packet` makes of the packet. Accounted gives every packet sent a
place: a queue, the runner's hand, an outcome, or gone away for a reason that the
transport has. TraceInv and ArgumentsInv tie the trace and the arguments kept by
sequence number to `sent`, on each kind of transport as that transport numbers
its frames. An action changes the state in one of four ways: it leaves the
packets alone, sends one, drains the queue, or takes the first in hand. The parts
are shown to be kept by these four effects, and each action is shown to have one
of them (StepEffects) instead of being argued about once per part.

*BuildInv.* Modules built so far stand in build order before whatever is still to
be built, and an EPS was fed from those before it. PayloadsFirst then puts every
payload before it.

*HeardInv.* What a reader took, and what waits for it, is one sequence: in the
order of sequence numbers, all below the next one to be given out, of packets of
others. A serial line adds that its unread packets come from external nodes,
whose addresses no simulated node has: what the testbed writes itself does not
come back.

*OrderInv.* Packets of one source, counted at their last frame, are in the order
of sending within each of outcomes, the runner's hand, the queue it drains and the
line, and from each of these to the next. What keeps this on a serial link, where
packets from outside reach the queue late and those from inside at once, is that
the two never have a source in common.

*TestbedInv* is about `todo`, the calls in progress. A task is replaced by the
calls it makes, so that `todo'` is some tasks followed by `Tail(todo)`; that the
tasks put in front fit what follows is checked for each task, and nothing has to be
said of the rest of the stack. Only the lowest `run_until` moves time, to
the target of its wait; the physical step goes through its phases (armed,
counting, ticking, arming), and between them the next one is scheduled exactly
once, one second ahead. What `_run_current_events` leaves is a settled bus unless
it raises.

*CacheInv* follows a report from the bus to a delivery task, from there to a
telemetry event of the instant, to a record task, and into the cache. On this way
reports may pass anything else but never each other: what is recorded next
(Front) was sent before what is still to be delivered, which was sent before
what lies on the bus. So of each signal the last report on its way (or, with none on
its way, the cached one) is what the module reports now, unless the
module was touched since it was ticked, or the tick is over and the emission that
follows it has not reached the signal (TicksAhead, Looked). Between steps nothing is on its way. The proof
assumes what `_telemetry_plan_from_routes` (`runner.py:1214-1224`) ensures, that
every node with telemetry fields is in TelemetryOrder.

*SettleInv* says why `_run_current_events` ends. Three rounds are enough for
whatever an instant brings: the first drains the telemetry, the second dispatches
the events that came of it and drains the commands of the rules, and the third
finds nothing, because a command sends nothing. Commands are handed on within the
round that drains them. So the rounds still left are measured against what is
left to do (RoundsLeft), wherever in these calls the run is: at the settle, in its
run_until, in its drain, or between two nodes of an emission. What the events of
an emission cost is counted node by node against the event limit of run_until,
which is where ReportsFit is needed: an emission of more signals than
`max_settle_events` runs into that limit in the middle of a round, each round
dispatches only part of it, and three rounds need not be enough. MCTestbed has TLC evaluate
ReportsFit for its instance; the code's default limit is 10 000 (`runner.py:319`). That an
injection starts with one event waiting, and every other call with none, holds
because the calls that need a settled instant come directly after a settle
(Chained, RestCalm). A wait is counted too: as nothing but the physical step is
ever ahead of the present (Apart), each event that its own run_until dispatches
is a physical step, one length of a step after the last (Paced).

*CfpInv* knows three effects of a frame on a partial packet: it is dropped, it
has grown, or it is handed over. What is collected is in step with all counters
(DeliveredInStep); Placed gives each frame sent one place: on the bus, lost, in
a partial packet, delivered, or in a drop record; and once the run is over no
partial packet has timed out (Closed).

*ChannelInv.* A bus holds the end of what a node has sent, in order. A packet in
progress is the beginning of one packet, and what follows under its key is on
the bus or lost. Both premises are needed. FewLosses: eight frames lost in a row
bring the 3-bit counter round, and two lost around a boundary between packets can
join what is left of two, once the 2-bit packet counter has come round (TLC finds
this with six packets and two losses). SendersApart: senders that share the
address bits of a CAN identifier share keys; run cfp_counter shows it for the two
counters of one node.

*SetInduction.* What recursive functions compute (Selected, the frames for an
endpoint among those drained; Feed; Two and the sum of RawValue) is shown by induction over a set of
naturals instead of a predicate: a counterexample would be the least element of
a set, which well-foundedness of `<` excludes, and that fact of the library is
about sets only.

Only model-checked:

- DeadBusRecovers, StepsReturn, Recovers and EverythingSettles: the proof system
  handles neither fairness nor ENABLED.

## Not modelled, and plan

Not modelled, for good: the syntax and the value ranges of setup and scenario
files, the command line, and the formatting of traces and reports. They run
before or beside a run and keep no state that changes in it. Frames with 11-bit
identifiers, which no node of the testbed sends, are left out of CspCfp. The
comparison operators of assertions are: an assertion is a predicate on the cached
value.

Open, in this order:

1. The CSP header (`csp_v2_packet.py:68-97`) and the CAN identifier as operators
   on bit fields, with their inverses.
2. Fault actions of OBC rules and changes of transport in ObcRules.
