------------------------------ MODULE Routing -------------------------------
(***************************************************************************)
(* The testbed as a switchboard: scenario commands, OBC rule commands,     *)
(* telemetry of simulated nodes and packets of external nodes cross one    *)
(* transport, and the runner gives each packet to a module, to the         *)
(* telemetry cache, or to nobody.                                          *)
(*   scenario/runner.py      send_command, _send_route, _send_packet,      *)
(*                           _drain_transport_frames, _route_packet,       *)
(*                           _deliver_command, _deliver_telemetry          *)
(*   modules/obc_peer.py     _emit_command, obc_peer_commands_from_...     *)
(*   transport/tracing.py    TracingTransportAdapter                       *)
(*                                                                         *)
(* Startup decides which setup runs, TransportAdapter where frames go.     *)
(* Virtual time does not pass here: Testbed has the waits, CspCfp the      *)
(* fragments that are lost, ObcRules the timing of rules.                  *)
(***************************************************************************)
EXTENDS Startup, TransportAdapter

CONSTANTS
  AllAddresses, (* CSP addresses of nodes and of strangers                  *)
  Steps,        (* send_command steps: [command, source, target]            *)
  Arguments,    (* structured payloads of steps                             *)
  Values,       (* telemetry values                                         *)
  Supported,    (* commands each module class handles; absent: none at all  *)
  Reports,      (* fields each class reports; absent: no telemetry          *)
  PeerPackets,  (* packets external nodes send, besides those of routes     *)
  MaxTraffic,   (* bound: packets nobody inside asked for: steps, emissions *)
                (* and packets of peers                                     *)
  MaxPeerCalls  (* bound: calls on endpoint queues                          *)

ASSUME RoutingAssumption ==
  /\ MaxTraffic \in Nat
  /\ MaxPeerCalls \in Nat
  /\ None \notin Arguments
  /\ \A packet \in PeerPackets : packet.payload \in Seq(Nat) /\ packet.dst \in AllAddresses
  /\ \A s \in Setups : \A n \in DOMAIN s.nodes : s.nodes[n].address \in AllAddresses

VARIABLES
  turn,       (* what the scenario does next: "step" or "emit"              *)
  emitting,   (* telemetry routes still to be sent in this emission         *)
  hand,       (* envelopes drained and not yet delivered                    *)
  arguments,  (* _semantic_payloads_by_envelope                             *)
  samples,    (* telemetry events scheduled on the engine                   *)
  latest,     (* _latest_telemetry: signals seen, with their value          *)
  status,     (* "running", or the error that ended the run                 *)
  trace,      (* lines of --trace: [way, packet, note]                      *)
  sent,       (* history: packets sent: [packet, route, arguments, inside]  *)
  outcomes,   (* history: what became of packets: [number, kind, route,     *)
              (* arguments]                                                 *)
  heard,      (* history: packets taken from each endpoint queue            *)
  traffic,    (* history: steps, emissions and peer packets so far          *)
  calls       (* history: calls on endpoint queues so far                   *)

runVars == <<turn, emitting, hand, arguments, samples, latest, status, trace,
             sent, outcomes, heard, traffic, calls>>
vars == <<startupVars, transportVars, runVars>>

Init ==
  /\ StartupInit
  /\ TransportInit
  /\ turn = "step"
  /\ emitting = {}
  /\ hand = <<>>
  /\ arguments = <<>>
  /\ samples = <<>>
  /\ latest = <<>>
  /\ status = "running"
  /\ trace = <<>>
  /\ sent = <<>>
  /\ outcomes = <<>>
  /\ heard = <<>>
  /\ traffic = 0
  /\ calls = 0

-----------------------------------------------------------------------------
Kind == setup.transport
Addresses(nodes) == {setup.nodes[n].address : n \in nodes}

(* Start and build_transport_adapter.                                       *)
StartRun ==
  /\ Start
  /\ Connected(CASE setup.transport = "in-memory" -> Addresses(DOMAIN setup.nodes)
                 [] setup.transport = "kiss" -> Addresses(Simulated(setup))
                 [] OTHER -> {})
  /\ heard' = [a \in Addresses(DOMAIN setup.nodes) |-> <<>>]
  /\ UNCHANGED <<turn, emitting, hand, arguments, samples, latest, status, trace,
                 sent, outcomes, traffic, calls>>

BeforeRun ==
  \/ StartupNext /\ UNCHANGED <<transportVars, runVars>>
  \/ StartRun

Running == phase = "run" /\ status = "running"
Settled == hand = <<>> /\ samples = <<>> /\ monitor = <<>> /\ line = <<>> /\ emitting = {}

Raise(error) == status' = error

-----------------------------------------------------------------------------
(* Sending.                                                                 *)

PacketOf(number) == sent[number].packet

(* The trace names the route on the last frame of a packet.                 *)
Line(way, frame, packet) ==
  [way |-> way, packet |-> frame.packet,
   note |-> IF frame.last THEN Annotation(setup, packet) ELSE None]

(* _send_packet, _emit_command: all frames of one packet.                   *)
SendPacket(packet, route, args) ==
  LET number == Len(sent) + 1
      frames == Frames(Kind, number, Len(packet.payload))
  IN  /\ TransportSend(Kind, frames, packet.src, packet.dst)
      /\ sent' = Append(sent, [packet |-> packet, route |-> route, arguments |-> args,
                               inside |-> TRUE])
      /\ trace' = trace \o [i \in 1..Len(frames) |-> Line("TX", frames[i], packet)]

(* Mutant: the arguments are kept under the number of the first frame.      *)
Remember_FirstFrame(route, args) ==
  arguments' = IF args = None THEN arguments
               ELSE [q \in DOMAIN arguments \cup {sequence} |->
                       IF q = sequence THEN args ELSE arguments[q]]

(* _send_route keeps the arguments of a step under the number of the        *)
(* envelope that completes the packet.                                      *)
Remember(route, args) ==
  LET last == LastSequence(Frames(Kind, 0, Len(route.payload)))
  IN  arguments' = IF args = None THEN arguments
                   ELSE [q \in DOMAIN arguments \cup {last} |->
                           IF q = last THEN args ELSE arguments[q]]

(* send_command: the step is resolved, and its packet sent; the telemetry   *)
(* of every node follows once the bus is quiet.                             *)
SendCommandStep(step, args) ==
  /\ Running /\ Settled /\ turn = "step"
  /\ traffic < MaxTraffic
  /\ traffic' = traffic + 1
  /\ UNCHANGED <<startupVars, emitting, hand, samples, latest, outcomes, heard, calls>>
  /\ \/ /\ ~Single(StepCandidates(setup, step))
        /\ Raise("unresolved step")
        /\ UNCHANGED <<transportVars, turn, arguments, trace, sent>>
     \/ /\ Single(StepCandidates(setup, step))
        /\ \E route \in StepCandidates(setup, step) :
             /\ SendPacket(CommandPacket(route), route, args)
             /\ Remember(route, args)
        /\ turn' = "emit"
        /\ UNCHANGED status

(* _emit_configured_telemetry, for the simulated nodes that report.         *)
Reporting == {n \in Simulated(setup) : ClassOf(n) \in DOMAIN Reports}

EmitTelemetry ==
  /\ Running /\ Settled
  /\ turn = "step" => traffic < MaxTraffic
  /\ traffic' = IF turn = "step" THEN traffic + 1 ELSE traffic
  /\ turn' = "step"
  /\ emitting' = {r \in TelemetryRoutes(setup) : r.node \in Reporting}
  /\ UNCHANGED <<startupVars, transportVars, hand, arguments, samples, latest, status,
                 trace, sent, outcomes, heard, calls>>

(* One signal; a field the module does not report ends the run.             *)
SendTelemetry(r, v) ==
  /\ Running
  /\ r \in emitting
  /\ \A q \in emitting : r.at <= q.at
  /\ emitting' = emitting \ {r}
  /\ UNCHANGED <<startupVars, turn, hand, arguments, samples, latest, outcomes, heard,
                 traffic, calls>>
  /\ \/ /\ r.signal[2] \notin Reports[ClassOf(r.node)]
        /\ Raise("no such field")
        /\ UNCHANGED <<transportVars, trace, sent>>
     \/ /\ r.signal[2] \in Reports[ClassOf(r.node)]
        /\ SendPacket(TelemetryPacket(r, v), r, None)
        /\ UNCHANGED status

(* An external node sends: one of its routes, or something nobody           *)
(* configured.  On the in-memory bus that is a call between two steps.      *)
ExternalPackets ==
  {CommandPacket(r) : r \in {c \in CommandRoutes(setup) : c.source \in External(setup)}}
  \cup {TelemetryPacket(r, v) :
          r \in {t \in TelemetryRoutes(setup) : t.node \in External(setup)}, v \in Values}
  \cup PeerPackets

PeerSends(packet) ==
  /\ Running
  /\ Kind = "in-memory" => Settled
  /\ traffic < MaxTraffic
  /\ packet.src \in Addresses(External(setup))
  /\ PeerSend(Kind, Frames(Kind, Len(sent) + 1, Len(packet.payload)), packet.src)
  /\ sent' = Append(sent, [packet |-> packet, route |-> None, arguments |-> None,
                           inside |-> FALSE])
  /\ traffic' = traffic + 1
  /\ UNCHANGED <<startupVars, turn, emitting, hand, arguments, samples, latest, status,
                 trace, outcomes, heard, calls>>

-----------------------------------------------------------------------------
(* Receiving: _run_current_events dispatches the events that are due, then  *)
(* drains the bus, until neither finds anything.                            *)

(* Rules that the OBC nodes have for a sample.  ObcRules has their timing.  *)
Fired(sample) ==
  UNION {{[node |-> n, command |-> r.command] :
            r \in {x \in setup.nodes[n].rules : x.signal = sample.signal /\ x.value = sample.value}} :
         n \in Simulated(setup)}

Recorded(sample) ==
  latest' = [x \in DOMAIN latest \cup {sample.signal} |->
               IF x = sample.signal THEN sample.value ELSE latest[x]]

(* The OBC was attached before the runner: it sees the sample first, and an *)
(* error of a rule keeps the sample out of the cache.  MC setups have one   *)
(* rule per sample at most.                                                 *)
Dispatch ==
  /\ Running
  /\ hand = <<>> /\ emitting = {} /\ samples # <<>>
  /\ samples' = Tail(samples)
  /\ UNCHANGED <<startupVars, turn, emitting, hand, arguments, outcomes, heard, traffic, calls>>
  /\ \E sample \in {Head(samples)} :
       \/ /\ Fired(sample) = {}
          /\ Recorded(sample)
          /\ UNCHANGED <<transportVars, sent, trace, status>>
       \/ \E f \in Fired(sample) :
            /\ f.command \in DOMAIN setup.nodes[f.node].commands
            /\ \E route \in {CommandRoute(setup, f.node, f.command)} :
                 SendPacket(CommandPacket(route), route, None)
            /\ Recorded(sample)
            /\ UNCHANGED status
       \/ \E f \in Fired(sample) :
            /\ f.command \notin DOMAIN setup.nodes[f.node].commands
            /\ Raise("unconfigured command")
            /\ UNCHANGED <<transportVars, sent, trace, latest>>

Drain ==
  /\ Running
  /\ hand = <<>> /\ emitting = {} /\ samples = <<>>
  /\ Received # <<>>
  /\ hand' = Received
  /\ DrainAll(Kind, [k \in 1..Len(sent) |-> PacketOf(k).dst])
  /\ trace' = trace \o [i \in 1..Len(Received) |->
                         Line("RX", Received[i], PacketOf(Received[i].packet))]
  /\ UNCHANGED <<startupVars, turn, emitting, arguments, samples, latest, status, sent,
                 outcomes, heard, traffic, calls>>

-----------------------------------------------------------------------------
(* _deliver_transport_envelope and _route_packet, one action per way a      *)
(* frame can go.                                                            *)
Delivering(e) ==
  /\ Running
  /\ hand # <<>>
  /\ e = Head(hand)
  /\ hand' = Tail(hand)
  /\ UNCHANGED <<startupVars, transportVars, turn, emitting, latest, trace, sent, heard,
                 traffic, calls>>

Fits(packet) == Len(packet.payload) <= LimitOf(setup, packet.dst)

Becomes(e, kind, route, args) ==
  outcomes' = Append(outcomes, [number |-> e.packet, kind |-> kind, route |-> route,
                                arguments |-> args])

(* The reassembler keeps a frame that does not complete its packet.         *)
Collect(e) ==
  /\ Delivering(e)
  /\ ~e.last
  /\ UNCHANGED <<arguments, samples, status, outcomes>>

DropOversized(e) ==
  /\ Delivering(e)
  /\ e.last /\ ~Fits(PacketOf(e.packet))
  /\ Becomes(e, "dropped", None, None)
  /\ UNCHANGED <<arguments, samples, status>>

(* What the module gets as payload when the step had no arguments.          *)
Raw(packet) == IF packet.payload = <<>> THEN None ELSE packet.payload

HasModule(route) == route.target \in Simulated(setup)

Taken(e) == IF e.seq \in DOMAIN arguments THEN arguments[e.seq] ELSE Raw(PacketOf(e.packet))

(* _deliver_command, when the target is simulated and handles commands.     *)
DeliverCommand(e) ==
  /\ Delivering(e)
  /\ e.last /\ Fits(PacketOf(e.packet))
  /\ \E route \in {RouteForPacket(setup, PacketOf(e.packet))} :
       /\ route.kind = "command"
       /\ HasModule(route)
       /\ ClassOf(route.target) \in DOMAIN Supported
       /\ arguments' = [q \in DOMAIN arguments \ {e.seq} |-> arguments[q]]
       /\ \/ /\ route.command \in Supported[ClassOf(route.target)]
             /\ Becomes(e, "command", route, Taken(e))
             /\ UNCHANGED status
          \/ /\ route.command \notin Supported[ClassOf(route.target)]
             /\ Becomes(e, "error", route, None)
             /\ Raise("unsupported command")
  /\ UNCHANGED samples

(* No module here, or one that takes no commands (the OBC peer).            *)
CommandWithoutModule(e) ==
  /\ Delivering(e)
  /\ e.last /\ Fits(PacketOf(e.packet))
  /\ \E route \in {RouteForPacket(setup, PacketOf(e.packet))} :
       /\ route.kind = "command"
       /\ HasModule(route) => ClassOf(route.target) \notin DOMAIN Supported
       /\ Becomes(e, "error", route, None)
       /\ Raise("no module")
  /\ UNCHANGED <<arguments, samples>>

DeliverTelemetry(e) ==
  /\ Delivering(e)
  /\ e.last /\ Fits(PacketOf(e.packet))
  /\ \E route \in {RouteForPacket(setup, PacketOf(e.packet))},
        payload \in {PacketOf(e.packet).payload} :
       /\ route.kind = "telemetry"
       /\ \/ /\ Len(payload) >= route.length
             /\ samples' = Append(samples, [signal |-> route.signal, value |-> payload[1]])
             /\ Becomes(e, "sample", route, None)
             /\ UNCHANGED status
          \/ /\ Len(payload) < route.length
             /\ Becomes(e, "error", route, None)
             /\ Raise("undecodable")
             /\ UNCHANGED samples
  /\ UNCHANGED arguments

(* A packet without a route is ignored with a warning; one that matches     *)
(* several routes ends the run.                                             *)
NoRoute(e) ==
  /\ Delivering(e)
  /\ e.last /\ Fits(PacketOf(e.packet))
  /\ \/ /\ RouteForPacket(setup, PacketOf(e.packet)) = Unrouted
        /\ Becomes(e, "ignored", Unrouted, None)
        /\ UNCHANGED status
     \/ /\ RouteForPacket(setup, PacketOf(e.packet)) = Ambiguous
        /\ Becomes(e, "error", Ambiguous, None)
        /\ Raise("ambiguous")
  /\ UNCHANGED <<arguments, samples>>

Deliver ==
  /\ hand # <<>>
  /\ \E e \in {Head(hand)} :
       \/ Collect(e)
       \/ DropOversized(e)
       \/ DeliverCommand(e)
       \/ CommandWithoutModule(e)
       \/ DeliverTelemetry(e)
       \/ NoRoute(e)

-----------------------------------------------------------------------------
(* The endpoint queues of the in-memory bus, driven between two steps by    *)
(* whoever plays an external node.                                          *)
PeerCalls(a) ==
  /\ Running /\ Settled
  /\ Kind = "in-memory"
  /\ calls < MaxPeerCalls
  /\ calls' = calls + 1
  /\ \/ ReceiveAt(a) /\ heard' = [heard EXCEPT ![a] = Append(@, Head(queues[a]))]
     \/ (ClearAt(a) \/ DisconnectAt(a) \/ ConnectAt(a)) /\ UNCHANGED heard
  /\ UNCHANGED <<startupVars, turn, emitting, hand, arguments, samples, latest, status,
                 trace, sent, outcomes, traffic>>

Next ==
  \/ BeforeRun
  \/ /\ phase = "run"
     /\ \/ \E step \in Steps, args \in Arguments \cup {None} : SendCommandStep(step, args)
        \/ EmitTelemetry
        \/ \E r \in emitting, v \in Values : SendTelemetry(r, v)
        \/ \E packet \in ExternalPackets : PeerSends(packet)
        \/ Dispatch
        \/ Drain
        \/ Deliver
        \/ \E a \in Addresses(External(setup)) : PeerCalls(a)

(* What the runner has begun it goes on with.  Steps and peers owe nothing. *)
Fairness ==
  /\ WF_vars(Dispatch)
  /\ WF_vars(Drain)
  /\ WF_vars(Deliver)
  /\ WF_vars(\E r \in emitting, v \in Values : SendTelemetry(r, v))

Spec == Init /\ [][Next]_vars /\ Fairness

-----------------------------------------------------------------------------
Numbers == 1..Len(sent)
OutcomeOf(k) == \E i \in 1..Len(outcomes) : outcomes[i].number = k
InQueue(queue, k) == \E i \in 1..Len(queue) : queue[i].packet = k /\ queue[i].last

(* runner.py _route_packet: a packet sent for a configured command or       *)
(* signal is never taken for another one, in any setup that is accepted;    *)
(* only telemetry can be hidden, by a command of its own node to itself on  *)
(* the same ports.                                                          *)
DeliveredAsSent ==
  \A i \in 1..Len(outcomes) :
    LET o == outcomes[i]
        route == sent[o.number].route
    IN  o.kind \in {"command", "sample"} /\ route # None =>
          o.route = route \/ Shadowed(setup, route)

(* runner.py _semantic_payloads_by_envelope: a module gets the arguments of *)
(* the very step whose packet it is given, and of no other; without any, it *)
(* gets the bytes.  With receive_own_messages they do not survive the bus.  *)
ArgumentsAreOwn ==
  \A i \in 1..Len(outcomes) :
    LET o == outcomes[i]
    IN  o.kind = "command" =>
          o.arguments = IF sent[o.number].arguments = None \/ Kind = "own"
                        THEN Raw(PacketOf(o.number)) ELSE sent[o.number].arguments

(* Packets of the testbed that the transport does not give back to it.      *)
GoesAway(k) ==
  /\ sent[k].inside
  /\ \/ Kind = "socketcan"
     \/ Kind = "kiss" /\ PacketOf(k).dst \notin Addresses(Simulated(setup))

(* runner.py _drain_transport_frames takes everything before it delivers    *)
(* the first: as long as no delivery raises, every packet is still queued,  *)
(* became a command, a sample, a drop record or a warning, or went away.    *)
NothingLostQuietly ==
  status = "running" =>
    \A k \in Numbers : \/ InQueue(monitor, k) \/ InQueue(line, k) \/ InQueue(hand, k)
                       \/ OutcomeOf(k)
                       \/ GoesAway(k)

(* tracing.py: every packet of the testbed, of rules too, has a TX line     *)
(* that names the route a receiver will take it for, and the note on the RX *)
(* line of a packet names what the runner then makes of it.                 *)
TraceTellsTheTruth ==
  /\ \A k \in Numbers : sent[k].inside =>
       \E j \in 1..Len(trace) :
         /\ trace[j].way = "TX"
         /\ trace[j].packet = k
         /\ trace[j].note = RouteForPacket(setup, PacketOf(k))
  /\ \A i \in 1..Len(outcomes) : outcomes[i].kind # "dropped" =>
       \E j \in 1..Len(trace) :
         /\ trace[j].way = "RX"
         /\ trace[j].packet = outcomes[i].number
         /\ trace[j].note = outcomes[i].route

(* parser.py validate_scenario_references: a step that passed the check     *)
(* made when the scenario was loaded resolves to one route when it runs.    *)
ValidatedStepsResolve ==
  phase = "run" =>
    \A step \in Steps : ValidCommandReference(setup, step) =>
      Single(StepCandidates(setup, step))

(* registry.py build orders: the EPS finds the payload it has to feed, the  *)
(* first one of the setup file, wherever the file lists the nodes.          *)
EpsFindsPayload ==
  phase = "run" =>
    LET payloads == {n \in Simulated(setup) : ClassOf(n) = "simple_payload"}
    IN  \A i \in 1..Len(modules) : modules[i].class = "generic_eps" =>
          IF payloads = {} THEN modules[i].payload = None
          ELSE /\ modules[i].payload \in payloads
               /\ \A n \in payloads : setup.nodes[modules[i].payload].at <= setup.nodes[n].at

(* in_memory.py, kiss.py: whoever reads a node's endpoint hears each frame  *)
(* of the others at most once, in the order they were sent, and never its   *)
(* own; on the serial link only what is addressed to it.                    *)
PeersHearOnceInOrder ==
  \A a \in DOMAIN queues \cap DOMAIN heard :
    LET frames == heard[a] \o queues[a]
    IN  \A j \in 1..Len(frames) :
          /\ \A i \in 1..(j - 1) : frames[i].seq < frames[j].seq
          /\ PacketOf(frames[j].packet).src # a
          /\ Kind = "kiss" => PacketOf(frames[j].packet).dst = a

(* The bus is the channel of PacketChannel: a packet is handed over whole,  *)
(* at most once, and in order for each source and destination.              *)
Handed(a) ==
  Selected([i \in 1..Len(outcomes) |-> outcomes[i].number],
           {i \in 1..Len(outcomes) : /\ outcomes[i].kind # "dropped"
                                     /\ PacketOf(outcomes[i].number).dst = a})

Channel == INSTANCE PacketChannel WITH
  Node <- AllAddresses,
  route <- [k \in 1..Len(sent) |-> <<PacketOf(k).src, PacketOf(k).dst>>],
  got <- [a \in AllAddresses |-> Handed(a)]

ImplementsChannel == Channel!Spec

(* runner.py _run_current_events: what is on the bus is dealt with, unless  *)
(* a delivery raises.                                                       *)
EverythingSettles == (phase = "run" /\ ~Settled) ~> (Settled \/ status # "running")

=============================================================================
