------------------------------- MODULE Setup --------------------------------
(***************************************************************************)
(* The satellite setup: what the configuration accepts, the routes the     *)
(* runner derives from it, and how packets and scenario steps are resolved *)
(* against them.  No state, only definitions.                              *)
(*   config/parser.py        NodeConfig, TestbedConfig, SendCommandStep,   *)
(*                           validate_scenario_references                  *)
(*   scenario/runner.py      routes and their resolution, trace annotation *)
(*   dut/manager.py          resolve_participants                          *)
(*                                                                         *)
(* A setup is a record with its transport and its nodes by name; `at' is   *)
(* the place of a node or of a telemetry mapping in the setup file.  Names *)
(* are opaque, a telemetry signal is a pair <<node, field>>, and a payload *)
(* is a sequence of bytes.  Syntax of names and value ranges are left out. *)
(***************************************************************************)
EXTENDS Naturals, Sequences

CONSTANTS
  None,
  DefaultLimit   (* CSP_V2_DEFAULT_MAX_PACKET_BYTES                         *)

ASSUME SetupAssumption == DefaultLimit \in Nat

(* `own' is SocketCAN with receive_own_messages.                            *)
Transports == {"in-memory", "socketcan", "own", "kiss"}

-----------------------------------------------------------------------------
(* What a setup file has to satisfy, with the module types of registry reg. *)

KnownModule(reg, node) == node.module # None => node.module \in DOMAIN reg

ModeModuleCombination(node) ==
  /\ node.mode = "simulated" <=> node.module # None
  /\ node.rules # {} => node.module = "obc_peer"
  /\ node.mode # "simulated" => node.params = "none"

(* Parameters are tried on the dataclass of the module type: "bad" stands   *)
(* for whatever it refuses and for the reserved names.                      *)
ParamsValid(reg, node) ==
  node.params # "none" => reg[node.module].takesParams /\ node.params = "good"

UniqueAddresses(s) ==
  \A m, n \in DOMAIN s.nodes : s.nodes[m].address = s.nodes[n].address => m = n

TransportAllowsModes(s) ==
  s.transport = "in-memory" => \A n \in DOMAIN s.nodes : s.nodes[n].mode # "hardware"

CommandMappingsValid(s) ==
  \A n \in DOMAIN s.nodes : \A c \in DOMAIN s.nodes[n].commands :
    /\ s.nodes[n].commands[c].target \in DOMAIN s.nodes
    /\ Len(s.nodes[n].commands[c].payload) <= s.nodes[n].limit

ResolvedSignal(n, name, mapping) == IF mapping.signal # None THEN mapping.signal ELSE <<n, name>>

(* The telemetry mappings of a setup, each with its node and its signal.    *)
Mappings(s) ==
  UNION {{[node |-> n, name |-> t, mapping |-> s.nodes[n].telemetry[t],
           signal |-> ResolvedSignal(n, t, s.nodes[n].telemetry[t])] :
            t \in DOMAIN s.nodes[n].telemetry} : n \in DOMAIN s.nodes}

TelemetryMappingsValid(s) ==
  \A p \in Mappings(s) :
    /\ p.mapping.length <= s.nodes[p.node].limit
    /\ p.signal[1] = p.node
    /\ \A q \in Mappings(s) : p.signal = q.signal => p = q

Accepted(reg, s) ==
  /\ DOMAIN s.nodes # {}
  /\ \A n \in DOMAIN s.nodes : /\ KnownModule(reg, s.nodes[n])
                               /\ ModeModuleCombination(s.nodes[n])
                               /\ ParamsValid(reg, s.nodes[n])
  /\ UniqueAddresses(s)
  /\ TransportAllowsModes(s)
  /\ CommandMappingsValid(s)
  /\ TelemetryMappingsValid(s)

(* resolve_participants: who is simulated here, who is reached by the bus.  *)
Simulated(s) == {n \in DOMAIN s.nodes : s.nodes[n].mode = "simulated"}
External(s) == DOMAIN s.nodes \ Simulated(s)

-----------------------------------------------------------------------------
(* Routes.                                                                  *)

CommandRoute(s, n, c) ==
  LET cmd == s.nodes[n].commands[c]
  IN  [kind |-> "command", command |-> c, source |-> n, target |-> cmd.target,
       src |-> s.nodes[n].address, dst |-> s.nodes[cmd.target].address,
       dport |-> cmd.dport, sport |-> cmd.sport, payload |-> cmd.payload]

CommandRoutes(s) ==
  UNION {{CommandRoute(s, n, c) : c \in DOMAIN s.nodes[n].commands} : n \in DOMAIN s.nodes}

(* Telemetry is addressed to its own node.                                  *)
TelemetryRoute(s, p) ==
  [kind |-> "telemetry", signal |-> p.signal, node |-> p.node, at |-> p.mapping.at,
   src |-> s.nodes[p.node].address, dst |-> s.nodes[p.node].address,
   dport |-> p.mapping.dport, sport |-> p.mapping.sport, length |-> p.mapping.length]

TelemetryRoutes(s) == {TelemetryRoute(s, p) : p \in Mappings(s)}

LimitOf(s, address) ==
  IF \E n \in DOMAIN s.nodes : s.nodes[n].address = address
  THEN s.nodes[CHOOSE n \in DOMAIN s.nodes : s.nodes[n].address = address].limit
  ELSE DefaultLimit

CommandPacket(r) ==
  [src |-> r.src, dst |-> r.dst, dport |-> r.dport, sport |-> r.sport, payload |-> r.payload]

(* A field of several bytes repeats its value; the codec is SignalCodec.    *)
TelemetryPacket(r, v) ==
  [src |-> r.src, dst |-> r.dst, dport |-> r.dport, sport |-> r.sport,
   payload |-> [i \in 1..r.length |-> v]]

-----------------------------------------------------------------------------
(* Resolution.                                                              *)

Single(S) == \E x \in S : S = {x}
TheOne(S) == CHOOSE x \in S : TRUE

OnPorts(r, p) ==
  r.src = p.src /\ r.dst = p.dst /\ r.dport = p.dport /\ r.sport = p.sport

Unrouted == [kind |-> "unrouted"]
Ambiguous == [kind |-> "ambiguous"]

(* Mutant: the payload is not compared.                                     *)
CommandRouteForPacket_AnyPayload(s, p) ==
  LET candidates == {r \in CommandRoutes(s) : OnPorts(r, p)}
  IN  IF candidates = {} THEN Unrouted ELSE TheOne(candidates)

CommandRouteForPacket(s, p) ==
  LET candidates == {r \in CommandRoutes(s) : OnPorts(r, p)}
      exact == {r \in candidates : r.payload = p.payload}
  IN  IF Single(exact) THEN TheOne(exact)
      ELSE IF exact = {} /\ Single(candidates) THEN TheOne(candidates)
      ELSE IF candidates = {} THEN Unrouted
      ELSE Ambiguous

TelemetryRouteForPacket(s, p) ==
  LET candidates == {r \in TelemetryRoutes(s) : OnPorts(r, p)}
  IN  IF Single(candidates) THEN TheOne(candidates)
      ELSE IF candidates = {} THEN Unrouted
      ELSE Ambiguous

(* _route_packet: commands are tried first.                                 *)
RouteForPacket(s, p) ==
  IF CommandRouteForPacket(s, p) # Unrouted
  THEN CommandRouteForPacket(s, p) ELSE TelemetryRouteForPacket(s, p)

(* Mutant: the annotator looks at the ports only.                           *)
Annotation_PortsOnly(s, p) ==
  LET commands == {r \in CommandRoutes(s) : OnPorts(r, p)}
      telemetry == {r \in TelemetryRoutes(s) : OnPorts(r, p)}
  IN  IF commands # {} THEN TheOne(commands)
      ELSE IF telemetry # {} THEN TheOne(telemetry)
      ELSE Unrouted

(* _build_frame_annotator: what the trace says of a packet.                 *)
Annotation(s, p) ==
  LET commands == {r \in CommandRoutes(s) : OnPorts(r, p)}
      exact == {r \in commands : r.payload = p.payload}
      telemetry == {r \in TelemetryRoutes(s) : OnPorts(r, p)}
  IN  IF Single(exact) THEN TheOne(exact)
      ELSE IF Single(commands) THEN TheOne(commands)
      ELSE IF commands # {} THEN Ambiguous
      ELSE IF Single(telemetry) THEN TheOne(telemetry)
      ELSE IF telemetry # {} THEN Ambiguous
      ELSE Unrouted

(* Telemetry hidden by a command its node sends itself on the same ports.   *)
Shadowed(s, r) ==
  r.kind = "telemetry" /\ \E c \in CommandRoutes(s) : OnPorts(c, r)

(* A scenario step names a command, and may name its source and target.     *)
StepCandidates(s, step) ==
  {r \in CommandRoutes(s) : /\ r.command = step.command
                            /\ step.source # None => r.source = step.source
                            /\ step.target # None => r.target = step.target}

(* Mutant: a missing source is not required to be unambiguous.              *)
ValidCommandReference_AnySource(s, step) ==
  /\ step.source # None => step.source \in DOMAIN s.nodes
  /\ step.target # None => step.target \in DOMAIN s.nodes
  /\ \E n \in DOMAIN s.nodes :
       /\ step.command \in DOMAIN s.nodes[n].commands
       /\ step.source # None => n = step.source
       /\ step.target # None => step.target = s.nodes[n].commands[step.command].target

(* _validate_command_reference, made when the scenario is loaded.           *)
ValidCommandReference(s, step) ==
  LET named == {n \in DOMAIN s.nodes : step.command \in DOMAIN s.nodes[n].commands}
  IN  /\ step.source # None => step.source \in DOMAIN s.nodes
      /\ step.target # None => step.target \in DOMAIN s.nodes
      /\ step.source = None => Single(named)
      /\ step.source # None => step.source \in named
      /\ LET n == IF step.source = None THEN TheOne(named) ELSE step.source
         IN  step.target # None => step.target = s.nodes[n].commands[step.command].target
=============================================================================
