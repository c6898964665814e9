----------------------------- MODULE MCRouting ------------------------------
(* A model-checking instance of Routing.                                    *)
EXTENDS Routing

CONSTANTS Arg   (* one structured payload *)

Node(mode, module, address, limit, at) ==
  [mode |-> mode, module |-> module, address |-> address, limit |-> limit, at |-> at,
   params |-> "none", rules |-> {}, commands |-> <<>>, telemetry |-> <<>>]
Cmd(target, sport, payload) ==
  [target |-> target, dport |-> 10, sport |-> sport, payload |-> payload]
Tlm(signal, port, length, at) ==
  [signal |-> signal, dport |-> port, sport |-> port, length |-> length, at |-> at]

(* Two commands of the OBC to the payload share their ports; the EPS stands *)
(* before the payload in the file; `gnd' is played from outside.            *)
Obc == [Node("simulated", "obc_peer", 1, 2, 1) EXCEPT
          !.rules = {[signal |-> <<"eps", "charge">>, value |-> 0, command |-> "shed"],
                     [signal |-> <<"gnd", "beacon">>, value |-> 1, command |-> "hail"]},
          !.commands = [shed |-> Cmd("cam", 20, <<1>>), start |-> Cmd("cam", 20, <<2, 2>>),
                        hail |-> Cmd("gnd", 20, <<4>>)]]
Eps == [Node("simulated", "generic_eps", 2, 2, 2) EXCEPT
          !.telemetry = [charge |-> Tlm(None, 11, 1, 1)]]
Cam == [Node("simulated", "simple_payload", 3, 2, 3) EXCEPT
          !.telemetry = [busy |-> Tlm(<<"cam", "busy">>, 12, 2, 2)]]
Gnd == [Node("hardware", None, 4, 2, 4) EXCEPT
          !.commands = [start |-> Cmd("cam", 21, <<2>>), ping |-> Cmd("cam", 22, <<3>>)],
          !.telemetry = [beacon |-> Tlm(None, 13, 1, 3)]]
Satellite(transport) ==
  [transport |-> transport, nodes |-> [obc |-> Obc, eps |-> Eps, cam |-> Cam, gnd |-> Gnd]]
Alone ==
  [transport |-> "kiss", nodes |->
    [obc |-> [Obc EXCEPT !.commands = [shed |-> @.shed, start |-> @.start]], eps |-> Eps, cam |-> Cam]]
Bus == [Satellite("in-memory") EXCEPT !.nodes.gnd.mode = "software"]

(* What validation lets through: commands that cannot be told apart, one    *)
(* that a node sends itself on the ports of its telemetry, two telemetry    *)
(* mappings on the same ports, a field no module reports, a rule for a      *)
(* command that does not exist, a limit below what is sent, commands for    *)
(* nodes that take none.                                                    *)
Odd ==
  [transport |-> "in-memory", nodes |->
    [obc |-> [Node("simulated", "obc_peer", 1, 1, 1) EXCEPT
                !.rules = {[signal |-> <<"eps", "charge">>, value |-> 1, command |-> "shed"]},
                !.commands = [on |-> Cmd("cam", 20, <<1>>), off |-> Cmd("cam", 20, <<1>>)]],
     eps |-> [Node("simulated", "generic_eps", 2, 1, 2) EXCEPT
                !.commands = [rail |-> [target |-> "eps", dport |-> 11, sport |-> 11, payload |-> <<>>]],
                !.telemetry = [charge |-> Tlm(None, 11, 1, 1), volts |-> Tlm(None, 14, 1, 2)]],
     cam |-> [Node("simulated", "simple_payload", 3, 1, 3) EXCEPT
                !.commands = [start |-> Cmd("obc", 20, <<1>>)],
                !.telemetry = [busy |-> Tlm(None, 12, 1, 3), data |-> Tlm(None, 12, 1, 4)]]]]
Broken ==
  [Alone EXCEPT
     !.nodes.eps.telemetry = [charge |-> Tlm(None, 11, 1, 1), amps |-> Tlm(None, 15, 1, 2)]]
Shadow ==
  [Alone EXCEPT !.nodes.eps.commands = [rail |-> [target |-> "eps", dport |-> 11, sport |-> 11,
                                                  payload |-> <<7>>]]]
Typo ==
  [Alone EXCEPT !.nodes.obc.rules =
                  {[signal |-> <<"eps", "charge">>, value |-> 0, command |-> "none"]}]

(* Setups that are refused. *)
Refused ==
  {[Satellite("kiss") EXCEPT !.nodes.gnd.module = "generic_eps"],
   [Satellite("kiss") EXCEPT !.nodes.cam.rules = Obc.rules],
   [Satellite("kiss") EXCEPT !.nodes.obc.params = "good"],
   [Satellite("kiss") EXCEPT !.nodes.cam.params = "bad"],
   [Satellite("kiss") EXCEPT !.nodes.cam.address = 2],
   [Satellite("kiss") EXCEPT !.nodes.cam.module = "nobody"],
   [Satellite("kiss") EXCEPT !.nodes.gnd.commands.ping.target = "nobody"],
   [Satellite("kiss") EXCEPT !.nodes.obc.limit = 1],
   [Satellite("kiss") EXCEPT !.nodes.eps.telemetry.charge.signal = <<"cam", "charge">>],
   Satellite("in-memory")}

Plugged(transport) == [Satellite(transport) EXCEPT !.nodes.cam.module = "camera",
                                                   !.nodes.cam.params = "good"]

MCSetups == {Bus, Satellite("kiss"), Satellite("socketcan"), Satellite("own"), Odd,
             Broken, Shadow, Typo, Plugged("socketcan")} \cup Refused

Reg(class, order, params) == [class |-> class, order |-> order, takesParams |-> params]
MCBuiltIn == [simple_payload |-> Reg("simple_payload", 0, TRUE),
              generic_eps |-> Reg("generic_eps", 10, TRUE),
              obc_peer |-> Reg("obc_peer", 20, FALSE)]
MCThirdParty == [camera |-> Reg("camera", 5, TRUE), simple_payload |-> Reg("camera", 30, TRUE)]

ASSUME ContractAssumption == PayloadsFirst

MCSteps == {[command |-> "start", source |-> "obc", target |-> None],
            [command |-> "start", source |-> None, target |-> None],
            [command |-> "shed", source |-> None, target |-> "cam"],
            [command |-> "rail", source |-> None, target |-> "eps"],
            [command |-> "hail", source |-> None, target |-> None],
            [command |-> "on", source |-> None, target |-> None]}
MCSupported == [simple_payload |-> {"start", "shed", "on", "off"}, generic_eps |-> {"rail"},
                camera |-> {"shed"}]
MCReports == [simple_payload |-> {"busy", "data"}, generic_eps |-> {"charge", "volts"}]
MCPeerPackets ==
  {[src |-> 4, dst |-> 3, dport |-> 9, sport |-> 9, payload |-> <<1>>],
   [src |-> 4, dst |-> 3, dport |-> 10, sport |-> 21, payload |-> <<9, 9, 9>>],
   [src |-> 4, dst |-> 4, dport |-> 13, sport |-> 13, payload |-> <<>>]}
=============================================================================
