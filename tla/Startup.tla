------------------------------ MODULE Startup -------------------------------
(***************************************************************************)
(* From registered module types and a setup file to a running testbed.     *)
(*   modules/registry.py     register_module, unregister_module,           *)
(*                           first_module_of_type, built-in registrations  *)
(*   config/parser.py        load_testbed_config (Accepted of Setup)       *)
(*   scenario/runner.py      build_runtime, _build_order                   *)
(*   modules/eps.py          build_generic_eps (attaches a payload)        *)
(*                                                                         *)
(* A registration names the class its factory builds, its build order and  *)
(* whether it takes parameters.                                            *)
(***************************************************************************)
EXTENDS Setup

CONSTANTS
  BuiltIn,          (* the built-in registrations, by module type           *)
  ThirdParty,       (* registrations a plug-in may bring, by module type    *)
  Setups,           (* setup files that may be loaded                       *)
  MaxRegistrations  (* bound: changes of the registry                       *)

Registration == [class : STRING, order : Nat, takesParams : BOOLEAN]

ASSUME StartupAssumption ==
  /\ \A t \in DOMAIN BuiltIn : BuiltIn[t] \in Registration
  /\ \A t \in DOMAIN ThirdParty : ThirdParty[t] \in Registration
  /\ \A s \in Setups :
       /\ s.transport \in Transports
       /\ \A n \in DOMAIN s.nodes :
            /\ s.nodes[n].at \in Nat
            /\ \A c \in DOMAIN s.nodes[n].commands : s.nodes[n].commands[c].payload \in Seq(Nat)
            /\ \A t \in DOMAIN s.nodes[n].telemetry : s.nodes[n].telemetry[t].length \in Nat
  /\ MaxRegistrations \in Nat

(* The contract of build orders, as far as the EPS reads a payload: every   *)
(* registration of a payload is built before any of an EPS, and as early as *)
(* any other payload.                                                       *)
PayloadsFirst ==
  LET offered == {BuiltIn[t] : t \in DOMAIN BuiltIn} \cup {ThirdParty[t] : t \in DOMAIN ThirdParty}
  IN  \A p, q \in offered : p.class = "simple_payload" =>
        /\ q.class = "simple_payload" => p.order = q.order
        /\ q.class = "generic_eps" => p.order < q.order

VARIABLES
  registry,   (* _REGISTRY: module types known to the process               *)
  changes,    (* registrations made and undone so far                       *)
  setup,      (* the setup loaded, or None                                  *)
  phase,      (* "start", "refused", "build", "failed", "run"               *)
  modules     (* the modules built so far, in order                         *)

startupVars == <<registry, changes, setup, phase, modules>>

StartupInit ==
  /\ registry = BuiltIn
  /\ changes = 0
  /\ setup = None
  /\ phase = "start"
  /\ modules = <<>>

-----------------------------------------------------------------------------
(* register_module, at import time of a plug-in or by any caller later on.  *)
(* A name that is taken is refused unless it is replaced on purpose.        *)
RegisterModule(t, replace) ==
  /\ phase \in {"start", "build"} /\ modules = <<>>
  /\ changes < MaxRegistrations
  /\ t \in DOMAIN registry => replace
  /\ registry' = [x \in DOMAIN registry \cup {t} |-> IF x = t THEN ThirdParty[t] ELSE registry[x]]
  /\ changes' = changes + 1
  /\ UNCHANGED <<setup, phase, modules>>

UnregisterModule(t) ==
  /\ phase \in {"start", "build"} /\ modules = <<>>
  /\ changes < MaxRegistrations
  /\ t \in DOMAIN registry
  /\ registry' = [x \in DOMAIN registry \ {t} |-> registry[x]]
  /\ changes' = changes + 1
  /\ UNCHANGED <<setup, phase, modules>>

(* load_testbed_config                                                      *)
Load(s) ==
  /\ phase = "start"
  /\ \/ Accepted(registry, s) /\ setup' = s /\ phase' = "build"
     \/ ~Accepted(registry, s) /\ phase' = "refused" /\ UNCHANGED setup
  /\ UNCHANGED <<registry, changes, modules>>

-----------------------------------------------------------------------------
(* build_runtime: _build_order looks every module type up before the first  *)
(* factory is called, so nothing changes in between.                        *)
TypesKnown == \A n \in Simulated(setup) : setup.nodes[n].module \in DOMAIN registry

Built == {modules[i].node : i \in 1..Len(modules)}

(* Mutant: modules are built in the order of the setup file.                *)
Precedes_FileOrder(m, n) == setup.nodes[m].at < setup.nodes[n].at

(* The sort by build order is stable: file order decides among equals.      *)
Precedes(m, n) ==
  LET OrderOf(x) == registry[setup.nodes[x].module].order
  IN  \/ OrderOf(m) < OrderOf(n)
      \/ OrderOf(m) = OrderOf(n) /\ setup.nodes[m].at < setup.nodes[n].at

(* first_module_of_type                                                     *)
FirstOfClass(class) ==
  LET found == {i \in 1..Len(modules) : modules[i].class = class}
  IN  IF found = {} THEN None
      ELSE modules[CHOOSE i \in found : \A j \in found : i <= j].node

(* The factory of node n.  Only the EPS looks for another module.           *)
Module(n) ==
  LET class == registry[setup.nodes[n].module].class
  IN  [node |-> n, class |-> class,
       payload |-> IF class = "generic_eps" THEN FirstOfClass("simple_payload") ELSE None]

Build(n) ==
  /\ phase = "build"
  /\ TypesKnown
  /\ n \in Simulated(setup) \ Built
  /\ \A m \in Simulated(setup) \ (Built \cup {n}) : Precedes(n, m)
  /\ modules' = Append(modules, Module(n))
  /\ UNCHANGED <<registry, changes, setup, phase>>

BuildFails ==
  /\ phase = "build"
  /\ modules = <<>>
  /\ ~TypesKnown
  /\ phase' = "failed"
  /\ UNCHANGED <<registry, changes, setup, modules>>

(* The runtime is complete: every simulated node has its module.            *)
Start ==
  /\ phase = "build"
  /\ Simulated(setup) \subseteq Built
  /\ phase' = "run"
  /\ UNCHANGED <<registry, changes, setup, modules>>

StartupNext ==
  \/ \E t \in DOMAIN ThirdParty, r \in BOOLEAN : RegisterModule(t, r)
  \/ \E t \in DOMAIN registry : UnregisterModule(t)
  \/ \E s \in Setups : Load(s)
  \/ setup # None /\ \E n \in Simulated(setup) : Build(n)
  \/ BuildFails

(* The class of a node's module.                                            *)
ClassOf(n) == modules[CHOOSE i \in 1..Len(modules) : modules[i].node = n].class
=============================================================================
