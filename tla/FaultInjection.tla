--------------------------- MODULE FaultInjection ---------------------------
(***************************************************************************)
(* The passive override and named-fault registry of                        *)
(* cubesat_testbed/fault_injection.py.                                     *)
(*                                                                         *)
(* Expiration is lazy: nothing runs when an override's boundary passes.    *)
(* The entry stays in its dictionary until some lookup, listing or cycle   *)
(* advance calls clear_expired, which drops the expired entries of every   *)
(* target at once.  `requested' is the registry as the scenario author     *)
(* thinks of it: the latest request per target, never cleaned up by time.  *)
(***************************************************************************)
EXTENDS Integers

CONSTANTS
  StateTarget,   (* paths accepted by state_override  ("eps.model.x")       *)
  SignalTarget,  (* paths accepted by signal_override ("eps.telemetry.x")   *)
  Module,        (* modules that own named faults                           *)
  FaultName,     (* names of fault flags                                    *)
  Value,         (* override values                                         *)
  Nothing,       (* Python's None                                           *)
  MaxClock,      (* bound: latest virtual time                              *)
  MaxCycle,      (* bound: largest cycle counter                            *)
  MaxSpan        (* bound: longest duration and cycle count of a request    *)

VARIABLES
  clock,         (* now of the event engine (advanced by its owner)         *)
  attached,      (* _engine is not None                                     *)
  cycle,         (* _cycle                                                  *)
  active,        (* _state_overrides and _signal_overrides, None = no key   *)
  named,         (* _named_faults: the set of <<module, name>> flags        *)
  requested      (* history: latest request per target not cleared by name  *)

registry == <<clock, attached, cycle, active, named, requested>>

(* One key of one of the two dictionaries.                                  *)
Slot == ({"state"} \X StateTarget) \cup ({"signal"} \X SignalTarget)

Override == [value : Value, expires_at : Nat \cup {Nothing},
             expires_after_cycle : Nat \cup {Nothing},
             activated_at : Nat, activated_cycle : Nat]

ASSUME FaultAssumption ==
  /\ MaxClock \in Nat
  /\ MaxCycle \in Nat
  /\ MaxSpan \in Nat
  /\ Nothing \notin Nat
  /\ Nothing \notin Override

Span == {Nothing} \cup 0..MaxSpan

FaultInit ==
  /\ clock = 0
  /\ attached \in BOOLEAN
  /\ cycle = 0
  /\ active = [s \in Slot |-> Nothing]
  /\ named = {}
  /\ requested = active

-----------------------------------------------------------------------------
(* ActiveOverride.is_expired: either boundary ends the override.            *)
IsExpired(o, t, c) ==
  \/ o.expires_at # Nothing /\ t >= o.expires_at
  \/ o.expires_after_cycle # Nothing /\ c >= o.expires_after_cycle

(* _current_time: the caller's now, else the attached engine's, else 0.     *)
CurrentTime(arg) ==
  IF arg # Nothing THEN arg ELSE IF attached THEN clock ELSE 0

(* The `now' a caller passes: nothing, or what engine.now says.             *)
TimeArg == {Nothing, clock}

(* Mutant: only the first of the two dictionaries is cleaned.               *)
Unexpired_StateOnly(reg, t, c) ==
  [s \in Slot |-> IF s[1] = "state" /\ reg[s] # Nothing /\ IsExpired(reg[s], t, c)
                  THEN Nothing ELSE reg[s]]

(* clear_expired, at cycle counter c.                                       *)
Unexpired(reg, t, c) ==
  [s \in Slot |-> IF reg[s] # Nothing /\ IsExpired(reg[s], t, c) THEN Nothing ELSE reg[s]]

Boundary(start, span) == IF span = Nothing THEN Nothing ELSE start + span

(* _make_override                                                           *)
MakeOverride(s, v, d, c, t) ==
  [value |-> v, activated_at |-> t, activated_cycle |-> cycle,
   expires_at |-> Boundary(t, d), expires_after_cycle |-> Boundary(cycle, c)]

-----------------------------------------------------------------------------
(* state_override and signal_override, called directly, through apply, or   *)
(* by handle_event for a dispatched FAULT event.                            *)
SetOverride(s, v, d, c, arg) ==
  LET o == MakeOverride(s, v, d, c, CurrentTime(arg))
  IN  /\ active' = [active EXCEPT ![s] = o]
      /\ requested' = [requested EXCEPT ![s] = o]
      /\ UNCHANGED <<clock, attached, cycle, named>>

(* clear_expired itself, the listings, and every get_, has_ and resolve_ of *)
(* an override: all of them drop what has expired before they look.         *)
ClearExpired(arg) ==
  /\ active' = Unexpired(active, CurrentTime(arg), cycle)
  /\ UNCHANGED <<clock, attached, cycle, named, requested>>

(* get_state_override and get_signal_override; their result is the entry    *)
(* of the slot after the step.                                              *)
Lookup(s, arg) == ClearExpired(arg)

AdvanceCycles(n, arg) ==
  /\ cycle + n <= MaxCycle
  /\ cycle' = cycle + n
  /\ active' = Unexpired(active, CurrentTime(arg), cycle + n)
  /\ UNCHANGED <<clock, attached, named, requested>>

(* clear_state_override, clear_signal_override                              *)
ClearOverride(s) ==
  /\ active' = [active EXCEPT ![s] = Nothing]
  /\ requested' = [requested EXCEPT ![s] = Nothing]
  /\ UNCHANGED <<clock, attached, cycle, named>>

ActivateNamedFault(m, n) ==
  /\ named' = named \cup {<<m, n>>}
  /\ UNCHANGED <<clock, attached, cycle, active, requested>>

ClearNamedFault(m, n) ==
  /\ named' = named \ {<<m, n>>}
  /\ UNCHANGED <<clock, attached, cycle, active, requested>>

ClearModuleFaults(m) ==
  /\ named' = {f \in named : f[1] # m}
  /\ UNCHANGED <<clock, attached, cycle, active, requested>>

ClearAll ==
  /\ active' = [s \in Slot |-> Nothing]
  /\ requested' = active'
  /\ named' = {}
  /\ UNCHANGED <<clock, attached, cycle>>

Attach == attached' = TRUE /\ UNCHANGED <<clock, cycle, active, named, requested>>
Detach == attached' = FALSE /\ UNCHANGED <<clock, cycle, active, named, requested>>

(* The event engine moves on; the registry is not told.                     *)
TimePasses ==
  /\ clock' \in (clock + 1)..MaxClock
  /\ UNCHANGED <<attached, cycle, active, named, requested>>

FaultNext ==
  \/ \E s \in Slot, v \in Value, d, c \in Span, a \in TimeArg : SetOverride(s, v, d, c, a)
  \/ \E a \in TimeArg : ClearExpired(a) \/ (\E s \in Slot : Lookup(s, a))
  \/ \E n \in 0..MaxCycle, a \in TimeArg : AdvanceCycles(n, a)
  \/ \E s \in Slot : ClearOverride(s)
  \/ \E m \in Module, n \in FaultName : ActivateNamedFault(m, n) \/ ClearNamedFault(m, n)
  \/ \E m \in Module : ClearModuleFaults(m)
  \/ ClearAll
  \/ Attach
  \/ Detach
  \/ TimePasses

FaultSpec == FaultInit /\ [][FaultNext]_registry

-----------------------------------------------------------------------------
(* Every entry sits in its slot, with a boundary of either clock, of both   *)
(* or of none.                                                              *)
FaultTypeOK ==
  /\ clock \in Nat
  /\ attached \in BOOLEAN
  /\ cycle \in Nat
  /\ active \in [Slot -> Override \cup {Nothing}]
  /\ named \subseteq Module \X FaultName
  /\ requested \in [Slot -> Override \cup {Nothing}]

(* What the latest request says of the value at time t and cycle c.         *)
Visible(o, t, c) == IF o # Nothing /\ IsExpired(o, t, c) THEN Nothing ELSE o

(* Lazy clean-up is unobservable: the registry differs from the requests    *)
(* only where the request has run out for good, so no sequence of lookups,  *)
(* cycle advances and replacements loses a live override or revives a dead  *)
(* one.                                                                     *)
OnlyExpiredDropped ==
  \A s \in Slot :
    active[s] # requested[s] =>
      active[s] = Nothing /\ Visible(requested[s], clock, cycle) = Nothing

(* Every lookup made with the current virtual time answers exactly what the *)
(* latest request says, however long ago clear_expired last ran.            *)
LookupAnswersRequest ==
  [][\A s \in Slot, a \in TimeArg :
       Lookup(s, a) /\ CurrentTime(a) = clock =>
         active'[s] = Visible(requested[s], clock, cycle)]_registry

=============================================================================
