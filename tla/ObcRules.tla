------------------------------ MODULE ObcRules ------------------------------
(***************************************************************************)
(* The rule engine of the OBC peer (modules/obc_peer.py): threshold rules  *)
(* on decoded telemetry with a holding time (`for') and a cooldown.        *)
(*                                                                         *)
(* observe_telemetry runs inside one dispatched event and calls nothing    *)
(* that calls back, so a sample is one step.  What a rule does is not      *)
(* looked into, except that it may raise: the remaining rules then never   *)
(* see the sample.  A sample that is not a number raises before anything   *)
(* changes, and is left out.                                               *)
(***************************************************************************)
EXTENDS Integers, Sequences

CONSTANTS
  RuleOrder,     (* the configured rules, in order                          *)
  Signal,        (* telemetry signals                                       *)
  SignalOf, Op, Threshold,      (* condition of each rule                   *)
  ForDuration, Cooldown,        (* timing gates of each rule                *)
  Value,         (* sampled values                                          *)
  None,
  MaxTime,       (* bound: virtual time                                     *)
  MaxLog         (* bound: calls                                            *)

Rule == {RuleOrder[i] : i \in 1..Len(RuleOrder)}

ASSUME RulesAssumption ==
  /\ RuleOrder \in Seq(Rule)
  /\ \A i, j \in 1..Len(RuleOrder) : RuleOrder[i] = RuleOrder[j] => i = j
  /\ SignalOf \in [Rule -> Signal]
  /\ Op \in [Rule -> {"<", "<=", ">", ">="}]
  /\ Threshold \in [Rule -> Int]
  /\ ForDuration \in [Rule -> Nat]
  /\ Cooldown \in [Rule -> Nat]
  /\ Value \subseteq Int
  /\ None \notin Rule \cup Nat
  /\ MaxTime \in Nat
  /\ MaxLog \in Nat

VARIABLES
  now,        (* virtual time                                               *)
  since,      (* _RuleRuntimeState.condition_since                          *)
  last,       (* _RuleRuntimeState.last_triggered_at                        *)
  results,    (* last_results: the rules the last complete call triggered   *)
  log         (* history: samples, who saw them, who fired; resets          *)

vars == <<now, since, last, results, log>>

Init ==
  /\ now = 0
  /\ since = [r \in Rule |-> None]
  /\ last = [r \in Rule |-> None]
  /\ results = <<>>
  /\ log = <<>>

-----------------------------------------------------------------------------
Position(r) == CHOOSE i \in 1..Len(RuleOrder) : RuleOrder[i] = r

Matches(r, v) ==
  \/ Op[r] = "<" /\ v < Threshold[r]
  \/ Op[r] = "<=" /\ v <= Threshold[r]
  \/ Op[r] = ">" /\ v > Threshold[r]
  \/ Op[r] = ">=" /\ v >= Threshold[r]

(* Mutant: a false sample does not restart the holding time.                *)
SinceAfter_Sticky(r, v) == IF Matches(r, v) /\ since[r] = None THEN now ELSE since[r]

(* condition_since once rule r has looked at value v.                       *)
SinceAfter(r, v) ==
  IF ~Matches(r, v) THEN None
  ELSE IF since[r] = None THEN now ELSE since[r]

InCooldown(r) == last[r] # None /\ now - last[r] < Cooldown[r]

Triggers(r, v) ==
  /\ Matches(r, v)
  /\ now - SinceAfter(r, v) >= ForDuration[r]
  /\ ~InCooldown(r)

(* The rules that look at a sample of s when the actions of rule `bad'      *)
(* raise (None: nothing raises).                                            *)
Seeing(s, bad) ==
  {r \in Rule : SignalOf[r] = s /\ (bad # None => Position(r) <= Position(bad))}

(* observe_telemetry(s, v).  The trigger time is kept before the actions    *)
(* run, so it stays when they raise; last_results does not change then.     *)
Observe(s, v, bad) ==
  LET seen == Seeing(s, bad)
      fired == {r \in seen : Triggers(r, v)}
      IsFired(r) == r \in fired
  IN  /\ Len(log) < MaxLog
      /\ bad # None => bad \in fired
      /\ since' = [r \in Rule |-> IF r \in seen THEN SinceAfter(r, v) ELSE since[r]]
      /\ last' = [r \in Rule |-> IF r \in fired THEN now ELSE last[r]]
      /\ results' = IF bad = None THEN SelectSeq(RuleOrder, IsFired) ELSE results
      /\ log' = Append(log, [time |-> now, value |-> v, seen |-> seen, fired |-> fired,
                             reset |-> {}])
      /\ UNCHANGED now

(* reset_rule_timing for one rule or for all of them.                       *)
ResetRuleTiming(rules) ==
  /\ Len(log) < MaxLog
  /\ since' = [r \in Rule |-> IF r \in rules THEN None ELSE since[r]]
  /\ last' = [r \in Rule |-> IF r \in rules THEN None ELSE last[r]]
  /\ log' = Append(log, [time |-> now, value |-> 0, seen |-> {}, fired |-> {},
                         reset |-> rules])
  /\ UNCHANGED <<now, results>>

TimePasses ==
  /\ now < MaxTime
  /\ now' = now + 1
  /\ UNCHANGED <<since, last, results, log>>

Next ==
  \/ \E s \in Signal, v \in Value, bad \in Rule \cup {None} : Observe(s, v, bad)
  \/ \E rules \in {Rule} \cup {{r} : r \in Rule} : ResetRuleTiming(rules)
  \/ TimePasses

Spec == Init /\ [][Next]_vars

-----------------------------------------------------------------------------
Entry == [time : Nat, value : Int, seen : SUBSET Rule, fired : SUBSET Rule,
          reset : SUBSET Rule]

(* The condition of rule r held without interruption up to entry i of the   *)
(* log, as far as r saw samples, from one taken ForDuration[r] before.      *)
HeldLongEnough(r, i) ==
  \E j \in 1..i :
    /\ r \in log[j].seen
    /\ log[i].time - log[j].time >= ForDuration[r]
    /\ \A k \in j..i : /\ r \in log[k].seen => Matches(r, log[k].value)
                       /\ r \notin log[k].reset

(* No earlier firing of r that was not reset is within its cooldown.        *)
CooledDown(r, i) ==
  \A j \in 1..(i - 1) :
    /\ r \in log[j].fired
    /\ \A k \in j..i : r \notin log[k].reset
    => log[i].time - log[j].time >= Cooldown[r]

(* A rule fires on a sample it sees exactly when its condition has held for *)
(* `for' on every sample since, and its last firing is `cooldown' ago:      *)
(* the timers of observe_telemetry neither miss a trigger nor add one.      *)
FiresExactlyWhenDue ==
  \A i \in 1..Len(log) :
    log[i].fired = {r \in log[i].seen :
                      /\ Matches(r, log[i].value)
                      /\ HeldLongEnough(r, i)
                      /\ CooledDown(r, i)}
=============================================================================
