--------------------------- MODULE TestbedProofs ----------------------------
(***************************************************************************)
(* Theorems about Testbed for every setup, scenario, limit and length of a *)
(* physical step.                                                          *)
(*                                                                         *)
(* Every step of a run replaces the task at the head of todo by the calls  *)
(* it makes: todo' = tasks \o Tail(todo).  So the invariants are stated of *)
(* any list of calls, and shown for what comes before and what stays.      *)
(* Time moves only under a run_until at the head, and the physical step in *)
(* progress never lets it: below it lies the run_until that dispatched it, *)
(* which has to be at its target before another one gets above it.         *)
(***************************************************************************)
EXTENDS Testbed, FiniteSetTheorems, WellFoundedInduction, TLAPS

-----------------------------------------------------------------------------
(* Lists.                                                                   *)

(* A list is a function on 1..Len.                                          *)
LEMMA ListShape ==
  ASSUME NEW s, IsList(s)
  PROVE  /\ Len(s) \in Nat
         /\ DOMAIN s = 1..Len(s)
         /\ s = <<>> <=> Len(s) = 0
BY DEF IsList

(* ... and any function on 1..n is one.                                     *)
LEMMA ListBuilt ==
  ASSUME NEW n \in Nat, NEW s, s = [i \in 1..n |-> s[i]]
  PROVE  IsList(s) /\ Len(s) = n /\ DOMAIN s = 1..n
<1> DEFINE S == {s[i] : i \in 1..n}
<1>1. \A i \in 1..n : s[i] \in S
  OBVIOUS
<1>2. DOMAIN s = 1..n
  OBVIOUS
<1> HIDE DEF S
<1>3. s \in [1..n -> S]
  BY <1>1
<1>4. s \in Seq(S) /\ Len(s) = n
  BY <1>2, <1>3
<1> QED
  BY <1>2, <1>4 DEF IsList, S

(* A sequence over a set is a list.                                         *)
LEMMA TypedIsList ==
  ASSUME NEW S, NEW s \in Seq(S)
  PROVE  IsList(s)
<1>1. Len(s) \in Nat /\ s = [i \in 1..Len(s) |-> s[i]]
  OBVIOUS
<1> QED
  BY <1>1, ListBuilt

(* What two lists put together hold, and where.                             *)
LEMMA ConcatShape ==
  ASSUME NEW s, IsList(s), NEW t, IsList(t)
  PROVE  /\ IsList(s \o t)
         /\ Len(s) \in Nat /\ Len(t) \in Nat
         /\ Len(s \o t) = Len(s) + Len(t)
         /\ DOMAIN (s \o t) = 1..(Len(s) + Len(t))
         /\ \A i \in DOMAIN s : (s \o t)[i] = s[i]
         /\ \A i \in DOMAIN (s \o t) : i <= Len(s) => i \in DOMAIN s /\ (s \o t)[i] = s[i]
         /\ \A i \in DOMAIN (s \o t) : i > Len(s) => i - Len(s) \in DOMAIN t /\ (s \o t)[i] = t[i - Len(s)]
<1> DEFINE S == {s[i] : i \in DOMAIN s} \cup {t[i] : i \in DOMAIN t}
<1>1. s \in Seq(S) /\ t \in Seq(S)
  BY DEF IsList
<1>2. Len(s) \in Nat /\ Len(t) \in Nat /\ DOMAIN s = 1..Len(s) /\ DOMAIN t = 1..Len(t)
  BY ListShape
<1> HIDE DEF S
<1>3. /\ s \o t \in Seq(S)
      /\ Len(s \o t) = Len(s) + Len(t)
      /\ \A i \in 1..(Len(s) + Len(t)) : (s \o t)[i] = IF i <= Len(s) THEN s[i] ELSE t[i - Len(s)]
  BY <1>1
<1>4. IsList(s \o t) /\ DOMAIN (s \o t) = 1..(Len(s) + Len(t))
  BY <1>3, TypedIsList, ListShape
<1>5. \A i \in DOMAIN s : (s \o t)[i] = s[i]
  BY <1>2, <1>3
<1>6. ASSUME NEW i \in DOMAIN (s \o t)
      PROVE  /\ i <= Len(s) => i \in DOMAIN s /\ (s \o t)[i] = s[i]
             /\ i > Len(s) => i - Len(s) \in DOMAIN t /\ (s \o t)[i] = t[i - Len(s)]
  BY <1>2, <1>3, <1>4
<1> QED
  BY <1>2, <1>3, <1>4, <1>5, <1>6

(* Taking the head moves every other element one place forward.             *)
LEMMA TailShape ==
  ASSUME NEW s, IsList(s), s # <<>>
  PROVE  /\ Head(s) = s[1]
         /\ IsList(Tail(s))
         /\ Len(s) \in Nat \ {0}
         /\ DOMAIN s = 1..Len(s)
         /\ Len(Tail(s)) = Len(s) - 1
         /\ DOMAIN Tail(s) = 1..(Len(s) - 1)
         /\ \A i \in DOMAIN Tail(s) : i + 1 \in DOMAIN s /\ Tail(s)[i] = s[i + 1]
<1> DEFINE S == {s[i] : i \in DOMAIN s}
<1>1. s \in Seq(S)
  BY DEF IsList
<1>2. DOMAIN s = 1..Len(s) /\ Len(s) \in Nat /\ Len(s) # 0
  BY ListShape
<1> HIDE DEF S
<1>3. /\ Head(s) = s[1] /\ Tail(s) \in Seq(S)
      /\ Len(Tail(s)) = Len(s) - 1
      /\ \A i \in 1..Len(Tail(s)) : Tail(s)[i] = s[i + 1]
  BY <1>1
<1>4. IsList(Tail(s)) /\ DOMAIN Tail(s) = 1..Len(Tail(s))
  BY <1>3, TypedIsList, ListShape
<1> QED
  BY <1>2, <1>3, <1>4

-----------------------------------------------------------------------------
(* The inductive invariant.                                                 *)

(* What a task is known by here: the module of a tick, else its name.       *)
Mark(task) == IF task[1] = "tick" THEN task[2] ELSE task[1]

Marks == {"cycles", "eps", "arm"}

(* Handlers of a scenario event or of a telemetry event.                    *)
Plain == {"rule", "record", "override", "named_fault", "send"}

Quiet(tasks) == IsList(tasks) /\ \A i \in DOMAIN tasks : tasks[i][1] \in Plain

(* Calls that neither loop nor wait for a condition nor belong to a         *)
(* physical step.                                                           *)
Harmless(tasks) ==
  /\ IsList(tasks)
  /\ \A i \in DOMAIN tasks : tasks[i][1] \notin {"until", "check"} /\ Mark(tasks[i]) \notin Marks

Unmarked(tasks) == IsList(tasks) /\ \A i \in DOMAIN tasks : Mark(tasks[i]) \notin Marks

(* Envelopes on the bus.                                                    *)
Bus(b) == IsList(b) /\ \A i \in DOMAIN b : b[i][1] \in {"command", "telemetry"}

(* The queue of the engine: sorted, nothing of the past, and each event     *)
(* either the physical step or quiet.                                       *)
Agenda(g, t) ==
  /\ IsList(g)
  /\ \A i \in DOMAIN g :
       /\ g[i].time \in Nat /\ t <= g[i].time
       /\ g[i].handlers = PhysicalStep \/ Quiet(g[i].handlers)
  /\ \A i, j \in DOMAIN g : i <= j => g[i].time <= g[j].time

(* Only the lowest run_until may still be on its way to its target.         *)
Loops(s, t) ==
  \A i \in DOMAIN s : s[i][1] = "until" =>
    /\ s[i][2] \in Nat /\ t <= s[i][2]
    /\ \A j \in DOMAIN s : j < i /\ s[j][1] = "until" => s[j][2] = t

NoLoop(s) == \A i \in DOMAIN s : s[i][1] # "until"

(* No run_until is on its way.                                              *)
AtTarget(s, t) == \A i \in DOMAIN s : s[i][1] = "until" => s[i][2] = t

NoCheck(s) == \A i \in DOMAIN s : s[i][1] # "check"

(* A scenario step ends in a settle or in its assertion.                    *)
Bottom(s) ==
  /\ s # <<>> => s[Len(s)][1] \in {"settle", "check"}
  /\ \A i \in DOMAIN s : s[i][1] = "check" => i = Len(s)

(* An assertion waits: the run_until it has called stays within its         *)
(* deadline and skips no event, and while it is on its way the condition is *)
(* unmet.                                                                   *)
Waiting(n) ==
  /\ verdict = None /\ ~held
  /\ todo[n][3] \in Nat /\ now <= todo[n][3]
  /\ \A i \in DOMAIN todo : todo[i][1] = "until" =>
       /\ todo[i][2] <= todo[n][3]
       /\ now < todo[i][2] => /\ i = 1 /\ ~Holds(todo[n][2])
                              /\ \A e \in DOMAIN agenda : todo[i][2] <= agenda[e].time

At(s, mark, i) ==
  /\ i \in DOMAIN s /\ Mark(s[i]) = mark
  /\ \A j \in DOMAIN s : Mark(s[j]) = mark => j = i

Absent(s, mark) == \A i \in DOMAIN s : Mark(s[i]) # mark

(* The last task of a physical step, above the run_until it was called by.  *)
Arm(s, a) == At(s, "arm", a) /\ \E j \in DOMAIN s : a < j /\ s[j][1] = "until"

Armed(g) == {i \in DOMAIN g : g[i].handlers = PhysicalStep}

ArmedAt(g, t) == \E i \in DOMAIN g : Armed(g) = {i} /\ g[i].time = t

(* No physical step is in progress, and the next one is armed; or the cycle *)
(* is not counted yet; or the EPS is not ticked yet; or all that is left is *)
(* to arm the next step.                                                    *)
Resting(s, g, t, c, k) ==
  /\ \A m \in Marks : Absent(s, m)
  /\ ArmedAt(g, Step * (c + 1))
  /\ k = c /\ Step * c <= t

Counting(s, g, t, c, k) ==
  /\ Armed(g) = {}
  /\ \E n, e, a \in DOMAIN s : At(s, "cycles", n) /\ At(s, "eps", e) /\ Arm(s, a) /\ n < e /\ e < a
  /\ k = c /\ t = Step * (c + 1)

Ticking(s, g, t, c, k) ==
  /\ Armed(g) = {}
  /\ Absent(s, "cycles")
  /\ \E e, a \in DOMAIN s : At(s, "eps", e) /\ Arm(s, a) /\ e < a
  /\ k = c - 1 /\ t = Step * c

Arming(s, g, t, c, k) ==
  /\ Armed(g) = {}
  /\ Absent(s, "cycles") /\ Absent(s, "eps")
  /\ \E a \in DOMAIN s : Arm(s, a)
  /\ k = c /\ t = Step * c

InStep(s, g, t, c, k) ==
  \/ Counting(s, g, t, c, k)
  \/ Ticking(s, g, t, c, k)
  \/ Arming(s, g, t, c, k)

ListsInv ==
  /\ IsList(todo) /\ Bus(bus) /\ Agenda(agenda, now)
  /\ maxSettle \in Nat /\ now \in Nat /\ cycle \in Nat

CallsInv == Loops(todo, now) /\ Bottom(todo)

CheckInv == \A n \in DOMAIN todo : todo[n][1] = "check" => Waiting(n)

StepInv ==
  \/ Resting(todo, agenda, now, cycle, ticks)
  \/ InStep(todo, agenda, now, cycle, ticks)

TestbedInv ==
  ListsInv /\ CallsInv /\ SettledBetweenSteps /\ CheckInv /\ VerdictsHonest /\ StepInv

-----------------------------------------------------------------------------
(* Lists of calls.                                                          *)

(* Harmless calls put together are harmless.                                *)
LEMMA HarmlessConcat ==
  ASSUME NEW a, Harmless(a), NEW b, Harmless(b)
  PROVE  Harmless(a \o b)
<1>1. IsList(a) /\ IsList(b)
  BY DEF Harmless
<1>2. /\ IsList(a \o b)
      /\ DOMAIN (a \o b) = 1..(Len(a) + Len(b)) /\ Len(a) \in Nat
      /\ \A i \in DOMAIN (a \o b) : i <= Len(a) => i \in DOMAIN a /\ (a \o b)[i] = a[i]
      /\ \A i \in DOMAIN (a \o b) : i > Len(a) => i - Len(a) \in DOMAIN b /\ (a \o b)[i] = b[i - Len(a)]
  BY <1>1, ConcatShape
<1>3. \A i \in DOMAIN (a \o b) : \/ \E k \in DOMAIN a : (a \o b)[i] = a[k]
                                 \/ \E k \in DOMAIN b : (a \o b)[i] = b[k]
  BY <1>1, <1>2, ListShape
<1> QED
  BY <1>2, <1>3 DEF Harmless

(* What is left of harmless calls is harmless.                              *)
LEMMA HarmlessTail ==
  ASSUME NEW a, Harmless(a), a # <<>>
  PROVE  Harmless(Tail(a))
<1>1. IsList(a)
  BY DEF Harmless
<1>2. IsList(Tail(a)) /\ \A i \in DOMAIN Tail(a) : i + 1 \in DOMAIN a /\ Tail(a)[i] = a[i + 1]
  BY <1>1, TailShape
<1> QED
  BY <1>2 DEF Harmless

(* Calls that neither loop nor tick are harmless.                           *)
LEMMA QuietHarmless ==
  ASSUME NEW a, Quiet(a)
  PROVE  Harmless(a)
BY DEF Quiet, Plain, Harmless, Mark, Marks

(* A round on the bus is harmless.                                          *)
LEMMA BusHarmless ==
  ASSUME NEW b, Bus(b)
  PROVE  Harmless(b)
BY DEF Bus, Harmless, Mark, Marks

(* One call is a list of calls.                                             *)
LEMMA SingleShape ==
  ASSUME NEW x
  PROVE  /\ IsList(<<x>>) /\ Len(<<x>>) = 1 /\ DOMAIN <<x>> = {1} /\ <<x>>[1] = x
         /\ <<x>> # <<>>
<1>1. <<x>> \in Seq({x}) /\ Len(<<x>>) = 1 /\ DOMAIN <<x>> = {1} /\ <<x>>[1] = x
  OBVIOUS
<1> QED
  BY <1>1, TypedIsList

(* No calls at all.                                                         *)
LEMMA NothingShape == Harmless(<<>>) /\ Len(<<>>) = 0 /\ DOMAIN <<>> = {}
<1>1. <<>> \in Seq({}) /\ Len(<<>>) = 0 /\ DOMAIN <<>> = {}
  OBVIOUS
<1> QED
  BY <1>1, TypedIsList DEF Harmless

(* _run_current_events is one call, and a harmless one.                     *)
LEMMA SettleShape ==
  Harmless(Settle) /\ Len(Settle) = 1 /\ DOMAIN Settle = {1} /\ Settle[1][1] = "settle"
<1> DEFINE task == <<"settle", maxSettle>>
<1>1. task[1] = "settle" /\ Mark(task) \notin Marks
  BY DEF Mark, Marks
<1>2. Settle = <<task>>
  BY DEF Settle
<1> HIDE DEF task
<1>3. IsList(Settle) /\ Len(Settle) = 1 /\ DOMAIN Settle = {1} /\ Settle[1] = task
  BY <1>2, SingleShape
<1> QED
  BY <1>1, <1>3 DEF Harmless

(* _emit_configured_telemetry ends by settling.                             *)
LEMMA EmissionShape ==
  /\ Harmless(Emission) /\ Len(Emission) \in Nat \ {0}
  /\ Emission[Len(Emission)][1] = "settle"
<1> DEFINE emits == [i \in DOMAIN TelemetryOrder |-> <<"emit", TelemetryOrder[i]>>]
<1>1. Len(TelemetryOrder) \in Nat /\ DOMAIN TelemetryOrder = 1..Len(TelemetryOrder)
  BY TestbedAssumption, ListShape
<1>2. ASSUME NEW i \in DOMAIN emits
      PROVE  emits[i][1] = "emit" /\ Mark(emits[i]) = "emit"
  BY DEF Mark
<1>3. emits = [i \in 1..Len(TelemetryOrder) |-> emits[i]]
  BY <1>1
<1>4. Emission = emits \o Settle
  BY DEF Emission
<1> HIDE DEF emits
<1>5. IsList(emits) /\ Len(emits) \in Nat
  BY <1>1, <1>3, ListBuilt
<1>6. Harmless(emits)
  BY <1>2, <1>5 DEF Harmless, Marks
<1>7. IsList(Settle) /\ 1 \in DOMAIN Settle /\ Len(Settle) = 1
  BY SettleShape DEF Harmless
<1>8. Len(Emission) = Len(emits) + 1 /\ Emission[Len(emits) + 1] = Settle[1]
  <2>1. /\ Len(emits \o Settle) = Len(emits) + Len(Settle)
        /\ DOMAIN (emits \o Settle) = 1..(Len(emits) + Len(Settle))
        /\ \A i \in DOMAIN (emits \o Settle) :
             i > Len(emits) => (emits \o Settle)[i] = Settle[i - Len(emits)]
    BY <1>5, <1>7, ConcatShape
  <2> QED
    BY <1>4, <1>5, <1>7, <2>1
<1>9. Harmless(Emission)
  BY <1>4, <1>6, SettleShape, HarmlessConcat
<1> QED
  BY <1>5, <1>8, <1>9, SettleShape

(* _on_step: one count of the cycles, one tick of the EPS after it, and the *)
(* next step armed at the very end.                                         *)
LEMMA PhysicalStepShape ==
  /\ IsList(PhysicalStep) /\ PhysicalStep # <<>>
  /\ PhysicalStep[1][1] = "settle"
  /\ \A i \in DOMAIN PhysicalStep : PhysicalStep[i][1] \notin {"until", "check"}
  /\ At(PhysicalStep, "cycles", 2) /\ At(PhysicalStep, "eps", 4)
  /\ At(PhysicalStep, "arm", Len(PhysicalStep)) /\ Len(PhysicalStep) > 4
<1> DEFINE front == <<<<"settle", maxSettle>>, <<"cycles">>, <<"tick", "payload">>, <<"tick", "eps">>>>
           last == <<<<"arm">>>>
           mid == front \o Emission
           p == PhysicalStep
<1>1. p = mid \o last /\ mid = front \o Emission
  BY DEF PhysicalStep, Settle, Ticks
<1>2. /\ IsList(front) /\ Len(front) = 4 /\ DOMAIN front = 1..4
      /\ \A i \in 1..4 : front[i][1] \notin {"until", "check"}
      /\ front[1][1] = "settle" /\ Mark(front[1]) = "settle"
      /\ Mark(front[2]) = "cycles" /\ Mark(front[3]) = "payload" /\ Mark(front[4]) = "eps"
  <2>1. /\ Len(front) = 4 /\ DOMAIN front = 1..4
        /\ front[1] = <<"settle", maxSettle>> /\ front[2] = <<"cycles">>
        /\ front[3] = <<"tick", "payload">> /\ front[4] = <<"tick", "eps">>
    OBVIOUS
  <2>2. front = [i \in 1..4 |-> front[i]]
    OBVIOUS
  <2>3. IsList(front)
    BY <2>2, ListBuilt
  <2> QED
    BY <2>1, <2>3 DEF Mark
<1>3. /\ IsList(last) /\ Len(last) = 1 /\ DOMAIN last = {1}
      /\ last[1][1] = "arm" /\ Mark(last[1]) = "arm"
  <2>1. last[1] = <<"arm">>
    OBVIOUS
  <2> QED
    BY <2>1, SingleShape DEF Mark
<1> HIDE DEF front, last, mid, p
<1>4. Harmless(Emission) /\ IsList(Emission) /\ Len(Emission) \in Nat \ {0} /\ DOMAIN Emission = 1..Len(Emission)
  BY EmissionShape, ListShape DEF Harmless
<1>5. /\ IsList(mid) /\ Len(mid) = 4 + Len(Emission) /\ DOMAIN mid = 1..Len(mid)
      /\ \A i \in 1..4 : mid[i] = front[i]
      /\ \A i \in DOMAIN mid : i > 4 => i - 4 \in DOMAIN Emission /\ mid[i] = Emission[i - 4]
  <2>0. IsList(front) /\ IsList(Emission)
    BY <1>2, <1>4
  <2>1. /\ IsList(mid) /\ Len(mid) = Len(front) + Len(Emission) /\ DOMAIN mid = 1..(Len(front) + Len(Emission))
        /\ \A i \in DOMAIN front : mid[i] = front[i]
        /\ \A i \in DOMAIN mid :
             i > Len(front) => i - Len(front) \in DOMAIN Emission /\ mid[i] = Emission[i - Len(front)]
    BY <1>1, <2>0, ConcatShape
  <2> QED
    BY <1>2, <1>4, <2>1
<1>6. /\ IsList(p) /\ Len(p) = Len(mid) + 1 /\ DOMAIN p = 1..Len(p)
      /\ \A i \in DOMAIN mid : p[i] = mid[i]
      /\ p[Len(p)] = last[1]
  <2>0. IsList(mid) /\ IsList(last)
    BY <1>3, <1>5
  <2>1. /\ IsList(p) /\ Len(p) = Len(mid) + Len(last) /\ DOMAIN p = 1..(Len(mid) + Len(last))
        /\ \A i \in DOMAIN mid : p[i] = mid[i]
        /\ \A i \in DOMAIN p : i > Len(mid) => p[i] = last[i - Len(mid)]
    BY <1>1, <2>0, ConcatShape, ZenonT(40)
  <2> QED
    BY <1>3, <1>5, <2>1
<1>7. /\ Len(p) \in Nat /\ Len(p) > 5
      /\ \A i \in 1..4 : i \in DOMAIN p /\ p[i] = front[i]
      /\ \A i \in DOMAIN p : i <= 4 \/ i = Len(p) \/ \E k \in DOMAIN Emission : p[i] = Emission[k]
  BY <1>4, <1>5, <1>6
<1>8. \A k \in DOMAIN Emission : Emission[k][1] \notin {"until", "check"} /\ Mark(Emission[k]) \notin Marks
  BY <1>4 DEF Harmless
<1>9. \A i \in DOMAIN p : p[i][1] \notin {"until", "check"}
  BY <1>2, <1>3, <1>6, <1>7, <1>8
<1>10. /\ Mark(p[2]) = "cycles" /\ Mark(p[4]) = "eps" /\ Mark(p[Len(p)]) = "arm"
       /\ \A i \in DOMAIN p : Mark(p[i]) = "cycles" => i = 2
       /\ \A i \in DOMAIN p : Mark(p[i]) = "eps" => i = 4
       /\ \A i \in DOMAIN p : Mark(p[i]) = "arm" => i = Len(p)
  BY <1>2, <1>3, <1>6, <1>7, <1>8 DEF Marks
<1>11. p # <<>> /\ 2 \in DOMAIN p /\ 4 \in DOMAIN p /\ Len(p) \in DOMAIN p
  BY <1>6, <1>7
<1>12. p[1][1] = "settle"
  BY <1>2, <1>7
<1> QED
  BY <1>6, <1>7, <1>9, <1>10, <1>11, <1>12 DEF At, p

(* A physical step is not quiet.                                            *)
LEMMA StepIsNotQuiet ==
  ASSUME NEW tasks, Quiet(tasks)
  PROVE  tasks # PhysicalStep
<1>1. 1 \in DOMAIN PhysicalStep
  BY PhysicalStepShape, TailShape
<1> QED
  BY <1>1, PhysicalStepShape DEF Quiet, Plain

(* A call replaces the head by the tasks it makes; the rest moves along.    *)
LEMMA CallShape ==
  ASSUME NEW a, IsList(a), NEW s, IsList(s), s # <<>>
  PROVE  /\ IsList(a \o Tail(s))
         /\ Len(a) \in Nat /\ Len(s) \in Nat \ {0}
         /\ DOMAIN s = 1..Len(s)
         /\ Len(a \o Tail(s)) = Len(a) + Len(s) - 1
         /\ DOMAIN (a \o Tail(s)) = 1..(Len(a) + Len(s) - 1)
         /\ \A i \in DOMAIN (a \o Tail(s)) :
              i <= Len(a) => i \in DOMAIN a /\ (a \o Tail(s))[i] = a[i]
         /\ \A i \in DOMAIN (a \o Tail(s)) :
              i > Len(a) => /\ i - Len(a) + 1 \in DOMAIN s /\ i - Len(a) + 1 > 1
                            /\ (a \o Tail(s))[i] = s[i - Len(a) + 1]
<1> DEFINE t == Tail(s)
<1>1. /\ IsList(t) /\ Len(s) \in Nat \ {0} /\ DOMAIN s = 1..Len(s) /\ Len(t) = Len(s) - 1
      /\ DOMAIN t = 1..(Len(s) - 1)
      /\ \A i \in DOMAIN t : i + 1 \in DOMAIN s /\ t[i] = s[i + 1]
  BY TailShape
<1> HIDE DEF t
<1>2. IsList(t)
  BY <1>1
<1>3. /\ IsList(a \o t) /\ Len(a) \in Nat /\ Len(a \o t) = Len(a) + Len(t)
      /\ DOMAIN (a \o t) = 1..(Len(a) + Len(t))
      /\ \A i \in DOMAIN (a \o t) : i <= Len(a) => i \in DOMAIN a /\ (a \o t)[i] = a[i]
      /\ \A i \in DOMAIN (a \o t) : i > Len(a) => i - Len(a) \in DOMAIN t /\ (a \o t)[i] = t[i - Len(a)]
  BY <1>2, ConcatShape
<1>4. ASSUME NEW i \in DOMAIN (a \o t), i > Len(a)
      PROVE  i - Len(a) + 1 \in DOMAIN s /\ i - Len(a) + 1 > 1 /\ (a \o t)[i] = s[i - Len(a) + 1]
  BY <1>1, <1>3, <1>4
<1> QED
  BY <1>1, <1>3, <1>4 DEF t

(* A mark at the head goes with it, and the others keep their order under   *)
(* unmarked calls.                                                          *)
LEMMA MarksKept ==
  ASSUME NEW a, Unmarked(a), NEW s, IsList(s), s # <<>>, NEW m \in Marks
  PROVE  /\ Absent(s, m) => Absent(a \o Tail(s), m)
         /\ At(s, m, 1) => Absent(a \o Tail(s), m)
         /\ \A i : At(s, m, i) /\ i # 1 => At(a \o Tail(s), m, Len(a) + i - 1)
<1> DEFINE r == a \o Tail(s)
<1>1. IsList(a) /\ \A i \in DOMAIN a : Mark(a[i]) # m
  BY DEF Unmarked
<1>2. /\ Len(a) \in Nat /\ Len(s) \in Nat \ {0} /\ DOMAIN s = 1..Len(s)
      /\ DOMAIN r = 1..(Len(a) + Len(s) - 1)
      /\ \A i \in DOMAIN r : i <= Len(a) => i \in DOMAIN a /\ r[i] = a[i]
      /\ \A i \in DOMAIN r : i > Len(a) => /\ i - Len(a) + 1 \in DOMAIN s /\ i - Len(a) + 1 > 1
                                           /\ r[i] = s[i - Len(a) + 1]
  BY <1>1, CallShape
<1> HIDE DEF r
<1>3. \A i \in DOMAIN r : Mark(r[i]) = m =>
        /\ i > Len(a) /\ i - Len(a) + 1 \in DOMAIN s /\ i - Len(a) + 1 # 1
        /\ Mark(s[i - Len(a) + 1]) = m
  BY <1>1, <1>2
<1>4. Absent(s, m) => Absent(r, m)
  BY <1>3 DEF Absent
<1>5. At(s, m, 1) => Absent(r, m)
  BY <1>3 DEF Absent, At
<1>6. ASSUME NEW i, At(s, m, i), i # 1
      PROVE  At(r, m, Len(a) + i - 1)
  <2> DEFINE p == Len(a) + i - 1
  <2>1. i \in DOMAIN s /\ Mark(s[i]) = m /\ \A j \in DOMAIN s : Mark(s[j]) = m => j = i
    BY <1>6 DEF At
  <2>2. p \in DOMAIN r /\ p > Len(a) /\ p - Len(a) + 1 = i
    BY <1>2, <1>6, <2>1
  <2>3. r[p] = s[i]
    BY <1>2, <2>2
  <2>4. ASSUME NEW j \in DOMAIN r, Mark(r[j]) = m
        PROVE  j = p
    <3>1. j - Len(a) + 1 = i
      BY <1>3, <2>1, <2>4
    <3> QED
      BY <1>2, <2>1, <3>1
  <2> HIDE DEF p
  <2>5. At(r, m, p)
    BY <2>1, <2>2, <2>3, <2>4 DEF At
  <2> QED
    BY <2>5 DEF p
<1> QED
  BY <1>4, <1>5, <1>6 DEF r

(* Calls without marks move an arming of the next step along, nothing else. *)
LEMMA ArmKept ==
  ASSUME NEW a, Unmarked(a), NEW s, IsList(s), s # <<>>, NEW i, Arm(s, i), i # 1
  PROVE  Arm(a \o Tail(s), Len(a) + i - 1)
<1> DEFINE r == a \o Tail(s)
<1>1. IsList(a)
  BY DEF Unmarked
<1>2. /\ Len(a) \in Nat /\ Len(s) \in Nat \ {0} /\ DOMAIN s = 1..Len(s)
      /\ DOMAIN r = 1..(Len(a) + Len(s) - 1)
      /\ \A k \in DOMAIN r : k > Len(a) => r[k] = s[k - Len(a) + 1]
  BY <1>1, CallShape
<1>3. "arm" \in Marks
  BY DEF Marks
<1>4. At(r, "arm", Len(a) + i - 1)
  BY <1>3, MarksKept DEF Arm
<1> HIDE DEF r
<1>5. PICK j \in DOMAIN s : i < j /\ s[j][1] = "until"
  BY DEF Arm
<1> DEFINE k == Len(a) + j - 1
<1>6. i \in DOMAIN s
  BY DEF Arm, At
<1>7. k \in DOMAIN r /\ k > Len(a) /\ k - Len(a) + 1 = j /\ Len(a) + i - 1 < k
  BY <1>2, <1>5, <1>6
<1>8. r[k] = s[j]
  BY <1>2, <1>7
<1> HIDE DEF k
<1> QED
  BY <1>4, <1>5, <1>7, <1>8 DEF Arm, r

(* Calls whose loops are all at the target t keep the loops in order, above *)
(* loops that are.                                                          *)
LEMMA LoopsCall ==
  ASSUME NEW t \in Nat, NEW s, IsList(s), s # <<>>, Loops(s, t), NEW a, IsList(a), AtTarget(a, t)
  PROVE  Loops(a \o Tail(s), t)
<1> DEFINE r == a \o Tail(s)
<1>1. /\ Len(a) \in Nat /\ DOMAIN r = 1..(Len(a) + Len(s) - 1) /\ Len(s) \in Nat \ {0}
      /\ DOMAIN s = 1..Len(s)
      /\ \A i \in DOMAIN r : i <= Len(a) => i \in DOMAIN a /\ r[i] = a[i]
      /\ \A i \in DOMAIN r : i > Len(a) => /\ i - Len(a) + 1 \in DOMAIN s /\ i - Len(a) + 1 > 1
                                           /\ r[i] = s[i - Len(a) + 1]
  BY CallShape
<1> HIDE DEF r
<1>2. ASSUME NEW i \in DOMAIN r, r[i][1] = "until", i <= Len(a)
      PROVE  r[i][2] = t
  BY <1>1, <1>2 DEF AtTarget
<1>3. ASSUME NEW i \in DOMAIN r, r[i][1] = "until"
      PROVE  /\ r[i][2] \in Nat /\ t <= r[i][2]
             /\ \A j \in DOMAIN r : j < i /\ r[j][1] = "until" => r[j][2] = t
  <2>1. CASE i <= Len(a)
    <3>1. r[i][2] = t
      BY <1>2, <1>3, <2>1
    <3>2. \A j \in DOMAIN r : j < i => j <= Len(a)
      BY <1>1, <2>1
    <3> QED
      BY <1>2, <3>1, <3>2
  <2>2. CASE i > Len(a)
    <3> DEFINE i0 == i - Len(a) + 1
    <3>1. i0 \in DOMAIN s /\ r[i] = s[i0]
      BY <1>1, <2>2
    <3>2. /\ s[i0][2] \in Nat /\ t <= s[i0][2]
          /\ \A j \in DOMAIN s : j < i0 /\ s[j][1] = "until" => s[j][2] = t
      BY <1>3, <3>1 DEF Loops
    <3>3. ASSUME NEW j \in DOMAIN r, j < i, r[j][1] = "until"
          PROVE  r[j][2] = t
      <4>1. CASE j <= Len(a)
        BY <1>2, <3>3, <4>1
      <4>2. CASE j > Len(a)
        <5>1. j - Len(a) + 1 \in DOMAIN s /\ r[j] = s[j - Len(a) + 1] /\ j - Len(a) + 1 < i0
          BY <1>1, <3>3, <4>2
        <5> QED
          BY <3>2, <3>3, <5>1
      <4> QED
        BY <1>1, <4>1, <4>2
    <3> QED
      BY <3>1, <3>2, <3>3
  <2> QED
    BY <1>1, <2>1, <2>2
<1> QED
  BY <1>3 DEF Loops, r

(* The lowest call still settles or checks after a call.                    *)
LEMMA BottomCall ==
  ASSUME NEW s, IsList(s), s # <<>>, Bottom(s), NEW a, IsList(a), NoCheck(a),
         Tail(s) = <<>> /\ a # <<>> => a[Len(a)][1] = "settle"
  PROVE  Bottom(a \o Tail(s))
<1> DEFINE r == a \o Tail(s)
<1>1. /\ Len(a) \in Nat /\ DOMAIN r = 1..(Len(a) + Len(s) - 1) /\ Len(s) \in Nat \ {0}
      /\ DOMAIN s = 1..Len(s) /\ IsList(r) /\ Len(r) = Len(a) + Len(s) - 1
      /\ \A i \in DOMAIN r : i <= Len(a) => i \in DOMAIN a /\ r[i] = a[i]
      /\ \A i \in DOMAIN r : i > Len(a) => /\ i - Len(a) + 1 \in DOMAIN s /\ i - Len(a) + 1 > 1
                                           /\ r[i] = s[i - Len(a) + 1]
  BY CallShape
<1>2. Tail(s) = <<>> <=> Len(s) = 1
  <2>1. IsList(Tail(s)) /\ Len(Tail(s)) = Len(s) - 1
    BY TailShape
  <2>2. Tail(s) = <<>> <=> Len(Tail(s)) = 0
    BY <2>1, ListShape
  <2> QED
    BY <1>1, <2>1, <2>2
<1>3. a = <<>> <=> Len(a) = 0
  BY ListShape
<1>4. r # <<>> => Len(r) \in DOMAIN r
  BY <1>1, ListShape
<1> HIDE DEF r
<1>5. ASSUME r # <<>>
      PROVE  r[Len(r)][1] \in {"settle", "check"}
  <2>1. CASE Len(s) = 1
    <3>1. Len(r) = Len(a) /\ Len(a) # 0
      BY <1>1, <1>4, <1>5, <2>1
    <3> QED
      BY <1>1, <1>2, <1>3, <1>4, <1>5, <2>1, <3>1
  <2>2. CASE Len(s) # 1
    <3>1. Len(r) > Len(a) /\ Len(r) - Len(a) + 1 = Len(s)
      BY <1>1, <2>2
    <3>2. r[Len(r)] = s[Len(s)]
      BY <1>1, <1>4, <1>5, <3>1
    <3> QED
      BY <3>2 DEF Bottom
  <2> QED
    BY <2>1, <2>2
<1>6. ASSUME NEW i \in DOMAIN r, r[i][1] = "check"
      PROVE  i = Len(r)
  <2>1. i > Len(a)
    BY <1>1, <1>6 DEF NoCheck
  <2>2. i - Len(a) + 1 = Len(s)
    BY <1>1, <1>6, <2>1 DEF Bottom
  <2> QED
    BY <1>1, <2>2
<1> QED
  BY <1>5, <1>6 DEF Bottom, r

-----------------------------------------------------------------------------
(* The queue of events.                                                     *)

(* ScheduleAt, of any two queues.                                           *)
Inserted(g, h, t, handlers) ==
  \E k \in 0..Len(g) :
    /\ \A i \in DOMAIN g : i <= k <=> g[i].time <= t
    /\ h = [i \in 1..(Len(g) + 1) |->
              IF i <= k THEN g[i]
              ELSE IF i = k + 1 THEN [time |-> t, handlers |-> handlers]
              ELSE g[i - 1]]

(* The new event stands behind those of its instant, the others in order.   *)
LEMMA InsertedShape ==
  ASSUME NEW g, IsList(g), NEW t, NEW handlers, NEW h, Inserted(g, h, t, handlers)
  PROVE  \E k \in 0..Len(g) :
           /\ Len(g) \in Nat /\ DOMAIN g = 1..Len(g)
           /\ IsList(h) /\ DOMAIN h = 1..(Len(g) + 1)
           /\ \A i \in DOMAIN g : i <= k <=> g[i].time <= t
           /\ h[k + 1].time = t /\ h[k + 1].handlers = handlers
           /\ \A i \in DOMAIN h : i <= k => i \in DOMAIN g /\ h[i] = g[i]
           /\ \A i \in DOMAIN h : i > k + 1 => i - 1 \in DOMAIN g /\ h[i] = g[i - 1]
           /\ \A i \in DOMAIN g : i > k => h[i + 1] = g[i]
<1> DEFINE event == [time |-> t, handlers |-> handlers]
<1>1. event.time = t /\ event.handlers = handlers
  OBVIOUS
<1>2. Len(g) \in Nat /\ DOMAIN g = 1..Len(g)
  BY ListShape
<1> HIDE DEF event
<1>3. PICK k \in 0..Len(g) :
        /\ \A i \in DOMAIN g : i <= k <=> g[i].time <= t
        /\ h = [i \in 1..(Len(g) + 1) |->
                  IF i <= k THEN g[i] ELSE IF i = k + 1 THEN event ELSE g[i - 1]]
  BY DEF Inserted, event
<1>4. h = [i \in 1..(Len(g) + 1) |-> h[i]]
  BY <1>3
<1>5. IsList(h) /\ DOMAIN h = 1..(Len(g) + 1)
  BY <1>2, <1>4, ListBuilt
<1>6. h[k + 1] = event
  BY <1>2, <1>3
<1>7. \A i \in DOMAIN h : i <= k => i \in DOMAIN g /\ h[i] = g[i]
  BY <1>2, <1>3, <1>5
<1>8. \A i \in DOMAIN h : i > k + 1 => i - 1 \in DOMAIN g /\ h[i] = g[i - 1]
  BY <1>2, <1>3, <1>5
<1>9. ASSUME NEW i \in DOMAIN g, i > k
      PROVE  h[i + 1] = g[i]
  <2>1. i + 1 \in 1..(Len(g) + 1) /\ ~(i + 1 <= k) /\ i + 1 # k + 1 /\ i + 1 - 1 = i
    BY <1>2, <1>9
  <2> QED
    BY <1>3, <2>1
<1> QED
  BY <1>1, <1>2, <1>3, <1>5, <1>6, <1>7, <1>8, <1>9

(* Scheduling keeps the agenda in order and its events of their kind.       *)
LEMMA AgendaInserted ==
  ASSUME NEW n \in Nat, NEW g, Agenda(g, n), NEW t \in Nat, n <= t, NEW handlers,
         handlers = PhysicalStep \/ Quiet(handlers), NEW h, Inserted(g, h, t, handlers)
  PROVE  Agenda(h, n)
<1>1. IsList(g)
  BY DEF Agenda
<1>2. PICK k \in 0..Len(g) :
        /\ Len(g) \in Nat /\ DOMAIN g = 1..Len(g)
        /\ IsList(h) /\ DOMAIN h = 1..(Len(g) + 1)
        /\ \A i \in DOMAIN g : i <= k <=> g[i].time <= t
        /\ h[k + 1].time = t /\ h[k + 1].handlers = handlers
        /\ \A i \in DOMAIN h : i <= k => i \in DOMAIN g /\ h[i] = g[i]
        /\ \A i \in DOMAIN h : i > k + 1 => i - 1 \in DOMAIN g /\ h[i] = g[i - 1]
  BY <1>1, InsertedShape
<1>3. \A i \in DOMAIN g : /\ g[i].time \in Nat /\ n <= g[i].time
                          /\ g[i].handlers = PhysicalStep \/ Quiet(g[i].handlers)
  BY DEF Agenda
<1>4. ASSUME NEW i \in DOMAIN h
      PROVE  \/ i <= k
             \/ i = k + 1
             \/ i > k + 1
  BY <1>2
<1>5. ASSUME NEW i \in DOMAIN h
      PROVE  /\ h[i].time \in Nat /\ n <= h[i].time
             /\ h[i].handlers = PhysicalStep \/ Quiet(h[i].handlers)
  BY <1>2, <1>3, <1>4
<1>6. ASSUME NEW i \in DOMAIN h, NEW j \in DOMAIN h, i <= j
      PROVE  h[i].time <= h[j].time
  <2>1. CASE j <= k
    <3>1. i <= k
      BY <1>2, <1>6, <2>1
    <3> QED
      BY <1>2, <1>6, <2>1, <3>1 DEF Agenda
  <2>2. CASE j = k + 1
    <3>1. i <= k \/ i = k + 1
      BY <1>2, <1>6, <2>2
    <3> QED
      BY <1>2, <1>6, <2>2, <3>1
  <2>3. CASE j > k + 1
    <3>1. j - 1 \in DOMAIN g /\ h[j] = g[j - 1] /\ j - 1 > k
      BY <1>2, <2>3
    <3>2. t <= g[j - 1].time
      BY <1>2, <1>3, <3>1
    <3>3. CASE i <= k
      <4>1. i \in DOMAIN g /\ h[i] = g[i] /\ i <= j - 1
        BY <1>2, <1>6, <3>1, <3>3
      <4> QED
        BY <3>1, <4>1 DEF Agenda
    <3>4. CASE i = k + 1
      BY <1>2, <3>1, <3>2, <3>4
    <3>5. CASE i > k + 1
      <4>1. i - 1 \in DOMAIN g /\ h[i] = g[i - 1] /\ i - 1 <= j - 1
        BY <1>2, <1>6, <3>5
      <4> QED
        BY <3>1, <4>1 DEF Agenda
    <3> QED
      BY <1>4, <3>3, <3>4, <3>5
  <2> QED
    BY <1>4, <2>1, <2>2, <2>3
<1> QED
  BY <1>2, <1>5, <1>6 DEF Agenda

(* A quiet event leaves the armed step as it is, the physical step arms it. *)
LEMMA ArmedInserted ==
  ASSUME NEW g, IsList(g), NEW t, NEW handlers, NEW h, Inserted(g, h, t, handlers)
  PROVE  /\ Quiet(handlers) /\ Armed(g) = {} => Armed(h) = {}
         /\ \A u : Quiet(handlers) /\ ArmedAt(g, u) => ArmedAt(h, u)
         /\ handlers = PhysicalStep /\ Armed(g) = {} => ArmedAt(h, t)
<1>1. PICK k \in 0..Len(g) :
        /\ Len(g) \in Nat /\ DOMAIN g = 1..Len(g)
        /\ DOMAIN h = 1..(Len(g) + 1)
        /\ h[k + 1].time = t /\ h[k + 1].handlers = handlers
        /\ \A i \in DOMAIN h : i <= k => i \in DOMAIN g /\ h[i] = g[i]
        /\ \A i \in DOMAIN h : i > k + 1 => i - 1 \in DOMAIN g /\ h[i] = g[i - 1]
        /\ \A i \in DOMAIN g : i > k => h[i + 1] = g[i]
  BY InsertedShape
<1>2. \A i \in DOMAIN h : i <= k \/ i = k + 1 \/ i > k + 1
  BY <1>1
<1>3. ASSUME Quiet(handlers)
      PROVE  handlers # PhysicalStep
  BY <1>3, StepIsNotQuiet
<1>4. ASSUME Quiet(handlers), Armed(g) = {}
      PROVE  Armed(h) = {}
  BY <1>1, <1>2, <1>3, <1>4 DEF Armed
<1>5. ASSUME NEW u, Quiet(handlers), ArmedAt(g, u)
      PROVE  ArmedAt(h, u)
  <2>1. PICK i \in DOMAIN g : Armed(g) = {i} /\ g[i].time = u
    BY <1>5 DEF ArmedAt
  <2>2. g[i].handlers = PhysicalStep /\ \A j \in DOMAIN g : g[j].handlers = PhysicalStep => j = i
    BY <2>1 DEF Armed
  <2>3. \A j \in DOMAIN h : h[j].handlers = PhysicalStep =>
          \/ j <= k /\ j = i
          \/ j > k + 1 /\ j - 1 = i
    BY <1>1, <1>2, <1>3, <1>5, <2>2
  <2>4. CASE i <= k
    <3>1. i \in DOMAIN h /\ h[i] = g[i]
      BY <1>1, <2>4
    <3>2. \A j \in DOMAIN h : h[j].handlers = PhysicalStep => j = i
      BY <1>1, <2>3, <2>4
    <3>3. Armed(h) = {i}
      BY <2>2, <3>1, <3>2 DEF Armed
    <3> QED
      BY <2>1, <3>1, <3>3 DEF ArmedAt
  <2>5. CASE i > k
    <3> DEFINE p == i + 1
    <3>1. p \in DOMAIN h /\ h[p] = g[i]
      BY <1>1, <2>5
    <3>2. \A j \in DOMAIN h : h[j].handlers = PhysicalStep => j = p
      BY <1>1, <2>3, <2>5
    <3> HIDE DEF p
    <3>3. Armed(h) = {p}
      BY <2>2, <3>1, <3>2 DEF Armed
    <3> QED
      BY <2>1, <3>1, <3>3 DEF ArmedAt
  <2> QED
    BY <1>1, <2>4, <2>5
<1>6. ASSUME handlers = PhysicalStep, Armed(g) = {}
      PROVE  ArmedAt(h, t)
  <2> DEFINE p == k + 1
  <2>1. \A j \in DOMAIN h : h[j].handlers = PhysicalStep => j = p
    BY <1>1, <1>2, <1>6 DEF Armed
  <2>2. p \in DOMAIN h /\ h[p].handlers = PhysicalStep /\ h[p].time = t
    BY <1>1, <1>6
  <2> HIDE DEF p
  <2>3. Armed(h) = {p}
    BY <2>1, <2>2 DEF Armed
  <2> QED
    BY <2>2, <2>3 DEF ArmedAt
<1> QED
  BY <1>4, <1>5, <1>6

(* The first event is the earliest, and takes the armed step with it if it  *)
(* is the armed one.                                                        *)
LEMMA AgendaTail ==
  ASSUME NEW n \in Nat, NEW g, Agenda(g, n), g # <<>>
  PROVE  /\ Head(g) = g[1] /\ 1 \in DOMAIN g
         /\ g[1].time \in Nat /\ n <= g[1].time
         /\ Agenda(Tail(g), g[1].time)
         /\ \A i \in DOMAIN g : g[1].time <= g[i].time
<1>1. IsList(g)
  BY DEF Agenda
<1>2. /\ Head(g) = g[1] /\ Len(g) \in Nat \ {0} /\ DOMAIN g = 1..Len(g)
      /\ IsList(Tail(g)) /\ DOMAIN Tail(g) = 1..(Len(g) - 1)
      /\ \A i \in DOMAIN Tail(g) : i + 1 \in DOMAIN g /\ Tail(g)[i] = g[i + 1]
  BY <1>1, TailShape
<1>3. 1 \in DOMAIN g /\ \A i \in DOMAIN g : 1 <= i
  BY <1>2
<1>4. \A i \in DOMAIN g : g[1].time <= g[i].time
  BY <1>3 DEF Agenda
<1>5. \A i, j \in DOMAIN Tail(g) : i <= j => i + 1 <= j + 1
  BY <1>2
<1>6. \A i, j \in DOMAIN Tail(g) : i <= j => Tail(g)[i].time <= Tail(g)[j].time
  BY <1>2, <1>5 DEF Agenda
<1>7. \A i \in DOMAIN Tail(g) :
        /\ Tail(g)[i].time \in Nat /\ g[1].time <= Tail(g)[i].time
        /\ Tail(g)[i].handlers = PhysicalStep \/ Quiet(Tail(g)[i].handlers)
  BY <1>2, <1>4 DEF Agenda
<1> QED
  BY <1>2, <1>3, <1>4, <1>6, <1>7 DEF Agenda

(* Taking a quiet event leaves the armed step armed.                        *)
LEMMA ArmedTail ==
  ASSUME NEW g, IsList(g), g # <<>>
  PROVE  /\ Armed(g) = {} => g[1].handlers # PhysicalStep /\ Armed(Tail(g)) = {}
         /\ \A t : ArmedAt(g, t) /\ g[1].handlers # PhysicalStep => ArmedAt(Tail(g), t)
         /\ \A t : ArmedAt(g, t) /\ g[1].handlers = PhysicalStep => Armed(Tail(g)) = {} /\ g[1].time = t
<1> DEFINE h == Tail(g)
<1>1. /\ Len(g) \in Nat \ {0} /\ DOMAIN g = 1..Len(g) /\ DOMAIN h = 1..(Len(g) - 1)
      /\ \A i \in DOMAIN h : i + 1 \in DOMAIN g /\ h[i] = g[i + 1]
  BY TailShape
<1> HIDE DEF h
<1>2. 1 \in DOMAIN g
  BY <1>1
<1>3. ASSUME Armed(g) = {}
      PROVE  g[1].handlers # PhysicalStep /\ Armed(h) = {}
  BY <1>1, <1>2, <1>3 DEF Armed
<1>4. ASSUME NEW t, ArmedAt(g, t), g[1].handlers # PhysicalStep
      PROVE  ArmedAt(h, t)
  <2>1. PICK i \in DOMAIN g : Armed(g) = {i} /\ g[i].time = t
    BY <1>4 DEF ArmedAt
  <2>2. g[i].handlers = PhysicalStep /\ \A j \in DOMAIN g : g[j].handlers = PhysicalStep => j = i
    BY <2>1 DEF Armed
  <2> DEFINE p == i - 1
  <2>3. i # 1
    BY <1>4, <2>2
  <2>4. p \in DOMAIN h /\ p + 1 = i
    BY <1>1, <2>3
  <2>5. h[p] = g[i]
    BY <1>1, <2>4
  <2>6. \A j \in DOMAIN h : h[j].handlers = PhysicalStep => j = p
    BY <1>1, <2>2
  <2> HIDE DEF p
  <2>7. Armed(h) = {p}
    BY <2>2, <2>4, <2>5, <2>6 DEF Armed
  <2> QED
    BY <2>1, <2>4, <2>5, <2>7 DEF ArmedAt
<1>5. ASSUME NEW t, ArmedAt(g, t), g[1].handlers = PhysicalStep
      PROVE  Armed(h) = {} /\ g[1].time = t
  <2>1. PICK i \in DOMAIN g : Armed(g) = {i} /\ g[i].time = t
    BY <1>5 DEF ArmedAt
  <2>2. i = 1 /\ \A j \in DOMAIN g : g[j].handlers = PhysicalStep => j = 1
    BY <1>2, <1>5, <2>1 DEF Armed
  <2>3. \A j \in DOMAIN h : j + 1 # 1
    BY <1>1
  <2> QED
    BY <1>1, <2>1, <2>2, <2>3 DEF Armed
<1> QED
  BY <1>3, <1>4, <1>5 DEF h

-----------------------------------------------------------------------------
(* Calls of a physical step.                                                *)

(* Nothing is marked below the physical step while none is in progress.     *)
LEMMA RestingCall ==
  ASSUME NEW s, IsList(s), s # <<>>, NEW g, NEW t \in Nat, NEW c \in Nat, NEW k,
         Resting(s, g, t, c, k), NEW a, Unmarked(a),
         NEW h, ArmedAt(h, Step * (c + 1)), NEW u \in Nat, t <= u
  PROVE  Resting(a \o Tail(s), h, u, c, k)
<1>1. \A m \in Marks : Absent(a \o Tail(s), m)
  BY MarksKept DEF Resting
<1>2. Step * c \in Nat
  BY TestbedAssumption
<1>3. Step * c <= u
  BY <1>2 DEF Resting
<1> QED
  BY <1>1, <1>3 DEF Resting

(* A physical step in progress stays where it is when something above it,   *)
(* which is not part of it, is called.                                      *)
LEMMA InStepCall ==
  ASSUME NEW s, IsList(s), s # <<>>, NEW g, NEW t, NEW c, NEW k, InStep(s, g, t, c, k),
         NEW a, Unmarked(a), Mark(s[1]) \notin Marks, NEW h, Armed(h) = {}
  PROVE  InStep(a \o Tail(s), h, t, c, k)
<1> DEFINE r == a \o Tail(s)
           Moved(i) == Len(a) + i - 1
<1>1. "cycles" \in Marks /\ "eps" \in Marks /\ "arm" \in Marks
  BY DEF Marks
<1>2. \A m \in Marks : \A i : At(s, m, i) => i # 1
  BY DEF At
<1>3. \A m \in Marks : /\ Absent(s, m) => Absent(r, m)
                       /\ \A i : At(s, m, i) => At(r, m, Moved(i))
  BY <1>2, MarksKept
<1>4. ASSUME NEW i, Arm(s, i)
      PROVE  Arm(r, Moved(i))
  BY <1>1, <1>2, <1>4, ArmKept DEF Arm
<1>5. Len(a) \in Nat /\ DOMAIN s = 1..Len(s) /\ Len(s) \in Nat
  BY ListShape DEF Unmarked
<1>6. \A i, j \in DOMAIN s : i < j => Moved(i) < Moved(j)
  BY <1>5
<1>7. \A m, i : At(r, m, i) => i \in DOMAIN r
  BY DEF At
<1>8. \A i : Arm(r, i) => i \in DOMAIN r
  BY <1>7 DEF Arm
<1> HIDE DEF r, Moved
<1>9. CASE Counting(s, g, t, c, k)
  <2>1. PICK n, e, b \in DOMAIN s :
          At(s, "cycles", n) /\ At(s, "eps", e) /\ Arm(s, b) /\ n < e /\ e < b
    BY <1>9 DEF Counting
  <2>2. At(r, "cycles", Moved(n)) /\ At(r, "eps", Moved(e)) /\ Arm(r, Moved(b))
    BY <1>1, <1>3, <1>4, <2>1
  <2>3. Moved(n) < Moved(e) /\ Moved(e) < Moved(b)
    BY <1>6, <2>1
  <2>4. Counting(r, h, t, c, k)
    BY <1>7, <1>8, <1>9, <2>2, <2>3 DEF Counting
  <2> QED
    BY <2>4 DEF InStep, r
<1>10. CASE Ticking(s, g, t, c, k)
  <2>1. PICK e, b \in DOMAIN s : At(s, "eps", e) /\ Arm(s, b) /\ e < b
    BY <1>10 DEF Ticking
  <2>2. At(r, "eps", Moved(e)) /\ Arm(r, Moved(b)) /\ Absent(r, "cycles")
    BY <1>1, <1>3, <1>4, <1>10, <2>1 DEF Ticking
  <2>3. Moved(e) < Moved(b)
    BY <1>6, <2>1
  <2>4. Ticking(r, h, t, c, k)
    BY <1>7, <1>8, <1>10, <2>2, <2>3 DEF Ticking
  <2> QED
    BY <2>4 DEF InStep, r
<1>11. CASE Arming(s, g, t, c, k)
  <2>1. PICK b \in DOMAIN s : Arm(s, b)
    BY <1>11 DEF Arming
  <2>2. Arm(r, Moved(b)) /\ Absent(r, "cycles") /\ Absent(r, "eps")
    BY <1>1, <1>3, <1>4, <1>11, <2>1 DEF Arming
  <2>3. Arming(r, h, t, c, k)
    BY <1>8, <1>11, <2>2 DEF Arming
  <2> QED
    BY <2>3 DEF InStep, r
<1> QED
  BY <1>9, <1>10, <1>11 DEF InStep

(* Above a physical step in progress every run_until is at its target.      *)
LEMMA StepHoldsTime ==
  ASSUME NEW s, IsList(s), NEW t, Loops(s, t), s # <<>>, s[1][1] = "until",
         NEW g, NEW c, NEW k, InStep(s, g, t, c, k)
  PROVE  s[1][2] = t
<1>1. PICK b : Arm(s, b)
  BY DEF InStep, Counting, Ticking, Arming
<1>2. PICK j \in DOMAIN s : b < j /\ s[j][1] = "until" /\ b \in DOMAIN s
  BY <1>1 DEF Arm, At
<1>3. 1 \in DOMAIN s /\ 1 < j
  BY <1>2, ListShape
<1> QED
  BY <1>2, <1>3 DEF Loops

(* Dispatching the armed step at its time begins it.                        *)
LEMMA StepBegins ==
  ASSUME NEW s, IsList(s), s # <<>>, NEW g, IsList(g), g # <<>>, NEW t, NEW c, NEW k,
         Resting(s, g, t, c, k), g[1].handlers = PhysicalStep, NEW u, u[1] = "until"
  PROVE  Counting((PhysicalStep \o <<u>>) \o Tail(s), Tail(g), g[1].time, c, k)
<1> DEFINE p == PhysicalStep
           a == p \o <<u>>
           r == a \o Tail(s)
           last == Len(p)
<1>1. Armed(Tail(g)) = {} /\ g[1].time = Step * (c + 1)
  BY ArmedTail DEF Resting
<1>2. /\ IsList(p) /\ last \in Nat /\ last > 4 /\ DOMAIN p = 1..last
      /\ At(p, "cycles", 2) /\ At(p, "eps", 4) /\ At(p, "arm", last)
  BY PhysicalStepShape, ListShape
<1>3. IsList(<<u>>) /\ Len(<<u>>) = 1 /\ DOMAIN <<u>> = {1} /\ <<u>>[1] = u
  BY SingleShape
<1>4. Mark(u) = "until"
  BY DEF Mark
<1> HIDE DEF p, last
<1>5. /\ IsList(a) /\ Len(a) = last + 1 /\ DOMAIN a = 1..(last + 1)
      /\ \A i \in DOMAIN p : a[i] = p[i]
      /\ \A i \in DOMAIN a : i > last => a[i] = <<u>>[i - last]
  <2>1. IsList(p) /\ IsList(<<u>>)
    BY <1>2, <1>3
  <2>2. /\ IsList(a) /\ Len(a) = Len(p) + Len(<<u>>) /\ DOMAIN a = 1..(Len(p) + Len(<<u>>))
        /\ \A i \in DOMAIN p : a[i] = p[i]
        /\ \A i \in DOMAIN a : i > Len(p) => a[i] = <<u>>[i - Len(p)]
    BY <2>1, ConcatShape
  <2> QED
    BY <1>2, <1>3, <2>2 DEF last
<1>6. \A i \in DOMAIN a : i \in DOMAIN p \/ (i = last + 1 /\ a[i] = u)
  BY <1>2, <1>3, <1>5
<1>7. last + 1 \in DOMAIN a /\ a[last + 1] = u
  BY <1>2, <1>5, <1>6
<1> HIDE DEF a
<1>8. /\ Len(s) \in Nat \ {0} /\ DOMAIN s = 1..Len(s) /\ DOMAIN r = 1..(Len(a) + Len(s) - 1)
      /\ \A i \in DOMAIN r : i <= Len(a) => i \in DOMAIN a /\ r[i] = a[i]
      /\ \A i \in DOMAIN r : i > Len(a) => i - Len(a) + 1 \in DOMAIN s /\ r[i] = s[i - Len(a) + 1]
  <2>1. IsList(a)
    BY <1>5
  <2> QED
    BY <2>1, CallShape, ZenonT(40)
<1> HIDE DEF r
<1>9. \A i \in DOMAIN a : i \in DOMAIN r /\ r[i] = a[i]
  BY <1>2, <1>5, <1>8
<1>10. ASSUME NEW m \in Marks, NEW i, At(p, m, i)
       PROVE  At(r, m, i)
  <2>1. i \in DOMAIN p /\ Mark(p[i]) = m /\ \A j \in DOMAIN p : Mark(p[j]) = m => j = i
    BY <1>10 DEF At
  <2>2. i \in DOMAIN a /\ i \in DOMAIN r /\ r[i] = p[i]
    BY <1>2, <1>5, <1>9, <2>1
  <2>3. ASSUME NEW j \in DOMAIN r, Mark(r[j]) = m
        PROVE  j = i
    <3>1. \A n \in DOMAIN s : Mark(s[n]) # m
      BY DEF Resting, Absent
    <3>2. j <= Len(a)
      BY <1>2, <1>5, <1>8, <2>3, <3>1
    <3>3. j \in DOMAIN a /\ r[j] = a[j]
      BY <1>8, <3>2
    <3>4. m # "until"
      BY DEF Marks
    <3>5. j \in DOMAIN p
      BY <1>4, <1>6, <2>3, <3>3, <3>4
    <3> QED
      BY <1>5, <2>1, <2>3, <3>3, <3>5
  <2> QED
    BY <2>1, <2>2, <2>3 DEF At
<1>11. At(r, "cycles", 2) /\ At(r, "eps", 4) /\ At(r, "arm", last)
  BY <1>2, <1>10 DEF Marks
<1>12. last + 1 \in DOMAIN r /\ r[last + 1] = u /\ last < last + 1
  BY <1>2, <1>7, <1>9
<1>13. Arm(r, last)
  BY <1>11, <1>12 DEF Arm
<1>14. 2 \in DOMAIN r /\ 4 \in DOMAIN r /\ last \in DOMAIN r /\ 2 < 4 /\ 4 < last
  BY <1>2, <1>11 DEF At
<1>15. k = c
  BY DEF Resting
<1> QED
  BY <1>1, <1>11, <1>13, <1>14, <1>15 DEF Counting, r, a, p

(* AdvanceCycles                                                            *)
LEMMA CyclesCounted ==
  ASSUME NEW s, IsList(s), s # <<>>, NEW g, NEW t, NEW c \in Nat, NEW k,
         Resting(s, g, t, c, k) \/ InStep(s, g, t, c, k), Mark(s[1]) = "cycles"
  PROVE  InStep(<<>> \o Tail(s), g, t, c + 1, k)
<1> DEFINE r == <<>> \o Tail(s)
<1>1. 1 \in DOMAIN s /\ "cycles" \in Marks /\ "eps" \in Marks /\ "arm" \in Marks
  BY TailShape DEF Marks
<1>2. ~Absent(s, "cycles")
  BY <1>1 DEF Absent
<1>3. Counting(s, g, t, c, k)
  BY <1>1, <1>2 DEF Resting, InStep, Ticking, Arming
<1>4. PICK n, e, b \in DOMAIN s :
        At(s, "cycles", n) /\ At(s, "eps", e) /\ Arm(s, b) /\ n < e /\ e < b
  BY <1>3 DEF Counting
<1>5. n = 1 /\ e # 1 /\ b # 1
  BY <1>1, <1>4 DEF At, Arm
<1>6. Unmarked(<<>>) /\ Len(<<>>) = 0
  BY NothingShape DEF Harmless, Unmarked
<1>7. Absent(r, "cycles") /\ At(r, "eps", 0 + e - 1) /\ Arm(r, 0 + b - 1)
  BY <1>1, <1>4, <1>5, <1>6, MarksKept, ArmKept
<1>8. DOMAIN s = 1..Len(s) /\ Len(s) \in Nat
  BY ListShape
<1>9. 0 + e - 1 < 0 + b - 1
  BY <1>4, <1>8
<1>10. 0 + e - 1 \in DOMAIN r /\ 0 + b - 1 \in DOMAIN r
  BY <1>7 DEF At, Arm
<1>11. Armed(g) = {} /\ k = c + 1 - 1 /\ t = Step * (c + 1)
  BY <1>3 DEF Counting
<1> HIDE DEF r
<1>12. Ticking(r, g, t, c + 1, k)
  BY <1>7, <1>9, <1>10, <1>11 DEF Ticking
<1> QED
  BY <1>12 DEF InStep, r

(* The tick of the EPS.                                                     *)
LEMMA EpsTicked ==
  ASSUME NEW s, IsList(s), s # <<>>, NEW g, NEW t, NEW c \in Nat, NEW k,
         Resting(s, g, t, c, k) \/ InStep(s, g, t, c, k), Mark(s[1]) = "eps"
  PROVE  InStep(<<>> \o Tail(s), g, t, c, k + 1)
<1> DEFINE r == <<>> \o Tail(s)
<1>1. 1 \in DOMAIN s /\ "cycles" \in Marks /\ "eps" \in Marks /\ "arm" \in Marks
  BY TailShape DEF Marks
<1>2. ~Absent(s, "eps") /\ \A i : At(s, "eps", i) => i = 1
  BY <1>1 DEF Absent, At
<1>3. Ticking(s, g, t, c, k)
  <2>1. ASSUME Counting(s, g, t, c, k)
        PROVE  FALSE
    <3>1. PICK n, e \in DOMAIN s : At(s, "eps", e) /\ n < e
      BY <2>1 DEF Counting
    <3>2. n < 1
      BY <1>2, <3>1
    <3> QED
      BY <3>1, <3>2, ListShape
  <2> QED
    BY <1>1, <1>2, <2>1 DEF Resting, InStep, Arming
<1>4. PICK e, b \in DOMAIN s : At(s, "eps", e) /\ Arm(s, b) /\ e < b
  BY <1>3 DEF Ticking
<1>5. e = 1 /\ b # 1
  BY <1>2, <1>4
<1>6. Unmarked(<<>>) /\ Len(<<>>) = 0
  BY NothingShape DEF Harmless, Unmarked
<1>7. Absent(r, "eps") /\ Absent(r, "cycles") /\ Arm(r, 0 + b - 1)
  BY <1>1, <1>3, <1>4, <1>5, <1>6, MarksKept, ArmKept DEF Ticking
<1>8. 0 + b - 1 \in DOMAIN r
  BY <1>7 DEF At, Arm
<1>9. Armed(g) = {} /\ k + 1 = c /\ t = Step * c
  BY <1>3 DEF Ticking
<1> HIDE DEF r
<1>10. Arming(r, g, t, c, k + 1)
  BY <1>7, <1>8, <1>9 DEF Arming
<1> QED
  BY <1>10 DEF InStep, r

(* ArmPhysicalStep: the step is over, one second before the next.           *)
LEMMA StepArmed ==
  ASSUME NEW s, IsList(s), s # <<>>, NEW g, IsList(g), NEW t \in Nat, NEW c \in Nat, NEW k,
         Resting(s, g, t, c, k) \/ InStep(s, g, t, c, k), Mark(s[1]) = "arm",
         NEW h, Inserted(g, h, t + Step, PhysicalStep)
  PROVE  Resting(<<>> \o Tail(s), h, t, c, k)
<1> DEFINE r == <<>> \o Tail(s)
<1>1. 1 \in DOMAIN s /\ "cycles" \in Marks /\ "eps" \in Marks /\ "arm" \in Marks
  BY TailShape DEF Marks
<1>2. ~Absent(s, "arm") /\ \A i : Arm(s, i) => i = 1
  BY <1>1 DEF Absent, At, Arm
<1>3. Arming(s, g, t, c, k)
  <2>1. ASSUME NEW e \in DOMAIN s, NEW b \in DOMAIN s, Arm(s, b), e < b
        PROVE  FALSE
    <3>1. e < 1
      BY <1>2, <2>1
    <3> QED
      BY <3>1, ListShape
  <2>2. ~Counting(s, g, t, c, k)
    BY <2>1 DEF Counting
  <2>3. ~Ticking(s, g, t, c, k)
    BY <2>1 DEF Ticking
  <2> QED
    BY <1>1, <1>2, <2>2, <2>3 DEF Resting, InStep
<1>4. At(s, "arm", 1)
  BY <1>2, <1>3 DEF Arming, Arm
<1>5. Unmarked(<<>>)
  BY NothingShape DEF Harmless, Unmarked
<1>6. Absent(r, "arm") /\ Absent(r, "cycles") /\ Absent(r, "eps")
  BY <1>1, <1>3, <1>4, <1>5, MarksKept DEF Arming
<1>7. ArmedAt(h, t + Step)
  BY <1>3, ArmedInserted DEF Arming
<1>8. t = Step * c /\ k = c
  BY <1>3 DEF Arming
<1>9. t + Step = Step * (c + 1) /\ Step * c <= t
  <2>1. Step * c \in Nat /\ Step \in Nat /\ Step * (c + 1) = Step * c + Step
    BY TestbedAssumption
  <2> QED
    BY <1>8, <2>1
<1> HIDE DEF r
<1> QED
  BY <1>6, <1>7, <1>8, <1>9 DEF Resting, Marks, r

-----------------------------------------------------------------------------
(* What a step does to the invariant, apart from the physical step.         *)

(* The limit is set once.                                                   *)
LEMMA InvPrimed ==
  ASSUME maxSettle' = maxSettle
  PROVE  /\ Agenda(agenda', now') => Agenda(agenda, now)'
         /\ Resting(todo', agenda', now', cycle', ticks') => Resting(todo, agenda, now, cycle, ticks)'
         /\ InStep(todo', agenda', now', cycle', ticks') => InStep(todo, agenda, now, cycle, ticks)'
<1>1. PhysicalStep' = PhysicalStep
  BY DEF PhysicalStep, Settle, Emission, Ticks
<1>2. Agenda(agenda', now') => Agenda(agenda, now)'
  BY <1>1 DEF Agenda, Quiet
<1>3. Resting(todo', agenda', now', cycle', ticks') => Resting(todo, agenda, now, cycle, ticks)'
  BY <1>1 DEF Resting, Armed, ArmedAt
<1>4. InStep(todo', agenda', now', cycle', ticks') => InStep(todo, agenda, now, cycle, ticks)'
  BY <1>1 DEF InStep, Counting, Ticking, Arming, Armed
<1> QED
  BY <1>2, <1>3, <1>4

(* What the invariant says of the call that is next.                        *)
LEMMA HeadFacts ==
  ASSUME TestbedInv, todo # <<>>
  PROVE  /\ IsList(todo) /\ Head(todo) = todo[1] /\ 1 \in DOMAIN todo
         /\ DOMAIN todo = 1..Len(todo) /\ Len(todo) \in Nat \ {0}
         /\ Tail(todo) = <<>> => Len(todo) = 1 /\ todo[1][1] \in {"settle", "check"}
         /\ todo[1][1] = "check" => Len(todo) = 1 /\ Tail(todo) = <<>>
<1>1. IsList(todo) /\ Bottom(todo)
  BY DEF TestbedInv, ListsInv, CallsInv
<1>2. /\ Head(todo) = todo[1] /\ Len(todo) \in Nat \ {0} /\ DOMAIN todo = 1..Len(todo)
      /\ IsList(Tail(todo)) /\ Len(Tail(todo)) = Len(todo) - 1
  BY <1>1, TailShape
<1>3. Tail(todo) = <<>> <=> Len(Tail(todo)) = 0
  BY <1>2, ListShape
<1>4. 1 \in DOMAIN todo
  BY <1>2
<1>5. Tail(todo) = <<>> <=> Len(todo) = 1
  BY <1>2, <1>3
<1> QED
  BY <1>1, <1>2, <1>4, <1>5 DEF Bottom

(* What is called stands before what is left.                               *)
LEMMA CallMade ==
  ASSUME IsList(todo), todo # <<>>, NEW a, IsList(a), Call(a)
  PROVE  /\ IsList(todo') /\ Len(a) \in Nat /\ DOMAIN todo = 1..Len(todo)
         /\ Len(todo) \in Nat \ {0} /\ Len(todo') = Len(a) + Len(todo) - 1
         /\ DOMAIN todo' = 1..(Len(a) + Len(todo) - 1)
         /\ \A i \in DOMAIN todo' : i <= Len(a) => i \in DOMAIN a /\ todo'[i] = a[i]
         /\ \A i \in DOMAIN todo' :
              i > Len(a) => /\ i - Len(a) + 1 \in DOMAIN todo /\ i - Len(a) + 1 > 1
                            /\ todo'[i] = todo[i - Len(a) + 1]
<1> DEFINE r == a \o Tail(todo)
<1>1. /\ IsList(r) /\ Len(a) \in Nat /\ DOMAIN todo = 1..Len(todo)
      /\ Len(todo) \in Nat \ {0} /\ Len(r) = Len(a) + Len(todo) - 1
      /\ DOMAIN r = 1..(Len(a) + Len(todo) - 1)
      /\ \A i \in DOMAIN r : i <= Len(a) => i \in DOMAIN a /\ r[i] = a[i]
      /\ \A i \in DOMAIN r :
           i > Len(a) => /\ i - Len(a) + 1 \in DOMAIN todo /\ i - Len(a) + 1 > 1
                         /\ r[i] = todo[i - Len(a) + 1]
  BY CallShape
<1>2. todo' = r
  BY DEF Call
<1> HIDE DEF r
<1> QED
  BY <1>1, <1>2

(* What is left below a call is still there.                                *)
LEMMA CallLeaves ==
  ASSUME IsList(todo), todo # <<>>, NEW a, IsList(a), Call(a), Tail(todo) # <<>>
  PROVE  todo' # <<>>
<1>1. /\ IsList(todo') /\ Len(todo') = Len(a) + Len(todo) - 1
      /\ Len(a) \in Nat /\ Len(todo) \in Nat \ {0}
  BY CallMade
<1>2. Len(todo) # 1
  <2>1. IsList(Tail(todo)) /\ Len(Tail(todo)) = Len(todo) - 1
    BY TailShape
  <2>2. Len(Tail(todo)) # 0
    BY <2>1, ListShape
  <2> QED
    BY <1>1, <2>1, <2>2
<1> QED
  BY <1>1, <1>2, ListShape

(* Calls within an instant: no loop they make or return to is on its way.   *)
LEMMA CallKeeps ==
  ASSUME TestbedInv, todo # <<>>, todo[1][1] # "check",
         NEW a, IsList(a), NoCheck(a), AtTarget(a, now),
         Call(a),
         Tail(todo) = <<>> /\ a # <<>> => a[Len(a)][1] = "settle",
         todo' = <<>> => Idle',
         Agenda(agenda', now), Bus(bus'), now' = now, cycle' \in Nat,
         verdict' = verdict, held' => held
  PROVE  ListsInv' /\ CallsInv' /\ SettledBetweenSteps' /\ CheckInv' /\ VerdictsHonest'
<1>1. /\ IsList(todo) /\ Loops(todo, now) /\ Bottom(todo) /\ now \in Nat /\ maxSettle \in Nat
      /\ CheckInv /\ VerdictsHonest
  BY DEF TestbedInv, ListsInv, CallsInv
<1>2. /\ IsList(todo') /\ Len(a) \in Nat /\ DOMAIN todo = 1..Len(todo)
      /\ Len(todo) \in Nat \ {0} /\ Len(todo') = Len(a) + Len(todo) - 1
      /\ DOMAIN todo' = 1..(Len(a) + Len(todo) - 1)
      /\ \A i \in DOMAIN todo' : i <= Len(a) => i \in DOMAIN a /\ todo'[i] = a[i]
      /\ \A i \in DOMAIN todo' :
           i > Len(a) => /\ i - Len(a) + 1 \in DOMAIN todo /\ i - Len(a) + 1 > 1
                         /\ todo'[i] = todo[i - Len(a) + 1]
  BY <1>1, CallMade
<1>3. ListsInv'
  BY <1>1, <1>2, InvPrimed DEF ListsInv, Call
<1>4. Loops(todo', now) /\ Bottom(todo')
  BY <1>1, LoopsCall, BottomCall DEF Call
<1>5. CallsInv'
  BY <1>4 DEF CallsInv, Loops, Bottom
<1>6. SettledBetweenSteps'
  BY DEF SettledBetweenSteps, Between
<1>7. ASSUME NEW n \in DOMAIN todo', todo'[n][1] = "check"
      PROVE  Waiting(n)'
  <2> DEFINE n0 == n - Len(a) + 1
  <2>1. n > Len(a)
    BY <1>2, <1>7 DEF NoCheck
  <2>2. n0 \in DOMAIN todo /\ todo'[n] = todo[n0]
    BY <1>2, <2>1
  <2> HIDE DEF n0
  <2>3. Waiting(n0)
    BY <1>1, <1>7, <2>2 DEF CheckInv
  <2>4. ASSUME NEW i \in DOMAIN todo', todo'[i][1] = "until"
        PROVE  todo'[i][2] <= todo[n0][3] /\ ~(now < todo'[i][2])
    <3>1. CASE i <= Len(a)
      <4>1. todo'[i][2] = now
        BY <1>2, <2>4, <3>1 DEF AtTarget
      <4>2. now <= todo[n0][3]
        BY <2>3 DEF Waiting
      <4> QED
        BY <1>1, <4>1, <4>2
    <3>2. CASE i > Len(a)
      <4> DEFINE i0 == i - Len(a) + 1
      <4>1. i0 \in DOMAIN todo /\ i0 > 1 /\ todo'[i] = todo[i0] /\ i0 # 1
        BY <1>2, <3>2
      <4> HIDE DEF i0
      <4> QED
        BY <2>3, <2>4, <4>1 DEF Waiting
    <3> QED
      BY <1>2, <3>1, <3>2
  <2>5. verdict' = None /\ ~held' /\ todo'[n][3] \in Nat /\ now' <= todo'[n][3]
    BY <2>2, <2>3 DEF Waiting
  <2>6. \A i \in DOMAIN todo' : todo'[i][1] = "until" =>
          todo'[i][2] <= todo'[n][3] /\ ~(now' < todo'[i][2])
    BY <2>2, <2>4
  <2> QED
    BY <2>5, <2>6 DEF Waiting
<1>8. CheckInv'
  BY <1>7 DEF CheckInv
<1>9. VerdictsHonest'
  BY <1>1 DEF VerdictsHonest
<1> QED
  BY <1>3, <1>5, <1>6, <1>8, <1>9

(* The loop that is on its way is alone.                                    *)
LEMMA LoneLoop ==
  ASSUME NEW s, IsList(s), s # <<>>, NEW t, Loops(s, t), s[1][1] = "until", s[1][2] # t
  PROVE  NoLoop(Tail(s))
<1>1. /\ DOMAIN Tail(s) = 1..(Len(s) - 1) /\ Len(s) \in Nat \ {0} /\ DOMAIN s = 1..Len(s)
      /\ \A i \in DOMAIN Tail(s) : i + 1 \in DOMAIN s /\ Tail(s)[i] = s[i + 1]
  BY TailShape
<1>2. 1 \in DOMAIN s /\ \A i \in DOMAIN Tail(s) : 1 < i + 1
  BY <1>1
<1>3. \A i \in DOMAIN Tail(s) : s[i + 1][1] # "until"
  BY <1>1, <1>2 DEF Loops
<1> QED
  BY <1>1, <1>3 DEF NoLoop

(* Calls put before others without a loop keep the loops in order.          *)
LEMMA LoopsAlone ==
  ASSUME NEW t, NEW a, IsList(a), Loops(a, t), NEW b, IsList(b), NoLoop(b)
  PROVE  Loops(a \o b, t)
<1> DEFINE r == a \o b
<1>1. /\ Len(a) \in Nat /\ DOMAIN r = 1..(Len(a) + Len(b)) /\ Len(b) \in Nat
      /\ \A i \in DOMAIN r : i <= Len(a) => i \in DOMAIN a /\ r[i] = a[i]
      /\ \A i \in DOMAIN r : i > Len(a) => i - Len(a) \in DOMAIN b /\ r[i] = b[i - Len(a)]
  BY ConcatShape
<1> HIDE DEF r
<1>2. \A i \in DOMAIN r : r[i][1] = "until" => i <= Len(a) /\ i \in DOMAIN a /\ r[i] = a[i]
  BY <1>1 DEF NoLoop
<1>3. Loops(r, t)
  BY <1>2 DEF Loops
<1> QED
  BY <1>3 DEF r

(* The lowest loop goes on its way, or arrives.                             *)
LEMMA MoveKeeps ==
  ASSUME TestbedInv, todo # <<>>, todo[1][1] = "until", now < todo[1][2],
         NEW a, IsList(a), NoCheck(a),
         Call(a),
         now' \in Nat, now <= now', now' <= todo[1][2], Loops(a, now'),
         (\A e \in DOMAIN agenda : todo[1][2] <= agenda[e].time) => AtTarget(a, now'),
         Agenda(agenda', now'), bus' = bus, cycle' = cycle,
         verdict' = verdict,
         held' = (held \/ (now' > now /\ \E i \in DOMAIN todo :
                             todo[i][1] = "check" /\ Holds(todo[i][2])))
  PROVE  ListsInv' /\ CallsInv' /\ SettledBetweenSteps' /\ CheckInv' /\ VerdictsHonest'
<1>1. /\ IsList(todo) /\ Loops(todo, now) /\ Bottom(todo) /\ now \in Nat /\ maxSettle \in Nat
      /\ Bus(bus) /\ cycle \in Nat /\ CheckInv /\ VerdictsHonest
  BY DEF TestbedInv, ListsInv, CallsInv
<1>2. /\ IsList(todo') /\ Len(a) \in Nat /\ DOMAIN todo = 1..Len(todo)
      /\ Len(todo) \in Nat \ {0} /\ Len(todo') = Len(a) + Len(todo) - 1
      /\ DOMAIN todo' = 1..(Len(a) + Len(todo) - 1)
      /\ \A i \in DOMAIN todo' : i <= Len(a) => i \in DOMAIN a /\ todo'[i] = a[i]
      /\ \A i \in DOMAIN todo' :
           i > Len(a) => /\ i - Len(a) + 1 \in DOMAIN todo /\ i - Len(a) + 1 > 1
                         /\ todo'[i] = todo[i - Len(a) + 1]
  BY <1>1, CallMade
<1>3. ListsInv'
  BY <1>1, <1>2, InvPrimed DEF ListsInv, Bus, Call
<1>4. todo[1][2] # now /\ 1 \in DOMAIN todo
  BY <1>1, <1>2 DEF Loops
<1>5. NoLoop(Tail(todo)) /\ IsList(Tail(todo))
  BY <1>1, <1>4, LoneLoop, TailShape
<1>6. Tail(todo) # <<>> /\ Len(todo) > 1
  <2>1. Tail(todo) # <<>>
    BY HeadFacts
  <2>2. Len(todo) # 1
    BY <1>1, <1>2, <1>4 DEF Bottom
  <2> QED
    BY <1>2, <2>1, <2>2
<1>7. Loops(todo', now') /\ Bottom(todo')
  BY <1>1, <1>5, <1>6, LoopsAlone, BottomCall DEF Call
<1>8. CallsInv'
  BY <1>7 DEF CallsInv, Loops, Bottom
<1>9. SettledBetweenSteps'
  <2>1. Len(todo') # 0
    BY <1>2, <1>6
  <2>2. todo' # <<>>
    BY <1>2, <2>1, ListShape
  <2> QED
    BY <2>2 DEF SettledBetweenSteps, Between
<1>10. ASSUME NEW n \in DOMAIN todo', todo'[n][1] = "check"
       PROVE  Waiting(n)'
  <2> DEFINE n0 == n - Len(a) + 1
  <2>1. n > Len(a)
    BY <1>2, <1>10 DEF NoCheck
  <2>2. n0 \in DOMAIN todo /\ todo'[n] = todo[n0]
    BY <1>2, <2>1
  <2> HIDE DEF n0
  <2>3. Waiting(n0) /\ todo[n0][1] = "check"
    BY <1>1, <1>10, <2>2 DEF CheckInv
  <2>4. /\ todo[1][2] <= todo[n0][3] /\ ~Holds(todo[n0][2])
        /\ \A e \in DOMAIN agenda : todo[1][2] <= agenda[e].time
    BY <1>4, <2>3 DEF Waiting
  <2>5. AtTarget(a, now')
    BY <2>4
  <2>6. \A i \in DOMAIN todo : todo[i][1] = "check" => i = n0
    BY <1>1, <2>2, <2>3 DEF Bottom
  <2>7. ~held'
    BY <2>3, <2>4, <2>6 DEF Waiting
  <2>8. todo[1][2] \in Nat
    BY <1>1, <1>4 DEF Loops
  <2>9. now' <= todo[n0][3] /\ todo[n0][3] \in Nat
    BY <2>3, <2>4, <2>8 DEF Waiting
  <2>10. ASSUME NEW i \in DOMAIN todo', todo'[i][1] = "until"
         PROVE  todo'[i][2] = now'
    <3>1. CASE i <= Len(a)
      BY <1>2, <2>5, <2>10, <3>1 DEF AtTarget
    <3>2. CASE i > Len(a)
      <4>1. i - Len(a) + 1 \in DOMAIN todo /\ i - Len(a) + 1 > 1 /\ todo'[i] = todo[i - Len(a) + 1]
        BY <1>2, <3>2
      <4> QED
        BY <1>1, <1>4, <2>10, <4>1 DEF Loops
    <3> QED
      BY <1>2, <3>1, <3>2
  <2>11. verdict' = None /\ ~held' /\ todo'[n][3] \in Nat /\ now' <= todo'[n][3]
    BY <2>2, <2>3, <2>7, <2>9 DEF Waiting
  <2>12. \A i \in DOMAIN todo' : todo'[i][1] = "until" =>
           todo'[i][2] <= todo'[n][3] /\ ~(now' < todo'[i][2])
    BY <2>2, <2>9, <2>10
  <2> QED
    BY <2>11, <2>12 DEF Waiting
<1>11. CheckInv'
  BY <1>10 DEF CheckInv
<1>12. VerdictsHonest'
  <2>1. verdict # None => \A i \in DOMAIN todo : todo[i][1] # "check"
    BY <1>1 DEF CheckInv, Waiting
  <2> QED
    BY <1>1, <2>1 DEF VerdictsHonest
<1> QED
  BY <1>3, <1>8, <1>9, <1>11, <1>12

(* Calls that leave the physical step where it is.                          *)
LEMMA PlainCall ==
  ASSUME TestbedInv, todo # <<>>, Mark(todo[1]) \notin Marks, NEW a, Unmarked(a), Call(a),
         Armed(agenda) = {} => Armed(agenda') = {},
         \A u : ArmedAt(agenda, u) => ArmedAt(agenda', u),
         UNCHANGED <<now, cycle, ticks>>
  PROVE  StepInv'
<1>1. IsList(todo) /\ now \in Nat /\ cycle \in Nat /\ StepInv
  BY DEF TestbedInv, ListsInv
<1>2. todo' = a \o Tail(todo) /\ maxSettle' = maxSettle
  BY DEF Call
<1>3. now <= now
  BY <1>1
<1>4. CASE Resting(todo, agenda, now, cycle, ticks)
  <2>1. ArmedAt(agenda', Step * (cycle + 1))
    BY <1>4 DEF Resting
  <2>2. Resting(a \o Tail(todo), agenda', now, cycle, ticks)
    BY <1>1, <1>3, <1>4, <2>1, RestingCall
  <2> QED
    BY <1>2, <2>2, InvPrimed DEF StepInv
<1>5. CASE InStep(todo, agenda, now, cycle, ticks)
  <2>1. Armed(agenda') = {}
    BY <1>5 DEF InStep, Counting, Ticking, Arming
  <2>2. InStep(a \o Tail(todo), agenda', now, cycle, ticks)
    BY <1>1, <1>5, <2>1, InStepCall
  <2> QED
    BY <1>2, <2>2, InvPrimed DEF StepInv
<1> QED
  BY <1>1, <1>4, <1>5 DEF StepInv

(* What harmless calls are not.                                             *)
LEMMA HarmlessFacts ==
  ASSUME NEW a, Harmless(a), NEW t
  PROVE  IsList(a) /\ NoCheck(a) /\ AtTarget(a, t) /\ Unmarked(a) /\ NoLoop(a)
BY DEF Harmless, NoCheck, AtTarget, Unmarked, NoLoop

(* The tasks that neither loop nor belong to the physical step.             *)
LEMMA HarmlessStep ==
  ASSUME TestbedInv, todo # <<>>, todo[1][1] \notin {"settle", "check"}, Mark(todo[1]) \notin Marks,
         NEW a, Harmless(a), Call(a), Agenda(agenda', now), Bus(bus'),
         Armed(agenda) = {} => Armed(agenda') = {},
         \A u : ArmedAt(agenda, u) => ArmedAt(agenda', u),
         UNCHANGED <<now, cycle, ticks, verdict, held>>
  PROVE  TestbedInv'
<1>1. IsList(a) /\ NoCheck(a) /\ AtTarget(a, now) /\ Unmarked(a)
  BY HarmlessFacts
<1>2. IsList(todo) /\ Tail(todo) # <<>> /\ Len(todo) # 1
  <2>1. IsList(todo) /\ Tail(todo) # <<>>
    BY HeadFacts
  <2>2. Len(todo) # 1
    BY HeadFacts DEF TestbedInv, CallsInv, Bottom
  <2> QED
    BY <2>1, <2>2
<1>3. todo' # <<>>
  <2>1. /\ IsList(todo') /\ Len(todo') = Len(a) + Len(todo) - 1
        /\ Len(a) \in Nat /\ Len(todo) \in Nat \ {0}
    BY <1>1, <1>2, CallMade
  <2>2. Len(todo') # 0
    BY <1>2, <2>1
  <2> QED
    BY <2>1, <2>2, ListShape
<1>4. cycle' \in Nat
  BY DEF TestbedInv, ListsInv
<1>5. ListsInv' /\ CallsInv' /\ SettledBetweenSteps' /\ CheckInv' /\ VerdictsHonest'
  BY <1>1, <1>2, <1>3, <1>4, CallKeeps
<1>6. StepInv'
  BY <1>1, PlainCall
<1> QED
  BY <1>5, <1>6 DEF TestbedInv

(* A call that changes no event, no time and no verdict.                    *)
LEMMA QuietStep ==
  ASSUME TestbedInv, todo # <<>>, todo[1][1] \notin {"settle", "check"}, Mark(todo[1]) \notin Marks,
         NEW a, Harmless(a), Call(a), Bus(bus'),
         UNCHANGED <<agenda, now, cycle, ticks, verdict, held>>
  PROVE  TestbedInv'
<1>1. Agenda(agenda', now)
  BY DEF TestbedInv, ListsInv
<1> QED
  BY <1>1, HarmlessStep

(* What the invariant says when a call of this kind is next.                *)
LEMMA DoingFacts ==
  ASSUME TestbedInv, NEW name, Doing(name)
  PROVE  /\ todo # <<>> /\ failed = None /\ Head(todo) = todo[1] /\ todo[1][1] = name
         /\ Arg = todo[1][2]
         /\ name \notin Marks \cup {"tick"} => Mark(todo[1]) \notin Marks
<1>1. todo # <<>> /\ failed = None /\ Head(todo)[1] = name
  BY DEF Doing
<1>2. Head(todo) = todo[1]
  BY <1>1, HeadFacts
<1> QED
  BY <1>1, <1>2 DEF Arg, Mark

(* Every action but those of the loops, the physical step, the assertion    *)
(* and the scenario.                                                        *)
LEMMA PlainActions ==
  ASSUME TestbedInv,
         \/ Drain \/ DeliverCommand \/ DeliverTelemetry \/ ObcRule \/ RecordTelemetry
         \/ EmitTelemetry \/ SendCommandFrame \/ ApplyOverride \/ ApplyNamedFault \/ StopByLimit
  PROVE  TestbedInv'
<1>1. IsList(todo) /\ Bus(bus) /\ Agenda(agenda, now) /\ now \in Nat /\ IsList(bus)
  BY DEF TestbedInv, ListsInv, Bus
<1>2. Harmless(<<>>) /\ Bus(<<>>)
  BY NothingShape DEF Bus, Harmless
<1>3. ASSUME NEW x, x[1] \in {"command", "telemetry"}
      PROVE  Bus(Append(bus, x))
  <2>1. bus \in Seq({bus[i] : i \in DOMAIN bus} \cup {x})
    BY <1>1 DEF IsList
  <2>2. /\ Append(bus, x) \in Seq({bus[i] : i \in DOMAIN bus} \cup {x})
        /\ \A i \in DOMAIN Append(bus, x) : Append(bus, x)[i] = x \/ \E j \in DOMAIN bus : Append(bus, x)[i] = bus[j]
    BY <2>1
  <2>3. IsList(Append(bus, x))
    BY <2>2, TypedIsList
  <2> QED
    BY <1>1, <1>3, <2>2, <2>3 DEF Bus
<1>4. CASE Drain
  <2>1. Doing("drain") /\ Call(bus) /\ bus' = SubSeq(bus, Len(bus) + 1, Len(bus))
    BY <1>4 DEF Drain, Drained
  <2>2. UNCHANGED <<agenda, now, cycle, ticks, verdict, held>>
    BY <1>4 DEF Drain, engine, registry, script, history
  <2>3. bus' = <<>>
    <3>1. Len(bus) \in Nat
      BY <1>1, ListShape
    <3> QED
      BY <2>1, <3>1
  <2>4. Bus(bus') /\ Harmless(bus)
    BY <1>1, <1>2, <2>3, BusHarmless
  <2>5. todo # <<>> /\ todo[1][1] \notin {"settle", "check"} /\ Mark(todo[1]) \notin Marks
    BY <2>1, DoingFacts DEF Marks
  <2> QED
    BY <2>1, <2>2, <2>4, <2>5, QuietStep
<1>5. CASE DeliverCommand
  <2>1. Doing("command") /\ Call(<<>>) /\ UNCHANGED <<agenda, now, bus, cycle, ticks, verdict, held>>
    BY <1>5 DEF DeliverCommand, engine, registry, script
  <2>2. todo # <<>> /\ todo[1][1] \notin {"settle", "check"} /\ Mark(todo[1]) \notin Marks
    BY <2>1, DoingFacts DEF Marks
  <2> QED
    BY <1>1, <1>2, <2>1, <2>2, QuietStep
<1>6. CASE DeliverTelemetry
  <2> DEFINE handlers == OnTelemetry(Arg, Head(todo)[3])
             rules == [i \in DOMAIN Rules |-> <<"rule", Rules[i], Arg, Head(todo)[3]>>]
             record == <<"record", Arg, Head(todo)[3]>>
  <2>1. /\ Doing("telemetry") /\ Call(<<>>) /\ ScheduleAt(now, handlers)
        /\ UNCHANGED <<now, bus, cycle, ticks, verdict, held>>
    BY <1>6 DEF DeliverTelemetry, Schedule, registry, script, history
  <2>2. handlers = rules \o <<record>>
    BY DEF OnTelemetry
  <2>3. record[1] = "record" /\ \A i \in DOMAIN rules : rules[i][1] = "rule"
    OBVIOUS
  <2>4. rules = [i \in 1..Len(Rules) |-> rules[i]] /\ Len(Rules) \in Nat
    BY TestbedAssumption, ListShape
  <2> HIDE DEF handlers, rules, record
  <2>5. IsList(rules) /\ IsList(<<record>>) /\ DOMAIN <<record>> = {1} /\ <<record>>[1] = record
    BY <2>4, ListBuilt, SingleShape
  <2>6. /\ IsList(rules \o <<record>>) /\ Len(rules) \in Nat
        /\ \A i \in DOMAIN (rules \o <<record>>) :
             i <= Len(rules) => i \in DOMAIN rules /\ (rules \o <<record>>)[i] = rules[i]
        /\ \A i \in DOMAIN (rules \o <<record>>) :
             i > Len(rules) => i - Len(rules) \in DOMAIN <<record>>
                               /\ (rules \o <<record>>)[i] = <<record>>[i - Len(rules)]
        /\ DOMAIN (rules \o <<record>>) = 1..(Len(rules) + Len(<<record>>))
        /\ Len(<<record>>) \in Nat
    <3>1. IsList(rules) /\ IsList(<<record>>)
      BY <2>5
    <3> QED
      BY <3>1, ConcatShape
  <2>7. \A i \in DOMAIN handlers : \/ \E k \in DOMAIN rules : handlers[i] = rules[k]
                                   \/ handlers[i] = record
    BY <2>2, <2>5, <2>6
  <2>8. Quiet(handlers)
    BY <2>2, <2>3, <2>6, <2>7 DEF Quiet, Plain
  <2>9. Inserted(agenda, agenda', now, handlers)
    BY <2>1 DEF Inserted, ScheduleAt
  <2>10. now <= now
    BY <1>1
  <2>11. Agenda(agenda', now)
    BY <1>1, <2>8, <2>9, <2>10, AgendaInserted
  <2>12. IsList(agenda)
    BY <1>1 DEF Agenda
  <2>13. /\ Armed(agenda) = {} => Armed(agenda') = {}
         /\ \A u : ArmedAt(agenda, u) => ArmedAt(agenda', u)
    BY <2>8, <2>9, <2>12, ArmedInserted
  <2>14. todo # <<>> /\ todo[1][1] \notin {"settle", "check"} /\ Mark(todo[1]) \notin Marks
    BY <2>1, DoingFacts DEF Marks
  <2> QED
    BY <1>1, <1>2, <2>1, <2>11, <2>13, <2>14, HarmlessStep
<1>7. CASE ObcRule
  <2>1. /\ Doing("rule") /\ Call(<<>>) /\ UNCHANGED <<agenda, now, cycle, ticks, verdict, held>>
        /\ bus' = Append(bus, <<"command", Arg.command>>) \/ bus' = bus
    BY <1>7 DEF ObcRule, engine, registry, script, history
  <2>2. Bus(bus')
    <3> DEFINE x == <<"command", Arg.command>>
    <3>1. x[1] = "command" /\ (bus' = Append(bus, x) \/ bus' = bus)
      BY <2>1
    <3> HIDE DEF x
    <3>2. Bus(Append(bus, x))
      BY <1>3, <3>1
    <3> QED
      BY <1>1, <3>1, <3>2
  <2>3. todo # <<>> /\ todo[1][1] \notin {"settle", "check"} /\ Mark(todo[1]) \notin Marks
    BY <2>1, DoingFacts DEF Marks
  <2> QED
    BY <1>2, <2>1, <2>2, <2>3, QuietStep
<1>8. CASE RecordTelemetry
  <2>1. Doing("record") /\ Call(<<>>) /\ UNCHANGED <<agenda, now, bus, cycle, ticks, verdict, held>>
    BY <1>8 DEF RecordTelemetry, engine, registry, script, history
  <2>2. todo # <<>> /\ todo[1][1] \notin {"settle", "check"} /\ Mark(todo[1]) \notin Marks
    BY <2>1, DoingFacts DEF Marks
  <2> QED
    BY <1>1, <1>2, <2>1, <2>2, QuietStep
<1>9. CASE EmitTelemetry
  <2>1. PICK node \in DOMAIN Signals :
          bus' = bus \o [i \in DOMAIN Signals[node] |->
                           <<"telemetry", Signals[node][i], Report(Signals[node][i])'>>]
    BY <1>9 DEF EmitTelemetry
  <2> DEFINE frames == [i \in DOMAIN Signals[node] |->
                          <<"telemetry", Signals[node][i], Report(Signals[node][i])'>>]
  <2>2. Doing("emit") /\ Call(<<>>) /\ UNCHANGED <<agenda, now, cycle, ticks, verdict, held>>
    BY <1>9 DEF EmitTelemetry, engine, registry, script, history
  <2>3. \A i \in DOMAIN frames : frames[i][1] = "telemetry"
    OBVIOUS
  <2>4. frames = [i \in 1..Len(Signals[node]) |-> frames[i]] /\ Len(Signals[node]) \in Nat
    BY TestbedAssumption, ListShape
  <2>5. bus' = bus \o frames
    BY <2>1
  <2> HIDE DEF frames
  <2>6. IsList(frames)
    BY <2>4, ListBuilt
  <2>7. /\ IsList(bus \o frames) /\ Len(bus) \in Nat
        /\ DOMAIN (bus \o frames) = 1..(Len(bus) + Len(frames)) /\ Len(frames) \in Nat
        /\ \A i \in DOMAIN (bus \o frames) :
             i <= Len(bus) => i \in DOMAIN bus /\ (bus \o frames)[i] = bus[i]
        /\ \A i \in DOMAIN (bus \o frames) :
             i > Len(bus) => i - Len(bus) \in DOMAIN frames /\ (bus \o frames)[i] = frames[i - Len(bus)]
    BY <1>1, <2>6, ConcatShape
  <2>8. Bus(bus \o frames)
    BY <1>1, <2>3, <2>7 DEF Bus
  <2>9. todo # <<>> /\ todo[1][1] \notin {"settle", "check"} /\ Mark(todo[1]) \notin Marks
    BY <2>2, DoingFacts DEF Marks
  <2> QED
    BY <1>2, <2>2, <2>5, <2>8, <2>9, QuietStep
<1>10. CASE SendCommandFrame
  <2>1. /\ Doing("send") /\ Call(<<>>) /\ UNCHANGED <<agenda, now, cycle, ticks, verdict, held>>
        /\ bus' = Append(bus, <<"command", Arg>>)
    BY <1>10 DEF SendCommandFrame, engine, registry, script, history
  <2>2. Bus(bus')
    <3> DEFINE x == <<"command", Arg>>
    <3>1. x[1] = "command" /\ bus' = Append(bus, x)
      BY <2>1
    <3> HIDE DEF x
    <3> QED
      BY <1>3, <3>1
  <2>3. todo # <<>> /\ todo[1][1] \notin {"settle", "check"} /\ Mark(todo[1]) \notin Marks
    BY <2>1, DoingFacts DEF Marks
  <2> QED
    BY <1>2, <2>1, <2>2, <2>3, QuietStep
<1>11. CASE ApplyOverride
  <2>1. Doing("override") /\ Call(<<>>) /\ UNCHANGED <<agenda, now, bus, cycle, ticks, verdict, held>>
    BY <1>11 DEF ApplyOverride, engine, script
  <2>2. todo # <<>> /\ todo[1][1] \notin {"settle", "check"} /\ Mark(todo[1]) \notin Marks
    BY <2>1, DoingFacts DEF Marks
  <2> QED
    BY <1>1, <1>2, <2>1, <2>2, QuietStep
<1>12. CASE ApplyNamedFault
  <2>1. Doing("named_fault") /\ Call(<<>>) /\ UNCHANGED <<agenda, now, bus, cycle, ticks, verdict, held>>
    BY <1>12 DEF ApplyNamedFault, engine, registry, script
  <2>2. todo # <<>> /\ todo[1][1] \notin {"settle", "check"} /\ Mark(todo[1]) \notin Marks
    BY <2>1, DoingFacts DEF Marks
  <2> QED
    BY <1>1, <1>2, <2>1, <2>2, QuietStep
<1>13. CASE StopByLimit
  <2>1. Doing("until") /\ Call(<<>>) /\ UNCHANGED <<agenda, now, bus, cycle, ticks, verdict, held>>
    BY <1>13 DEF StopByLimit, engine, registry, script, history
  <2>2. todo # <<>> /\ todo[1][1] \notin {"settle", "check"} /\ Mark(todo[1]) \notin Marks
    BY <2>1, DoingFacts DEF Marks
  <2> QED
    BY <1>1, <1>2, <2>1, <2>2, QuietStep
<1> QED
  BY <1>4, <1>5, <1>6, <1>7, <1>8, <1>9, <1>10, <1>11, <1>12, <1>13

(* A task without calls at the head of a physical step.                     *)
LEMMA SilentKeeps ==
  ASSUME TestbedInv, todo # <<>>, todo[1][1] \notin {"settle", "check"}, Call(<<>>),
         Agenda(agenda', now), cycle' \in Nat, UNCHANGED <<bus, now, verdict, held>>
  PROVE  ListsInv' /\ CallsInv' /\ SettledBetweenSteps' /\ CheckInv' /\ VerdictsHonest'
<1>1. IsList(<<>>) /\ NoCheck(<<>>) /\ AtTarget(<<>>, now) /\ Len(<<>>) = 0
  BY NothingShape, HarmlessFacts
<1>2. IsList(todo) /\ Tail(todo) # <<>> /\ Bus(bus')
  BY HeadFacts DEF TestbedInv, ListsInv, Bus
<1>3. Len(todo) # 1
  BY HeadFacts DEF TestbedInv, CallsInv, Bottom
<1>4. IsList(todo') /\ Len(todo') = Len(todo) - 1 /\ Len(todo) \in Nat \ {0}
  <2>1. /\ IsList(todo') /\ Len(todo') = Len(<<>>) + Len(todo) - 1
        /\ Len(todo) \in Nat \ {0}
    BY <1>1, <1>2, CallMade
  <2> QED
    BY <1>1, <2>1
<1>5. todo' # <<>>
  BY <1>3, <1>4, ListShape
<1> QED
  BY <1>1, <1>2, <1>5, CallKeeps

(* The physical step: counting the cycles, ticking, arming the next one.    *)
LEMMA StepActions ==
  ASSUME TestbedInv, AdvanceCycles \/ TickModule \/ ArmPhysicalStep
  PROVE  TestbedInv'
<1>1. /\ IsList(todo) /\ Agenda(agenda, now) /\ IsList(agenda) /\ now \in Nat /\ cycle \in Nat
      /\ StepInv
  BY DEF TestbedInv, ListsInv, Agenda
<1>2. Resting(todo, agenda, now, cycle, ticks) \/ InStep(todo, agenda, now, cycle, ticks)
  BY <1>1 DEF StepInv
<1>3. CASE AdvanceCycles
  <2>1. /\ Doing("cycles") /\ Call(<<>>) /\ cycle' = cycle + 1
        /\ UNCHANGED <<agenda, now, bus, ticks, verdict, held>>
    BY <1>3 DEF AdvanceCycles, engine, script
  <2>2. todo # <<>> /\ todo[1][1] = "cycles" /\ Mark(todo[1]) = "cycles"
    BY <2>1, DoingFacts DEF Mark
  <2>3. todo' = <<>> \o Tail(todo) /\ maxSettle' = maxSettle
    BY <2>1 DEF Call
  <2>4. InStep(<<>> \o Tail(todo), agenda, now, cycle + 1, ticks)
    BY <1>1, <1>2, <2>2, CyclesCounted
  <2>5. StepInv'
    BY <2>1, <2>3, <2>4, InvPrimed DEF StepInv
  <2>6. cycle' \in Nat
    BY <1>1, <2>1
  <2> QED
    BY <1>1, <2>1, <2>2, <2>5, <2>6, SilentKeeps DEF TestbedInv
<1>4. CASE TickModule
  <2>1. /\ Doing("tick") /\ Call(<<>>)
        /\ UNCHANGED <<agenda, now, bus, cycle, verdict, held>>
        /\ \/ Arg = "payload" /\ ticks' = ticks
           \/ Arg = "eps" /\ ticks' = ticks + 1
    BY <1>4 DEF TickModule, engine, registry, script
  <2>2. todo # <<>> /\ todo[1][1] = "tick" /\ Mark(todo[1]) = Arg
    BY <2>1, DoingFacts DEF Mark
  <2>3. todo' = <<>> \o Tail(todo) /\ maxSettle' = maxSettle
    BY <2>1 DEF Call
  <2>4. CASE Arg = "payload"
    <3>1. Harmless(<<>>)
      BY NothingShape
    <3>2. Mark(todo[1]) \notin Marks /\ ticks' = ticks
      BY <2>1, <2>2, <2>4 DEF Marks
    <3>3. Bus(bus')
      BY <2>1 DEF TestbedInv, ListsInv, Bus
    <3> QED
      BY <2>1, <2>2, <3>1, <3>2, <3>3, QuietStep
  <2>5. CASE Arg = "eps"
    <3>1. Mark(todo[1]) = "eps" /\ ticks' = ticks + 1
      BY <2>1, <2>2, <2>5
    <3>2. InStep(<<>> \o Tail(todo), agenda, now, cycle, ticks + 1)
      BY <1>1, <1>2, <2>2, <3>1, EpsTicked
    <3>3. StepInv'
      BY <2>1, <2>3, <3>1, <3>2, InvPrimed DEF StepInv
    <3>4. cycle' \in Nat
      BY <1>1, <2>1
    <3> QED
      BY <1>1, <2>1, <2>2, <3>3, <3>4, SilentKeeps DEF TestbedInv
  <2> QED
    BY <2>1, <2>4, <2>5
<1>5. CASE ArmPhysicalStep
  <2>1. /\ Doing("arm") /\ Call(<<>>) /\ ScheduleAt(now + Step, PhysicalStep)
        /\ UNCHANGED <<now, bus, cycle, ticks, verdict, held>>
    BY <1>5 DEF ArmPhysicalStep, NextStepAt, registry, script, history
  <2>2. todo # <<>> /\ todo[1][1] = "arm" /\ Mark(todo[1]) = "arm"
    BY <2>1, DoingFacts DEF Mark
  <2>3. todo' = <<>> \o Tail(todo) /\ maxSettle' = maxSettle
    BY <2>1 DEF Call
  <2>4. Inserted(agenda, agenda', now + Step, PhysicalStep)
    BY <2>1 DEF Inserted, ScheduleAt
  <2>5. now + Step \in Nat /\ now <= now + Step
    BY <1>1, TestbedAssumption
  <2>6. Agenda(agenda', now)
    BY <1>1, <2>4, <2>5, AgendaInserted
  <2>7. Resting(<<>> \o Tail(todo), agenda', now, cycle, ticks)
    BY <1>1, <1>2, <2>2, <2>4, StepArmed
  <2>8. StepInv'
    BY <2>1, <2>3, <2>7, InvPrimed DEF StepInv
  <2>9. cycle' \in Nat
    BY <1>1, <2>1
  <2> QED
    BY <2>1, <2>2, <2>6, <2>8, <2>9, SilentKeeps DEF TestbedInv
<1> QED
  BY <1>3, <1>4, <1>5

(* _run_current_events is over when it finds nothing, or goes one round.    *)
LEMMA SettleAction ==
  ASSUME TestbedInv, SettleRound
  PROVE  TestbedInv'
<1>1. /\ IsList(todo) /\ Agenda(agenda, now) /\ now \in Nat /\ cycle \in Nat /\ Bus(bus)
  BY DEF TestbedInv, ListsInv
<1>2. /\ Doing("settle")
      /\ Call(IF Idle THEN <<>> ELSE <<RunUntil(now), <<"drain">>, <<"settle", Arg - 1>>>>)
      /\ UNCHANGED <<agenda, now, bus, cycle, ticks, verdict, held>>
  BY DEF SettleRound, engine, registry, script, history
<1>3. todo # <<>> /\ todo[1][1] = "settle" /\ Mark(todo[1]) \notin Marks
  BY <1>2, DoingFacts DEF Marks
<1>4. /\ Bus(bus') /\ Agenda(agenda', now) /\ cycle' \in Nat
      /\ Armed(agenda) = {} => Armed(agenda') = {}
      /\ \A u : ArmedAt(agenda, u) => ArmedAt(agenda', u)
  BY <1>1, <1>2
<1>5. CASE Idle
  <2>1. Call(<<>>) /\ Harmless(<<>>)
    BY <1>2, <1>5, NothingShape
  <2>2. Idle'
    BY <1>2, <1>5 DEF Idle, DueBy
  <2>3. IsList(<<>>) /\ NoCheck(<<>>) /\ AtTarget(<<>>, now) /\ Unmarked(<<>>)
    BY <2>1, HarmlessFacts
  <2>4. ListsInv' /\ CallsInv' /\ SettledBetweenSteps' /\ CheckInv' /\ VerdictsHonest'
    BY <1>2, <1>3, <1>4, <2>1, <2>2, <2>3, CallKeeps
  <2>5. StepInv'
    BY <1>2, <1>3, <1>4, <2>1, <2>3, PlainCall
  <2> QED
    BY <2>4, <2>5 DEF TestbedInv
<1>6. CASE ~Idle
  <2> DEFINE loop == <<"until", now, maxSettle>>
             again == <<"settle", Arg - 1>>
             a == <<loop, <<"drain">>, again>>
  <2>1. Call(a)
    BY <1>2, <1>6 DEF RunUntil
  <2>2. /\ loop[1] = "until" /\ loop[2] = now /\ again[1] = "settle"
        /\ Mark(loop) = "until" /\ Mark(again) = "settle" /\ Mark(<<"drain">>) = "drain"
    BY DEF Mark
  <2> HIDE DEF loop, again
  <2>3. /\ a = [i \in 1..3 |-> a[i]] /\ Len(a) = 3 /\ DOMAIN a = 1..3
        /\ a[1] = loop /\ a[2] = <<"drain">> /\ a[3] = again
    OBVIOUS
  <2>4. <<"drain">>[1] = "drain"
    OBVIOUS
  <2> HIDE DEF a
  <2>5. IsList(a) /\ a[Len(a)][1] = "settle"
    BY <2>2, <2>3, ListBuilt
  <2>6. \A i \in DOMAIN a : i = 1 \/ i = 2 \/ i = 3
    BY <2>3
  <2>7. NoCheck(a) /\ AtTarget(a, now) /\ Unmarked(a)
    BY <2>2, <2>3, <2>4, <2>5, <2>6 DEF NoCheck, AtTarget, Unmarked, Marks
  <2>8. todo' # <<>>
    <3>1. /\ IsList(todo') /\ Len(todo') = Len(a) + Len(todo) - 1
          /\ Len(todo) \in Nat \ {0}
      BY <1>1, <1>3, <2>1, <2>5, CallMade
    <3>2. Len(todo') # 0
      BY <2>3, <3>1
    <3> QED
      BY <3>1, <3>2, ListShape
  <2>9. ListsInv' /\ CallsInv' /\ SettledBetweenSteps' /\ CheckInv' /\ VerdictsHonest'
    BY <1>2, <1>3, <1>4, <2>1, <2>5, <2>7, <2>8, CallKeeps
  <2>10. StepInv'
    BY <1>2, <1>3, <1>4, <2>1, <2>7, PlainCall
  <2> QED
    BY <2>9, <2>10 DEF TestbedInv
<1> QED
  BY <1>5, <1>6

(* Who raises stops where it is.                                            *)
LEMMA RaiseKeeps ==
  ASSUME TestbedInv, NEW what, Raise(what), todo # <<>>,
         UNCHANGED <<now, agenda, bus, cycle, ticks, latest, verdict, held>>
  PROVE  TestbedInv'
<1>1. todo' = todo /\ maxSettle' = maxSettle
  BY DEF Raise
<1>2. ListsInv'
  <2>1. Agenda(agenda, now)'
    BY <1>1, InvPrimed DEF TestbedInv, ListsInv
  <2> QED
    BY <1>1, <2>1 DEF TestbedInv, ListsInv, Bus
<1>3. CallsInv'
  BY <1>1 DEF TestbedInv, CallsInv, Loops, Bottom
<1>4. SettledBetweenSteps'
  BY <1>1 DEF SettledBetweenSteps, Between
<1>5. CheckInv'
  BY <1>1 DEF TestbedInv, CheckInv, Waiting, Holds
<1>6. VerdictsHonest'
  BY DEF TestbedInv, VerdictsHonest
<1>7. StepInv'
  BY <1>1, InvPrimed DEF TestbedInv, StepInv
<1> QED
  BY <1>2, <1>3, <1>4, <1>5, <1>6, <1>7 DEF TestbedInv

(* SettleGivesUp raises, and Reached raises or returns.                     *)
LEMMA RaisingActions ==
  ASSUME TestbedInv, SettleGivesUp \/ Reached
  PROVE  TestbedInv'
<1>1. CASE SettleGivesUp
  <2>1. /\ todo # <<>> /\ Raise("settle")
        /\ UNCHANGED <<now, agenda, bus, cycle, ticks, latest, verdict, held>>
    BY <1>1 DEF SettleGivesUp, Doing, engine, registry, script, history
  <2> QED
    BY <2>1, RaiseKeeps
<1>2. CASE Reached
  <2>1. /\ Doing("reached") /\ (Raise("wait") \/ Call(<<>>))
        /\ UNCHANGED <<now, agenda, bus, cycle, ticks, latest, verdict, held>>
    BY <1>2 DEF Reached, engine, registry, script, history
  <2>2. todo # <<>> /\ todo[1][1] \notin {"settle", "check"} /\ Mark(todo[1]) \notin Marks
    BY <2>1, DoingFacts DEF Marks
  <2>3. Harmless(<<>>) /\ Bus(bus')
    BY <2>1, NothingShape DEF TestbedInv, ListsInv, Bus
  <2>4. CASE Raise("wait")
    BY <2>1, <2>2, <2>4, RaiseKeeps
  <2>5. CASE Call(<<>>)
    BY <2>1, <2>2, <2>3, <2>5, QuietStep
  <2> QED
    BY <2>1, <2>4, <2>5
<1> QED
  BY <1>1, <1>2

-----------------------------------------------------------------------------
(* The loop of run_until.                                                   *)

(* No event that is not due is at or before the target.                     *)
LEMMA NotDue ==
  ASSUME NEW n \in Nat, Agenda(agenda, n), NEW t \in Nat, ~DueBy(t)
  PROVE  \A e \in DOMAIN agenda : t < agenda[e].time
<1>1. CASE agenda = <<>>
  BY <1>1
<1>2. CASE agenda # <<>>
  <2>1. /\ Head(agenda) = agenda[1] /\ agenda[1].time \in Nat
        /\ \A e \in DOMAIN agenda : agenda[1].time <= agenda[e].time
    BY <1>2, AgendaTail
  <2>2. t < agenda[1].time
    BY <1>2, <2>1 DEF DueBy
  <2>3. \A e \in DOMAIN agenda : agenda[e].time \in Nat
    BY DEF Agenda
  <2> QED
    BY <2>1, <2>2, <2>3
<1> QED
  BY <1>1, <1>2

(* The handlers of an event and, below them, the loop that goes on.         *)
LEMMA DispatchCalls ==
  ASSUME NEW handlers, handlers = PhysicalStep \/ Quiet(handlers), NEW u, u[1] = "until"
  PROVE  /\ IsList(handlers \o <<u>>) /\ NoCheck(handlers \o <<u>>)
         /\ \A t \in Nat : u[2] \in Nat /\ t <= u[2] => Loops(handlers \o <<u>>, t)
         /\ AtTarget(handlers \o <<u>>, u[2])
         /\ Quiet(handlers) => Unmarked(handlers \o <<u>>)
<1> DEFINE a == handlers \o <<u>>
<1>1. /\ IsList(handlers)
      /\ \A i \in DOMAIN handlers : handlers[i][1] \notin {"until", "check"}
      /\ Quiet(handlers) => \A i \in DOMAIN handlers : Mark(handlers[i]) \notin Marks
  BY PhysicalStepShape, QuietHarmless DEF Harmless
<1>2. IsList(<<u>>) /\ Len(<<u>>) = 1 /\ DOMAIN <<u>> = {1} /\ <<u>>[1] = u
  BY SingleShape
<1>3. IsList(handlers) /\ IsList(<<u>>)
  BY <1>1, <1>2
<1>4. /\ IsList(a) /\ Len(handlers) \in Nat
      /\ DOMAIN a = 1..(Len(handlers) + Len(<<u>>))
      /\ \A i \in DOMAIN a : i <= Len(handlers) => i \in DOMAIN handlers /\ a[i] = handlers[i]
      /\ \A i \in DOMAIN a : i > Len(handlers) => /\ i - Len(handlers) \in DOMAIN <<u>>
                                                  /\ a[i] = <<u>>[i - Len(handlers)]
  BY ONLY <1>3, ConcatShape
<1> HIDE DEF a
<1>5. \A i \in DOMAIN a : \/ i \in DOMAIN handlers /\ a[i] = handlers[i]
                          \/ i = Len(handlers) + 1 /\ a[i] = u
  BY <1>2, <1>4
<1>6. \A i \in DOMAIN a : a[i][1] = "until" => i = Len(handlers) + 1 /\ a[i] = u
  BY <1>1, <1>5
<1>7. NoCheck(a) /\ AtTarget(a, u[2])
  BY <1>1, <1>5, <1>6 DEF NoCheck, AtTarget
<1>8. ASSUME NEW t \in Nat, u[2] \in Nat, t <= u[2]
      PROVE  Loops(a, t)
  <2>1. ASSUME NEW i \in DOMAIN a, a[i][1] = "until", NEW j \in DOMAIN a, j < i
        PROVE  a[j][1] # "until"
    <3>1. i = Len(handlers) + 1 /\ j # Len(handlers) + 1
      BY <1>4, <1>6, <2>1
    <3> QED
      BY <1>6, <3>1
  <2> QED
    BY <1>6, <1>8, <2>1 DEF Loops
<1>9. Quiet(handlers) => Unmarked(a)
  <2>1. Mark(u) \notin Marks
    BY DEF Mark, Marks
  <2> QED
    BY <1>1, <1>4, <1>5, <2>1 DEF Unmarked
<1> QED
  BY <1>4, <1>7, <1>8, <1>9 DEF a

(* An event that is due: time moves to it, and its handlers are called.     *)
LEMMA DispatchAction ==
  ASSUME TestbedInv, Dispatch
  PROVE  TestbedInv'
<1> DEFINE event == Head(agenda)
           u == <<"until", Arg, Head(todo)[3] - 1>>
           a == event.handlers \o <<u>>
<1>1. /\ IsList(todo) /\ Agenda(agenda, now) /\ IsList(agenda) /\ now \in Nat /\ cycle \in Nat
      /\ Loops(todo, now) /\ Bus(bus) /\ StepInv
  BY DEF TestbedInv, ListsInv, CallsInv, Agenda
<1>2. /\ Doing("until") /\ DueBy(Arg) /\ agenda' = Tail(agenda) /\ Call(a)
      /\ now' = event.time
      /\ UNCHANGED <<bus, cycle, ticks, verdict>>
      /\ held' = (held \/ (now' > now /\ \E i \in DOMAIN todo :
                             todo[i][1] = "check" /\ Holds(todo[i][2])))
  BY DEF Dispatch, MoveTo, registry
<1>3. todo # <<>> /\ todo[1][1] = "until" /\ Arg = todo[1][2] /\ Mark(todo[1]) \notin Marks
  BY <1>2, DoingFacts DEF Marks
<1>4. 1 \in DOMAIN todo
  BY <1>3, HeadFacts
<1>5. todo[1][2] \in Nat /\ now <= todo[1][2]
  BY <1>1, <1>3, <1>4 DEF Loops
<1>6. agenda # <<>> /\ event.time <= todo[1][2]
  BY <1>2, <1>3 DEF DueBy
<1>7. /\ event = agenda[1] /\ 1 \in DOMAIN agenda /\ event.time \in Nat /\ now <= event.time
      /\ Agenda(Tail(agenda), event.time)
  BY <1>1, <1>6, AgendaTail
<1>8. event.handlers = PhysicalStep \/ Quiet(event.handlers)
  BY <1>1, <1>7 DEF Agenda
<1>9. u[1] = "until" /\ u[2] = todo[1][2]
  BY <1>3
<1> HIDE DEF event, u
<1>10. /\ IsList(a) /\ NoCheck(a) /\ Loops(a, now') /\ AtTarget(a, todo[1][2])
       /\ Quiet(event.handlers) => Unmarked(a)
  BY <1>2, <1>5, <1>6, <1>7, <1>8, <1>9, DispatchCalls
<1>11. Agenda(agenda', now') /\ now' \in Nat /\ now <= now' /\ now' <= todo[1][2]
  BY <1>2, <1>6, <1>7
<1>12. todo' = a \o Tail(todo) /\ maxSettle' = maxSettle
  BY <1>2 DEF Call
<1>13. ListsInv' /\ CallsInv' /\ SettledBetweenSteps' /\ CheckInv' /\ VerdictsHonest'
  <2>1. CASE now = todo[1][2]
    <3>1. now' = now /\ ~(now' > now)
      BY <1>1, <1>11, <2>1
    <3>2. (held' => held) /\ cycle' \in Nat /\ Bus(bus') /\ Agenda(agenda', now) /\ AtTarget(a, now)
      BY <1>1, <1>2, <1>10, <1>11, <2>1, <3>1
    <3>3. Tail(todo) # <<>>
      BY <1>3, HeadFacts
    <3>4. todo' # <<>>
      BY <1>1, <1>2, <1>3, <1>10, <3>3, CallLeaves
    <3> QED
      BY <1>2, <1>3, <1>10, <3>1, <3>2, <3>3, <3>4, CallKeeps
  <2>2. CASE now < todo[1][2]
    <3>1. ASSUME \A e \in DOMAIN agenda : todo[1][2] <= agenda[e].time
          PROVE  AtTarget(a, now')
      <4>1. now' = todo[1][2]
        BY <1>2, <1>5, <1>6, <1>7, <3>1
      <4> QED
        BY <1>10, <4>1
    <3> QED
      BY <1>2, <1>3, <1>10, <1>11, <2>2, <3>1, MoveKeeps
  <2> QED
    BY <1>1, <1>5, <2>1, <2>2
<1>14. StepInv'
  <2>1. CASE event.handlers = PhysicalStep
    <3>1. Armed(agenda) # {}
      BY <1>1, <1>6, <1>7, <2>1, ArmedTail
    <3>2. Resting(todo, agenda, now, cycle, ticks)
      BY <1>1, <3>1 DEF StepInv, InStep, Counting, Ticking, Arming
    <3>3. Counting((PhysicalStep \o <<u>>) \o Tail(todo), Tail(agenda), agenda[1].time, cycle, ticks)
      BY <1>1, <1>3, <1>6, <1>7, <1>9, <2>1, <3>2, StepBegins
    <3>4. InStep(todo', agenda', now', cycle', ticks')
      BY <1>2, <1>7, <1>12, <2>1, <3>3 DEF InStep
    <3> QED
      BY <1>12, <3>4, InvPrimed DEF StepInv
  <2>2. CASE Quiet(event.handlers)
    <3>1. agenda[1].handlers # PhysicalStep /\ Unmarked(a)
      BY <1>7, <1>10, <2>2, StepIsNotQuiet
    <3>2. CASE Resting(todo, agenda, now, cycle, ticks)
      <4>1. ArmedAt(agenda', Step * (cycle + 1))
        BY <1>1, <1>2, <1>6, <3>1, <3>2, ArmedTail DEF Resting
      <4>2. Resting(a \o Tail(todo), agenda', now', cycle, ticks)
        BY <1>1, <1>3, <1>11, <3>1, <3>2, <4>1, RestingCall
      <4> QED
        BY <1>2, <1>12, <4>2, InvPrimed DEF StepInv
    <3>3. CASE InStep(todo, agenda, now, cycle, ticks)
      <4>1. Armed(agenda) = {}
        BY <3>3 DEF InStep, Counting, Ticking, Arming
      <4>2. Armed(agenda') = {}
        BY <1>1, <1>2, <1>6, <4>1, ArmedTail
      <4>3. todo[1][2] = now
        BY <1>1, <1>3, <3>3, StepHoldsTime
      <4>4. now' = now
        BY <1>1, <1>11, <4>3
      <4>5. InStep(a \o Tail(todo), agenda', now, cycle, ticks)
        BY <1>1, <1>3, <3>1, <3>3, <4>2, InStepCall
      <4> QED
        BY <1>2, <1>12, <4>4, <4>5, InvPrimed DEF StepInv
    <3> QED
      BY <1>1, <3>2, <3>3 DEF StepInv
  <2> QED
    BY <1>8, <2>1, <2>2
<1> QED
  BY <1>13, <1>14 DEF TestbedInv

(* Nothing due is left: the target is reached.                              *)
LEMMA JumpAction ==
  ASSUME TestbedInv, JumpToTarget
  PROVE  TestbedInv'
<1>1. /\ IsList(todo) /\ Agenda(agenda, now) /\ now \in Nat /\ cycle \in Nat
      /\ Loops(todo, now) /\ Bus(bus) /\ StepInv
  BY DEF TestbedInv, ListsInv, CallsInv
<1>2. /\ Doing("until") /\ ~DueBy(Arg) /\ Call(<<>>) /\ now' = Arg
      /\ UNCHANGED <<agenda, bus, cycle, ticks, verdict>>
      /\ held' = (held \/ (now' > now /\ \E i \in DOMAIN todo :
                             todo[i][1] = "check" /\ Holds(todo[i][2])))
  BY DEF JumpToTarget, MoveTo, registry
<1>3. todo # <<>> /\ todo[1][1] = "until" /\ Arg = todo[1][2] /\ Mark(todo[1]) \notin Marks
  BY <1>2, DoingFacts DEF Marks
<1>4. 1 \in DOMAIN todo
  BY <1>3, HeadFacts
<1>5. now' \in Nat /\ now <= now' /\ now' = todo[1][2]
  BY <1>1, <1>2, <1>3, <1>4 DEF Loops
<1>6. \A e \in DOMAIN agenda : now' < agenda[e].time
  BY <1>1, <1>2, <1>5, NotDue
<1>7. Agenda(agenda', now')
  <2>1. \A e \in DOMAIN agenda : now' <= agenda[e].time
    BY <1>1, <1>5, <1>6 DEF Agenda
  <2> QED
    BY <1>1, <1>2, <2>1 DEF Agenda
<1>8. Harmless(<<>>) /\ IsList(<<>>) /\ NoCheck(<<>>) /\ AtTarget(<<>>, now') /\ Unmarked(<<>>)
  BY NothingShape, HarmlessFacts
<1>9. Loops(<<>>, now')
  BY NothingShape DEF Loops
<1>10. todo' = <<>> \o Tail(todo) /\ maxSettle' = maxSettle
  BY <1>2 DEF Call
<1>11. ListsInv' /\ CallsInv' /\ SettledBetweenSteps' /\ CheckInv' /\ VerdictsHonest'
  <2>1. CASE now' = now
    <3>1. (held' => held) /\ cycle' \in Nat /\ Bus(bus') /\ Agenda(agenda', now) /\ AtTarget(<<>>, now)
      <4>1. ~(now' > now)
        BY <1>1, <2>1
      <4>2. held' => held
        BY <1>2, <4>1
      <4>3. cycle' \in Nat /\ Bus(bus')
        BY <1>1, <1>2
      <4>4. Agenda(agenda', now) /\ AtTarget(<<>>, now)
        BY <1>7, <1>8, <2>1
      <4> QED
        BY <4>2, <4>3, <4>4
    <3>2. Tail(todo) # <<>>
      BY <1>3, HeadFacts
    <3>3. todo' # <<>>
      BY <1>1, <1>2, <1>3, <1>8, <3>2, CallLeaves
    <3> QED
      BY <1>2, <1>3, <1>8, <2>1, <3>1, <3>2, <3>3, CallKeeps
  <2>2. CASE now' # now
    <3>1. now < todo[1][2] /\ now' <= todo[1][2]
      BY <1>1, <1>5, <2>2
    <3> QED
      BY <1>2, <1>3, <1>5, <1>7, <1>8, <1>9, <3>1, MoveKeeps
  <2> QED
    BY <2>1, <2>2
<1>12. StepInv'
  <2>1. CASE Resting(todo, agenda, now, cycle, ticks)
    <3>1. ArmedAt(agenda', Step * (cycle + 1))
      BY <1>2, <2>1 DEF Resting
    <3>2. Resting(<<>> \o Tail(todo), agenda', now', cycle, ticks)
      BY <1>1, <1>3, <1>5, <1>8, <2>1, <3>1, RestingCall
    <3> QED
      BY <1>2, <1>10, <3>2, InvPrimed DEF StepInv
  <2>2. CASE InStep(todo, agenda, now, cycle, ticks)
    <3>1. Armed(agenda') = {}
      BY <1>2, <2>2 DEF InStep, Counting, Ticking, Arming
    <3>2. now' = now
      BY <1>1, <1>3, <1>5, <2>2, StepHoldsTime
    <3>3. InStep(<<>> \o Tail(todo), agenda', now, cycle, ticks)
      BY <1>1, <1>3, <1>8, <2>2, <3>1, InStepCall
    <3> QED
      BY <1>2, <1>10, <3>2, <3>3, InvPrimed DEF StepInv
  <2> QED
    BY <1>1, <2>1, <2>2 DEF StepInv
<1> QED
  BY <1>11, <1>12 DEF TestbedInv

-----------------------------------------------------------------------------
(* The assertion and the steps of a scenario.                               *)

(* Nothing before a list is the list.                                       *)
LEMMA ConcatNothing ==
  ASSUME NEW s, IsList(s)
  PROVE  s \o <<>> = s
<1> DEFINE S == {s[i] : i \in DOMAIN s}
<1>1. s \in Seq(S)
  BY DEF IsList
<1> HIDE DEF S
<1> QED
  BY <1>1

(* _wait_sync: an empty wait settles and emits, another one runs to its     *)
(* target first.                                                            *)
LEMMA WaitShape ==
  ASSUME now \in Nat, NEW d \in Nat
  PROVE  /\ IsList(Wait(d)) /\ Wait(d) # <<>> /\ NoCheck(Wait(d)) /\ Unmarked(Wait(d))
         /\ Wait(d)[Len(Wait(d))][1] = "settle"
         /\ \A i \in DOMAIN Wait(d) : Wait(d)[i][1] = "until" =>
              i = 1 /\ Wait(d)[1][2] = now + d
<1>1. CASE d = 0
  <2> DEFINE w == Settle \o Emission
  <2>1. Wait(d) = w
    BY <1>1 DEF Wait
  <2>2. Harmless(w)
    BY SettleShape, EmissionShape, HarmlessConcat
  <2>3. IsList(Settle) /\ IsList(Emission)
    BY SettleShape, EmissionShape DEF Harmless
  <2>4. /\ IsList(w) /\ Len(w) = Len(Settle) + Len(Emission)
        /\ DOMAIN w = 1..(Len(Settle) + Len(Emission))
        /\ \A i \in DOMAIN w : i > Len(Settle) => w[i] = Emission[i - Len(Settle)]
    BY <2>3, ConcatShape
  <2> HIDE DEF w
  <2>5. Len(w) \in DOMAIN w /\ w[Len(w)] = Emission[Len(Emission)] /\ Len(w) # 0
    BY <2>4, SettleShape, EmissionShape
  <2>6. w # <<>> /\ NoCheck(w) /\ Unmarked(w) /\ NoLoop(w)
    BY <2>2, <2>4, <2>5, HarmlessFacts, ListShape
  <2> QED
    BY <2>1, <2>4, <2>5, <2>6, EmissionShape DEF NoLoop
<1>2. CASE d # 0
  <2> DEFINE u == <<"until", now + d, maxSettle>>
             x == <<"reached", now + d, d>>
             front == <<u, x>>
             w == front \o Settle
  <2>1. Wait(d) = w
    BY <1>2 DEF Wait, RunUntil
  <2>2. /\ u[1] = "until" /\ u[2] = now + d /\ x[1] = "reached"
        /\ Mark(u) = "until" /\ Mark(x) = "reached"
    BY DEF Mark
  <2> HIDE DEF u, x
  <2>3. /\ front = [i \in 1..2 |-> front[i]] /\ Len(front) = 2 /\ DOMAIN front = 1..2
        /\ front[1] = u /\ front[2] = x
    OBVIOUS
  <2> HIDE DEF front
  <2>4. IsList(front) /\ IsList(Settle)
    BY <2>3, ListBuilt, SettleShape DEF Harmless
  <2>5. /\ IsList(w) /\ Len(w) = Len(front) + Len(Settle)
        /\ DOMAIN w = 1..(Len(front) + Len(Settle))
        /\ \A i \in DOMAIN w : i <= Len(front) => i \in DOMAIN front /\ w[i] = front[i]
        /\ \A i \in DOMAIN w : i > Len(front) => i - Len(front) \in DOMAIN Settle
                                                /\ w[i] = Settle[i - Len(front)]
    BY <2>4, ConcatShape
  <2> HIDE DEF w
  <2>6. Len(w) = 3 /\ DOMAIN w = 1..3 /\ w[1] = u /\ w[2] = x /\ w[3] = Settle[1]
    BY <2>3, <2>5, SettleShape
  <2>7. \A i \in DOMAIN w : i = 1 \/ i = 2 \/ i = 3
    BY <2>6
  <2>8. Settle[1][1] = "settle" /\ Mark(Settle[1]) = "settle"
    BY SettleShape DEF Mark
  <2>9. NoCheck(w) /\ Unmarked(w)
    BY <2>2, <2>5, <2>6, <2>7, <2>8 DEF NoCheck, Unmarked, Marks
  <2>10. w # <<>>
    BY <2>5, <2>6, ListShape
  <2>11. \A i \in DOMAIN w : w[i][1] = "until" => i = 1 /\ w[1][2] = now + d
    BY <2>2, <2>6, <2>7, <2>8
  <2> QED
    BY <2>1, <2>5, <2>6, <2>8, <2>9, <2>10, <2>11
<1> QED
  BY <1>1, <1>2

(* _next_checkpoint stays within the window and passes no event.            *)
LEMMA NextStopBounds ==
  ASSUME now \in Nat, Agenda(agenda, now), NEW deadline \in Nat, now <= deadline
  PROVE  /\ NextStop(deadline) \in Nat
         /\ now <= NextStop(deadline) /\ NextStop(deadline) <= deadline
         /\ \A e \in DOMAIN agenda : NextStop(deadline) <= agenda[e].time
<1>1. CASE DueBy(deadline)
  <2>1. agenda # <<>> /\ Head(agenda).time <= deadline
    BY <1>1 DEF DueBy
  <2>2. /\ Head(agenda) = agenda[1] /\ agenda[1].time \in Nat /\ now <= agenda[1].time
        /\ \A e \in DOMAIN agenda : agenda[1].time <= agenda[e].time
    BY <2>1, AgendaTail
  <2> QED
    BY <1>1, <2>1, <2>2 DEF NextStop
<1>2. CASE ~DueBy(deadline)
  <2>1. \A e \in DOMAIN agenda : deadline < agenda[e].time
    BY <1>2, NotDue
  <2>2. \A e \in DOMAIN agenda : agenda[e].time \in Nat
    BY DEF Agenda
  <2> QED
    BY <1>2, <2>1, <2>2 DEF NextStop
<1> QED
  BY <1>1, <1>2

(* All of todo is new.                                                      *)
LEMMA AnewKeeps ==
  ASSUME TestbedInv, NEW a, IsList(a), a # <<>>, Loops(a, now), Bottom(a),
         todo' = a, Agenda(agenda', now), Bus(bus'), UNCHANGED <<now, cycle, maxSettle>>
  PROVE  ListsInv' /\ CallsInv' /\ SettledBetweenSteps'
<1>1. Agenda(agenda, now)'
  BY InvPrimed
<1>2. IsList(todo)' /\ Bus(bus)' /\ Loops(todo, now)' /\ Bottom(todo)'
  BY DEF Loops, Bottom, Bus
<1> QED
  BY <1>1, <1>2 DEF TestbedInv, ListsInv, CallsInv, SettledBetweenSteps, Between

(* assert_step looks again: it waits for the next checkpoint, or concludes. *)
LEMMA CheckAgainAction ==
  ASSUME TestbedInv, CheckAgain
  PROVE  TestbedInv'
<1> DEFINE deadline == Head(todo)[3]
           d == NextStop(deadline) - now
           w == Wait(d)
           c == Head(todo)
           a == w \o <<c>>
<1>1. /\ IsList(todo) /\ Agenda(agenda, now) /\ now \in Nat /\ cycle \in Nat /\ Bus(bus)
      /\ CheckInv /\ VerdictsHonest
  BY DEF TestbedInv, ListsInv
<1>2. /\ Doing("check") /\ ~Holds(Arg) /\ Call(a)
      /\ UNCHANGED <<agenda, now, bus, cycle, ticks, latest, verdict, held>>
  BY DEF CheckAgain, engine, registry, script, history
<1>3. /\ todo # <<>> /\ todo[1][1] = "check" /\ Arg = todo[1][2] /\ Mark(todo[1]) \notin Marks
      /\ c = todo[1]
  BY <1>2, DoingFacts DEF Marks
<1>4. 1 \in DOMAIN todo /\ Tail(todo) = <<>>
  BY <1>3, HeadFacts
<1>5. /\ verdict = None /\ ~held /\ deadline \in Nat /\ now <= deadline
  BY <1>1, <1>3, <1>4 DEF CheckInv, Waiting
<1> HIDE DEF deadline
<1>6. /\ NextStop(deadline) \in Nat
      /\ now <= NextStop(deadline) /\ NextStop(deadline) <= deadline
      /\ \A e \in DOMAIN agenda : NextStop(deadline) <= agenda[e].time
  BY <1>1, <1>5, NextStopBounds
<1>7. d \in Nat /\ now + d = NextStop(deadline)
  BY <1>1, <1>6
<1> HIDE DEF d
<1>8. /\ IsList(w) /\ w # <<>> /\ NoCheck(w) /\ Unmarked(w)
      /\ \A i \in DOMAIN w : w[i][1] = "until" => i = 1 /\ w[1][2] = now + d
  BY <1>1, <1>7, WaitShape
<1>9. IsList(<<c>>) /\ Len(<<c>>) = 1 /\ DOMAIN <<c>> = {1} /\ <<c>>[1] = c
  BY SingleShape
<1> HIDE DEF w, c
<1>10. /\ IsList(a) /\ Len(a) = Len(w) + 1 /\ DOMAIN a = 1..(Len(w) + 1) /\ Len(w) \in Nat
       /\ \A i \in DOMAIN a : i <= Len(w) => i \in DOMAIN w /\ a[i] = w[i]
       /\ \A i \in DOMAIN a : i > Len(w) => a[i] = c
  <2>1. IsList(w) /\ IsList(<<c>>)
    BY <1>8, <1>9
  <2>2. /\ IsList(a) /\ Len(a) = Len(w) + Len(<<c>>) /\ DOMAIN a = 1..(Len(w) + Len(<<c>>))
        /\ Len(w) \in Nat
        /\ \A i \in DOMAIN a : i <= Len(w) => i \in DOMAIN w /\ a[i] = w[i]
        /\ \A i \in DOMAIN a : i > Len(w) => i - Len(w) \in DOMAIN <<c>> /\ a[i] = <<c>>[i - Len(w)]
    BY <2>1, ConcatShape
  <2> QED
    BY <1>9, <2>2
<1> HIDE DEF a
<1>11. todo' = a /\ maxSettle' = maxSettle
  <2>1. todo' = a \o <<>> /\ maxSettle' = maxSettle
    BY <1>2, <1>4 DEF Call
  <2> QED
    BY <1>10, <2>1, ConcatNothing
<1>12. /\ \A i \in DOMAIN a : a[i][1] = "until" => i = 1 /\ a[1][2] = NextStop(deadline)
       /\ \A i \in DOMAIN a : a[i][1] = "check" => i = Len(a) /\ a[i] = c
       /\ a[Len(a)] = c /\ a # <<>>
  <2>1. \A i \in DOMAIN a : i <= Len(w) \/ i = Len(a)
    BY <1>10
  <2>2. Len(a) \in DOMAIN a /\ a[Len(a)] = c /\ Len(a) # 0
    BY <1>10
  <2>3. a # <<>>
    BY <1>10, <2>2, ListShape
  <2>4. \A i \in DOMAIN a : a[i][1] = "until" => i \in DOMAIN w /\ a[i] = w[i]
    BY <1>3, <1>10, <2>1, <2>2
  <2>5. \A i \in DOMAIN a : a[i][1] = "check" => i = Len(a)
    BY <1>8, <1>10, <2>1 DEF NoCheck
  <2> QED
    BY <1>7, <1>8, <2>2, <2>3, <2>4, <2>5
<1>13. Unmarked(a)
  BY <1>3, <1>8, <1>10 DEF Unmarked
<1>14. Loops(a, now)
  <2>1. \A i \in DOMAIN a : \A j \in DOMAIN a : a[j][1] = "until" /\ j < i => i # 1
    BY <1>10
  <2> QED
    BY <1>6, <1>12, <2>1 DEF Loops
<1>15. Bottom(a)
  BY <1>3, <1>12 DEF Bottom
<1>16. Agenda(agenda', now) /\ Bus(bus')
  BY <1>1, <1>2
<1>17. ListsInv' /\ CallsInv' /\ SettledBetweenSteps'
  BY <1>2, <1>10, <1>11, <1>12, <1>14, <1>15, <1>16, AnewKeeps
<1>18. CheckInv'
  <2>1. ASSUME NEW n \in DOMAIN todo', todo'[n][1] = "check"
        PROVE  Waiting(n)'
    <3>1. todo'[n] = todo[1] /\ todo'[n][3] = deadline
      BY <1>3, <1>11, <1>12, <2>1 DEF deadline, c
    <3>2. verdict' = None /\ ~held' /\ todo'[n][3] \in Nat /\ now' <= todo'[n][3]
      BY <1>2, <1>5, <3>1
    <3>3. ~Holds(todo[n][2])'
      BY <1>2, <1>3, <3>1 DEF Holds
    <3>4. \A i \in DOMAIN todo' : todo'[i][1] = "until" =>
            /\ todo'[i][2] <= todo'[n][3] /\ i = 1
            /\ \A e \in DOMAIN agenda' : todo'[i][2] <= agenda'[e].time
      BY <1>2, <1>6, <1>11, <1>12, <3>1
    <3> QED
      BY <3>2, <3>3, <3>4 DEF Waiting
  <2> QED
    BY <2>1 DEF CheckInv
<1>19. VerdictsHonest'
  BY <1>1, <1>2 DEF VerdictsHonest
<1>20. StepInv'
  <2>1. /\ Armed(agenda) = {} => Armed(agenda') = {}
        /\ \A u : ArmedAt(agenda, u) => ArmedAt(agenda', u)
    BY <1>2
  <2> QED
    BY <1>2, <1>3, <1>13, <2>1, PlainCall
<1> QED
  BY <1>17, <1>18, <1>19, <1>20 DEF TestbedInv

(* A quiet event at this instant.                                           *)
LEMMA QuietScheduled ==
  ASSUME TestbedInv, NEW handlers, Quiet(handlers), Schedule(handlers)
  PROVE  /\ Agenda(agenda', now)
         /\ Armed(agenda) = {} => Armed(agenda') = {}
         /\ \A u : ArmedAt(agenda, u) => ArmedAt(agenda', u)
<1>1. Agenda(agenda, now) /\ IsList(agenda) /\ now \in Nat /\ now <= now
  BY DEF TestbedInv, ListsInv, Agenda
<1>2. Inserted(agenda, agenda', now, handlers)
  BY DEF Schedule, ScheduleAt, Inserted
<1> QED
  BY <1>1, <1>2, AgendaInserted, ArmedInserted

(* No calls at all are quiet.                                               *)
LEMMA NothingIsQuiet == Quiet(<<>>)
BY NothingShape DEF Quiet, Harmless

(* The verdict of an assertion.                                             *)
LEMMA ConcludeAction ==
  ASSUME TestbedInv, Conclude
  PROVE  TestbedInv'
<1>1. IsList(todo) /\ now \in Nat /\ cycle \in Nat /\ Bus(bus) /\ CheckInv
  BY DEF TestbedInv, ListsInv
<1>2. /\ Doing("check") /\ Schedule(<<>>) /\ Call(Settle)
      /\ Holds(Arg) \/ TimedOut(Head(todo)[3])
      /\ verdict' = [passed |-> Holds(Arg), expected |-> Arg, at |-> now,
                     deadline |-> Head(todo)[3]]
      /\ UNCHANGED <<now, bus, cycle, ticks, latest, held>>
  BY DEF Conclude, registry, history
<1>3. /\ todo # <<>> /\ todo[1][1] = "check" /\ Arg = todo[1][2] /\ Mark(todo[1]) \notin Marks
      /\ Head(todo) = todo[1]
  BY <1>2, DoingFacts DEF Marks
<1>4. 1 \in DOMAIN todo /\ Tail(todo) = <<>>
  BY <1>3, HeadFacts
<1>5. ~held /\ todo[1][3] \in Nat /\ now <= todo[1][3]
  BY <1>1, <1>3, <1>4 DEF CheckInv, Waiting
<1>6. IsList(Settle) /\ Len(Settle) = 1 /\ DOMAIN Settle = {1} /\ Settle[1][1] = "settle"
  BY SettleShape DEF Harmless
<1>7. todo' = Settle /\ maxSettle' = maxSettle
  <2>1. todo' = Settle \o <<>> /\ maxSettle' = maxSettle
    BY <1>2, <1>4 DEF Call
  <2> QED
    BY <1>6, <2>1, ConcatNothing
<1>8. /\ Agenda(agenda', now)
      /\ Armed(agenda) = {} => Armed(agenda') = {}
      /\ \A u : ArmedAt(agenda, u) => ArmedAt(agenda', u)
  BY <1>2, NothingIsQuiet, QuietScheduled
<1>9. Settle # <<>> /\ Loops(Settle, now) /\ Bottom(Settle) /\ Unmarked(Settle) /\ NoCheck(Settle)
  <2>1. Settle # <<>>
    BY <1>6, ListShape
  <2> QED
    BY <1>6, <2>1, SettleShape, HarmlessFacts DEF Loops, Bottom
<1>10. ListsInv' /\ CallsInv' /\ SettledBetweenSteps'
  <2>1. Bus(bus') /\ UNCHANGED <<now, cycle, maxSettle>>
    BY <1>1, <1>2, <1>7
  <2> QED
    BY <1>6, <1>7, <1>8, <1>9, <2>1, AnewKeeps
<1>11. CheckInv'
  BY <1>7, <1>9 DEF CheckInv, NoCheck
<1>12. VerdictsHonest'
  <2>1. /\ verdict'.passed = Holds(Arg) /\ verdict'.at = now /\ verdict'.deadline = todo[1][3]
        /\ ~held'
    BY <1>2, <1>3, <1>5
  <2>2. ~Holds(Arg) => now = todo[1][3]
    BY <1>1, <1>2, <1>3, <1>5 DEF TimedOut
  <2> QED
    BY <1>5, <2>1, <2>2 DEF VerdictsHonest
<1>13. StepInv'
  BY <1>2, <1>3, <1>8, <1>9, PlainCall
<1> QED
  BY <1>10, <1>11, <1>12, <1>13 DEF TestbedInv

(* A step of a scenario begins at rest.                                     *)
LEMMA BeginKeeps ==
  ASSUME TestbedInv, NEW a, Begin(a), IsList(a), a # <<>>, Loops(a, now), Bottom(a), Unmarked(a),
         Agenda(agenda', now), \A u : ArmedAt(agenda, u) => ArmedAt(agenda', u)
  PROVE  /\ ListsInv' /\ CallsInv' /\ SettledBetweenSteps' /\ StepInv'
         /\ NoCheck(a) /\ UNCHANGED <<verdict, held>> => CheckInv' /\ VerdictsHonest'
<1>1. /\ todo = <<>> /\ todo' = a
      /\ UNCHANGED <<now, bus, maxSettle, cycle, ticks>>
  BY DEF Begin, Between, registry, history
<1>2. Bus(bus')
  BY <1>1 DEF TestbedInv, ListsInv, Bus
<1>3. ListsInv' /\ CallsInv' /\ SettledBetweenSteps'
  BY <1>1, <1>2, AnewKeeps
<1>4. Resting(todo, agenda, now, cycle, ticks)
  <2>1. DOMAIN todo = {}
    BY <1>1
  <2>2. ~InStep(todo, agenda, now, cycle, ticks)
    BY <2>1 DEF InStep, Counting, Ticking, Arming
  <2> QED
    BY <2>2 DEF TestbedInv, StepInv
<1>5. \A m \in Marks : Absent(a, m)
  BY DEF Unmarked, Absent
<1>6. Resting(a, agenda', now, cycle, ticks)
  BY <1>4, <1>5 DEF Resting
<1>7. StepInv'
  BY <1>1, <1>6, InvPrimed DEF StepInv
<1>8. NoCheck(a) => CheckInv'
  BY <1>1 DEF NoCheck, CheckInv
<1>9. UNCHANGED <<verdict, held>> => VerdictsHonest'
  BY DEF TestbedInv, VerdictsHonest
<1> QED
  BY <1>3, <1>7, <1>8, <1>9

(* Calls a scenario step may begin with.                                    *)
LEMMA BeginHarmless ==
  ASSUME TestbedInv, NEW a, Harmless(a), Len(a) # 0, a[Len(a)][1] = "settle"
  PROVE  IsList(a) /\ a # <<>> /\ Loops(a, now) /\ Bottom(a) /\ Unmarked(a) /\ NoCheck(a)
<1>1. IsList(a) /\ NoCheck(a) /\ Unmarked(a) /\ NoLoop(a)
  BY HarmlessFacts
<1>2. a # <<>>
  BY <1>1, ListShape
<1> QED
  BY <1>1, <1>2 DEF Loops, NoLoop, Bottom, NoCheck

(* A step that schedules one plain handler at this instant, then settles and*)
(* emits: InjectFaultStep and SendCommandStep.                              *)
LEMMA InjectKeeps ==
  ASSUME TestbedInv, NEW x, x[1] \in Plain, Inject(<<x>>)
  PROVE  TestbedInv'
<1> DEFINE a == Settle \o Emission
<1>1. Begin(a) /\ Schedule(<<x>>) /\ UNCHANGED <<verdict, held>>
  BY DEF Inject
<1>2. Quiet(<<x>>)
  BY SingleShape DEF Quiet
<1>3. /\ Agenda(agenda', now)
      /\ \A u : ArmedAt(agenda, u) => ArmedAt(agenda', u)
  BY <1>1, <1>2, QuietScheduled
<1>4. IsList(Settle) /\ IsList(Emission)
  BY SettleShape, EmissionShape DEF Harmless
<1>5. Harmless(a)
  BY SettleShape, EmissionShape, HarmlessConcat
<1>6. Len(a) # 0 /\ a[Len(a)][1] = "settle"
  <2>1. /\ Len(a) = Len(Settle) + Len(Emission)
        /\ DOMAIN a = 1..(Len(Settle) + Len(Emission))
        /\ \A i \in DOMAIN a : i > Len(Settle) => a[i] = Emission[i - Len(Settle)]
    BY <1>4, ConcatShape
  <2> HIDE DEF a
  <2>2. Len(a) \in DOMAIN a /\ a[Len(a)] = Emission[Len(Emission)] /\ Len(a) # 0
    BY <2>1, SettleShape, EmissionShape
  <2> QED
    BY <2>2, EmissionShape
<1> HIDE DEF a
<1>7. IsList(a) /\ a # <<>> /\ Loops(a, now) /\ Bottom(a) /\ Unmarked(a) /\ NoCheck(a)
  BY <1>5, <1>6, BeginHarmless
<1> QED
  BY <1>1, <1>3, <1>7, BeginKeeps DEF TestbedInv

(* Every step of a scenario keeps the invariant.                            *)
LEMMA ScenarioActions ==
  ASSUME TestbedInv, WaitStep \/ InjectFaultStep \/ SendCommandStep \/ AssertStep
  PROVE  TestbedInv'
<1>1. now \in Nat /\ Agenda(agenda, now)
  BY DEF TestbedInv, ListsInv
<1>2. CASE WaitStep
  <2>1. PICK d \in WaitTime : Begin(Wait(d)) /\ UNCHANGED <<agenda, verdict, held>>
    BY <1>2 DEF WaitStep
  <2>2. d \in Nat
    BY TestbedAssumption
  <2> DEFINE w == Wait(d)
  <2>3. /\ IsList(w) /\ w # <<>> /\ NoCheck(w) /\ Unmarked(w) /\ w[Len(w)][1] = "settle"
        /\ \A i \in DOMAIN w : w[i][1] = "until" => i = 1 /\ w[1][2] = now + d
    BY <1>1, <2>2, WaitShape
  <2>4. Begin(w)
    BY <2>1
  <2> HIDE DEF w
  <2>5. Loops(w, now)
    <3>1. now + d \in Nat /\ now <= now + d
      BY <1>1, <2>2
    <3>2. DOMAIN w = 1..Len(w) /\ Len(w) \in Nat
      BY <2>3, ListShape
    <3>3. \A i \in DOMAIN w : \A j \in DOMAIN w : j < i => i # 1
      BY <3>2
    <3> QED
      BY <2>3, <3>1, <3>3 DEF Loops
  <2>6. Bottom(w)
    BY <2>3 DEF Bottom, NoCheck
  <2>7. Agenda(agenda', now) /\ \A u : ArmedAt(agenda, u) => ArmedAt(agenda', u)
    BY <1>1, <2>1
  <2> QED
    BY <2>1, <2>3, <2>4, <2>5, <2>6, <2>7, BeginKeeps DEF TestbedInv
<1>3. CASE InjectFaultStep
  <2>1. PICK x : x[1] \in Plain /\ Inject(<<x>>)
    <3>1. CASE \E o \in Override, span \in Span : Inject(<<<<"override", o, span>>>>)
      <4>1. PICK o \in Override, span \in Span : Inject(<<<<"override", o, span>>>>)
        BY <3>1
      <4> DEFINE x == <<"override", o, span>>
      <4>2. x[1] \in Plain
        BY DEF Plain
      <4> QED
        BY <4>1, <4>2
    <3>2. CASE \E f \in NamedFault, on \in BOOLEAN : Inject(<<<<"named_fault", f, on>>>>)
      <4>1. PICK f \in NamedFault, on \in BOOLEAN : Inject(<<<<"named_fault", f, on>>>>)
        BY <3>2
      <4> DEFINE x == <<"named_fault", f, on>>
      <4>2. x[1] \in Plain
        BY DEF Plain
      <4> QED
        BY <4>1, <4>2
    <3> QED
      BY <1>3, <3>1, <3>2 DEF InjectFaultStep
  <2> QED
    BY <2>1, InjectKeeps
<1>4. CASE SendCommandStep
  <2>1. PICK c \in Command : Inject(<<<<"send", c>>>>)
    BY <1>4 DEF SendCommandStep
  <2> DEFINE x == <<"send", c>>
  <2>2. x[1] \in Plain
    BY DEF Plain
  <2>3. Inject(<<x>>)
    BY <2>1
  <2> HIDE DEF x
  <2> QED
    BY <2>2, <2>3, InjectKeeps
<1>5. CASE AssertStep
  <2>1. PICK x \in Expected, timeout \in Timeout :
          /\ Begin(<<<<"check", x, now + timeout>>>>)
          /\ verdict' = None /\ held' = FALSE /\ UNCHANGED agenda
    BY <1>5 DEF AssertStep
  <2> DEFINE c == <<"check", x, now + timeout>>
             a == <<c>>
  <2>2. Begin(a) /\ c[1] = "check" /\ c[3] = now + timeout
    BY <2>1
  <2>3. now + timeout \in Nat /\ now <= now + timeout
    BY <1>1, TestbedAssumption
  <2> HIDE DEF c
  <2>4. IsList(a) /\ Len(a) = 1 /\ DOMAIN a = {1} /\ a[1] = c /\ a # <<>>
    BY SingleShape
  <2> HIDE DEF a
  <2>5. Loops(a, now) /\ Bottom(a) /\ Unmarked(a)
    BY <2>2, <2>4 DEF Loops, Bottom, Unmarked, Mark, Marks
  <2>6. Agenda(agenda', now) /\ \A u : ArmedAt(agenda, u) => ArmedAt(agenda', u)
    BY <1>1, <2>1
  <2>7. ListsInv' /\ CallsInv' /\ SettledBetweenSteps' /\ StepInv'
    BY <2>2, <2>4, <2>5, <2>6, BeginKeeps
  <2>8. VerdictsHonest'
    BY <2>1 DEF VerdictsHonest
  <2>9. todo' = a /\ now' = now
    BY <2>2 DEF Begin
  <2>10. ASSUME NEW n \in DOMAIN todo'
         PROVE  Waiting(n)'
    <3>1. n = 1 /\ todo'[n] = c
      BY <2>4, <2>9, <2>10
    <3>2. verdict' = None /\ ~held' /\ todo'[n][3] \in Nat /\ now' <= todo'[n][3]
      BY <2>1, <2>2, <2>3, <2>9, <3>1
    <3>3. \A i \in DOMAIN todo' : todo'[i][1] # "until"
      BY <2>2, <2>4, <2>9
    <3> QED
      BY <3>2, <3>3 DEF Waiting
  <2>11. CheckInv'
    BY <2>10 DEF CheckInv
  <2> QED
    BY <2>7, <2>8, <2>11 DEF TestbedInv
<1> QED
  BY <1>2, <1>3, <1>4, <1>5

-----------------------------------------------------------------------------
(* Theorems.                                                                *)

(* TestbedRunner: a fresh testbed is at rest, its first step armed.         *)
LEMMA InvInit ==
  ASSUME Init
  PROVE  TestbedInv
<1> DEFINE event == [time |-> Step, handlers |-> PhysicalStep]
<1>1. /\ maxSettle \in Nat /\ now = 0 /\ bus = <<>> /\ todo = <<>> /\ cycle = 0
      /\ verdict = None /\ ticks = 0 /\ agenda = <<event>>
  BY TestbedAssumption DEF Init
<1>2. event.time = Step /\ event.handlers = PhysicalStep /\ Step \in Nat /\ Step > 0
  BY TestbedAssumption
<1> HIDE DEF event
<1>3. IsList(agenda) /\ DOMAIN agenda = {1} /\ agenda[1] = event
  BY <1>1, SingleShape
<1>4. IsList(todo) /\ DOMAIN todo = {} /\ Bus(bus)
  BY <1>1, NothingShape DEF Harmless, Bus
<1>5. ListsInv
  BY <1>1, <1>2, <1>3, <1>4 DEF ListsInv, Agenda
<1>6. CallsInv /\ CheckInv /\ VerdictsHonest
  BY <1>1, <1>4 DEF CallsInv, Loops, Bottom, CheckInv, VerdictsHonest
<1>7. SettledBetweenSteps
  <2>1. agenda # <<>> => Head(agenda) = event
    BY <1>3, TailShape
  <2> QED
    BY <1>1, <1>2, <2>1 DEF SettledBetweenSteps, Idle, DueBy
<1>8. StepInv
  <2>1. Armed(agenda) = {1}
    BY <1>2, <1>3 DEF Armed
  <2>2. Step * (0 + 1) = Step /\ Step * 0 = 0
    BY TestbedAssumption
  <2>3. \A m \in Marks : Absent(todo, m)
    BY <1>4 DEF Absent
  <2>4. ArmedAt(agenda, Step * (cycle + 1))
    BY <1>1, <1>2, <1>3, <2>1, <2>2 DEF ArmedAt
  <2>5. Resting(todo, agenda, now, cycle, ticks)
    BY <1>1, <2>2, <2>3, <2>4 DEF Resting
  <2> QED
    BY <2>5 DEF StepInv
<1> QED
  BY <1>5, <1>6, <1>7, <1>8 DEF TestbedInv

(* The invariant reads nothing but the variables.                           *)
LEMMA InvStutters ==
  ASSUME TestbedInv, UNCHANGED vars
  PROVE  TestbedInv'
<1>1. UNCHANGED <<now, agenda, bus, todo, failed, maxSettle, cycle, ticks, latest, verdict, held>>
  BY DEF vars, engine, registry, script, history
<1>2. Agenda(agenda, now)' /\ StepInv'
  BY <1>1, InvPrimed DEF TestbedInv, ListsInv, StepInv
<1>3. ListsInv' /\ CallsInv'
  BY <1>1, <1>2 DEF TestbedInv, ListsInv, CallsInv, Bus, Loops, Bottom
<1>4. SettledBetweenSteps'
  BY <1>1 DEF TestbedInv, SettledBetweenSteps, Between, Idle, DueBy
<1>5. CheckInv'
  BY <1>1 DEF TestbedInv, CheckInv, Waiting, Holds
<1>6. VerdictsHonest'
  BY <1>1 DEF TestbedInv, VerdictsHonest
<1> QED
  BY <1>2, <1>3, <1>4, <1>5, <1>6 DEF TestbedInv

(* Every action keeps the invariant.                                        *)
LEMMA InvStep ==
  ASSUME TestbedInv, [Next]_vars
  PROVE  TestbedInv'
<1>1. CASE Next
  BY <1>1, PlainActions, StepActions, SettleAction, RaisingActions, DispatchAction,
     JumpAction, CheckAgainAction, ConcludeAction, ScenarioActions DEF Next, Run
<1>2. CASE UNCHANGED vars
  BY <1>2, InvStutters
<1> QED
  BY <1>1, <1>2

(* The inductive invariant: the shape of the calls in progress, and where   *)
(* the physical step stands.                                                *)
THEOREM TestbedInvariant == Spec => []TestbedInv
<1>1. Init => TestbedInv
  BY InvInit
<1>2. TestbedInv /\ [Next]_vars => TestbedInv'
  BY InvStep
<1> QED
  BY <1>1, <1>2, PTL DEF Spec

(* runner.py: whatever waits, injections, commands and assertions a scenario*)
(* mixes, a step of it returns only with the bus drained and no event of    *)
(* this instant or an earlier one waiting.                                  *)
THEOREM StepsReturnSettled == Spec => []SettledBetweenSteps
<1>1. TestbedInv => SettledBetweenSteps
  BY DEF TestbedInv
<1> QED
  BY <1>1, TestbedInvariant, PTL

(* assert_step: a verdict lies within its window; a failed one is at the    *)
(* deadline and no instant of the window ended with the condition met.      *)
THEOREM AssertionsAreHonest == Spec => []VerdictsHonest
<1>1. TestbedInv => VerdictsHonest
  BY DEF TestbedInv
<1> QED
  BY <1>1, TestbedInvariant, PTL

(* The number of whole seconds.                                             *)
LEMMA WholeSteps ==
  ASSUME NEW s \in Nat \ {0}, NEW c \in Nat, NEW t \in Nat, s * c <= t, t < s * (c + 1)
  PROVE  t \div s = c
<1> DEFINE q == t \div s
           r == t % s
<1>1. q \in Int /\ r \in 0..(s - 1) /\ t = s * q + r
  OBVIOUS
<1> HIDE DEF q, r
<1>2. s * q < s * (c + 1) /\ s * c < s * (q + 1)
  <2>1. s * (q + 1) = s * q + s /\ s * q \in Int /\ s * c \in Int /\ s * (c + 1) \in Int
    BY <1>1
  <2> QED
    BY <1>1, <2>1
<1>3. \A x, y \in Int : s * x < s * y => x < y
  OBVIOUS
<1>4. q < c + 1 /\ c < q + 1
  BY <1>1, <1>2, <1>3
<1>5. q = c
  BY <1>1, <1>4
<1> QED
  BY <1>5 DEF q

(* _on_step: between two steps of a scenario the modules have been ticked   *)
(* and the cycles counted once per second of virtual time, and exactly one  *)
(* physical step is armed.                                                  *)
THEOREM TickedOncePerSecond == Spec => []OncePerSecond
<1>1. ASSUME TestbedInv, Between
      PROVE  /\ cycle = now \div Step /\ ticks = cycle
             /\ Cardinality({i \in DOMAIN agenda : agenda[i].handlers = PhysicalStep}) = 1
  <2>1. todo = <<>> /\ Idle /\ Agenda(agenda, now) /\ now \in Nat /\ cycle \in Nat
    BY <1>1 DEF Between, TestbedInv, SettledBetweenSteps, ListsInv
  <2>2. DOMAIN todo = {}
    BY <2>1
  <2>3. Resting(todo, agenda, now, cycle, ticks)
    BY <1>1, <2>2 DEF TestbedInv, StepInv, InStep, Counting, Ticking, Arming
  <2>4. PICK i \in DOMAIN agenda : Armed(agenda) = {i} /\ agenda[i].time = Step * (cycle + 1)
    BY <2>3 DEF Resting, ArmedAt
  <2>5. now < agenda[i].time
    BY <2>1, NotDue DEF Idle
  <2>6. cycle = now \div Step
    BY <2>1, <2>3, <2>4, <2>5, WholeSteps, TestbedAssumption DEF Resting
  <2>7. Cardinality(Armed(agenda)) = 1
    BY <2>4, FS_Singleton
  <2> QED
    BY <2>3, <2>6, <2>7 DEF Resting, Armed
<1>2. TestbedInv => OncePerSecond
  BY <1>1 DEF OncePerSecond
<1> QED
  BY <1>2, TestbedInvariant, PTL

-----------------------------------------------------------------------------
(* The telemetry cache.  A report travels from the bus to a task of its     *)
(* delivery, to an event of the agenda, to the task that records it, and    *)
(* never overtakes another: what is current is the last report on its way.  *)

(* Tasks that carry something out, as against the calls that drive them.    *)
Data == Plain \cup {"command", "telemetry"}

(* What is carried out next was drained or dispatched last.                 *)
Front(s) == \A i, j \in DOMAIN s : i < j /\ s[j][1] \in Data => s[i][1] \in Data

(* Every counting of the cycles and every tick is followed by the tick of   *)
(* the EPS and that by the telemetry of every node.                         *)
TicksAhead(s) ==
  \A i \in DOMAIN s : s[i][1] \in {"cycles", "tick"} =>
    \E j \in DOMAIN s :
      /\ i <= j /\ Mark(s[j]) = "eps"
      /\ \A node \in DOMAIN Signals : \E k \in DOMAIN s : j < k /\ s[k] = <<"emit", node>>

(* Reports of signal x among tasks or envelopes q, and the value of the last*)
Has(q, kind, x) == \E i \in DOMAIN q : q[i][1] = kind /\ q[i][2] = x

Ends(q, kind, x, v) ==
  \E i \in DOMAIN q :
    /\ q[i][1] = kind /\ q[i][2] = x /\ q[i][3] = v
    /\ \A j \in DOMAIN q : j > i => ~(q[j][1] = kind /\ q[j][2] = x)

(* The same of the events of an agenda.                                     *)
Waits(g, x) == \E i \in DOMAIN g : Has(g[i].handlers, "record", x)

WaitsLast(g, x, v) ==
  \E i \in DOMAIN g :
    /\ Ends(g[i].handlers, "record", x, v)
    /\ \A j \in DOMAIN g : j > i => ~Has(g[j].handlers, "record", x)

(* Reports wait for no later instant.                                       *)
RecordsDue(g, t) ==
  \A i \in DOMAIN g : \A j \in DOMAIN g[i].handlers :
    g[i].handlers[j][1] = "record" => g[i].time <= t

(* The last report of x on its way, from the bus b over the tasks d and the *)
(* agenda g to the cache l, is v.                                           *)
InTasks(d, g, l, x, v) ==
  \/ Ends(d, "telemetry", x, v)
  \/ /\ ~Has(d, "telemetry", x)
     /\ \/ WaitsLast(g, x, v)
        \/ ~Waits(g, x) /\ Ends(d, "record", x, v)
        \/ ~Waits(g, x) /\ ~Has(d, "record", x) /\ l[x] = v

Arrives(b, d, g, l, x, v) ==
  \/ Ends(b, "telemetry", x, v)
  \/ ~Has(b, "telemetry", x) /\ InTasks(d, g, l, x, v)

(* A node that reports x is still to emit its telemetry.                    *)
Coming(s, x) ==
  \E j \in DOMAIN s : \E node \in DOMAIN Signals :
    s[j] = <<"emit", node>> /\ \E i \in DOMAIN Signals[node] : Signals[node][i] = x

(* A refresh of the EPS would change nothing.                               *)
Looked == Power!Refreshed(eps, payload) = [eps |-> eps, payload |-> payload]

Current ==
  \A x \in Signal : Coming(todo, x) \/ Arrives(bus, todo, agenda, latest, x, Report(x))

(* With the EPS ticked and nobody told anything since, every cache entry is *)
(* current or will be.                                                      *)
CacheInv ==
  /\ DOMAIN latest = Signal
  /\ Front(todo) /\ TicksAhead(todo) /\ RecordsDue(agenda, now)
  /\ ~touched /\ Absent(todo, "eps") => Looked /\ Current

-----------------------------------------------------------------------------
(* Reports in two lists put together.                                       *)
LEMMA ConcatReports ==
  ASSUME NEW s, IsList(s), NEW t, IsList(t), NEW kind, NEW x
  PROVE  /\ Has(s \o t, kind, x) <=> Has(s, kind, x) \/ Has(t, kind, x)
         /\ \A v : Ends(t, kind, x, v) => Ends(s \o t, kind, x, v)
         /\ \A v : ~Has(t, kind, x) /\ Ends(s, kind, x, v) => Ends(s \o t, kind, x, v)
<1> DEFINE r == s \o t
           Is(task) == task[1] = kind /\ task[2] = x
<1>1. /\ Len(s) \in Nat /\ Len(t) \in Nat /\ DOMAIN r = 1..(Len(s) + Len(t))
      /\ \A i \in DOMAIN s : r[i] = s[i]
      /\ \A i \in DOMAIN r : i <= Len(s) => i \in DOMAIN s /\ r[i] = s[i]
      /\ \A i \in DOMAIN r : i > Len(s) => i - Len(s) \in DOMAIN t /\ r[i] = t[i - Len(s)]
  BY ConcatShape
<1>2. DOMAIN s = 1..Len(s) /\ DOMAIN t = 1..Len(t)
  BY ListShape
<1>3. \A i \in DOMAIN t : i + Len(s) \in DOMAIN r /\ r[i + Len(s)] = t[i] /\ i + Len(s) > Len(s)
  <2> SUFFICES ASSUME NEW i \in DOMAIN t
               PROVE  i + Len(s) \in DOMAIN r /\ r[i + Len(s)] = t[i] /\ i + Len(s) > Len(s)
    OBVIOUS
  <2>1. i + Len(s) \in DOMAIN r /\ i + Len(s) > Len(s) /\ i + Len(s) - Len(s) = i
    BY ONLY <1>1, <1>2, i \in DOMAIN t
  <2> QED
    BY ONLY <1>1, <2>1
<1> HIDE DEF r, Is
<1>4. \A i \in DOMAIN s : i \in DOMAIN r /\ i <= Len(s)
  BY ONLY <1>1, <1>2
<1>5. (\E i \in DOMAIN r : Is(r[i])) <=> (\E i \in DOMAIN s : Is(s[i])) \/ (\E i \in DOMAIN t : Is(t[i]))
  <2>1. ASSUME NEW i \in DOMAIN r, Is(r[i])
        PROVE  (\E k \in DOMAIN s : Is(s[k])) \/ (\E k \in DOMAIN t : Is(t[k]))
    <3>1. i <= Len(s) \/ i > Len(s)
      BY ONLY <1>1, i \in DOMAIN r
    <3> QED
      BY <1>1, <2>1, <3>1, Zenon
  <2> QED
    BY <1>1, <1>3, <1>4, <2>1, Zenon
<1>6. ASSUME NEW v, NEW i \in DOMAIN t, Is(t[i]), t[i][3] = v,
             \A j \in DOMAIN t : j > i => ~Is(t[j])
      PROVE  /\ i + Len(s) \in DOMAIN r /\ Is(r[i + Len(s)]) /\ r[i + Len(s)][3] = v
             /\ \A j \in DOMAIN r : j > i + Len(s) => ~Is(r[j])
  <2>1. i + Len(s) \in DOMAIN r /\ Is(r[i + Len(s)]) /\ r[i + Len(s)][3] = v
    BY <1>3, <1>6
  <2>2. ASSUME NEW j \in DOMAIN r, j > i + Len(s)
        PROVE  ~Is(r[j])
    <3>1. j > Len(s) /\ j - Len(s) > i
      BY ONLY <1>1, <1>2, j \in DOMAIN r, i \in DOMAIN t, j > i + Len(s)
    <3> QED
      BY <1>1, <1>6, <3>1
  <2> QED
    BY <2>1, <2>2
<1>7. ASSUME NEW v, \A j \in DOMAIN t : ~Is(t[j]), NEW i \in DOMAIN s, Is(s[i]), s[i][3] = v,
             \A j \in DOMAIN s : j > i => ~Is(s[j])
      PROVE  /\ i \in DOMAIN r /\ Is(r[i]) /\ r[i][3] = v
             /\ \A j \in DOMAIN r : j > i => ~Is(r[j])
  <2>1. i \in DOMAIN r /\ Is(r[i]) /\ r[i][3] = v
    BY <1>1, <1>4, <1>7
  <2>2. ASSUME NEW j \in DOMAIN r, j > i
        PROVE  ~Is(r[j])
    <3>1. j <= Len(s) \/ j > Len(s)
      BY ONLY <1>1, j \in DOMAIN r
    <3> QED
      BY <1>1, <1>7, <2>2, <3>1
  <2> QED
    BY <2>1, <2>2
<1>8. Has(r, kind, x) <=> Has(s, kind, x) \/ Has(t, kind, x)
  BY <1>5, Zenon DEF Has, Is
<1>9. ASSUME NEW v, Ends(t, kind, x, v)
      PROVE  Ends(r, kind, x, v)
  BY <1>6, <1>9, Zenon DEF Ends, Is
<1>10. ASSUME NEW v, ~Has(t, kind, x), Ends(s, kind, x, v)
       PROVE  Ends(r, kind, x, v)
  BY <1>7, <1>10, Zenon DEF Ends, Has, Is
<1> QED
  BY <1>8, <1>9, <1>10 DEF r

(* What is left when the first task or envelope is taken.                   *)
LEMMA TailReports ==
  ASSUME NEW s, IsList(s), s # <<>>, NEW kind, NEW x
  PROVE  /\ Has(s, kind, x) <=> (s[1][1] = kind /\ s[1][2] = x) \/ Has(Tail(s), kind, x)
         /\ \A v : Ends(s, kind, x, v) =>
              \/ Ends(Tail(s), kind, x, v)
              \/ s[1][1] = kind /\ s[1][2] = x /\ s[1][3] = v /\ ~Has(Tail(s), kind, x)
<1> DEFINE t == Tail(s)
           Is(task) == task[1] = kind /\ task[2] = x
<1>1. /\ Len(s) \in Nat \ {0} /\ DOMAIN s = 1..Len(s) /\ DOMAIN t = 1..(Len(s) - 1)
      /\ \A i \in DOMAIN t : i + 1 \in DOMAIN s /\ t[i] = s[i + 1]
  BY TailShape
<1> HIDE DEF t, Is
<1>2. 1 \in DOMAIN s /\ \A i \in DOMAIN s : i = 1 \/ (i - 1 \in DOMAIN t /\ i - 1 + 1 = i)
  BY ONLY <1>1
<1>3. \A i \in DOMAIN s : i = 1 \/ (i - 1 \in DOMAIN t /\ t[i - 1] = s[i])
  BY ONLY <1>1, <1>2
<1>4. (\E i \in DOMAIN s : Is(s[i])) <=> Is(s[1]) \/ \E i \in DOMAIN t : Is(t[i])
  <2>1. ASSUME NEW i \in DOMAIN s, Is(s[i])
        PROVE  Is(s[1]) \/ \E k \in DOMAIN t : Is(t[k])
    BY <1>3, <2>1, Zenon
  <2>2. ASSUME NEW i \in DOMAIN t, Is(t[i])
        PROVE  \E k \in DOMAIN s : Is(s[k])
    BY <1>1, <2>2, Zenon
  <2> QED
    BY <1>2, <2>1, <2>2, Zenon
<1>5. ASSUME NEW i \in DOMAIN s, NEW v, Is(s[i]), s[i][3] = v, \A j \in DOMAIN s : j > i => ~Is(s[j])
      PROVE  \/ \E k \in DOMAIN t : Is(t[k]) /\ t[k][3] = v /\ \A j \in DOMAIN t : j > k => ~Is(t[j])
             \/ Is(s[1]) /\ s[1][3] = v /\ \A j \in DOMAIN t : ~Is(t[j])
  <2>1. CASE i = 1
    <3>1. \A j \in DOMAIN t : j + 1 > i
      BY ONLY <1>1, <2>1
    <3> QED
      BY <1>1, <1>5, <2>1, <3>1
  <2>2. CASE i # 1
    <3>1. i - 1 \in DOMAIN t /\ t[i - 1] = s[i]
      BY <1>3, <2>2
    <3>2. \A j \in DOMAIN t : j > i - 1 => j + 1 > i
      BY ONLY <1>1, i \in DOMAIN s
    <3>3. \A j \in DOMAIN t : j > i - 1 => ~Is(t[j])
      BY <1>1, <1>5, <3>2
    <3> QED
      BY <1>5, <3>1, <3>3, Zenon
  <2> QED
    BY <2>1, <2>2
<1>6. Has(s, kind, x) <=> Is(s[1]) \/ Has(t, kind, x)
  BY <1>4, Zenon DEF Has, Is
<1>7. ASSUME NEW v, Ends(s, kind, x, v)
      PROVE  Ends(t, kind, x, v) \/ (Is(s[1]) /\ s[1][3] = v /\ ~Has(t, kind, x))
  <2>1. PICK i \in DOMAIN s : Is(s[i]) /\ s[i][3] = v /\ \A j \in DOMAIN s : j > i => ~Is(s[j])
    BY <1>7, Zenon DEF Ends, Is
  <2>2. CASE \E k \in DOMAIN t : Is(t[k]) /\ t[k][3] = v /\ \A j \in DOMAIN t : j > k => ~Is(t[j])
    <3>1. Ends(t, kind, x, v)
      BY ONLY <2>2, Zenon DEF Ends, Is
    <3> QED
      BY <3>1
  <2>3. CASE Is(s[1]) /\ s[1][3] = v /\ \A j \in DOMAIN t : ~Is(t[j])
    <3>1. ~Has(t, kind, x)
      BY ONLY <2>3, Zenon DEF Has, Is
    <3> QED
      BY <2>3, <3>1
  <2> QED
    BY <1>5, <2>1, <2>2, <2>3
<1> QED
  BY <1>6, <1>7 DEF t, Is

(* The same of the agenda when its first event is dispatched.               *)
LEMMA TailWaits ==
  ASSUME NEW g, IsList(g), g # <<>>, NEW x
  PROVE  /\ Waits(g, x) <=> Has(g[1].handlers, "record", x) \/ Waits(Tail(g), x)
         /\ \A v : WaitsLast(g, x, v) =>
              \/ WaitsLast(Tail(g), x, v)
              \/ Ends(g[1].handlers, "record", x, v) /\ ~Waits(Tail(g), x)
<1> DEFINE t == Tail(g)
           Is(event) == Has(event.handlers, "record", x)
<1>1. /\ Len(g) \in Nat \ {0} /\ DOMAIN g = 1..Len(g) /\ DOMAIN t = 1..(Len(g) - 1)
      /\ \A i \in DOMAIN t : i + 1 \in DOMAIN g /\ t[i] = g[i + 1]
  BY TailShape
<1> HIDE DEF t, Is
<1>2. 1 \in DOMAIN g /\ \A i \in DOMAIN g : i = 1 \/ (i - 1 \in DOMAIN t /\ i - 1 + 1 = i)
  BY ONLY <1>1
<1>3. \A i \in DOMAIN g : i = 1 \/ (i - 1 \in DOMAIN t /\ t[i - 1] = g[i])
  BY ONLY <1>1, <1>2
<1>4. (\E i \in DOMAIN g : Is(g[i])) <=> Is(g[1]) \/ \E i \in DOMAIN t : Is(t[i])
  <2>1. ASSUME NEW i \in DOMAIN g, Is(g[i])
        PROVE  Is(g[1]) \/ \E k \in DOMAIN t : Is(t[k])
    BY <1>3, <2>1, Zenon
  <2>2. ASSUME NEW i \in DOMAIN t, Is(t[i])
        PROVE  \E k \in DOMAIN g : Is(g[k])
    BY <1>1, <2>2, Zenon
  <2> QED
    BY <1>2, <2>1, <2>2, Zenon
<1>5. ASSUME NEW i \in DOMAIN g, NEW v, Ends(g[i].handlers, "record", x, v),
             \A j \in DOMAIN g : j > i => ~Is(g[j])
      PROVE  \/ \E k \in DOMAIN t : /\ Ends(t[k].handlers, "record", x, v)
                                    /\ \A j \in DOMAIN t : j > k => ~Is(t[j])
             \/ Ends(g[1].handlers, "record", x, v) /\ \A j \in DOMAIN t : ~Is(t[j])
  <2>1. CASE i = 1
    <3>1. \A j \in DOMAIN t : j + 1 > i
      BY ONLY <1>1, <2>1
    <3> QED
      BY <1>1, <1>5, <2>1, <3>1
  <2>2. CASE i # 1
    <3>1. i - 1 \in DOMAIN t /\ t[i - 1] = g[i]
      BY <1>3, <2>2
    <3>2. \A j \in DOMAIN t : j > i - 1 => j + 1 > i
      BY ONLY <1>1, i \in DOMAIN g
    <3>3. \A j \in DOMAIN t : j > i - 1 => ~Is(t[j])
      BY <1>1, <1>5, <3>2
    <3> QED
      BY <1>5, <3>1, <3>3, Zenon
  <2> QED
    BY <2>1, <2>2
<1>6. Waits(g, x) <=> Is(g[1]) \/ Waits(t, x)
  BY <1>4, Zenon DEF Waits, Is
<1>7. ASSUME NEW v, WaitsLast(g, x, v)
      PROVE  WaitsLast(t, x, v) \/ (Ends(g[1].handlers, "record", x, v) /\ ~Waits(t, x))
  <2>1. PICK i \in DOMAIN g : /\ Ends(g[i].handlers, "record", x, v)
                              /\ \A j \in DOMAIN g : j > i => ~Is(g[j])
    BY <1>7, Zenon DEF WaitsLast, Is
  <2> QED
    BY <1>5, <2>1, Zenon DEF WaitsLast, Waits, Is
<1> QED
  BY <1>6, <1>7 DEF t, Is

(* A new event of this instant stands behind every report that waits.       *)
LEMMA InsertedWaits ==
  ASSUME NEW g, IsList(g), NEW t, NEW handlers, NEW h, Inserted(g, h, t, handlers), NEW x
  PROVE  /\ Waits(h, x) <=> Waits(g, x) \/ Has(handlers, "record", x)
         /\ ~Has(handlers, "record", x) => \A v : WaitsLast(g, x, v) => WaitsLast(h, x, v)
         /\ RecordsDue(g, t) => \A v : Ends(handlers, "record", x, v) => WaitsLast(h, x, v)
<1>1. PICK k \in 0..Len(g) :
        /\ Len(g) \in Nat /\ DOMAIN g = 1..Len(g)
        /\ IsList(h) /\ DOMAIN h = 1..(Len(g) + 1)
        /\ \A i \in DOMAIN g : i <= k <=> g[i].time <= t
        /\ h[k + 1].time = t /\ h[k + 1].handlers = handlers
        /\ \A i \in DOMAIN h : i <= k => i \in DOMAIN g /\ h[i] = g[i]
        /\ \A i \in DOMAIN h : i > k + 1 => i - 1 \in DOMAIN g /\ h[i] = g[i - 1]
        /\ \A i \in DOMAIN g : i > k => h[i + 1] = g[i]
  BY InsertedShape
<1> DEFINE Is(event) == Has(event.handlers, "record", x)
           Place(i) == IF i <= k THEN i ELSE i + 1
<1>2. \A i \in DOMAIN h : i <= k \/ i = k + 1 \/ i > k + 1
  BY ONLY <1>1
<1>3. /\ k + 1 \in DOMAIN h
      /\ \A i \in DOMAIN g : Place(i) \in DOMAIN h /\ Place(i) # k + 1
      /\ \A i, j \in DOMAIN g : i < j <=> Place(i) < Place(j)
      /\ \A i \in DOMAIN g : i <= k => Place(i) < k + 1
  BY ONLY <1>1
<1>4. \A i \in DOMAIN g : h[Place(i)] = g[i]
  <2> TAKE i \in DOMAIN g
  <2>1. CASE i <= k
    <3>1. i \in DOMAIN h
      BY ONLY <1>1, <2>1, i \in DOMAIN g
    <3> QED
      BY <1>1, <2>1, <3>1
  <2>2. CASE i > k
    <3>1. ~(i <= k)
      BY ONLY <1>1, <2>2, i \in DOMAIN g
    <3> QED
      BY <1>1, <2>2, <3>1
  <2> QED
    BY ONLY <1>1, <2>1, <2>2, i \in DOMAIN g
<1>5. \A j \in DOMAIN h : j = k + 1 \/ \E i \in DOMAIN g : j = Place(i)
  <2> TAKE j \in DOMAIN h
  <2>1. CASE j <= k
    <3>1. j \in DOMAIN g /\ j = Place(j)
      BY ONLY <1>1, <2>1, j \in DOMAIN h
    <3> QED
      BY <3>1, Zenon
  <2>2. CASE j > k + 1
    <3>1. j - 1 \in DOMAIN g /\ j = Place(j - 1)
      BY ONLY <1>1, <2>2, j \in DOMAIN h
    <3> QED
      BY <3>1, Zenon
  <2> QED
    BY <1>2, <2>1, <2>2
<1> HIDE DEF Is, Place
<1>6. Waits(h, x) <=> Waits(g, x) \/ Has(handlers, "record", x)
  <2>1. (\E j \in DOMAIN h : Is(h[j])) <=> (\E i \in DOMAIN g : Is(g[i])) \/ Is(h[k + 1])
    <3>1. ASSUME NEW j \in DOMAIN h, Is(h[j])
          PROVE  (\E i \in DOMAIN g : Is(g[i])) \/ Is(h[k + 1])
      BY <1>4, <1>5, <3>1, Zenon
    <3>2. ASSUME NEW i \in DOMAIN g, Is(g[i])
          PROVE  \E j \in DOMAIN h : Is(h[j])
      BY <1>3, <1>4, <3>2, Zenon
    <3> QED
      BY <1>3, <3>1, <3>2, Zenon
  <2> QED
    BY <1>1, <2>1, Zenon DEF Waits, Is
<1>7. ASSUME ~Has(handlers, "record", x), NEW v, WaitsLast(g, x, v)
      PROVE  WaitsLast(h, x, v)
  <2>1. PICK i \in DOMAIN g : /\ Ends(g[i].handlers, "record", x, v)
                              /\ \A j \in DOMAIN g : j > i => ~Is(g[j])
    BY <1>7, Zenon DEF WaitsLast, Is
  <2>2. Place(i) \in DOMAIN h /\ Ends(h[Place(i)].handlers, "record", x, v)
    BY <1>3, <1>4, <2>1
  <2>3. ASSUME NEW j \in DOMAIN h, j > Place(i)
        PROVE  ~Is(h[j])
    <3>1. CASE j = k + 1
      BY <1>1, <1>7, <3>1 DEF Is
    <3>2. ASSUME NEW m \in DOMAIN g, j = Place(m)
          PROVE  ~Is(h[j])
      <4>1. Place(i) < Place(m)
        BY <1>1, <1>3, <2>3, <3>2
      <4>2. m > i
        BY <1>1, <1>3, <4>1
      <4> QED
        BY <1>4, <2>1, <3>2, <4>2
    <3> QED
      BY <1>5, <3>1, <3>2
  <2> QED
    BY <2>2, <2>3, Zenon DEF WaitsLast, Is
<1>8. ASSUME RecordsDue(g, t), NEW v, Ends(handlers, "record", x, v)
      PROVE  WaitsLast(h, x, v)
  <2>1. k + 1 \in DOMAIN h /\ Ends(h[k + 1].handlers, "record", x, v)
    BY <1>1, <1>3, <1>8
  <2>2. ASSUME NEW j \in DOMAIN h, j > k + 1
        PROVE  ~Is(h[j])
    <3>1. j - 1 \in DOMAIN g /\ h[j] = g[j - 1] /\ ~(j - 1 <= k)
      BY <1>1, <2>2
    <3>2. ~(g[j - 1].time <= t)
      BY <1>1, <3>1
    <3> QED
      BY <1>8, <3>1, <3>2 DEF RecordsDue, Is, Has
  <2> QED
    BY <2>1, <2>2, Zenon DEF WaitsLast, Is
<1> QED
  BY <1>6, <1>7, <1>8

-----------------------------------------------------------------------------
(* What the modules report.                                                 *)

(* A second look changes nothing, whatever is overridden: the mode depends  *)
(* on the mode kept only through low_power, and the load on a payload that  *)
(* has been told.                                                           *)
LEMMA LooksTwice ==
  ASSUME NEW e, NEW p
  PROVE  LET once == Power!Refreshed(e, p)
         IN  Power!Refreshed(once.eps, once.payload) = once
<1> DEFINE mode == Power!PowerMode(e)
           rail == Power!RailEnabled(e, mode)
           synced == Power!SyncPayload(p, rail)
           f == [battery |-> e.battery, commanded |-> e.commanded,
                 railCommanded |-> e.railCommanded,
                 mode |-> mode, load |-> Power!LoadPower(mode, rail, synced)]
<1>1. Power!Refreshed(e, p) = [eps |-> f, payload |-> synced]
  BY DEF Power!Refreshed
<1>2. Power!Charge(f) = Power!Charge(e) /\ f.commanded = e.commanded /\ f.mode = mode
  BY DEF Power!Charge
<1>3. Power!RailEnabled(f, mode) = rail
  BY DEF Power!RailEnabled
<1>4. Power!SyncPayload(synced, rail) = synced
  BY DEF Power!SyncPayload
<1> HIDE DEF f
<1>5. Power!PowerMode(f) = mode
  <2>1. CASE Over["power_mode"] # None
    BY <2>1 DEF Power!PowerMode, Power!Resolve
  <2>2. CASE Over["power_mode"] = None
    <3>1. /\ mode = Power!AutomaticMode(e)
          /\ Power!PowerMode(f) = Power!AutomaticMode(f)
      BY <2>2 DEF Power!PowerMode, Power!Resolve
    <3> HIDE DEF mode
    <3>2. Power!AutomaticMode(f) = mode
      BY <1>2, <3>1 DEF Power!AutomaticMode, Power!StaysLow
    <3> QED
      BY <3>1, <3>2
  <2> QED
    BY <2>1, <2>2
<1>6. Power!Refreshed(f, synced) = [eps |-> f, payload |-> synced]
  <2>1. /\ f.battery = e.battery /\ f.commanded = e.commanded /\ f.railCommanded = e.railCommanded
        /\ f = [battery |-> e.battery, commanded |-> e.commanded,
                railCommanded |-> e.railCommanded,
                mode |-> mode, load |-> Power!LoadPower(mode, rail, synced)]
    BY DEF f
  <2> HIDE DEF mode, rail, synced
  <2> QED
    BY <1>3, <1>4, <1>5, <2>1 DEF Power!Refreshed
<1>7. [eps |-> f, payload |-> synced].eps = f /\ [eps |-> f, payload |-> synced].payload = synced
  OBVIOUS
<1> HIDE DEF f, synced
<1> QED
  BY <1>1, <1>6, <1>7

(* What is read depends on the overrides and faults alone.                  *)
LEMMA ReadsSame ==
  ASSUME Over' = Over, UNCHANGED faults, NEW CONSTANT e, NEW CONSTANT p
  PROVE  /\ Power!Charge(e)' = Power!Charge(e)
         /\ Power!PowerMode(e)' = Power!PowerMode(e)
         /\ Power!Powered(p)' = Power!Powered(p)
         /\ Power!Capturing(p)' = Power!Capturing(p)
         /\ Power!Draw(p)' = Power!Draw(p)
         /\ \A m : Power!RailEnabled(e, m)' = Power!RailEnabled(e, m)
<1>1. Power!Charge(e)' = Power!Charge(e)
  BY DEF Power!Charge, Power!Resolve, Power!MaxCharge, Power!Min2
<1>2. Power!AutomaticMode(e)' = Power!AutomaticMode(e)
  BY <1>1 DEF Power!AutomaticMode, Power!StaysLow
<1>3. Power!PowerMode(e)' = Power!PowerMode(e)
  BY <1>2 DEF Power!PowerMode, Power!Resolve
<1>4. Power!Powered(p)' = Power!Powered(p)
  BY DEF Power!Powered, Power!Resolve
<1>5. Power!Capturing(p)' = Power!Capturing(p)
  BY <1>4 DEF Power!Capturing, Power!Resolve
<1>6. Power!Draw(p)' = Power!Draw(p)
  BY <1>4, <1>5 DEF Power!Draw
<1>7. \A m : Power!RailEnabled(e, m)' = Power!RailEnabled(e, m)
  BY DEF Power!RailEnabled, Power!Resolve, Power!Sheds
<1> QED
  BY <1>1, <1>3, <1>4, <1>5, <1>6, <1>7

LEMMA LooksSame ==
  ASSUME Over' = Over, UNCHANGED faults, NEW CONSTANT e, NEW CONSTANT p
  PROVE  Power!Refreshed(e, p)' = Power!Refreshed(e, p)
<1>1. Power!PowerMode(e)' = Power!PowerMode(e)
  BY ReadsSame
<1>2. \A m : Power!RailEnabled(e, m)' = Power!RailEnabled(e, m)
  BY ReadsSame
<1>3. \A rail : Power!Draw(Power!SyncPayload(p, rail))' = Power!Draw(Power!SyncPayload(p, rail))
  <2> TAKE rail
  <2> QED
    BY ReadsSame
<1>4. \A m, rail : Power!LoadPower(m, rail, Power!SyncPayload(p, rail))'
                     = Power!LoadPower(m, rail, Power!SyncPayload(p, rail))
  BY <1>3 DEF Power!LoadPower
<1> QED
  BY <1>1, <1>2, <1>4 DEF Power!Refreshed

(* After a refresh a refresh changes nothing.                               *)
LEMMA BecomeLooked ==
  ASSUME NEW e, NEW p, Power!Become(Power!Refreshed(e, p)), Over' = Over, UNCHANGED faults
  PROVE  Looked'
<1> DEFINE once == Power!Refreshed(e, p)
<1>1. eps' = once.eps /\ payload' = once.payload
  BY DEF Power!Become
<1>2. Power!Refreshed(once.eps, once.payload) = once
  BY LooksTwice
<1>3. once = [eps |-> once.eps, payload |-> once.payload]
  BY DEF Power!Refreshed
<1>4. Looked' <=> Power!Refreshed(eps', payload') = [eps |-> eps', payload |-> payload']
  BY LooksSame DEF Looked
<1> HIDE DEF once
<1> QED
  BY <1>1, <1>2, <1>3, <1>4

LEMMA ReportSame ==
  ASSUME Over' = Over, UNCHANGED <<eps, payload, faults>>
  PROVE  \A x : Report(x)' = Report(x)
<1>1. /\ Power!Charge(eps)' = Power!Charge(eps)
      /\ Power!PowerMode(eps)' = Power!PowerMode(eps)
  BY ReadsSame
<1>2. /\ Power!Powered(payload)' = Power!Powered(payload)
      /\ Power!Capturing(payload)' = Power!Capturing(payload)
  BY ReadsSame
<1> QED
  BY <1>1, <1>2 DEF Report

LEMMA OverSame ==
  ASSUME UNCHANGED <<now, cycle, request>>
  PROVE  Over' = Over
BY DEF Over, Lives

-----------------------------------------------------------------------------
(* The order of the tasks.                                                  *)

(* A call keeps it, unless something is called out of turn.                 *)
LEMMA OrderKept ==
  ASSUME NEW s, IsList(s), s # <<>>, Front(s), TicksAhead(s),
         NEW a, IsList(a), Front(a), TicksAhead(a), a = <<>> \/ s[1][1] \notin Data
  PROVE  Front(a \o Tail(s)) /\ TicksAhead(a \o Tail(s))
<1> DEFINE r == a \o Tail(s)
           Moved(i) == Len(a) + i - 1
<1>1. /\ Len(a) \in Nat /\ DOMAIN r = 1..(Len(a) + Len(s) - 1) /\ Len(s) \in Nat \ {0}
      /\ DOMAIN s = 1..Len(s)
      /\ \A i \in DOMAIN r : i <= Len(a) => i \in DOMAIN a /\ r[i] = a[i]
      /\ \A i \in DOMAIN r : i > Len(a) => /\ i - Len(a) + 1 \in DOMAIN s /\ i - Len(a) + 1 > 1
                                           /\ r[i] = s[i - Len(a) + 1]
  BY CallShape
<1>2. DOMAIN a = 1..Len(a) /\ (a = <<>> <=> Len(a) = 0)
  BY ListShape
<1> HIDE DEF r
<1>0. /\ Len(a) \in Nat /\ Len(s) \in Nat \ {0} /\ DOMAIN s = 1..Len(s)
      /\ DOMAIN r = 1..(Len(a) + Len(s) - 1)
      /\ \A i \in DOMAIN r : i <= Len(a) \/ i > Len(a)
      /\ \A i, j \in DOMAIN s : i <= j => Moved(i) <= Moved(j)
      /\ \A i, j \in DOMAIN s : i < j => Moved(i) < Moved(j)
  BY ONLY <1>1
<1>3. 1 \in DOMAIN s /\ \A i \in DOMAIN a : i \in DOMAIN r /\ i <= Len(a) /\ r[i] = a[i]
  <2>1. 1 \in DOMAIN s /\ \A i \in DOMAIN a : i \in DOMAIN r /\ i <= Len(a)
    BY ONLY <1>1, <1>2
  <2> QED
    BY <1>1, <2>1
<1>4. \A i \in DOMAIN s : i # 1 => Moved(i) \in DOMAIN r /\ r[Moved(i)] = s[i]
  <2> SUFFICES ASSUME NEW i \in DOMAIN s, i # 1
               PROVE  Moved(i) \in DOMAIN r /\ r[Moved(i)] = s[i]
    OBVIOUS
  <2>1. Moved(i) \in DOMAIN r /\ Moved(i) > Len(a) /\ Moved(i) - Len(a) + 1 = i
    BY ONLY <1>1, i \in DOMAIN s, i # 1
  <2> QED
    BY <1>1, <2>1
<1>5. Front(r)
  <2> SUFFICES ASSUME NEW i \in DOMAIN r, NEW j \in DOMAIN r, i < j, r[j][1] \in Data
               PROVE  r[i][1] \in Data
    BY Zenon DEF Front
  <2>1. CASE j <= Len(a)
    <3>1. i <= Len(a)
      BY ONLY <1>1, i \in DOMAIN r, j \in DOMAIN r, i < j, <2>1
    <3> QED
      BY <1>1, <2>1, <3>1 DEF Front
  <2>2. CASE j > Len(a)
    <3> DEFINE j0 == j - Len(a) + 1
               i0 == i - Len(a) + 1
    <3>1. j0 \in DOMAIN s /\ j0 > 1 /\ s[j0][1] \in Data
      BY <1>1, <2>2
    <3>2. s[1][1] \in Data
      BY <1>3, <3>1 DEF Front
    <3>3. Len(a) = 0
      BY <1>2, <3>2
    <3>4. i > Len(a) /\ i0 < j0
      BY ONLY <1>1, <3>3, i \in DOMAIN r, j \in DOMAIN r, i < j
    <3>5. i0 \in DOMAIN s /\ r[i] = s[i0]
      BY <1>1, <3>4
    <3> HIDE DEF i0, j0
    <3> QED
      BY <3>1, <3>4, <3>5 DEF Front
  <2> QED
    BY ONLY <1>1, <2>1, <2>2, j \in DOMAIN r
<1>6. TicksAhead(r)
  <2> SUFFICES ASSUME NEW i \in DOMAIN r, r[i][1] \in {"cycles", "tick"}
               PROVE  \E j \in DOMAIN r :
                        /\ i <= j /\ Mark(r[j]) = "eps"
                        /\ \A node \in DOMAIN Signals : \E k \in DOMAIN r : j < k /\ r[k] = <<"emit", node>>
    BY Zenon DEF TicksAhead
  <2>1. CASE i <= Len(a)
    <3>1. i \in DOMAIN a /\ a[i][1] \in {"cycles", "tick"}
      BY <1>1, <2>1
    <3>2. PICK j \in DOMAIN a :
            /\ i <= j /\ Mark(a[j]) = "eps"
            /\ \A node \in DOMAIN Signals : \E k \in DOMAIN a : j < k /\ a[k] = <<"emit", node>>
      BY <3>1 DEF TicksAhead
    <3> QED
      BY <1>3, <3>2
  <2>2. CASE i > Len(a)
    <3> DEFINE i0 == i - Len(a) + 1
    <3>1. i0 \in DOMAIN s /\ i0 > 1 /\ s[i0][1] \in {"cycles", "tick"} /\ i = Moved(i0)
      BY <1>1, <2>2
    <3> HIDE DEF i0
    <3>2. PICK j \in DOMAIN s :
            /\ i0 <= j /\ Mark(s[j]) = "eps"
            /\ \A node \in DOMAIN Signals : \E k \in DOMAIN s : j < k /\ s[k] = <<"emit", node>>
      BY <3>1 DEF TicksAhead
    <3>3. j # 1 /\ i <= Moved(j)
      <4>1. j # 1
        BY ONLY <1>0, <3>1, <3>2
      <4> HIDE DEF Moved
      <4> QED
        BY ONLY <1>0, <3>1, <3>2, <4>1
    <3>4. ASSUME NEW node \in DOMAIN Signals
          PROVE  \E k \in DOMAIN r : Moved(j) < k /\ r[k] = <<"emit", node>>
      <4>1. PICK k \in DOMAIN s : j < k /\ s[k] = <<"emit", node>>
        BY <3>2
      <4>2. k # 1
        BY ONLY <1>0, <3>3, <4>1
      <4> HIDE DEF Moved
      <4>3. Moved(j) < Moved(k)
        BY ONLY <1>0, <4>1
      <4> QED
        BY <1>4, <4>1, <4>2, <4>3
    <3> HIDE DEF Moved
    <3> QED
      BY <1>4, <3>2, <3>3, <3>4
  <2> QED
    BY <1>0, <2>1, <2>2
<1> QED
  BY <1>5, <1>6 DEF r

(* Calls that only drive others.                                            *)
Driving(tasks) ==
  IsList(tasks) /\ \A i \in DOMAIN tasks : tasks[i][1] \notin Data \cup {"cycles", "tick"}

LEMMA DrivingOrder ==
  ASSUME NEW a, Driving(a)
  PROVE  /\ IsList(a) /\ Front(a) /\ TicksAhead(a)
         /\ \A kind \in Data : \A x : ~Has(a, kind, x)
BY DEF Driving, Front, TicksAhead, Has

LEMMA CarriedOrder ==
  ASSUME NEW a, IsList(a), \A i \in DOMAIN a : a[i][1] \in Data
  PROVE  Front(a) /\ TicksAhead(a)
<1>1. "cycles" \notin Data /\ "tick" \notin Data
  BY DEF Data, Plain
<1> QED
  BY <1>1 DEF Front, TicksAhead

(* The loop that dispatched an event follows the tasks of its handlers.     *)
LEMMA LoopOrder ==
  ASSUME NEW a, IsList(a), Front(a), TicksAhead(a), NEW u, u[1] = "until"
  PROVE  /\ IsList(a \o <<u>>) /\ Front(a \o <<u>>) /\ TicksAhead(a \o <<u>>)
         /\ \A kind \in Data : \A x : /\ Has(a \o <<u>>, kind, x) <=> Has(a, kind, x)
                                      /\ \A v : Ends(a, kind, x, v) => Ends(a \o <<u>>, kind, x, v)
<1> DEFINE r == a \o <<u>>
<1>1. IsList(<<u>>) /\ Len(<<u>>) = 1 /\ DOMAIN <<u>> = {1} /\ <<u>>[1] = u
  BY SingleShape
<1>2. /\ IsList(r) /\ Len(a) \in Nat /\ DOMAIN r = 1..(Len(a) + 1)
      /\ \A i \in DOMAIN a : r[i] = a[i]
      /\ \A i \in DOMAIN r : i <= Len(a) => i \in DOMAIN a /\ r[i] = a[i]
      /\ \A i \in DOMAIN r : i > Len(a) => r[i] = u
  <2>1. /\ IsList(r) /\ Len(a) \in Nat /\ DOMAIN r = 1..(Len(a) + Len(<<u>>))
        /\ \A i \in DOMAIN a : r[i] = a[i]
        /\ \A i \in DOMAIN r : i <= Len(a) => i \in DOMAIN a /\ r[i] = a[i]
        /\ \A i \in DOMAIN r : i > Len(a) => i - Len(a) \in DOMAIN <<u>> /\ r[i] = <<u>>[i - Len(a)]
    BY <1>1, ConcatShape
  <2> QED
    BY <1>1, <2>1
<1>3. DOMAIN a = 1..Len(a)
  BY ListShape
<1>4. \A i \in DOMAIN r : r[i][1] \in Data \cup {"cycles", "tick"} => i \in DOMAIN a /\ r[i] = a[i]
  <2>1. u[1] \notin Data \cup {"cycles", "tick"}
    BY DEF Data, Plain
  <2>2. \A i \in DOMAIN r : i <= Len(a) \/ i > Len(a)
    BY ONLY <1>2
  <2> HIDE DEF r
  <2> QED
    BY <1>2, <2>1, <2>2
<1>5. \A i \in DOMAIN a : i \in DOMAIN r
  BY ONLY <1>2, <1>3
<1> HIDE DEF r
<1>6. Front(r)
  <2> SUFFICES ASSUME NEW i \in DOMAIN r, NEW j \in DOMAIN r, i < j, r[j][1] \in Data
               PROVE  r[i][1] \in Data
    BY Zenon DEF Front
  <2>1. j \in DOMAIN a /\ r[j] = a[j]
    BY <1>4
  <2>2. i \in DOMAIN a
    BY ONLY <1>2, <1>3, <2>1, i \in DOMAIN r, i < j
  <2> QED
    BY <1>2, <2>1, <2>2 DEF Front
<1>7. TicksAhead(r)
  <2> SUFFICES ASSUME NEW i \in DOMAIN r, r[i][1] \in {"cycles", "tick"}
               PROVE  \E j \in DOMAIN r :
                        /\ i <= j /\ Mark(r[j]) = "eps"
                        /\ \A node \in DOMAIN Signals : \E k \in DOMAIN r : j < k /\ r[k] = <<"emit", node>>
    BY Zenon DEF TicksAhead
  <2>1. i \in DOMAIN a /\ a[i][1] \in {"cycles", "tick"}
    BY <1>4
  <2>2. PICK j \in DOMAIN a :
          /\ i <= j /\ Mark(a[j]) = "eps"
          /\ \A node \in DOMAIN Signals : \E k \in DOMAIN a : j < k /\ a[k] = <<"emit", node>>
    BY <2>1 DEF TicksAhead
  <2> QED
    BY <1>2, <1>5, <2>2
<1>8. ASSUME NEW kind \in Data, NEW x
      PROVE  ~Has(<<u>>, kind, x)
  BY <1>1 DEF Has, Data, Plain
<1>9. ASSUME NEW kind \in Data, NEW x
      PROVE  /\ Has(r, kind, x) <=> Has(a, kind, x)
             /\ \A v : Ends(a, kind, x, v) => Ends(r, kind, x, v)
  <2>1. /\ Has(a \o <<u>>, kind, x) <=> Has(a, kind, x) \/ Has(<<u>>, kind, x)
        /\ \A v : ~Has(<<u>>, kind, x) /\ Ends(a, kind, x, v) => Ends(a \o <<u>>, kind, x, v)
    BY <1>1, ConcatReports
  <2> QED
    BY <1>8, <2>1 DEF r
<1> QED
  BY <1>2, <1>6, <1>7, <1>9 DEF r

LEMMA SettleDriving == Driving(Settle)
<1>1. IsList(Settle) /\ DOMAIN Settle = {1} /\ Settle[1][1] = "settle"
  BY SettleShape DEF Harmless
<1> QED
  BY <1>1 DEF Driving, Data, Plain

LEMMA DrivingConcat ==
  ASSUME NEW a, Driving(a), NEW b, Driving(b)
  PROVE  Driving(a \o b)
<1>1. IsList(a) /\ IsList(b)
  BY DEF Driving
<1>2. /\ IsList(a \o b) /\ Len(a) \in Nat /\ DOMAIN (a \o b) = 1..(Len(a) + Len(b)) /\ Len(b) \in Nat
      /\ \A i \in DOMAIN (a \o b) : i <= Len(a) => i \in DOMAIN a /\ (a \o b)[i] = a[i]
      /\ \A i \in DOMAIN (a \o b) : i > Len(a) => i - Len(a) \in DOMAIN b /\ (a \o b)[i] = b[i - Len(a)]
  BY <1>1, ConcatShape
<1>3. \A i \in DOMAIN (a \o b) : i <= Len(a) \/ i > Len(a)
  BY ONLY <1>2
<1> QED
  BY <1>2, <1>3 DEF Driving

(* _emit_configured_telemetry has every node report.                        *)
LEMMA EmissionDriving ==
  /\ Driving(Emission)
  /\ \A node \in DOMAIN Signals : \E k \in DOMAIN Emission : Emission[k] = <<"emit", node>>
<1> DEFINE emits == [i \in DOMAIN TelemetryOrder |-> <<"emit", TelemetryOrder[i]>>]
<1>1. Len(TelemetryOrder) \in Nat /\ DOMAIN TelemetryOrder = 1..Len(TelemetryOrder)
  BY TestbedAssumption, ListShape
<1>2. /\ \A i \in DOMAIN emits : emits[i][1] = "emit"
      /\ \A node \in DOMAIN Signals : \E i \in DOMAIN emits : emits[i] = <<"emit", node>>
      /\ emits = [i \in 1..Len(TelemetryOrder) |-> emits[i]]
  BY <1>1, TestbedAssumption
<1>3. Emission = emits \o Settle
  BY DEF Emission
<1> HIDE DEF emits
<1>4. IsList(emits) /\ Driving(emits)
  <2>1. IsList(emits)
    BY <1>1, <1>2, ListBuilt
  <2> QED
    BY <1>2, <2>1 DEF Driving, Data, Plain
<1>5. Driving(Emission)
  BY <1>3, <1>4, SettleDriving, DrivingConcat
<1>6. \A i \in DOMAIN emits : i \in DOMAIN Emission /\ Emission[i] = emits[i]
  <2>1. IsList(Settle)
    BY SettleDriving DEF Driving
  <2>2. /\ Len(emits) \in Nat /\ Len(Settle) \in Nat
        /\ DOMAIN (emits \o Settle) = 1..(Len(emits) + Len(Settle))
        /\ \A i \in DOMAIN emits : (emits \o Settle)[i] = emits[i]
    BY <1>4, <2>1, ConcatShape
  <2>3. DOMAIN emits = 1..Len(emits)
    BY <1>4, ListShape
  <2>4. \A i \in DOMAIN emits : i \in DOMAIN (emits \o Settle)
    BY ONLY <2>2, <2>3
  <2> QED
    BY <1>3, <2>2, <2>4
<1> QED
  BY <1>2, <1>5, <1>6

(* _on_step: the ticks are followed by the telemetry.                       *)
LEMMA StepOrder ==
  /\ Front(PhysicalStep) /\ TicksAhead(PhysicalStep)
  /\ \E j \in DOMAIN PhysicalStep : Mark(PhysicalStep[j]) = "eps"
  /\ \A kind \in Data : \A x : ~Has(PhysicalStep, kind, x)
<1> DEFINE front == <<<<"settle", maxSettle>>, <<"cycles">>, <<"tick", "payload">>, <<"tick", "eps">>>>
           last == <<<<"arm">>>>
           mid == front \o Emission
           p == PhysicalStep
<1>1. p = mid \o last /\ mid = front \o Emission
  BY DEF PhysicalStep, Settle, Ticks
<1>2. /\ IsList(front) /\ Len(front) = 4 /\ DOMAIN front = 1..4
      /\ front[1][1] = "settle" /\ front[2][1] = "cycles" /\ front[3][1] = "tick"
      /\ front[4][1] = "tick" /\ Mark(front[4]) = "eps"
  <2>1. /\ Len(front) = 4 /\ DOMAIN front = 1..4
        /\ front[1] = <<"settle", maxSettle>> /\ front[2] = <<"cycles">>
        /\ front[3] = <<"tick", "payload">> /\ front[4] = <<"tick", "eps">>
    OBVIOUS
  <2>2. front = [i \in 1..4 |-> front[i]]
    OBVIOUS
  <2>3. IsList(front)
    BY <2>2, ListBuilt
  <2> QED
    BY <2>1, <2>3 DEF Mark
<1>3. IsList(last) /\ Len(last) = 1 /\ DOMAIN last = {1} /\ last[1][1] = "arm"
  <2>1. last[1] = <<"arm">>
    OBVIOUS
  <2> QED
    BY <2>1, SingleShape
<1> HIDE DEF front, last, mid, p
<1>4. Driving(Emission) /\ IsList(Emission) /\ Len(Emission) \in Nat /\ DOMAIN Emission = 1..Len(Emission)
  BY EmissionDriving, ListShape DEF Driving
<1>5. /\ IsList(mid) /\ Len(mid) = 4 + Len(Emission)
      /\ \A i \in 1..4 : mid[i] = front[i]
      /\ \A i \in 1..Len(mid) : i > 4 => i - 4 \in DOMAIN Emission /\ mid[i] = Emission[i - 4]
  <2>0. IsList(front) /\ IsList(Emission)
    BY <1>2, <1>4
  <2>1. /\ IsList(mid) /\ Len(mid) = Len(front) + Len(Emission) /\ DOMAIN mid = 1..(Len(front) + Len(Emission))
        /\ \A i \in DOMAIN front : mid[i] = front[i]
        /\ \A i \in DOMAIN mid :
             i > Len(front) => i - Len(front) \in DOMAIN Emission /\ mid[i] = Emission[i - Len(front)]
    BY <1>1, <2>0, ConcatShape
  <2> QED
    BY <1>2, <1>4, <2>1
<1>6. /\ DOMAIN p = 1..(5 + Len(Emission)) /\ p[5 + Len(Emission)][1] = "arm"
      /\ \A i \in 1..4 : p[i] = front[i]
      /\ \A i \in DOMAIN Emission : p[4 + i] = Emission[i]
      /\ \A i \in DOMAIN p : i \in 1..4 \/ i = 5 + Len(Emission) \/ i - 4 \in DOMAIN Emission
  <2>0. IsList(mid) /\ IsList(last)
    BY <1>3, <1>5
  <2>1. /\ DOMAIN p = 1..(Len(mid) + Len(last))
        /\ \A i \in DOMAIN mid : p[i] = mid[i]
        /\ \A i \in DOMAIN p : i > Len(mid) => p[i] = last[i - Len(mid)]
    BY <1>1, <2>0, ConcatShape, ZenonT(40)
  <2>2. DOMAIN mid = 1..(4 + Len(Emission)) /\ DOMAIN p = 1..(5 + Len(Emission))
    BY <1>3, <1>4, <1>5, <2>1, ListShape
  <2>3. p[5 + Len(Emission)] = last[1]
    BY <1>4, <1>5, <2>1, <2>2
  <2>4. \A i \in 1..4 : p[i] = front[i]
    BY <1>4, <1>5, <2>1, <2>2
  <2>5. \A i \in DOMAIN Emission : p[4 + i] = Emission[i]
    <3> SUFFICES ASSUME NEW i \in DOMAIN Emission PROVE p[4 + i] = Emission[i]
      OBVIOUS
    <3>1. 4 + i \in DOMAIN mid /\ 4 + i \in 1..Len(mid) /\ 4 + i > 4 /\ 4 + i - 4 = i
      BY ONLY <1>4, <1>5, <2>2, i \in DOMAIN Emission
    <3> QED
      BY <1>5, <2>1, <3>1
  <2> QED
    BY <1>3, <1>4, <2>2, <2>3, <2>4, <2>5
<1>7. \A i \in DOMAIN p : \/ i \in 1..4 /\ p[i] = front[i]
                          \/ p[i][1] = "arm"
                          \/ \E k \in DOMAIN Emission : p[i] = Emission[k]
  <2> SUFFICES ASSUME NEW i \in DOMAIN p, i - 4 \in DOMAIN Emission
               PROVE  \E k \in DOMAIN Emission : p[i] = Emission[k]
    BY <1>6
  <2>1. 4 + (i - 4) = i
    BY ONLY <1>6, i \in DOMAIN p
  <2> QED
    BY <1>6, <2>1
<1>8. \A i \in DOMAIN p : p[i][1] \notin Data /\ (p[i][1] \in {"cycles", "tick"} => i <= 4)
  <2>1. \A i \in 1..4 : i = 1 \/ i = 2 \/ i = 3 \/ i = 4
    OBVIOUS
  <2>2. \A i \in 1..4 : front[i][1] \in {"settle", "cycles", "tick"} /\ i <= 4
    BY <1>2, <2>1
  <2>3. \A k \in DOMAIN Emission : Emission[k][1] \notin Data \cup {"cycles", "tick"}
    BY <1>4 DEF Driving
  <2>4. \A kind \in {"settle", "cycles", "tick", "arm"} : kind \notin Data
    BY DEF Data, Plain
  <2> QED
    BY <1>7, <2>2, <2>3, <2>4
<1>9. 4 \in DOMAIN p /\ Mark(p[4]) = "eps" /\ \A i \in DOMAIN p : i <= 4 \/ i > 4
  BY <1>2, <1>4, <1>6
<1>10. \A node \in DOMAIN Signals : \E k \in DOMAIN p : 4 < k /\ p[k] = <<"emit", node>>
  <2> TAKE node \in DOMAIN Signals
  <2>1. PICK k \in DOMAIN Emission : Emission[k] = <<"emit", node>>
    BY EmissionDriving
  <2>2. 4 + k \in DOMAIN p /\ 4 < 4 + k
    BY ONLY <1>4, <1>6, k \in DOMAIN Emission
  <2> QED
    BY <1>6, <2>1, <2>2
<1>11. TicksAhead(p)
  BY <1>8, <1>9, <1>10 DEF TicksAhead
<1>12. Front(p) /\ \A kind \in Data : \A x : ~Has(p, kind, x)
  BY <1>8 DEF Front, Has
<1> QED
  BY <1>9, <1>11, <1>12 DEF p

-----------------------------------------------------------------------------
(* Reports on their way.                                                    *)

(* A call that is no report and makes none leaves the reports below it.     *)
LEMMA CallReports ==
  ASSUME NEW s, IsList(s), s # <<>>, NEW a, IsList(a), NEW kind, NEW x,
         ~Has(a, kind, x), ~(s[1][1] = kind /\ s[1][2] = x)
  PROVE  /\ Has(a \o Tail(s), kind, x) <=> Has(s, kind, x)
         /\ \A v : Ends(s, kind, x, v) => Ends(a \o Tail(s), kind, x, v)
<1>1. IsList(Tail(s))
  BY TailShape
<1>2. /\ Has(s, kind, x) <=> Has(Tail(s), kind, x)
      /\ \A v : Ends(s, kind, x, v) => Ends(Tail(s), kind, x, v)
  BY TailReports
<1>3. /\ Has(a \o Tail(s), kind, x) <=> Has(a, kind, x) \/ Has(Tail(s), kind, x)
      /\ \A v : Ends(Tail(s), kind, x, v) => Ends(a \o Tail(s), kind, x, v)
  BY <1>1, ConcatReports
<1> QED
  BY <1>2, <1>3

(* Below a call that drives others nothing is being carried out.            *)
LEMMA NothingCarried ==
  ASSUME NEW s, IsList(s), s # <<>>, Front(s), s[1][1] \notin Data, NEW kind \in Data, NEW x
  PROVE  ~Has(s, kind, x) /\ ~Has(Tail(s), kind, x)
<1>1. DOMAIN s = 1..Len(s) /\ Len(s) \in Nat /\ Len(s) # 0
  BY ListShape
<1>2. \A i \in DOMAIN s : 1 \in DOMAIN s /\ (i = 1 \/ 1 < i)
  BY ONLY <1>1
<1>3. \A i \in DOMAIN s : s[i][1] \notin Data
  BY <1>2 DEF Front
<1>4. ~Has(s, kind, x)
  BY <1>3 DEF Has
<1> QED
  BY <1>4, TailReports

LEMMA InTasksKept ==
  ASSUME NEW s, IsList(s), s # <<>>, s[1][1] \notin {"telemetry", "record"}, NEW a, IsList(a),
         NEW x, ~Has(a, "telemetry", x), ~Has(a, "record", x),
         NEW g, NEW h, Waits(h, x) <=> Waits(g, x), \A v : WaitsLast(g, x, v) => WaitsLast(h, x, v),
         NEW l, NEW v, InTasks(s, g, l, x, v)
  PROVE  InTasks(a \o Tail(s), h, l, x, v)
<1>1. /\ Has(a \o Tail(s), "telemetry", x) <=> Has(s, "telemetry", x)
      /\ Ends(s, "telemetry", x, v) => Ends(a \o Tail(s), "telemetry", x, v)
  BY CallReports
<1>2. /\ Has(a \o Tail(s), "record", x) <=> Has(s, "record", x)
      /\ Ends(s, "record", x, v) => Ends(a \o Tail(s), "record", x, v)
  BY CallReports
<1> QED
  BY <1>1, <1>2 DEF InTasks

(* A delivered report becomes an event.                                     *)
LEMMA DeliveredKept ==
  ASSUME NEW s, IsList(s), s # <<>>, NEW y, NEW w,
         s[1][1] = "telemetry", s[1][2] = y, s[1][3] = w,
         NEW g, IsList(g), NEW t, RecordsDue(g, t), NEW handlers, Ends(handlers, "record", y, w),
         \A z : Has(handlers, "record", z) => z = y,
         NEW h, Inserted(g, h, t, handlers), NEW l, NEW x, NEW v, InTasks(s, g, l, x, v)
  PROVE  InTasks(<<>> \o Tail(s), h, l, x, v)
<1>1. IsList(<<>>) /\ \A kind : ~Has(<<>>, kind, x)
  BY NothingShape DEF Has, Harmless
<1>2. /\ Waits(h, x) <=> Waits(g, x) \/ Has(handlers, "record", x)
      /\ ~Has(handlers, "record", x) => \A u : WaitsLast(g, x, u) => WaitsLast(h, x, u)
      /\ \A u : Ends(handlers, "record", x, u) => WaitsLast(h, x, u)
  BY InsertedWaits
<1>3. CASE y # x
  <2>1. Waits(h, x) <=> Waits(g, x)
    BY <1>2, <1>3
  <2>2. \A u : WaitsLast(g, x, u) => WaitsLast(h, x, u)
    BY <1>2, <1>3
  <2>3. /\ Has(<<>> \o Tail(s), "telemetry", x) <=> Has(s, "telemetry", x)
        /\ Ends(s, "telemetry", x, v) => Ends(<<>> \o Tail(s), "telemetry", x, v)
    BY <1>1, <1>3, CallReports
  <2>4. /\ Has(<<>> \o Tail(s), "record", x) <=> Has(s, "record", x)
        /\ Ends(s, "record", x, v) => Ends(<<>> \o Tail(s), "record", x, v)
    BY <1>1, CallReports
  <2> QED
    BY <2>1, <2>2, <2>3, <2>4 DEF InTasks
<1>4. CASE y = x
  <2>1. IsList(Tail(s))
    BY TailShape
  <2>2. Has(s, "telemetry", x)
    BY <1>4, TailReports
  <2>3. Ends(s, "telemetry", x, v)
    BY <2>2 DEF InTasks
  <2>4. Ends(Tail(s), "telemetry", x, v) \/ (w = v /\ ~Has(Tail(s), "telemetry", x))
    BY <2>3, TailReports
  <2>5. /\ Has(<<>> \o Tail(s), "telemetry", x) <=> Has(Tail(s), "telemetry", x)
        /\ Ends(Tail(s), "telemetry", x, v) => Ends(<<>> \o Tail(s), "telemetry", x, v)
    BY <1>1, <2>1, ConcatReports
  <2> QED
    BY <1>2, <1>4, <2>4, <2>5 DEF InTasks
<1> QED
  BY <1>3, <1>4

(* A recorded report is the cache entry.                                    *)
LEMMA RecordedKept ==
  ASSUME NEW s, IsList(s), s # <<>>, NEW y, NEW w,
         s[1][1] = "record", s[1][2] = y, s[1][3] = w,
         NEW g, NEW l, NEW x \in DOMAIN l, NEW v, InTasks(s, g, l, x, v)
  PROVE  InTasks(<<>> \o Tail(s), g, [l EXCEPT ![y] = w], x, v)
<1>1. IsList(<<>>) /\ \A kind : ~Has(<<>>, kind, x)
  BY NothingShape DEF Has, Harmless
<1>2. /\ Has(<<>> \o Tail(s), "telemetry", x) <=> Has(s, "telemetry", x)
      /\ Ends(s, "telemetry", x, v) => Ends(<<>> \o Tail(s), "telemetry", x, v)
  BY <1>1, CallReports
<1>3. IsList(Tail(s))
  BY TailShape
<1>4. /\ Has(<<>> \o Tail(s), "record", x) <=> Has(Tail(s), "record", x)
      /\ Ends(Tail(s), "record", x, v) => Ends(<<>> \o Tail(s), "record", x, v)
  BY <1>1, <1>3, ConcatReports
<1>5. /\ Has(s, "record", x) <=> y = x \/ Has(Tail(s), "record", x)
      /\ Ends(s, "record", x, v) =>
           \/ Ends(Tail(s), "record", x, v)
           \/ y = x /\ w = v /\ ~Has(Tail(s), "record", x)
  BY TailReports
<1>6. /\ y = x => [l EXCEPT ![y] = w][x] = w
      /\ y # x => [l EXCEPT ![y] = w][x] = l[x]
  OBVIOUS
<1> QED
  BY <1>2, <1>4, <1>5, <1>6 DEF InTasks

(* A drain turns envelopes into deliveries.                                 *)
LEMMA DrainedKept ==
  ASSUME NEW s, IsList(s), s # <<>>, s[1][1] = "drain", Front(s), NEW b, Bus(b),
         NEW g, NEW l, NEW x, NEW v, Arrives(b, s, g, l, x, v)
  PROVE  InTasks(b \o Tail(s), g, l, x, v)
<1>1. "telemetry" \in Data /\ "record" \in Data /\ "drain" \notin Data
  BY DEF Data, Plain
<1>2. /\ ~Has(s, "telemetry", x) /\ ~Has(Tail(s), "telemetry", x)
      /\ ~Has(s, "record", x) /\ ~Has(Tail(s), "record", x)
  BY <1>1, NothingCarried
<1>3. IsList(b) /\ IsList(Tail(s)) /\ ~Has(b, "record", x)
  BY TailShape DEF Bus, Has
<1>4. /\ Has(b \o Tail(s), "telemetry", x) <=> Has(b, "telemetry", x)
      /\ Ends(b, "telemetry", x, v) => Ends(b \o Tail(s), "telemetry", x, v)
  BY <1>2, <1>3, ConcatReports
<1>5. ~Has(b \o Tail(s), "record", x)
  BY <1>2, <1>3, ConcatReports
<1>6. ~Ends(s, "telemetry", x, v) /\ ~Ends(s, "record", x, v)
  BY <1>2, Zenon DEF Has, Ends
<1> QED
  BY <1>2, <1>4, <1>5, <1>6 DEF InTasks, Arrives

(* A dispatched event becomes the tasks of its handlers.                    *)
LEMMA DispatchedKept ==
  ASSUME NEW s, IsList(s), s # <<>>, s[1][1] \notin Data, Front(s), NEW b,
         NEW g, IsList(g), g # <<>>, NEW a, IsList(a),
         \A kind \in Data : \A z : /\ Has(a, kind, z) <=> Has(g[1].handlers, kind, z)
                                   /\ \A u : Ends(g[1].handlers, kind, z, u) => Ends(a, kind, z, u),
         \A z : ~Has(g[1].handlers, "telemetry", z),
         NEW l, NEW x, NEW v, Arrives(b, s, g, l, x, v)
  PROVE  Arrives(b, a \o Tail(s), Tail(g), l, x, v)
<1>1. "telemetry" \in Data /\ "record" \in Data
  BY DEF Data, Plain
<1>2. /\ ~Has(s, "telemetry", x) /\ ~Has(Tail(s), "telemetry", x)
      /\ ~Has(s, "record", x) /\ ~Has(Tail(s), "record", x)
  BY <1>1, NothingCarried
<1>3. IsList(Tail(s))
  BY TailShape
<1>4. ~Has(a \o Tail(s), "telemetry", x)
  BY <1>1, <1>2, <1>3, ConcatReports
<1>5. /\ Has(a \o Tail(s), "record", x) <=> Has(g[1].handlers, "record", x)
      /\ Ends(g[1].handlers, "record", x, v) => Ends(a \o Tail(s), "record", x, v)
  BY <1>1, <1>2, <1>3, ConcatReports
<1>6. ~Ends(s, "telemetry", x, v) /\ ~Ends(s, "record", x, v)
  BY <1>2, Zenon DEF Has, Ends
<1>7. /\ Waits(g, x) <=> Has(g[1].handlers, "record", x) \/ Waits(Tail(g), x)
      /\ WaitsLast(g, x, v) =>
           \/ WaitsLast(Tail(g), x, v)
           \/ Ends(g[1].handlers, "record", x, v) /\ ~Waits(Tail(g), x)
  BY TailWaits
<1> QED
  BY <1>2, <1>4, <1>5, <1>6, <1>7 DEF InTasks, Arrives

-----------------------------------------------------------------------------
(* What a step does to the cache.                                           *)

(* The refresh is read like any report.                                     *)
LEMMA LookedSame ==
  ASSUME Over' = Over, UNCHANGED <<eps, payload, faults>>, Looked
  PROVE  Looked'
<1>1. Power!Refreshed(eps, payload)' = Power!Refreshed(eps, payload)
  BY LooksSame
<1> QED
  BY <1>1 DEF Looked

(* The invariant, of the values a step leaves.                              *)
LEMMA CachePrimed ==
  ASSUME DOMAIN latest' = Signal,
         Front(todo'), TicksAhead(todo'), RecordsDue(agenda', now'),
         ~touched' /\ Absent(todo', "eps") =>
           /\ Looked'
           /\ \A x \in Signal : \/ Coming(todo', x)
                                \/ Arrives(bus', todo', agenda', latest', x, Report(x)')
  PROVE  CacheInv'
<1>1. DOMAIN latest' = Signal' /\ Front(todo)' /\ TicksAhead(todo)' /\ RecordsDue(agenda, now)'
  BY DEF Front, TicksAhead, RecordsDue, Data, Mark, Signal
<1>2. Absent(todo, "eps")' <=> Absent(todo', "eps")
  BY DEF Absent, Mark
<1>3. ASSUME NEW x
      PROVE  /\ Coming(todo, x)' <=> Coming(todo', x)
             /\ Arrives(bus, todo, agenda, latest, x, Report(x))'
                  <=> Arrives(bus', todo', agenda', latest', x, Report(x)')
  BY DEF Coming, Arrives, InTasks, Has, Ends, Waits, WaitsLast
<1>4. ASSUME ~touched' /\ Absent(todo', "eps")
      PROVE  Current'
  BY <1>3, <1>4 DEF Current, Signal
<1> QED
  BY <1>1, <1>2, <1>4 DEF CacheInv

(* No call: nothing carried, nothing driven.                                *)
LEMMA NothingDriving == Driving(<<>>)
BY NothingShape DEF Driving, Harmless

(* What lies below the head stays.                                          *)
LEMMA CallHolds ==
  ASSUME NEW s, IsList(s), s # <<>>, NEW a, IsList(a), NEW i \in DOMAIN s, i # 1
  PROVE  \E k \in DOMAIN (a \o Tail(s)) : (a \o Tail(s))[k] = s[i]
<1> DEFINE r == a \o Tail(s)
           k == Len(a) + i - 1
<1>1. /\ Len(a) \in Nat /\ Len(s) \in Nat \ {0} /\ DOMAIN s = 1..Len(s)
      /\ DOMAIN r = 1..(Len(a) + Len(s) - 1)
      /\ \A j \in DOMAIN r : j > Len(a) => r[j] = s[j - Len(a) + 1]
  BY CallShape
<1> HIDE DEF r
<1>2. k \in DOMAIN r /\ k > Len(a) /\ k - Len(a) + 1 = i
  BY ONLY <1>1, i \in DOMAIN s, i # 1
<1>3. r[k] = s[i]
  BY <1>1, <1>2
<1> QED
  BY <1>2, <1>3 DEF r

(* Telemetry still to be emitted stays so below another task.               *)
LEMMA ComingKept ==
  ASSUME NEW s, IsList(s), s # <<>>, NEW a, IsList(a), NEW x, Coming(s, x),
         s[1][1] # "emit"
  PROVE  Coming(a \o Tail(s), x)
<1>1. PICK j \in DOMAIN s, node \in DOMAIN Signals :
        s[j] = <<"emit", node>> /\ \E i \in DOMAIN Signals[node] : Signals[node][i] = x
  BY DEF Coming
<1>2. j # 1
  BY <1>1
<1>3. \A i \in DOMAIN s : i # 1 => \E k \in DOMAIN (a \o Tail(s)) : (a \o Tail(s))[k] = s[i]
  BY CallHolds
<1>4. \E k \in DOMAIN (a \o Tail(s)) : (a \o Tail(s))[k] = s[j]
  BY <1>2, <1>3
<1> QED
  BY <1>1, <1>4 DEF Coming

LEMMA AbsentBelow ==
  ASSUME NEW s, IsList(s), s # <<>>, NEW a, IsList(a), NEW m, Absent(a \o Tail(s), m)
  PROVE  \A i \in DOMAIN s : i # 1 => Mark(s[i]) # m
<1> SUFFICES ASSUME NEW i \in DOMAIN s, i # 1
             PROVE  Mark(s[i]) # m
  OBVIOUS
<1>1. \E k \in DOMAIN (a \o Tail(s)) : (a \o Tail(s))[k] = s[i]
  BY CallHolds
<1> QED
  BY <1>1 DEF Absent

(* A step that carries out no report: what is on its way stays so.          *)
LEMMA CacheCall ==
  ASSUME TestbedInv, CacheInv, todo # <<>>, NEW a, Driving(a), Call(a),
         a = <<>> \/ todo[1][1] \notin Data,
         todo[1][1] \notin {"emit", "telemetry", "record"},
         latest' = latest, RecordsDue(agenda', now'),
         ~touched' /\ Absent(todo', "eps") =>
           /\ ~touched /\ Mark(todo[1]) # "eps"
           /\ Over' = Over /\ UNCHANGED <<eps, payload, faults>>,
         \A x : /\ Waits(agenda', x) <=> Waits(agenda, x)
                /\ \A v : WaitsLast(agenda, x, v) => WaitsLast(agenda', x, v),
         \A x : /\ Has(bus', "telemetry", x) <=> Has(bus, "telemetry", x)
                /\ \A v : Ends(bus, "telemetry", x, v) => Ends(bus', "telemetry", x, v)
  PROVE  CacheInv'
<1>1. IsList(todo) /\ Front(todo) /\ TicksAhead(todo) /\ DOMAIN latest = Signal
  BY DEF TestbedInv, ListsInv, CacheInv
<1>2. IsList(a) /\ Front(a) /\ TicksAhead(a) /\ \A kind \in Data : \A x : ~Has(a, kind, x)
  BY DrivingOrder
<1>3. todo' = a \o Tail(todo)
  BY DEF Call
<1>4. Front(todo') /\ TicksAhead(todo')
  BY <1>1, <1>2, <1>3, OrderKept
<1>5. ASSUME ~touched' /\ Absent(todo', "eps")
      PROVE  /\ Looked'
             /\ \A x \in Signal : \/ Coming(todo', x)
                                  \/ Arrives(bus', todo', agenda', latest', x, Report(x)')
  <2>1. ~touched /\ Mark(todo[1]) # "eps" /\ Over' = Over /\ UNCHANGED <<eps, payload, faults>>
    BY <1>5
  <2>2. \A i \in DOMAIN todo : i # 1 => Mark(todo[i]) # "eps"
    BY <1>1, <1>2, <1>3, <1>5, AbsentBelow
  <2>3. Absent(todo, "eps")
    BY <2>1, <2>2 DEF Absent
  <2>4. Looked /\ Current
    BY <2>1, <2>3 DEF CacheInv
  <2>5. Looked'
    BY <2>1, <2>4, LookedSame
  <2>6. ASSUME NEW x \in Signal
        PROVE  Coming(todo', x) \/ Arrives(bus', todo', agenda', latest', x, Report(x)')
    <3>1. Report(x)' = Report(x)
      BY <2>1, ReportSame
    <3>2. CASE Coming(todo, x)
      BY <1>1, <1>2, <1>3, <3>2, ComingKept
    <3>3. CASE Arrives(bus, todo, agenda, latest, x, Report(x))
      <4> DEFINE v == Report(x)
      <4>0. "telemetry" \in Data /\ "record" \in Data
        BY DEF Data, Plain
      <4>1. /\ ~Has(a, "telemetry", x) /\ ~Has(a, "record", x)
            /\ Waits(agenda', x) <=> Waits(agenda, x)
            /\ \A u : WaitsLast(agenda, x, u) => WaitsLast(agenda', x, u)
        BY <1>2, <4>0
      <4>2. InTasks(todo, agenda, latest, x, v) => InTasks(todo', agenda', latest', x, v)
        <5> HIDE DEF v
        <5> QED
          BY <1>1, <1>2, <1>3, <4>1, InTasksKept
      <4>3. Arrives(bus', todo', agenda', latest', x, v)
        BY <3>3, <4>2 DEF Arrives
      <4> QED
        BY <3>1, <4>3
    <3> QED
      BY <2>4, <3>2, <3>3 DEF Current
  <2> QED
    BY <2>5, <2>6
<1> QED
  BY <1>1, <1>4, <1>5, CachePrimed

(* Nothing put on the bus or into the agenda.                               *)
LEMMA CacheQuietCall ==
  ASSUME TestbedInv, CacheInv, todo # <<>>, NEW a, Driving(a), Call(a),
         a = <<>> \/ todo[1][1] \notin Data,
         todo[1][1] \notin {"emit", "telemetry", "record"},
         UNCHANGED <<now, agenda, bus, latest>>,
         ~touched' /\ Absent(todo', "eps") =>
           /\ ~touched /\ Mark(todo[1]) # "eps"
           /\ Over' = Over /\ UNCHANGED <<eps, payload, faults>>
  PROVE  CacheInv'
<1>1. RecordsDue(agenda', now')
  BY DEF CacheInv
<1> QED
  BY <1>1, CacheCall

(* A command on the bus comes behind the reports there.                     *)
LEMMA CommandBehind ==
  ASSUME NEW b, IsList(b), NEW c, c[1] = "command"
  PROVE  \A x : /\ Has(Append(b, c), "telemetry", x) <=> Has(b, "telemetry", x)
                /\ \A v : Ends(b, "telemetry", x, v) => Ends(Append(b, c), "telemetry", x, v)
<1> TAKE x
<1>1. IsList(<<c>>) /\ DOMAIN <<c>> = {1} /\ <<c>>[1] = c
  BY SingleShape
<1>2. ~Has(<<c>>, "telemetry", x)
  BY <1>1 DEF Has
<1>3. Append(b, c) = b \o <<c>>
  <2>1. b \in Seq({b[i] : i \in DOMAIN b} \cup {c})
    BY DEF IsList
  <2> QED
    BY <2>1
<1> QED
  BY <1>1, <1>2, <1>3, ConcatReports

-----------------------------------------------------------------------------
(* The actions and the cache.                                               *)

LEMMA SingleDriving ==
  ASSUME NEW x, x[1] \notin Data \cup {"cycles", "tick"}
  PROVE  Driving(<<x>>)
BY SingleShape DEF Driving

(* _wait_sync only drives.                                                  *)
LEMMA WaitDriving ==
  ASSUME NEW d
  PROVE  Driving(Wait(d))
<1>1. CASE d = 0
  <2>1. Driving(Settle \o Emission)
    BY SettleDriving, EmissionDriving, DrivingConcat
  <2> QED
    BY <1>1, <2>1 DEF Wait
<1>2. CASE d # 0
  <2> DEFINE u == <<"until", now + d, maxSettle>>
             x == <<"reached", now + d, d>>
             front == <<u, x>>
  <2>1. u[1] = "until" /\ x[1] = "reached"
    OBVIOUS
  <2>2. Wait(d) = front \o Settle
    BY <1>2 DEF Wait, RunUntil
  <2> HIDE DEF u, x
  <2>3. /\ front = [i \in 1..2 |-> front[i]] /\ DOMAIN front = 1..2
        /\ front[1] = u /\ front[2] = x
    OBVIOUS
  <2> HIDE DEF front
  <2>4. IsList(front)
    BY <2>3, ListBuilt
  <2>5. \A i \in DOMAIN front : i = 1 \/ i = 2
    BY <2>3
  <2>6. "until" \notin Data \cup {"cycles", "tick"} /\ "reached" \notin Data \cup {"cycles", "tick"}
    BY DEF Data, Plain
  <2>7. Driving(front)
    BY <2>1, <2>3, <2>4, <2>5, <2>6 DEF Driving
  <2> QED
    BY <2>2, <2>7, SettleDriving, DrivingConcat
<1> QED
  BY <1>1, <1>2

(* What a new event records has to be of this instant as well.              *)
LEMMA InsertedDue ==
  ASSUME NEW g, IsList(g), NEW t, NEW handlers, NEW h, Inserted(g, h, t, handlers),
         NEW n, RecordsDue(g, n),
         t <= n \/ \A j \in DOMAIN handlers : handlers[j][1] # "record"
  PROVE  RecordsDue(h, n)
<1>1. PICK k \in 0..Len(g) :
        /\ Len(g) \in Nat /\ DOMAIN g = 1..Len(g)
        /\ IsList(h) /\ DOMAIN h = 1..(Len(g) + 1)
        /\ \A i \in DOMAIN g : i <= k <=> g[i].time <= t
        /\ h[k + 1].time = t /\ h[k + 1].handlers = handlers
        /\ \A i \in DOMAIN h : i <= k => i \in DOMAIN g /\ h[i] = g[i]
        /\ \A i \in DOMAIN h : i > k + 1 => i - 1 \in DOMAIN g /\ h[i] = g[i - 1]
        /\ \A i \in DOMAIN g : i > k => h[i + 1] = g[i]
  BY InsertedShape
<1>2. \A i \in DOMAIN h : i <= k \/ i = k + 1 \/ i > k + 1
  BY ONLY <1>1
<1>3. \A i \in DOMAIN h : \/ h[i].time = t /\ h[i].handlers = handlers
                          \/ \E m \in DOMAIN g : h[i] = g[m]
  BY <1>1, <1>2
<1> QED
  BY <1>3 DEF RecordsDue

(* An event more that records nothing.                                      *)
LEMMA UnrecordedInserted ==
  ASSUME NEW g, IsList(g), NEW t, NEW handlers, NEW h, Inserted(g, h, t, handlers),
         \A x : ~Has(handlers, "record", x), NEW n, RecordsDue(g, n)
  PROVE  /\ \A x : /\ Waits(h, x) <=> Waits(g, x)
                   /\ \A v : WaitsLast(g, x, v) => WaitsLast(h, x, v)
         /\ RecordsDue(h, n)
<1>1. \A x : /\ Waits(h, x) <=> Waits(g, x) \/ Has(handlers, "record", x)
             /\ ~Has(handlers, "record", x) => \A v : WaitsLast(g, x, v) => WaitsLast(h, x, v)
  BY InsertedWaits
<1>2. RecordsDue(h, n)
  BY InsertedDue DEF Has
<1> QED
  BY <1>1, <1>2

(* A step that changes nothing of it.                                       *)
LEMMA CacheStays ==
  ASSUME CacheInv,
         UNCHANGED <<now, agenda, bus, todo, latest, cycle, request, eps, payload, faults, touched>>
  PROVE  CacheInv'
<1>1. Over' = Over
  BY OverSame
<1>2. \A x : Report(x)' = Report(x)
  BY <1>1, ReportSame
<1>3. Looked => Looked'
  BY <1>1, LookedSame
<1>4. ~touched /\ Absent(todo, "eps") =>
        /\ Looked'
        /\ \A x \in Signal : Coming(todo, x) \/ Arrives(bus, todo, agenda, latest, x, Report(x)')
  BY <1>2, <1>3 DEF CacheInv, Current
<1>5. DOMAIN latest = Signal /\ Front(todo) /\ TicksAhead(todo) /\ RecordsDue(agenda, now)
  BY DEF CacheInv
<1> QED
  BY <1>4, <1>5, CachePrimed

(* The loops and the calls that only drive others.                          *)
LEMMA DrivingActions ==
  ASSUME TestbedInv, CacheInv,
         SettleRound \/ StopByLimit \/ Reached \/ CheckAgain
  PROVE  CacheInv'
<1>1. ASSUME NEW name, Doing(name), name \in {"settle", "until", "reached", "check"}
      PROVE  /\ todo # <<>> /\ todo[1][1] \notin Data /\ Mark(todo[1]) # "eps"
             /\ todo[1][1] \notin {"emit", "telemetry", "record"}
  BY <1>1, DoingFacts DEF Data, Plain, Mark
<1>2. ASSUME NEW a, Driving(a), Call(a), NEW name, Doing(name),
             name \in {"settle", "until", "reached", "check"},
             UNCHANGED <<now, agenda, bus, latest, cycle, request, eps, payload, faults, touched>>
      PROVE  CacheInv'
  <2>1. /\ todo # <<>> /\ todo[1][1] \notin Data /\ Mark(todo[1]) # "eps"
        /\ todo[1][1] \notin {"emit", "telemetry", "record"}
    BY <1>1, <1>2
  <2>2. ~touched' => ~touched /\ Over' = Over /\ UNCHANGED <<eps, payload, faults>>
    BY <1>2, OverSame
  <2> QED
    BY <1>2, <2>1, <2>2, CacheQuietCall
<1>3. CASE SettleRound
  <2>1. /\ Doing("settle")
        /\ Call(IF Idle THEN <<>> ELSE <<RunUntil(now), <<"drain">>, <<"settle", Arg - 1>>>>)
        /\ UNCHANGED <<now, agenda, bus, latest, cycle, request, eps, payload, faults, touched>>
    BY <1>3 DEF SettleRound, engine, registry, modules, history
  <2> DEFINE u == <<"until", now, maxSettle>>
             again == <<"settle", Arg - 1>>
             a == <<u, <<"drain">>, again>>
  <2>2. u[1] = "until" /\ again[1] = "settle" /\ <<"drain">>[1] = "drain"
    OBVIOUS
  <2>3. Call(<<>>) \/ Call(a)
    BY <2>1 DEF RunUntil
  <2> HIDE DEF u, again
  <2>4. /\ a = [i \in 1..3 |-> a[i]] /\ DOMAIN a = 1..3
        /\ a[1] = u /\ a[2] = <<"drain">> /\ a[3] = again
    OBVIOUS
  <2> HIDE DEF a
  <2>5. IsList(a)
    BY <2>4, ListBuilt
  <2>6. \A i \in DOMAIN a : i = 1 \/ i = 2 \/ i = 3
    BY <2>4
  <2>7. \A kind \in {"until", "drain", "settle"} : kind \notin Data \cup {"cycles", "tick"}
    BY DEF Data, Plain
  <2>8. Driving(a)
    BY <2>2, <2>4, <2>5, <2>6, <2>7 DEF Driving
  <2> QED
    BY <1>2, <2>1, <2>3, <2>8, NothingDriving
<1>4. CASE StopByLimit
  <2>1. /\ Doing("until") /\ Call(<<>>)
        /\ UNCHANGED <<now, agenda, bus, latest, cycle, request, eps, payload, faults, touched>>
    BY <1>4 DEF StopByLimit, engine, registry, modules, history
  <2> QED
    BY <1>2, <2>1, NothingDriving
<1>5. CASE Reached
  <2>1. /\ Doing("reached") /\ (Call(<<>>) \/ Raise("wait"))
        /\ UNCHANGED <<now, agenda, bus, latest, cycle, request, eps, payload, faults, touched>>
    BY <1>5 DEF Reached, engine, registry, modules, history
  <2>2. CASE Call(<<>>)
    BY <1>2, <2>1, <2>2, NothingDriving
  <2>3. CASE Raise("wait")
    <3>1. todo' = todo
      BY <2>3 DEF Raise
    <3> QED
      BY <2>1, <3>1, CacheStays
  <2> QED
    BY <2>1, <2>2, <2>3
<1>6. CASE CheckAgain
  <2> DEFINE c == Head(todo)
             w == Wait(NextStop(Head(todo)[3]) - now)
  <2>1. /\ Doing("check") /\ Call(w \o <<c>>)
        /\ UNCHANGED <<now, agenda, bus, latest, cycle, request, eps, payload, faults, touched>>
    BY <1>6 DEF CheckAgain, engine, registry, modules, history
  <2>2. Driving(w)
    BY WaitDriving
  <2>3. c[1] = "check"
    BY <2>1, DoingFacts
  <2> HIDE DEF w, c
  <2>4. Driving(<<c>>)
    BY <2>3, SingleDriving DEF Data, Plain
  <2>5. Driving(w \o <<c>>)
    BY <2>2, <2>4, DrivingConcat
  <2> QED
    BY <1>2, <2>1, <2>5
<1> QED
  BY <1>3, <1>4, <1>5, <1>6

(* The tasks that carry a command, a rule, a fault or part of the physical  *)
(* step out.                                                                *)
LEMMA CarryingActions ==
  ASSUME TestbedInv, CacheInv,
         \/ DeliverCommand \/ ObcRule \/ SendCommandFrame \/ ApplyOverride \/ ApplyNamedFault
         \/ AdvanceCycles \/ ArmPhysicalStep
  PROVE  CacheInv'
<1>0. IsList(todo) /\ IsList(bus) /\ IsList(agenda) /\ TicksAhead(todo) /\ RecordsDue(agenda, now)
  BY DEF TestbedInv, ListsInv, Bus, Agenda, CacheInv
<1>1. ASSUME NEW name, Doing(name),
             name \in {"command", "rule", "send", "override", "named_fault", "cycles", "arm"}
      PROVE  /\ todo # <<>> /\ todo[1][1] \notin {"emit", "telemetry", "record"}
             /\ Mark(todo[1]) # "eps"
  BY <1>1, DoingFacts DEF Mark
<1>2. ASSUME Call(<<>>), NEW name, Doing(name), name \in {"command", "override", "named_fault"},
             UNCHANGED <<now, agenda, bus, latest>>, touched' = TRUE
      PROVE  CacheInv'
  BY <1>1, <1>2, NothingDriving, CacheQuietCall
<1>3. CASE DeliverCommand
  <2>1. /\ Doing("command") /\ Call(<<>>) /\ touched' = TRUE
        /\ UNCHANGED <<now, agenda, bus, latest>>
    BY <1>3 DEF DeliverCommand, engine
  <2> QED
    BY <1>2, <2>1
<1>4. CASE ApplyOverride
  <2>1. /\ Doing("override") /\ Call(<<>>) /\ touched' = TRUE
        /\ UNCHANGED <<now, agenda, bus, latest>>
    BY <1>4 DEF ApplyOverride, engine
  <2> QED
    BY <1>2, <2>1
<1>5. CASE ApplyNamedFault
  <2>1. /\ Doing("named_fault") /\ Call(<<>>) /\ touched' = TRUE
        /\ UNCHANGED <<now, agenda, bus, latest>>
    BY <1>5 DEF ApplyNamedFault, engine
  <2> QED
    BY <1>2, <2>1
<1>6. ASSUME Call(<<>>), NEW name, Doing(name), name \in {"rule", "send"},
             UNCHANGED <<now, agenda, latest, cycle, request, eps, payload, faults, touched>>,
             NEW c, c[1] = "command", bus' = bus \/ bus' = Append(bus, c)
      PROVE  CacheInv'
  <2>1. ~touched' => ~touched /\ Over' = Over /\ UNCHANGED <<eps, payload, faults>>
    BY <1>6, OverSame
  <2>2. \A x : /\ Has(bus', "telemetry", x) <=> Has(bus, "telemetry", x)
               /\ \A v : Ends(bus, "telemetry", x, v) => Ends(bus', "telemetry", x, v)
    <3>1. CASE bus' = bus
      BY <3>1
    <3>2. CASE bus' = Append(bus, c)
      BY <1>0, <1>6, <3>2, CommandBehind
    <3> QED
      BY <1>6, <3>1, <3>2
  <2>3. RecordsDue(agenda', now')
    BY <1>0, <1>6
  <2>4. \A x : /\ Waits(agenda', x) <=> Waits(agenda, x)
               /\ \A v : WaitsLast(agenda, x, v) => WaitsLast(agenda', x, v)
    BY <1>6
  <2> QED
    BY <1>1, <1>6, <2>1, <2>2, <2>3, <2>4, NothingDriving, CacheCall
<1>7. CASE ObcRule
  <2> DEFINE c == <<"command", Arg.command>>
  <2>1. /\ Doing("rule") /\ Call(<<>>) /\ (bus' = bus \/ bus' = Append(bus, c))
        /\ UNCHANGED <<now, agenda, latest, cycle, request, eps, payload, faults, touched>>
    BY <1>7 DEF ObcRule, engine, registry, modules, history
  <2>2. c[1] = "command"
    OBVIOUS
  <2> HIDE DEF c
  <2> QED
    BY <1>6, <2>1, <2>2
<1>8. CASE SendCommandFrame
  <2> DEFINE c == <<"command", Arg>>
  <2>1. /\ Doing("send") /\ Call(<<>>) /\ bus' = Append(bus, c)
        /\ UNCHANGED <<now, agenda, latest, cycle, request, eps, payload, faults, touched>>
    BY <1>8 DEF SendCommandFrame, engine, registry, modules, history
  <2>2. c[1] = "command"
    OBVIOUS
  <2> HIDE DEF c
  <2> QED
    BY <1>6, <2>1, <2>2
<1>9. CASE AdvanceCycles
  <2>1. Doing("cycles") /\ Call(<<>>) /\ UNCHANGED <<now, agenda, bus, latest>>
    BY <1>9 DEF AdvanceCycles, engine
  <2>2. /\ todo # <<>> /\ todo[1][1] = "cycles" /\ 1 \in DOMAIN todo
        /\ todo[1][1] \notin {"emit", "telemetry", "record"} /\ Mark(todo[1]) # "eps"
    BY <1>1, <2>1, DoingFacts, HeadFacts
  <2>3. PICK j \in DOMAIN todo : Mark(todo[j]) = "eps"
    BY <1>0, <2>2 DEF TicksAhead
  <2>4. ~Absent(todo', "eps")
    <3>1. todo' = <<>> \o Tail(todo) /\ IsList(<<>>)
      BY <2>1, NothingDriving DEF Call, Driving
    <3>2. Absent(todo', "eps") => \A i \in DOMAIN todo : i # 1 => Mark(todo[i]) # "eps"
      BY <1>0, <2>2, <3>1, AbsentBelow
    <3> QED
      BY <2>2, <2>3, <3>2
  <2> QED
    BY <2>1, <2>2, <2>4, NothingDriving, CacheQuietCall
<1>10. CASE ArmPhysicalStep
  <2>1. /\ Doing("arm") /\ Call(<<>>) /\ ScheduleAt(now + Step, PhysicalStep)
        /\ UNCHANGED <<now, bus, latest, cycle, request, eps, payload, faults, touched>>
    BY <1>10 DEF ArmPhysicalStep, NextStepAt, registry, modules, history
  <2>2. Inserted(agenda, agenda', now + Step, PhysicalStep)
    BY <2>1 DEF Inserted, ScheduleAt
  <2>3. \A x : ~Has(PhysicalStep, "record", x)
    BY StepOrder DEF Data, Plain
  <2>4. /\ \A x : /\ Waits(agenda', x) <=> Waits(agenda, x)
                  /\ \A v : WaitsLast(agenda, x, v) => WaitsLast(agenda', x, v)
        /\ RecordsDue(agenda', now')
    BY <1>0, <2>1, <2>2, <2>3, UnrecordedInserted
  <2>5. ~touched' => ~touched /\ Over' = Over /\ UNCHANGED <<eps, payload, faults>>
    BY <2>1, OverSame
  <2>6. bus' = bus /\ latest' = latest
    BY <2>1
  <2> QED
    BY <1>1, <2>1, <2>4, <2>5, <2>6, NothingDriving, CacheCall
<1> QED
  BY <1>3, <1>4, <1>5, <1>7, <1>8, <1>9, <1>10

(* Later, what waits for no later instant still does.                       *)
LEMMA DueLater ==
  ASSUME NEW g, NEW n \in Nat, Agenda(g, n), RecordsDue(g, n), NEW t \in Nat, n <= t
  PROVE  RecordsDue(g, t)
<1>1. \A i \in DOMAIN g : g[i].time \in Nat
  BY DEF Agenda
<1>2. \A i \in DOMAIN g : g[i].time <= n => g[i].time <= t
  BY <1>1
<1> QED
  BY <1>2, Zenon DEF RecordsDue

(* The verdict, the end of a loop, a settle given up.                       *)
LEMMA EndingActions ==
  ASSUME TestbedInv, CacheInv, Conclude \/ JumpToTarget \/ SettleGivesUp
  PROVE  CacheInv'
<1>0. /\ IsList(todo) /\ IsList(agenda) /\ RecordsDue(agenda, now) /\ now \in Nat
      /\ Agenda(agenda, now) /\ Loops(todo, now)
  BY DEF TestbedInv, ListsInv, CallsInv, Agenda, CacheInv
<1>1. ASSUME NEW name, Doing(name), name \in {"until", "check"}
      PROVE  /\ todo # <<>> /\ todo[1][1] \notin Data /\ Mark(todo[1]) # "eps"
             /\ todo[1][1] \notin {"emit", "telemetry", "record"}
  BY <1>1, DoingFacts DEF Data, Plain, Mark
<1>2. CASE Conclude
  <2>1. /\ Doing("check") /\ ScheduleAt(now, <<>>) /\ Call(Settle)
        /\ UNCHANGED <<now, bus, latest, cycle, request, eps, payload, faults, touched>>
    BY <1>2 DEF Conclude, Schedule, registry, modules, history
  <2>2. Inserted(agenda, agenda', now, <<>>)
    BY <2>1 DEF Inserted, ScheduleAt
  <2>3. \A x : ~Has(<<>>, "record", x)
    BY DEF Has
  <2>4. /\ \A x : /\ Waits(agenda', x) <=> Waits(agenda, x)
                  /\ \A v : WaitsLast(agenda, x, v) => WaitsLast(agenda', x, v)
        /\ RecordsDue(agenda', now')
    BY <1>0, <2>1, <2>2, <2>3, UnrecordedInserted
  <2>5. ~touched' => ~touched /\ Over' = Over /\ UNCHANGED <<eps, payload, faults>>
    BY <2>1, OverSame
  <2>6. bus' = bus /\ latest' = latest
    BY <2>1
  <2> QED
    BY <1>1, <2>1, <2>4, <2>5, <2>6, SettleDriving, CacheCall
<1>3. CASE JumpToTarget
  <2>1. /\ Doing("until") /\ Call(<<>>) /\ now' = Arg
        /\ UNCHANGED <<agenda, bus, latest, eps, payload, faults>>
        /\ touched' = (touched \/ Over' # Over)
    BY <1>3 DEF JumpToTarget, MoveTo, modules
  <2>2. todo # <<>> /\ todo[1][1] = "until" /\ Arg = todo[1][2]
    BY <2>1, DoingFacts
  <2>3. now' \in Nat /\ now <= now'
    BY <1>0, <2>1, <2>2, HeadFacts DEF Loops
  <2>4. RecordsDue(agenda', now')
    BY <1>0, <2>1, <2>3, DueLater
  <2>5. ~touched' => ~touched /\ Over' = Over /\ UNCHANGED <<eps, payload, faults>>
    BY <2>1
  <2>6. /\ \A x : /\ Waits(agenda', x) <=> Waits(agenda, x)
                  /\ \A v : WaitsLast(agenda, x, v) => WaitsLast(agenda', x, v)
        /\ \A x : /\ Has(bus', "telemetry", x) <=> Has(bus, "telemetry", x)
                  /\ \A v : Ends(bus, "telemetry", x, v) => Ends(bus', "telemetry", x, v)
    BY <2>1
  <2> QED
    BY <1>1, <2>1, <2>4, <2>5, <2>6, NothingDriving, CacheCall
<1>4. CASE SettleGivesUp
  <2>1. UNCHANGED <<now, agenda, bus, todo, latest, cycle, request, eps, payload, faults, touched>>
    BY <1>4 DEF SettleGivesUp, Raise, engine, registry, modules, history
  <2> QED
    BY <2>1, CacheStays
<1> QED
  BY <1>2, <1>3, <1>4

(* drain: every envelope becomes a delivery.                                *)
LEMMA DrainAction ==
  ASSUME TestbedInv, CacheInv, Drain
  PROVE  CacheInv'
<1>0. /\ IsList(todo) /\ Bus(bus) /\ IsList(bus) /\ Front(todo) /\ TicksAhead(todo)
      /\ RecordsDue(agenda, now) /\ DOMAIN latest = Signal
  BY DEF TestbedInv, ListsInv, Bus, CacheInv
<1>1. /\ Doing("drain") /\ Call(bus) /\ bus' = SubSeq(bus, Len(bus) + 1, Len(bus))
      /\ UNCHANGED <<now, agenda, latest, cycle, request, eps, payload, faults, touched>>
  BY DEF Drain, Drained, engine, registry, modules, history
<1>2. bus' = <<>>
  <2>1. Len(bus) \in Nat
    BY <1>0, ListShape
  <2> QED
    BY <1>1, <2>1
<1>3. /\ todo # <<>> /\ todo[1][1] = "drain" /\ Mark(todo[1]) # "eps"
      /\ todo[1][1] \notin Data
  BY <1>1, DoingFacts DEF Mark, Data, Plain
<1>4. todo' = bus \o Tail(todo)
  BY <1>1 DEF Call
<1>5. Front(bus) /\ TicksAhead(bus)
  <2>1. \A i \in DOMAIN bus : bus[i][1] \in Data
    BY <1>0 DEF Bus, Data
  <2> QED
    BY <1>0, <2>1, CarriedOrder
<1>6. Front(todo') /\ TicksAhead(todo')
  BY <1>0, <1>3, <1>4, <1>5, OrderKept
<1>7. ASSUME ~touched' /\ Absent(todo', "eps")
      PROVE  /\ Looked'
             /\ \A x \in Signal : \/ Coming(todo', x)
                                  \/ Arrives(bus', todo', agenda', latest', x, Report(x)')
  <2>1. ~touched /\ Over' = Over /\ UNCHANGED <<eps, payload, faults>>
    BY <1>1, <1>7, OverSame
  <2>2. \A i \in DOMAIN todo : i # 1 => Mark(todo[i]) # "eps"
    BY <1>0, <1>3, <1>4, <1>7, AbsentBelow
  <2>3. Absent(todo, "eps")
    BY <1>3, <2>2 DEF Absent
  <2>4. Looked /\ Current
    BY <2>1, <2>3 DEF CacheInv
  <2>5. Looked'
    BY <2>1, <2>4, LookedSame
  <2>6. ASSUME NEW x \in Signal
        PROVE  Coming(todo', x) \/ Arrives(bus', todo', agenda', latest', x, Report(x)')
    <3>1. Report(x)' = Report(x)
      BY <2>1, ReportSame
    <3>2. CASE Coming(todo, x)
      BY <1>0, <1>3, <1>4, <3>2, ComingKept
    <3>3. CASE Arrives(bus, todo, agenda, latest, x, Report(x))
      <4>1. InTasks(todo', agenda, latest, x, Report(x))
        BY <1>0, <1>3, <1>4, <3>3, DrainedKept
      <4>2. ~Has(bus', "telemetry", x)
        BY <1>2 DEF Has
      <4>3. InTasks(todo', agenda', latest', x, Report(x))
        BY <1>1, <4>1
      <4> QED
        BY <3>1, <4>2, <4>3 DEF Arrives
    <3> QED
      BY <2>4, <3>2, <3>3 DEF Current
  <2> QED
    BY <2>5, <2>6
<1>8. DOMAIN latest' = Signal /\ RecordsDue(agenda', now')
  BY <1>0, <1>1
<1> QED
  BY <1>6, <1>7, <1>8, CachePrimed

(* The handlers of a telemetry event: rules and, last, one record.          *)
LEMMA HandlersRecord ==
  ASSUME NEW y, NEW w
  PROVE  /\ Ends(OnTelemetry(y, w), "record", y, w)
         /\ \A z : Has(OnTelemetry(y, w), "record", z) => z = y
<1> DEFINE rules == [i \in DOMAIN Rules |-> <<"rule", Rules[i], y, w>>]
           record == <<"record", y, w>>
           all == rules \o <<record>>
<1>1. OnTelemetry(y, w) = all
  BY DEF OnTelemetry
<1>2. /\ record[1] = "record" /\ record[2] = y /\ record[3] = w
      /\ \A i \in DOMAIN rules : rules[i][1] = "rule"
  OBVIOUS
<1>3. rules = [i \in 1..Len(Rules) |-> rules[i]] /\ Len(Rules) \in Nat
  BY TestbedAssumption, ListShape
<1> HIDE DEF rules, record
<1>4. IsList(rules) /\ IsList(<<record>>) /\ DOMAIN <<record>> = {1} /\ <<record>>[1] = record
  BY <1>3, ListBuilt, SingleShape
<1>5. IsList(rules) /\ IsList(<<record>>)
  BY <1>4
<1> HIDE DEF all
<1>6. \A z : ~Has(rules, "record", z)
  BY <1>2 DEF Has
<1>7. Ends(<<record>>, "record", y, w) /\ \A z : Has(<<record>>, "record", z) => z = y
  BY <1>2, <1>4 DEF Ends, Has
<1>8. /\ \A z : Has(all, "record", z) <=> Has(rules, "record", z) \/ Has(<<record>>, "record", z)
      /\ Ends(<<record>>, "record", y, w) => Ends(all, "record", y, w)
  BY <1>5, ConcatReports DEF all
<1> QED
  BY <1>1, <1>6, <1>7, <1>8

(* _deliver_telemetry and _record_telemetry.                                *)
LEMMA TelemetryActions ==
  ASSUME TestbedInv, CacheInv, DeliverTelemetry \/ RecordTelemetry
  PROVE  CacheInv'
<1>0. /\ IsList(todo) /\ IsList(agenda) /\ Front(todo) /\ TicksAhead(todo) /\ now \in Nat
      /\ RecordsDue(agenda, now) /\ DOMAIN latest = Signal
  BY DEF TestbedInv, ListsInv, Agenda, CacheInv
<1>1. ASSUME todo # <<>>, Call(<<>>), Mark(todo[1]) # "eps", todo[1][1] # "emit",
             UNCHANGED <<now, bus, cycle, request, eps, payload, faults, touched>>,
             DOMAIN latest' = Signal, RecordsDue(agenda', now'),
             \A x \in Signal : \A v :
               InTasks(todo, agenda, latest, x, v) => InTasks(<<>> \o Tail(todo), agenda', latest', x, v)
      PROVE  CacheInv'
  <2>1. todo' = <<>> \o Tail(todo) /\ Driving(<<>>) /\ IsList(<<>>)
    BY <1>1, NothingDriving DEF Call, Driving
  <2>2. Front(<<>>) /\ TicksAhead(<<>>)
    BY <2>1, DrivingOrder
  <2>3. Front(todo') /\ TicksAhead(todo')
    BY <1>0, <1>1, <2>1, <2>2, OrderKept
  <2>4. ASSUME ~touched' /\ Absent(todo', "eps")
        PROVE  /\ Looked'
               /\ \A x \in Signal : \/ Coming(todo', x)
                                    \/ Arrives(bus', todo', agenda', latest', x, Report(x)')
    <3>1. ~touched /\ Over' = Over /\ UNCHANGED <<eps, payload, faults>>
      BY <1>1, <2>4, OverSame
    <3>2. \A i \in DOMAIN todo : i # 1 => Mark(todo[i]) # "eps"
      BY <1>0, <1>1, <2>1, <2>4, AbsentBelow
    <3>3. Absent(todo, "eps")
      BY <1>1, <3>2 DEF Absent
    <3>4. Looked /\ Current
      BY <3>1, <3>3 DEF CacheInv
    <3>5. Looked'
      BY <3>1, <3>4, LookedSame
    <3>6. ASSUME NEW x \in Signal
          PROVE  Coming(todo', x) \/ Arrives(bus', todo', agenda', latest', x, Report(x)')
      <4>1. Report(x)' = Report(x)
        BY <3>1, ReportSame
      <4>2. CASE Coming(todo, x)
        BY <1>0, <1>1, <2>1, <4>2, ComingKept
      <4>3. CASE Arrives(bus, todo, agenda, latest, x, Report(x))
        <5>1. InTasks(todo, agenda, latest, x, Report(x)) => InTasks(todo', agenda', latest', x, Report(x))
          BY <1>1, <2>1
        <5> QED
          BY <1>1, <4>1, <4>3, <5>1 DEF Arrives
      <4> QED
        BY <3>4, <4>2, <4>3 DEF Current
    <3> QED
      BY <3>5, <3>6
  <2> QED
    BY <1>1, <2>3, <2>4, CachePrimed
<1>2. CASE DeliverTelemetry
  <2> DEFINE y == todo[1][2]
             w == todo[1][3]
             handlers == OnTelemetry(y, w)
  <2>1. /\ Doing("telemetry") /\ Call(<<>>) /\ ScheduleAt(now, OnTelemetry(Arg, Head(todo)[3]))
        /\ UNCHANGED <<now, bus, latest, cycle, request, eps, payload, faults, touched>>
    BY <1>2 DEF DeliverTelemetry, Schedule, registry, modules, history
  <2>2. todo # <<>> /\ todo[1][1] = "telemetry" /\ Arg = y /\ Head(todo)[3] = w
    BY <2>1, DoingFacts
  <2>3. Inserted(agenda, agenda', now, handlers)
    BY <2>1, <2>2 DEF Inserted, ScheduleAt
  <2>4. Ends(handlers, "record", y, w) /\ \A z : Has(handlers, "record", z) => z = y
    BY HandlersRecord
  <2>5. todo[1][2] = y /\ todo[1][3] = w /\ Mark(todo[1]) # "eps" /\ todo[1][1] # "emit"
    BY <2>2 DEF Mark
  <2> HIDE DEF y, w, handlers
  <2>6. \A x \in Signal : \A v :
          InTasks(todo, agenda, latest, x, v) => InTasks(<<>> \o Tail(todo), agenda', latest', x, v)
    <3> TAKE x \in Signal
    <3> TAKE v
    <3> HAVE InTasks(todo, agenda, latest, x, v)
    <3>1. InTasks(<<>> \o Tail(todo), agenda', latest, x, v)
      BY <1>0, <2>2, <2>3, <2>4, <2>5, DeliveredKept
    <3> QED
      BY <2>1, <3>1
  <2>7. now <= now
    BY <1>0
  <2>8. RecordsDue(agenda', now)
    BY <1>0, <2>3, <2>7, InsertedDue
  <2> QED
    BY <1>0, <1>1, <2>1, <2>2, <2>5, <2>6, <2>8
<1>3. CASE RecordTelemetry
  <2> DEFINE y == todo[1][2]
             w == todo[1][3]
  <2>1. /\ Doing("record") /\ Call(<<>>) /\ latest' = [latest EXCEPT ![Arg] = Head(todo)[3]]
        /\ UNCHANGED <<now, agenda, bus, cycle, request, eps, payload, faults, touched>>
    BY <1>3 DEF RecordTelemetry, engine, registry, modules, history
  <2>2. /\ todo # <<>> /\ todo[1][1] = "record" /\ Arg = y /\ Head(todo)[3] = w
        /\ todo[1][2] = y /\ todo[1][3] = w
    BY <2>1, DoingFacts
  <2>3. Mark(todo[1]) # "eps" /\ todo[1][1] # "emit"
    BY <2>2 DEF Mark
  <2> HIDE DEF y, w
  <2>4. latest' = [latest EXCEPT ![y] = w] /\ DOMAIN latest' = Signal
    BY <1>0, <2>1, <2>2
  <2>5. \A x \in Signal : \A v :
          InTasks(todo, agenda, latest, x, v) => InTasks(<<>> \o Tail(todo), agenda', latest', x, v)
    <3> TAKE x \in Signal
    <3> TAKE v
    <3> HAVE InTasks(todo, agenda, latest, x, v)
    <3>1. x \in DOMAIN latest
      BY <1>0
    <3>2. InTasks(<<>> \o Tail(todo), agenda, [latest EXCEPT ![y] = w], x, v)
      BY <1>0, <2>2, <3>1, RecordedKept
    <3> QED
      BY <2>1, <2>4, <3>2
  <2>6. RecordsDue(agenda', now')
    BY <1>0, <2>1
  <2> QED
    BY <1>1, <2>1, <2>2, <2>3, <2>4, <2>5, <2>6
<1> QED
  BY <1>2, <1>3

(* Of a finite list of places that qualify there is a last one.             *)
LEMMA LastPlace ==
  ASSUME NEW n \in Nat, NEW S \in SUBSET (1..n), S # {}
  PROVE  \E i \in S : \A j \in S : j <= i
<1> DEFINE D == {n - i : i \in S}
<1>1. D \in SUBSET Nat /\ D # {}
  <2>1. \A i \in S : n - i \in Nat
    OBVIOUS
  <2> QED
    BY <2>1
<1>2. PICK d \in D : \A y \in D : ~(<<y, d>> \in OpToRel(<, Nat))
  BY <1>1, NatLessThanWellFounded, WFMin
<1>3. PICK i \in S : d = n - i
  OBVIOUS
<1>4. ASSUME NEW j \in S
      PROVE  j <= i
  <2>1. n - j \in D /\ n - j \in Nat /\ d \in Nat
    BY <1>1
  <2>2. ~(<<n - j, d>> \in OpToRel(<, Nat))
    BY <1>2, <2>1
  <2>3. ~(n - j < d)
    BY <2>1, <2>2 DEF OpToRel
  <2> QED
    BY <1>3, <2>3
<1> QED
  BY <1>4

(* A step that ends with every report still to come.                        *)
LEMMA TickActions ==
  ASSUME TestbedInv, CacheInv, TickModule
  PROVE  CacheInv'
<1>0. /\ IsList(todo) /\ Front(todo) /\ TicksAhead(todo)
      /\ RecordsDue(agenda, now) /\ DOMAIN latest = Signal
  BY DEF TestbedInv, ListsInv, CacheInv
<1>1. /\ Doing("tick") /\ Call(<<>>)
      /\ UNCHANGED <<now, agenda, bus, latest, cycle, request, touched>>
      /\ Arg = "payload" \/ (Arg = "eps" /\ Power!EpsTick)
  BY DEF TickModule, engine, registry
<1>2. /\ todo # <<>> /\ todo[1][1] = "tick" /\ Mark(todo[1]) = Arg /\ 1 \in DOMAIN todo
      /\ todo[1][1] \notin {"emit", "telemetry", "record"} /\ todo[1][1] \notin Data
  BY <1>1, DoingFacts, HeadFacts DEF Mark, Data, Plain
<1>3. todo' = <<>> \o Tail(todo) /\ Driving(<<>>) /\ IsList(<<>>)
  BY <1>1, NothingDriving DEF Call, Driving
<1>4. PICK j \in DOMAIN todo :
        /\ 1 <= j /\ Mark(todo[j]) = "eps"
        /\ \A node \in DOMAIN Signals : \E k \in DOMAIN todo : j < k /\ todo[k] = <<"emit", node>>
  BY <1>0, <1>2 DEF TicksAhead
<1>5. CASE Arg = "payload"
  <2>1. ~Absent(todo', "eps")
    <3>1. Absent(todo', "eps") => \A i \in DOMAIN todo : i # 1 => Mark(todo[i]) # "eps"
      BY <1>0, <1>2, <1>3, AbsentBelow
    <3>2. j # 1
      BY <1>2, <1>4, <1>5
    <3> QED
      BY <1>4, <3>1, <3>2
  <2> QED
    BY <1>1, <1>2, <1>3, <2>1, CacheQuietCall
<1>6. CASE Power!EpsTick
  <2>1. PICK e, p : Power!Become(Power!Refreshed(e, p)) /\ Over' = Over /\ UNCHANGED faults
    BY <1>6 DEF Power!EpsTick
  <2>2. Looked'
    BY <2>1, BecomeLooked
  <2>3. ASSUME NEW x \in Signal
        PROVE  Coming(todo', x)
    <3>1. PICK node \in DOMAIN Signals : \E i \in DOMAIN Signals[node] : Signals[node][i] = x
      BY DEF Signal
    <3>2. PICK k \in DOMAIN todo : j < k /\ todo[k] = <<"emit", node>>
      BY <1>4
    <3>3. k # 1
      <4>1. 1 <= j /\ j < k /\ j \in Nat /\ k \in Nat
        BY <1>0, <1>4, <3>2, ListShape
      <4> QED
        BY <4>1
    <3>4. \A i \in DOMAIN todo : i # 1 =>
            \E m \in DOMAIN (<<>> \o Tail(todo)) : (<<>> \o Tail(todo))[m] = todo[i]
      BY <1>0, <1>2, <1>3, CallHolds
    <3>5. PICK m \in DOMAIN todo' : todo'[m] = <<"emit", node>>
      BY <1>3, <3>2, <3>3, <3>4
    <3> QED
      BY <3>1, <3>5 DEF Coming
  <2>4. Front(todo') /\ TicksAhead(todo')
    <3>1. Front(<<>>) /\ TicksAhead(<<>>)
      BY <1>3, DrivingOrder
    <3> QED
      BY <1>0, <1>2, <1>3, <3>1, OrderKept
  <2>5. DOMAIN latest' = Signal /\ RecordsDue(agenda', now')
    BY <1>0, <1>1
  <2> QED
    BY <2>2, <2>3, <2>4, <2>5, CachePrimed
<1> QED
  BY <1>1, <1>5, <1>6

(* A node reports all its fields as they are.                               *)
LEMMA FramesReport ==
  ASSUME NEW fields, IsList(fields), NEW frames, IsList(frames), DOMAIN frames = DOMAIN fields,
         NEW v, NEW x,
         \A i \in DOMAIN fields : frames[i][1] = "telemetry" /\ frames[i][2] = fields[i],
         \A i \in DOMAIN fields : fields[i] = x => frames[i][3] = v
  PROVE  Ends(frames, "telemetry", x, v) \/ ~Has(frames, "telemetry", x)
<1> DEFINE S == {i \in DOMAIN fields : fields[i] = x}
<1>1. CASE S = {}
  BY <1>1 DEF Has
<1>2. CASE S # {}
  <2>1. DOMAIN fields = 1..Len(fields) /\ Len(fields) \in Nat
    BY ListShape
  <2>2. S \in SUBSET (1..Len(fields))
    BY <2>1
  <2>3. PICK i \in S : \A j \in S : j <= i
    <3> HIDE DEF S
    <3> QED
      BY <1>2, <2>1, <2>2, LastPlace
  <2>4. i \in DOMAIN frames /\ frames[i][1] = "telemetry" /\ frames[i][2] = x /\ frames[i][3] = v
    BY <2>3
  <2>5. ASSUME NEW j \in DOMAIN frames, j > i
        PROVE  ~(frames[j][1] = "telemetry" /\ frames[j][2] = x)
    <3>1. j \notin S
      BY <2>1, <2>2, <2>3, <2>5
    <3> QED
      BY <3>1
  <2> QED
    BY <2>4, <2>5 DEF Ends
<1> QED
  BY <1>1, <1>2

(* emit: telemetry of one node goes behind everything on the bus.           *)
LEMMA EmitAction ==
  ASSUME TestbedInv, CacheInv, EmitTelemetry
  PROVE  CacheInv'
<1>0. /\ IsList(todo) /\ IsList(bus) /\ Front(todo) /\ TicksAhead(todo)
      /\ RecordsDue(agenda, now) /\ DOMAIN latest = Signal
  BY DEF TestbedInv, ListsInv, Bus, CacheInv
<1>1. PICK node \in DOMAIN Signals :
        /\ node = Arg
        /\ IF node = "eps" THEN Power!EpsTelemetry ELSE UNCHANGED modules
        /\ bus' = bus \o [i \in DOMAIN Signals[node] |->
                            <<"telemetry", Signals[node][i], Report(Signals[node][i])'>>]
  BY DEF EmitTelemetry
<1> DEFINE fields == Signals[node]
           frames == [i \in DOMAIN fields |-> <<"telemetry", fields[i], Report(fields[i])'>>]
<1>2. /\ Doing("emit") /\ Call(<<>>)
      /\ UNCHANGED <<now, agenda, latest, cycle, request, touched>>
  BY DEF EmitTelemetry, engine, registry, history
<1>3. /\ todo # <<>> /\ todo[1][1] = "emit" /\ todo[1][2] = node /\ Mark(todo[1]) # "eps"
      /\ todo[1][1] \notin Data
  BY <1>1, <1>2, DoingFacts DEF Mark, Data, Plain
<1>4. todo' = <<>> \o Tail(todo) /\ Driving(<<>>) /\ IsList(<<>>)
  BY <1>2, NothingDriving DEF Call, Driving
<1>5. Front(todo') /\ TicksAhead(todo')
  <2>1. Front(<<>>) /\ TicksAhead(<<>>)
    BY <1>4, DrivingOrder
  <2> QED
    BY <1>0, <1>3, <1>4, <2>1, OrderKept
<1>6. /\ IsList(fields) /\ DOMAIN frames = DOMAIN fields
      /\ \A i \in DOMAIN fields : frames[i][1] = "telemetry" /\ frames[i][2] = fields[i]
      /\ \A i \in DOMAIN fields : frames[i][3] = Report(fields[i])'
  BY TestbedAssumption
<1>7. bus' = bus \o frames
  BY <1>1
<1>8. frames = [i \in 1..Len(fields) |-> frames[i]] /\ Len(fields) \in Nat
  BY <1>6, ListShape
<1> HIDE DEF frames
<1>9. IsList(frames)
  BY <1>8, ListBuilt
<1>10. ASSUME ~touched' /\ Absent(todo', "eps")
       PROVE  /\ Looked'
              /\ \A x \in Signal : \/ Coming(todo', x)
                                   \/ Arrives(bus', todo', agenda', latest', x, Report(x)')
  <2>1. ~touched /\ Over' = Over
    BY <1>2, <1>10, OverSame
  <2>2. \A i \in DOMAIN todo : i # 1 => Mark(todo[i]) # "eps"
    BY <1>0, <1>3, <1>4, <1>10, AbsentBelow
  <2>3. Absent(todo, "eps")
    BY <1>3, <2>2 DEF Absent
  <2>4. Looked /\ Current
    BY <2>1, <2>3 DEF CacheInv
  <2>5. UNCHANGED <<eps, payload, faults>>
    <3>1. CASE node = "eps"
      <4>1. Power!Become(Power!Refreshed(eps, payload)) /\ UNCHANGED faults
        BY <1>1, <3>1 DEF Power!EpsTelemetry
      <4>2. Power!Become([eps |-> eps, payload |-> payload])
        BY <2>4, <4>1 DEF Looked
      <4> QED
        BY <4>1, <4>2 DEF Power!Become
    <3>2. CASE node # "eps"
      BY <1>1, <3>2 DEF modules
    <3> QED
      BY <3>1, <3>2
  <2>6. Looked'
    BY <2>1, <2>4, <2>5, LookedSame
  <2>7. ASSUME NEW x \in Signal
        PROVE  Coming(todo', x) \/ Arrives(bus', todo', agenda', latest', x, Report(x)')
    <3> DEFINE v == Report(x)
    <3>1. \A y : Report(y)' = Report(y)
      BY <2>1, <2>5, ReportSame
    <3>2. \A i \in DOMAIN fields : fields[i] = x => frames[i][3] = v
      BY <1>6, <3>1
    <3> HIDE DEF v, fields
    <3>3. Ends(frames, "telemetry", x, v) \/ ~Has(frames, "telemetry", x)
      BY <1>6, <1>9, <3>2, FramesReport
    <3>4. /\ Has(bus', "telemetry", x) <=> Has(bus, "telemetry", x) \/ Has(frames, "telemetry", x)
          /\ Ends(frames, "telemetry", x, v) => Ends(bus', "telemetry", x, v)
          /\ ~Has(frames, "telemetry", x) /\ Ends(bus, "telemetry", x, v) => Ends(bus', "telemetry", x, v)
      BY <1>0, <1>7, <1>9, ConcatReports
    <3>5. CASE Ends(frames, "telemetry", x, v)
      <4>1. Ends(bus', "telemetry", x, v)
        BY <3>4, <3>5
      <4> QED
        BY <3>1, <4>1 DEF Arrives, v
    <3>6. CASE ~Has(frames, "telemetry", x)
      <4>1. CASE Arrives(bus, todo, agenda, latest, x, v)
        <5>1. ~Has(<<>>, "telemetry", x) /\ ~Has(<<>>, "record", x)
          BY <1>4, DrivingOrder DEF Data, Plain
        <5>2. InTasks(todo, agenda, latest, x, v) => InTasks(<<>> \o Tail(todo), agenda, latest, x, v)
          BY <1>0, <1>3, <1>4, <5>1, InTasksKept
        <5>3. InTasks(todo, agenda, latest, x, v) => InTasks(todo', agenda', latest', x, v)
          BY <1>2, <1>4, <5>2
        <5>4. Arrives(bus', todo', agenda', latest', x, v)
          BY <3>4, <3>6, <4>1, <5>3 DEF Arrives
        <5> QED
          BY <3>1, <5>4 DEF v
      <4>2. CASE Coming(todo, x)
        <5>1. PICK j \in DOMAIN todo, other \in DOMAIN Signals :
                todo[j] = <<"emit", other>> /\ \E i \in DOMAIN Signals[other] : Signals[other][i] = x
          BY <4>2 DEF Coming
        <5>2. CASE j = 1
          <6>1. other = node
            BY <1>3, <5>1, <5>2
          <6>2. PICK i \in DOMAIN fields : fields[i] = x
            BY <5>1, <6>1 DEF fields
          <6>3. Has(frames, "telemetry", x)
            BY <1>6, <6>2 DEF Has
          <6> QED
            BY <3>6, <6>3
        <5>3. CASE j # 1
          <6>1. IsList(todo) /\ todo # <<>> /\ IsList(<<>>) /\ j \in DOMAIN todo
            BY ONLY <1>0, <1>3, <1>4, <5>1
          <6>2. PICK m \in DOMAIN (<<>> \o Tail(todo)) : (<<>> \o Tail(todo))[m] = todo[j]
            BY ONLY <5>3, <6>1, CallHolds, Zenon
          <6>3. m \in DOMAIN todo' /\ todo'[m] = <<"emit", other>>
            BY ONLY <1>4, <5>1, <6>2
          <6> QED
            BY <5>1, <6>3 DEF Coming
        <5> QED
          BY <5>2, <5>3
      <4> QED
        BY <2>4, <4>1, <4>2 DEF Current, v
    <3> QED
      BY <3>3, <3>5, <3>6
  <2> QED
    BY <2>6, <2>7
<1>11. DOMAIN latest' = Signal /\ RecordsDue(agenda', now')
  BY <1>0, <1>2
<1> QED
  BY <1>5, <1>10, <1>11, CachePrimed

(* What is put first is in the whole.                                       *)
LEMMA ConcatHolds ==
  ASSUME NEW s, IsList(s), NEW t, IsList(t)
  PROVE  \A i \in DOMAIN s : \E k \in DOMAIN (s \o t) : (s \o t)[k] = s[i]
<1>1. /\ Len(s) \in Nat /\ Len(t) \in Nat /\ DOMAIN (s \o t) = 1..(Len(s) + Len(t))
      /\ \A i \in DOMAIN s : (s \o t)[i] = s[i]
  BY ConcatShape
<1>2. DOMAIN s = 1..Len(s)
  BY ListShape
<1>3. \A i \in DOMAIN s : i \in DOMAIN (s \o t)
  BY ONLY <1>1, <1>2
<1> QED
  BY <1>1, <1>3

(* run_until takes an event: what it records becomes tasks.                 *)
LEMMA DispatchCache ==
  ASSUME TestbedInv, CacheInv, Dispatch
  PROVE  CacheInv'
<1> DEFINE handlers == agenda[1].handlers
           u == <<"until", Arg, Head(todo)[3] - 1>>
           a == handlers \o <<u>>
<1>0. /\ IsList(todo) /\ IsList(agenda) /\ Agenda(agenda, now) /\ now \in Nat
      /\ Front(todo) /\ TicksAhead(todo) /\ RecordsDue(agenda, now) /\ DOMAIN latest = Signal
  BY DEF TestbedInv, ListsInv, Agenda, CacheInv
<1>1. /\ Doing("until") /\ DueBy(Arg) /\ agenda' = Tail(agenda)
      /\ Call(Head(agenda).handlers \o <<u>>) /\ now' = Head(agenda).time
      /\ UNCHANGED <<bus, latest, eps, payload, faults>>
      /\ touched' = (touched \/ Over' # Over)
  BY DEF Dispatch, MoveTo, modules
<1>2. /\ todo # <<>> /\ todo[1][1] = "until" /\ todo[1][1] \notin Data
      /\ Mark(todo[1]) # "eps" /\ todo[1][1] # "emit"
  BY <1>1, DoingFacts DEF Mark, Data, Plain
<1>3. agenda # <<>>
  BY <1>1 DEF DueBy
<1>4. /\ Head(agenda) = agenda[1] /\ 1 \in DOMAIN agenda /\ agenda[1].time \in Nat
      /\ now <= agenda[1].time
  BY <1>0, <1>3, AgendaTail
<1>5. todo' = a \o Tail(todo) /\ now' = agenda[1].time
  BY <1>1, <1>4 DEF Call
<1>6. handlers = PhysicalStep \/ Quiet(handlers)
  BY <1>0, <1>4 DEF Agenda
<1>7. u[1] = "until"
  OBVIOUS
<1> HIDE DEF u, handlers
<1>8. IsList(handlers) /\ Front(handlers) /\ TicksAhead(handlers)
  <2>1. CASE handlers = PhysicalStep
    BY <2>1, PhysicalStepShape, StepOrder
  <2>2. CASE Quiet(handlers)
    <3>1. IsList(handlers) /\ \A i \in DOMAIN handlers : handlers[i][1] \in Data
      BY <2>2 DEF Quiet, Data
    <3> QED
      BY <3>1, CarriedOrder
  <2> QED
    BY <1>6, <2>1, <2>2
<1>9. /\ IsList(a) /\ Front(a) /\ TicksAhead(a)
      /\ \A kind \in Data : \A x : /\ Has(a, kind, x) <=> Has(handlers, kind, x)
                                   /\ \A v : Ends(handlers, kind, x, v) => Ends(a, kind, x, v)
  BY <1>7, <1>8, LoopOrder
<1> HIDE DEF a
<1>10. Front(todo') /\ TicksAhead(todo')
  BY <1>0, <1>2, <1>5, <1>9, OrderKept
<1>11. RecordsDue(agenda', now')
  <2>1. RecordsDue(agenda, agenda[1].time)
    BY <1>0, <1>4, DueLater
  <2>2. \A i \in DOMAIN Tail(agenda) : i + 1 \in DOMAIN agenda /\ Tail(agenda)[i] = agenda[i + 1]
    BY <1>0, <1>3, TailShape
  <2> QED
    BY <1>1, <1>5, <2>1, <2>2 DEF RecordsDue
<1>12. ASSUME ~touched' /\ Absent(todo', "eps")
       PROVE  /\ Looked'
              /\ \A x \in Signal : \/ Coming(todo', x)
                                   \/ Arrives(bus', todo', agenda', latest', x, Report(x)')
  <2>1. ~touched /\ Over' = Over /\ UNCHANGED <<eps, payload, faults>>
    BY <1>1, <1>12
  <2>2. \A i \in DOMAIN todo : i # 1 => Mark(todo[i]) # "eps"
    BY <1>0, <1>2, <1>5, <1>9, <1>12, AbsentBelow
  <2>3. Absent(todo, "eps")
    BY <1>2, <2>2 DEF Absent
  <2>4. Looked /\ Current
    BY <2>1, <2>3 DEF CacheInv
  <2>5. Looked'
    BY <2>1, <2>4, LookedSame
  <2>6. handlers # PhysicalStep
    <3>1. SUFFICES ASSUME handlers = PhysicalStep PROVE FALSE
      OBVIOUS
    <3>2. PICK j \in DOMAIN handlers : Mark(handlers[j]) = "eps"
      BY <3>1, StepOrder
    <3>3. \E k \in DOMAIN todo' : todo'[k] = handlers[j]
      <4>1. \A i \in DOMAIN handlers : \E k \in DOMAIN a : a[k] = handlers[i]
        <5>1. IsList(<<u>>)
          BY SingleShape
        <5>2. \A i \in DOMAIN handlers :
                \E k \in DOMAIN (handlers \o <<u>>) : (handlers \o <<u>>)[k] = handlers[i]
          BY ONLY <1>8, <5>1, ConcatHolds
        <5> QED
          BY <5>2 DEF a
      <4>2. PICK k \in DOMAIN a : a[k] = handlers[j]
        BY <4>1
      <4>3. IsList(Tail(todo))
        BY <1>0, <1>2, TailShape
      <4>4. \E m \in DOMAIN todo' : todo'[m] = a[k]
        BY <1>5, <1>9, <4>3, ConcatHolds
      <4> QED
        BY <4>2, <4>4
    <3> QED
      BY <1>12, <3>2, <3>3 DEF Absent
  <2>7. \A z : ~Has(handlers, "telemetry", z)
    BY <1>6, <2>6 DEF Quiet, Plain, Has
  <2>8. ASSUME NEW x \in Signal
        PROVE  Coming(todo', x) \/ Arrives(bus', todo', agenda', latest', x, Report(x)')
    <3>1. Report(x)' = Report(x)
      BY <2>1, ReportSame
    <3>2. CASE Coming(todo, x)
      BY <1>0, <1>2, <1>5, <1>9, <3>2, ComingKept
    <3>3. CASE Arrives(bus, todo, agenda, latest, x, Report(x))
      <4> DEFINE v == Report(x)
      <4>1. /\ \A kind \in Data : \A z : /\ Has(a, kind, z) <=> Has(agenda[1].handlers, kind, z)
                                         /\ \A w : Ends(agenda[1].handlers, kind, z, w) => Ends(a, kind, z, w)
            /\ \A z : ~Has(agenda[1].handlers, "telemetry", z)
        BY <1>9, <2>7 DEF handlers
      <4>2. Arrives(bus, todo, agenda, latest, x, v)
        BY <3>3
      <4> HIDE DEF v
      <4>3. Arrives(bus, a \o Tail(todo), Tail(agenda), latest, x, v)
        BY <1>0, <1>2, <1>3, <1>9, <4>1, <4>2, DispatchedKept
      <4>4. Arrives(bus', todo', agenda', latest', x, v)
        BY <1>1, <1>5, <4>3
      <4> QED
        BY <3>1, <4>4 DEF v
    <3> QED
      BY <2>4, <3>2, <3>3 DEF Current
  <2> QED
    BY <2>5, <2>8
<1>13. DOMAIN latest' = Signal
  BY <1>0, <1>1
<1> QED
  BY <1>10, <1>11, <1>12, <1>13, CachePrimed

(* A step of the scenario begins with calls that only drive.                *)
LEMMA BeginCache ==
  ASSUME TestbedInv, CacheInv, NEW a, Driving(a), Begin(a),
         RecordsDue(agenda', now'),
         \A x : /\ Waits(agenda', x) <=> Waits(agenda, x)
                /\ \A v : WaitsLast(agenda, x, v) => WaitsLast(agenda', x, v)
  PROVE  CacheInv'
<1>1. /\ todo = <<>> /\ todo' = a
      /\ UNCHANGED <<now, bus, latest, cycle, request, eps, payload, faults, touched>>
  BY DEF Begin, Between, registry, modules, history
<1>2. IsList(a) /\ Front(a) /\ TicksAhead(a) /\ \A kind \in Data : \A x : ~Has(a, kind, x)
  BY DrivingOrder
<1>3. Over' = Over
  BY <1>1, OverSame
<1>4. ASSUME ~touched'
      PROVE  Looked' /\ \A x \in Signal : Arrives(bus', todo', agenda', latest', x, Report(x)')
  <2>1. DOMAIN todo = {}
    BY <1>1
  <2>2. Absent(todo, "eps") /\ \A x : ~Coming(todo, x)
    BY <2>1 DEF Absent, Coming
  <2>3. Looked /\ Current
    BY <1>1, <1>4, <2>2 DEF CacheInv
  <2>4. Looked'
    BY <1>1, <1>3, <2>3, LookedSame
  <2>5. ASSUME NEW x \in Signal
        PROVE  Arrives(bus', todo', agenda', latest', x, Report(x)')
    <3> DEFINE v == Report(x)
    <3>1. Report(x)' = v
      BY <1>1, <1>3, ReportSame
    <3>2. Arrives(bus, todo, agenda, latest, x, v)
      BY <2>2, <2>3 DEF Current
    <3> HIDE DEF v
    <3>3. \A kind : /\ ~Has(todo, kind, x) /\ ~Ends(todo, kind, x, v)
      BY <2>1 DEF Has, Ends
    <3>4. ~Has(a, "telemetry", x) /\ ~Has(a, "record", x)
      BY <1>2 DEF Data, Plain
    <3>5. InTasks(todo, agenda, latest, x, v) => InTasks(todo', agenda', latest', x, v)
      BY <1>1, <3>3, <3>4 DEF InTasks
    <3> QED
      BY <1>1, <3>1, <3>2, <3>5 DEF Arrives
  <2> QED
    BY <2>4, <2>5
<1>5. DOMAIN latest' = Signal
  BY <1>1 DEF CacheInv
<1> QED
  BY <1>1, <1>2, <1>4, <1>5, CachePrimed

(* An injection schedules one handler that records nothing.                 *)
LEMMA InjectCache ==
  ASSUME TestbedInv, CacheInv, NEW x, x[1] # "record", Inject(<<x>>)
  PROVE  CacheInv'
<1>1. Begin(Settle \o Emission) /\ Schedule(<<x>>)
  BY DEF Inject
<1>2. Driving(Settle \o Emission)
  BY SettleDriving, EmissionDriving, DrivingConcat
<1>3. Inserted(agenda, agenda', now, <<x>>)
  BY <1>1 DEF Inserted, Schedule, ScheduleAt
<1>4. \A z : ~Has(<<x>>, "record", z)
  BY SingleShape DEF Has
<1>5. IsList(agenda) /\ RecordsDue(agenda, now)
  BY DEF TestbedInv, ListsInv, Agenda, CacheInv
<1>6. now' = now
  BY <1>1 DEF Begin
<1>7. /\ \A z : /\ Waits(agenda', z) <=> Waits(agenda, z)
                /\ \A v : WaitsLast(agenda, z, v) => WaitsLast(agenda', z, v)
      /\ RecordsDue(agenda', now')
  BY <1>3, <1>4, <1>5, <1>6, UnrecordedInserted
<1> QED
  BY <1>1, <1>2, <1>7, BeginCache

LEMMA ScenarioCache ==
  ASSUME TestbedInv, CacheInv, WaitStep \/ InjectFaultStep \/ SendCommandStep \/ AssertStep
  PROVE  CacheInv'
<1>1. ASSUME NEW a, Driving(a), Begin(a), UNCHANGED agenda
      PROVE  CacheInv'
  <2>1. now' = now
    BY <1>1 DEF Begin
  <2>2. RecordsDue(agenda', now')
    BY <1>1, <2>1 DEF CacheInv
  <2> QED
    BY <1>1, <2>2, BeginCache
<1>2. CASE WaitStep
  <2>1. PICK d \in WaitTime : Begin(Wait(d)) /\ UNCHANGED agenda
    BY <1>2 DEF WaitStep
  <2> QED
    BY <1>1, <2>1, WaitDriving
<1>3. CASE InjectFaultStep
  <2>1. CASE \E o \in Override, span \in Span : Inject(<<<<"override", o, span>>>>)
    <3>1. PICK o \in Override, span \in Span : Inject(<<<<"override", o, span>>>>)
      BY <2>1
    <3> DEFINE x == <<"override", o, span>>
    <3>2. x[1] # "record" /\ Inject(<<x>>)
      BY <3>1
    <3> HIDE DEF x
    <3> QED
      BY <3>2, InjectCache
  <2>2. CASE \E f \in NamedFault, on \in BOOLEAN : Inject(<<<<"named_fault", f, on>>>>)
    <3>1. PICK f \in NamedFault, on \in BOOLEAN : Inject(<<<<"named_fault", f, on>>>>)
      BY <2>2
    <3> DEFINE x == <<"named_fault", f, on>>
    <3>2. x[1] # "record" /\ Inject(<<x>>)
      BY <3>1
    <3> HIDE DEF x
    <3> QED
      BY <3>2, InjectCache
  <2> QED
    BY <1>3, <2>1, <2>2 DEF InjectFaultStep
<1>4. CASE SendCommandStep
  <2>1. PICK c \in Command : Inject(<<<<"send", c>>>>)
    BY <1>4 DEF SendCommandStep
  <2> DEFINE x == <<"send", c>>
  <2>2. x[1] # "record" /\ Inject(<<x>>)
    BY <2>1
  <2> HIDE DEF x
  <2> QED
    BY <2>2, InjectCache
<1>5. CASE AssertStep
  <2>1. PICK x \in Expected, timeout \in Timeout :
          Begin(<<<<"check", x, now + timeout>>>>) /\ UNCHANGED agenda
    BY <1>5 DEF AssertStep
  <2> DEFINE c == <<"check", x, now + timeout>>
  <2>2. c[1] = "check" /\ Begin(<<c>>)
    BY <2>1
  <2> HIDE DEF c
  <2>3. Driving(<<c>>)
    BY <2>2, SingleDriving DEF Data, Plain
  <2> QED
    BY <1>1, <2>1, <2>2, <2>3
<1> QED
  BY <1>2, <1>3, <1>4, <1>5

(* A fresh testbed has ticked nothing: nothing is claimed of its cache.     *)
LEMMA CacheInit ==
  ASSUME Init
  PROVE  CacheInv
<1> DEFINE event == [time |-> Step, handlers |-> PhysicalStep]
<1>1. /\ agenda = <<event>> /\ todo = <<>> /\ touched = TRUE
      /\ latest = [s \in Signal |-> None]
  BY DEF Init
<1>2. event.handlers = PhysicalStep
  OBVIOUS
<1> HIDE DEF event
<1>3. DOMAIN agenda = {1} /\ agenda[1].handlers = PhysicalStep
  BY <1>1, <1>2, SingleShape
<1>4. \A j \in DOMAIN PhysicalStep : PhysicalStep[j][1] # "record"
  <2>1. \A x : ~Has(PhysicalStep, "record", x)
    BY StepOrder DEF Data, Plain
  <2> QED
    BY <2>1 DEF Has
<1>5. RecordsDue(agenda, now)
  BY <1>3, <1>4 DEF RecordsDue
<1>6. Front(todo) /\ TicksAhead(todo)
  <2>1. DOMAIN todo = {}
    BY <1>1
  <2> QED
    BY <2>1 DEF Front, TicksAhead
<1>7. DOMAIN latest = Signal
  BY <1>1
<1> QED
  BY <1>1, <1>5, <1>6, <1>7 DEF CacheInv

LEMMA CacheStep ==
  ASSUME TestbedInv, CacheInv, [Next]_vars
  PROVE  CacheInv'
<1>1. CASE Next
  BY <1>1, DrivingActions, CarryingActions, EndingActions, DrainAction, TelemetryActions,
     TickActions, EmitAction, DispatchCache, ScenarioCache DEF Next, Run
<1>2. CASE UNCHANGED vars
  <2>1. UNCHANGED <<now, agenda, bus, todo, latest, cycle, request, eps, payload, faults, touched>>
    BY <1>2 DEF vars, engine, registry, modules, history
  <2> QED
    BY <2>1, CacheStays
<1> QED
  BY <1>1, <1>2

(* What is on its way to the cache, and that it is what the modules report. *)
THEOREM CacheInvariant == Spec => []CacheInv
<1>1. Init => CacheInv
  BY CacheInit
<1>2. TestbedInv /\ CacheInv /\ [Next]_vars => CacheInv'
  BY CacheStep
<1> QED
  BY <1>1, <1>2, TestbedInvariant, PTL DEF Spec

(* docs/v1-scope.md: between the steps of a scenario the cache shows the    *)
(* modules as they are, unless a command, a fault or the end of an override *)
(* reached them since their last tick.  Everything sent has been drained,   *)
(* delivered and recorded by then, in the order it was sent.                *)
THEOREM CacheShowsModules == Spec => []CacheIsCurrent
<1>1. ASSUME TestbedInv, CacheInv, Between, ~touched, NEW x \in Signal
      PROVE  latest[x] = Report(x)
  <2>1. todo = <<>> /\ bus = <<>> /\ ~DueBy(now) /\ now \in Nat /\ Agenda(agenda, now)
    BY <1>1 DEF Between, TestbedInv, SettledBetweenSteps, Idle, ListsInv
  <2>2. DOMAIN todo = {} /\ DOMAIN bus = {}
    BY <2>1
  <2>3. Absent(todo, "eps") /\ ~Coming(todo, x)
    BY <2>2 DEF Absent, Coming
  <2>4. Arrives(bus, todo, agenda, latest, x, Report(x))
    BY <1>1, <2>3 DEF CacheInv, Current
  <2>5. /\ \A kind, v : ~Has(todo, kind, x) /\ ~Ends(todo, kind, x, v)
        /\ \A kind, v : ~Has(bus, kind, x) /\ ~Ends(bus, kind, x, v)
    BY <2>2 DEF Has, Ends
  <2>6. ~Waits(agenda, x)
    <3>1. \A i \in DOMAIN agenda : agenda[i].time \in Nat /\ now < agenda[i].time
      BY <2>1, NotDue DEF Agenda
    <3>2. \A i \in DOMAIN agenda : ~(agenda[i].time <= now)
      BY <2>1, <3>1
    <3>3. \A i \in DOMAIN agenda : ~Has(agenda[i].handlers, "record", x)
      BY <1>1, <3>2 DEF CacheInv, RecordsDue, Has
    <3> QED
      BY <3>3 DEF Waits
  <2>7. \A v : ~WaitsLast(agenda, x, v)
    BY <2>6, Zenon DEF WaitsLast, Waits, Ends, Has
  <2> QED
    BY <2>4, <2>5, <2>6, <2>7 DEF Arrives, InTasks
<1>2. TestbedInv /\ CacheInv => CacheIsCurrent
  BY <1>1 DEF CacheIsCurrent
<1> QED
  BY <1>2, TestbedInvariant, CacheInvariant, PTL

-----------------------------------------------------------------------------
(* How many rounds a settle takes, and how many seconds a wait.  Telemetry  *)
(* goes through three rounds at most: one drains it, one dispatches its     *)
(* events and drains the commands of the rules, one finds nothing.          *)

(* Events that wait beside the armed physical step.                         *)
Others(g) == IF Armed(g) = {} THEN Len(g) ELSE Len(g) - 1

Calm(b, g) == b = <<>> /\ Others(g) = 0

(* The physical step is ahead, everything else is of this instant.          *)
Apart(g, t) ==
  \A i \in DOMAIN g : IF g[i].handlers = PhysicalStep THEN t < g[i].time ELSE g[i].time <= t

(* The run_until of a round of _run_current_events, and that of a wait.     *)
Inner(s, i) == i \in DOMAIN s /\ i + 1 \in DOMAIN s /\ s[i][1] = "until" /\ s[i + 1][1] = "drain"
Outer(s, i) == i \in DOMAIN s /\ i + 1 \in DOMAIN s /\ s[i][1] = "until" /\ s[i + 1][1] = "reached"

(* From place p on, s emits the telemetry of the j-th node and of those     *)
(* after it, and settles.                                                   *)
Emits(s, p, j) ==
  /\ \A k \in j..Len(TelemetryOrder) :
       p + k - j \in DOMAIN s /\ s[p + k - j] = <<"emit", TelemetryOrder[k]>>
  /\ p + Len(TelemetryOrder) + 1 - j \in DOMAIN s
  /\ s[p + Len(TelemetryOrder) + 1 - j][1] = "settle"

(* What may come directly before a task.                                    *)
Before(kind) ==
  CASE kind \in Data -> Data
    [] kind = "settle" -> {"command", "telemetry", "drain", "settle", "tick", "emit", "reached"}
    [] kind = "until" -> Plain \cup {"arm"}
    [] kind \in {"drain", "reached"} -> {"until"}
    [] kind \in {"cycles", "arm", "check"} -> {"settle"}
    [] kind = "tick" -> {"cycles", "tick"}
    [] kind = "emit" -> {"settle", "tick", "emit"}
    [] OTHER -> {}

(* A task of this name, just before place p of s.                           *)
Joined(name, s, p) ==
  /\ name \in Before(s[p][1])
  /\ s[p][1] = "until" => (name = "arm" <=> Outer(s, p))
  /\ s[p][1] = "settle" /\ name \notin {"command", "telemetry", "drain"} => s[p][2] = maxSettle
  /\ s[p][1] = "emit" /\ name # "emit" => Emits(s, p, 1)

Chained(s) == \A i \in DOMAIN s : i + 1 \in DOMAIN s => Joined(s[i][1], s, i + 1)

(* Nothing waits when one of these calls is next.                           *)
Restful == {"cycles", "tick", "arm", "reached", "check"}

RestCalm(s, b, g) == s # <<>> /\ (s[1][1] \in Restful \/ Outer(s, 1)) => Calm(b, g)

(* The next physical step comes later than x.                               *)
StepAfter(x, g, t) ==
  /\ \A i \in Armed(g) : x < g[i].time
  /\ Armed(g) = {} => x < t + Step

(* A wait for d until u, with n events left of its limit: each event it has *)
(* dispatched was a physical step.                                          *)
Paced(u, n, d, g, t) ==
  /\ u \in Int /\ n \in Int /\ d \in Int /\ n <= maxSettle
  /\ StepAfter(u - d + (maxSettle - n) * Step, g, t)

LoopsPaced(s, g, t) ==
  /\ \A i \in DOMAIN s : Inner(s, i) => s[i][2] = t
  /\ \A i \in DOMAIN s :
       Outer(s, i) => s[i + 1][2] = s[i][2] /\ Paced(s[i][2], s[i][3], s[i + 1][3], g, t)

ReachedPaced(s, t) ==
  s # <<>> /\ s[1][1] = "reached" => t = s[1][2] \/ s[1][3] > maxSettle * Step

(* The first task that carries nothing out.                                 *)
First(s, p) == p \in DOMAIN s /\ s[p][1] \notin Data /\ \A i \in DOMAIN s : i < p => s[i][1] \in Data

Above(s, p, kinds) == \A i \in DOMAIN s : i < p => s[i][1] \in kinds

Commands(b) == \A i \in DOMAIN b : b[i][1] = "command"

(* With k rounds left: all that is left are commands; telemetry is to be    *)
(* delivered, or dispatched; or it lies on the bus.                         *)
SettleCounts(s, p, b, g) ==
  \/ s[p][2] >= 1 /\ Calm(b, g) /\ Above(s, p, {"command"})
  \/ s[p][2] >= 2 /\ b = <<>> /\ p - 1 + Others(g) <= maxSettle /\ Above(s, p, {"command", "telemetry"})
  \/ s[p][2] >= 3 /\ p = 1 /\ Others(g) = 0 /\ Len(b) <= maxSettle

LoopCounts(s, p, b, g) ==
  \/ s[p + 2][2] >= 1 /\ Commands(b) /\ Others(g) <= s[p][3] /\ Above(s, p, Plain)
  \/ s[p + 2][2] >= 2 /\ p = 1 /\ Others(g) = 0 /\ Len(b) <= maxSettle

DrainCounts(s, b, g) ==
  /\ Others(g) = 0
  /\ \/ s[2][2] >= 1 /\ Commands(b)
     \/ s[2][2] >= 2 /\ Len(b) <= maxSettle

EmitCounts(s, b, g) ==
  /\ Others(g) = 0
  /\ \E j \in DOMAIN TelemetryOrder :
       /\ Emits(s, 1, j)
       /\ \E f \in [0..Len(TelemetryOrder) -> 0..maxSettle] : Counts(f) /\ Len(b) <= f[j - 1]

Counted(s, p, b, g) ==
  /\ s[p][1] = "settle" => s[p][2] \in Nat /\ SettleCounts(s, p, b, g)
  /\ Inner(s, p) => s[p][3] \in Nat /\ s[p + 2][2] \in Nat /\ LoopCounts(s, p, b, g)
  /\ s[p][1] = "drain" => s[2][2] \in Nat /\ DrainCounts(s, b, g)
  /\ s[p][1] = "emit" => EmitCounts(s, b, g)

RoundsLeft(s, b, g) ==
  maxSettle >= 3 => \A p \in DOMAIN s : First(s, p) => Counted(s, p, b, g)

Underway(s, b, g, t) ==
  /\ Apart(g, t) /\ Chained(s) /\ RestCalm(s, b, g)
  /\ LoopsPaced(s, g, t) /\ ReachedPaced(s, t) /\ RoundsLeft(s, b, g)

SettleInv == maxSettle \in Limit /\ Underway(todo, bus, agenda, now) /\ FeedbackDies

-----------------------------------------------------------------------------
(* A list that is the end of another one.                                   *)
Below(r, k, s) ==
  /\ IsList(r) /\ IsList(s) /\ k \in Nat
  /\ DOMAIN r = 1..Len(r) /\ Len(r) \in Nat /\ Len(s) = k + Len(r) /\ DOMAIN s = 1..(k + Len(r))
  /\ \A i \in DOMAIN r : s[k + i] = r[i]

(* What follows the head is the end of a list.                              *)
LEMMA TailBelow ==
  ASSUME NEW s, IsList(s), s # <<>>
  PROVE  Below(Tail(s), 1, s)
<1>1. /\ Head(s) = s[1]
      /\ IsList(Tail(s))
      /\ Len(s) \in Nat \ {0}
      /\ DOMAIN s = 1..Len(s)
      /\ Len(Tail(s)) = Len(s) - 1
      /\ DOMAIN Tail(s) = 1..(Len(s) - 1)
      /\ \A i \in DOMAIN Tail(s) : i + 1 \in DOMAIN s /\ Tail(s)[i] = s[i + 1]
  BY TailShape
<1>2. \A i \in DOMAIN Tail(s) : s[1 + i] = Tail(s)[i]
  <2>1. \A i \in DOMAIN Tail(s) : i + 1 = 1 + i
    BY <1>1
  <2> QED
    BY <1>1, <2>1
<1> QED
  BY <1>1, <1>2 DEF Below

(* What a list is put before is the end of the result.                      *)
LEMMA ConcatBelow ==
  ASSUME NEW a, IsList(a), NEW r, IsList(r)
  PROVE  /\ Below(r, Len(a), a \o r)
         /\ DOMAIN a = 1..Len(a) /\ \A i \in DOMAIN a : i \in DOMAIN (a \o r) /\ (a \o r)[i] = a[i]
<1>1. /\ IsList(a \o r)
      /\ Len(a) \in Nat /\ Len(r) \in Nat
      /\ Len(a \o r) = Len(a) + Len(r)
      /\ DOMAIN (a \o r) = 1..(Len(a) + Len(r))
      /\ \A i \in DOMAIN a : (a \o r)[i] = a[i]
      /\ \A i \in DOMAIN (a \o r) : i > Len(a) => i - Len(a) \in DOMAIN r /\ (a \o r)[i] = r[i - Len(a)]
  BY ConcatShape
<1>2. DOMAIN a = 1..Len(a) /\ DOMAIN r = 1..Len(r)
  BY ListShape
<1>3. ASSUME NEW i \in DOMAIN r
      PROVE  (a \o r)[Len(a) + i] = r[i]
  <2>1. Len(a) + i \in DOMAIN (a \o r) /\ Len(a) + i > Len(a) /\ (Len(a) + i) - Len(a) = i
    BY <1>1, <1>2
  <2> QED
    BY <1>1, <2>1
<1>4. \A i \in DOMAIN a : i \in DOMAIN (a \o r)
  BY <1>1, <1>2
<1> QED
  BY <1>1, <1>2, <1>3, <1>4 DEF Below

(* What is said of places in the end of a list.                             *)
LEMMA BelowSame ==
  ASSUME NEW r, NEW k, NEW s, Below(r, k, s), NEW i \in DOMAIN r
  PROVE  /\ k + i \in DOMAIN s /\ s[k + i] = r[i]
         /\ k + i + 1 \in DOMAIN s <=> i + 1 \in DOMAIN r
         /\ i + 1 \in DOMAIN r => s[k + i + 1] = r[i + 1]
         /\ Inner(s, k + i) <=> Inner(r, i)
         /\ Outer(s, k + i) <=> Outer(r, i)
         /\ \A j \in 1..Len(TelemetryOrder) : Emits(s, k + i, j) <=> Emits(r, i, j)
         /\ \A name : Joined(name, s, k + i) <=> Joined(name, r, i)
<1> DEFINE n == Len(TelemetryOrder)
<1>1. /\ k \in Nat /\ Len(r) \in Nat /\ DOMAIN r = 1..Len(r) /\ DOMAIN s = 1..(k + Len(r))
      /\ \A x \in DOMAIN r : s[k + x] = r[x]
  BY DEF Below
<1>2. ASSUME NEW x \in Nat, x >= i
      PROVE  /\ k + x \in DOMAIN s <=> x \in DOMAIN r
             /\ x \in DOMAIN r => s[k + x] = r[x]
  BY <1>1, <1>2
<1>3. /\ i \in Nat /\ i + 1 \in Nat /\ k + i + 1 = k + (i + 1) /\ i + 1 >= i
      /\ n \in Nat
  <2>1. n \in Nat
    BY TestbedAssumption, ListShape
  <2>2. i \in Nat
    BY <1>1
  <2> QED
    BY <1>1, <2>1, <2>2
<1>4. /\ k + i \in DOMAIN s /\ s[k + i] = r[i]
      /\ k + i + 1 \in DOMAIN s <=> i + 1 \in DOMAIN r
      /\ i + 1 \in DOMAIN r => s[k + i + 1] = r[i + 1]
  BY <1>1, <1>2, <1>3
<1>5. Inner(s, k + i) <=> Inner(r, i)
  BY <1>4, Zenon DEF Inner
<1>6. Outer(s, k + i) <=> Outer(r, i)
  BY <1>4, Zenon DEF Outer
<1>7. ASSUME NEW j \in 1..n
      PROVE  Emits(s, k + i, j) <=> Emits(r, i, j)
  <2>1. \A m \in j..n : /\ i + m - j \in Nat /\ i + m - j >= i
                        /\ (k + i) + m - j = k + (i + m - j)
    BY <1>1, <1>3
  <2>2. /\ i + n + 1 - j \in Nat /\ i + n + 1 - j >= i
        /\ (k + i) + n + 1 - j = k + (i + n + 1 - j)
    BY <1>1, <1>3
  <2>3. \A m \in j..n : /\ (k + i) + m - j \in DOMAIN s <=> i + m - j \in DOMAIN r
                        /\ i + m - j \in DOMAIN r => s[(k + i) + m - j] = r[i + m - j]
    BY <1>2, <2>1
  <2>4. /\ (k + i) + n + 1 - j \in DOMAIN s <=> i + n + 1 - j \in DOMAIN r
        /\ i + n + 1 - j \in DOMAIN r => s[(k + i) + n + 1 - j] = r[i + n + 1 - j]
    BY <1>2, <2>2
  <2> QED
    BY <2>3, <2>4, ZenonT(40) DEF Emits
<1>8. ASSUME NEW name
      PROVE  Joined(name, s, k + i) <=> Joined(name, r, i)
  <2>1. r[i][1] = "emit" => (Emits(s, k + i, 1) <=> Emits(r, i, 1))
    <3>1. CASE n = 0
      <4>1. 1..n = {}
        BY <3>1
      <4>2. (k + i) + n + 1 - 1 = k + i /\ i + n + 1 - 1 = i
        BY <1>1, <1>3, <3>1
      <4> QED
        BY <1>4, <4>1, <4>2 DEF Emits
    <3>2. CASE n # 0
      <4>1. 1 \in 1..n
        BY <1>3, <3>2
      <4> QED
        BY <1>7, <4>1
    <3> QED
      BY <3>1, <3>2
  <2> QED
    BY <1>4, <1>6, <2>1, Zenon DEF Joined
<1> QED
  BY <1>4, <1>5, <1>6, <1>7, <1>8

-----------------------------------------------------------------------------
(* What is left of calls that fit together fits together.                   *)
LEMMA ChainedTail ==
  ASSUME NEW s, IsList(s), s # <<>>, Chained(s)
  PROVE  /\ Chained(Tail(s))
         /\ 1 \in DOMAIN Tail(s) => Joined(s[1][1], Tail(s), 1)
<1> DEFINE r == Tail(s)
<1>1. Below(r, 1, s)
  BY TailBelow
<1>2. DOMAIN r = 1..Len(r) /\ Len(r) \in Nat /\ DOMAIN s = 1..(1 + Len(r))
  BY <1>1 DEF Below
<1> HIDE DEF r
<1>3. ASSUME NEW i \in DOMAIN r, i + 1 \in DOMAIN r
      PROVE  Joined(r[i][1], r, i + 1)
  <2>1. s[1 + i] = r[i] /\ 1 + i \in DOMAIN s
    BY <1>1, BelowSame
  <2>2. \A name : Joined(name, s, 1 + (i + 1)) <=> Joined(name, r, i + 1)
    BY <1>1, <1>3, BelowSame
  <2>3. (1 + i) + 1 = 1 + (i + 1) /\ (1 + i) + 1 \in DOMAIN s
    BY <1>2, <1>3
  <2>4. Joined(s[1 + i][1], s, (1 + i) + 1)
    BY <2>1, <2>3 DEF Chained
  <2> QED
    BY <2>1, <2>2, <2>3, <2>4
<1>4. ASSUME 1 \in DOMAIN r
      PROVE  Joined(s[1][1], r, 1)
  <2>1. 1 \in DOMAIN s /\ 1 + 1 \in DOMAIN s
    BY <1>2, <1>4
  <2>2. Joined(s[1][1], s, 1 + 1)
    BY <2>1 DEF Chained
  <2>3. \A name : Joined(name, s, 1 + 1) <=> Joined(name, r, 1)
    BY <1>1, <1>4, BelowSame
  <2> QED
    BY <2>2, <2>3
<1> QED
  BY <1>3, <1>4 DEF r, Chained

(* What stands above keeps its neighbours, unless it ends in a run_until.   *)
LEMMA AboveSame ==
  ASSUME NEW a, IsList(a), NEW r, IsList(r), a # <<>>, a[Len(a)][1] # "until",
         NEW i \in DOMAIN a
  PROVE  /\ Inner(a \o r, i) <=> Inner(a, i)
         /\ Outer(a \o r, i) <=> Outer(a, i)
         /\ \A j : Emits(a, i, j) => Emits(a \o r, i, j)
         /\ \A name : Joined(name, a, i) => Joined(name, a \o r, i)
<1>1. /\ DOMAIN a = 1..Len(a) /\ Len(a) \in Nat
      /\ \A x \in DOMAIN a : x \in DOMAIN (a \o r) /\ (a \o r)[x] = a[x]
  BY ConcatBelow, ListShape
<1> DEFINE s == a \o r
<1> HIDE DEF s
<1>2. a[i][1] = "until" => i + 1 \in DOMAIN a
  BY <1>1
<1>3. \A x \in DOMAIN a : x \in DOMAIN s /\ s[x] = a[x]
  BY <1>1 DEF s
<1>4. (Inner(s, i) <=> Inner(a, i)) /\ (Outer(s, i) <=> Outer(a, i))
  BY <1>2, <1>3, Zenon DEF Inner, Outer
<1>5. \A j : Emits(a, i, j) => Emits(s, i, j)
  BY <1>3, Zenon DEF Emits
<1>6. \A name : Joined(name, a, i) => Joined(name, s, i)
  BY <1>3, <1>4, <1>5, Zenon DEF Joined
<1> QED
  BY <1>4, <1>5, <1>6 DEF s

(* Calls put together fit together if they meet.                            *)
LEMMA ChainedConcat ==
  ASSUME NEW a, IsList(a), NEW r, IsList(r), a # <<>>, a[Len(a)][1] # "until",
         Chained(a), Chained(r), 1 \in DOMAIN r => Joined(a[Len(a)][1], r, 1)
  PROVE  Chained(a \o r)
<1>1. Below(r, Len(a), a \o r) /\ DOMAIN a = 1..Len(a) /\ Len(a) \in Nat
  BY ConcatBelow, ListShape
<1>2. \A x \in DOMAIN a : (a \o r)[x] = a[x]
  BY ConcatBelow
<1> DEFINE s == a \o r
           k == Len(a)
<1>3. \A i \in DOMAIN a : \A name : Joined(name, a, i) => Joined(name, s, i)
  BY AboveSame
<1>4. DOMAIN r = 1..Len(r) /\ Len(r) \in Nat /\ DOMAIN s = 1..(k + Len(r)) /\ k \in Nat
  BY <1>1 DEF Below
<1>5. k \in DOMAIN a
  BY <1>1, ListShape
<1> HIDE DEF s
<1>6. ASSUME NEW i \in DOMAIN s, i + 1 \in DOMAIN s
      PROVE  Joined(s[i][1], s, i + 1)
  <2>1. CASE i < k
    <3>1. i \in DOMAIN a /\ i + 1 \in DOMAIN a
      BY <1>1, <1>4, <2>1
    <3>2. Joined(a[i][1], a, i + 1) /\ s[i] = a[i]
      BY <1>2, <3>1 DEF Chained, s
    <3> QED
      BY <1>3, <3>1, <3>2
  <2>2. CASE i = k
    <3>1. 1 \in DOMAIN r /\ s[i] = a[k]
      BY <1>2, <1>4, <1>5, <1>6, <2>2 DEF s
    <3>2. Joined(a[k][1], r, 1)
      BY <3>1
    <3> QED
      BY <1>1, <2>2, <3>1, <3>2, BelowSame DEF s
  <2>3. CASE i > k
    <3> DEFINE x == i - k
    <3>1. x \in DOMAIN r /\ x + 1 \in DOMAIN r /\ k + x = i /\ k + (x + 1) = i + 1
      BY <1>4, <1>6, <2>3
    <3> HIDE DEF x
    <3>2. Joined(r[x][1], r, x + 1)
      BY <3>1 DEF Chained
    <3>3. s[k + x] = r[x]
      BY <1>1, <3>1 DEF Below, s
    <3>4. Joined(r[x][1], s, k + (x + 1))
      BY <1>1, <3>1, <3>2, BelowSame DEF s
    <3> QED
      BY <3>1, <3>3, <3>4
  <2> QED
    BY <1>4, <2>1, <2>2, <2>3
<1> QED
  BY <1>6 DEF Chained, s

(* The same of the pace of their waits.                                     *)
LEMMA PacedTail ==
  ASSUME NEW s, IsList(s), s # <<>>, NEW g, NEW t, LoopsPaced(s, g, t)
  PROVE  LoopsPaced(Tail(s), g, t)
<1> DEFINE r == Tail(s)
<1>1. Below(r, 1, s)
  BY TailBelow
<1> HIDE DEF r
<1>2. ASSUME NEW i \in DOMAIN r
      PROVE  /\ 1 + i \in DOMAIN s /\ s[1 + i] = r[i]
             /\ i + 1 \in DOMAIN r => s[1 + i + 1] = r[i + 1]
             /\ Inner(s, 1 + i) <=> Inner(r, i)
             /\ Outer(s, 1 + i) <=> Outer(r, i)
  BY <1>1, BelowSame
<1>3. \A i \in DOMAIN r : Outer(r, i) => i + 1 \in DOMAIN r
  BY DEF Outer
<1>4. ASSUME NEW i \in DOMAIN r, Inner(r, i)
      PROVE  r[i][2] = t
  <2>1. 1 + i \in DOMAIN s /\ Inner(s, 1 + i) /\ s[1 + i] = r[i]
    BY <1>2, <1>4
  <2> QED
    BY <2>1 DEF LoopsPaced
<1>5. ASSUME NEW i \in DOMAIN r, Outer(r, i)
      PROVE  r[i + 1][2] = r[i][2] /\ Paced(r[i][2], r[i][3], r[i + 1][3], g, t)
  <2>1. 1 + i \in DOMAIN s /\ Outer(s, 1 + i) /\ s[1 + i] = r[i] /\ s[1 + i + 1] = r[i + 1]
    BY <1>2, <1>3, <1>5
  <2>2. s[1 + i + 1][2] = s[1 + i][2] /\ Paced(s[1 + i][2], s[1 + i][3], s[1 + i + 1][3], g, t)
    BY <2>1 DEF LoopsPaced
  <2> QED
    BY <2>1, <2>2
<1> QED
  BY <1>4, <1>5 DEF LoopsPaced, r

(* ... of calls put together.                                               *)
LEMMA PacedConcat ==
  ASSUME NEW a, IsList(a), NEW r, IsList(r), a # <<>>, a[Len(a)][1] # "until",
         NEW g, NEW t, LoopsPaced(a, g, t), LoopsPaced(r, g, t)
  PROVE  LoopsPaced(a \o r, g, t)
<1> DEFINE s == a \o r
           k == Len(a)
<1>1. Below(r, k, s) /\ DOMAIN a = 1..k /\ k \in Nat
  BY ConcatBelow, ListShape
<1>2. ASSUME NEW i \in DOMAIN a
      PROVE  /\ s[i] = a[i]
             /\ Inner(s, i) <=> Inner(a, i)
             /\ Outer(s, i) <=> Outer(a, i)
             /\ i + 1 \in DOMAIN a => s[i + 1] = a[i + 1]
  BY ConcatBelow, AboveSame
<1>3. ASSUME NEW i \in DOMAIN s
      PROVE  i \in DOMAIN a \/ \E x \in DOMAIN r : i = k + x
  <2>1. CASE i > k
    <3>1. i - k \in DOMAIN r /\ i = k + (i - k)
      BY <1>1, <2>1 DEF Below
    <3> QED
      BY <3>1
  <2> QED
    BY <1>1, <2>1 DEF Below
<1> HIDE DEF s, k
<1>4. ASSUME NEW i \in DOMAIN r
      PROVE  /\ s[k + i] = r[i]
             /\ i + 1 \in DOMAIN r => s[k + i + 1] = r[i + 1]
             /\ Inner(s, k + i) <=> Inner(r, i)
             /\ Outer(s, k + i) <=> Outer(r, i)
  BY <1>1, BelowSame
<1>5. ASSUME NEW i \in DOMAIN s
      PROVE  /\ Inner(s, i) => s[i][2] = t
             /\ Outer(s, i) => s[i + 1][2] = s[i][2] /\ Paced(s[i][2], s[i][3], s[i + 1][3], g, t)
  <2>1. CASE i \in DOMAIN a
    <3>1. Outer(a, i) => i + 1 \in DOMAIN a
      BY DEF Outer
    <3> QED
      BY <1>2, <2>1, <3>1 DEF LoopsPaced
  <2>2. ASSUME NEW x \in DOMAIN r, i = k + x
        PROVE  /\ Inner(s, i) => s[i][2] = t
               /\ Outer(s, i) => s[i + 1][2] = s[i][2] /\ Paced(s[i][2], s[i][3], s[i + 1][3], g, t)
    <3>1. Outer(r, x) => x + 1 \in DOMAIN r
      BY DEF Outer
    <3>2. /\ s[i] = r[x] /\ (x + 1 \in DOMAIN r => s[i + 1] = r[x + 1])
          /\ Inner(s, i) <=> Inner(r, x)
          /\ Outer(s, i) <=> Outer(r, x)
      BY <1>4, <2>2
    <3> QED
      BY <3>1, <3>2 DEF LoopsPaced
  <2> QED
    BY <1>3, <2>1, <2>2
<1> QED
  BY <1>5 DEF LoopsPaced, s

-----------------------------------------------------------------------------
(* The agenda has at most one physical step.                                *)
ArmedOnce(g) == Armed(g) = {} \/ \E u : ArmedAt(g, u)

(* What TestbedInv says of the lists, for the lemmas below.                 *)
LEMMA ArmedFacts ==
  ASSUME TestbedInv
  PROVE  /\ IsList(agenda) /\ ArmedOnce(agenda) /\ Agenda(agenda, now) /\ now \in Nat
         /\ IsList(todo) /\ IsList(bus) /\ Bus(bus) /\ maxSettle \in Nat /\ Step \in Nat \ {0}
BY TestbedAssumption
   DEF TestbedInv, ListsInv, StepInv, Resting, InStep, Counting, Ticking, Arming, ArmedOnce, Agenda, Bus

(* No others, no event but the armed step.                                  *)
LEMMA OthersKinds ==
  ASSUME NEW g, IsList(g), ArmedOnce(g)
  PROVE  /\ Others(g) \in Nat
         /\ Others(g) = 0 <=> \A i \in DOMAIN g : g[i].handlers = PhysicalStep
<1>1. DOMAIN g = 1..Len(g) /\ Len(g) \in Nat
  BY ListShape
<1>2. CASE Armed(g) = {}
  <2>1. Others(g) = Len(g) /\ \A i \in DOMAIN g : g[i].handlers # PhysicalStep
    BY <1>2 DEF Others, Armed
  <2>2. Len(g) = 0 <=> DOMAIN g = {}
    BY <1>1
  <2>3. DOMAIN g = {} <=> \A i \in DOMAIN g : g[i].handlers = PhysicalStep
    BY <2>1, Zenon
  <2> QED
    BY <1>1, <2>1, <2>2, <2>3
<1>3. CASE \E u : ArmedAt(g, u)
  <2>1. PICK n \in DOMAIN g : Armed(g) = {n}
    BY <1>3 DEF ArmedAt
  <2>2. \A i \in DOMAIN g : g[i].handlers = PhysicalStep <=> i = n
    BY <2>1 DEF Armed
  <2>3. Others(g) = Len(g) - 1
    BY <2>1 DEF Others
  <2>4. Len(g) = 1 <=> \A i \in DOMAIN g : i = n
    <3>1. CASE Len(g) = 1
      BY <1>1, <2>1, <3>1
    <3>2. CASE Len(g) > 1
      <4>1. 1 \in DOMAIN g /\ 2 \in DOMAIN g
        BY <1>1, <3>2
      <4> QED
        BY <3>2, <4>1
    <3> QED
      BY <1>1, <2>1, <3>1, <3>2
  <2> QED
    BY <1>1, <2>1, <2>2, <2>3, <2>4
<1> QED
  BY <1>2, <1>3 DEF ArmedOnce

(* Nothing due is nothing but the armed step.                               *)
LEMMA CalmDue ==
  ASSUME NEW g, NEW t \in Nat, Agenda(g, t), ArmedOnce(g), Apart(g, t)
  PROVE  Others(g) = 0 <=> \A i \in DOMAIN g : t < g[i].time
<1>1. IsList(g) /\ \A i \in DOMAIN g : g[i].time \in Nat
  BY DEF Agenda
<1>2. \A i \in DOMAIN g : g[i].handlers = PhysicalStep <=> t < g[i].time
  BY <1>1 DEF Apart
<1> QED
  BY <1>1, <1>2, OthersKinds

(* One event more, and one less.                                            *)
LEMMA OthersInserted ==
  ASSUME NEW g, IsList(g), ArmedOnce(g), NEW t, NEW handlers, NEW h, Inserted(g, h, t, handlers)
  PROVE  /\ Quiet(handlers) => Others(h) = Others(g) + 1
         /\ handlers = PhysicalStep /\ Armed(g) = {} => Others(h) = Others(g)
<1>1. /\ Len(g) \in Nat /\ IsList(h) /\ DOMAIN h = 1..(Len(g) + 1)
  BY InsertedShape
<1>2. Len(h) = Len(g) + 1
  BY <1>1, ListShape
<1>3. \A u : ArmedAt(h, u) => Armed(h) # {}
  BY DEF ArmedAt
<1>4. \A u : ArmedAt(g, u) => Armed(g) # {}
  BY DEF ArmedAt
<1>5. /\ Quiet(handlers) /\ Armed(g) = {} => Armed(h) = {}
      /\ \A u : Quiet(handlers) /\ ArmedAt(g, u) => ArmedAt(h, u)
      /\ handlers = PhysicalStep /\ Armed(g) = {} => ArmedAt(h, t)
  BY ArmedInserted
<1>6. Quiet(handlers) => (Armed(h) = {} <=> Armed(g) = {})
  BY <1>3, <1>4, <1>5 DEF ArmedOnce
<1>7. handlers = PhysicalStep /\ Armed(g) = {} => Armed(h) # {}
  BY <1>3, <1>5
<1> QED
  BY <1>1, <1>2, <1>6, <1>7 DEF Others

(* Taking the head away takes one other event, unless it is the step.       *)
LEMMA OthersTail ==
  ASSUME NEW g, IsList(g), g # <<>>, ArmedOnce(g)
  PROVE  /\ g[1].handlers = PhysicalStep => Others(Tail(g)) = Others(g) /\ Armed(Tail(g)) = {}
         /\ g[1].handlers # PhysicalStep => Others(Tail(g)) = Others(g) - 1
<1>1. Len(g) \in Nat /\ Len(Tail(g)) = Len(g) - 1 /\ 1 \in DOMAIN g
  BY TailShape
<1>2. /\ Armed(g) = {} => g[1].handlers # PhysicalStep /\ Armed(Tail(g)) = {}
      /\ \A t : ArmedAt(g, t) /\ g[1].handlers # PhysicalStep => ArmedAt(Tail(g), t)
      /\ \A t : ArmedAt(g, t) /\ g[1].handlers = PhysicalStep => Armed(Tail(g)) = {} /\ g[1].time = t
  BY ArmedTail
<1>3. \A u : ArmedAt(g, u) => Armed(g) # {}
  BY DEF ArmedAt
<1>4. \A u : ArmedAt(Tail(g), u) => Armed(Tail(g)) # {}
  BY DEF ArmedAt
<1>5. g[1].handlers # PhysicalStep => (Armed(Tail(g)) = {} <=> Armed(g) = {})
  BY <1>2, <1>3, <1>4 DEF ArmedOnce
<1>6. g[1].handlers = PhysicalStep => Armed(Tail(g)) = {} /\ Armed(g) # {}
  BY <1>2, <1>3 DEF ArmedOnce
<1> QED
  BY <1>1, <1>5, <1>6 DEF Others

(* The step stays ahead when events are added or taken, or time moves to    *)
(* where none is due.                                                       *)
LEMMA ApartInserted ==
  ASSUME NEW g, IsList(g), NEW t \in Nat, Apart(g, t), NEW u \in Nat, NEW handlers,
         NEW h, Inserted(g, h, u, handlers),
         \/ Quiet(handlers) /\ u = t
         \/ handlers = PhysicalStep /\ t < u
  PROVE  Apart(h, t)
<1>1. PICK k \in 0..Len(g) :
        /\ Len(g) \in Nat /\ DOMAIN g = 1..Len(g)
        /\ IsList(h) /\ DOMAIN h = 1..(Len(g) + 1)
        /\ h[k + 1].time = u /\ h[k + 1].handlers = handlers
        /\ \A i \in DOMAIN h : i <= k => i \in DOMAIN g /\ h[i] = g[i]
        /\ \A i \in DOMAIN h : i > k + 1 => i - 1 \in DOMAIN g /\ h[i] = g[i - 1]
  BY InsertedShape
<1>2. Quiet(handlers) => handlers # PhysicalStep
  BY StepIsNotQuiet
<1>3. ASSUME NEW i \in DOMAIN h
      PROVE  i = k + 1 \/ \E j \in DOMAIN g : h[i] = g[j]
  <2>1. i = k + 1 \/ i <= k \/ i > k + 1
    BY <1>1
  <2> QED
    BY <1>1, <2>1
<1>4. ASSUME NEW i \in DOMAIN h
      PROVE  IF h[i].handlers = PhysicalStep THEN t < h[i].time ELSE h[i].time <= t
  <2>1. CASE i = k + 1
    BY <1>1, <1>2, <2>1
  <2>2. CASE \E j \in DOMAIN g : h[i] = g[j]
    BY <2>2 DEF Apart
  <2> QED
    BY <1>3, <1>4, <2>1, <2>2
<1> QED
  BY <1>4 DEF Apart

(* What is dispatched before the step is of this instant, and what stays is *)
(* apart from the event dispatched.                                         *)
LEMMA ApartTail ==
  ASSUME NEW t \in Nat, NEW g, Agenda(g, t), g # <<>>, ArmedOnce(g), Apart(g, t)
  PROVE  /\ g[1].handlers # PhysicalStep => g[1].time = t
         /\ Apart(Tail(g), g[1].time)
<1>1. IsList(g) /\ 1 \in DOMAIN g /\ \A i \in DOMAIN g : g[i].time \in Nat /\ t <= g[i].time
  BY AgendaTail DEF Agenda
<1>2. \A i \in DOMAIN Tail(g) : i + 1 \in DOMAIN g /\ Tail(g)[i] = g[i + 1]
  BY <1>1, TailShape
<1>3. g[1].handlers # PhysicalStep => g[1].time = t
  BY <1>1 DEF Apart
<1>4. CASE g[1].handlers # PhysicalStep
  BY <1>2, <1>3, <1>4 DEF Apart
<1>5. CASE g[1].handlers = PhysicalStep
  <2>1. Armed(Tail(g)) = {}
    BY <1>1, <1>5, OthersTail
  <2>2. \A i \in DOMAIN Tail(g) : Tail(g)[i].handlers # PhysicalStep
    BY <2>1 DEF Armed
  <2>3. \A i \in DOMAIN Tail(g) : Tail(g)[i].time \in Nat /\ Tail(g)[i].time <= t
    BY <1>1, <1>2, <2>2 DEF Apart
  <2> QED
    BY <1>1, <1>3, <2>2, <2>3 DEF Apart
<1> QED
  BY <1>3, <1>4, <1>5

(* A jump to before the step keeps it ahead.                                *)
LEMMA ApartLater ==
  ASSUME NEW t \in Nat, NEW g, Agenda(g, t), Apart(g, t), NEW u \in Nat, t <= u,
         \A i \in DOMAIN g : u < g[i].time
  PROVE  Apart(g, u)
<1>1. \A i \in DOMAIN g : g[i].time \in Nat
  BY DEF Agenda
<1> QED
  BY <1>1 DEF Apart

-----------------------------------------------------------------------------
(* The limit is set once, so all this may be said of the next state with    *)
(* the limit of this one.                                                   *)
LEMMA SettlePrimed ==
  ASSUME maxSettle' = maxSettle, maxSettle \in Limit, Underway(todo', bus', agenda', now'),
         failed' = None
  PROVE  SettleInv'
<1>1. PhysicalStep' = PhysicalStep
  BY DEF PhysicalStep, Settle, Emission, Ticks
<1>2. Armed(agenda)' = Armed(agenda')
  BY <1>1 DEF Armed
<1>3. Others(agenda)' = Others(agenda')
  BY <1>2 DEF Others
<1>4. Apart(agenda, now)' <=> Apart(agenda', now')
  BY <1>1 DEF Apart
<1>5. Chained(todo)' <=> Chained(todo')
  BY DEF Chained, Joined, Emits, Outer
<1>6. RestCalm(todo, bus, agenda)' <=> RestCalm(todo', bus', agenda')
  BY <1>3 DEF RestCalm, Calm, Outer
<1>7. LoopsPaced(todo, agenda, now)' <=> LoopsPaced(todo', agenda', now')
  BY <1>2 DEF LoopsPaced, Paced, StepAfter, Inner, Outer
<1>8. ReachedPaced(todo, now)' <=> ReachedPaced(todo', now')
  BY DEF ReachedPaced
<1>9. RoundsLeft(todo, bus, agenda)' <=> RoundsLeft(todo', bus', agenda')
  <2>1. \A p : SettleCounts(todo, p, bus, agenda)' <=> SettleCounts(todo', p, bus', agenda')
    BY <1>3 DEF SettleCounts, Calm, Above
  <2>2. \A p : LoopCounts(todo, p, bus, agenda)' <=> LoopCounts(todo', p, bus', agenda')
    BY <1>3 DEF LoopCounts, Commands, Above
  <2>3. DrainCounts(todo, bus, agenda)' <=> DrainCounts(todo', bus', agenda')
    BY <1>3 DEF DrainCounts, Commands
  <2>4. EmitCounts(todo, bus, agenda)' <=> EmitCounts(todo', bus', agenda')
    BY <1>3 DEF EmitCounts, Emits, Counts
  <2>5. \A p : Counted(todo, p, bus, agenda)' <=> Counted(todo', p, bus', agenda')
    BY <2>1, <2>2, <2>3, <2>4 DEF Counted, Inner
  <2> QED
    BY <2>5 DEF RoundsLeft, First
<1>10. FeedbackDies'
  BY TestbedAssumption DEF FeedbackDies
<1> QED
  BY <1>4, <1>5, <1>6, <1>7, <1>8, <1>9, <1>10 DEF SettleInv, Underway

(* What comes after a call that carries nothing out carries nothing out.    *)
LEMMA NextFirst ==
  ASSUME NEW s, IsList(s), s # <<>>, Chained(s), s[1][1] \notin Data
  PROVE  /\ 1 \in DOMAIN Tail(s) => Tail(s)[1][1] \notin Data
         /\ \A p : First(Tail(s), p) => p = 1
<1>1. 1 \in DOMAIN Tail(s) => s[1][1] \in Before(Tail(s)[1][1])
  BY ChainedTail DEF Joined
<1>2. 1 \in DOMAIN Tail(s) => Tail(s)[1][1] \notin Data
  <2>1. \A kind \in Data : Before(kind) = Data
    BY DEF Before, Data, Plain
  <2> QED
    BY <1>1, <2>1
<1>3. IsList(Tail(s))
  BY TailShape
<1>4. DOMAIN Tail(s) = 1..Len(Tail(s)) /\ Len(Tail(s)) \in Nat
  BY <1>3, ListShape
<1>5. ASSUME NEW p, First(Tail(s), p), p # 1
      PROVE  FALSE
  <2>1. p \in DOMAIN Tail(s) /\ 1 \in DOMAIN Tail(s) /\ 1 < p
    BY <1>4, <1>5 DEF First
  <2> QED
    BY <1>2, <1>5, <2>1 DEF First
<1> QED
  BY <1>2, <1>5

(* With nothing waiting, whatever comes next has its rounds.                *)
LEMMA CalmPop ==
  ASSUME ReportsFit, maxSettle \in Limit, maxSettle \in Nat,
         NEW s, IsList(s), s # <<>>, Chained(s),
         s[1][1] \in {"cycles", "tick", "arm", "reached", "settle"},
         NEW b, NEW g, NEW t, Calm(b, g), Apart(g, t), LoopsPaced(s, g, t)
  PROVE  Underway(Tail(s), b, g, t)
<1> DEFINE r == Tail(s)
<1>1. /\ Chained(r) /\ LoopsPaced(r, g, t) /\ \A p : First(r, p) => p = 1
      /\ 1 \in DOMAIN r => Joined(s[1][1], r, 1)
  <2>1. s[1][1] \notin Data
    BY DEF Data, Plain
  <2> QED
    BY <2>1, ChainedTail, PacedTail, NextFirst
<1>2. IsList(r)
  BY TailShape
<1>3. DOMAIN r = 1..Len(r) /\ Len(r) \in Nat /\ (r # <<>> => 1 \in DOMAIN r)
  BY <1>2, ListShape
<1> HIDE DEF r
<1>4. 1 \in DOMAIN r => s[1][1] \in Before(r[1][1])
  BY <1>1 DEF Joined
<1>5. RestCalm(r, b, g)
  BY DEF RestCalm
<1>6. ReachedPaced(r, t)
  <2>1. ASSUME r # <<>>, r[1][1] = "reached"
        PROVE  FALSE
    <3>1. s[1][1] \in Before("reached")
      BY <1>3, <1>4, <2>1
    <3> QED
      BY <3>1 DEF Before, Data, Plain
  <2> QED
    BY <2>1 DEF ReachedPaced
<1>7. ASSUME maxSettle >= 3, First(r, 1)
      PROVE  Counted(r, 1, b, g)
  <2>1. 1 \in DOMAIN r
    BY <1>7 DEF First
  <2>2. Joined(s[1][1], r, 1)
    BY <1>1, <2>1
  <2>3. ASSUME r[1][1] = "settle"
        PROVE  r[1][2] \in Nat /\ SettleCounts(r, 1, b, g)
    <3>1. r[1][2] = maxSettle
      BY <2>2, <2>3 DEF Joined
    <3>2. r[1][2] >= 1
      BY <1>7, <3>1
    <3>3. Above(r, 1, {"command"})
      BY <1>3 DEF Above
    <3> QED
      BY <3>1, <3>2, <3>3 DEF SettleCounts
  <2>4. ~Inner(r, 1)
    <3>1. ASSUME r[1][1] = "until"
          PROVE  Outer(r, 1)
      <4>1. s[1][1] \in Before("until")
        BY <1>4, <2>1, <3>1
      <4>2. s[1][1] = "arm"
        BY <4>1 DEF Before, Data, Plain
      <4> QED
        BY <2>2, <3>1, <4>2 DEF Joined
    <3> QED
      BY <3>1 DEF Inner, Outer
  <2>5. r[1][1] # "drain"
    <3>1. ASSUME r[1][1] = "drain"
          PROVE  FALSE
      <4>1. s[1][1] \in Before("drain")
        BY <1>4, <2>1, <3>1
      <4> QED
        BY <4>1 DEF Before, Data, Plain
    <3> QED
      BY <3>1
  <2>6. ASSUME r[1][1] = "emit"
        PROVE  EmitCounts(r, b, g)
    <3>1. Emits(r, 1, 1)
      BY <2>2, <2>6 DEF Joined
    <3>2. Len(TelemetryOrder) \in Nat /\ DOMAIN TelemetryOrder = 1..Len(TelemetryOrder)
      BY TestbedAssumption, ListShape
    <3>3. Len(TelemetryOrder) # 0
      <4>1. ASSUME Len(TelemetryOrder) = 0
            PROVE  FALSE
        <5>1. 1 + 0 + 1 - 1 = 1
          OBVIOUS
        <5> QED
          BY <2>6, <3>1, <4>1, <5>1 DEF Emits
      <4> QED
        BY <4>1
    <3>4. 1 \in DOMAIN TelemetryOrder
      BY <3>2, <3>3
    <3>5. PICK f \in [0..Len(TelemetryOrder) -> 0..maxSettle] : Counts(f)
      BY <1>7 DEF ReportsFit
    <3>6. Len(b) <= f[1 - 1]
      BY <3>5 DEF Counts, Calm
    <3> QED
      BY <3>1, <3>4, <3>5, <3>6 DEF EmitCounts, Calm
  <2> QED
    BY <2>3, <2>4, <2>5, <2>6 DEF Counted
<1>8. RoundsLeft(r, b, g)
  BY <1>1, <1>7 DEF RoundsLeft
<1> QED
  BY <1>1, <1>5, <1>6, <1>8 DEF Underway, r

-----------------------------------------------------------------------------
(* What stands below tasks that carry something out is a settle or the loop *)
(* of one.                                                                  *)
LEMMA BelowData ==
  ASSUME NEW s, IsList(s), Chained(s), NEW i \in DOMAIN s, i + 1 \in DOMAIN s, s[i][1] \in Data
  PROVE  /\ s[i + 1][1] \in Data \cup {"settle", "until"}
         /\ ~Outer(s, i + 1)
<1>1. Joined(s[i][1], s, i + 1)
  BY DEF Chained
<1>2. s[i][1] \in Before(s[i + 1][1]) /\ s[i][1] # "arm"
  BY <1>1 DEF Joined, Data, Plain
<1>3. \A name \in Data : \A kind : name \in Before(kind) => kind \in Data \cup {"settle", "until"}
  BY DEF Before, Data, Plain
<1>4. ~Outer(s, i + 1)
  BY <1>1, <1>2 DEF Joined, Outer
<1> QED
  BY <1>2, <1>3, <1>4

(* A task that carries something out makes no call: what it leaves behind   *)
(* is counted.                                                              *)
LEMMA DataPop ==
  ASSUME maxSettle \in Nat, NEW s, IsList(s), s # <<>>, Chained(s), Bottom(s), s[1][1] \in Data,
         NEW b, NEW g, RoundsLeft(s, b, g), Others(g) \in Nat, NEW c, NEW h,
         \/ c = b /\ Others(h) = Others(g)
         \/ s[1][1] = "telemetry" /\ c = b /\ Others(h) = Others(g) + 1
         \/ s[1][1] \in Plain /\ Others(h) = Others(g) /\ (Commands(b) => Commands(c)),
         NEW t, Apart(h, t), LoopsPaced(s, h, t)
  PROVE  Underway(Tail(s), c, h, t)
<1> DEFINE r == Tail(s)
<1>1. Chained(r) /\ LoopsPaced(r, h, t)
  BY ChainedTail, PacedTail
<1>2. Below(r, 1, s)
  BY TailBelow
<1> HIDE DEF r
<1>3. /\ DOMAIN r = 1..Len(r) /\ Len(r) \in Nat /\ DOMAIN s = 1..(1 + Len(r)) /\ IsList(r)
      /\ Len(s) = 1 + Len(r)
      /\ (r # <<>> => 1 \in DOMAIN r)
      /\ \A i \in DOMAIN r : s[1 + i] = r[i]
  BY <1>2, ListShape DEF Below
<1>4. ASSUME r # <<>>
      PROVE  r[1][1] \in Data \cup {"settle", "until"} /\ ~Outer(r, 1)
  <2>1. 1 \in DOMAIN s /\ 1 + 1 \in DOMAIN s /\ 1 \in DOMAIN r /\ s[1 + 1] = r[1]
    BY <1>3, <1>4
  <2>2. s[1 + 1][1] \in Data \cup {"settle", "until"} /\ ~Outer(s, 1 + 1)
    BY <2>1, BelowData
  <2>3. Outer(s, 1 + 1) <=> Outer(r, 1)
    BY <1>2, <2>1, BelowSame
  <2> QED
    BY <2>1, <2>2, <2>3
<1>5. RestCalm(r, c, h) /\ ReachedPaced(r, t)
  BY <1>4 DEF RestCalm, ReachedPaced, Restful, Data, Plain
<1>6. ASSUME maxSettle >= 3, NEW p, First(r, p)
      PROVE  Counted(r, p, c, h)
  <2>1. p \in DOMAIN r /\ p \in Nat /\ p >= 1 /\ r[p][1] \notin Data /\ s[1 + p] = r[p]
    BY <1>3, <1>6 DEF First
  <2> DEFINE q == 1 + p
  <2>2. q \in DOMAIN s /\ q \in Nat /\ 1 < q /\ p - 1 = q - 2 /\ p = q - 1 /\ 1 \in DOMAIN s
    BY <1>3, <2>1
  <2>3. ASSUME NEW i \in DOMAIN s, i < q, i # 1
        PROVE  i - 1 \in DOMAIN r /\ i - 1 < p /\ s[i] = r[i - 1]
    <3>1. i - 1 \in DOMAIN r /\ i - 1 < p /\ 1 + (i - 1) = i
      BY <1>3, <2>1, <2>3
    <3> QED
      BY <1>3, <3>1
  <2>4. First(s, q)
    <3>1. \A i \in DOMAIN s : i < q => s[i][1] \in Data
      BY <1>6, <2>3 DEF First
    <3> QED
      BY <2>1, <2>2, <3>1 DEF First
  <2>5. Counted(s, q, b, g)
    BY <1>6, <2>2, <2>4 DEF RoundsLeft
  <2>6. r[p][1] \in {"settle", "until"}
    <3>1. q - 1 \in DOMAIN s /\ q - 1 < q /\ (q - 1) + 1 = q
      BY <1>3, <2>1
    <3>2. s[q - 1][1] \in Data
      BY <2>4, <3>1 DEF First
    <3>3. s[q][1] \in Data \cup {"settle", "until"}
      BY <2>2, <3>1, <3>2, BelowData
    <3> QED
      BY <2>1, <3>3
  <2>7. \A kinds : Above(s, q, kinds) => s[1][1] \in kinds /\ Above(r, p, kinds)
    <3>1. ASSUME NEW kinds, Above(s, q, kinds), NEW i \in DOMAIN r, i < p
          PROVE  r[i][1] \in kinds
      <4>1. 1 + i \in DOMAIN s /\ 1 + i < q /\ s[1 + i] = r[i]
        BY <1>3, <2>1, <3>1
      <4> QED
        BY <3>1, <4>1 DEF Above
    <3>2. ASSUME NEW kinds, Above(s, q, kinds)
          PROVE  s[1][1] \in kinds
      BY <2>2, <3>2 DEF Above
    <3> QED
      BY <3>1, <3>2 DEF Above
  <2>8. ASSUME r[p][1] = "settle"
        PROVE  r[p][2] \in Nat /\ SettleCounts(r, p, c, h)
    <3>1. s[q][2] = r[p][2] /\ r[p][2] \in Nat /\ SettleCounts(s, q, b, g)
      BY <2>1, <2>5, <2>8 DEF Counted
    <3>2. CASE s[q][2] >= 1 /\ Calm(b, g) /\ Above(s, q, {"command"})
      <4>1. s[1][1] = "command" /\ Above(r, p, {"command"})
        BY <2>7, <3>2
      <4>2. c = b /\ Others(h) = Others(g)
        BY <4>1 DEF Plain
      <4> QED
        BY <3>1, <3>2, <4>1, <4>2 DEF SettleCounts, Calm
    <3>3. CASE /\ s[q][2] >= 2 /\ b = <<>> /\ q - 1 + Others(g) <= maxSettle
               /\ Above(s, q, {"command", "telemetry"})
      <4>1. s[1][1] \in {"command", "telemetry"} /\ Above(r, p, {"command", "telemetry"})
        BY <2>7, <3>3
      <4>2. c = b /\ (Others(h) = Others(g) \/ Others(h) = Others(g) + 1)
        BY <4>1 DEF Plain
      <4>3. p - 1 + Others(h) <= maxSettle
        BY <2>1, <2>2, <3>3, <4>2
      <4> QED
        BY <3>1, <3>3, <4>1, <4>2, <4>3 DEF SettleCounts
    <3>4. q # 1
      BY <2>2
    <3> QED
      BY <3>1, <3>2, <3>3, <3>4 DEF SettleCounts
  <2>9. ASSUME Inner(r, p)
        PROVE  r[p][3] \in Nat /\ r[p + 2][2] \in Nat /\ LoopCounts(r, p, c, h)
    <3>1. Inner(s, q)
      BY <1>2, <2>1, <2>9, BelowSame
    <3>2. s[q][3] \in Nat /\ s[q + 2][2] \in Nat /\ LoopCounts(s, q, b, g)
      BY <2>5, <3>1 DEF Counted
    <3>3. p + 1 \in DOMAIN r /\ r[p + 1][1] = "drain"
      BY <2>9 DEF Inner
    <3>4. s[1 + (p + 1)][1] = "drain"
      BY <1>3, <3>3
    <3>5. 1 + (p + 1) # Len(s)
      BY <3>4 DEF Bottom
    <3>6. p + 2 \in DOMAIN r /\ q + 2 = 1 + (p + 2)
      BY <1>3, <2>1, <3>3, <3>5
    <3>7. s[q + 2] = r[p + 2]
      BY <1>3, <3>6
    <3>8. q # 1
      BY <2>2
    <3>9. s[q + 2][2] >= 1 /\ Commands(b) /\ Others(g) <= s[q][3] /\ Above(s, q, Plain)
      BY <3>2, <3>8 DEF LoopCounts
    <3>10. s[1][1] \in Plain /\ Above(r, p, Plain)
      BY <2>7, <3>9
    <3>11. Others(h) = Others(g) /\ Commands(c)
      BY <3>9, <3>10 DEF Plain
    <3> QED
      BY <2>1, <3>2, <3>7, <3>9, <3>10, <3>11 DEF LoopCounts
  <2> QED
    BY <2>6, <2>8, <2>9 DEF Counted
<1>7. RoundsLeft(r, c, h)
  BY <1>6 DEF RoundsLeft
<1> QED
  BY <1>1, <1>5, <1>7 DEF Underway, r

-----------------------------------------------------------------------------
(* Nothing put before a list leaves it.                                     *)
LEMMA NothingBefore ==
  ASSUME NEW s, IsList(s)
  PROVE  <<>> \o s = s
<1> DEFINE S == {s[i] : i \in DOMAIN s}
<1>1. s \in Seq(S)
  BY DEF IsList
<1> HIDE DEF S
<1> QED
  BY <1>1

(* A call that returns.                                                     *)
LEMMA PopDone ==
  ASSUME TestbedInv, SettleInv, todo # <<>>, failed = None, Call(<<>>),
         Underway(Tail(todo), bus', agenda', now')
  PROVE  SettleInv'
<1>1. IsList(Tail(todo))
  BY ArmedFacts, TailShape
<1>2. todo' = Tail(todo) /\ maxSettle' = maxSettle /\ failed' = None
  BY <1>1, NothingBefore DEF Call
<1> QED
  BY <1>2, SettlePrimed DEF SettleInv

(* A quiet event more or less leaves the next physical step where it is.    *)
LEMMA PacedKept ==
  ASSUME maxSettle \in Nat, Step \in Nat, NEW s, NEW g, NEW t, LoopsPaced(s, g, t), NEW h,
         \A x \in Int : StepAfter(x, g, t) => StepAfter(x, h, t)
  PROVE  LoopsPaced(s, h, t)
<1>1. ASSUME NEW u, NEW n, NEW d, Paced(u, n, d, g, t)
      PROVE  Paced(u, n, d, h, t)
  <2>1. u \in Int /\ n \in Int /\ d \in Int
    BY <1>1 DEF Paced
  <2>2. u - d + (maxSettle - n) * Step \in Int
    BY <2>1
  <2> QED
    BY <1>1, <2>2 DEF Paced
<1> QED
  BY <1>1 DEF LoopsPaced

(* The next step comes no earlier if the armed event stays where it is.     *)
LEMMA AfterKept ==
  ASSUME NEW g, ArmedOnce(g), NEW h,
         Armed(g) = {} => Armed(h) = {}, \A u : ArmedAt(g, u) => ArmedAt(h, u)
  PROVE  \A x, t : StepAfter(x, g, t) => StepAfter(x, h, t)
<1>1. CASE Armed(g) = {}
  BY <1>1 DEF StepAfter
<1>2. ASSUME NEW u, ArmedAt(g, u)
      PROVE  \A x, t : StepAfter(x, g, t) => StepAfter(x, h, t)
  <2>1. PICK i \in DOMAIN g : Armed(g) = {i} /\ g[i].time = u
    BY <1>2 DEF ArmedAt
  <2>2. PICK j \in DOMAIN h : Armed(h) = {j} /\ h[j].time = u
    BY <1>2 DEF ArmedAt
  <2> QED
    BY <2>1, <2>2 DEF StepAfter
<1> QED
  BY <1>1, <1>2 DEF ArmedOnce

(* What SettleInv says of the call that is next.                            *)
LEMMA UnderwayFacts ==
  ASSUME SettleInv
  PROVE  /\ Apart(agenda, now) /\ Chained(todo) /\ RestCalm(todo, bus, agenda)
         /\ LoopsPaced(todo, agenda, now) /\ ReachedPaced(todo, now) /\ RoundsLeft(todo, bus, agenda)
         /\ maxSettle \in Limit
BY DEF SettleInv, Underway

(* A quiet event at this instant is one event more.                         *)
LEMMA QuietCounted ==
  ASSUME TestbedInv, SettleInv, NEW handlers, Quiet(handlers), Schedule(handlers)
  PROVE  /\ Others(agenda') = Others(agenda) + 1 /\ Apart(agenda', now)
         /\ \A s : LoopsPaced(s, agenda, now) => LoopsPaced(s, agenda', now)
<1>1. /\ IsList(agenda) /\ ArmedOnce(agenda) /\ now \in Nat /\ maxSettle \in Nat /\ Step \in Nat
      /\ Apart(agenda, now)
  BY ArmedFacts, UnderwayFacts
<1>2. Inserted(agenda, agenda', now, handlers)
  BY DEF Inserted, Schedule, ScheduleAt
<1>3. Others(agenda') = Others(agenda) + 1
  BY <1>1, <1>2, OthersInserted
<1>4. Apart(agenda', now)
  BY <1>1, <1>2, ApartInserted
<1>5. /\ Armed(agenda) = {} => Armed(agenda') = {}
      /\ \A u : ArmedAt(agenda, u) => ArmedAt(agenda', u)
  BY <1>1, <1>2, ArmedInserted
<1>6. \A x, t : StepAfter(x, agenda, t) => StepAfter(x, agenda', t)
  BY <1>1, <1>5, AfterKept
<1>7. ASSUME NEW s, LoopsPaced(s, agenda, now)
      PROVE  LoopsPaced(s, agenda', now)
  BY <1>1, <1>6, <1>7, PacedKept
<1> QED
  BY <1>3, <1>4, <1>7

(* The handlers of a telemetry event call nothing of the physical step.     *)
LEMMA OnTelemetryQuiet ==
  ASSUME NEW y, NEW w
  PROVE  Quiet(OnTelemetry(y, w))
<1> DEFINE handlers == OnTelemetry(y, w)
           rules == [i \in DOMAIN Rules |-> <<"rule", Rules[i], y, w>>]
           record == <<"record", y, w>>
<1>1. handlers = rules \o <<record>>
  BY DEF OnTelemetry
<1>2. record[1] = "record" /\ \A i \in DOMAIN rules : rules[i][1] = "rule"
  OBVIOUS
<1>3. rules = [i \in 1..Len(Rules) |-> rules[i]] /\ Len(Rules) \in Nat
  BY TestbedAssumption, ListShape
<1> HIDE DEF handlers, rules, record
<1>4. IsList(rules) /\ IsList(<<record>>) /\ DOMAIN <<record>> = {1} /\ <<record>>[1] = record
  BY <1>3, ListBuilt, SingleShape
<1>5. IsList(rules) /\ IsList(<<record>>)
  BY <1>4
<1>6. /\ IsList(rules \o <<record>>) /\ Len(rules) \in Nat
      /\ DOMAIN (rules \o <<record>>) = 1..(Len(rules) + Len(<<record>>))
      /\ \A i \in DOMAIN (rules \o <<record>>) :
           i <= Len(rules) => i \in DOMAIN rules /\ (rules \o <<record>>)[i] = rules[i]
      /\ \A i \in DOMAIN (rules \o <<record>>) :
           i > Len(rules) => i - Len(rules) \in DOMAIN <<record>>
                             /\ (rules \o <<record>>)[i] = <<record>>[i - Len(rules)]
      /\ Len(<<record>>) \in Nat
  BY <1>5, ConcatShape
<1>7. \A i \in DOMAIN handlers : (\E k \in DOMAIN rules : handlers[i] = rules[k]) \/ handlers[i] = record
  BY <1>1, <1>4, <1>6
<1> QED
  BY <1>1, <1>2, <1>6, <1>7 DEF Quiet, Plain, handlers

-----------------------------------------------------------------------------
(* The tasks that carry something out.                                      *)
LEMMA DataActions ==
  ASSUME TestbedInv, SettleInv,
         \/ DeliverCommand \/ DeliverTelemetry \/ ObcRule \/ RecordTelemetry
         \/ SendCommandFrame \/ ApplyOverride \/ ApplyNamedFault
  PROVE  SettleInv'
<1>0. /\ IsList(todo) /\ IsList(bus) /\ IsList(agenda) /\ ArmedOnce(agenda) /\ maxSettle \in Nat
      /\ Apart(agenda, now) /\ Chained(todo) /\ LoopsPaced(todo, agenda, now)
      /\ RoundsLeft(todo, bus, agenda) /\ Bottom(todo) /\ Others(agenda) \in Nat
  BY ArmedFacts, UnderwayFacts, OthersKinds DEF TestbedInv, CallsInv
<1>1. ASSUME NEW name, name \in Data, Doing(name), Call(<<>>), now' = now,
             Apart(agenda', now), LoopsPaced(todo, agenda', now),
             \/ bus' = bus /\ Others(agenda') = Others(agenda)
             \/ name = "telemetry" /\ bus' = bus /\ Others(agenda') = Others(agenda) + 1
             \/ name \in Plain /\ Others(agenda') = Others(agenda) /\ (Commands(bus) => Commands(bus'))
      PROVE  SettleInv'
  <2>1. todo # <<>> /\ failed = None /\ todo[1][1] = name
    BY <1>1, DoingFacts
  <2>2. Underway(Tail(todo), bus', agenda', now')
    BY <1>0, <1>1, <2>1, DataPop
  <2> QED
    BY <1>1, <2>1, <2>2, PopDone
<1>2. ASSUME NEW name, name \in Data, Doing(name), Call(<<>>), UNCHANGED <<now, agenda, bus>>
      PROVE  SettleInv'
  BY <1>0, <1>1, <1>2
<1>3. ASSUME NEW name, name \in Plain, Doing(name), Call(<<>>), UNCHANGED <<now, agenda>>,
             NEW c, bus' = Append(bus, <<"command", c>>)
      PROVE  SettleInv'
  <2> DEFINE x == <<"command", c>>
  <2>1. x[1] = "command"
    OBVIOUS
  <2> HIDE DEF x
  <2>2. bus \in Seq({bus[i] : i \in DOMAIN bus} \cup {x})
    BY <1>0 DEF IsList
  <2>3. \A i \in DOMAIN Append(bus, x) : Append(bus, x)[i] = x \/ \E j \in DOMAIN bus : Append(bus, x)[i] = bus[j]
    BY <2>2
  <2>4. Commands(bus) => Commands(bus')
    BY <1>3, <2>1, <2>3 DEF Commands, x
  <2> QED
    BY <1>0, <1>1, <1>3, <2>4 DEF Data
<1>4. CASE DeliverCommand
  BY <1>2, <1>4 DEF DeliverCommand, engine, Data
<1>5. CASE RecordTelemetry
  BY <1>2, <1>5 DEF RecordTelemetry, engine, Data, Plain
<1>6. CASE ApplyOverride
  BY <1>2, <1>6 DEF ApplyOverride, engine, Data, Plain
<1>7. CASE ApplyNamedFault
  BY <1>2, <1>7 DEF ApplyNamedFault, engine, Data, Plain
<1>8. CASE SendCommandFrame
  BY <1>3, <1>8 DEF SendCommandFrame, engine, Plain
<1>9. CASE ObcRule
  <2>1. Doing("rule") /\ Call(<<>>) /\ UNCHANGED <<now, agenda>>
    BY <1>9 DEF ObcRule, engine
  <2>2. bus' = Append(bus, <<"command", Arg.command>>) \/ bus' = bus
    BY <1>9 DEF ObcRule
  <2> QED
    BY <1>2, <1>3, <2>1, <2>2 DEF Data, Plain
<1>10. CASE DeliverTelemetry
  <2>1. /\ Doing("telemetry") /\ Call(<<>>) /\ Schedule(OnTelemetry(Arg, Head(todo)[3]))
        /\ UNCHANGED <<now, bus>>
    BY <1>10 DEF DeliverTelemetry
  <2>2. Quiet(OnTelemetry(Arg, Head(todo)[3]))
    BY OnTelemetryQuiet
  <2>3. /\ Others(agenda') = Others(agenda) + 1 /\ Apart(agenda', now)
        /\ \A s : LoopsPaced(s, agenda, now) => LoopsPaced(s, agenda', now)
    BY <2>1, <2>2, QuietCounted
  <2> QED
    BY <1>0, <1>1, <2>1, <2>3 DEF Data
<1> QED
  BY <1>4, <1>5, <1>6, <1>7, <1>8, <1>9, <1>10

-----------------------------------------------------------------------------
(* The limit and the calls in progress are what they were: an error is      *)
(* raised, or nothing happens.                                              *)
LEMMA SettleStays ==
  ASSUME SettleInv, UNCHANGED <<maxSettle, todo, bus, agenda, now>>, FeedbackDies'
  PROVE  SettleInv'
<1>1. PhysicalStep' = PhysicalStep
  BY DEF PhysicalStep, Settle, Emission, Ticks
<1> USE DEF SettleInv
<1>2. Armed(agenda)' = Armed(agenda)
  BY <1>1 DEF Armed
<1>3. Others(agenda)' = Others(agenda)
  BY <1>2 DEF Others
<1>4. Apart(agenda, now)' <=> Apart(agenda, now)
  BY <1>1 DEF Apart
<1>5. Chained(todo)' <=> Chained(todo)
  BY DEF Chained, Joined, Emits, Outer
<1>6. RestCalm(todo, bus, agenda)' <=> RestCalm(todo, bus, agenda)
  BY <1>3 DEF RestCalm, Calm, Outer
<1>7. LoopsPaced(todo, agenda, now)' <=> LoopsPaced(todo, agenda, now)
  BY <1>2 DEF LoopsPaced, Paced, StepAfter, Inner, Outer
<1>8. ReachedPaced(todo, now)' <=> ReachedPaced(todo, now)
  BY DEF ReachedPaced
<1>9. RoundsLeft(todo, bus, agenda)' <=> RoundsLeft(todo, bus, agenda)
  <2>1. \A p : SettleCounts(todo, p, bus, agenda)' <=> SettleCounts(todo, p, bus, agenda)
    BY <1>3 DEF SettleCounts, Calm, Above
  <2>2. \A p : LoopCounts(todo, p, bus, agenda)' <=> LoopCounts(todo, p, bus, agenda)
    BY <1>3 DEF LoopCounts, Commands, Above
  <2>3. DrainCounts(todo, bus, agenda)' <=> DrainCounts(todo, bus, agenda)
    BY <1>3 DEF DrainCounts, Commands
  <2>4. EmitCounts(todo, bus, agenda)' <=> EmitCounts(todo, bus, agenda)
    BY <1>3 DEF EmitCounts, Emits, Counts
  <2>5. \A p : Counted(todo, p, bus, agenda)' <=> Counted(todo, p, bus, agenda)
    BY <2>1, <2>2, <2>3, <2>4 DEF Counted, Inner
  <2> QED
    BY <2>5 DEF RoundsLeft, First
<1> QED
  BY <1>4, <1>5, <1>6, <1>7, <1>8, <1>9 DEF Underway

(* The parts of a physical step, and the end of a wait.                     *)
LEMMA CalmActions ==
  ASSUME ReportsFit, TestbedInv, SettleInv,
         AdvanceCycles \/ TickModule \/ ArmPhysicalStep \/ Reached
  PROVE  SettleInv'
<1>0. /\ IsList(todo) /\ IsList(bus) /\ IsList(agenda) /\ ArmedOnce(agenda) /\ maxSettle \in Nat
      /\ Apart(agenda, now) /\ Chained(todo) /\ LoopsPaced(todo, agenda, now)
      /\ RestCalm(todo, bus, agenda) /\ maxSettle \in Limit /\ now \in Nat /\ Step \in Nat \ {0}
  BY ArmedFacts, UnderwayFacts
<1>1. ASSUME NEW name, name \in {"cycles", "tick", "arm", "reached"}, Doing(name)
      PROVE  todo # <<>> /\ failed = None /\ todo[1][1] = name /\ Calm(bus, agenda)
  BY <1>0, <1>1, DoingFacts DEF RestCalm, Restful
<1>2. ASSUME NEW name, name \in {"cycles", "tick", "arm", "reached"}, Doing(name), Call(<<>>),
             UNCHANGED <<now, bus>>, Calm(bus, agenda'), Apart(agenda', now),
             LoopsPaced(todo, agenda', now)
      PROVE  SettleInv'
  <2>1. todo # <<>> /\ failed = None /\ todo[1][1] = name
    BY <1>1, <1>2
  <2>2. Underway(Tail(todo), bus, agenda', now)
    BY <1>0, <1>2, <2>1, CalmPop
  <2>3. Underway(Tail(todo), bus', agenda', now')
    BY <1>2, <2>2
  <2> QED
    BY <1>2, <2>1, <2>3, PopDone
<1>3. ASSUME NEW name, name \in {"cycles", "tick", "reached"}, Doing(name), Call(<<>>),
             UNCHANGED <<now, bus, agenda>>
      PROVE  SettleInv'
  <2>1. Calm(bus, agenda)
    BY <1>1, <1>3
  <2>2. Calm(bus, agenda') /\ Apart(agenda', now) /\ LoopsPaced(todo, agenda', now)
    BY <1>0, <1>3, <2>1
  <2> QED
    BY <1>2, <1>3, <2>2
<1>4. CASE AdvanceCycles
  BY <1>3, <1>4 DEF AdvanceCycles, engine
<1>5. CASE TickModule
  BY <1>3, <1>5 DEF TickModule, engine
<1>6. CASE Reached
  <2>1. Doing("reached") /\ UNCHANGED <<now, bus, agenda>> /\ (IF now < Arg THEN Raise("wait") ELSE Call(<<>>))
    BY <1>6 DEF Reached, engine
  <2>2. CASE ~(now < Arg)
    BY <1>3, <2>1, <2>2
  <2>3. CASE now < Arg
    <3>1. failed' = "wait" /\ UNCHANGED <<todo, maxSettle>>
      BY <2>1, <2>3 DEF Raise
    <3>2. todo # <<>> /\ todo[1][1] = "reached" /\ Arg = todo[1][2] /\ Head(todo) = todo[1]
      BY <2>1, DoingFacts
    <3>3. now = todo[1][2] \/ todo[1][3] > maxSettle * Step
      BY <3>2, UnderwayFacts DEF ReachedPaced
    <3>4. now # todo[1][2]
      BY <1>0, <2>3, <3>2
    <3>5. FeedbackDies'
      BY <3>1, <3>2, <3>3, <3>4 DEF FeedbackDies
    <3> QED
      BY <2>1, <3>1, <3>5, SettleStays
  <2> QED
    BY <2>2, <2>3
<1>7. CASE ArmPhysicalStep
  <2> DEFINE u == now + Step
  <2>1. Doing("arm") /\ Call(<<>>) /\ UNCHANGED <<now, bus>> /\ ScheduleAt(u, PhysicalStep)
    BY <1>7 DEF ArmPhysicalStep, NextStepAt
  <2>2. todo # <<>> /\ todo[1][1] = "arm" /\ Calm(bus, agenda)
    BY <1>1, <2>1
  <2>3. 1 \in DOMAIN todo /\ Mark(todo[1]) = "arm"
    BY <2>2, HeadFacts DEF Mark
  <2>4. Armed(agenda) = {}
    BY <2>3 DEF TestbedInv, StepInv, Resting, Absent, Marks, InStep, Counting, Ticking, Arming
  <2>5. Inserted(agenda, agenda', u, PhysicalStep)
    BY <2>1 DEF Inserted, ScheduleAt
  <2>6. u \in Nat /\ now < u
    BY <1>0
  <2> HIDE DEF u
  <2>7. Others(agenda') = Others(agenda) /\ ArmedAt(agenda', u)
    BY <1>0, <2>4, <2>5, OthersInserted, ArmedInserted
  <2>8. Calm(bus, agenda')
    BY <2>2, <2>7 DEF Calm
  <2>9. Apart(agenda', now)
    BY <1>0, <2>5, <2>6, ApartInserted
  <2>10. \A x \in Int : StepAfter(x, agenda, now) => StepAfter(x, agenda', now)
    BY <2>4, <2>7 DEF StepAfter, ArmedAt, u
  <2>11. LoopsPaced(todo, agenda', now)
    BY <1>0, <2>10, PacedKept
  <2> QED
    BY <1>2, <2>1, <2>8, <2>9, <2>11
<1> QED
  BY <1>4, <1>5, <1>6, <1>7

-----------------------------------------------------------------------------
(* Calls put before others.                                                 *)
LEMMA PushUnderway ==
  ASSUME NEW a, IsList(a), a # <<>>, a[Len(a)][1] # "until", Chained(a),
         a[1][1] # "reached",
         NEW r, IsList(r), Chained(r), 1 \in DOMAIN r => Joined(a[Len(a)][1], r, 1),
         NEW b, NEW g, NEW t, Apart(g, t), LoopsPaced(a, g, t), LoopsPaced(r, g, t),
         RestCalm(a, b, g), RoundsLeft(a \o r, b, g)
  PROVE  Underway(a \o r, b, g, t)
<1>1. Chained(a \o r)
  BY ChainedConcat
<1>2. LoopsPaced(a \o r, g, t)
  BY PacedConcat
<1>3. 1 \in DOMAIN a
  BY ListShape
<1>4. (a \o r)[1] = a[1] /\ (Outer(a \o r, 1) <=> Outer(a, 1))
  BY <1>3, ConcatBelow, AboveSame
<1>5. RestCalm(a \o r, b, g) /\ ReachedPaced(a \o r, t)
  BY <1>4 DEF RestCalm, ReachedPaced
<1> QED
  BY <1>1, <1>2, <1>5 DEF Underway

(* A round of _run_current_events.                                          *)
LEMMA RoundShape ==
  ASSUME now \in Nat, NEW k
  PROVE  LET a == <<<<"until", now, maxSettle>>, <<"drain">>, <<"settle", k>>>>
         IN  /\ IsList(a) /\ a # <<>> /\ Len(a) = 3 /\ Chained(a)
             /\ a[1] = <<"until", now, maxSettle>> /\ a[2] = <<"drain">> /\ a[3] = <<"settle", k>>
             /\ Inner(a, 1) /\ ~Outer(a, 1)
             /\ \A g : LoopsPaced(a, g, now)
<1> DEFINE u == <<"until", now, maxSettle>>
           drain == <<"drain">>
           again == <<"settle", k>>
           a == <<u, drain, again>>
<1>1. u[1] = "until" /\ u[2] = now /\ drain[1] = "drain" /\ again[1] = "settle"
  OBVIOUS
<1> HIDE DEF u, drain, again
<1>2. /\ a = [i \in 1..3 |-> a[i]] /\ DOMAIN a = 1..3 /\ Len(a) = 3
      /\ a[1] = u /\ a[2] = drain /\ a[3] = again /\ a # <<>>
  OBVIOUS
<1> HIDE DEF a
<1>3. IsList(a)
  BY <1>2, ListBuilt
<1>4. \A i \in DOMAIN a : i = 1 \/ i = 2 \/ i = 3
  BY <1>2
<1>5. /\ 1 \in DOMAIN a /\ 1 + 1 \in DOMAIN a /\ 1 + 1 = 2 /\ 2 + 1 = 3 /\ 3 + 1 \notin DOMAIN a
  BY <1>2
<1>6. Inner(a, 1) /\ \A i \in DOMAIN a : (Inner(a, i) => i = 1) /\ ~Outer(a, i)
  BY <1>1, <1>2, <1>4, <1>5 DEF Inner, Outer
<1>7. Joined(a[1][1], a, 1 + 1) /\ Joined(a[2][1], a, 2 + 1)
  <2>1. "until" \in Before("drain") /\ "drain" \in Before("settle")
    BY DEF Before, Data, Plain
  <2> QED
    BY <1>1, <1>2, <2>1 DEF Joined
<1>8. Chained(a)
  BY <1>4, <1>5, <1>7 DEF Chained
<1>9. \A g : LoopsPaced(a, g, now)
  BY <1>1, <1>2, <1>6 DEF LoopsPaced
<1> QED
  BY <1>2, <1>3, <1>5, <1>6, <1>8, <1>9 DEF a, u, drain, again

(* Calm is what _run_current_events looks for.                              *)
LEMMA CalmIdle ==
  ASSUME TestbedInv, SettleInv
  PROVE  Calm(bus, agenda) <=> Idle
<1>0. IsList(agenda) /\ ArmedOnce(agenda) /\ Agenda(agenda, now) /\ Apart(agenda, now) /\ now \in Nat
  BY ArmedFacts, UnderwayFacts
<1>1. Others(agenda) = 0 <=> \A i \in DOMAIN agenda : now < agenda[i].time
  BY <1>0, CalmDue
<1>2. ~DueBy(now) => \A i \in DOMAIN agenda : now < agenda[i].time
  BY <1>0, NotDue
<1>3. ASSUME DueBy(now)
      PROVE  ~(\A i \in DOMAIN agenda : now < agenda[i].time)
  <2>1. agenda # <<>> /\ Head(agenda).time <= now
    BY <1>3 DEF DueBy
  <2>2. Head(agenda) = agenda[1] /\ 1 \in DOMAIN agenda /\ agenda[1].time \in Nat
    BY <1>0, <2>1, AgendaTail
  <2>3. ~(now < agenda[1].time)
    BY <1>0, <2>1, <2>2
  <2> QED
    BY <2>2, <2>3
<1> QED
  BY <1>1, <1>2, <1>3 DEF Calm, Idle

(* _run_current_events.                                                     *)
LEMMA SettleActions ==
  ASSUME ReportsFit, TestbedInv, SettleInv, SettleRound \/ SettleGivesUp
  PROVE  SettleInv'
<1>0. /\ IsList(todo) /\ IsList(bus) /\ IsList(agenda) /\ ArmedOnce(agenda) /\ maxSettle \in Nat
      /\ Agenda(agenda, now)
      /\ Apart(agenda, now) /\ Chained(todo) /\ LoopsPaced(todo, agenda, now)
      /\ RoundsLeft(todo, bus, agenda) /\ maxSettle \in Limit /\ now \in Nat
  BY ArmedFacts, UnderwayFacts
<1>1. /\ Doing("settle") /\ UNCHANGED <<now, agenda, bus>>
      /\ todo # <<>> /\ failed = None /\ todo[1][1] = "settle" /\ Arg = todo[1][2]
  BY DoingFacts DEF SettleRound, SettleGivesUp, engine
<1>2. 1 \in DOMAIN todo
  BY <1>1, HeadFacts
<1>3. maxSettle >= 3 => todo[1][2] \in Nat /\ SettleCounts(todo, 1, bus, agenda)
  <2>1. First(todo, 1)
    <3>1. \A i \in DOMAIN todo : ~(i < 1)
      BY <1>0, ListShape
    <3> QED
      BY <1>1, <1>2, <3>1 DEF First, Data, Plain
  <2> QED
    BY <1>0, <1>1, <1>2, <2>1 DEF RoundsLeft, Counted
<1>4. Calm(bus, agenda) <=> Idle
  BY CalmIdle
<1>5. CASE SettleGivesUp
  <2>1. failed' = "settle" /\ UNCHANGED <<todo, maxSettle>> /\ todo[1][2] = 0
    BY <1>1, <1>5 DEF SettleGivesUp, Raise
  <2>2. ~(maxSettle >= 3)
    BY <1>3, <2>1 DEF SettleCounts
  <2>3. FeedbackDies'
    BY <1>0, <2>1, <2>2 DEF FeedbackDies
  <2> QED
    BY <1>1, <2>1, <2>3, SettleStays
<1>6. CASE SettleRound /\ Idle
  <2>1. Call(<<>>)
    BY <1>6 DEF SettleRound
  <2>2. Underway(Tail(todo), bus, agenda, now)
    BY <1>0, <1>1, <1>4, <1>6, CalmPop
  <2>3. Underway(Tail(todo), bus', agenda', now')
    BY <1>1, <2>2
  <2> QED
    BY <1>1, <2>1, <2>3, PopDone
<1>7. CASE SettleRound /\ ~Idle
  <2> DEFINE k == Arg - 1
             a == <<<<"until", now, maxSettle>>, <<"drain">>, <<"settle", k>>>>
             r == Tail(todo)
  <2>1. Call(a)
    BY <1>7 DEF SettleRound, RunUntil
  <2>2. /\ IsList(a) /\ a # <<>> /\ Len(a) = 3 /\ Chained(a)
        /\ a[1] = <<"until", now, maxSettle>> /\ a[2] = <<"drain">> /\ a[3] = <<"settle", k>>
        /\ Inner(a, 1) /\ ~Outer(a, 1)
        /\ \A g : LoopsPaced(a, g, now)
    BY <1>0, RoundShape
  <2>3. todo' = a \o r /\ maxSettle' = maxSettle /\ failed' = None
    BY <1>1, <2>1 DEF Call
  <2>4. IsList(r) /\ Chained(r) /\ LoopsPaced(r, agenda, now) /\ (1 \in DOMAIN r => Joined("settle", r, 1))
    BY <1>0, <1>1, ChainedTail, PacedTail, TailShape
  <2>5. /\ a[1][1] = "until" /\ a[1][3] = maxSettle /\ a[3][1] = "settle" /\ a[3][2] = k
        /\ a[1][1] \notin Restful /\ a[1][1] \notin Data
    <3>1. a[1][1] = "until"
      BY <2>2
    <3> QED
      BY <2>2, <3>1 DEF Restful, Data, Plain
  <2> HIDE DEF a, r
  <2>6. /\ 1 \in DOMAIN a /\ 3 \in DOMAIN a /\ 1 \in DOMAIN (a \o r)
        /\ (a \o r)[1] = a[1] /\ (a \o r)[3] = a[3]
    <3>1. DOMAIN a = 1..3
      BY <2>2, ListShape
    <3> QED
      BY <2>2, <2>4, <3>1, ConcatBelow
  <2>7. \A p : First(a \o r, p) => p = 1
    <3>1. IsList(a \o r)
      BY <2>2, <2>4, ConcatShape
    <3>2. ASSUME NEW p, First(a \o r, p), p # 1
          PROVE  FALSE
      <4>1. p \in DOMAIN (a \o r) /\ 1 < p
        BY <3>1, <3>2, ListShape DEF First
      <4> QED
        BY <2>5, <2>6, <3>2, <4>1 DEF First
    <3> QED
      BY <3>2
  <2>8. ASSUME maxSettle >= 3
        PROVE  Counted(a \o r, 1, bus, agenda)
    <3>1. todo[1][2] \in Nat /\ SettleCounts(todo, 1, bus, agenda)
      BY <1>3, <2>8
    <3>2. k = todo[1][2] - 1 /\ k \in Int
      BY <1>1, <3>1
    <3>3. Others(agenda) \in Nat
      BY <1>0, OthersKinds
    <3>4. Above(a \o r, 1, Plain) /\ (bus = <<>> => Commands(bus))
      <4>1. IsList(a \o r)
        BY <2>2, <2>4, ConcatShape
      <4>2. \A i \in DOMAIN (a \o r) : ~(i < 1)
        BY <4>1, ListShape
      <4> QED
        BY <4>2 DEF Above, Commands
    <3> HIDE DEF k
    <3>5. \/ k >= 1 /\ bus = <<>> /\ Others(agenda) <= maxSettle
          \/ k >= 2 /\ Others(agenda) = 0 /\ Len(bus) <= maxSettle
      <4>1. CASE todo[1][2] >= 2 /\ bus = <<>> /\ 1 - 1 + Others(agenda) <= maxSettle
        BY <1>0, <3>1, <3>2, <3>3, <4>1
      <4>2. CASE todo[1][2] >= 3 /\ Others(agenda) = 0 /\ Len(bus) <= maxSettle
        BY <3>1, <3>2, <4>2
      <4>3. ~Calm(bus, agenda)
        BY <1>4, <1>7
      <4> QED
        BY <3>1, <4>1, <4>2, <4>3 DEF SettleCounts
    <3>6. LoopCounts(a \o r, 1, bus, agenda)
      <4>1. (a \o r)[1 + 2] = a[3]
        BY <2>6
      <4> QED
        BY <2>5, <2>6, <3>4, <3>5, <4>1 DEF LoopCounts
    <3>7. (a \o r)[1][3] \in Nat /\ (a \o r)[1 + 2][2] \in Nat
      <4>1. (a \o r)[1 + 2] = a[3]
        BY <2>6
      <4>2. k \in Nat
        BY <3>2, <3>5
      <4> QED
        BY <1>0, <2>5, <2>6, <4>1, <4>2
    <3> QED
      BY <2>5, <2>6, <3>6, <3>7 DEF Counted
  <2>9. RoundsLeft(a \o r, bus, agenda)
    BY <2>7, <2>8 DEF RoundsLeft
  <2>10. Underway(a \o r, bus, agenda, now)
    <3>1. a[Len(a)][1] = "settle" /\ a[1][1] # "reached"
      BY <2>2, <2>5
    <3>2. RestCalm(a, bus, agenda)
      BY <2>2, <2>5 DEF RestCalm
    <3> QED
      BY <1>0, <2>2, <2>4, <2>9, <3>1, <3>2, PushUnderway
  <2> QED
    BY <1>0, <1>1, <2>3, <2>10, SettlePrimed
<1> QED
  BY <1>5, <1>6, <1>7

-----------------------------------------------------------------------------
(* Lists of calls that fit together.                                        *)

(* One call, and one more at the end.                                       *)
LEMMA SingleChained ==
  ASSUME NEW x
  PROVE  Chained(<<x>>)
<1>1. \A i \in DOMAIN <<x>> : i + 1 \notin DOMAIN <<x>>
  BY SingleShape
<1> QED
  BY <1>1 DEF Chained

(* One more call at the end fits if it may follow the last.                 *)
LEMMA AppendedChained ==
  ASSUME NEW a, IsList(a), a # <<>>, Chained(a), NEW x,
         a[Len(a)][1] # "until", x[1] \notin {"until", "emit"},
         a[Len(a)][1] \in Before(x[1]), x[1] = "settle" => x[2] = maxSettle
  PROVE  /\ IsList(a \o <<x>>) /\ Chained(a \o <<x>>) /\ a \o <<x>> # <<>>
         /\ (a \o <<x>>)[1] = a[1] /\ (a \o <<x>>)[Len(a \o <<x>>)] = x
         /\ (\A i \in DOMAIN a : a[i][1] # "until") => \A i \in DOMAIN (a \o <<x>>) : (a \o <<x>>)[i][1] # "until"
<1> DEFINE r == <<x>>
<1>1. IsList(r) /\ Len(r) = 1 /\ DOMAIN r = {1} /\ r[1] = x /\ Chained(r)
  BY SingleShape, SingleChained
<1> HIDE DEF r
<1>2. Joined(a[Len(a)][1], r, 1)
  BY <1>1 DEF Joined
<1>3. Chained(a \o r)
  BY <1>1, <1>2, ChainedConcat
<1>4. /\ IsList(a \o r) /\ Len(a) \in Nat /\ Len(a \o r) = Len(a) + 1
      /\ DOMAIN (a \o r) = 1..(Len(a) + 1)
      /\ \A i \in DOMAIN a : (a \o r)[i] = a[i]
      /\ \A i \in DOMAIN (a \o r) : i > Len(a) => i - Len(a) \in DOMAIN r /\ (a \o r)[i] = r[i - Len(a)]
  <2>1. IsList(a) /\ IsList(r)
    BY <1>1
  <2>2. /\ IsList(a \o r) /\ Len(a) \in Nat /\ Len(a \o r) = Len(a) + Len(r)
        /\ DOMAIN (a \o r) = 1..(Len(a) + Len(r))
        /\ \A i \in DOMAIN a : (a \o r)[i] = a[i]
        /\ \A i \in DOMAIN (a \o r) : i > Len(a) => i - Len(a) \in DOMAIN r /\ (a \o r)[i] = r[i - Len(a)]
    BY ONLY <2>1, ConcatShape
  <2> QED
    BY <1>1, <2>2
<1>5. Len(a) # 0 /\ DOMAIN a = 1..Len(a)
  BY ListShape
<1>6. 1 \in DOMAIN a /\ Len(a) + 1 \in DOMAIN (a \o r) /\ Len(a) + 1 > Len(a) /\ (Len(a) + 1) - Len(a) = 1
  BY <1>4, <1>5
<1>7. (a \o r)[Len(a) + 1] = x /\ (a \o r)[1] = a[1]
  BY <1>1, <1>4, <1>6
<1>8. a \o r # <<>>
  BY <1>4, <1>6
<1>9. \A i \in DOMAIN (a \o r) : i \in DOMAIN a \/ i = Len(a) + 1
  BY <1>4, <1>5
<1>10. (\A i \in DOMAIN a : a[i][1] # "until") => \A i \in DOMAIN (a \o r) : (a \o r)[i][1] # "until"
  BY <1>4, <1>7, <1>9
<1> QED
  BY <1>3, <1>4, <1>7, <1>8, <1>10 DEF r

(* Without a run_until there is nothing to keep pace.                       *)
LEMMA NoLoopPaced ==
  ASSUME NEW a, \A i \in DOMAIN a : a[i][1] # "until"
  PROVE  /\ \A i : ~Inner(a, i) /\ ~Outer(a, i)
         /\ \A g, t : LoopsPaced(a, g, t)
<1>1. \A i : ~Inner(a, i) /\ ~Outer(a, i)
  BY DEF Inner, Outer
<1> QED
  BY <1>1 DEF LoopsPaced

(* No calls fit together.                                                   *)
LEMMA NothingChained == Chained(<<>>) /\ DOMAIN <<>> = {}
<1>1. DOMAIN <<>> = {}
  BY NothingShape
<1> QED
  BY <1>1 DEF Chained

(* What emit_telemetry calls: a node after the other, then a settle.        *)
LEMMA EmissionChained ==
  /\ IsList(Emission) /\ Emission # <<>> /\ Chained(Emission)
  /\ Emission[Len(Emission)] = <<"settle", maxSettle>>
  /\ \A i \in DOMAIN Emission : Emission[i][1] # "until"
  /\ Joined("settle", Emission, 1) /\ Joined("tick", Emission, 1)
<1> DEFINE n == Len(TelemetryOrder)
           emits == [i \in DOMAIN TelemetryOrder |-> <<"emit", TelemetryOrder[i]>>]
           settle == <<"settle", maxSettle>>
           e == Emission
<1>1. n \in Nat /\ DOMAIN TelemetryOrder = 1..n
  BY TestbedAssumption, ListShape
<1>2. e = emits \o <<settle>>
  BY DEF Emission, Settle
<1>3. /\ emits = [i \in 1..n |-> emits[i]]
      /\ \A i \in 1..n : emits[i] = <<"emit", TelemetryOrder[i]>> /\ emits[i][1] = "emit"
  BY <1>1
<1>4. settle[1] = "settle" /\ settle[2] = maxSettle
  OBVIOUS
<1> HIDE DEF emits, settle, e
<1>5. IsList(emits) /\ Len(emits) = n /\ DOMAIN emits = 1..n
  BY <1>1, <1>3, ListBuilt
<1>6. IsList(<<settle>>) /\ Len(<<settle>>) = 1 /\ DOMAIN <<settle>> = {1} /\ <<settle>>[1] = settle
  BY SingleShape
<1>7. /\ IsList(e) /\ DOMAIN e = 1..(n + 1) /\ Len(e) = n + 1
      /\ \A i \in 1..n : e[i] = emits[i]
      /\ e[n + 1] = settle
  <2>1. IsList(emits) /\ IsList(<<settle>>)
    BY <1>5, <1>6
  <2>2. /\ IsList(e) /\ Len(e) = Len(emits) + Len(<<settle>>)
        /\ DOMAIN e = 1..(Len(emits) + Len(<<settle>>))
        /\ \A i \in DOMAIN emits : e[i] = emits[i]
        /\ \A i \in DOMAIN e : i > Len(emits) => e[i] = <<settle>>[i - Len(emits)]
    BY <1>2, <2>1, ConcatShape
  <2>3. n + 1 \in DOMAIN e /\ n + 1 > Len(emits) /\ (n + 1) - Len(emits) = 1
    BY <1>1, <1>5, <1>6, <2>2
  <2> QED
    BY <1>5, <1>6, <2>2, <2>3
<1>8. \A i \in DOMAIN e : \/ i \in 1..n /\ e[i] = <<"emit", TelemetryOrder[i]>> /\ e[i][1] = "emit"
                          \/ i = n + 1 /\ e[i] = settle
  BY <1>1, <1>3, <1>7
<1>9. /\ "emit" \in Before("emit") /\ "emit" \in Before("settle")
      /\ {"settle", "tick"} \subseteq Before("emit") /\ {"settle", "tick"} \subseteq Before("settle")
  BY DEF Before, Data, Plain
<1>10. \A i \in DOMAIN e : e[i][1] # "until"
  BY <1>4, <1>8
<1>11. ASSUME NEW i \in DOMAIN e, i + 1 \in DOMAIN e
       PROVE  Joined(e[i][1], e, i + 1)
  <2>1. e[i][1] = "emit"
    BY <1>1, <1>7, <1>8, <1>11
  <2> QED
    BY <1>4, <1>8, <1>9, <1>11, <2>1 DEF Joined
<1>12. Emits(e, 1, 1)
  <2>1. \A k \in 1..n : 1 + k - 1 = k /\ k \in DOMAIN e /\ e[k] = <<"emit", TelemetryOrder[k]>>
    BY <1>1, <1>3, <1>7
  <2>2. 1 + n + 1 - 1 = n + 1 /\ n + 1 \in DOMAIN e
    BY <1>1, <1>7
  <2> QED
    BY <1>4, <1>7, <2>1, <2>2 DEF Emits
<1>13. 1 \in DOMAIN e
  BY <1>1, <1>7
<1>14. Joined("settle", e, 1) /\ Joined("tick", e, 1)
  BY <1>4, <1>8, <1>9, <1>12, <1>13 DEF Joined
<1>15. e # <<>>
  BY <1>1, <1>7
<1> QED
  BY <1>7, <1>10, <1>11, <1>14, <1>15 DEF Chained, e, settle

(* What _on_step calls.                                                     *)
LEMMA StepChained ==
  /\ IsList(PhysicalStep) /\ PhysicalStep # <<>> /\ Chained(PhysicalStep)
  /\ PhysicalStep[1] = <<"settle", maxSettle>>
  /\ PhysicalStep[Len(PhysicalStep)][1] = "arm"
  /\ \A i \in DOMAIN PhysicalStep : PhysicalStep[i][1] # "until"
<1> DEFINE settle == <<"settle", maxSettle>>
           cycles == <<"cycles">>
           payload_ == <<"tick", "payload">>
           eps_ == <<"tick", "eps">>
           arm == <<"arm">>
           front == <<settle, cycles, payload_, eps_>>
           mid == front \o Emission
           p == PhysicalStep
<1>1. p = mid \o <<arm>> /\ mid = front \o Emission
  BY DEF PhysicalStep, Settle, Ticks
<1>2. /\ settle[1] = "settle" /\ cycles[1] = "cycles" /\ payload_[1] = "tick" /\ eps_[1] = "tick"
      /\ arm[1] = "arm"
  OBVIOUS
<1> HIDE DEF settle, cycles, payload_, eps_, arm
<1>3. /\ front = [i \in 1..4 |-> front[i]] /\ DOMAIN front = 1..4 /\ Len(front) = 4
      /\ front[1] = settle /\ front[2] = cycles /\ front[3] = payload_ /\ front[4] = eps_
      /\ front # <<>>
  OBVIOUS
<1> HIDE DEF front, mid, p
<1>4. IsList(front)
  BY <1>3, ListBuilt
<1>5. \A i \in DOMAIN front : i = 1 \/ i = 2 \/ i = 3 \/ i = 4
  BY <1>3
<1>6. "settle" \in Before("cycles") /\ "cycles" \in Before("tick") /\ "tick" \in Before("tick")
      /\ "settle" \in Before("arm")
  BY DEF Before, Data, Plain
<1>7. 4 + 1 \notin DOMAIN front /\ 1 + 1 = 2 /\ 2 + 1 = 3 /\ 3 + 1 = 4
  BY <1>3
<1>8. Joined("settle", front, 2) /\ Joined("cycles", front, 3) /\ Joined("tick", front, 4)
  BY <1>2, <1>3, <1>6 DEF Joined
<1>9. Chained(front)
  BY <1>2, <1>3, <1>5, <1>7, <1>8 DEF Chained
<1>10. /\ IsList(Emission) /\ Emission # <<>> /\ Chained(Emission)
       /\ Emission[Len(Emission)] = settle
       /\ \A i \in DOMAIN Emission : Emission[i][1] # "until"
       /\ Joined("tick", Emission, 1)
  BY EmissionChained DEF settle
<1>11. front[Len(front)][1] = "tick"
  BY <1>2, <1>3
<1>12. Chained(mid)
  BY <1>1, <1>3, <1>4, <1>9, <1>10, <1>11, ChainedConcat
<1>13. IsList(front) /\ IsList(Emission)
  BY <1>4, <1>10
<1>14. /\ IsList(mid) /\ Len(mid) = Len(front) + Len(Emission) /\ Len(Emission) \in Nat
       /\ DOMAIN mid = 1..(Len(front) + Len(Emission))
       /\ \A i \in DOMAIN front : mid[i] = front[i]
       /\ \A i \in DOMAIN mid : i <= Len(front) => i \in DOMAIN front /\ mid[i] = front[i]
       /\ \A i \in DOMAIN mid : i > Len(front) => /\ i - Len(front) \in DOMAIN Emission
                                                  /\ mid[i] = Emission[i - Len(front)]
  <2>1. mid = front \o Emission
    BY <1>1
  <2>2. /\ IsList(front \o Emission) /\ Len(Emission) \in Nat
        /\ Len(front \o Emission) = Len(front) + Len(Emission)
        /\ DOMAIN (front \o Emission) = 1..(Len(front) + Len(Emission))
        /\ \A i \in DOMAIN front : (front \o Emission)[i] = front[i]
        /\ \A i \in DOMAIN (front \o Emission) :
             i <= Len(front) => i \in DOMAIN front /\ (front \o Emission)[i] = front[i]
        /\ \A i \in DOMAIN (front \o Emission) :
             i > Len(front) => /\ i - Len(front) \in DOMAIN Emission
                               /\ (front \o Emission)[i] = Emission[i - Len(front)]
    BY ONLY <1>13, ConcatShape
  <2> QED
    BY ONLY <2>1, <2>2
<1>15. Len(Emission) # 0
  BY <1>10, ListShape
<1>16. mid # <<>> /\ mid[1] = settle /\ mid[Len(mid)] = settle
  <2>1. /\ 1 \in DOMAIN mid /\ Len(mid) \in DOMAIN mid /\ Len(mid) > Len(front)
        /\ Len(mid) - Len(front) = Len(Emission)
    <3>1. /\ Len(front) = 4 /\ Len(mid) = Len(front) + Len(Emission) /\ Len(Emission) \in Nat
          /\ DOMAIN mid = 1..(Len(front) + Len(Emission)) /\ Len(Emission) # 0
      BY ONLY <1>3, <1>14, <1>15
    <3> QED
      BY ONLY <3>1
  <2>2. mid[1] = settle
    <3>1. 1 \in DOMAIN front
      BY ONLY <1>3
    <3>2. mid[1] = front[1]
      BY ONLY <1>14, <3>1
    <3> QED
      BY ONLY <1>3, <3>2
  <2>3. mid[Len(mid)] = settle
    BY <1>10, <1>14, <2>1
  <2>4. mid # <<>>
    BY <1>14, <2>1, ListShape
  <2> QED
    BY <2>2, <2>3, <2>4
<1>17. \A i \in DOMAIN mid : mid[i][1] # "until"
  <2>1. ASSUME NEW i \in DOMAIN mid
        PROVE  mid[i][1] # "until"
    <3>1. CASE i <= Len(front)
      BY <1>2, <1>3, <1>5, <1>14, <3>1
    <3>2. CASE i > Len(front)
      BY <1>10, <1>14, <3>2
    <3> QED
      BY <1>3, <1>14, <3>1, <3>2
  <2> QED
    BY <2>1
<1>18. mid[Len(mid)][1] = "settle" /\ arm[1] \notin {"until", "emit", "settle"}
  BY <1>2, <1>16
<1>19. /\ IsList(mid \o <<arm>>) /\ Chained(mid \o <<arm>>) /\ mid \o <<arm>> # <<>>
       /\ (mid \o <<arm>>)[1] = mid[1] /\ (mid \o <<arm>>)[Len(mid \o <<arm>>)] = arm
       /\ \A i \in DOMAIN (mid \o <<arm>>) : (mid \o <<arm>>)[i][1] # "until"
  <2>1. /\ IsList(mid) /\ mid # <<>> /\ Chained(mid)
        /\ mid[Len(mid)][1] # "until" /\ arm[1] \notin {"until", "emit"}
        /\ mid[Len(mid)][1] \in Before(arm[1]) /\ (arm[1] = "settle" => arm[2] = maxSettle)
    BY <1>2, <1>6, <1>12, <1>14, <1>16, <1>18
  <2>2. /\ IsList(mid \o <<arm>>) /\ Chained(mid \o <<arm>>) /\ mid \o <<arm>> # <<>>
        /\ (mid \o <<arm>>)[1] = mid[1] /\ (mid \o <<arm>>)[Len(mid \o <<arm>>)] = arm
        /\ (\A i \in DOMAIN mid : mid[i][1] # "until")
             => \A i \in DOMAIN (mid \o <<arm>>) : (mid \o <<arm>>)[i][1] # "until"
    BY ONLY <2>1, AppendedChained
  <2> QED
    BY ONLY <1>17, <2>2
<1> QED
  BY <1>1, <1>2, <1>16, <1>19 DEF p, settle

(* The calls of an event that is not the step.                              *)
LEMMA QuietChained ==
  ASSUME NEW a, Quiet(a)
  PROVE  /\ Chained(a) /\ \A i \in DOMAIN a : a[i][1] # "until"
         /\ a # <<>> => a[1][1] \in Plain /\ a[Len(a)][1] \in Plain
<1>1. \A i \in DOMAIN a : a[i][1] \in Plain
  BY DEF Quiet
<1>2. \A x, y \in Plain : x \in Before(y) /\ y \notin {"until", "settle", "emit"}
  BY DEF Before, Data, Plain
<1>3. Chained(a)
  BY <1>1, <1>2 DEF Chained, Joined
<1>4. a # <<>> => 1 \in DOMAIN a /\ Len(a) \in DOMAIN a
  BY ListShape DEF Quiet
<1> QED
  BY <1>1, <1>2, <1>3, <1>4

(* What an injection calls.                                                 *)
LEMMA InjectChained ==
  /\ IsList(Settle \o Emission) /\ Settle \o Emission # <<>> /\ Chained(Settle \o Emission)
  /\ (Settle \o Emission)[1] = <<"settle", maxSettle>>
  /\ (Settle \o Emission)[Len(Settle \o Emission)] = <<"settle", maxSettle>>
  /\ \A i \in DOMAIN (Settle \o Emission) : (Settle \o Emission)[i][1] # "until"
<1> DEFINE settle == <<"settle", maxSettle>>
           s == Settle
           e == Emission
<1>1. s = <<settle>>
  BY DEF Settle
<1>2. settle[1] = "settle"
  OBVIOUS
<1> HIDE DEF settle, s, e
<1>3. IsList(s) /\ Len(s) = 1 /\ DOMAIN s = {1} /\ s[1] = settle /\ Chained(s) /\ s # <<>>
  BY <1>1, SingleShape, SingleChained
<1>4. /\ IsList(e) /\ e # <<>> /\ Chained(e) /\ e[Len(e)] = settle
      /\ \A i \in DOMAIN e : e[i][1] # "until"
      /\ Joined("settle", e, 1)
  BY EmissionChained DEF e, settle
<1>5. Chained(s \o e)
  BY <1>2, <1>3, <1>4, ChainedConcat
<1>6. IsList(s) /\ IsList(e)
  BY <1>3, <1>4
<1>7. /\ IsList(s \o e) /\ Len(s \o e) = Len(s) + Len(e) /\ Len(e) \in Nat
      /\ DOMAIN (s \o e) = 1..(Len(s) + Len(e))
      /\ \A i \in DOMAIN s : (s \o e)[i] = s[i]
      /\ \A i \in DOMAIN (s \o e) : i <= Len(s) => i \in DOMAIN s /\ (s \o e)[i] = s[i]
      /\ \A i \in DOMAIN (s \o e) : i > Len(s) => i - Len(s) \in DOMAIN e /\ (s \o e)[i] = e[i - Len(s)]
  BY ONLY <1>6, ConcatShape
<1>8. Len(e) # 0
  BY <1>4, ListShape
<1>9. /\ 1 \in DOMAIN (s \o e) /\ Len(s \o e) \in DOMAIN (s \o e) /\ Len(s \o e) > Len(s)
      /\ Len(s \o e) - Len(s) = Len(e)
  BY <1>3, <1>7, <1>8
<1>10. (s \o e)[1] = settle /\ (s \o e)[Len(s \o e)] = settle /\ s \o e # <<>>
  <2>1. (s \o e)[1] = settle
    BY <1>3, <1>7
  <2>2. (s \o e)[Len(s \o e)] = settle
    BY <1>4, <1>7, <1>9
  <2>3. s \o e # <<>>
    BY <1>7, <1>9, ListShape
  <2> QED
    BY <2>1, <2>2, <2>3
<1>11. ASSUME NEW i \in DOMAIN (s \o e)
       PROVE  (s \o e)[i][1] # "until"
  <2>1. CASE i <= Len(s)
    BY <1>2, <1>3, <1>7, <2>1
  <2>2. CASE i > Len(s)
    BY <1>4, <1>7, <2>2
  <2> QED
    BY <1>3, <1>7, <2>1, <2>2
<1> QED
  BY <1>5, <1>7, <1>10, <1>11 DEF s, e, settle

(* What a wait calls.                                                       *)
LEMMA WaitChained ==
  ASSUME now \in Nat, maxSettle \in Nat, Step \in Nat \ {0}, NEW d \in Nat, d # 0
  PROVE  /\ IsList(Wait(d)) /\ Wait(d) # <<>> /\ Len(Wait(d)) = 3 /\ Chained(Wait(d))
         /\ Wait(d)[1][1] = "until" /\ Wait(d)[3] = <<"settle", maxSettle>>
         /\ Outer(Wait(d), 1) /\ ~Inner(Wait(d), 1)
         /\ \A g : Apart(g, now) => LoopsPaced(Wait(d), g, now)
<1> DEFINE u == <<"until", now + d, maxSettle>>
           reached == <<"reached", now + d, d>>
           settle == <<"settle", maxSettle>>
           first == <<u, reached>>
           w == first \o <<settle>>
<1>1. Wait(d) = w
  <2>1. Wait(d) = <<u, reached>> \o <<settle>>
    BY DEF Wait, RunUntil, Settle
  <2> QED
    BY <2>1 DEF w
<1>2. /\ u[1] = "until" /\ u[2] = now + d /\ u[3] = maxSettle
      /\ reached[1] = "reached" /\ reached[2] = now + d /\ reached[3] = d
      /\ settle[1] = "settle" /\ settle[2] = maxSettle
  OBVIOUS
<1> HIDE DEF u, reached, settle
<1>3. /\ IsList(w) /\ DOMAIN w = 1..3 /\ Len(w) = 3 /\ w # <<>>
      /\ w[1] = u /\ w[2] = reached /\ w[3] = settle
  <2>1. /\ first = [i \in 1..2 |-> first[i]] /\ Len(first) = 2 /\ DOMAIN first = 1..2
        /\ first[1] = u /\ first[2] = reached
    OBVIOUS
  <2> HIDE DEF first
  <2>2. IsList(first) /\ IsList(<<settle>>)
    BY <2>1, ListBuilt, SingleShape
  <2>3. Len(<<settle>>) = 1 /\ <<settle>>[1] = settle
    OBVIOUS
  <2>4. /\ IsList(w) /\ Len(w) = Len(first) + Len(<<settle>>)
        /\ DOMAIN w = 1..(Len(first) + Len(<<settle>>))
        /\ \A i \in DOMAIN first : w[i] = first[i]
        /\ \A i \in DOMAIN w : i > Len(first) => w[i] = <<settle>>[i - Len(first)]
    BY <2>2, ConcatShape
  <2>5. w[3] = settle
    <3>1. 3 \in DOMAIN w /\ 3 > Len(first) /\ 3 - Len(first) = 1
      BY <2>1, <2>3, <2>4
    <3> QED
      BY <2>3, <2>4, <3>1
  <2>6. w # <<>>
    BY <2>1, <2>3, <2>4, ListShape
  <2> HIDE DEF w
  <2>7. 1 \in DOMAIN first /\ 2 \in DOMAIN first /\ Len(first) + Len(<<settle>>) = 3
    BY ONLY <2>1, <2>3
  <2>8. Len(w) = 3 /\ DOMAIN w = 1..3 /\ IsList(w)
    BY ONLY <2>4, <2>7
  <2>9. w[1] = u /\ w[2] = reached
    BY ONLY <2>1, <2>4, <2>7
  <2> QED
    BY ONLY <2>5, <2>6, <2>8, <2>9
<1> HIDE DEF w
<1>4. IsList(w)
  BY <1>3
<1>5. \A i \in DOMAIN w : i = 1 \/ i = 2 \/ i = 3
  BY <1>3
<1>6. /\ 1 \in DOMAIN w /\ 1 + 1 \in DOMAIN w /\ 1 + 1 = 2 /\ 2 + 1 = 3 /\ 3 + 1 \notin DOMAIN w
  BY <1>3
<1>7. Outer(w, 1) /\ \A i \in DOMAIN w : (Outer(w, i) => i = 1) /\ ~Inner(w, i)
  BY <1>2, <1>3, <1>5, <1>6 DEF Inner, Outer
<1>8. "until" \in Before("reached") /\ "reached" \in Before("settle")
  BY DEF Before, Data, Plain
<1>9. Joined("until", w, 2) /\ Joined("reached", w, 3)
  BY <1>2, <1>3, <1>8 DEF Joined
<1>10. Chained(w)
  BY <1>2, <1>3, <1>5, <1>6, <1>9 DEF Chained
<1>11. ASSUME NEW g, Apart(g, now)
       PROVE  LoopsPaced(w, g, now)
  <2>1. now + d - d + (maxSettle - maxSettle) * Step = now /\ now + d \in Int
    BY TestbedAssumption
  <2>2. StepAfter(now, g, now)
    BY <1>11 DEF StepAfter, Armed, Apart
  <2>3. Paced(now + d, maxSettle, d, g, now)
    BY <2>1, <2>2 DEF Paced
  <2>4. w[1 + 1] = reached
    BY <1>3, <1>6
  <2> QED
    BY <1>2, <1>3, <1>7, <2>3, <2>4 DEF LoopsPaced
<1> QED
  BY <1>1, <1>2, <1>3, <1>4, <1>6, <1>7, <1>10, <1>11 DEF settle

-----------------------------------------------------------------------------
(* A settle at the head has its rounds with at most one event waiting, and  *)
(* no other task at the head needs any.                                     *)
LEMMA HeadFirst ==
  ASSUME NEW s, IsList(s), s # <<>>, s[1][1] \notin Data
  PROVE  1 \in DOMAIN s /\ \A p : First(s, p) => p = 1
<1>1. DOMAIN s = 1..Len(s) /\ Len(s) \in Nat /\ 1 \in DOMAIN s
  BY ListShape
<1>2. ASSUME NEW p, First(s, p), p # 1
      PROVE  FALSE
  <2>1. p \in DOMAIN s /\ 1 < p
    BY <1>1, <1>2 DEF First
  <2> QED
    BY <1>1, <1>2, <2>1 DEF First
<1> QED
  BY <1>1, <1>2

(* A settle at the head of its full number of rounds.                       *)
LEMMA SettleTop ==
  ASSUME maxSettle \in Nat, NEW s, IsList(s), s # <<>>, s[1][1] = "settle", s[1][2] = maxSettle,
         NEW g, Others(g) \in {0, 1}
  PROVE  RoundsLeft(s, <<>>, g)
<1>1. s[1][1] = "settle" /\ s[1][2] = maxSettle
  OBVIOUS
<1>2. 1 \in DOMAIN s /\ \A p : First(s, p) => p = 1
  BY <1>1, HeadFirst DEF Data, Plain
<1>3. ASSUME maxSettle >= 3
      PROVE  SettleCounts(s, 1, <<>>, g)
  <2>1. maxSettle >= 2 /\ 1 - 1 + Others(g) <= maxSettle
    BY <1>3
  <2>2. \A i \in DOMAIN s : ~(i < 1)
    BY ListShape
  <2> QED
    BY <1>1, <2>1, <2>2 DEF SettleCounts, Above
<1>4. ~Inner(s, 1)
  BY <1>1 DEF Inner
<1> QED
  BY <1>1, <1>2, <1>3, <1>4 DEF RoundsLeft, Counted

(* Of any other head nothing is to be shown.                                *)
LEMMA OtherTop ==
  ASSUME NEW s, IsList(s), s # <<>>, s[1][1] \notin Data \cup {"settle", "drain", "emit"}, ~Inner(s, 1),
         NEW b, NEW g
  PROVE  RoundsLeft(s, b, g)
<1>1. \A p : First(s, p) => p = 1
  BY HeadFirst
<1> QED
  BY <1>1 DEF RoundsLeft, Counted

(* A wait begun with nothing waiting, alone or above its assertion.         *)
LEMMA WaitUnderway ==
  ASSUME now \in Nat, maxSettle \in Nat, Step \in Nat \ {0}, NEW d \in Nat,
         NEW b, NEW g, Calm(b, g), Apart(g, now),
         NEW z, z = <<>> \/ \E c : z = <<c>> /\ c[1] = "check"
  PROVE  Underway(Wait(d) \o z, b, g, now)
<1> DEFINE w == Wait(d)
<1>1. /\ IsList(z) /\ Chained(z) /\ \A i \in DOMAIN z : z[i][1] = "check"
      /\ 1 \in DOMAIN z => Joined("settle", z, 1)
  <2>1. CASE z = <<>>
    BY <2>1, NothingChained, NothingShape DEF Harmless
  <2>2. ASSUME NEW c, z = <<c>>, c[1] = "check"
        PROVE  /\ IsList(z) /\ Chained(z) /\ (\A i \in DOMAIN z : z[i][1] = "check")
               /\ Joined("settle", z, 1)
    <3>1. IsList(z) /\ DOMAIN z = {1} /\ z[1] = c /\ Chained(z)
      BY <2>2, SingleShape, SingleChained
    <3>2. "settle" \in Before("check")
      BY DEF Before, Data, Plain
    <3> QED
      BY <2>2, <3>1, <3>2 DEF Joined
  <2> QED
    BY <2>1, <2>2
<1>2. \A t : LoopsPaced(z, g, t)
  BY <1>1, NoLoopPaced
<1>3. CASE d = 0
  <2>1. w = Settle \o Emission
    BY <1>3 DEF Wait
  <2> DEFINE settle == <<"settle", maxSettle>>
  <2>2. settle[1] = "settle" /\ settle[2] = maxSettle
    OBVIOUS
  <2> HIDE DEF settle
  <2>3. /\ IsList(w) /\ w # <<>> /\ Chained(w) /\ w[1] = settle /\ w[Len(w)] = settle
        /\ \A i \in DOMAIN w : w[i][1] # "until"
    BY <2>1, InjectChained DEF settle
  <2> HIDE DEF w
  <2>4. LoopsPaced(w, g, now) /\ ~Outer(w, 1)
    BY <2>3, NoLoopPaced
  <2>5. RestCalm(w, b, g)
    BY DEF RestCalm
  <2>6. IsList(w \o z) /\ w \o z # <<>> /\ (w \o z)[1] = settle
    <3>1. 1 \in DOMAIN w
      BY <2>3, ListShape
    <3>2. IsList(w \o z) /\ 1 \in DOMAIN (w \o z) /\ (w \o z)[1] = w[1]
      BY <1>1, <2>3, <3>1, ConcatShape, ConcatBelow
    <3>3. w \o z # <<>>
      BY <3>2, ListShape
    <3> QED
      BY <2>3, <3>2, <3>3
  <2>7. RoundsLeft(w \o z, b, g)
    <3>1. Others(g) \in {0, 1} /\ b = <<>>
      BY DEF Calm
    <3>2. PICK s : s = w \o z
      OBVIOUS
    <3>3. IsList(s) /\ s # <<>> /\ s[1][1] = "settle" /\ s[1][2] = maxSettle
      BY <2>2, <2>6, <3>2
    <3>4. RoundsLeft(s, <<>>, g)
      BY <3>1, <3>3, SettleTop
    <3> QED
      BY <3>1, <3>2, <3>4
  <2>8. Underway(w \o z, b, g, now)
    BY <1>1, <1>2, <2>2, <2>3, <2>4, <2>5, <2>7, PushUnderway
  <2> QED
    BY <2>8 DEF w
<1>4. CASE d # 0
  <2> DEFINE settle == <<"settle", maxSettle>>
  <2>1. settle[1] = "settle"
    OBVIOUS
  <2> HIDE DEF settle
  <2>2. /\ IsList(w) /\ w # <<>> /\ Len(w) = 3 /\ Chained(w)
        /\ w[1][1] = "until" /\ w[3] = settle
        /\ Outer(w, 1) /\ ~Inner(w, 1)
        /\ LoopsPaced(w, g, now)
    BY <1>4, WaitChained DEF settle
  <2> HIDE DEF w
  <2>3. RestCalm(w, b, g)
    BY DEF RestCalm
  <2>4. w[Len(w)][1] = "settle"
    BY <2>1, <2>2
  <2>5. 1 \in DOMAIN w
    BY <2>2, ListShape
  <2>6. IsList(w \o z) /\ 1 \in DOMAIN (w \o z) /\ (w \o z)[1] = w[1] /\ ~Inner(w \o z, 1)
    <3>1. IsList(w) /\ IsList(z)
      BY <1>1, <2>2
    <3>2. IsList(w \o z)
      BY ONLY <3>1, ConcatShape
    <3>3. 1 \in DOMAIN (w \o z) /\ (w \o z)[1] = w[1]
      BY <2>5, <3>1, ConcatBelow
    <3>4. w # <<>> /\ w[Len(w)][1] # "until" /\ 1 \in DOMAIN w
      BY <2>2, <2>4, <2>5
    <3>5. Inner(w \o z, 1) <=> Inner(w, 1)
      BY ONLY <3>1, <3>4, AboveSame
    <3> QED
      BY <2>2, <3>2, <3>3, <3>5
  <2>7. w \o z # <<>>
    BY <2>6, ListShape
  <2>8. RoundsLeft(w \o z, b, g)
    BY <2>2, <2>6, <2>7, OtherTop DEF Data, Plain
  <2>9. Underway(w \o z, b, g, now)
    BY <1>1, <1>2, <2>2, <2>3, <2>4, <2>8, PushUnderway
  <2> QED
    BY <2>9 DEF w
<1> QED
  BY <1>3, <1>4

(* The check of an assertion stands alone, with nothing waiting.            *)
LEMMA CheckFacts ==
  ASSUME TestbedInv, SettleInv, Doing("check")
  PROVE  /\ Head(todo) = todo[1] /\ todo[1][1] = "check" /\ Tail(todo) = <<>> /\ failed = None
         /\ Calm(bus, agenda)
         /\ NextStop(Head(todo)[3]) - now \in Nat
<1>1. todo # <<>> /\ failed = None /\ Head(todo) = todo[1] /\ todo[1][1] = "check"
  BY DoingFacts
<1>2. 1 \in DOMAIN todo /\ Tail(todo) = <<>>
  BY <1>1, HeadFacts
<1>3. Calm(bus, agenda)
  BY <1>1, UnderwayFacts DEF RestCalm, Restful
<1>4. now \in Nat /\ Agenda(agenda, now) /\ todo[1][3] \in Nat /\ now <= todo[1][3]
  BY <1>1, <1>2 DEF TestbedInv, ListsInv, CheckInv, Waiting
<1>5. NextStop(todo[1][3]) \in Nat /\ now <= NextStop(todo[1][3])
  BY <1>4, NextStopBounds
<1>6. NextStop(Head(todo)[3]) - now \in Nat
  BY <1>1, <1>4, <1>5
<1> QED
  BY <1>1, <1>2, <1>3, <1>6

(* The two ways in which a call ends by settling.                           *)
Settling(s) == s = Settle \/ s = Settle \o Emission

(* Settling for the rest of a step, once one event came on top of nothing.  *)
LEMMA SettlingUnderway ==
  ASSUME maxSettle \in Nat, now \in Nat,
         NEW s, Settling(s),
         NEW g, Others(g) \in {0, 1}, Apart(g, now)
  PROVE  Underway(s, <<>>, g, now)
<1> DEFINE settle == <<"settle", maxSettle>>
<1>1. settle[1] = "settle" /\ settle[2] = maxSettle
  OBVIOUS
<1>4. /\ IsList(s) /\ s # <<>> /\ s[1] = settle /\ Chained(s)
      /\ \A i \in DOMAIN s : s[i][1] # "until"
  <2> HIDE DEF settle
  <2>1. CASE s = Settle
    <3>1. s = <<settle>>
      BY <2>1 DEF Settle, settle
    <3>2. IsList(s) /\ s # <<>> /\ DOMAIN s = {1} /\ s[1] = settle /\ Chained(s)
      BY <3>1, SingleShape, SingleChained
    <3> QED
      BY <1>1, <3>2
  <2>2. CASE s = Settle \o Emission
    BY <2>2, InjectChained DEF settle
  <2> QED
    BY <2>1, <2>2 DEF Settling
<1> HIDE DEF settle
<1>5. s[1][1] = "settle" /\ s[1][2] = maxSettle
  BY <1>1, <1>4
<1>6. RoundsLeft(s, <<>>, g)
  BY <1>4, <1>5, SettleTop
<1>7. LoopsPaced(s, g, now) /\ ~Outer(s, 1)
  BY <1>4, NoLoopPaced
<1>8. RestCalm(s, <<>>, g) /\ ReachedPaced(s, now)
  BY <1>5, <1>7 DEF RestCalm, Restful, ReachedPaced
<1> QED
  BY <1>4, <1>6, <1>7, <1>8 DEF Underway

(* assert_step.                                                             *)
LEMMA CheckActions ==
  ASSUME TestbedInv, SettleInv, CheckAgain \/ Conclude
  PROVE  SettleInv'
<1>0. /\ maxSettle \in Nat /\ maxSettle \in Limit /\ now \in Nat /\ Step \in Nat \ {0}
      /\ IsList(agenda) /\ ArmedOnce(agenda) /\ Apart(agenda, now)
  BY ArmedFacts, UnderwayFacts
<1>1. Doing("check") /\ UNCHANGED <<now, bus>>
  BY DEF CheckAgain, Conclude, engine
<1>2. /\ Head(todo) = todo[1] /\ todo[1][1] = "check" /\ Tail(todo) = <<>> /\ failed = None
      /\ Calm(bus, agenda)
      /\ NextStop(Head(todo)[3]) - now \in Nat
  BY <1>1, CheckFacts
<1>3. CASE CheckAgain
  <2> DEFINE d == NextStop(Head(todo)[3]) - now
             c == Head(todo)
             a == Wait(d) \o <<c>>
  <2>1. Call(a) /\ UNCHANGED agenda
    BY <1>3 DEF CheckAgain, engine
  <2>2. c[1] = "check" /\ d \in Nat
    BY <1>2
  <2> HIDE DEF d, c
  <2>3. Underway(a, bus, agenda, now)
    BY <1>0, <1>2, <2>2, WaitUnderway
  <2>4. IsList(a)
    <3>1. IsList(Wait(d)) /\ IsList(<<c>>)
      BY <1>0, <2>2, WaitShape, SingleShape
    <3> QED
      BY <3>1, ConcatShape
  <2> HIDE DEF a
  <2>5. todo' = a /\ maxSettle' = maxSettle /\ failed' = None
    <3>1. todo' = a \o <<>> /\ maxSettle' = maxSettle /\ failed' = None
      BY <1>2, <2>1 DEF Call
    <3> QED
      BY <2>4, <3>1, ConcatNothing
  <2> QED
    BY <1>0, <1>1, <2>1, <2>3, <2>5, SettlePrimed
<1>4. CASE Conclude
  <2>1. Call(Settle) /\ Schedule(<<>>)
    BY <1>4 DEF Conclude
  <2>2. Others(agenda') = Others(agenda) + 1 /\ Apart(agenda', now)
    BY <2>1, NothingIsQuiet, QuietCounted
  <2>3. bus = <<>> /\ Others(agenda) = 0
    BY <1>2 DEF Calm
  <2>4. Others(agenda') \in {0, 1}
    BY <2>2, <2>3
  <2>5. Underway(Settle, <<>>, agenda', now)
    <3>1. Settling(Settle)
      BY DEF Settling
    <3>2. maxSettle \in Nat /\ now \in Nat /\ Others(agenda') \in {0, 1} /\ Apart(agenda', now)
      BY ONLY <1>0, <2>2, <2>4
    <3> QED
      BY ONLY <3>1, <3>2, SettlingUnderway
  <2>6. todo' = Settle /\ maxSettle' = maxSettle /\ failed' = None
    <3>1. todo' = Settle \o <<>> /\ maxSettle' = maxSettle /\ failed' = None
      BY <1>2, <2>1 DEF Call
    <3>2. IsList(Settle)
      BY SettleShape DEF Harmless
    <3> QED
      BY <3>1, <3>2, ConcatNothing
  <2> QED
    BY <1>0, <1>1, <2>3, <2>5, <2>6, SettlePrimed
<1> QED
  BY <1>3, <1>4

(* The steps of a scenario begin with nothing waiting.                      *)
LEMMA BeginActions ==
  ASSUME TestbedInv, SettleInv, WaitStep \/ InjectFaultStep \/ SendCommandStep \/ AssertStep
  PROVE  SettleInv'
<1>0. /\ maxSettle \in Nat /\ maxSettle \in Limit /\ now \in Nat /\ Step \in Nat \ {0}
      /\ IsList(agenda) /\ ArmedOnce(agenda) /\ Apart(agenda, now)
  BY ArmedFacts, UnderwayFacts
<1>1. ASSUME NEW a, Begin(a)
      PROVE  /\ todo' = a /\ failed' = None /\ UNCHANGED <<now, bus, maxSettle>>
             /\ Calm(bus, agenda)
  <2>1. /\ Between /\ todo' = a /\ UNCHANGED <<now, bus, failed, maxSettle>>
    BY <1>1 DEF Begin
  <2>2. Idle
    BY <2>1 DEF TestbedInv, SettledBetweenSteps
  <2> QED
    BY <2>1, <2>2, CalmIdle DEF Between
<1>2. ASSUME NEW x, x[1] \in Plain, Inject(<<x>>)
      PROVE  SettleInv'
  <2> DEFINE a == Settle \o Emission
  <2>1. Begin(a) /\ Schedule(<<x>>)
    BY <1>2 DEF Inject
  <2>2. Quiet(<<x>>)
    BY <1>2, SingleShape DEF Quiet
  <2>3. Others(agenda') = Others(agenda) + 1 /\ Apart(agenda', now)
    BY <2>1, <2>2, QuietCounted
  <2>4. todo' = a /\ failed' = None /\ UNCHANGED <<now, bus, maxSettle>> /\ Calm(bus, agenda)
    BY <1>1, <2>1
  <2>5. Others(agenda') \in {0, 1} /\ bus = <<>>
    BY <2>3, <2>4 DEF Calm
  <2>6. Settling(a)
    BY DEF Settling
  <2> HIDE DEF a
  <2>7. Underway(a, <<>>, agenda', now)
    <3>1. /\ maxSettle \in Nat /\ now \in Nat /\ Others(agenda') \in {0, 1}
          /\ Apart(agenda', now)
      BY ONLY <1>0, <2>3, <2>5
    <3> QED
      BY ONLY <2>6, <3>1, SettlingUnderway
  <2> QED
    BY <1>0, <2>4, <2>5, <2>7, SettlePrimed
<1>3. CASE WaitStep
  <2>1. PICK d \in WaitTime : Begin(Wait(d)) /\ UNCHANGED agenda
    BY <1>3 DEF WaitStep
  <2>2. d \in Nat
    BY TestbedAssumption
  <2>3. /\ todo' = Wait(d) /\ failed' = None /\ UNCHANGED <<now, bus, maxSettle>>
        /\ Calm(bus, agenda)
    BY <1>1, <2>1
  <2>4. Underway(Wait(d) \o <<>>, bus, agenda, now)
    BY <1>0, <2>2, <2>3, WaitUnderway
  <2>5. Wait(d) \o <<>> = Wait(d)
    BY <1>0, <2>2, WaitShape, ConcatNothing
  <2> QED
    BY <1>0, <2>1, <2>3, <2>4, <2>5, SettlePrimed
<1>4. CASE AssertStep
  <2>1. PICK x \in Expected, timeout \in Timeout :
          Begin(<<<<"check", x, now + timeout>>>>) /\ UNCHANGED agenda
    BY <1>4 DEF AssertStep
  <2> DEFINE c == <<"check", x, now + timeout>>
             a == <<c>>
  <2>2. c[1] = "check"
    OBVIOUS
  <2>3. Begin(a)
    BY <2>1
  <2> HIDE DEF c
  <2>4. /\ todo' = a /\ failed' = None /\ UNCHANGED <<now, bus, maxSettle>>
        /\ Calm(bus, agenda)
    BY <1>1, <2>3
  <2>5. IsList(a) /\ a # <<>> /\ DOMAIN a = {1} /\ a[1] = c /\ Chained(a)
    BY SingleShape, SingleChained
  <2> HIDE DEF a
  <2>6. \A i \in DOMAIN a : a[i][1] # "until"
    BY <2>2, <2>5
  <2>7. LoopsPaced(a, agenda, now) /\ ~Inner(a, 1)
    BY <2>6, NoLoopPaced
  <2>8. RoundsLeft(a, bus, agenda)
    BY <2>2, <2>5, <2>7, OtherTop DEF Data, Plain
  <2>9. RestCalm(a, bus, agenda) /\ ReachedPaced(a, now)
    BY <2>2, <2>4, <2>5 DEF RestCalm, ReachedPaced
  <2>10. Underway(a, bus, agenda, now)
    BY <1>0, <2>5, <2>7, <2>8, <2>9 DEF Underway
  <2> QED
    BY <1>0, <2>1, <2>4, <2>10, SettlePrimed
<1>5. CASE InjectFaultStep
  <2>1. CASE \E o \in Override, span \in Span : Inject(<<<<"override", o, span>>>>)
    <3>1. PICK o \in Override, span \in Span : Inject(<<<<"override", o, span>>>>)
      BY <2>1
    <3>2. <<"override", o, span>>[1] \in Plain
      BY DEF Plain
    <3> QED
      BY <1>2, <3>1, <3>2
  <2>2. CASE \E f \in NamedFault, on \in BOOLEAN : Inject(<<<<"named_fault", f, on>>>>)
    <3>1. PICK f \in NamedFault, on \in BOOLEAN : Inject(<<<<"named_fault", f, on>>>>)
      BY <2>2
    <3>2. <<"named_fault", f, on>>[1] \in Plain
      BY DEF Plain
    <3> QED
      BY <1>2, <3>1, <3>2
  <2> QED
    BY <1>5, <2>1, <2>2 DEF InjectFaultStep
<1>6. CASE SendCommandStep
  <2>1. PICK c \in Command : Inject(<<<<"send", c>>>>)
    BY <1>6 DEF SendCommandStep
  <2>2. <<"send", c>>[1] \in Plain
    BY DEF Plain
  <2> QED
    BY <1>2, <2>1, <2>2
<1> QED
  BY <1>3, <1>4, <1>5, <1>6

(* Telemetry of one node more stays within the count.                       *)
LEMMA EmissionCounted ==
  ASSUME maxSettle \in Nat, NEW s, IsList(s), s # <<>>, NEW b, IsList(b), NEW g, EmitCounts(s, b, g),
         NEW c, Len(c) = Len(b) + Len(Signals[s[1][2]]), s[1][2] \in DOMAIN Signals,
         1 \in DOMAIN Tail(s)
  PROVE  /\ Others(g) = 0 /\ Len(c) <= maxSettle
         /\ Tail(s)[1][1] # "settle" => EmitCounts(Tail(s), c, g)
<1> DEFINE n == Len(TelemetryOrder)
           r == Tail(s)
<1>1. n \in Nat /\ DOMAIN TelemetryOrder = 1..n
  BY TestbedAssumption, ListShape
<1>2. PICK j \in 1..n :
        /\ Emits(s, 1, j)
        /\ \E f \in [0..n -> 0..maxSettle] : Counts(f) /\ Len(b) <= f[j - 1]
  BY <1>1 DEF EmitCounts
<1>3. PICK f \in [0..n -> 0..maxSettle] : Counts(f) /\ Len(b) <= f[j - 1]
  BY <1>2
<1>4. Below(r, 1, s)
  BY TailBelow
<1>5. IsList(r) /\ s[1 + 1] = r[1]
  BY <1>4 DEF Below
<1> HIDE DEF r
<1>6. s[1] = <<"emit", TelemetryOrder[j]>>
  <2>1. 1 + j - j = 1 /\ j \in j..n
    BY <1>1
  <2> QED
    BY <1>2, <2>1 DEF Emits
<1>7. Len(Signals[s[1][2]]) = Len(Signals[TelemetryOrder[j]]) /\ Len(Signals[s[1][2]]) \in Nat
  <2>1. IsList(Signals[s[1][2]])
    BY TestbedAssumption
  <2> QED
    BY <1>6, <2>1, ListShape
<1>8. f[j] = f[j - 1] + Len(Signals[TelemetryOrder[j]])
  BY <1>1, <1>3 DEF Counts
<1>9. f[j] \in 0..maxSettle /\ f[j - 1] \in 0..maxSettle /\ Len(b) \in Nat
  BY <1>1, <1>3, ListShape
<1>10. Len(c) <= f[j] /\ Len(c) <= maxSettle
  <2>1. PICK x, y, z : x = Len(Signals[s[1][2]]) /\ y = f[j - 1] /\ z = f[j]
    OBVIOUS
  <2>2. x \in Nat /\ y \in 0..maxSettle /\ z \in 0..maxSettle /\ z = y + x /\ Len(b) <= y
    BY <1>3, <1>7, <1>8, <1>9, <2>1
  <2>3. Len(c) = Len(b) + x
    BY <2>1
  <2>4. Len(b) + x <= z /\ z <= maxSettle /\ Len(b) + x \in Nat
    BY <1>9, <2>2
  <2> QED
    BY <2>1, <2>2, <2>3, <2>4
<1>11. Others(g) = 0
  BY DEF EmitCounts
<1>12. ASSUME r[1][1] # "settle"
       PROVE  EmitCounts(r, c, g)
  <2>1. j # n
    <3>1. ASSUME j = n
          PROVE  FALSE
      <4>1. 1 + n + 1 - j = 1 + 1
        BY <1>1, <3>1
      <4> QED
        BY <1>2, <1>5, <1>12, <4>1 DEF Emits
    <3> QED
      BY <3>1
  <2>2. j + 1 \in 1..n /\ (j + 1) - 1 = j
    BY <1>1, <2>1
  <2>3. Emits(s, 1 + 1, j + 1)
    <3>1. \A k \in (j + 1)..n : k \in j..n /\ 1 + 1 + k - (j + 1) = 1 + k - j
      BY <1>1
    <3>2. 1 + 1 + n + 1 - (j + 1) = 1 + n + 1 - j
      BY <1>1
    <3> QED
      BY <1>2, <3>1, <3>2 DEF Emits
  <2>4. Emits(r, 1, j + 1)
    <3>1. 1 \in DOMAIN r
      BY DEF r
    <3>2. \A i \in 1..n : Emits(s, 1 + 1, i) <=> Emits(r, 1, i)
      BY <1>4, <3>1, BelowSame
    <3> QED
      BY <2>2, <2>3, <3>2
  <2> QED
    BY <1>1, <1>3, <1>10, <1>11, <2>2, <2>4 DEF EmitCounts
<1> QED
  BY <1>10, <1>11, <1>12 DEF r

(* _emit_configured_telemetry.                                              *)
LEMMA EmitActions ==
  ASSUME TestbedInv, SettleInv, EmitTelemetry
  PROVE  SettleInv'
<1> DEFINE r == Tail(todo)
<1>0. /\ IsList(todo) /\ IsList(bus) /\ maxSettle \in Nat
      /\ Apart(agenda, now) /\ Chained(todo) /\ LoopsPaced(todo, agenda, now)
      /\ RoundsLeft(todo, bus, agenda)
  BY ArmedFacts, UnderwayFacts
<1>1. Doing("emit") /\ Call(<<>>) /\ UNCHANGED <<now, agenda>>
  BY DEF EmitTelemetry, engine
<1>2. /\ todo # <<>> /\ failed = None /\ todo[1][1] = "emit" /\ Arg = todo[1][2] /\ 1 \in DOMAIN todo
      /\ todo[1][1] \notin Data
  <2>1. "emit" \notin Data
    BY DEF Data, Plain
  <2> QED
    BY <1>1, <2>1, DoingFacts, HeadFacts
<1>3. Arg \in DOMAIN Signals /\ Len(bus') = Len(bus) + Len(Signals[Arg])
  <2>1. PICK node \in DOMAIN Signals :
          /\ node = Arg
          /\ bus' = bus \o [i \in DOMAIN Signals[node] |->
                              <<"telemetry", Signals[node][i], Report(Signals[node][i])'>>]
    BY DEF EmitTelemetry
  <2> DEFINE frames == [i \in DOMAIN Signals[node] |->
                          <<"telemetry", Signals[node][i], Report(Signals[node][i])'>>]
  <2>2. frames = [i \in 1..Len(Signals[node]) |-> frames[i]] /\ Len(Signals[node]) \in Nat
    BY TestbedAssumption, ListShape
  <2>3. bus' = bus \o frames
    BY <2>1
  <2> HIDE DEF frames
  <2>4. IsList(frames) /\ Len(frames) = Len(Signals[node])
    BY <2>2, ListBuilt
  <2>5. IsList(bus) /\ IsList(frames)
    BY <1>0, <2>4
  <2>6. Len(bus \o frames) = Len(bus) + Len(frames)
    BY <2>5, ConcatShape
  <2> QED
    BY <2>1, <2>3, <2>4, <2>6
<1>4. /\ Chained(r) /\ LoopsPaced(r, agenda, now) /\ \A p : First(r, p) => p = 1
      /\ 1 \in DOMAIN r => Joined("emit", r, 1)
  BY <1>0, <1>2, ChainedTail, PacedTail, NextFirst
<1>5. IsList(r) /\ (r # <<>> => 1 \in DOMAIN r) /\ DOMAIN r = 1..Len(r)
  BY <1>0, <1>2, TailShape, ListShape
<1>6. 1 \in DOMAIN r => /\ r[1][1] \in {"emit", "settle"}
                        /\ r[1][1] = "settle" => r[1][2] = maxSettle
  <2>1. \A kind : "emit" \in Before(kind) => kind \in {"emit", "settle"}
    BY DEF Before, Data, Plain
  <2> QED
    BY <1>4, <2>1 DEF Joined
<1>7. RestCalm(r, bus', agenda) /\ ReachedPaced(r, now)
  BY <1>5, <1>6 DEF RestCalm, Restful, Outer, ReachedPaced
<1>8. ASSUME maxSettle >= 3, First(r, 1)
      PROVE  Counted(r, 1, bus', agenda)
  <2>1. 1 \in DOMAIN r
    BY <1>8 DEF First
  <2>2. First(todo, 1)
    <3>1. \A i \in DOMAIN todo : ~(i < 1)
      BY <1>0, ListShape
    <3> QED
      BY <1>2, <3>1 DEF First
  <2>3. EmitCounts(todo, bus, agenda)
    BY <1>0, <1>2, <1>8, <2>2 DEF RoundsLeft, Counted
  <2>4. /\ Others(agenda) = 0 /\ Len(bus') <= maxSettle
        /\ r[1][1] # "settle" => EmitCounts(r, bus', agenda)
    BY <1>0, <1>2, <1>3, <2>1, <2>3, EmissionCounted
  <2> HIDE DEF r
  <2>5. r[1][1] = "settle" => r[1][2] \in Nat /\ SettleCounts(r, 1, bus', agenda)
    BY <1>0, <1>6, <1>8, <2>1, <2>4 DEF SettleCounts
  <2>6. r[1][1] # "until" /\ r[1][1] # "drain"
    BY <1>6, <2>1
  <2> QED
    BY <2>4, <2>5, <2>6 DEF Counted, Inner
<1>9. RoundsLeft(r, bus', agenda)
  BY <1>4, <1>8 DEF RoundsLeft
<1>10. Underway(r, bus', agenda, now)
  BY <1>0, <1>4, <1>7, <1>9 DEF Underway
<1>11. Underway(Tail(todo), bus', agenda', now')
  BY <1>1, <1>10
<1> QED
  BY <1>1, <1>2, <1>11, PopDone

(* A drain and the loop of a round stand above their settle.                *)
LEMMA RoundBelow ==
  ASSUME TestbedInv, SettleInv, todo # <<>>, todo[1][1] \in {"drain", "until"}
  PROVE  /\ IsList(Tail(todo)) /\ Tail(todo) # <<>> /\ 1 \in DOMAIN Tail(todo)
         /\ 1 \in DOMAIN todo /\ 2 \in DOMAIN todo /\ Tail(todo)[1] = todo[2]
         /\ todo[1][1] = "drain" => Tail(todo)[1][1] = "settle"
         /\ todo[1][1] = "until" => Tail(todo)[1][1] \in {"drain", "reached"}
         /\ Inner(todo, 1) <=> todo[1][1] = "until" /\ todo[2][1] = "drain"
         /\ Outer(todo, 1) <=> todo[1][1] = "until" /\ todo[2][1] = "reached"
         /\ todo[2][1] = "drain" => 3 \in DOMAIN todo /\ 2 \in DOMAIN Tail(todo) /\ Tail(todo)[2] = todo[3]
         /\ \A i \in DOMAIN todo : ~(i < 1)
<1> DEFINE r == Tail(todo)
<1>1. IsList(todo) /\ Chained(todo) /\ Bottom(todo)
  BY ArmedFacts, UnderwayFacts DEF TestbedInv, CallsInv
<1>2. r # <<>> /\ 1 \in DOMAIN todo /\ DOMAIN todo = 1..Len(todo) /\ Len(todo) \in Nat \ {0}
  BY HeadFacts
<1>3. /\ IsList(r) /\ Len(r) = Len(todo) - 1 /\ DOMAIN r = 1..(Len(todo) - 1)
      /\ \A i \in DOMAIN r : r[i] = todo[i + 1]
  BY <1>1, TailShape
<1>4. 1 \in DOMAIN r /\ Joined(todo[1][1], r, 1)
  <2>1. 1 \in DOMAIN r
    BY <1>2, <1>3, ListShape
  <2> QED
    BY <1>1, <2>1, ChainedTail
<1> HIDE DEF r
<1>5. 2 \in DOMAIN todo /\ r[1] = todo[2] /\ 1 + 1 = 2
  <2>1. 1 + 1 = 2 /\ Len(todo) >= 2
    BY <1>2, <1>3, <1>4
  <2> QED
    BY <1>2, <1>3, <1>4, <2>1
<1>6. todo[1][1] \in Before(r[1][1])
  BY <1>4 DEF Joined
<1>7. \A kind : /\ "drain" \in Before(kind) => kind = "settle"
                /\ "until" \in Before(kind) => kind \in {"drain", "reached"}
  BY DEF Before, Data, Plain
<1>8. todo[2][1] = "drain" => 3 \in DOMAIN todo /\ 2 \in DOMAIN r /\ r[2] = todo[3]
  <2>1. ASSUME todo[2][1] = "drain"
        PROVE  Len(todo) # 2
    BY <1>1, <2>1 DEF Bottom
  <2>2. Len(todo) # 2 => 3 \in DOMAIN todo /\ 2 \in DOMAIN r /\ 2 + 1 = 3
    BY <1>2, <1>3, <1>5
  <2> QED
    BY <1>3, <2>1, <2>2
<1>9. \A i \in DOMAIN todo : ~(i < 1)
  BY <1>2
<1>10. /\ todo[1][1] = "drain" => r[1][1] = "settle"
       /\ todo[1][1] = "until" => r[1][1] \in {"drain", "reached"}
  BY <1>6, <1>7
<1>11. /\ Inner(todo, 1) <=> todo[1][1] = "until" /\ todo[2][1] = "drain"
       /\ Outer(todo, 1) <=> todo[1][1] = "until" /\ todo[2][1] = "reached"
  BY <1>2, <1>5 DEF Inner, Outer
<1> QED
  BY <1>2, <1>3, <1>4, <1>5, <1>8, <1>9, <1>10, <1>11 DEF r

(* _drain_bus: what was on the bus is delivered, and the next round counts. *)
LEMMA DrainActions ==
  ASSUME TestbedInv, SettleInv, Drain
  PROVE  SettleInv'
<1> DEFINE r == Tail(todo)
<1>0. /\ IsList(todo) /\ IsList(bus) /\ Bus(bus) /\ maxSettle \in Nat /\ maxSettle \in Limit
      /\ Apart(agenda, now) /\ Chained(todo) /\ LoopsPaced(todo, agenda, now)
      /\ RoundsLeft(todo, bus, agenda)
  BY ArmedFacts, UnderwayFacts
<1>1. /\ Doing("drain") /\ Call(bus) /\ UNCHANGED <<now, agenda>>
      /\ bus' = SubSeq(bus, Len(bus) + 1, Len(bus))
  BY DEF Drain, Drained, engine
<1>2. bus' = <<>>
  <2>1. Len(bus) \in Nat
    BY <1>0, ListShape
  <2> QED
    BY <1>1, <2>1
<1>3. todo # <<>> /\ failed = None /\ todo[1][1] = "drain" /\ todo[1][1] \notin Data
  <2>1. "drain" \notin Data
    BY DEF Data, Plain
  <2> QED
    BY <1>1, <2>1, DoingFacts
<1>4. /\ IsList(r) /\ r # <<>> /\ 1 \in DOMAIN r /\ r[1] = todo[2] /\ r[1][1] = "settle"
      /\ 1 \in DOMAIN todo /\ \A i \in DOMAIN todo : ~(i < 1)
  BY <1>3, RoundBelow
<1>5. /\ Chained(r) /\ LoopsPaced(r, agenda, now) /\ \A p : First(r, p) => p = 1
  BY <1>0, <1>3, ChainedTail, PacedTail, NextFirst
<1>6. todo' = bus \o r /\ maxSettle' = maxSettle /\ failed' = None
  BY <1>1, <1>3 DEF Call
<1> HIDE DEF r
<1>7. ASSUME maxSettle >= 3
      PROVE  /\ r[1][2] \in Nat /\ Others(agenda) = 0
             /\ \/ r[1][2] >= 1 /\ Commands(bus)
                \/ r[1][2] >= 2 /\ Len(bus) <= maxSettle
  <2>1. First(todo, 1)
    BY <1>3, <1>4 DEF First
  <2>2. Counted(todo, 1, bus, agenda)
    BY <1>0, <1>7, <2>1, <1>4 DEF RoundsLeft
  <2> QED
    BY <1>3, <1>4, <2>2 DEF Counted, DrainCounts
<1>8. CASE bus = <<>>
  <2>1. todo' = r
    BY <1>4, <1>6, <1>8, NothingBefore
  <2>2. RestCalm(r, <<>>, agenda) /\ ReachedPaced(r, now)
    BY <1>4 DEF RestCalm, Restful, Outer, ReachedPaced
  <2>3. RoundsLeft(r, <<>>, agenda)
    <3>1. ASSUME maxSettle >= 3
          PROVE  Counted(r, 1, <<>>, agenda)
      <4>1. r[1][2] \in Nat /\ Others(agenda) = 0 /\ r[1][2] >= 1
        BY <1>7, <3>1
      <4>2. Above(r, 1, {"command"})
        <5>1. \A i \in DOMAIN r : ~(i < 1)
          BY <1>4, ListShape
        <5> QED
          BY <5>1 DEF Above
      <4> QED
        BY <1>4, <4>1, <4>2 DEF Counted, SettleCounts, Calm, Inner
    <3> QED
      BY <1>5, <3>1 DEF RoundsLeft
  <2>4. Underway(r, <<>>, agenda, now)
    BY <1>0, <1>5, <2>2, <2>3 DEF Underway
  <2> QED
    BY <1>0, <1>1, <1>2, <1>6, <2>1, <2>4, SettlePrimed
<1>9. CASE bus # <<>>
  <2>1. /\ Len(bus) \in Nat \ {0} /\ DOMAIN bus = 1..Len(bus) /\ 1 \in DOMAIN bus /\ Len(bus) \in DOMAIN bus
        /\ \A i \in DOMAIN bus : bus[i][1] \in {"command", "telemetry"}
    BY <1>0, <1>9, ListShape DEF Bus
  <2>2. Chained(bus)
    <3>1. ASSUME NEW i \in DOMAIN bus, i + 1 \in DOMAIN bus
          PROVE  Joined(bus[i][1], bus, i + 1)
      <4>1. bus[i][1] \in {"command", "telemetry"} /\ bus[i + 1][1] \in {"command", "telemetry"}
        BY <2>1, <3>1
      <4>2. Before(bus[i + 1][1]) = Data
        BY <4>1 DEF Before, Data
      <4> QED
        BY <4>1, <4>2 DEF Joined, Data
    <3> QED
      BY <3>1 DEF Chained
  <2>3. bus[Len(bus)][1] \in {"command", "telemetry"} /\ bus[1][1] \in {"command", "telemetry"}
    BY <2>1
  <2>4. Joined(bus[Len(bus)][1], r, 1)
    <3>1. {"command", "telemetry"} \subseteq Before("settle")
      BY DEF Before, Data, Plain
    <3> QED
      BY <1>4, <2>3, <3>1 DEF Joined
  <2>5. LoopsPaced(bus, agenda, now) /\ ~Outer(bus, 1)
    <3>1. \A i \in DOMAIN bus : bus[i][1] # "until"
      BY <2>1
    <3> QED
      BY <3>1, NoLoopPaced
  <2>6. RestCalm(bus, <<>>, agenda)
    BY <2>3, <2>5 DEF RestCalm, Restful
  <2> DEFINE s == bus \o r
             k == Len(bus)
  <2>7. /\ IsList(s) /\ DOMAIN s = 1..(k + Len(r)) /\ Len(r) \in Nat
        /\ \A i \in DOMAIN bus : i \in DOMAIN s /\ s[i] = bus[i]
    <3>1. IsList(bus) /\ IsList(r)
      BY <1>0, <1>4
    <3>2. /\ IsList(s) /\ DOMAIN s = 1..(k + Len(r)) /\ Len(r) \in Nat
          /\ \A i \in DOMAIN bus : s[i] = bus[i]
      BY ONLY <3>1, ConcatShape
    <3> QED
      BY <2>1, <3>2
  <2>8. k + 1 \in DOMAIN s /\ s[k + 1] = r[1] /\ (Inner(s, k + 1) <=> Inner(r, 1))
    <3>1. Below(r, k, s)
      BY <1>0, <1>4, ConcatBelow
    <3> HIDE DEF s, k
    <3> QED
      BY <1>4, <3>1, BelowSame
  <2>9. k \in Nat /\ k # 0 /\ DOMAIN bus = 1..k
    BY <2>1
  <2> HIDE DEF s, k
  <2>10. \A i \in DOMAIN s : i < k + 1 => i \in DOMAIN bus
    BY <2>7, <2>9
  <2>11. \A p : First(s, p) => p = k + 1
    <3>1. ASSUME NEW p, First(s, p), p # k + 1
          PROVE  FALSE
      <4>1. p \in DOMAIN s /\ s[p][1] \notin Data
        BY <3>1 DEF First
      <4>2. ~(p < k + 1)
        <5>1. p < k + 1 => p \in DOMAIN bus /\ s[p] = bus[p]
          BY <2>7, <2>10, <4>1
        <5>2. {"command", "telemetry"} \subseteq Data
          BY DEF Data
        <5> QED
          BY <2>1, <4>1, <5>1, <5>2
      <4>3. k + 1 < p
        BY <2>7, <2>9, <3>1, <4>1, <4>2
      <4>4. s[k + 1][1] \in Data
        BY <2>8, <3>1, <4>3 DEF First
      <4> QED
        BY <1>4, <2>8, <4>4 DEF Data, Plain
    <3> QED
      BY <3>1
  <2>12. ASSUME maxSettle >= 3
         PROVE  Counted(s, k + 1, <<>>, agenda)
    <3>1. /\ r[1][2] \in Nat /\ Others(agenda) = 0
          /\ \/ r[1][2] >= 1 /\ Commands(bus)
             \/ r[1][2] >= 2 /\ k <= maxSettle
      BY <1>7, <2>12 DEF k
    <3>2. Commands(bus) => Above(s, k + 1, {"command"})
      BY <2>7, <2>10 DEF Commands, Above
    <3>3. Above(s, k + 1, {"command", "telemetry"})
      BY <2>1, <2>7, <2>10 DEF Above
    <3>4. (k + 1) - 1 + Others(agenda) = k
      BY <2>9, <3>1
    <3>5. SettleCounts(s, k + 1, <<>>, agenda)
      <4>1. CASE r[1][2] >= 1 /\ Commands(bus)
        BY <2>8, <3>1, <3>2, <4>1 DEF SettleCounts, Calm
      <4>2. CASE r[1][2] >= 2 /\ k <= maxSettle
        <5>1. (k + 1) - 1 + Others(agenda) <= maxSettle
          BY <3>4, <4>2
        <5>2. s[k + 1][2] >= 2
          BY <2>8, <4>2
        <5> QED
          BY <3>3, <5>1, <5>2, Zenon DEF SettleCounts
      <4> QED
        BY <3>1, <4>1, <4>2
    <3> QED
      BY <1>4, <2>8, <3>1, <3>5 DEF Counted, Inner
  <2>13. RoundsLeft(s, <<>>, agenda)
    BY <2>11, <2>12 DEF RoundsLeft
  <2>14. Underway(bus \o r, <<>>, agenda, now)
    <3>1. RoundsLeft(bus \o r, <<>>, agenda)
      BY <2>13 DEF s
    <3>2. bus[Len(bus)][1] # "until" /\ bus[1][1] # "reached"
      BY <2>3
    <3> QED
      BY <1>0, <1>4, <1>5, <1>9, <2>2, <2>4, <2>5, <2>6, <3>1, <3>2, PushUnderway
  <2> QED
    BY <1>0, <1>1, <1>2, <1>6, <2>14, SettlePrimed
<1> QED
  BY <1>8, <1>9

(* What SettleInv says of the run_until at the head.                        *)
LEMMA LoopFacts ==
  ASSUME TestbedInv, SettleInv, Doing("until")
  PROVE  /\ todo # <<>> /\ failed = None /\ todo[1][1] = "until" /\ Arg = todo[1][2]
         /\ Head(todo) = todo[1]
         /\ 1 \in DOMAIN todo /\ 2 \in DOMAIN todo /\ todo[1][1] \notin Data
         /\ Arg \in Nat /\ now <= Arg
         /\ Inner(todo, 1) \/ Outer(todo, 1)
         /\ Inner(todo, 1) => Arg = now
         /\ Inner(todo, 1) /\ maxSettle >= 3 =>
              /\ todo[1][3] \in Nat /\ todo[3][2] \in Nat
              /\ \/ todo[3][2] >= 1 /\ Commands(bus) /\ Others(agenda) <= todo[1][3]
                 \/ todo[3][2] >= 2 /\ Others(agenda) = 0 /\ Len(bus) <= maxSettle
         /\ Outer(todo, 1) => /\ Calm(bus, agenda) /\ todo[2][2] = Arg
                              /\ Paced(Arg, todo[1][3], todo[2][3], agenda, now)
<1>0. /\ LoopsPaced(todo, agenda, now) /\ RestCalm(todo, bus, agenda) /\ RoundsLeft(todo, bus, agenda)
      /\ Loops(todo, now)
  BY UnderwayFacts DEF TestbedInv, CallsInv
<1>1. todo # <<>> /\ failed = None /\ todo[1][1] = "until" /\ Arg = todo[1][2] /\ Head(todo) = todo[1]
  BY DoingFacts
<1>2. /\ 1 \in DOMAIN todo /\ 2 \in DOMAIN todo
      /\ Inner(todo, 1) \/ Outer(todo, 1)
      /\ \A i \in DOMAIN todo : ~(i < 1)
  BY <1>1, RoundBelow
<1>3. todo[1][1] \notin Data
  BY <1>1 DEF Data, Plain
<1>4. Arg \in Nat /\ now <= Arg
  BY <1>0, <1>1, <1>2 DEF Loops
<1>5. Inner(todo, 1) => Arg = now
  BY <1>0, <1>1, <1>2 DEF LoopsPaced
<1>6. Outer(todo, 1) => todo[2][2] = Arg /\ Paced(Arg, todo[1][3], todo[2][3], agenda, now)
  <2>1. Outer(todo, 1) => /\ todo[1 + 1][2] = todo[1][2]
                          /\ Paced(todo[1][2], todo[1][3], todo[1 + 1][3], agenda, now)
    BY <1>0, <1>2 DEF LoopsPaced
  <2>2. 1 + 1 = 2
    OBVIOUS
  <2> QED
    BY <1>1, <2>1, <2>2
<1>7. Outer(todo, 1) => Calm(bus, agenda)
  BY <1>0, <1>1 DEF RestCalm
<1>8. ASSUME Inner(todo, 1), maxSettle >= 3
      PROVE  /\ todo[1][3] \in Nat /\ todo[3][2] \in Nat
             /\ \/ todo[3][2] >= 1 /\ Commands(bus) /\ Others(agenda) <= todo[1][3]
                \/ todo[3][2] >= 2 /\ Others(agenda) = 0 /\ Len(bus) <= maxSettle
  <2>1. First(todo, 1)
    BY <1>2, <1>3 DEF First
  <2>2. Counted(todo, 1, bus, agenda)
    BY <1>0, <1>2, <1>8, <2>1 DEF RoundsLeft
  <2>3. todo[1][3] \in Nat /\ todo[1 + 2][2] \in Nat /\ LoopCounts(todo, 1, bus, agenda)
    BY <1>8, <2>2 DEF Counted
  <2>4. 1 + 2 = 3
    OBVIOUS
  <2> QED
    BY <2>3, <2>4 DEF LoopCounts
<1> QED
  BY <1>1, <1>2, <1>3, <1>4, <1>5, <1>6, <1>7, <1>8

(* run_until ends: no event is due by its target, or its limit is met.      *)
LEMMA LoopEnds ==
  ASSUME TestbedInv, SettleInv, JumpToTarget \/ StopByLimit
  PROVE  SettleInv'
<1> DEFINE r == Tail(todo)
<1>0. /\ IsList(todo) /\ IsList(agenda) /\ ArmedOnce(agenda) /\ Agenda(agenda, now) /\ maxSettle \in Nat
      /\ Apart(agenda, now) /\ Chained(todo) /\ LoopsPaced(todo, agenda, now)
      /\ now \in Nat /\ Step \in Nat \ {0} /\ Loops(todo, now)
  BY ArmedFacts, UnderwayFacts DEF TestbedInv, CallsInv
<1>1. Doing("until") /\ Call(<<>>) /\ UNCHANGED <<agenda, bus>>
  BY DEF JumpToTarget, StopByLimit, engine
<1>2. /\ todo # <<>> /\ failed = None /\ todo[1][1] = "until" /\ Arg = todo[1][2]
      /\ Head(todo) = todo[1]
      /\ 1 \in DOMAIN todo /\ 2 \in DOMAIN todo /\ todo[1][1] \notin Data
      /\ Arg \in Nat /\ now <= Arg
      /\ Inner(todo, 1) \/ Outer(todo, 1)
      /\ Inner(todo, 1) => Arg = now
      /\ Inner(todo, 1) /\ maxSettle >= 3 =>
           /\ todo[1][3] \in Nat /\ todo[3][2] \in Nat
           /\ \/ todo[3][2] >= 1 /\ Commands(bus) /\ Others(agenda) <= todo[1][3]
              \/ todo[3][2] >= 2 /\ Others(agenda) = 0 /\ Len(bus) <= maxSettle
      /\ Outer(todo, 1) => /\ Calm(bus, agenda) /\ todo[2][2] = Arg
                           /\ Paced(Arg, todo[1][3], todo[2][3], agenda, now)
  BY <1>1, LoopFacts
<1>3. /\ IsList(r) /\ r # <<>> /\ 1 \in DOMAIN r /\ r[1] = todo[2]
      /\ r[1][1] \in {"drain", "reached"}
      /\ Inner(todo, 1) <=> r[1][1] = "drain"
      /\ r[1][1] = "drain" => r[2] = todo[3]
  BY <1>2, RoundBelow
<1>4. /\ Chained(r) /\ LoopsPaced(r, agenda, now) /\ \A p : First(r, p) => p = 1
  BY <1>0, <1>2, ChainedTail, PacedTail, NextFirst
<1> HIDE DEF r
<1>5. ~Inner(r, 1) /\ ~Outer(r, 1)
  BY <1>3 DEF Inner, Outer
<1>6. ASSUME Inner(todo, 1), now' = now, Others(agenda) = 0
      PROVE  Underway(r, bus, agenda, now)
  <2>1. r[1][1] = "drain"
    BY <1>3, <1>6
  <2>2. RestCalm(r, bus, agenda) /\ ReachedPaced(r, now)
    BY <1>5, <2>1 DEF RestCalm, Restful, ReachedPaced
  <2>3. ASSUME maxSettle >= 3
        PROVE  Counted(r, 1, bus, agenda)
    <3>1. r[2][2] \in Nat /\ DrainCounts(r, bus, agenda)
      BY <1>2, <1>3, <1>6, <2>1, <2>3 DEF DrainCounts
    <3> QED
      BY <1>5, <2>1, <3>1 DEF Counted
  <2>4. RoundsLeft(r, bus, agenda)
    BY <1>4, <2>3 DEF RoundsLeft
  <2> QED
    BY <1>0, <1>4, <2>2, <2>4 DEF Underway
<1>7. ASSUME Outer(todo, 1), NEW t, Apart(agenda, t), LoopsPaced(r, agenda, t), ReachedPaced(r, t)
      PROVE  Underway(r, bus, agenda, t)
  <2>1. RestCalm(r, bus, agenda)
    BY <1>2, <1>7 DEF RestCalm
  <2>2. r[1][1] = "reached"
    <3>1. ~Inner(todo, 1)
      BY <1>7 DEF Inner, Outer
    <3> QED
      BY <1>3, <3>1
  <2>3. RoundsLeft(r, bus, agenda)
    BY <1>3, <1>5, <2>2, OtherTop DEF Data, Plain
  <2> QED
    BY <1>4, <1>7, <2>1, <2>3 DEF Underway
<1>8. CASE JumpToTarget
  <2>1. ~DueBy(Arg) /\ now' = Arg
    BY <1>8 DEF JumpToTarget, MoveTo
  <2>2. \A e \in DOMAIN agenda : Arg < agenda[e].time
    BY <1>0, <1>2, <2>1, NotDue
  <2>3. CASE Inner(todo, 1)
    <3>1. now' = now /\ Others(agenda) = 0
      BY <1>0, <1>2, <2>1, <2>2, <2>3, CalmDue
    <3>2. Underway(Tail(todo), bus', agenda', now')
      BY <1>1, <1>6, <2>3, <3>1 DEF r
    <3> QED
      BY <1>1, <1>2, <3>2, PopDone
  <2>4. CASE Outer(todo, 1)
    <3>1. Apart(agenda, Arg)
      BY <1>0, <1>2, <2>2, ApartLater
    <3>2. LoopsPaced(r, agenda, Arg)
      <4>1. CASE Arg = now
        BY <1>4, <4>1
      <4>2. CASE Arg # now
        <5>1. NoLoop(r)
          BY <1>0, <1>2, <4>2, LoneLoop DEF r
        <5> QED
          BY <5>1, NoLoopPaced DEF NoLoop
      <4> QED
        BY <4>1, <4>2
    <3>3. ReachedPaced(r, Arg)
      BY <1>2, <1>3, <2>4 DEF ReachedPaced
    <3>4. Underway(Tail(todo), bus', agenda', now')
      BY <1>1, <1>7, <2>1, <2>4, <3>1, <3>2, <3>3 DEF r
    <3> QED
      BY <1>1, <1>2, <3>4, PopDone
  <2> QED
    BY <1>2, <2>3, <2>4
<1>9. CASE StopByLimit
  <2>1. DueBy(Arg) /\ Head(todo)[3] = 0 /\ now' = now
    BY <1>9 DEF StopByLimit, engine
  <2>2. /\ agenda # <<>> /\ 1 \in DOMAIN agenda /\ agenda[1].time \in Nat /\ agenda[1].time <= Arg
    <3>1. agenda # <<>> /\ Head(agenda).time <= Arg
      BY <2>1 DEF DueBy
    <3> QED
      BY <1>0, <3>1, AgendaTail
  <2>3. CASE Inner(todo, 1)
    <3>1. ~(now < agenda[1].time)
      BY <1>0, <1>2, <2>2, <2>3
    <3>2. Others(agenda) # 0 /\ Others(agenda) \in Nat
      BY <1>0, <2>2, <3>1, CalmDue, OthersKinds
    <3>3. ~(maxSettle >= 3)
      BY <1>2, <2>1, <2>3, <3>2
    <3>4. r[1][1] = "drain"
      BY <1>3, <2>3
    <3>5. RestCalm(r, bus, agenda) /\ ReachedPaced(r, now)
      BY <1>5, <3>4 DEF RestCalm, Restful, ReachedPaced
    <3>6. Underway(r, bus, agenda, now)
      BY <1>0, <1>4, <3>3, <3>5 DEF Underway, RoundsLeft
    <3>7. Underway(Tail(todo), bus', agenda', now')
      BY <1>1, <2>1, <3>6 DEF r
    <3> QED
      BY <1>1, <1>2, <3>7, PopDone
  <2>4. CASE Outer(todo, 1)
    <3> DEFINE d == todo[2][3]
    <3>1. Others(agenda) = 0 /\ Paced(Arg, 0, d, agenda, now)
      BY <1>2, <2>1, <2>4 DEF Calm
    <3>2. agenda[1].handlers = PhysicalStep
      BY <1>0, <2>2, <3>1, OthersKinds
    <3>3. 1 \in Armed(agenda)
      BY <2>2, <3>2 DEF Armed
    <3> HIDE DEF d
    <3>4. d \in Int /\ Arg - d + (maxSettle - 0) * Step < agenda[1].time
      BY <3>1, <3>3 DEF Paced, StepAfter
    <3> DEFINE m == maxSettle * Step
    <3>5. m \in Nat /\ (maxSettle - 0) * Step = m
      BY <1>0
    <3> HIDE DEF m
    <3>6. Arg - d + m < agenda[1].time
      BY <3>4, <3>5
    <3>7. d > m
      BY <1>2, <2>2, <3>4, <3>5, <3>6
    <3>8. ReachedPaced(r, now)
      BY <1>3, <3>7 DEF ReachedPaced, d, m
    <3>9. Underway(Tail(todo), bus', agenda', now')
      BY <1>0, <1>1, <1>4, <1>7, <2>1, <2>4, <3>8 DEF r
    <3> QED
      BY <1>1, <1>2, <3>9, PopDone
  <2> QED
    BY <1>2, <2>3, <2>4
<1> QED
  BY <1>8, <1>9

(* Lists put together in either order.                                      *)
LEMMA ConcatAssoc ==
  ASSUME NEW a, IsList(a), NEW b, IsList(b), NEW c, IsList(c)
  PROVE  (a \o b) \o c = a \o (b \o c)
<1> DEFINE S == {a[i] : i \in DOMAIN a} \cup {b[i] : i \in DOMAIN b} \cup {c[i] : i \in DOMAIN c}
<1>1. a \in Seq(S) /\ b \in Seq(S) /\ c \in Seq(S)
  BY DEF IsList
<1> HIDE DEF S
<1> QED
  BY <1>1

(* The loop that goes on after an event stands where it stood.              *)
LEMMA LoopGoesOn ==
  ASSUME NEW s, IsList(s), s # <<>>, s[1][1] = "until", Chained(s), NEW u, u[1] = "until"
  PROVE  LET r == <<u>> \o Tail(s)
         IN  /\ IsList(r) /\ r # <<>> /\ DOMAIN r = DOMAIN s /\ r[1] = u /\ 1 \in DOMAIN r
             /\ \A i \in DOMAIN s : i # 1 => r[i] = s[i]
             /\ Chained(r)
             /\ \A i : (Inner(r, i) <=> Inner(s, i)) /\ (Outer(r, i) <=> Outer(s, i))
<1> DEFINE r == <<u>> \o Tail(s)
<1>1. IsList(<<u>>) /\ Len(<<u>>) = 1 /\ DOMAIN <<u>> = {1} /\ <<u>>[1] = u
  BY SingleShape
<1>2. PICK a : a = <<u>>
  OBVIOUS
<1>3. /\ IsList(r) /\ Len(s) \in Nat \ {0} /\ DOMAIN s = 1..Len(s)
      /\ DOMAIN r = 1..(Len(<<u>>) + Len(s) - 1)
      /\ \A i \in DOMAIN r : i <= Len(<<u>>) => r[i] = <<u>>[i]
      /\ \A i \in DOMAIN r : i > Len(<<u>>) => r[i] = s[i - Len(<<u>>) + 1]
  <2>1. IsList(a) /\ IsList(s) /\ s # <<>>
    BY <1>1, <1>2
  <2>2. /\ IsList(a \o Tail(s)) /\ Len(s) \in Nat \ {0} /\ DOMAIN s = 1..Len(s)
        /\ DOMAIN (a \o Tail(s)) = 1..(Len(a) + Len(s) - 1)
        /\ \A i \in DOMAIN (a \o Tail(s)) : i <= Len(a) => i \in DOMAIN a /\ (a \o Tail(s))[i] = a[i]
        /\ \A i \in DOMAIN (a \o Tail(s)) :
             i > Len(a) => /\ i - Len(a) + 1 \in DOMAIN s /\ i - Len(a) + 1 > 1
                           /\ (a \o Tail(s))[i] = s[i - Len(a) + 1]
    BY ONLY <2>1, CallShape
  <2> QED
    BY <1>2, <2>2
<1> HIDE DEF r
<1>4. DOMAIN r = DOMAIN s /\ 1 \in DOMAIN r
  BY <1>1, <1>3
<1>5. r[1] = u
  BY <1>1, <1>3, <1>4
<1>6. ASSUME NEW i \in DOMAIN s, i # 1
      PROVE  r[i] = s[i]
  <2>1. i > 1 /\ i - 1 + 1 = i
    BY <1>3, <1>6
  <2> QED
    BY <1>1, <1>3, <1>4, <2>1
<1>7. \A i \in DOMAIN s : r[i][1] = s[i][1]
  BY <1>5, <1>6
<1>8. \A i : (Inner(r, i) <=> Inner(s, i)) /\ (Outer(r, i) <=> Outer(s, i))
  BY <1>4, <1>7, Zenon DEF Inner, Outer
<1>9. ASSUME NEW i \in DOMAIN r, i + 1 \in DOMAIN r
      PROVE  Joined(r[i][1], r, i + 1)
  <2>1. Joined(s[i][1], s, i + 1)
    BY <1>4, <1>9 DEF Chained
  <2>2. i + 1 # 1 /\ i + 1 \in DOMAIN s /\ i \in DOMAIN s
    BY <1>3, <1>4, <1>9
  <2>3. r[i + 1] = s[i + 1] /\ r[i][1] = s[i][1]
    BY <1>6, <1>7, <2>2
  <2>4. Emits(s, i + 1, 1) => Emits(r, i + 1, 1)
    <3>1. Len(TelemetryOrder) \in Nat
      BY TestbedAssumption, ListShape
    <3>2. \A k \in 1..Len(TelemetryOrder) : i + 1 + k - 1 # 1
      BY <1>3, <2>2
    <3>3. i + 1 + Len(TelemetryOrder) + 1 - 1 # 1
      BY <1>3, <2>2, <3>1
    <3> QED
      BY <1>4, <1>6, <3>2, <3>3, Zenon DEF Emits
  <2> QED
    BY <1>8, <2>1, <2>3, <2>4, Zenon DEF Joined
<1>10. r # <<>>
  BY <1>3, <1>4, ListShape
<1> QED
  BY <1>3, <1>4, <1>5, <1>6, <1>8, <1>9, <1>10 DEF Chained, r

(* The next task that counts is the loop below quiet handlers.              *)
LEMMA QuietAbove ==
  ASSUME NEW h, Quiet(h), NEW r, IsList(r), r # <<>>, r[1][1] = "until"
  PROVE  /\ IsList(h \o r) /\ Len(h) \in Nat
         /\ \A p : First(h \o r, p) => p = Len(h) + 1
         /\ Len(h) + 1 \in DOMAIN (h \o r) /\ (h \o r)[Len(h) + 1] = r[1]
         /\ Inner(h \o r, Len(h) + 1) <=> Inner(r, 1)
         /\ \A i \in DOMAIN r : (h \o r)[Len(h) + i] = r[i]
         /\ Above(h \o r, Len(h) + 1, Plain)
<1> DEFINE s == h \o r
           k == Len(h)
<1>1. IsList(h) /\ IsList(r) /\ \A i \in DOMAIN h : h[i][1] \in Plain
  BY DEF Quiet
<1>2. /\ IsList(s) /\ DOMAIN s = 1..(k + Len(r)) /\ Len(r) \in Nat /\ k \in Nat
      /\ \A i \in DOMAIN h : s[i] = h[i]
  BY <1>1, ConcatShape
<1>3. Below(r, k, s) /\ DOMAIN h = 1..k
  BY <1>1, ConcatBelow
<1>4. 1 \in DOMAIN r
  BY ListShape
<1> HIDE DEF s, k
<1>5. k + 1 \in DOMAIN s /\ s[k + 1] = r[1] /\ (Inner(s, k + 1) <=> Inner(r, 1))
  BY <1>3, <1>4, BelowSame
<1>6. \A i \in DOMAIN s : i < k + 1 => s[i][1] \in Plain
  <2>1. \A i \in DOMAIN s : i < k + 1 => i \in DOMAIN h
    BY <1>2, <1>3
  <2> QED
    BY <1>1, <1>2, <2>1
<1>7. ASSUME NEW p, First(s, p), p # k + 1
      PROVE  FALSE
  <2>1. p \in DOMAIN s /\ s[p][1] \notin Data
    BY <1>7 DEF First
  <2>2. ~(p < k + 1)
    BY <1>6, <2>1 DEF Data
  <2>3. k + 1 < p
    BY <1>2, <1>7, <2>1, <2>2
  <2>4. s[k + 1][1] \in Data
    BY <1>5, <1>7, <2>3 DEF First
  <2> QED
    BY <1>5, <2>4 DEF Data, Plain
<1>8. \A i \in DOMAIN r : s[k + i] = r[i]
  BY <1>3 DEF Below
<1> QED
  BY <1>2, <1>5, <1>6, <1>7, <1>8 DEF Above, s, k

(* run_until dispatches an event of this instant.                           *)
LEMMA QuietDispatched ==
  ASSUME TestbedInv, SettleInv, Dispatch, agenda[1].handlers # PhysicalStep
  PROVE  SettleInv'
<1> DEFINE h == Head(agenda).handlers
           u == <<"until", Arg, Head(todo)[3] - 1>>
           r == <<u>> \o Tail(todo)
           g == Tail(agenda)
<1>0. /\ IsList(todo) /\ IsList(agenda) /\ ArmedOnce(agenda) /\ Agenda(agenda, now) /\ maxSettle \in Nat
      /\ Apart(agenda, now) /\ Chained(todo) /\ LoopsPaced(todo, agenda, now) /\ maxSettle \in Limit
      /\ now \in Nat /\ Step \in Nat \ {0}
  BY ArmedFacts, UnderwayFacts
<1>1. /\ Doing("until") /\ DueBy(Arg) /\ Head(todo)[3] > 0
      /\ agenda' = g /\ Call(h \o <<u>>) /\ bus' = bus /\ now' = Head(agenda).time
  BY DEF Dispatch, MoveTo
<1>2. agenda # <<>> /\ Head(agenda) = agenda[1] /\ 1 \in DOMAIN agenda /\ agenda[1].time \in Nat
  <2>1. agenda # <<>>
    BY <1>1 DEF DueBy
  <2> QED
    BY <1>0, <2>1, AgendaTail
<1>3. agenda[1].time = now /\ Apart(g, now) /\ IsList(g)
  BY <1>0, <1>2, ApartTail, TailShape
<1>4. Quiet(h)
  BY <1>0, <1>2 DEF Agenda
<1>5. Others(agenda) # 0 /\ Others(agenda) \in Nat /\ Others(g) = Others(agenda) - 1
  BY <1>0, <1>2, OthersKinds, OthersTail
<1>6. /\ todo # <<>> /\ failed = None /\ todo[1][1] = "until" /\ Arg = now /\ Head(todo) = todo[1]
      /\ Inner(todo, 1) /\ ~Outer(todo, 1)
      /\ maxSettle >= 3 => /\ todo[1][3] \in Nat /\ todo[3][2] \in Nat
                           /\ todo[3][2] >= 1 /\ Commands(bus) /\ Others(agenda) <= todo[1][3]
  <2>1. ~Calm(bus, agenda)
    BY <1>5 DEF Calm
  <2> QED
    BY <1>1, <1>5, <2>1, LoopFacts
<1>7. 3 \in DOMAIN todo /\ 2 \in DOMAIN todo
  <2>1. todo[2][1] = "drain"
    BY <1>6, RoundBelow
  <2> QED
    BY <1>6, <2>1, RoundBelow
<1>8. u[1] = "until" /\ u[2] = now /\ u[3] = todo[1][3] - 1
  BY <1>6
<1> HIDE DEF u, h, g
<1>9. /\ IsList(r) /\ r # <<>> /\ DOMAIN r = DOMAIN todo /\ r[1] = u /\ 1 \in DOMAIN r
      /\ \A i \in DOMAIN todo : i # 1 => r[i] = todo[i]
      /\ Chained(r)
      /\ \A i : (Inner(r, i) <=> Inner(todo, i)) /\ (Outer(r, i) <=> Outer(todo, i))
  BY <1>0, <1>6, <1>8, LoopGoesOn
<1>10. todo' = h \o r /\ maxSettle' = maxSettle /\ failed' = None
  <2>1. todo' = (h \o <<u>>) \o Tail(todo) /\ maxSettle' = maxSettle /\ failed' = None
    BY <1>1, <1>6 DEF Call
  <2>2. IsList(h) /\ IsList(<<u>>) /\ IsList(Tail(todo))
    BY <1>0, <1>4, <1>6, SingleShape, TailShape DEF Quiet
  <2>3. (h \o <<u>>) \o Tail(todo) = h \o (<<u>> \o Tail(todo))
    <3>1. PICK a, b : a = <<u>> /\ b = Tail(todo)
      OBVIOUS
    <3>2. IsList(h) /\ IsList(a) /\ IsList(b)
      BY <2>2, <3>1
    <3>3. (h \o a) \o b = h \o (a \o b)
      BY ONLY <3>2, ConcatAssoc
    <3> QED
      BY <3>1, <3>3
  <2> QED
    BY <2>1, <2>3
<1> HIDE DEF r
<1>11. LoopsPaced(todo, g, now)
  <2>1. ArmedOnce(agenda) /\ (Armed(agenda) = {} => Armed(g) = {})
        /\ \A t : ArmedAt(agenda, t) => ArmedAt(g, t)
    BY <1>0, <1>2, ArmedTail DEF g
  <2>2. \A x, t : StepAfter(x, agenda, t) => StepAfter(x, g, t)
    BY <2>1, AfterKept
  <2> QED
    BY <1>0, <2>2, PacedKept
<1>12. LoopsPaced(r, g, now)
  <2>1. ASSUME NEW i \in DOMAIN r, Inner(r, i)
        PROVE  r[i][2] = now
    <3>1. CASE i = 1
      BY <1>8, <1>9, <3>1
    <3>2. CASE i # 1
      BY <1>9, <1>11, <2>1, <3>2 DEF LoopsPaced
    <3> QED
      BY <3>1, <3>2
  <2>2. ASSUME NEW i \in DOMAIN r, Outer(r, i)
        PROVE  r[i + 1][2] = r[i][2] /\ Paced(r[i][2], r[i][3], r[i + 1][3], g, now)
    <3>1. Outer(todo, i) /\ i \in DOMAIN todo /\ i + 1 \in DOMAIN todo
      BY <1>9, <2>2 DEF Outer
    <3>2. i # 1
      BY <1>6, <3>1
    <3>3. i + 1 # 1
      BY <1>0, <3>1, ListShape
    <3>4. r[i] = todo[i] /\ r[i + 1] = todo[i + 1]
      BY <1>9, <3>1, <3>2, <3>3
    <3> QED
      BY <1>11, <3>1, <3>4 DEF LoopsPaced
  <2> QED
    BY <2>1, <2>2 DEF LoopsPaced
<1>13. /\ IsList(h \o r) /\ Len(h) \in Nat
       /\ \A p : First(h \o r, p) => p = Len(h) + 1
       /\ Len(h) + 1 \in DOMAIN (h \o r) /\ (h \o r)[Len(h) + 1] = r[1]
       /\ Inner(h \o r, Len(h) + 1) <=> Inner(r, 1)
       /\ \A i \in DOMAIN r : (h \o r)[Len(h) + i] = r[i]
       /\ Above(h \o r, Len(h) + 1, Plain)
  BY <1>4, <1>8, <1>9, QuietAbove
<1>14. PICK s, p : s = h \o r /\ p = Len(h) + 1
  OBVIOUS
<1>15. ASSUME maxSettle >= 3
       PROVE  Counted(s, p, bus, g)
  <2>1. /\ todo[1][3] \in Nat /\ todo[3][2] \in Nat
        /\ todo[3][2] >= 1 /\ Commands(bus) /\ Others(agenda) <= todo[1][3]
    BY <1>6, <1>15
  <2>2. s[p] = u /\ s[p][1] = "until"
    BY <1>8, <1>9, <1>13, <1>14
  <2>3. s[p + 2] = todo[3]
    <3>1. 3 \in DOMAIN r /\ r[3] = todo[3] /\ p + 2 = Len(h) + 3
      BY <1>7, <1>9, <1>13, <1>14
    <3> QED
      BY <1>13, <1>14, <3>1
  <2>4. s[p][3] \in Nat /\ Others(g) <= s[p][3]
    <3>1. s[p][3] = todo[1][3] - 1
      BY <1>8, <2>2
    <3> QED
      BY <1>1, <1>5, <1>6, <2>1, <3>1
  <2>5. Above(s, p, Plain)
    BY <1>13, <1>14
  <2>6. LoopCounts(s, p, bus, g)
    BY <2>1, <2>3, <2>4, <2>5, Zenon DEF LoopCounts
  <2> QED
    BY <2>1, <2>2, <2>3, <2>4, <2>6 DEF Counted
<1>16. RoundsLeft(s, bus, g)
  BY <1>13, <1>14, <1>15 DEF RoundsLeft
<1>17. Underway(s, bus, g, now)
  <2>1. CASE h = <<>>
    <3>1. s = r
      BY <1>9, <1>14, <2>1, NothingBefore
    <3>2. RestCalm(r, bus, g) /\ ReachedPaced(r, now)
      BY <1>6, <1>8, <1>9 DEF RestCalm, Restful, ReachedPaced
    <3> QED
      BY <1>3, <1>9, <1>12, <1>16, <3>1, <3>2 DEF Underway
  <2>2. CASE h # <<>>
    <3>1. /\ Chained(h) /\ IsList(h) /\ h[1][1] \in Plain /\ h[Len(h)][1] \in Plain
          /\ \A i \in DOMAIN h : h[i][1] # "until"
      BY <1>4, <2>2, QuietChained DEF Quiet
    <3>2. LoopsPaced(h, g, now) /\ ~Outer(h, 1)
      BY <3>1, NoLoopPaced
    <3>3. h[Len(h)][1] # "until" /\ h[1][1] # "reached" /\ h[1][1] \notin Restful
      BY <3>1 DEF Plain, Restful
    <3>4. RestCalm(h, bus, g)
      BY <3>2, <3>3 DEF RestCalm
    <3>5. Joined(h[Len(h)][1], r, 1)
      <4>1. Plain \subseteq Before("until") /\ "arm" \notin Plain
        BY DEF Before, Plain
      <4>2. r[1][1] = "until" /\ ~Outer(r, 1)
        BY <1>6, <1>8, <1>9
      <4> QED
        BY <3>1, <4>1, <4>2 DEF Joined
    <3>6. RoundsLeft(h \o r, bus, g)
      BY <1>14, <1>16
    <3>7. Underway(h \o r, bus, g, now)
      BY <1>3, <1>9, <1>12, <2>2, <3>1, <3>2, <3>3, <3>4, <3>5, <3>6, PushUnderway
    <3> QED
      BY <1>14, <3>7
  <2> QED
    BY <2>1, <2>2
<1>18. Underway(todo', bus', agenda', now')
  <2>1. todo' = s /\ bus' = bus /\ agenda' = g /\ now' = now
    BY <1>1, <1>2, <1>3, <1>10, <1>14
  <2> QED
    BY <1>17, <2>1
<1> QED
  BY <1>0, <1>10, <1>18, SettlePrimed

(* One event less, one step later.                                          *)
LEMMA OneStepLater ==
  ASSUME NEW m \in Nat, NEW n \in Int, NEW x \in Int, NEW t \in Int, Step \in Nat,
         x + (m - n) * Step < t
  PROVE  x + (m - (n - 1)) * Step < t + Step
<1> DEFINE k == m - n
           y == k * Step
<1>1. k \in Int /\ m - (n - 1) = k + 1 /\ x + y < t
  OBVIOUS
<1> HIDE DEF k
<1>2. (k + 1) * Step = y + Step /\ y \in Int
  BY <1>1
<1> HIDE DEF y
<1>3. x + (y + Step) < t + Step
  BY <1>1, <1>2
<1> QED
  BY <1>1, <1>2, <1>3

(* run_until dispatches the physical step: nothing else waits.              *)
LEMMA StepDispatched ==
  ASSUME TestbedInv, SettleInv, Dispatch, agenda[1].handlers = PhysicalStep
  PROVE  SettleInv'
<1> DEFINE u == <<"until", Arg, Head(todo)[3] - 1>>
           r == <<u>> \o Tail(todo)
           g == Tail(agenda)
           t == Head(agenda).time
           p == PhysicalStep
<1>0. /\ IsList(todo) /\ IsList(agenda) /\ ArmedOnce(agenda) /\ Agenda(agenda, now) /\ maxSettle \in Nat
      /\ Apart(agenda, now) /\ Chained(todo) /\ LoopsPaced(todo, agenda, now) /\ maxSettle \in Limit
      /\ now \in Nat /\ Step \in Nat \ {0} /\ Loops(todo, now)
  BY ArmedFacts, UnderwayFacts DEF TestbedInv, CallsInv
<1>1. /\ Doing("until") /\ DueBy(Arg) /\ Head(todo)[3] > 0
      /\ agenda' = g /\ Call(Head(agenda).handlers \o <<u>>) /\ bus' = bus /\ now' = t
  BY DEF Dispatch, MoveTo
<1>2. /\ agenda # <<>> /\ Head(agenda) = agenda[1] /\ 1 \in DOMAIN agenda /\ t \in Nat
      /\ t = agenda[1].time /\ t <= Arg
  <2>1. agenda # <<>> /\ t <= Arg
    BY <1>1 DEF DueBy
  <2> QED
    BY <1>0, <2>1, AgendaTail
<1>3. now < t
  BY <1>0, <1>2 DEF Apart
<1>4. /\ todo # <<>> /\ failed = None /\ todo[1][1] = "until" /\ Arg = todo[1][2] /\ Head(todo) = todo[1]
      /\ Arg \in Nat /\ 1 \in DOMAIN todo /\ 2 \in DOMAIN todo
      /\ Outer(todo, 1) /\ Calm(bus, agenda) /\ todo[2][2] = Arg
      /\ Paced(Arg, todo[1][3], todo[2][3], agenda, now)
  <2>1. Arg # now
    BY <1>0, <1>2, <1>3
  <2> QED
    BY <1>1, <2>1, LoopFacts
<1>5. NoLoop(Tail(todo))
  <2>1. todo[1][2] # now
    BY <1>0, <1>2, <1>3, <1>4
  <2> QED
    BY <1>0, <1>4, <2>1, LoneLoop
<1>6. Apart(g, t) /\ Armed(g) = {} /\ Others(g) = 0 /\ bus = <<>>
  BY <1>0, <1>2, <1>4, ApartTail, OthersTail DEF Calm
<1>7. u[1] = "until" /\ u[2] = Arg /\ u[3] = todo[1][3] - 1
  BY <1>4
<1> HIDE DEF u, g, t
<1>8. /\ IsList(r) /\ r # <<>> /\ DOMAIN r = DOMAIN todo /\ r[1] = u /\ 1 \in DOMAIN r
      /\ \A i \in DOMAIN todo : i # 1 => r[i] = todo[i]
      /\ Chained(r)
      /\ \A i : (Inner(r, i) <=> Inner(todo, i)) /\ (Outer(r, i) <=> Outer(todo, i))
  BY <1>0, <1>4, <1>7, LoopGoesOn
<1>9. todo' = p \o r /\ maxSettle' = maxSettle /\ failed' = None
  <2>1. todo' = (p \o <<u>>) \o Tail(todo) /\ maxSettle' = maxSettle /\ failed' = None
    BY <1>1, <1>2, <1>4 DEF Call
  <2>2. IsList(p) /\ IsList(<<u>>) /\ IsList(Tail(todo))
    BY <1>0, <1>4, StepChained, SingleShape, TailShape
  <2> HIDE DEF p
  <2>3. (p \o <<u>>) \o Tail(todo) = p \o (<<u>> \o Tail(todo))
    <3>1. PICK a, b : a = <<u>> /\ b = Tail(todo)
      OBVIOUS
    <3>2. IsList(p) /\ IsList(a) /\ IsList(b)
      BY <2>2, <3>1
    <3>3. (p \o a) \o b = p \o (a \o b)
      BY ONLY <3>2, ConcatAssoc
    <3> QED
      BY <3>1, <3>3
  <2> QED
    BY <2>1, <2>3
<1>10. \A i \in DOMAIN r : r[i][1] = "until" => i = 1
  <2>1. /\ DOMAIN todo = 1..Len(todo) /\ Len(todo) \in Nat \ {0}
        /\ DOMAIN Tail(todo) = 1..(Len(todo) - 1)
        /\ \A i \in DOMAIN Tail(todo) : Tail(todo)[i] = todo[i + 1]
    BY <1>0, <1>4, TailShape
  <2>2. ASSUME NEW i \in DOMAIN todo, i # 1
        PROVE  todo[i][1] # "until"
    <3>1. i - 1 \in DOMAIN Tail(todo) /\ (i - 1) + 1 = i
      BY <2>1, <2>2
    <3> QED
      BY <1>5, <2>1, <3>1 DEF NoLoop
  <2> HIDE DEF r
  <2> QED
    BY <1>8, <2>2
<1> HIDE DEF r
<1>11. LoopsPaced(r, g, t)
  <2> DEFINE n == todo[1][3]
             d == todo[2][3]
             x == Arg - d
  <2>1. r[1 + 1] = todo[2] /\ Outer(r, 1) /\ ~Inner(r, 1)
    <3>1. 1 + 1 = 2 /\ 2 # 1
      OBVIOUS
    <3>2. Outer(r, 1) /\ r[2] = todo[2]
      BY <1>4, <1>8, <3>1
    <3> QED
      BY <3>1, <3>2 DEF Inner, Outer
  <2>2. n \in Int /\ d \in Int /\ n <= maxSettle /\ StepAfter(x + (maxSettle - n) * Step, agenda, now)
    BY <1>4 DEF Paced
  <2>3. 1 \in Armed(agenda)
    BY <1>2 DEF Armed
  <2>4. x + (maxSettle - n) * Step < t
    BY <1>2, <2>2, <2>3 DEF StepAfter
  <2>5. x \in Int
    BY <1>4, <2>2
  <2> HIDE DEF n, d, x
  <2>6. x + (maxSettle - (n - 1)) * Step < t + Step
    BY <1>0, <1>2, <2>2, <2>4, <2>5, OneStepLater
  <2>7. StepAfter(x + (maxSettle - (n - 1)) * Step, g, t)
    BY <1>6, <2>6 DEF StepAfter
  <2>8. Paced(Arg, n - 1, d, g, t)
    BY <1>0, <1>4, <2>2, <2>7 DEF Paced, x
  <2>9. r[1 + 1][2] = r[1][2] /\ Paced(r[1][2], r[1][3], r[1 + 1][3], g, t)
    BY <1>4, <1>7, <1>8, <2>1, <2>8 DEF n, d
  <2>10. \A i \in DOMAIN r : Inner(r, i) \/ Outer(r, i) => i = 1
    BY <1>10 DEF Inner, Outer
  <2> QED
    BY <2>1, <2>9, <2>10 DEF LoopsPaced
<1>12. /\ IsList(p) /\ p # <<>> /\ Chained(p) /\ p[1][1] = "settle" /\ p[1][2] = maxSettle
       /\ p[Len(p)][1] = "arm" /\ \A i \in DOMAIN p : p[i][1] # "until"
  <2>1. /\ IsList(p) /\ p # <<>> /\ Chained(p) /\ p[1] = <<"settle", maxSettle>>
        /\ p[Len(p)][1] = "arm" /\ \A i \in DOMAIN p : p[i][1] # "until"
    BY StepChained
  <2> HIDE DEF p
  <2> QED
    BY <2>1
<1> HIDE DEF p
<1>13. Joined(p[Len(p)][1], r, 1)
  <2>1. "arm" \in Before("until")
    BY DEF Before
  <2>2. r[1][1] = "until" /\ Outer(r, 1)
    BY <1>4, <1>7, <1>8
  <2> QED
    BY <1>12, <2>1, <2>2 DEF Joined
<1>14. LoopsPaced(p, g, t) /\ ~Outer(p, 1)
  BY <1>12, NoLoopPaced
<1>15. RestCalm(p, <<>>, g)
  BY <1>12, <1>14 DEF RestCalm, Restful
<1>16. PICK s : s = p \o r
  OBVIOUS
<1>17. IsList(s) /\ s # <<>> /\ s[1] = p[1]
  <2>1. 1 \in DOMAIN p /\ IsList(p) /\ IsList(r)
    BY <1>8, <1>12, ListShape
  <2>2. IsList(p \o r)
    BY ONLY <2>1, ConcatShape
  <2>3. 1 \in DOMAIN (p \o r) /\ (p \o r)[1] = p[1]
    BY ONLY <2>1, ConcatBelow
  <2>4. IsList(s) /\ 1 \in DOMAIN s /\ s[1] = p[1]
    BY <1>16, <2>2, <2>3
  <2> QED
    BY <2>4, ListShape
<1>18. RoundsLeft(s, <<>>, g)
  BY <1>0, <1>6, <1>12, <1>17, SettleTop
<1>19. RoundsLeft(p \o r, <<>>, g) /\ p[Len(p)][1] # "until" /\ p[1][1] # "reached"
  BY <1>12, <1>16, <1>18
<1>20. Underway(p \o r, <<>>, g, t)
  BY <1>6, <1>8, <1>11, <1>12, <1>13, <1>14, <1>15, <1>19, PushUnderway
<1>21. Underway(todo', bus', agenda', now')
  BY <1>1, <1>6, <1>9, <1>20
<1> QED
  BY <1>0, <1>9, <1>21, SettlePrimed

-----------------------------------------------------------------------------
(* A run starts with the first step armed and nothing else waiting.         *)
LEMMA SettleInit == ASSUME Init PROVE SettleInv
<1> DEFINE event == [time |-> Step, handlers |-> PhysicalStep]
<1>1. event.time = Step /\ event.handlers = PhysicalStep
  OBVIOUS
<1> HIDE DEF event
<1>2. /\ maxSettle \in Limit /\ now = 0 /\ agenda = <<event>> /\ bus = <<>> /\ todo = <<>>
      /\ failed = None
  BY DEF Init, event
<1>3. DOMAIN <<event>> = {1} /\ <<event>>[1] = event
  BY SingleShape
<1>4. Apart(agenda, now)
  BY <1>1, <1>2, <1>3, TestbedAssumption DEF Apart
<1>5. DOMAIN todo = {}
  BY <1>2, NothingShape
<1>6. /\ Chained(todo) /\ RestCalm(todo, bus, agenda) /\ LoopsPaced(todo, agenda, now)
      /\ ReachedPaced(todo, now) /\ RoundsLeft(todo, bus, agenda)
  BY <1>2, <1>5 DEF Chained, RestCalm, LoopsPaced, ReachedPaced, RoundsLeft
<1>7. FeedbackDies
  BY <1>2, TestbedAssumption DEF FeedbackDies
<1> QED
  BY <1>2, <1>4, <1>6, <1>7 DEF SettleInv, Underway

(* Every action keeps what the next theorem states.                         *)
LEMMA SettleStep ==
  ASSUME ReportsFit, TestbedInv, SettleInv, [Next]_vars
  PROVE  SettleInv'
<1>1. CASE UNCHANGED vars
  <2>1. UNCHANGED <<maxSettle, todo, bus, agenda, now, failed>>
    BY <1>1 DEF vars, engine
  <2>2. FeedbackDies'
    BY <2>1 DEF SettleInv, FeedbackDies
  <2> QED
    BY <2>1, <2>2, SettleStays
<1>2. CASE Dispatch
  BY <1>2, QuietDispatched, StepDispatched
<1>3. CASE WaitStep \/ InjectFaultStep \/ SendCommandStep \/ AssertStep
  BY <1>3, BeginActions
<1> QED
  BY <1>1, <1>2, <1>3, SettleActions, LoopEnds, DrainActions, DataActions, CalmActions,
     EmitActions, CheckActions DEF Next, Run

(* What bounds the loops of _run_current_events and wait at every moment of *)
(* a run, for a limit of three or more events.  A settle still has as many  *)
(* rounds as its work needs: three while telemetry lies on the bus, two     *)
(* while it is delivered and its events are dispatched, one once only       *)
(* commands are left.  A run_until of it has no more events of this instant *)
(* before it than it may dispatch.  And for any limit, every event that the *)
(* run_until of a wait has dispatched was a physical step.                  *)
THEOREM SettleInvariant ==
  ASSUME ReportsFit
  PROVE  Spec => []SettleInv
<1>1. Init => SettleInv
  BY SettleInit
<1>2. TestbedInv /\ SettleInv /\ [Next]_vars => SettleInv'
  BY SettleStep
<1> QED
  BY <1>1, <1>2, TestbedInvariant, PTL DEF Spec

(* _run_current_events raises "simulation did not settle" only when it has  *)
(* less than three rounds, whatever telemetry, rules, commands and faults   *)
(* an instant brings; and a wait runs into the event limit of run_until     *)
(* only if it spans more physical steps than the limit.                     *)
THEOREM SettlesAndWaitsEnd ==
  ASSUME ReportsFit
  PROVE  Spec => []FeedbackDies
<1>1. SettleInv => FeedbackDies
  BY DEF SettleInv
<1> QED
  BY <1>1, SettleInvariant, PTL
=============================================================================
