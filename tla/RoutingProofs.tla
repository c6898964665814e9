--------------------------- MODULE RoutingProofs ----------------------------
(***************************************************************************)
(* Theorems about Routing for every set of setups, registrations, steps    *)
(* and arguments, and any amount of traffic.                               *)
(*                                                                         *)
(* The first part is about a setup alone: what validation promises of its  *)
(* routes, and of the steps of a scenario.                                 *)
(*                                                                         *)
(* Every step of a run has one of four effects on the packets: none, one   *)
(* packet is sent, everything waiting is drained, or the first drained     *)
(* frame is dealt with.  StepEffects shows that; the invariants are then   *)
(* shown effect by effect, not action by action.                           *)
(***************************************************************************)
EXTENDS Routing, WellFoundedInduction, TLAPS

-----------------------------------------------------------------------------
(* Routes of a setup.                                                        *)

(* A singleton's element is the one chosen from it.                         *)
LEMMA SingleElement ==
  ASSUME NEW S, NEW x \in S, Single(S)
  PROVE  S = {x} /\ TheOne(S) = x
<1>1. PICK y : S = {y}
  BY DEF Single
<1>2. TheOne(S) \in S
  BY <1>1 DEF TheOne
<1> QED
  BY <1>1, <1>2

(* parser.py _validate_command_reference against runner.py                  *)
(* _resolve_command_route: a step that passes validation resolves to one    *)
(* route, whatever the setup.                                               *)
THEOREM ValidStepResolves ==
  ASSUME NEW s, NEW step, ValidCommandReference(s, step)
  PROVE  Single(StepCandidates(s, step))
<1> DEFINE named == {n \in DOMAIN s.nodes : step.command \in DOMAIN s.nodes[n].commands}
           n0 == IF step.source = None THEN TheOne(named) ELSE step.source
           r0 == CommandRoute(s, n0, step.command)
<1>1. n0 \in named /\ (step.source = None => named = {n0}) /\ (step.source # None => n0 = step.source)
  <2>1. CASE step.source = None
    <3>1. PICK y : named = {y}
      BY <2>1 DEF ValidCommandReference, Single
    <3>2. TheOne(named) = y
      BY <3>1 DEF TheOne
    <3> QED
      BY <2>1, <3>1, <3>2
  <2>2. CASE step.source # None
    BY <2>2 DEF ValidCommandReference
  <2> QED
    BY <2>1, <2>2
<1>2. step.target # None => step.target = s.nodes[n0].commands[step.command].target
  BY DEF ValidCommandReference
<1> HIDE DEF n0
<1>3. /\ r0.command = step.command
      /\ r0.source = n0
      /\ r0.target = s.nodes[n0].commands[step.command].target
  BY DEF CommandRoute
<1>4. r0 \in CommandRoutes(s)
  BY <1>1 DEF CommandRoutes
<1>5. r0 \in StepCandidates(s, step)
  BY <1>1, <1>2, <1>3, <1>4 DEF StepCandidates
<1>6. ASSUME NEW r \in StepCandidates(s, step)
      PROVE  r = r0
  <2>1. PICK n \in DOMAIN s.nodes : \E c \in DOMAIN s.nodes[n].commands : r = CommandRoute(s, n, c)
    BY DEF StepCandidates, CommandRoutes
  <2>2. PICK c \in DOMAIN s.nodes[n].commands : r = CommandRoute(s, n, c)
    BY <2>1
  <2>3. r.command = c /\ r.source = n
    BY <2>2 DEF CommandRoute
  <2>4. r.command = step.command /\ (step.source # None => r.source = step.source)
    BY DEF StepCandidates
  <2>5. n \in named
    BY <2>2, <2>3, <2>4
  <2>6. n = n0
    BY <1>1, <2>3, <2>4, <2>5
  <2> QED
    BY <2>2, <2>3, <2>4, <2>6
<1>7. StepCandidates(s, step) = {r0}
  BY <1>5, <1>6
<1> QED
  BY <1>7 DEF Single

(* runner.py _build_frame_annotator against _route_packet: the note of a    *)
(* traced packet is the route it is delivered by, for every setup and every *)
(* packet, odd ones included.                                               *)
THEOREM AnnotationIsRoute ==
  ASSUME NEW s, NEW p
  PROVE  Annotation(s, p) = RouteForPacket(s, p)
<1> DEFINE commands == {r \in CommandRoutes(s) : OnPorts(r, p)}
           exact == {r \in commands : r.payload = p.payload}
           telemetry == {r \in TelemetryRoutes(s) : OnPorts(r, p)}
<1>1. ASSUME NEW x \in commands
      PROVE  x # Unrouted
  <2>1. PICK n, c : x = CommandRoute(s, n, c)
    BY DEF CommandRoutes
  <2>2. x.kind = "command"
    BY <2>1 DEF CommandRoute
  <2> QED
    BY <2>2 DEF Unrouted
<1>2. Ambiguous # Unrouted
  BY DEF Ambiguous, Unrouted
<1>3. exact \subseteq commands
  OBVIOUS
<1>4. CommandRouteForPacket(s, p) =
        IF Single(exact) THEN TheOne(exact)
        ELSE IF exact = {} /\ Single(commands) THEN TheOne(commands)
        ELSE IF commands = {} THEN Unrouted
        ELSE Ambiguous
  BY DEF CommandRouteForPacket
<1>5. TelemetryRouteForPacket(s, p) =
        IF Single(telemetry) THEN TheOne(telemetry)
        ELSE IF telemetry = {} THEN Unrouted
        ELSE Ambiguous
  BY DEF TelemetryRouteForPacket
<1>6. Annotation(s, p) =
        IF Single(exact) THEN TheOne(exact)
        ELSE IF Single(commands) THEN TheOne(commands)
        ELSE IF commands # {} THEN Ambiguous
        ELSE IF Single(telemetry) THEN TheOne(telemetry)
        ELSE IF telemetry # {} THEN Ambiguous
        ELSE Unrouted
  BY DEF Annotation
<1> HIDE DEF commands, exact, telemetry
<1>7. CASE Single(exact)
  <2>1. PICK x : exact = {x}
    BY <1>7 DEF Single
  <2>2. TheOne(exact) = x /\ x \in commands
    BY <1>3, <2>1 DEF TheOne
  <2> QED
    BY <1>1, <1>4, <1>6, <1>7, <2>2 DEF RouteForPacket
<1>8. CASE ~Single(exact) /\ Single(commands)
  <2>1. PICK x : commands = {x}
    BY <1>8 DEF Single
  <2>2. exact = {}
    BY <1>3, <1>8, <2>1 DEF Single
  <2>3. TheOne(commands) = x /\ x # Unrouted
    BY <1>1, <2>1 DEF TheOne
  <2> QED
    BY <1>4, <1>6, <1>8, <2>2, <2>3 DEF RouteForPacket
<1>9. CASE ~Single(exact) /\ ~Single(commands) /\ commands # {}
  BY <1>2, <1>4, <1>6, <1>9 DEF RouteForPacket
<1>10. CASE ~Single(exact) /\ commands = {}
  BY <1>3, <1>4, <1>5, <1>6, <1>10 DEF RouteForPacket, Single
<1> QED
  BY <1>7, <1>8, <1>9, <1>10

(* Resolution finds the command a packet was sent for, or refuses to        *)
(* choose.                                                                  *)
LEMMA CommandFound ==
  ASSUME NEW s, NEW r \in CommandRoutes(s)
  PROVE  RouteForPacket(s, CommandPacket(r)) \in {r, Ambiguous}
<1> DEFINE p == CommandPacket(r)
           commands == {q \in CommandRoutes(s) : OnPorts(q, p)}
           exact == {q \in commands : q.payload = p.payload}
<1>1. PICK n, c : r = CommandRoute(s, n, c)
  BY DEF CommandRoutes
<1>2. r.kind = "command"
  BY <1>1 DEF CommandRoute
<1>3. /\ p.src = r.src /\ p.dst = r.dst /\ p.dport = r.dport /\ p.sport = r.sport
      /\ p.payload = r.payload
  BY DEF CommandPacket
<1>4. r \in exact /\ r \in commands
  BY <1>3 DEF OnPorts
<1>5. CommandRouteForPacket(s, p) =
        IF Single(exact) THEN TheOne(exact)
        ELSE IF exact = {} /\ Single(commands) THEN TheOne(commands)
        ELSE IF commands = {} THEN Unrouted
        ELSE Ambiguous
  BY DEF CommandRouteForPacket
<1>6. r # Unrouted /\ Ambiguous # Unrouted
  BY <1>2 DEF Unrouted, Ambiguous
<1> HIDE DEF p, commands, exact
<1>7. Single(exact) => TheOne(exact) = r
  BY <1>4, SingleElement
<1>8. CommandRouteForPacket(s, p) \in {r, Ambiguous}
  BY <1>4, <1>5, <1>7
<1> QED
  BY <1>6, <1>8 DEF RouteForPacket, p

(* Telemetry is taken for what it is, refused, or hidden by a command that  *)
(* its node sends itself.                                                   *)
LEMMA TelemetryFound ==
  ASSUME NEW s, NEW r \in TelemetryRoutes(s), NEW v
  PROVE  \/ RouteForPacket(s, TelemetryPacket(r, v)) \in {r, Ambiguous}
         \/ Shadowed(s, r)
<1> DEFINE p == TelemetryPacket(r, v)
           commands == {q \in CommandRoutes(s) : OnPorts(q, p)}
           exact == {q \in commands : q.payload = p.payload}
           telemetry == {q \in TelemetryRoutes(s) : OnPorts(q, p)}
<1>1. PICK m : r = TelemetryRoute(s, m)
  BY DEF TelemetryRoutes
<1>2. r.kind = "telemetry"
  BY <1>1 DEF TelemetryRoute
<1>3. p.src = r.src /\ p.dst = r.dst /\ p.dport = r.dport /\ p.sport = r.sport
  BY DEF TelemetryPacket
<1>4. r \in telemetry
  BY <1>3 DEF OnPorts
<1>5. ASSUME NEW q \in commands
      PROVE  Shadowed(s, r)
  BY <1>2, <1>3, <1>5 DEF Shadowed, OnPorts
<1>6. CommandRouteForPacket(s, p) =
        IF Single(exact) THEN TheOne(exact)
        ELSE IF exact = {} /\ Single(commands) THEN TheOne(commands)
        ELSE IF commands = {} THEN Unrouted
        ELSE Ambiguous
  BY DEF CommandRouteForPacket
<1>7. TelemetryRouteForPacket(s, p) =
        IF Single(telemetry) THEN TheOne(telemetry)
        ELSE IF telemetry = {} THEN Unrouted
        ELSE Ambiguous
  BY DEF TelemetryRouteForPacket
<1>8. exact \subseteq commands
  OBVIOUS
<1> HIDE DEF p, commands, exact, telemetry
<1>9. CASE commands = {}
  <2>1. ~Single(exact) /\ ~Single(commands)
    BY <1>8, <1>9 DEF Single
  <2>2. CommandRouteForPacket(s, p) = Unrouted
    BY <1>6, <1>9, <2>1
  <2>3. Single(telemetry) => TheOne(telemetry) = r
    BY <1>4, SingleElement
  <2>4. RouteForPacket(s, p) \in {r, Ambiguous}
    BY <1>4, <1>7, <2>2, <2>3 DEF RouteForPacket
  <2> QED
    BY <2>4 DEF p
<1>10. CASE commands # {}
  BY <1>5, <1>10
<1> QED
  BY <1>9, <1>10

-----------------------------------------------------------------------------
(* Packets in a run.                                                         *)

Frame == [packet : Nat, last : BOOLEAN]
Envelope == [packet : Nat, last : BOOLEAN, seq : Nat]

(* A sequence of whatever it holds.                                         *)
IsSequence(s) == s \in Seq({s[i] : i \in 1..Len(s)})

-----------------------------------------------------------------------------
(* Sequences.                                                               *)

(* A sequence over a set is one of what it holds.                           *)
LEMMA TypedIsSequence ==
  ASSUME NEW S, NEW s \in Seq(S)
  PROVE  IsSequence(s) /\ Len(s) \in Nat
BY DEF IsSequence

(* What Append does to a sequence: one element more, the others in place.   *)
LEMMA AppendShape ==
  ASSUME NEW s, IsSequence(s), NEW x
  PROVE  /\ IsSequence(Append(s, x))
         /\ Len(s) \in Nat
         /\ Len(Append(s, x)) = Len(s) + 1
         /\ \A i \in 1..Len(s) : Append(s, x)[i] = s[i]
         /\ Append(s, x)[Len(s) + 1] = x
<1> DEFINE S == {s[i] : i \in 1..Len(s)} \cup {x}
<1>1. s \in Seq(S) /\ x \in S /\ Len(s) \in Nat
  BY DEF IsSequence
<1> HIDE DEF S
<1>2. /\ Append(s, x) \in Seq(S)
      /\ Len(Append(s, x)) = Len(s) + 1
      /\ \A i \in 1..Len(s) : Append(s, x)[i] = s[i]
      /\ Append(s, x)[Len(s) + 1] = x
  BY <1>1
<1>3. IsSequence(Append(s, x))
  BY <1>2 DEF IsSequence
<1> QED
  BY <1>1, <1>2, <1>3

(* What concatenation does: the left elements, then the right ones.         *)
LEMMA ConcatShape ==
  ASSUME NEW s, IsSequence(s), NEW t, IsSequence(t)
  PROVE  /\ IsSequence(s \o t)
         /\ Len(s) \in Nat /\ Len(t) \in Nat
         /\ Len(s \o t) = Len(s) + Len(t)
         /\ \A i \in 1..Len(s) : (s \o t)[i] = s[i]
         /\ \A i \in 1..Len(t) : (s \o t)[Len(s) + i] = t[i]
         /\ \A i \in 1..Len(s \o t) : \/ i \in 1..Len(s) /\ (s \o t)[i] = s[i]
                                      \/ i - Len(s) \in 1..Len(t) /\ (s \o t)[i] = t[i - Len(s)]
<1> DEFINE S == {s[i] : i \in 1..Len(s)} \cup {t[i] : i \in 1..Len(t)}
<1>1. s \in Seq(S) /\ t \in Seq(S) /\ Len(s) \in Nat /\ Len(t) \in Nat
  BY DEF IsSequence
<1> HIDE DEF S
<1>2. /\ s \o t \in Seq(S)
      /\ Len(s \o t) = Len(s) + Len(t)
      /\ \A i \in 1..(Len(s) + Len(t)) : (s \o t)[i] = IF i <= Len(s) THEN s[i] ELSE t[i - Len(s)]
  BY <1>1
<1>3. IsSequence(s \o t)
  BY <1>2, TypedIsSequence
<1>4. \A i \in 1..Len(s) : (s \o t)[i] = s[i]
  BY <1>1, <1>2
<1>5. ASSUME NEW i \in 1..Len(t)
      PROVE  (s \o t)[Len(s) + i] = t[i]
  <2>1. Len(s) + i \in 1..(Len(s) + Len(t)) /\ ~(Len(s) + i <= Len(s)) /\ Len(s) + i - Len(s) = i
    BY <1>1
  <2> QED
    BY <1>2, <2>1
<1>6. ASSUME NEW i \in 1..Len(s \o t)
      PROVE  \/ i \in 1..Len(s) /\ (s \o t)[i] = s[i]
             \/ i - Len(s) \in 1..Len(t) /\ (s \o t)[i] = t[i - Len(s)]
  BY <1>1, <1>2
<1> QED
  BY <1>1, <1>2, <1>3, <1>4, <1>5, <1>6

(* An element of the right part, by its place in the whole.                 *)
LEMMA ConcatRight ==
  ASSUME NEW s, IsSequence(s), NEW t, IsSequence(t), NEW i \in 1..Len(t)
  PROVE  Len(s) + i \in 1..Len(s \o t) /\ (s \o t)[Len(s) + i] = t[i]
<1>1. /\ Len(s) \in Nat /\ Len(t) \in Nat /\ Len(s \o t) = Len(s) + Len(t)
      /\ \A j \in 1..Len(t) : (s \o t)[Len(s) + j] = t[j]
  BY ConcatShape
<1> QED
  BY <1>1

(* Taking the head moves every other element one place forward.             *)
LEMMA HeadTailShape ==
  ASSUME NEW S, NEW s \in Seq(S), s # <<>>
  PROVE  /\ Head(s) = s[1] /\ Head(s) \in S
         /\ Tail(s) \in Seq(S)
         /\ Len(s) \in Nat \ {0}
         /\ Len(Tail(s)) = Len(s) - 1
         /\ \A i \in 1..Len(Tail(s)) : Tail(s)[i] = s[i + 1]
OBVIOUS

(* Induction over the naturals, about a set: the library's theorem is about *)
(* an operator, which the provers cannot instantiate.                       *)
LEMMA SetInduction ==
  ASSUME NEW S \in SUBSET Nat, 0 \in S, \A n \in S : n + 1 \in S
  PROVE  S = Nat
<1> SUFFICES ASSUME Nat \ S # {} PROVE FALSE
  OBVIOUS
<1>1. PICK x \in Nat \ S : \A y \in Nat \ S : ~(<<y, x>> \in OpToRel(<, Nat))
  BY NatLessThanWellFounded, WFMin
<1>2. x \in Nat /\ x \notin S /\ x # 0
  OBVIOUS
<1>3. x - 1 \in Nat /\ x - 1 < x /\ (x - 1) + 1 = x
  BY <1>2
<1>4. x - 1 \in S
  <2>1. \A y \in Nat : y < x => <<y, x>> \in OpToRel(<, Nat)
    BY <1>2 DEF OpToRel
  <2> QED
    BY <1>1, <1>3, <2>1
<1> QED
  BY <1>2, <1>3, <1>4

(* What Selected computes on the way: what is selected of the first i.      *)
Selects(f, s, I, n) ==
  /\ f[0] = <<>>
  /\ \A i \in 1..n : f[i] = IF i \in I THEN Append(f[i - 1], s[i]) ELSE f[i - 1]

(* There is such a function, as long as the sequence.                       *)
LEMMA SelectsExists ==
  ASSUME NEW S, NEW s \in Seq(S), NEW I, NEW m \in Nat, m <= Len(s)
  PROVE  \E f \in [0..m -> Seq(S)] : Selects(f, s, I, m)
<1> DEFINE Done == {n \in Nat : n <= Len(s) => \E f \in [0..n -> Seq(S)] : Selects(f, s, I, n)}
<1>1. 0 \in Done
  <2> DEFINE f == [i \in 0..0 |-> <<>>]
  <2>1. f \in [0..0 -> Seq(S)] /\ f[0] = <<>>
    OBVIOUS
  <2>2. Selects(f, s, I, 0)
    BY <2>1 DEF Selects
  <2> QED
    BY <2>1, <2>2
<1>2. ASSUME NEW n \in Done
      PROVE  n + 1 \in Done
  <2> SUFFICES ASSUME n + 1 <= Len(s)
               PROVE  \E g \in [0..(n + 1) -> Seq(S)] : Selects(g, s, I, n + 1)
    OBVIOUS
  <2>1. n \in Nat /\ n <= Len(s) /\ Len(s) \in Nat /\ n + 1 \in 1..Len(s)
    OBVIOUS
  <2>2. PICK f \in [0..n -> Seq(S)] : Selects(f, s, I, n)
    BY <2>1
  <2>3. s[n + 1] \in S /\ f[n] \in Seq(S)
    BY <2>1
  <2>4. PICK next : next = IF n + 1 \in I THEN Append(f[n], s[n + 1]) ELSE f[n]
    OBVIOUS
  <2>9. next \in Seq(S)
    BY <2>3, <2>4
  <2> DEFINE g == [i \in 0..(n + 1) |-> IF i = n + 1 THEN next ELSE f[i]]
  <2>5. g \in [0..(n + 1) -> Seq(S)]
    BY <2>1, <2>9
  <2>6. g[n + 1] = next /\ \A i \in 0..n : g[i] = f[i]
    BY <2>1
  <2> HIDE DEF g
  <2>7. g[0] = <<>>
    <3>1. 0 \in 0..n /\ f[0] = <<>>
      BY <2>1, <2>2 DEF Selects
    <3> QED
      BY <2>6, <3>1
  <2>8. ASSUME NEW i \in 1..(n + 1)
        PROVE  g[i] = IF i \in I THEN Append(g[i - 1], s[i]) ELSE g[i - 1]
    <3>1. CASE i = n + 1
      <4>1. i - 1 = n /\ n \in 0..n
        BY <2>1, <3>1
      <4>2. g[i - 1] = f[n]
        BY <2>6, <4>1
      <4> QED
        BY <2>4, <2>6, <3>1, <4>2
    <3>2. CASE i # n + 1
      <4>1. i \in 1..n /\ i \in 0..n /\ i - 1 \in 0..n
        BY <2>1, <3>2
      <4>2. g[i] = f[i] /\ g[i - 1] = f[i - 1]
        BY <2>6, <4>1
      <4> QED
        BY <2>2, <4>1, <4>2 DEF Selects
    <3> QED
      BY <3>1, <3>2
  <2> QED
    BY <2>5, <2>7, <2>8 DEF Selects
<1> HIDE DEF Done
<1>3. Done = Nat
  <2>1. Done \in SUBSET Nat
    BY DEF Done
  <2> QED
    BY <1>1, <1>2, <2>1, SetInduction
<1> QED
  BY <1>3 DEF Done

(* Such functions agree as far as what they select from does.               *)
LEMMA SelectsUnique ==
  ASSUME NEW f, NEW g, NEW s, NEW t, NEW I, NEW J, NEW n \in Nat,
         Selects(f, s, I, n), Selects(g, t, J, n),
         \A i \in 1..n : s[i] = t[i] /\ (i \in I <=> i \in J)
  PROVE  \A i \in 0..n : f[i] = g[i]
<1> DEFINE Same == {i \in Nat : i <= n => f[i] = g[i]}
<1>1. 0 \in Same
  BY DEF Selects
<1>2. ASSUME NEW i \in Same
      PROVE  i + 1 \in Same
  <2> SUFFICES ASSUME i + 1 <= n PROVE f[i + 1] = g[i + 1]
    OBVIOUS
  <2>1. i + 1 \in 1..n /\ (i + 1) - 1 = i /\ f[i] = g[i]
    OBVIOUS
  <2> QED
    BY <2>1 DEF Selects
<1> HIDE DEF Same
<1>3. Same = Nat
  <2>1. Same \in SUBSET Nat
    BY DEF Same
  <2> QED
    BY <1>1, <1>2, <2>1, SetInduction
<1> QED
  BY <1>3 DEF Same

(* Selected is the last value of such a function.                           *)
LEMMA SelectedBy ==
  ASSUME NEW S, NEW s \in Seq(S), NEW I
  PROVE  \E f \in [0..Len(s) -> Seq(S)] : Selects(f, s, I, Len(s)) /\ Selected(s, I) = f[Len(s)]
<1>0. PICK n \in Nat : n = Len(s)
  OBVIOUS
<1>1. PICK f \in [0..n -> Seq(S)] : Selects(f, s, I, n)
  <2>1. n <= Len(s)
    BY <1>0
  <2> QED
    BY <2>1, SelectsExists
<1> DEFINE Step(u) == [i \in 0..n |-> IF i = 0 THEN <<>>
                                      ELSE IF i \in I THEN Append(u[i - 1], s[i]) ELSE u[i - 1]]
           chosen == CHOOSE u : u = Step(u)
<1>2. f = Step(f)
  <2>1. \A i \in 0..n : f[i] = Step(f)[i]
    <3>1. ASSUME NEW i \in 0..n
          PROVE  f[i] = Step(f)[i]
      <4>1. i = 0 \/ i \in 1..n
        OBVIOUS
      <4> QED
        BY <1>1, <4>1 DEF Selects
    <3> QED
      BY <3>1
  <2>2. f = [i \in 0..n |-> f[i]]
    OBVIOUS
  <2>3. Step(f) = [i \in 0..n |-> Step(f)[i]]
    OBVIOUS
  <2> QED
    BY <2>1, <2>2, <2>3
<1>3. chosen = Step(chosen)
  BY <1>2
<1>4. Selected(s, I) = chosen[n]
  BY <1>0 DEF Selected
<1> HIDE DEF chosen
<1>5. Selects(chosen, s, I, n)
  <2>1. \A i \in 0..n : chosen[i] = IF i = 0 THEN <<>>
                                    ELSE IF i \in I THEN Append(chosen[i - 1], s[i])
                                    ELSE chosen[i - 1]
    BY <1>3
  <2> QED
    BY <2>1 DEF Selects
<1>6. chosen[n] = f[n]
  BY <1>1, <1>5, SelectsUnique
<1> QED
  BY <1>0, <1>1, <1>4, <1>6

(* q has elements of s from among its first n, those of I, in its order.    *)
Picked(q, s, I, n) ==
  \E place \in [1..Len(q) -> 1..n] :
    /\ \A k \in 1..Len(q) : place[k] \in I /\ q[k] = s[place[k]]
    /\ \A j, k \in 1..Len(q) : j < k => place[j] < place[k]

(* What is selected: elements of the sequence, in its order.                *)
LEMMA SelectedShape ==
  ASSUME NEW S, NEW s \in Seq(S), NEW I
  PROVE  /\ Selected(s, I) \in Seq(S)
         /\ Picked(Selected(s, I), s, I, Len(s))
<1>1. PICK f \in [0..Len(s) -> Seq(S)] :
        Selects(f, s, I, Len(s)) /\ Selected(s, I) = f[Len(s)]
  BY SelectedBy
<1> DEFINE Done == {n \in Nat : n <= Len(s) => Picked(f[n], s, I, n)}
<1>2. 0 \in Done
  <2>1. f[0] = <<>> /\ Len(<<>>) = 0
    BY <1>1 DEF Selects
  <2>2. [k \in 1..0 |-> 0] \in [1..Len(f[0]) -> 1..0] /\ 1..Len(f[0]) = {}
    BY <2>1
  <2>3. Picked(f[0], s, I, 0)
    BY <2>2 DEF Picked
  <2> QED
    BY <2>3
<1>3. ASSUME NEW n \in Done
      PROVE  n + 1 \in Done
  <2> SUFFICES ASSUME n + 1 <= Len(s) PROVE Picked(f[n + 1], s, I, n + 1)
    OBVIOUS
  <2>1. /\ n \in Nat /\ Len(s) \in Nat /\ n + 1 \in 1..Len(s) /\ (n + 1) - 1 = n
        /\ n \in 0..Len(s) /\ Picked(f[n], s, I, n)
    OBVIOUS
  <2>2. f[n] \in Seq(S) /\ s[n + 1] \in S
    BY <2>1
  <2>3. PICK q \in Seq(S), x \in S : q = f[n] /\ x = s[n + 1]
    BY <2>2
  <2>4. PICK place \in [1..Len(q) -> 1..n] :
          /\ \A k \in 1..Len(q) : place[k] \in I /\ q[k] = s[place[k]]
          /\ \A j, k \in 1..Len(q) : j < k => place[j] < place[k]
    BY <2>1, <2>3 DEF Picked
  <2>5. f[n + 1] = IF n + 1 \in I THEN Append(q, x) ELSE q
    BY <1>1, <2>1, <2>3 DEF Selects
  <2>6. Len(q) \in Nat /\ \A k \in 1..Len(q) : place[k] \in 1..n
    OBVIOUS
  <2>7. CASE n + 1 \notin I
    <3>1. place \in [1..Len(q) -> 1..(n + 1)] /\ f[n + 1] = q
      BY <2>1, <2>5, <2>7
    <3> QED
      BY <2>4, <3>1 DEF Picked
  <2>8. CASE n + 1 \in I
    <3>1. PICK r : r = Append(q, x)
      OBVIOUS
    <3>2. /\ f[n + 1] = r /\ Len(r) = Len(q) + 1 /\ r[Len(q) + 1] = x
          /\ \A k \in 1..Len(q) : r[k] = q[k]
      BY <2>5, <2>8, <3>1
    <3> DEFINE more == [k \in 1..Len(r) |-> IF k = Len(q) + 1 THEN n + 1 ELSE place[k]]
    <3>3. more \in [1..Len(r) -> 1..(n + 1)]
      BY <2>1, <2>6, <3>2
    <3>4. more[Len(q) + 1] = n + 1 /\ \A k \in 1..Len(q) : more[k] = place[k]
      BY <2>6, <3>2
    <3> HIDE DEF more
    <3>5. ASSUME NEW k \in 1..Len(r)
          PROVE  k \in 1..Len(q) \/ k = Len(q) + 1
      BY <2>6, <3>2
    <3>6. ASSUME NEW k \in 1..Len(r)
          PROVE  more[k] \in I /\ r[k] = s[more[k]]
      BY <2>3, <2>4, <2>8, <3>2, <3>4, <3>5
    <3>7. ASSUME NEW j \in 1..Len(r), NEW k \in 1..Len(r), j < k
          PROVE  more[j] < more[k]
      <4>1. j \in 1..Len(q)
        BY <2>6, <3>2, <3>7
      <4>2. CASE k = Len(q) + 1
        BY <2>1, <2>6, <3>4, <4>1, <4>2
      <4>3. CASE k \in 1..Len(q)
        BY <2>4, <3>4, <3>7, <4>1, <4>3
      <4> QED
        BY <3>5, <4>2, <4>3
    <3> QED
      BY <3>2, <3>3, <3>6, <3>7 DEF Picked
  <2> QED
    BY <2>7, <2>8
<1> HIDE DEF Done
<1>4. Done = Nat
  <2>1. Done \in SUBSET Nat
    BY DEF Done
  <2> QED
    BY <1>2, <1>3, <2>1, SetInduction
<1>5. PICK m \in Nat : m = Len(s)
  OBVIOUS
<1>6. Picked(f[m], s, I, m)
  BY <1>4, <1>5 DEF Done
<1>7. m \in 0..m
  BY <1>5
<1> QED
  BY <1>1, <1>5, <1>6, <1>7

(* One element more: it is selected or not, what was selected stays.        *)
LEMMA SelectedGrows ==
  ASSUME NEW S, NEW s \in Seq(S), NEW x \in S, NEW I, NEW J,
         \A i \in 1..Len(s) : i \in I <=> i \in J
  PROVE  Selected(Append(s, x), J) = IF Len(s) + 1 \in J THEN Append(Selected(s, I), x)
                                     ELSE Selected(s, I)
<1>0. PICK n \in Nat : n = Len(s)
  OBVIOUS
<1>1. PICK f : Selects(f, s, I, n) /\ Selected(s, I) = f[n]
  BY <1>0, SelectedBy
<1>2. PICK t : t = Append(s, x)
  OBVIOUS
<1>8. t \in Seq(S)
  BY <1>2
<1>3. Len(t) = n + 1 /\ t[n + 1] = x /\ \A i \in 1..n : s[i] = t[i]
  BY <1>0, <1>2
<1>4. PICK g : Selects(g, t, J, n + 1) /\ Selected(t, J) = g[n + 1]
  BY <1>3, <1>8, SelectedBy
<1>5. Selects(g, t, J, n)
  BY <1>4 DEF Selects
<1>6. f[n] = g[n]
  <2>1. \A i \in 1..n : s[i] = t[i] /\ (i \in I <=> i \in J)
    BY <1>0, <1>3
  <2>2. \A i \in 0..n : f[i] = g[i]
    BY <1>1, <1>5, <2>1, SelectsUnique
  <2> QED
    BY <2>2
<1>7. g[n + 1] = IF n + 1 \in J THEN Append(g[n], t[n + 1]) ELSE g[n]
  <2>1. n + 1 \in 1..(n + 1) /\ (n + 1) - 1 = n
    OBVIOUS
  <2> QED
    BY <1>4, <2>1 DEF Selects
<1> QED
  BY <1>0, <1>1, <1>2, <1>3, <1>4, <1>6, <1>7

(* The frames of a packet: at least one, all with its number, and only the  *)
(* last one completes it.                                                   *)
LEMMA FramesShape ==
  ASSUME NEW kind, NEW number \in Nat, NEW bytes \in Nat
  PROVE  /\ Frames(kind, number, bytes) \in Seq(Frame)
         /\ Len(Frames(kind, number, bytes)) = FrameTotal(kind, bytes)
         /\ FrameTotal(kind, bytes) \in Nat \ {0}
         /\ \A i \in 1..FrameTotal(kind, bytes) :
              /\ Frames(kind, number, bytes)[i].packet = number
              /\ Frames(kind, number, bytes)[i].last <=> i = FrameTotal(kind, bytes)
<1>1. FrameTotal(kind, bytes) \in Nat \ {0}
  <2>1. CASE kind = "kiss" \/ bytes <= FirstChunk
    BY <2>1 DEF FrameTotal
  <2>2. CASE ~(kind = "kiss" \/ bytes <= FirstChunk)
    <3>1. bytes - FirstChunk + NextChunk - 1 \in Nat /\ NextChunk \in Nat \ {0}
      BY <2>2, TransportAssumption
    <3>2. (bytes - FirstChunk + NextChunk - 1) \div NextChunk \in Nat
      BY <3>1
    <3> QED
      BY <2>2, <3>2 DEF FrameTotal
  <2> QED
    BY <2>1, <2>2
<1> DEFINE n == FrameTotal(kind, bytes)
<1> HIDE DEF n
<1>2. Frames(kind, number, bytes) = [i \in 1..n |-> [packet |-> number, last |-> i = n]]
  BY DEF Frames, n
<1>3. n \in Nat \ {0}
  BY <1>1 DEF n
<1> DEFINE f == [i \in 1..n |-> [packet |-> number, last |-> i = n]]
<1>4. f \in Seq(Frame) /\ Len(f) = n
  BY <1>3 DEF Frame
<1>5. \A i \in 1..n : f[i].packet = number /\ (f[i].last <=> i = n)
  OBVIOUS
<1> HIDE DEF f
<1>6. Frames(kind, number, bytes) = f
  BY <1>2 DEF f
<1> QED
  BY <1>3, <1>4, <1>5, <1>6 DEF n

(* There are as many frames as FrameTotal says.                             *)
LEMMA FramesLength ==
  ASSUME NEW kind, NEW number, NEW bytes \in Nat
  PROVE  Len(Frames(kind, number, bytes)) = FrameTotal(kind, bytes)
<1> DEFINE n == FrameTotal(kind, bytes)
<1>1. n \in Nat
  BY FramesShape, 0 \in Nat
<1> HIDE DEF n
<1>2. Len([i \in 1..n |-> [packet |-> number, last |-> i = n]]) = n
  BY <1>1
<1> QED
  BY <1>2 DEF Frames, n

(* Numbering frames keeps them and gives them consecutive numbers.          *)
LEMMA NumberedShape ==
  ASSUME NEW frames \in Seq(Frame), NEW from \in Nat
  PROVE  /\ Numbered(frames, from) \in Seq(Envelope)
         /\ Len(Numbered(frames, from)) = Len(frames)
         /\ Len(frames) \in Nat
         /\ \A i \in 1..Len(frames) :
              /\ Numbered(frames, from)[i].packet = frames[i].packet
              /\ Numbered(frames, from)[i].last = frames[i].last
              /\ Numbered(frames, from)[i].seq = from + i - 1
<1>1. Len(frames) \in Nat /\ \A i \in 1..Len(frames) : frames[i] \in Frame
  OBVIOUS
<1>2. \A i \in 1..Len(frames) :
        [packet |-> frames[i].packet, last |-> frames[i].last, seq |-> from + i - 1] \in Envelope
  BY <1>1 DEF Frame, Envelope
<1> DEFINE f == [i \in 1..Len(frames) |->
                   [packet |-> frames[i].packet, last |-> frames[i].last, seq |-> from + i - 1]]
<1>3. f \in Seq(Envelope) /\ Len(f) = Len(frames)
  BY <1>1, <1>2
<1>4. Numbered(frames, from) = f
  BY DEF Numbered
<1> QED
  BY <1>1, <1>3, <1>4

-----------------------------------------------------------------------------
(* The setup that runs was accepted, and telemetry is emitted, by simulated *)
(* nodes, only while nothing is being delivered.                            *)
SetupInv == phase \in {"build", "run"} => /\ setup \in Setups
                                          /\ UniqueAddresses(setup)
                                          /\ CommandMappingsValid(setup)
Emittable == {r \in TelemetryRoutes(setup) : r.node \in Simulated(setup)}
EmittingInv == emitting # {} => /\ phase = "run"
                               /\ hand = <<>>
                               /\ emitting \subseteq Emittable

(* Before the run only the setup and the modules change.                    *)
Prepare ==
  /\ phase # "run"
  /\ UNCHANGED <<hand, arguments, sent, outcomes, trace>>
  /\ \/ UNCHANGED <<monitor, line, sequence>>
     \/ monitor' = <<>> /\ line' = <<>> /\ sequence' = 0

(* What route and packet of a packet sent by the testbed have to do with    *)
(* each other.                                                              *)
Fitting(route, packet) ==
  \/ route \in CommandRoutes(setup) /\ packet = CommandPacket(route)
  \/ route \in TelemetryRoutes(setup) /\ \E v : packet = TelemetryPacket(route, v)

(* One packet is sent, from inside along a route or from outside.           *)
PacketFrames(packet) == Frames(Kind, Len(sent) + 1, Len(packet.payload))

SendInside(packet, route, args) ==
  /\ Fitting(route, packet)
  /\ \/ monitor = <<>> /\ line = <<>>
     \/ packet.src \in Addresses(Simulated(setup))
  /\ hand = <<>>
  /\ SendPacket(packet, route, args)
  /\ \/ args = None /\ UNCHANGED arguments
     \/ /\ args \in Arguments
        /\ monitor = <<>>
        /\ line = <<>>
        /\ \E last \in {LastSequence(PacketFrames(packet))} :
             arguments' = [q \in DOMAIN arguments \cup {last} |->
                             IF q = last THEN args ELSE arguments[q]]

SendOutside(packet) ==
  /\ Kind = "in-memory" => hand = <<>>
  /\ packet.src \in Addresses(External(setup))
  /\ packet.dst \in AllAddresses
  /\ PeerSend(Kind, PacketFrames(packet), packet.src)
  /\ sent' = Append(sent, [packet |-> packet, route |-> None, arguments |-> None,
                           inside |-> FALSE])
  /\ UNCHANGED <<arguments, trace>>

Sending ==
  /\ UNCHANGED <<hand, outcomes>>
  /\ \E packet : /\ Len(packet.payload) \in Nat
                 /\ \/ \E route, args : SendInside(packet, route, args)
                    \/ SendOutside(packet)

(* Everything waiting is taken in hand.                                     *)
Draining ==
  /\ hand = <<>>
  /\ hand' = Received
  /\ monitor' = <<>>
  /\ line' = <<>>
  /\ sequence' = sequence + Len(line)
  /\ trace' = trace \o [i \in 1..Len(Received) |->
                         Line("RX", Received[i], PacketOf(Received[i].packet))]
  /\ UNCHANGED <<arguments, sent, outcomes>>

(* The first frame in hand is dealt with: kept, or turned into an outcome.  *)
Judged(e, o) ==
  /\ o.number = e.packet
  /\ o.kind # "dropped" => o.route = RouteForPacket(setup, PacketOf(e.packet))
  /\ o.kind = "command" => o.route.kind = "command" /\ o.arguments = Taken(e)
  /\ o.kind = "sample" => o.route.kind = "telemetry"

Taking ==
  /\ hand # <<>>
  /\ hand' = Tail(hand)
  /\ UNCHANGED <<monitor, line, sequence, sent, trace>>
  /\ \/ ~Head(hand).last /\ UNCHANGED <<arguments, outcomes>>
     \/ /\ Head(hand).last
        /\ \E o : Judged(Head(hand), o) /\ outcomes' = Append(outcomes, o)
        /\ \/ UNCHANGED arguments
           \/ arguments' = [q \in DOMAIN arguments \ {Head(hand).seq} |-> arguments[q]]

Idle == UNCHANGED <<monitor, line, hand, arguments, sequence, sent, outcomes, trace>>

Effect ==
  \/ Prepare
  \/ /\ phase = "run"
     /\ UNCHANGED <<setup, phase>>
     /\ Idle \/ Sending \/ Draining \/ Taking

(* Before the run nothing but start-up happens.                             *)
LEMMA PrepareEffect ==
  ASSUME BeforeRun
  PROVE  Prepare
<1>1. ASSUME StartupNext, UNCHANGED <<transportVars, runVars>>
      PROVE  Prepare
  <2>1. phase \in {"start", "build"}
    BY <1>1 DEF StartupNext, RegisterModule, UnregisterModule, Load, Build, BuildFails
  <2> QED
    BY <1>1, <2>1 DEF Prepare, transportVars, runVars
<1>2. ASSUME StartRun
      PROVE  Prepare
  BY <1>2 DEF StartRun, Start, Connected, Prepare
<1> QED
  BY <1>1, <1>2 DEF BeforeRun

(* Payloads are sequences of bytes.                                         *)
LEMMA CommandPayload ==
  ASSUME SetupInv, phase = "run", NEW r \in CommandRoutes(setup)
  PROVE  CommandPacket(r).payload \in Seq(Nat) /\ CommandPacket(r).payload = r.payload
<1>1. PICK n \in DOMAIN setup.nodes : \E c \in DOMAIN setup.nodes[n].commands :
        r = CommandRoute(setup, n, c)
  BY DEF CommandRoutes
<1>2. PICK c \in DOMAIN setup.nodes[n].commands : r = CommandRoute(setup, n, c)
  BY <1>1
<1>3. r.payload = setup.nodes[n].commands[c].payload
  BY <1>2 DEF CommandRoute
<1>4. setup.nodes[n].commands[c].payload \in Seq(Nat)
  BY <1>2, StartupAssumption DEF SetupInv
<1> QED
  BY <1>3, <1>4 DEF CommandPacket

(* A telemetry packet carries as many bytes as its mapping says.            *)
LEMMA TelemetryPayload ==
  ASSUME SetupInv, phase = "run", NEW r \in TelemetryRoutes(setup), NEW v
  PROVE  Len(TelemetryPacket(r, v).payload) \in Nat
<1>1. PICK p \in Mappings(setup) : r = TelemetryRoute(setup, p)
  BY DEF TelemetryRoutes
<1>2. PICK n \in DOMAIN setup.nodes : \E t \in DOMAIN setup.nodes[n].telemetry :
        p.mapping = setup.nodes[n].telemetry[t]
  BY DEF Mappings
<1>3. p.mapping.length \in Nat
  BY <1>2, StartupAssumption DEF SetupInv
<1>4. r.length \in Nat
  BY <1>1, <1>3 DEF TelemetryRoute
<1>5. Len([i \in 1..r.length |-> v]) \in Nat
  BY <1>4
<1>6. TelemetryPacket(r, v).payload = [i \in 1..r.length |-> v]
  BY DEF TelemetryPacket
<1> QED
  BY <1>5, <1>6

(* Every packet an external node sends has a payload of some length.        *)
LEMMA ExternalPayload ==
  ASSUME SetupInv, phase = "run", NEW packet \in ExternalPackets
  PROVE  Len(packet.payload) \in Nat
<1>1. ASSUME NEW r \in CommandRoutes(setup), packet = CommandPacket(r)
      PROVE  Len(packet.payload) \in Nat
  BY <1>1, CommandPayload
<1>2. ASSUME NEW r \in TelemetryRoutes(setup), NEW v \in Values, packet = TelemetryPacket(r, v)
      PROVE  Len(packet.payload) \in Nat
  BY <1>2, TelemetryPayload
<1>3. ASSUME packet \in PeerPackets
      PROVE  Len(packet.payload) \in Nat
  BY <1>3, RoutingAssumption
<1> QED
  BY <1>1, <1>2, <1>3 DEF ExternalPackets

(* Routes lead from node to node, so packets have the addresses of nodes.   *)
LEMMA RouteAddresses ==
  ASSUME SetupInv, phase = "run"
  PROVE  /\ \A r \in CommandRoutes(setup) :
              CommandPacket(r).src \in AllAddresses /\ CommandPacket(r).dst \in AllAddresses
         /\ \A r \in TelemetryRoutes(setup) : \A v :
              TelemetryPacket(r, v).src \in AllAddresses /\ TelemetryPacket(r, v).dst \in AllAddresses
<1>1. /\ \A n \in DOMAIN setup.nodes : setup.nodes[n].address \in AllAddresses
      /\ CommandMappingsValid(setup)
  BY RoutingAssumption DEF SetupInv
<1>2. ASSUME NEW r \in CommandRoutes(setup)
      PROVE  CommandPacket(r).src \in AllAddresses /\ CommandPacket(r).dst \in AllAddresses
  <2>1. PICK n, c :
          /\ n \in DOMAIN setup.nodes
          /\ c \in DOMAIN setup.nodes[n].commands
          /\ r = CommandRoute(setup, n, c)
    BY DEF CommandRoutes
  <2>2. setup.nodes[n].commands[c].target \in DOMAIN setup.nodes
    BY <1>1, <2>1 DEF CommandMappingsValid
  <2> QED
    <3>1. /\ CommandPacket(r).src = setup.nodes[n].address
          /\ CommandPacket(r).dst = setup.nodes[setup.nodes[n].commands[c].target].address
      BY <2>1 DEF CommandPacket, CommandRoute
    <3> QED
      BY <1>1, <2>1, <2>2, <3>1
<1>3. ASSUME NEW r \in TelemetryRoutes(setup), NEW v
      PROVE  TelemetryPacket(r, v).src \in AllAddresses /\ TelemetryPacket(r, v).dst \in AllAddresses
  <2>1. PICK p \in Mappings(setup) : r = TelemetryRoute(setup, p) /\ p.node \in DOMAIN setup.nodes
    BY DEF TelemetryRoutes, Mappings
  <2> QED
    BY <1>1, <2>1 DEF TelemetryPacket, TelemetryRoute
<1> QED
  BY <1>2, <1>3

(* A scenario step sends one packet, or raises and sends none.              *)
LEMMA StepCommandEffect ==
  ASSUME SetupInv, NEW step, NEW args \in Arguments \cup {None}, SendCommandStep(step, args)
  PROVE  phase = "run" /\ UNCHANGED <<setup, phase>> /\ (Idle \/ Sending)
<1>1. phase = "run" /\ UNCHANGED <<setup, phase, hand, outcomes>> /\ Settled
  BY DEF SendCommandStep, Running, startupVars
<1>2. CASE UNCHANGED <<transportVars, turn, arguments, trace, sent>>
  BY <1>1, <1>2 DEF Idle, transportVars
<1>3. ASSUME NEW route \in StepCandidates(setup, step),
             SendPacket(CommandPacket(route), route, args),
             Remember(route, args)
      PROVE  Sending
  <2>1. route \in CommandRoutes(setup)
    BY DEF StepCandidates
  <2>2. /\ CommandPacket(route).payload = route.payload
        /\ Len(CommandPacket(route).payload) \in Nat
    BY <1>1, <2>1, CommandPayload
  <2>3. Fitting(route, CommandPacket(route))
    BY <2>1 DEF Fitting
  <2>4. hand = <<>> /\ monitor = <<>> /\ line = <<>>
    BY <1>1 DEF Settled
  <2>5. LastSequence(Frames(Kind, 0, Len(route.payload)))
          = LastSequence(PacketFrames(CommandPacket(route)))
    BY <2>2, FramesLength DEF LastSequence, PacketFrames
  <2>6. args = None => UNCHANGED arguments
    BY <1>3 DEF Remember
  <2>7. args # None => \E last \in {LastSequence(PacketFrames(CommandPacket(route)))} :
          arguments' = [q \in DOMAIN arguments \cup {last} |->
                          IF q = last THEN args ELSE arguments[q]]
    BY <1>3, <2>5 DEF Remember
  <2>8. SendInside(CommandPacket(route), route, args)
    BY <1>3, <2>3, <2>4, <2>6, <2>7 DEF SendInside
  <2> QED
    BY <1>1, <2>2, <2>8 DEF Sending
<1> QED
  BY <1>1, <1>2, <1>3 DEF SendCommandStep

(* A signal is sent as one packet, or its field is missing and the run ends *)
LEMMA SendTelemetryEffect ==
  ASSUME SetupInv, EmittingInv, NEW r \in emitting, NEW v, SendTelemetry(r, v)
  PROVE  phase = "run" /\ UNCHANGED <<setup, phase>> /\ (Idle \/ Sending)
<1>1. phase = "run" /\ UNCHANGED <<setup, phase, hand, outcomes, arguments>>
  BY DEF SendTelemetry, Running, startupVars
<1>2. CASE UNCHANGED <<transportVars, trace, sent>>
  BY <1>1, <1>2 DEF Idle, transportVars
<1>3. CASE SendPacket(TelemetryPacket(r, v), r, None)
  <2>1. r \in TelemetryRoutes(setup) /\ r.node \in Simulated(setup) /\ hand = <<>>
    BY DEF EmittingInv, Emittable
  <2>2. Len(TelemetryPacket(r, v).payload) \in Nat
    BY <1>1, <2>1, TelemetryPayload
  <2>3. Fitting(r, TelemetryPacket(r, v))
    BY <2>1 DEF Fitting
  <2>4. TelemetryPacket(r, v).src \in Addresses(Simulated(setup))
    BY <2>1 DEF TelemetryPacket, TelemetryRoutes, TelemetryRoute, Addresses
  <2>5. SendInside(TelemetryPacket(r, v), r, None)
    BY <1>1, <1>3, <2>1, <2>3, <2>4 DEF SendInside
  <2> QED
    BY <1>1, <2>2, <2>5 DEF Sending
<1> QED
  BY <1>1, <1>2, <1>3 DEF SendTelemetry

(* A peer's packet is one packet from outside.                              *)
LEMMA PeerSendsEffect ==
  ASSUME SetupInv, NEW packet \in ExternalPackets, PeerSends(packet)
  PROVE  phase = "run" /\ UNCHANGED <<setup, phase>> /\ Sending
<1>1. phase = "run" /\ UNCHANGED <<setup, phase, hand, outcomes, arguments, trace>>
  BY DEF PeerSends, Running, startupVars
<1>2. Len(packet.payload) \in Nat
  BY <1>1, ExternalPayload
<1>3. packet.dst \in AllAddresses
  BY <1>1, RouteAddresses, RoutingAssumption DEF ExternalPackets
<1>4. SendOutside(packet)
  BY <1>1, <1>3 DEF PeerSends, SendOutside, PacketFrames, Settled
<1> QED
  BY <1>1, <1>2, <1>4 DEF Sending

(* A sample makes a rule send one packet, or nothing.                       *)
LEMMA DispatchEffect ==
  ASSUME SetupInv, Dispatch
  PROVE  phase = "run" /\ UNCHANGED <<setup, phase>> /\ (Idle \/ Sending)
<1>1. phase = "run" /\ UNCHANGED <<setup, phase, hand, outcomes, arguments>> /\ hand = <<>>
  BY DEF Dispatch, Running, startupVars
<1>2. CASE UNCHANGED <<transportVars, sent, trace>>
  BY <1>1, <1>2 DEF Idle, transportVars
<1>3. ASSUME NEW f \in Fired(Head(samples)),
             f.command \in DOMAIN setup.nodes[f.node].commands,
             NEW route \in {CommandRoute(setup, f.node, f.command)},
             SendPacket(CommandPacket(route), route, None)
      PROVE  Sending
  <2>1. f.node \in DOMAIN setup.nodes
    BY <1>3 DEF Fired, Simulated
  <2>2. route \in CommandRoutes(setup)
    BY <1>3, <2>1 DEF CommandRoutes
  <2>3. Len(CommandPacket(route).payload) \in Nat
    BY <1>1, <2>2, CommandPayload
  <2>4. Fitting(route, CommandPacket(route))
    BY <2>2 DEF Fitting
  <2>5. CommandPacket(route).src \in Addresses(Simulated(setup))
    <3>1. f.node \in Simulated(setup)
      BY <1>3 DEF Fired
    <3>2. CommandPacket(route).src = setup.nodes[f.node].address
      <4>1. route.src = setup.nodes[f.node].address
        <5>1. route = CommandRoute(setup, f.node, f.command)
          BY <1>3
        <5> QED
          BY ONLY <5>1 DEF CommandRoute
      <4>2. CommandPacket(route).src = route.src
        BY DEF CommandPacket
      <4> QED
        BY ONLY <4>1, <4>2
    <3> QED
      BY ONLY <3>1, <3>2 DEF Addresses
  <2>6. SendInside(CommandPacket(route), route, None)
    BY <1>1, <1>3, <2>4, <2>5 DEF SendInside
  <2> QED
    BY <1>1, <2>3, <2>6 DEF Sending
<1> QED
  BY <1>1, <1>2, <1>3 DEF Dispatch

(* Draining empties the monitor queue and the line into the runner's hand.  *)
LEMMA DrainEffect ==
  ASSUME Drain
  PROVE  phase = "run" /\ UNCHANGED <<setup, phase>> /\ Draining
BY DEF Drain, DrainAll, Draining, Running, startupVars

(* Every way a frame can go judges at most its own packet.                  *)
LEMMA DeliverEffect ==
  ASSUME Deliver, hand \in Seq(Envelope)
  PROVE  phase = "run" /\ UNCHANGED <<setup, phase>> /\ Taking
<1> DEFINE e == Head(hand)
           packet == PacketOf(e.packet)
           Took(o) == /\ Judged(e, o)
                      /\ outcomes' = Append(outcomes, o)
                      /\ \/ UNCHANGED arguments
                         \/ arguments' = [q \in DOMAIN arguments \ {e.seq} |-> arguments[q]]
<1>1. Delivering(e) /\ hand # <<>>
  BY DEF Deliver, Collect, DropOversized, DeliverCommand, CommandWithoutModule,
         DeliverTelemetry, NoRoute
<1>2. /\ phase = "run" /\ UNCHANGED <<setup, phase>>
      /\ hand' = Tail(hand)
      /\ UNCHANGED <<monitor, line, sequence, sent, trace>>
  BY <1>1 DEF Delivering, Running, startupVars, transportVars
<1>3. CASE Collect(e)
  BY <1>1, <1>2, <1>3 DEF Collect, Taking
<1>4. ASSUME e.last, \E o : Took(o)
      PROVE  Taking
  BY <1>1, <1>2, <1>4 DEF Taking
<1>5. CASE DropOversized(e)
  <2> DEFINE o == [number |-> e.packet, kind |-> "dropped", route |-> None, arguments |-> None]
  <2>1. e.last /\ outcomes' = Append(outcomes, o) /\ UNCHANGED arguments
    BY <1>5 DEF DropOversized, Becomes
  <2>2. Judged(e, o)
    BY DEF Judged
  <2>3. Took(o)
    BY <2>1, <2>2
  <2> QED
    BY <1>2, <1>4, <2>1, <2>3
<1>6. CASE DeliverCommand(e)
  <2>1. PICK route \in {RouteForPacket(setup, packet)} :
          /\ route.kind = "command"
          /\ arguments' = [q \in DOMAIN arguments \ {e.seq} |-> arguments[q]]
          /\ \/ Becomes(e, "command", route, Taken(e))
             \/ Becomes(e, "error", route, None)
    BY <1>6 DEF DeliverCommand
  <2>2. e.last
    BY <1>6 DEF DeliverCommand
  <2> DEFINE o1 == [number |-> e.packet, kind |-> "command", route |-> route,
                    arguments |-> Taken(e)]
             o2 == [number |-> e.packet, kind |-> "error", route |-> route, arguments |-> None]
  <2>3. Judged(e, o1) /\ Judged(e, o2)
    BY <2>1 DEF Judged
  <2>4. outcomes' = Append(outcomes, o1) \/ outcomes' = Append(outcomes, o2)
    BY <2>1 DEF Becomes
  <2>5. Took(o1) \/ Took(o2)
    BY <2>1, <2>3, <2>4
  <2> QED
    BY <1>2, <1>4, <2>2, <2>5
<1>7. CASE CommandWithoutModule(e)
  <2> DEFINE o == [number |-> e.packet, kind |-> "error", route |-> RouteForPacket(setup, packet),
                   arguments |-> None]
  <2>1. e.last /\ outcomes' = Append(outcomes, o) /\ UNCHANGED arguments
    BY <1>7 DEF CommandWithoutModule, Becomes
  <2>2. Took(o)
    BY <2>1 DEF Judged
  <2> QED
    BY <1>2, <1>4, <2>1, <2>2
<1>8. CASE DeliverTelemetry(e)
  <2> DEFINE o(kind) == [number |-> e.packet, kind |-> kind,
                         route |-> RouteForPacket(setup, packet), arguments |-> None]
  <2>1. /\ e.last /\ UNCHANGED arguments
        /\ RouteForPacket(setup, packet).kind = "telemetry"
        /\ outcomes' = Append(outcomes, o("sample")) \/ outcomes' = Append(outcomes, o("error"))
    BY <1>8 DEF DeliverTelemetry, Becomes
  <2>2. Judged(e, o("sample")) /\ Judged(e, o("error"))
    BY <2>1 DEF Judged
  <2>3. Took(o("sample")) \/ Took(o("error"))
    BY <2>1, <2>2
  <2> QED
    BY <1>2, <1>4, <2>1, <2>3
<1>9. CASE NoRoute(e)
  <2> DEFINE o(kind) == [number |-> e.packet, kind |-> kind,
                         route |-> RouteForPacket(setup, packet), arguments |-> None]
  <2>1. /\ e.last /\ UNCHANGED arguments
        /\ outcomes' = Append(outcomes, o("ignored")) \/ outcomes' = Append(outcomes, o("error"))
    BY <1>9 DEF NoRoute, Becomes
  <2>2. Judged(e, o("ignored")) /\ Judged(e, o("error"))
    BY DEF Judged
  <2>3. Took(o("ignored")) \/ Took(o("error"))
    BY <2>1, <2>2
  <2> QED
    BY <1>2, <1>4, <2>1, <2>3
<1> QED
  BY <1>2, <1>3, <1>5, <1>6, <1>7, <1>8, <1>9 DEF Deliver

(* Every step of the specification has one of the effects.                  *)
LEMMA StepEffects ==
  ASSUME SetupInv, EmittingInv, hand \in Seq(Envelope), [Next]_vars
  PROVE  Effect \/ (Idle /\ UNCHANGED <<setup, phase>>)
<1>1. CASE BeforeRun
  BY <1>1, PrepareEffect DEF Effect
<1>2. ASSUME NEW step \in Steps, NEW args \in Arguments \cup {None}, SendCommandStep(step, args)
      PROVE  Effect
  BY <1>2, StepCommandEffect DEF Effect
<1>3. CASE EmitTelemetry
  BY <1>3 DEF EmitTelemetry, Idle, startupVars, transportVars
<1>4. ASSUME NEW r \in emitting, NEW v \in Values, SendTelemetry(r, v)
      PROVE  Effect
  BY <1>4, SendTelemetryEffect DEF Effect
<1>5. ASSUME NEW packet \in ExternalPackets, PeerSends(packet)
      PROVE  Effect
  BY <1>5, PeerSendsEffect DEF Effect
<1>6. CASE Dispatch
  BY <1>6, DispatchEffect DEF Effect
<1>7. CASE Drain
  BY <1>7, DrainEffect DEF Effect
<1>8. CASE Deliver
  BY <1>8, DeliverEffect DEF Effect
<1>9. ASSUME NEW a \in Addresses(External(setup)), PeerCalls(a)
      PROVE  Idle /\ UNCHANGED <<setup, phase>>
  BY <1>9 DEF PeerCalls, ReceiveAt, ClearAt, DisconnectAt, ConnectAt, Idle, startupVars
<1>10. CASE UNCHANGED vars
  BY <1>10 DEF vars, startupVars, transportVars, runVars, Idle
<1> QED
  BY <1>1, <1>2, <1>3, <1>4, <1>5, <1>6, <1>7, <1>8, <1>9, <1>10 DEF Next

-----------------------------------------------------------------------------
(* What holds of the setup and of the endpoints while a scenario runs.      *)
EndpointsInv == phase = "run" /\ Kind = "kiss" => DOMAIN queues = Addresses(Simulated(setup))

RunInv == SetupInv /\ EmittingInv /\ EndpointsInv

(* Nothing runs at first.                                                   *)
LEMMA RunInvInit ==
  ASSUME Init
  PROVE  RunInv
BY DEF Init, StartupInit, RunInv, SetupInv, EmittingInv, EndpointsInv

(* Start-up leads into the run with an accepted setup and its endpoints.    *)
LEMMA RunInvBefore ==
  ASSUME RunInv, BeforeRun
  PROVE  RunInv'
<1>1. CASE StartupNext /\ UNCHANGED <<transportVars, runVars>>
  <2>1. phase \in {"start", "build"} /\ UNCHANGED emitting /\ emitting = {}
    BY <1>1 DEF StartupNext, RegisterModule, UnregisterModule, Load, Build, BuildFails,
                runVars, RunInv, EmittingInv
  <2>2. phase' # "run"
    BY <1>1, <2>1 DEF StartupNext, RegisterModule, UnregisterModule, Load, Build, BuildFails
  <2>3. SetupInv'
    BY <1>1 DEF StartupNext, RegisterModule, UnregisterModule, Load, Build, BuildFails,
                RunInv, SetupInv, Accepted, UniqueAddresses, CommandMappingsValid
  <2> QED
    BY <2>1, <2>2, <2>3 DEF RunInv, EmittingInv, EndpointsInv
<1>2. CASE StartRun
  <2>1. emitting' = {} /\ UNCHANGED setup /\ phase = "build"
    BY <1>2 DEF StartRun, Start, RunInv, EmittingInv
  <2>2. SetupInv'
    BY <2>1 DEF RunInv, SetupInv, UniqueAddresses, CommandMappingsValid
  <2>3. setup.transport = "kiss" => DOMAIN queues' = Addresses(Simulated(setup))
    BY <1>2 DEF StartRun, Connected
  <2>4. EndpointsInv'
    BY <2>1, <2>3 DEF EndpointsInv, Kind, Addresses
  <2> QED
    BY <2>1, <2>2, <2>4 DEF RunInv, EmittingInv
<1> QED
  BY <1>1, <1>2 DEF BeforeRun

(* While a scenario runs, endpoints come and go on the in-memory bus only.  *)
LEMMA EndpointsStay ==
  ASSUME NEW kind, kind = "kiss", NEW frames, NEW source, NEW destination
  PROVE  /\ TransportSend(kind, frames, source, destination) => DOMAIN queues' = DOMAIN queues
         /\ PeerSend(kind, frames, source) => DOMAIN queues' = DOMAIN queues
BY DEF TransportSend, KissSend, PeerSend

(* A step that leaves setup and phase alone keeps what start-up fixed.      *)
LEMMA RunInvKept ==
  ASSUME RunInv, UNCHANGED <<setup, phase>>,
         Kind = "kiss" => DOMAIN queues' = DOMAIN queues,
         emitting' # {} => hand' = <<>> /\ phase = "run" /\ emitting' \subseteq Emittable
  PROVE  RunInv'
<1>1. SetupInv'
  BY DEF RunInv, SetupInv, UniqueAddresses, CommandMappingsValid
<1>2. EmittingInv'
  BY DEF EmittingInv, Emittable, TelemetryRoutes, Mappings, TelemetryRoute, ResolvedSignal,
         Simulated
<1>3. EndpointsInv'
  BY DEF RunInv, EndpointsInv, Kind, Addresses, Simulated
<1> QED
  BY <1>1, <1>2, <1>3 DEF RunInv

(* What start-up fixed holds in every step.                                 *)
LEMMA RunInvStep ==
  ASSUME RunInv, [Next]_vars
  PROVE  RunInv'
<1>1. CASE BeforeRun
  BY <1>1, RunInvBefore
<1>2. ASSUME NEW step \in Steps, NEW args \in Arguments \cup {None}, SendCommandStep(step, args)
      PROVE  RunInv'
  <2>1. UNCHANGED <<setup, phase, emitting, hand>>
    BY <1>2 DEF SendCommandStep, startupVars
  <2>2. Kind = "kiss" => DOMAIN queues' = DOMAIN queues
    BY <1>2, EndpointsStay DEF SendCommandStep, SendPacket, transportVars
  <2> QED
    BY <2>1, <2>2, RunInvKept DEF RunInv, EmittingInv
<1>3. CASE EmitTelemetry
  <2>1. /\ UNCHANGED <<setup, phase, hand, queues>> /\ phase = "run" /\ hand = <<>>
        /\ emitting' \subseteq Emittable
    BY <1>3 DEF EmitTelemetry, startupVars, transportVars, Running, Settled, Emittable, Reporting
  <2> QED
    BY <2>1, RunInvKept
<1>4. ASSUME NEW r \in emitting, NEW v \in Values, SendTelemetry(r, v)
      PROVE  RunInv'
  <2>1. UNCHANGED <<setup, phase, hand>> /\ emitting' \subseteq emitting
    BY <1>4 DEF SendTelemetry, startupVars
  <2>2. Kind = "kiss" => DOMAIN queues' = DOMAIN queues
    BY <1>4, EndpointsStay DEF SendTelemetry, SendPacket, transportVars
  <2> QED
    BY <2>1, <2>2, RunInvKept DEF RunInv, EmittingInv
<1>5. ASSUME NEW packet \in ExternalPackets, PeerSends(packet)
      PROVE  RunInv'
  <2>1. UNCHANGED <<setup, phase, emitting, hand>>
    BY <1>5 DEF PeerSends, startupVars
  <2>2. Kind = "kiss" => DOMAIN queues' = DOMAIN queues
    BY <1>5, EndpointsStay DEF PeerSends
  <2> QED
    BY <2>1, <2>2, RunInvKept DEF RunInv, EmittingInv
<1>6. CASE Dispatch
  <2>1. UNCHANGED <<setup, phase, emitting>> /\ emitting = {}
    BY <1>6 DEF Dispatch, startupVars
  <2>2. Kind = "kiss" => DOMAIN queues' = DOMAIN queues
    BY <1>6, EndpointsStay DEF Dispatch, SendPacket, transportVars
  <2> QED
    BY <2>1, <2>2, RunInvKept
<1>7. CASE Drain
  <2>1. UNCHANGED <<setup, phase, emitting>> /\ emitting = {} /\ DOMAIN queues' = DOMAIN queues
    BY <1>7 DEF Drain, DrainAll, startupVars
  <2> QED
    BY <2>1, RunInvKept
<1>8. CASE Deliver
  <2>1. hand # <<>> /\ Delivering(Head(hand))
    BY <1>8 DEF Deliver, Collect, DropOversized, DeliverCommand, CommandWithoutModule,
                DeliverTelemetry, NoRoute
  <2>2. UNCHANGED <<setup, phase, emitting, queues>> /\ emitting = {}
    BY <2>1 DEF Delivering, startupVars, transportVars, RunInv, EmittingInv
  <2> QED
    BY <2>2, RunInvKept
<1>9. ASSUME NEW a \in Addresses(External(setup)), PeerCalls(a)
      PROVE  RunInv'
  <2>1. UNCHANGED <<setup, phase, emitting, hand>> /\ Kind = "in-memory"
    BY <1>9 DEF PeerCalls, startupVars
  <2> QED
    BY <2>1, RunInvKept DEF RunInv, EmittingInv
<1>10. CASE UNCHANGED vars
  <2>1. UNCHANGED <<setup, phase, emitting, hand, queues>>
    BY <1>10 DEF vars, startupVars, transportVars, runVars
  <2> QED
    BY <2>1, RunInvKept DEF RunInv, EmittingInv
<1> QED
  BY <1>1, <1>2, <1>3, <1>4, <1>5, <1>6, <1>7, <1>8, <1>9, <1>10 DEF Next

-----------------------------------------------------------------------------
(* Types, and that nothing refers to a packet that was not sent.            *)
Blank ==
  /\ monitor = <<>> /\ line = <<>> /\ hand = <<>> /\ sent = <<>> /\ outcomes = <<>>
  /\ trace = <<>> /\ arguments = <<>> /\ sequence = 0

Mentions(queue) == \A i \in 1..Len(queue) : queue[i].packet \in Numbers

Typed ==
  /\ sequence \in Nat
  /\ monitor \in Seq(Envelope) /\ hand \in Seq(Envelope) /\ line \in Seq(Frame)
  /\ IsSequence(sent) /\ IsSequence(outcomes) /\ IsSequence(trace)
  /\ Mentions(monitor) /\ Mentions(hand) /\ Mentions(line)
  /\ \A i \in 1..Len(outcomes) : outcomes[i].number \in Numbers
  /\ hand # <<>> => monitor = <<>>
  /\ phase # "run" => Blank

(* The empty sequence has no element.                                       *)
LEMMA EmptyShape ==
  /\ IsSequence(<<>>) /\ Len(<<>>) = 0
  /\ <<>> \in Seq(Envelope) /\ <<>> \in Seq(Frame)
<1>1. <<>> \in Seq({}) /\ Len(<<>>) = 0
  OBVIOUS
<1>2. <<>> \in Seq(Envelope) /\ <<>> \in Seq(Frame)
  OBVIOUS
<1> QED
  BY <1>1, <1>2, TypedIsSequence

(* Before the run every queue is empty, which is well typed.                *)
LEMMA BlankIsTyped ==
  ASSUME Blank
  PROVE  Typed
<1>1. Mentions(<<>>)
  BY EmptyShape DEF Mentions
<1> QED
  BY <1>1, EmptyShape DEF Blank, Typed

(* Where the frames of a packet that is sent can be found.                  *)
Queued(frames) ==
  /\ monitor' = monitor \o Numbered(frames, sequence)
  /\ sequence' = sequence + Len(frames)
  /\ hand = <<>>
  /\ UNCHANGED line

Waits(frames) ==
  /\ line' = line \o frames
  /\ sequence' \in {sequence, sequence + Len(frames)}
  /\ UNCHANGED monitor

Leaves(frames) ==
  /\ sequence' = sequence + Len(frames)
  /\ UNCHANGED <<monitor, line>>

(* What sending means for packet number Len(sent) + 1: it is recorded, and  *)
(* its frames are queued, wait outside, or leave.                           *)
SentNow(packet, route, args, inside) ==
  /\ sent' = Append(sent, [packet |-> packet, route |-> route, arguments |-> args,
                           inside |-> inside])
  /\ \/ /\ Queued(PacketFrames(packet))
        /\ Kind = "in-memory" \/ (Kind = "kiss" /\ inside)
     \/ /\ Waits(PacketFrames(packet))
        /\ \/ Kind = "own" /\ sequence' = sequence + Len(PacketFrames(packet))
           \/ ~inside /\ Kind # "in-memory" /\ UNCHANGED sequence
     \/ /\ Leaves(PacketFrames(packet))
        /\ inside
        /\ \/ Kind = "socketcan"
           \/ Kind = "kiss" /\ packet.dst \notin Addresses(Simulated(setup))

(* Sending appends one packet to the history and its frames to one place.   *)
LEMMA SendingShape ==
  ASSUME RunInv, phase = "run", Sending
  PROVE  \E packet :
           /\ Len(packet.payload) \in Nat
           /\ \/ \E route, args : /\ SendInside(packet, route, args)
                                  /\ SentNow(packet, route, args, TRUE)
              \/ /\ SendOutside(packet)
                 /\ SentNow(packet, None, None, FALSE)
<1>1. PICK packet : /\ Len(packet.payload) \in Nat
                    /\ \/ \E route, args : SendInside(packet, route, args)
                       \/ SendOutside(packet)
  BY DEF Sending
<1>2. ASSUME NEW route, NEW args, SendInside(packet, route, args)
      PROVE  SentNow(packet, route, args, TRUE)
  <2>1. TransportSend(Kind, PacketFrames(packet), packet.src, packet.dst)
    BY <1>2 DEF SendInside, SendPacket, PacketFrames
  <2>2. CASE Kind = "in-memory" /\ InMemorySend(PacketFrames(packet), packet.src)
    BY <1>2, <2>2 DEF InMemorySend, SendInside, SendPacket, SentNow, Queued
  <2>3. CASE Kind = "socketcan" /\ SocketCanSend(PacketFrames(packet), FALSE)
    BY <1>2, <2>3 DEF SocketCanSend, SendInside, SendPacket, SentNow, Leaves
  <2>4. CASE Kind = "own" /\ SocketCanSend(PacketFrames(packet), TRUE)
    BY <1>2, <2>4 DEF SocketCanSend, SendInside, SendPacket, SentNow, Waits
  <2>5. CASE Kind = "kiss" /\ KissSend(PacketFrames(packet), packet.src, packet.dst)
    <3>1. DOMAIN queues = Addresses(Simulated(setup))
      BY <2>5 DEF RunInv, EndpointsInv
    <3> QED
      BY <1>2, <2>5, <3>1 DEF KissSend, SendInside, SendPacket, SentNow, Queued, Leaves
  <2> QED
    BY <2>1, <2>2, <2>3, <2>4, <2>5 DEF TransportSend
<1>3. ASSUME SendOutside(packet)
      PROVE  SentNow(packet, None, None, FALSE)
  BY <1>3 DEF SendOutside, PeerSend, InMemorySend, SentNow, Queued, Waits
<1> QED
  BY <1>1, <1>2, <1>3

(* A function on 1..n is a sequence of length n.                            *)
LEMMA MapShape ==
  ASSUME NEW n \in Nat, NEW f, f = [i \in 1..n |-> f[i]]
  PROVE  IsSequence(f) /\ Len(f) = n
<1>1. f \in Seq({f[i] : i \in 1..n}) /\ Len(f) = n
  OBVIOUS
<1> QED
  BY <1>1 DEF IsSequence

(* What drain returns: the monitor queue, then the line, numbered on.       *)
LEMMA ReceivedShape ==
  ASSUME Typed
  PROVE  /\ Received \in Seq(Envelope)
         /\ Len(Received) = Len(monitor) + Len(line)
         /\ Len(monitor) \in Nat /\ Len(line) \in Nat
         /\ \A i \in 1..Len(monitor) : Received[i] = monitor[i]
         /\ \A j \in 1..Len(line) : /\ Received[Len(monitor) + j].packet = line[j].packet
                                   /\ Received[Len(monitor) + j].last = line[j].last
                                   /\ Received[Len(monitor) + j].seq = sequence + j - 1
         /\ \A i \in 1..Len(Received) :
              i \in 1..Len(monitor) \/ \E j \in 1..Len(line) : i = Len(monitor) + j
<1> DEFINE read == Numbered(line, sequence)
<1>1. /\ read \in Seq(Envelope) /\ Len(read) = Len(line) /\ Len(line) \in Nat
      /\ \A j \in 1..Len(line) : /\ read[j].packet = line[j].packet
                                /\ read[j].last = line[j].last
                                /\ read[j].seq = sequence + j - 1
  BY NumberedShape DEF Typed
<1>2. Received = monitor \o read /\ monitor \in Seq(Envelope)
  BY DEF Received, Typed
<1> HIDE DEF read
<1>3. Received \in Seq(Envelope)
  BY <1>1, <1>2
<1>4. IsSequence(monitor) /\ IsSequence(read)
  BY <1>1, <1>2, TypedIsSequence
<1>5. /\ Len(Received) = Len(monitor) + Len(line) /\ Len(monitor) \in Nat
      /\ \A i \in 1..Len(monitor) : Received[i] = monitor[i]
      /\ \A j \in 1..Len(line) : Received[Len(monitor) + j] = read[j]
  <2>1. /\ Len(monitor \o read) = Len(monitor) + Len(read) /\ Len(monitor) \in Nat
        /\ \A i \in 1..Len(monitor) : (monitor \o read)[i] = monitor[i]
        /\ \A j \in 1..Len(read) : (monitor \o read)[Len(monitor) + j] = read[j]
    BY <1>4, ConcatShape
  <2> QED
    BY <1>1, <1>2, <2>1
<1>6. ASSUME NEW i \in 1..Len(Received)
      PROVE  i \in 1..Len(monitor) \/ \E j \in 1..Len(line) : i = Len(monitor) + j
  <2>1. i \in 1..Len(monitor) \/ i - Len(monitor) \in 1..Len(line)
    BY <1>1, <1>5
  <2>2. i = Len(monitor) + (i - Len(monitor))
    BY <1>5
  <2> QED
    BY <2>1, <2>2
<1> QED
  BY <1>1, <1>3, <1>5, <1>6

(* The frames of the packet that is being sent.                             *)
LEMMA PacketFramesShape ==
  ASSUME Typed, NEW packet, Len(packet.payload) \in Nat
  PROVE  /\ PacketFrames(packet) \in Seq(Frame)
         /\ Len(PacketFrames(packet)) \in Nat \ {0}
         /\ \A i \in 1..Len(PacketFrames(packet)) :
              /\ PacketFrames(packet)[i].packet = Len(sent) + 1
              /\ PacketFrames(packet)[i].last <=> i = Len(PacketFrames(packet))
<1>1. Len(sent) + 1 \in Nat
  BY DEF Typed, IsSequence
<1> QED
  BY <1>1, FramesShape DEF PacketFrames

(* Sending keeps the queues well typed.                                     *)
LEMMA TypedSending ==
  ASSUME RunInv, Typed, phase = "run", UNCHANGED <<setup, phase>>, Sending
  PROVE  Typed'
<1>1. PICK packet :
        /\ Len(packet.payload) \in Nat
        /\ \/ \E route, args : /\ SendInside(packet, route, args)
                               /\ SentNow(packet, route, args, TRUE)
           \/ /\ SendOutside(packet)
              /\ SentNow(packet, None, None, FALSE)
  BY SendingShape
<1> DEFINE frames == PacketFrames(packet)
<1>2. /\ frames \in Seq(Frame) /\ Len(frames) \in Nat \ {0}
      /\ \A i \in 1..Len(frames) : frames[i].packet = Len(sent) + 1
  BY <1>1, PacketFramesShape
<1>3. PICK record : sent' = Append(sent, record)
  BY <1>1 DEF SentNow
<1>4. IsSequence(sent') /\ Len(sent) \in Nat /\ Len(sent') = Len(sent) + 1
  BY <1>3, AppendShape DEF Typed
<1>5. Numbers \subseteq Numbers' /\ Len(sent) + 1 \in Numbers'
  BY <1>4 DEF Numbers
<1>6. Queued(frames) \/ Waits(frames) \/ Leaves(frames)
  BY <1>1 DEF SentNow
<1>7. IsSequence(trace')
  <2>1. CASE UNCHANGED trace
    BY <2>1 DEF Typed
  <2>2. CASE trace' = trace \o [i \in 1..Len(frames) |-> Line("TX", frames[i], packet)]
    <3> DEFINE lines == [i \in 1..Len(frames) |-> Line("TX", frames[i], packet)]
    <3>1. lines = [i \in 1..Len(frames) |-> lines[i]]
      OBVIOUS
    <3> HIDE DEF lines
    <3>2. IsSequence(lines)
      BY <1>2, <3>1, MapShape
    <3> QED
      BY <2>2, <3>2, ConcatShape DEF Typed, lines
  <2> QED
    BY <1>1, <2>1, <2>2 DEF SendInside, SendOutside, SendPacket, PacketFrames
<1> HIDE DEF frames
<1>8. hand' = hand /\ outcomes' = outcomes
  BY DEF Sending
<1>9. Mentions(hand)' /\ (\A i \in 1..Len(outcomes') : outcomes'[i].number \in Numbers')
  BY <1>5, <1>8 DEF Typed, Mentions
<1>10. ASSUME NEW queue, IsSequence(queue), Mentions(queue),
              NEW more, IsSequence(more), \A i \in 1..Len(more) : more[i].packet = Len(sent) + 1
       PROVE  \A i \in 1..Len(queue \o more) : (queue \o more)[i].packet \in Numbers'
  <2>1. \A i \in 1..Len(queue \o more) :
          \/ i \in 1..Len(queue) /\ (queue \o more)[i] = queue[i]
          \/ i - Len(queue) \in 1..Len(more) /\ (queue \o more)[i] = more[i - Len(queue)]
    BY <1>10, ConcatShape
  <2>2. \A i \in 1..Len(queue) : queue[i].packet \in Numbers'
    BY <1>5, <1>10 DEF Mentions
  <2>3. \A i \in 1..Len(more) : more[i].packet \in Numbers'
    BY <1>5, <1>10
  <2> QED
    BY <2>1, <2>2, <2>3
<1>11. IsSequence(monitor) /\ IsSequence(line) /\ IsSequence(frames)
  BY <1>2, TypedIsSequence DEF Typed
<1>12. /\ monitor' \in Seq(Envelope) /\ line' \in Seq(Frame) /\ sequence' \in Nat
       /\ Mentions(monitor)' /\ Mentions(line)'
       /\ hand # <<>> => monitor' = monitor
  <2>1. CASE Queued(frames)
    <3> DEFINE envelopes == Numbered(frames, sequence)
    <3>1. /\ envelopes \in Seq(Envelope) /\ Len(envelopes) = Len(frames)
          /\ \A i \in 1..Len(frames) : envelopes[i].packet = frames[i].packet
      BY <1>2, NumberedShape DEF Typed
    <3>2. monitor' = monitor \o envelopes /\ UNCHANGED line /\ hand = <<>>
          /\ sequence' = sequence + Len(frames)
      BY <2>1 DEF Queued
    <3> HIDE DEF envelopes
    <3>3. IsSequence(envelopes)
      BY <3>1, TypedIsSequence
    <3>4. \A i \in 1..Len(monitor \o envelopes) : (monitor \o envelopes)[i].packet \in Numbers'
      BY <1>2, <1>10, <1>11, <3>1, <3>3 DEF Typed
    <3>5. Mentions(monitor)' /\ Mentions(line)'
      BY <1>5, <3>2, <3>4 DEF Mentions, Typed
    <3>6. monitor \o envelopes \in Seq(Envelope) /\ line \in Seq(Frame) /\ sequence + Len(frames) \in Nat
      BY <1>2, <3>1 DEF Typed
    <3> QED
      BY <3>2, <3>5, <3>6
  <2>2. CASE Waits(frames)
    <3>1. line' = line \o frames /\ UNCHANGED monitor /\ sequence' \in {sequence, sequence + Len(frames)}
      BY <2>2 DEF Waits
    <3>2. \A i \in 1..Len(line \o frames) : (line \o frames)[i].packet \in Numbers'
      BY <1>2, <1>10, <1>11 DEF Typed
    <3>3. Mentions(monitor)' /\ Mentions(line)'
      BY <1>5, <3>1, <3>2 DEF Mentions, Typed
    <3>4. line \o frames \in Seq(Frame) /\ sequence' \in Nat /\ monitor \in Seq(Envelope)
      BY <1>2, <3>1 DEF Typed
    <3> QED
      BY <3>1, <3>3, <3>4
  <2>3. CASE Leaves(frames)
    <3>1. UNCHANGED <<monitor, line>> /\ sequence' = sequence + Len(frames)
      BY <2>3 DEF Leaves
    <3>2. Mentions(monitor)' /\ Mentions(line)'
      BY <1>5, <3>1 DEF Mentions, Typed
    <3> QED
      BY <1>2, <3>1, <3>2 DEF Typed
  <2> QED
    BY <1>6, <2>1, <2>2, <2>3
<1> QED
  BY <1>4, <1>7, <1>8, <1>9, <1>12 DEF Typed

(* Draining keeps the queues well typed.                                    *)
LEMMA TypedDraining ==
  ASSUME Typed, phase = "run", UNCHANGED <<setup, phase>>, Draining
  PROVE  Typed'
<1>1. /\ hand' = Received /\ monitor' = <<>> /\ line' = <<>>
      /\ sequence' = sequence + Len(line)
      /\ UNCHANGED <<sent, outcomes>>
  BY DEF Draining
<1>2. /\ Received \in Seq(Envelope) /\ Len(line) \in Nat
      /\ \A i \in 1..Len(monitor) : Received[i] = monitor[i]
      /\ \A j \in 1..Len(line) : Received[Len(monitor) + j].packet = line[j].packet
      /\ \A i \in 1..Len(Received) :
           i \in 1..Len(monitor) \/ \E j \in 1..Len(line) : i = Len(monitor) + j
  BY ReceivedShape
<1>3. \A i \in 1..Len(Received) : Received[i].packet \in Numbers
  BY <1>2, ZenonT(40) DEF Typed, Mentions
<1>4. Mentions(hand)' /\ Numbers' = Numbers
  BY <1>1, <1>3 DEF Mentions, Numbers
<1>5. IsSequence(trace')
  <2> DEFINE lines == [i \in 1..Len(Received) |->
                        Line("RX", Received[i], PacketOf(Received[i].packet))]
  <2>1. lines = [i \in 1..Len(Received) |-> lines[i]] /\ trace' = trace \o lines
    BY DEF Draining
  <2>2. Len(Received) \in Nat
    BY <1>2
  <2> HIDE DEF lines
  <2> QED
    BY <2>1, <2>2, MapShape, ConcatShape DEF Typed
<1>6. Mentions(monitor)' /\ Mentions(line)'
  BY <1>1, EmptyShape DEF Mentions
<1> QED
  BY <1>1, <1>2, <1>4, <1>5, <1>6, EmptyShape DEF Typed

(* Taking in detail: what is in hand moves up, outcomes may grow by one.    *)
LEMMA TakingShape ==
  ASSUME Typed, Taking
  PROVE  /\ UNCHANGED <<monitor, line, sequence, sent, trace>>
         /\ monitor = <<>>
         /\ hand' \in Seq(Envelope)
         /\ Len(hand) \in Nat \ {0} /\ Len(hand') = Len(hand) - 1
         /\ \A i \in 1..Len(hand') : hand'[i] = hand[i + 1]
         /\ Numbers' = Numbers /\ hand[1].packet \in Numbers
         /\ IsSequence(outcomes')
         /\ \/ ~hand[1].last /\ UNCHANGED <<arguments, outcomes>>
            \/ /\ hand[1].last
               /\ Len(outcomes) \in Nat
               /\ Len(outcomes') = Len(outcomes) + 1
               /\ \A i \in 1..Len(outcomes) : outcomes'[i] = outcomes[i]
               /\ Judged(hand[1], outcomes'[Len(outcomes) + 1])
               /\ \/ UNCHANGED arguments
                  \/ arguments' = [q \in DOMAIN arguments \ {hand[1].seq} |-> arguments[q]]
<1>1. /\ hand # <<>> /\ hand' = Tail(hand)
      /\ UNCHANGED <<monitor, line, sequence, sent, trace>>
  BY DEF Taking
<1>2. /\ Head(hand) = hand[1] /\ hand' \in Seq(Envelope)
      /\ Len(hand) \in Nat \ {0} /\ Len(hand') = Len(hand) - 1
      /\ \A i \in 1..Len(hand') : hand'[i] = hand[i + 1]
  BY <1>1, HeadTailShape DEF Typed
<1>3. Numbers' = Numbers /\ hand[1].packet \in Numbers
  BY <1>1, <1>2 DEF Numbers, Typed, Mentions
<1>4. CASE ~hand[1].last /\ UNCHANGED <<arguments, outcomes>>
  BY <1>1, <1>2, <1>3, <1>4 DEF Typed
<1>5. ASSUME hand[1].last,
             NEW o, Judged(hand[1], o), outcomes' = Append(outcomes, o),
             \/ UNCHANGED arguments
             \/ arguments' = [q \in DOMAIN arguments \ {hand[1].seq} |-> arguments[q]]
      PROVE  /\ IsSequence(outcomes')
             /\ Len(outcomes) \in Nat
             /\ Len(outcomes') = Len(outcomes) + 1
             /\ \A i \in 1..Len(outcomes) : outcomes'[i] = outcomes[i]
             /\ Judged(hand[1], outcomes'[Len(outcomes) + 1])
  BY <1>5, AppendShape DEF Typed
<1> QED
  BY <1>1, <1>2, <1>3, <1>4, <1>5 DEF Taking, Typed

(* Dealing with a frame keeps the queues well typed.                        *)
LEMMA TypedTaking ==
  ASSUME Typed, phase = "run", UNCHANGED <<setup, phase>>, Taking
  PROVE  Typed'
<1>1. /\ UNCHANGED <<monitor, line, sequence, sent, trace>>
      /\ hand' \in Seq(Envelope) /\ Len(hand) \in Nat \ {0} /\ Len(hand') = Len(hand) - 1
      /\ \A i \in 1..Len(hand') : hand'[i] = hand[i + 1]
      /\ Numbers' = Numbers
      /\ monitor = <<>>
      /\ IsSequence(outcomes')
  BY TakingShape
<1>2. Mentions(hand)' /\ Mentions(monitor)' /\ Mentions(line)'
  BY <1>1 DEF Typed, Mentions
<1>3. \A i \in 1..Len(outcomes') : outcomes'[i].number \in Numbers
  <2>1. CASE UNCHANGED outcomes
    BY <2>1 DEF Typed
  <2>2. CASE /\ Len(outcomes) \in Nat
             /\ Len(outcomes') = Len(outcomes) + 1
             /\ \A i \in 1..Len(outcomes) : outcomes'[i] = outcomes[i]
             /\ Judged(hand[1], outcomes'[Len(outcomes) + 1])
    <3>1. outcomes'[Len(outcomes) + 1].number \in Numbers
      BY <2>2, TakingShape DEF Judged
    <3> QED
      BY <2>2, <3>1 DEF Typed
  <2> QED
    BY <2>1, <2>2, TakingShape
<1> QED
  BY <1>1, <1>2, <1>3 DEF Typed

(* Start-up leaves the queues empty.                                        *)
LEMMA BlankStays ==
  ASSUME Blank, Prepare
  PROVE  Blank' /\ Typed'
<1>1. Blank'
  BY DEF Blank, Prepare
<1>2. Mentions(<<>>)'
  BY EmptyShape DEF Mentions
<1>3. Typed'
  BY <1>1, <1>2, EmptyShape DEF Blank, Typed
<1> QED
  BY <1>1, <1>3

(* The queues are well typed after every step.                              *)
LEMMA TypedStep ==
  ASSUME RunInv, Typed, [Next]_vars
  PROVE  Typed'
<1>1. CASE Prepare
  BY <1>1, BlankStays DEF Prepare, Typed
<1>2. CASE phase = "run" /\ UNCHANGED <<setup, phase>> /\ Sending
  BY <1>2, TypedSending
<1>3. CASE phase = "run" /\ UNCHANGED <<setup, phase>> /\ Draining
  BY <1>3, TypedDraining
<1>4. CASE phase = "run" /\ UNCHANGED <<setup, phase>> /\ Taking
  BY <1>4, TypedTaking
<1>5. CASE Idle /\ UNCHANGED <<setup, phase>>
  BY <1>5 DEF Idle, Typed, Blank, Mentions, Numbers
<1> QED
  BY <1>1, <1>2, <1>3, <1>4, <1>5, StepEffects DEF RunInv, Typed, Effect

-----------------------------------------------------------------------------
(* Packets were sent along their routes, and outcomes are what resolution   *)
(* says.                                                                    *)
RoutesFit == \A k \in Numbers : sent[k].route # None => Fitting(sent[k].route, PacketOf(k))

OutcomesResolved ==
  \A i \in 1..Len(outcomes) :
    LET o == outcomes[i]
    IN  /\ o.kind # "dropped" => o.route = RouteForPacket(setup, PacketOf(o.number))
        /\ o.kind = "command" => o.route.kind = "command"
        /\ o.kind = "sample" => o.route.kind = "telemetry"

ResolutionInv == RoutesFit /\ OutcomesResolved

(* Sending adds one packet and changes no other.                            *)
LEMMA SentGrows ==
  ASSUME Typed, NEW packet, NEW route, NEW args, NEW inside, SentNow(packet, route, args, inside)
  PROVE  /\ Len(sent) \in Nat
         /\ Numbers' = Numbers \cup {Len(sent) + 1}
         /\ \A k \in Numbers : sent'[k] = sent[k]
         /\ sent'[Len(sent) + 1].packet = packet
         /\ sent'[Len(sent) + 1].route = route
         /\ sent'[Len(sent) + 1].arguments = args
         /\ sent'[Len(sent) + 1].inside = inside
<1> DEFINE record == [packet |-> packet, route |-> route, arguments |-> args, inside |-> inside]
<1>1. sent' = Append(sent, record)
  BY DEF SentNow
<1> HIDE DEF record
<1>2. /\ Len(sent) \in Nat /\ Len(sent') = Len(sent) + 1
      /\ \A k \in 1..Len(sent) : sent'[k] = sent[k]
      /\ sent'[Len(sent) + 1] = record
  BY <1>1, AppendShape DEF Typed
<1>3. /\ record.packet = packet /\ record.route = route
      /\ record.arguments = args /\ record.inside = inside
  BY DEF record
<1> QED
  BY <1>2, <1>3 DEF Numbers

(* Nothing is resolved before anything is sent.                             *)
LEMMA ResolutionBlank ==
  ASSUME Blank
  PROVE  ResolutionInv
BY EmptyShape DEF Blank, ResolutionInv, RoutesFit, OutcomesResolved, Numbers

(* Packets fit their routes and outcomes are resolutions, after every step. *)
LEMMA ResolutionStep ==
  ASSUME RunInv, Typed, ResolutionInv, [Next]_vars
  PROVE  ResolutionInv'
<1>1. CASE Prepare
  <2>1. Blank'
    BY <1>1, BlankStays DEF Prepare, Typed
  <2> QED
    BY <2>1, EmptyShape DEF Blank, ResolutionInv, RoutesFit, OutcomesResolved, Numbers
<1>2. CASE phase = "run" /\ UNCHANGED <<setup, phase>> /\ Sending
  <2>1. PICK packet :
          \/ \E route, args : /\ SendInside(packet, route, args)
                             /\ SentNow(packet, route, args, TRUE)
          \/ SentNow(packet, None, None, FALSE)
    BY <1>2, SendingShape
  <2>2. ASSUME NEW route, NEW args, NEW inside, SentNow(packet, route, args, inside),
               route # None => Fitting(route, packet)
        PROVE  ResolutionInv'
    <3>1. /\ Numbers' = Numbers \cup {Len(sent) + 1}
          /\ \A k \in Numbers : sent'[k] = sent[k]
          /\ sent'[Len(sent) + 1].packet = packet
          /\ sent'[Len(sent) + 1].route = route
      BY <2>2, SentGrows
    <3>2. \A r, p : Fitting(r, p) => Fitting(r, p)'
      BY <1>2 DEF Fitting
    <3>3. ASSUME NEW k \in Numbers', sent'[k].route # None
          PROVE  Fitting(sent'[k].route, sent'[k].packet)
      BY <2>2, <3>1, <3>3 DEF ResolutionInv, RoutesFit, PacketOf
    <3>4. RoutesFit'
      BY <3>2, <3>3 DEF RoutesFit, PacketOf
    <3>5. OutcomesResolved'
      BY <1>2, <3>1 DEF ResolutionInv, OutcomesResolved, PacketOf, Sending, Typed
    <3> QED
      BY <3>4, <3>5 DEF ResolutionInv
  <2> QED
    BY <2>1, <2>2 DEF SendInside
<1>3. CASE phase = "run" /\ UNCHANGED <<setup, phase>> /\ Draining
  BY <1>3 DEF Draining, ResolutionInv, RoutesFit, OutcomesResolved, Fitting, PacketOf, Numbers
<1>4. CASE phase = "run" /\ UNCHANGED <<setup, phase>> /\ Taking
  <2>1. UNCHANGED sent /\ Numbers' = Numbers
    BY <1>4, TakingShape
  <2>2. RoutesFit'
    BY <1>4, <2>1 DEF ResolutionInv, RoutesFit, Fitting, PacketOf
  <2>3. OutcomesResolved'
    <3>1. CASE UNCHANGED outcomes
      BY <1>4, <2>1, <3>1 DEF ResolutionInv, OutcomesResolved, PacketOf
    <3>2. CASE /\ Len(outcomes) \in Nat
               /\ Len(outcomes') = Len(outcomes) + 1
               /\ \A i \in 1..Len(outcomes) : outcomes'[i] = outcomes[i]
               /\ Judged(hand[1], outcomes'[Len(outcomes) + 1])
      BY <1>4, <2>1, <3>2 DEF ResolutionInv, OutcomesResolved, PacketOf, Judged
    <3> QED
      BY <1>4, <3>1, <3>2, TakingShape
  <2> QED
    BY <2>2, <2>3 DEF ResolutionInv
<1>5. CASE Idle /\ UNCHANGED <<setup, phase>>
  BY <1>5 DEF Idle, ResolutionInv, RoutesFit, OutcomesResolved, Fitting, PacketOf, Numbers
<1> QED
  BY <1>1, <1>2, <1>3, <1>4, <1>5, StepEffects DEF RunInv, Typed, Effect

(* Resolved outcomes are deliveries as sent.                                *)
LEMMA ResolutionDelivers ==
  ASSUME Typed, ResolutionInv
  PROVE  DeliveredAsSent
<1> SUFFICES ASSUME NEW i \in 1..Len(outcomes),
                    outcomes[i].kind \in {"command", "sample"},
                    sent[outcomes[i].number].route # None
             PROVE  \/ outcomes[i].route = sent[outcomes[i].number].route
                    \/ Shadowed(setup, sent[outcomes[i].number].route)
  BY DEF DeliveredAsSent
<1> DEFINE o == outcomes[i]
           route == sent[o.number].route
           packet == PacketOf(o.number)
<1>1. o.number \in Numbers
  BY DEF Typed
<1>2. Fitting(route, packet)
  BY <1>1 DEF ResolutionInv, RoutesFit
<1>3. o.route = RouteForPacket(setup, packet) /\ o.route.kind \in {"command", "telemetry"}
  BY DEF ResolutionInv, OutcomesResolved
<1> HIDE DEF o, route, packet
<1>4. o.route # Ambiguous
  BY <1>3 DEF Ambiguous
<1>5. CASE route \in CommandRoutes(setup) /\ packet = CommandPacket(route)
  BY <1>3, <1>4, <1>5, CommandFound DEF o, route
<1>6. ASSUME NEW v, route \in TelemetryRoutes(setup), packet = TelemetryPacket(route, v)
      PROVE  o.route = route \/ Shadowed(setup, route)
  BY <1>3, <1>4, <1>6, TelemetryFound
<1> QED
  BY <1>2, <1>5, <1>6 DEF Fitting, o, route

-----------------------------------------------------------------------------
(* Every packet is somewhere: NothingLostQuietly, whatever the status.      *)
Somewhere(k) ==
  \/ InQueue(monitor, k) \/ InQueue(line, k) \/ InQueue(hand, k)
  \/ OutcomeOf(k)
  \/ GoesAway(k)

Accounted == \A k \in Numbers : Somewhere(k)

(* A queue that grows at its end keeps its packets and gets the new ones.   *)
LEMMA QueueKeeps ==
  ASSUME NEW queue, IsSequence(queue), NEW more, IsSequence(more), NEW k,
         InQueue(queue, k) \/ InQueue(more, k)
  PROVE  InQueue(queue \o more, k)
<1>1. /\ Len(queue) \in Nat /\ Len(more) \in Nat
      /\ Len(queue \o more) = Len(queue) + Len(more)
      /\ \A i \in 1..Len(queue) : (queue \o more)[i] = queue[i]
      /\ \A i \in 1..Len(more) : (queue \o more)[Len(queue) + i] = more[i]
  BY ConcatShape
<1>2. CASE InQueue(queue, k)
  BY <1>1, <1>2 DEF InQueue
<1>3. CASE InQueue(more, k)
  <2>1. PICK i \in 1..Len(more) : more[i].packet = k /\ more[i].last
    BY <1>3 DEF InQueue
  <2>2. Len(queue) + i \in 1..Len(queue \o more) /\ (queue \o more)[Len(queue) + i] = more[i]
    BY <1>1
  <2> QED
    BY <2>1, <2>2 DEF InQueue
<1> QED
  BY <1>2, <1>3

(* The packet just sent is in the queue its frames went to.                 *)
LEMMA NewPacketQueued ==
  ASSUME Typed, NEW packet, Len(packet.payload) \in Nat
  PROVE  /\ InQueue(PacketFrames(packet), Len(sent) + 1)
         /\ InQueue(Numbered(PacketFrames(packet), sequence), Len(sent) + 1)
         /\ IsSequence(PacketFrames(packet))
         /\ IsSequence(Numbered(PacketFrames(packet), sequence))
<1> DEFINE frames == PacketFrames(packet)
           envelopes == Numbered(frames, sequence)
           n == Len(frames)
<1>1. /\ frames \in Seq(Frame) /\ n \in Nat \ {0}
      /\ frames[n].packet = Len(sent) + 1 /\ frames[n].last
  BY PacketFramesShape
<1>2. /\ envelopes \in Seq(Envelope) /\ Len(envelopes) = n
      /\ envelopes[n].packet = Len(sent) + 1 /\ envelopes[n].last
  BY <1>1, NumberedShape, SMTT(30) DEF Typed
<1> HIDE DEF frames, envelopes
<1>3. InQueue(frames, Len(sent) + 1) /\ InQueue(envelopes, Len(sent) + 1)
  BY <1>1, <1>2 DEF InQueue
<1> QED
  BY <1>1, <1>2, <1>3, TypedIsSequence DEF frames, envelopes

(* A packet sent is queued or goes away, and no other is lost.              *)
LEMMA AccountedSending ==
  ASSUME RunInv, Typed, Accounted, phase = "run", UNCHANGED <<setup, phase>>, Sending
  PROVE  Accounted'
<1>1. PICK packet :
        /\ Len(packet.payload) \in Nat
        /\ \E route, args, inside : SentNow(packet, route, args, inside)
  BY SendingShape
<1>2. PICK route, args, inside : SentNow(packet, route, args, inside)
  BY <1>1
<1>0. PICK new : new = Len(sent) + 1
  OBVIOUS
<1> DEFINE frames == PacketFrames(packet)
<1>3. /\ Numbers' = Numbers \cup {new}
      /\ \A k \in Numbers : sent'[k] = sent[k]
      /\ sent'[new].packet = packet /\ sent'[new].inside = inside
  BY <1>0, <1>2, SentGrows
<1>4. UNCHANGED <<hand, outcomes>>
  BY DEF Sending
<1>5. IsSequence(monitor) /\ IsSequence(line)
  BY TypedIsSequence DEF Typed
<1>6. /\ InQueue(frames, new) /\ IsSequence(frames)
      /\ InQueue(Numbered(frames, sequence), new) /\ IsSequence(Numbered(frames, sequence))
  BY <1>0, <1>1, NewPacketQueued
<1> HIDE DEF frames
<1>7. \/ /\ monitor' = monitor \o Numbered(frames, sequence) /\ UNCHANGED line
      \/ /\ line' = line \o frames /\ UNCHANGED monitor
      \/ /\ UNCHANGED <<monitor, line>>
         /\ inside
         /\ \/ Kind = "socketcan"
            \/ Kind = "kiss" /\ packet.dst \notin Addresses(Simulated(setup))
  BY <1>2 DEF SentNow, Queued, Waits, Leaves, frames
<1>8. \A k : (InQueue(monitor, k) => InQueue(monitor', k)) /\ (InQueue(line, k) => InQueue(line', k))
  BY <1>5, <1>6, <1>7, QueueKeeps
<1>9. ASSUME NEW k \in Numbers
      PROVE  Somewhere(k)'
  <2>1. GoesAway(k) => GoesAway(k)'
    BY <1>3 DEF GoesAway, PacketOf, Kind, Addresses
  <2>2. OutcomeOf(k) => OutcomeOf(k)'
    BY <1>4 DEF OutcomeOf
  <2>3. InQueue(hand, k) => InQueue(hand', k)
    BY <1>4
  <2> QED
    BY <1>8, <2>1, <2>2, <2>3 DEF Accounted, Somewhere
<1>10. Somewhere(new)'
  <2>1. CASE monitor' = monitor \o Numbered(frames, sequence)
    BY <1>5, <1>6, <2>1, QueueKeeps DEF Somewhere
  <2>2. CASE line' = line \o frames
    BY <1>5, <1>6, <2>2, QueueKeeps DEF Somewhere
  <2>3. CASE /\ inside
             /\ \/ Kind = "socketcan"
                \/ Kind = "kiss" /\ packet.dst \notin Addresses(Simulated(setup))
    BY <1>3, <2>3 DEF Somewhere, GoesAway, PacketOf, Kind, Addresses
  <2> QED
    BY <1>7, <2>1, <2>2, <2>3
<1> QED
  BY <1>3, <1>9, <1>10 DEF Accounted

(* Whatever waited in the monitor queue or on the line is in hand.          *)
LEMMA AccountedDraining ==
  ASSUME Typed, Accounted, phase = "run", UNCHANGED <<setup, phase>>, Draining
  PROVE  Accounted'
<1>1. hand = <<>> /\ hand' = Received /\ UNCHANGED <<sent, outcomes>>
  BY DEF Draining
<1>2. /\ Len(Received) = Len(monitor) + Len(line)
      /\ Len(monitor) \in Nat /\ Len(line) \in Nat
      /\ \A i \in 1..Len(monitor) : Received[i] = monitor[i]
      /\ \A j \in 1..Len(line) : /\ Received[Len(monitor) + j].packet = line[j].packet
                                /\ Received[Len(monitor) + j].last = line[j].last
  BY ReceivedShape
<1>3. ASSUME NEW k \in Numbers
      PROVE  Somewhere(k)'
  <2>1. CASE InQueue(monitor, k)
    <3>1. InQueue(Received, k)
      BY <1>2, <2>1 DEF InQueue
    <3> QED
      BY <1>1, <3>1 DEF Somewhere
  <2>2. CASE InQueue(line, k)
    <3>1. PICK j \in 1..Len(line) : line[j].packet = k /\ line[j].last
      BY <2>2 DEF InQueue
    <3>2. Len(monitor) + j \in 1..Len(Received)
      BY <1>2
    <3>3. InQueue(Received, k)
      BY <1>2, <3>1, <3>2 DEF InQueue
    <3> QED
      BY <1>1, <3>3 DEF Somewhere
  <2>3. ~InQueue(hand, k)
    BY <1>1, EmptyShape DEF InQueue
  <2>4. CASE OutcomeOf(k) \/ GoesAway(k)
    BY <1>1, <2>4 DEF Somewhere, OutcomeOf, GoesAway, PacketOf, Kind, Addresses
  <2> QED
    BY <2>1, <2>2, <2>3, <2>4 DEF Accounted, Somewhere
<1> QED
  BY <1>1, <1>3 DEF Accounted, Numbers

(* The frame taken from the hand leaves an outcome, if it was the last.     *)
LEMMA AccountedTaking ==
  ASSUME Typed, Accounted, phase = "run", UNCHANGED <<setup, phase>>, Taking
  PROVE  Accounted'
<1>1. /\ UNCHANGED <<monitor, line, sent>>
      /\ Len(hand) \in Nat \ {0} /\ Len(hand') = Len(hand) - 1
      /\ \A i \in 1..Len(hand') : hand'[i] = hand[i + 1]
      /\ Numbers' = Numbers
  BY TakingShape
<1>2. \/ ~hand[1].last /\ UNCHANGED outcomes
      \/ /\ Len(outcomes) \in Nat
         /\ Len(outcomes') = Len(outcomes) + 1
         /\ \A i \in 1..Len(outcomes) : outcomes'[i] = outcomes[i]
         /\ outcomes'[Len(outcomes) + 1].number = hand[1].packet
  BY TakingShape DEF Judged
<1>3. \A k : OutcomeOf(k) => OutcomeOf(k)'
  BY <1>2 DEF OutcomeOf
<1>4. ASSUME NEW k, InQueue(hand, k)
      PROVE  InQueue(hand', k) \/ OutcomeOf(k)'
  <2>1. PICK i \in 1..Len(hand) : hand[i].packet = k /\ hand[i].last
    BY <1>4 DEF InQueue
  <2>2. CASE i = 1
    BY <1>2, <2>1, <2>2 DEF OutcomeOf
  <2>3. CASE i # 1
    <3>1. i - 1 \in 1..Len(hand') /\ hand'[i - 1] = hand[i]
      BY <1>1, <2>1, <2>3
    <3> QED
      BY <2>1, <3>1 DEF InQueue
  <2> QED
    BY <2>2, <2>3
<1>5. ASSUME NEW k \in Numbers
      PROVE  Somewhere(k)'
  <2>1. GoesAway(k) => GoesAway(k)'
    BY <1>1 DEF GoesAway, PacketOf, Kind, Addresses
  <2>2. (InQueue(monitor, k) => InQueue(monitor', k)) /\ (InQueue(line, k) => InQueue(line', k))
    BY <1>1
  <2> QED
    BY <1>3, <1>4, <2>1, <2>2 DEF Accounted, Somewhere
<1> QED
  BY <1>1, <1>5 DEF Accounted

(* Every packet is somewhere after every step.                              *)
LEMMA AccountedStep ==
  ASSUME RunInv, Typed, Accounted, [Next]_vars
  PROVE  Accounted'
<1>1. CASE Prepare
  <2>1. Blank'
    BY <1>1, BlankStays DEF Prepare, Typed
  <2> QED
    BY <2>1, EmptyShape DEF Blank, Accounted, Numbers
<1>2. CASE phase = "run" /\ UNCHANGED <<setup, phase>> /\ Sending
  BY <1>2, AccountedSending
<1>3. CASE phase = "run" /\ UNCHANGED <<setup, phase>> /\ Draining
  BY <1>3, AccountedDraining
<1>4. CASE phase = "run" /\ UNCHANGED <<setup, phase>> /\ Taking
  BY <1>4, AccountedTaking
<1>5. CASE Idle /\ UNCHANGED <<setup, phase>>
  BY <1>5 DEF Idle, Accounted, Somewhere, InQueue, OutcomeOf, GoesAway, PacketOf, Kind,
              Addresses, Numbers
<1> QED
  BY <1>1, <1>2, <1>3, <1>4, <1>5, StepEffects DEF RunInv, Typed, Effect

-----------------------------------------------------------------------------
(* The trace: TX lines of packets sent, RX lines of frames drained.         *)
Traced(way, k) ==
  \E j \in 1..Len(trace) : /\ trace[j].way = way
                           /\ trace[j].packet = k
                           /\ trace[j].note = RouteForPacket(setup, PacketOf(k))

TraceInv ==
  /\ \A k \in Numbers : sent[k].inside => Traced("TX", k)
  /\ \A i \in 1..Len(hand) : hand[i].last => Traced("RX", hand[i].packet)
  /\ \A i \in 1..Len(outcomes) : Traced("RX", outcomes[i].number)

(* Lines are added, and those of older packets stay true.                   *)
LEMMA TraceGrows ==
  ASSUME Typed, UNCHANGED setup, NEW k, PacketOf(k)' = PacketOf(k), NEW lines, IsSequence(lines),
         trace' = trace \o lines, NEW way, Traced(way, k)
  PROVE  Traced(way, k)'
<1>1. PICK j \in 1..Len(trace) : /\ trace[j].way = way
                                 /\ trace[j].packet = k
                                 /\ trace[j].note = RouteForPacket(setup, PacketOf(k))
  BY DEF Traced
<1>2. j \in 1..Len(trace') /\ trace'[j] = trace[j]
  BY ConcatShape DEF Typed
<1> QED
  BY <1>1, <1>2 DEF Traced

(* A line for the last frame of a packet names its route.                   *)
LEMMA LastLine ==
  ASSUME NEW way, NEW frame, NEW packet, frame.last
  PROVE  /\ Line(way, frame, packet).way = way
         /\ Line(way, frame, packet).packet = frame.packet
         /\ Line(way, frame, packet).note = RouteForPacket(setup, packet)
BY AnnotationIsRoute DEF Line

(* Sending traces all frames of its packet.                                 *)
LEMMA TraceSending ==
  ASSUME RunInv, Typed, TraceInv, phase = "run", UNCHANGED <<setup, phase>>, Sending
  PROVE  TraceInv'
<1>1. PICK packet :
        /\ Len(packet.payload) \in Nat
        /\ \/ \E route, args : /\ SendInside(packet, route, args)
                               /\ SentNow(packet, route, args, TRUE)
           \/ SendOutside(packet) /\ SentNow(packet, None, None, FALSE)
  BY SendingShape
<1>0. PICK new : new = Len(sent) + 1
  OBVIOUS
<1> DEFINE frames == PacketFrames(packet)
           lines == [i \in 1..Len(frames) |-> Line("TX", frames[i], packet)]
           n == Len(frames)
<1>2. /\ n \in Nat \ {0} /\ frames[n].packet = new /\ frames[n].last
  BY <1>0, <1>1, PacketFramesShape
<1>3. IsSequence(lines) /\ Len(lines) = n
  <2>1. lines = [i \in 1..n |-> lines[i]] /\ n \in Nat
    BY <1>2
  <2> HIDE DEF lines, n
  <2> QED
    BY <2>1, MapShape
<1>4. lines[n] = Line("TX", frames[n], packet)
  BY <1>2
<1>5. UNCHANGED <<hand, outcomes>>
  BY DEF Sending
<1> HIDE DEF frames, lines, n
<1>6. /\ lines[n].way = "TX" /\ lines[n].packet = new
      /\ lines[n].note = RouteForPacket(setup, packet)
  BY <1>2, <1>4, LastLine
<1>7. PICK route, args, inside :
        /\ SentNow(packet, route, args, inside)
        /\ \/ inside = TRUE /\ trace' = trace \o lines
           \/ inside = FALSE /\ UNCHANGED trace
  BY <1>1 DEF SendInside, SendPacket, SendOutside, PacketFrames, frames, lines
<1>8. /\ Numbers' = Numbers \cup {new}
      /\ \A k \in Numbers : sent'[k] = sent[k]
      /\ sent'[new].packet = packet /\ sent'[new].inside = inside
  BY <1>0, <1>7, SentGrows
<1>9. ASSUME NEW way, NEW k \in Numbers, Traced(way, k)
      PROVE  Traced(way, k)'
  <2>1. PacketOf(k)' = PacketOf(k)
    BY <1>8 DEF PacketOf
  <2>2. CASE trace' = trace \o lines
    BY <1>3, <1>9, <2>1, <2>2, TraceGrows
  <2>3. CASE UNCHANGED trace
    BY <1>9, <2>1, <2>3 DEF Traced
  <2> QED
    BY <1>7, <2>2, <2>3
<1>10. ASSUME inside = TRUE
       PROVE  Traced("TX", new)'
  <2>1. trace' = trace \o lines
    BY <1>7, <1>10
  <2>2. Len(trace) + n \in 1..Len(trace') /\ trace'[Len(trace) + n] = lines[n]
    <3>1. IsSequence(trace) /\ n \in 1..Len(lines)
      BY <1>2, <1>3 DEF Typed
    <3>2. Len(trace) + n \in 1..Len(trace \o lines) /\ (trace \o lines)[Len(trace) + n] = lines[n]
      BY <1>3, <3>1, ConcatRight
    <3> QED
      BY <2>1, <3>2
  <2>3. PacketOf(new)' = packet
    BY <1>8 DEF PacketOf
  <2> QED
    BY <1>6, <2>2, <2>3 DEF Traced
<1>11. ASSUME NEW k \in Numbers', sent'[k].inside
       PROVE  Traced("TX", k)'
  <2>1. CASE k \in Numbers
    BY <1>8, <1>9, <1>11, <2>1 DEF TraceInv
  <2>2. CASE k = new
    BY <1>7, <1>8, <1>10, <1>11, <2>2
  <2> QED
    BY <1>8, <2>1, <2>2
<1>12. ASSUME NEW i \in 1..Len(hand), hand[i].last
       PROVE  Traced("RX", hand[i].packet)'
  <2>1. PICK k : k = hand[i].packet
    OBVIOUS
  <2>2. k \in Numbers /\ Traced("RX", k)
    BY <1>12, <2>1 DEF TraceInv, Typed, Mentions
  <2>3. Traced("RX", k)'
    BY <1>9, <2>2
  <2> QED
    BY <1>5, <2>1, <2>3
<1>13. ASSUME NEW i \in 1..Len(outcomes)
       PROVE  Traced("RX", outcomes[i].number)'
  <2>1. PICK k : k = outcomes[i].number
    OBVIOUS
  <2>2. k \in Numbers /\ Traced("RX", k)
    BY <2>1 DEF TraceInv, Typed
  <2>3. Traced("RX", k)'
    BY <1>9, <2>2
  <2> QED
    BY <1>5, <2>1, <2>3
<1> QED
  BY <1>5, <1>11, <1>12, <1>13 DEF TraceInv

(* Draining traces every envelope received.                                 *)
LEMMA TraceDraining ==
  ASSUME Typed, TraceInv, phase = "run", UNCHANGED <<setup, phase>>, Draining
  PROVE  TraceInv'
<1> DEFINE lines == [i \in 1..Len(Received) |->
                      Line("RX", Received[i], PacketOf(Received[i].packet))]
<1>1. /\ hand' = Received /\ trace' = trace \o lines
      /\ UNCHANGED <<sent, outcomes>>
  BY DEF Draining
<1>2. Len(Received) \in Nat
  BY ReceivedShape
<1>3. IsSequence(lines) /\ Len(lines) = Len(Received)
  <2>1. lines = [i \in 1..Len(Received) |-> lines[i]]
    OBVIOUS
  <2> HIDE DEF lines
  <2> QED
    BY <1>2, <2>1, MapShape
<1>4. \A i \in 1..Len(Received) :
        lines[i] = Line("RX", Received[i], PacketOf(Received[i].packet))
  OBVIOUS
<1> HIDE DEF lines
<1>5. ASSUME NEW way, NEW k, Traced(way, k)
      PROVE  Traced(way, k)'
  <2>1. PacketOf(k)' = PacketOf(k)
    BY <1>1 DEF PacketOf
  <2> QED
    BY <1>1, <1>3, <1>5, <2>1, TraceGrows
<1>6. ASSUME NEW i \in 1..Len(Received), Received[i].last
      PROVE  Traced("RX", hand[i].packet)'
  <2>1. /\ lines[i].way = "RX" /\ lines[i].packet = Received[i].packet
        /\ lines[i].note = RouteForPacket(setup, PacketOf(Received[i].packet))
    BY <1>4, <1>6, LastLine
  <2>2. IsSequence(trace) /\ i \in 1..Len(lines)
    BY <1>2, <1>3 DEF Typed
  <2>3. Len(trace) + i \in 1..Len(trace \o lines) /\ (trace \o lines)[Len(trace) + i] = lines[i]
    BY <1>3, <2>2, ConcatRight
  <2>4. Len(trace) + i \in 1..Len(trace') /\ trace'[Len(trace) + i] = lines[i]
    BY <1>1, <2>3
  <2>5. PacketOf(hand[i].packet)' = PacketOf(Received[i].packet)
    BY <1>1 DEF PacketOf
  <2> QED
    BY <1>1, <2>1, <2>4, <2>5 DEF Traced
<1>7. Numbers' = Numbers
  BY <1>1 DEF Numbers
<1>8. ASSUME NEW k \in Numbers', sent'[k].inside
      PROVE  Traced("TX", k)'
  BY <1>1, <1>5, <1>7, <1>8 DEF TraceInv
<1>9. ASSUME NEW i \in 1..Len(outcomes)
      PROVE  Traced("RX", outcomes[i].number)'
  <2>1. PICK k : k = outcomes[i].number
    OBVIOUS
  <2>2. Traced("RX", k)'
    BY <1>5, <2>1 DEF TraceInv
  <2> QED
    BY <1>1, <2>1, <2>2
<1> QED
  BY <1>1, <1>6, <1>8, <1>9 DEF TraceInv

(* An outcome was received, so it is in the trace.                          *)
LEMMA TraceTaking ==
  ASSUME Typed, TraceInv, phase = "run", UNCHANGED <<setup, phase>>, Taking
  PROVE  TraceInv'
<1>1. /\ UNCHANGED <<sent, trace>>
      /\ Len(hand) \in Nat \ {0} /\ Len(hand') = Len(hand) - 1
      /\ \A i \in 1..Len(hand') : hand'[i] = hand[i + 1]
      /\ Numbers' = Numbers
  BY TakingShape
<1>2. \/ UNCHANGED outcomes
      \/ /\ hand[1].last
         /\ Len(outcomes) \in Nat
         /\ Len(outcomes') = Len(outcomes) + 1
         /\ \A i \in 1..Len(outcomes) : outcomes'[i] = outcomes[i]
         /\ outcomes'[Len(outcomes) + 1].number = hand[1].packet
  BY TakingShape DEF Judged
<1>3. \A way, k : Traced(way, k) => Traced(way, k)'
  BY <1>1 DEF Traced, PacketOf
<1>4. ASSUME NEW i \in 1..Len(hand'), hand'[i].last
      PROVE  Traced("RX", hand[i].packet)'
  <2>1. PICK k : k = hand'[i].packet
    OBVIOUS
  <2>2. i + 1 \in 1..Len(hand) /\ hand'[i] = hand[i + 1]
    BY <1>1
  <2>3. Traced("RX", k)
    BY <1>4, <2>1, <2>2 DEF TraceInv
  <2> QED
    BY <1>3, <2>1, <2>3
<1>5. ASSUME NEW i \in 1..Len(outcomes')
      PROVE  Traced("RX", outcomes[i].number)'
  <2>1. PICK k : k = outcomes'[i].number
    OBVIOUS
  <2>2. CASE i \in 1..Len(outcomes) /\ outcomes'[i] = outcomes[i]
    BY <1>3, <2>1, <2>2 DEF TraceInv
  <2>3. CASE outcomes'[i].number = hand[1].packet /\ hand[1].last
    <3>1. Traced("RX", k)
      BY <1>1, <2>1, <2>3 DEF TraceInv
    <3> QED
      BY <1>3, <2>1, <3>1
  <2> QED
    BY <1>2, <2>2, <2>3
<1>6. ASSUME NEW k \in Numbers', sent'[k].inside
      PROVE  Traced("TX", k)'
  BY <1>1, <1>3, <1>6 DEF TraceInv
<1> QED
  BY <1>4, <1>5, <1>6 DEF TraceInv

(* The trace is complete after every step.                                  *)
LEMMA TraceStep ==
  ASSUME RunInv, Typed, TraceInv, [Next]_vars
  PROVE  TraceInv'
<1>1. CASE Prepare
  <2>1. Blank'
    BY <1>1, BlankStays DEF Prepare, Typed
  <2> QED
    BY <2>1, EmptyShape DEF Blank, TraceInv, Numbers
<1>2. CASE phase = "run" /\ UNCHANGED <<setup, phase>> /\ Sending
  BY <1>2, TraceSending
<1>3. CASE phase = "run" /\ UNCHANGED <<setup, phase>> /\ Draining
  BY <1>3, TraceDraining
<1>4. CASE phase = "run" /\ UNCHANGED <<setup, phase>> /\ Taking
  BY <1>4, TraceTaking
<1>5. CASE Idle /\ UNCHANGED <<setup, phase>>
  BY <1>5 DEF Idle, TraceInv, Traced, PacketOf, Numbers
<1> QED
  BY <1>1, <1>2, <1>3, <1>4, <1>5, StepEffects DEF RunInv, Typed, Effect

(* A complete trace tells the truth, since the note is the route.           *)
LEMMA TraceIsTrue ==
  ASSUME TraceInv, OutcomesResolved
  PROVE  TraceTellsTheTruth
BY DEF TraceInv, OutcomesResolved, TraceTellsTheTruth, Traced

-----------------------------------------------------------------------------
(* The arguments of steps wait under the numbers of the envelopes that      *)
(* complete their packets, and under no number given out later.             *)
Bare(k) == sent[k].arguments = None \/ Kind = "own"

Holds(e) ==
  IF Bare(e.packet) THEN e.seq \notin DOMAIN arguments
  ELSE e.seq \in DOMAIN arguments /\ arguments[e.seq] = sent[e.packet].arguments

Ordered(queue, next) ==
  \A i \in 1..Len(queue) : /\ queue[i].seq < next
                           /\ \A j \in 1..(i - 1) : queue[j].seq < queue[i].seq

ArgumentsInv ==
  /\ DOMAIN arguments \subseteq 0..(sequence - 1)
  /\ Ordered(monitor, sequence) /\ Ordered(hand, sequence)
  /\ \A i \in 1..Len(monitor) : monitor[i].last => Holds(monitor[i])
  /\ \A i \in 1..Len(hand) : hand[i].last => Holds(hand[i])
  /\ \A i \in 1..Len(line) : line[i].last => Bare(line[i].packet)
  /\ ArgumentsAreOwn

(* An envelope of a queue is typed.                                         *)
LEMMA EnvelopeAt ==
  ASSUME NEW queue \in Seq(Envelope), NEW i \in 1..Len(queue)
  PROVE  queue[i].seq \in Nat /\ queue[i].packet \in Nat
<1>1. queue[i] \in Envelope
  OBVIOUS
<1> QED
  BY <1>1 DEF Envelope

(* Envelopes numbered from the next number on continue an ordered queue.    *)
LEMMA OrderedConcat ==
  ASSUME NEW queue \in Seq(Envelope), NEW frames \in Seq(Frame), NEW from \in Nat,
         Ordered(queue, from)
  PROVE  Ordered(queue \o Numbered(frames, from), from + Len(frames))
<1> DEFINE more == Numbered(frames, from)
           all == queue \o more
           m == Len(queue)
           n == Len(frames)
<1>1. /\ more \in Seq(Envelope) /\ Len(more) = n /\ n \in Nat
      /\ \A i \in 1..n : more[i].seq = from + i - 1
  BY NumberedShape
<1> HIDE DEF more
<1>2. IsSequence(queue) /\ IsSequence(more) /\ m \in Nat
  BY <1>1, TypedIsSequence
<1>3. /\ Len(all) = m + n
      /\ \A i \in 1..m : all[i] = queue[i]
      /\ \A i \in 1..n : all[m + i] = more[i]
  <2> HIDE DEF all
  <2>1. /\ Len(queue \o more) = Len(queue) + Len(more)
        /\ \A i \in 1..Len(queue) : (queue \o more)[i] = queue[i]
        /\ \A i \in 1..Len(more) : (queue \o more)[Len(queue) + i] = more[i]
    BY <1>2, ConcatShape
  <2> QED
    BY <1>1, <2>1 DEF all
<1>4. \A i \in 1..m : queue[i].seq \in Nat
  BY EnvelopeAt
<1>5. m \in Nat /\ n \in Nat /\ from \in Nat
  BY <1>1, <1>2
<1>6. ASSUME NEW i \in 1..m
      PROVE  queue[i].seq < from /\ \A j \in 1..(i - 1) : queue[j].seq < queue[i].seq
  BY <1>2 DEF Ordered
<1> HIDE DEF all, m, n
<1>7. ASSUME NEW i \in 1..m
      PROVE  all[i].seq \in Nat /\ all[i].seq < from
  BY <1>3, <1>4, <1>6
<1>8. \A i \in 1..n : all[m + i].seq = from + i - 1
  BY <1>1, <1>3
<1>9. ASSUME NEW i \in 1..(m + n)
      PROVE  all[i].seq < from + n
  <2>1. CASE i \in 1..m
    <3>1. all[i].seq \in Nat /\ all[i].seq < from
      BY <1>7, <2>1
    <3> QED
      BY <1>5, <3>1
  <2>2. CASE i \notin 1..m
    <3>1. i - m \in 1..n /\ i = m + (i - m)
      BY <1>5, <2>2
    <3>2. all[i].seq = from + (i - m) - 1
      BY <1>8, <3>1
    <3> QED
      BY <1>5, <3>1, <3>2
  <2> QED
    BY <2>1, <2>2
<1>10. ASSUME NEW i \in 1..(m + n), NEW j \in 1..(i - 1)
       PROVE  all[j].seq < all[i].seq
  <2>1. CASE i \in 1..m
    <3>1. j \in 1..m
      BY <1>5, <2>1
    <3>2. queue[j].seq < queue[i].seq
      BY <1>6, <2>1
    <3> QED
      BY <1>3, <2>1, <3>1, <3>2
  <2>2. CASE i \notin 1..m
    <3>1. i - m \in 1..n /\ i = m + (i - m)
      BY <1>5, <2>2
    <3>2. all[i].seq = from + (i - m) - 1
      BY <1>8, <3>1
    <3>3. CASE j \in 1..m
      <4>1. all[j].seq \in Nat /\ all[j].seq < from
        BY <1>7, <3>3
      <4> QED
        BY <1>5, <3>1, <3>2, <4>1
    <3>4. CASE j \notin 1..m
      <4>1. j - m \in 1..n /\ j = m + (j - m) /\ j - m < i - m
        BY <1>5, <3>1, <3>4
      <4>2. all[j].seq = from + (j - m) - 1
        BY <1>8, <4>1
      <4> QED
        BY <1>5, <3>1, <3>2, <4>1, <4>2
    <3> QED
      BY <3>3, <3>4
  <2> QED
    BY <2>1, <2>2
<1>11. Len(all) = m + n
  BY <1>3
<1>12. Ordered(all, from + n)
  BY <1>9, <1>10, <1>11 DEF Ordered
<1> QED
  BY <1>12 DEF all, more, n

(* No arguments are kept before the run.                                    *)
LEMMA ArgumentsBlank ==
  ASSUME Blank
  PROVE  ArgumentsInv
<1>1. DOMAIN <<>> = {}
  OBVIOUS
<1> QED
  BY <1>1, EmptyShape DEF Blank, ArgumentsInv, Ordered, ArgumentsAreOwn

(* The completing frame takes the arguments of its own packet along.        *)
LEMMA ArgumentsTaking ==
  ASSUME Typed, ArgumentsInv, phase = "run", UNCHANGED <<setup, phase>>, Taking
  PROVE  ArgumentsInv'
<1>1. /\ UNCHANGED <<monitor, line, sequence, sent>>
      /\ monitor = <<>>
      /\ Len(hand) \in Nat \ {0} /\ Len(hand') = Len(hand) - 1
      /\ \A i \in 1..Len(hand') : hand'[i] = hand[i + 1]
  BY TakingShape
<1>2. \/ ~hand[1].last /\ UNCHANGED <<arguments, outcomes>>
      \/ /\ hand[1].last
         /\ Len(outcomes) \in Nat
         /\ Len(outcomes') = Len(outcomes) + 1
         /\ \A i \in 1..Len(outcomes) : outcomes'[i] = outcomes[i]
         /\ Judged(hand[1], outcomes'[Len(outcomes) + 1])
         /\ \/ UNCHANGED arguments
            \/ arguments' = [q \in DOMAIN arguments \ {hand[1].seq} |-> arguments[q]]
  BY TakingShape
<1>3. \A k : Bare(k)' <=> Bare(k)
  BY <1>1 DEF Bare, Kind
<1>4. \A i \in 1..Len(hand') : i + 1 \in 1..Len(hand) /\ hand'[i].seq # hand[1].seq
  <2> SUFFICES ASSUME NEW i \in 1..Len(hand')
               PROVE  i + 1 \in 1..Len(hand) /\ hand'[i].seq # hand[1].seq
    OBVIOUS
  <2>1. i + 1 \in 1..Len(hand) /\ 1 \in 1..Len(hand) /\ 1 \in 1..(i + 1 - 1) /\ hand'[i] = hand[i + 1]
    BY <1>1
  <2>2. hand[1].seq < hand[i + 1].seq
    BY <2>1 DEF ArgumentsInv, Ordered
  <2>3. hand[1].seq \in Nat
    BY <2>1, EnvelopeAt DEF Typed
  <2> QED
    BY <2>1, <2>2, <2>3
<1>5. Ordered(monitor, sequence)' /\ Ordered(hand, sequence)'
  <2>1. Ordered(monitor, sequence)'
    BY <1>1 DEF ArgumentsInv, Ordered
  <2>2. ASSUME NEW i \in 1..Len(hand')
        PROVE  /\ hand'[i].seq < sequence
               /\ \A j \in 1..(i - 1) : hand'[j].seq < hand'[i].seq
    <3>1. i + 1 \in 1..Len(hand) /\ hand'[i] = hand[i + 1]
      BY <1>1
    <3>2. \A j \in 1..(i - 1) : j + 1 \in 1..(i + 1 - 1) /\ hand'[j] = hand[j + 1]
      BY <1>1
    <3> QED
      BY <3>1, <3>2 DEF ArgumentsInv, Ordered
  <2> QED
    BY <1>1, <2>1, <2>2 DEF Ordered
<1>6. ASSUME NEW i \in 1..Len(hand'), hand'[i].last
      PROVE  Holds(hand[i])'
  <2>1. Holds(hand[i + 1]) /\ hand'[i] = hand[i + 1] /\ hand'[i].seq # hand[1].seq
    BY <1>1, <1>4, <1>6 DEF ArgumentsInv
  <2>2. CASE UNCHANGED arguments
    BY <1>1, <2>1, <2>2 DEF Holds, Bare, Kind
  <2>3. CASE arguments' = [q \in DOMAIN arguments \ {hand[1].seq} |-> arguments[q]]
    BY <1>1, <2>1, <2>3 DEF Holds, Bare, Kind
  <2> QED
    BY <1>2, <2>2, <2>3
<1>7. ArgumentsAreOwn'
  <2>1. CASE UNCHANGED outcomes
    BY <1>1, <2>1 DEF ArgumentsInv, ArgumentsAreOwn, PacketOf, Kind
  <2>2. CASE /\ hand[1].last
             /\ Len(outcomes) \in Nat
             /\ Len(outcomes') = Len(outcomes) + 1
             /\ \A i \in 1..Len(outcomes) : outcomes'[i] = outcomes[i]
             /\ Judged(hand[1], outcomes'[Len(outcomes) + 1])
    <3> DEFINE o == outcomes'[Len(outcomes) + 1]
    <3>1. Holds(hand[1])
      BY <1>1, <2>2 DEF ArgumentsInv
    <3>2. o.number = hand[1].packet /\ (o.kind = "command" => o.arguments = Taken(hand[1]))
      BY <2>2 DEF Judged
    <3>3. o.kind = "command" =>
            o.arguments = IF sent[o.number].arguments = None \/ Kind = "own"
                          THEN Raw(PacketOf(o.number)) ELSE sent[o.number].arguments
      BY <3>1, <3>2 DEF Holds, Bare, Taken
    <3> QED
      BY <1>1, <2>2, <3>3 DEF ArgumentsInv, ArgumentsAreOwn, PacketOf, Kind
  <2> QED
    BY <1>2, <2>1, <2>2
<1>8. DOMAIN arguments' \subseteq DOMAIN arguments
  BY <1>2
<1>9. \A i \in 1..Len(line') : line'[i].last => Bare(line[i].packet)'
  BY <1>1, <1>3 DEF ArgumentsInv, Bare, Kind
<1>10. \A i \in 1..Len(monitor') : monitor'[i].last => Holds(monitor[i])'
  BY <1>1, EmptyShape
<1> QED
  BY <1>1, <1>5, <1>6, <1>7, <1>8, <1>9, <1>10 DEF ArgumentsInv

(* Draining keeps the numbers of envelopes, and new ones have no arguments. *)
LEMMA ArgumentsDraining ==
  ASSUME Typed, ArgumentsInv, phase = "run", UNCHANGED <<setup, phase>>, Draining
  PROVE  ArgumentsInv'
<1>1. /\ hand' = Received /\ monitor' = <<>> /\ line' = <<>>
      /\ sequence' = sequence + Len(line)
      /\ UNCHANGED <<arguments, sent, outcomes>>
  BY DEF Draining
<1>2. /\ Len(Received) = Len(monitor) + Len(line)
      /\ Len(monitor) \in Nat /\ Len(line) \in Nat /\ sequence \in Nat
      /\ \A i \in 1..Len(monitor) : Received[i] = monitor[i]
      /\ \A j \in 1..Len(line) : /\ Received[Len(monitor) + j].packet = line[j].packet
                                /\ Received[Len(monitor) + j].last = line[j].last
                                /\ Received[Len(monitor) + j].seq = sequence + j - 1
      /\ \A i \in 1..Len(Received) :
           i \in 1..Len(monitor) \/ \E j \in 1..Len(line) : i = Len(monitor) + j
  BY ReceivedShape DEF Typed
<1>4. Ordered(hand, sequence)'
  <2>1. Ordered(Received, sequence + Len(line))
    BY OrderedConcat DEF Typed, ArgumentsInv, Received
  <2> QED
    BY <1>1, <2>1
<1>5. ASSUME NEW i \in 1..Len(Received), Received[i].last
      PROVE  Holds(hand[i])'
  <2>1. CASE i \in 1..Len(monitor)
    <3>1. Holds(monitor[i]) /\ Received[i] = monitor[i]
      BY <1>2, <1>5, <2>1 DEF ArgumentsInv
    <3> QED
      BY <1>1, <3>1 DEF Holds, Bare, Kind
  <2>2. ASSUME NEW j \in 1..Len(line), i = Len(monitor) + j
        PROVE  Holds(hand[i])'
    <3>1. /\ Received[i].packet = line[j].packet /\ line[j].last
          /\ Received[i].seq = sequence + j - 1
      BY <1>2, <1>5, <2>2
    <3>2. Bare(line[j].packet)
      BY <3>1 DEF ArgumentsInv
    <3>3. Received[i].seq \notin DOMAIN arguments
      BY <1>2, <3>1 DEF ArgumentsInv
    <3> QED
      BY <1>1, <3>1, <3>2, <3>3 DEF Holds, Bare, Kind
  <2> QED
    BY <1>2, <2>1, <2>2
<1>6. ArgumentsAreOwn'
  BY <1>1 DEF ArgumentsInv, ArgumentsAreOwn, PacketOf, Kind
<1>7. Ordered(monitor, sequence)'
  BY <1>1, EmptyShape DEF Ordered
<1>8. DOMAIN arguments' \subseteq 0..(sequence' - 1)
  BY <1>1, <1>2 DEF ArgumentsInv
<1> QED
  BY <1>1, <1>4, <1>5, <1>6, <1>7, <1>8, EmptyShape DEF ArgumentsInv

(* Every envelope of an ordered queue has a number below the next one.      *)
LEMMA OrderedBelow ==
  ASSUME NEW queue \in Seq(Envelope), NEW low \in Nat, NEW high \in Nat, low <= high,
         Ordered(queue, low)
  PROVE  Ordered(queue, high)
<1>1. \A i \in 1..Len(queue) : queue[i].seq \in Nat
  BY EnvelopeAt
<1> QED
  BY <1>1 DEF Ordered

(* What a packet that is sent brings: arguments, if it has any, under the   *)
(* number of its last envelope, while nothing else is under way.            *)
Brings(packet, args, inside) ==
  \/ args = None /\ UNCHANGED arguments
  \/ /\ args # None /\ inside
     /\ monitor = <<>> /\ line = <<>> /\ hand = <<>>
     /\ \E last : /\ last = sequence + Len(PacketFrames(packet)) - 1
                  /\ arguments' = [q \in DOMAIN arguments \cup {last} |->
                                     IF q = last THEN args ELSE arguments[q]]

(* Arguments are kept under a number that no other envelope has.            *)
LEMMA ArgumentsSending ==
  ASSUME RunInv, Typed, ArgumentsInv, phase = "run", UNCHANGED <<setup, phase>>, Sending
  PROVE  ArgumentsInv'
<1>1. PICK packet :
        /\ Len(packet.payload) \in Nat
        /\ \/ \E route, args : /\ SendInside(packet, route, args)
                               /\ SentNow(packet, route, args, TRUE)
           \/ SendOutside(packet) /\ SentNow(packet, None, None, FALSE)
  BY SendingShape
<1>2. \E route, args, inside : SentNow(packet, route, args, inside) /\ Brings(packet, args, inside)
  <2>1. ASSUME NEW route, NEW args, SendInside(packet, route, args)
        PROVE  Brings(packet, args, TRUE)
    BY <2>1, RoutingAssumption DEF SendInside, Brings, LastSequence
  <2>2. ASSUME SendOutside(packet)
        PROVE  Brings(packet, None, FALSE)
    BY <2>2 DEF SendOutside, Brings
  <2> QED
    BY <1>1, <2>1, <2>2
<1>3. PICK route, args, inside : SentNow(packet, route, args, inside) /\ Brings(packet, args, inside)
  BY <1>2
<1>4. PICK new : new = Len(sent) + 1
  OBVIOUS
<1> DEFINE frames == PacketFrames(packet)
           n == Len(frames)
<1>5. /\ frames \in Seq(Frame) /\ n \in Nat \ {0} /\ sequence \in Nat
      /\ \A i \in 1..n : frames[i].packet = new /\ (frames[i].last <=> i = n)
  BY <1>1, <1>4, PacketFramesShape DEF Typed
<1>6. /\ Numbers' = Numbers \cup {new}
      /\ \A k \in Numbers : sent'[k] = sent[k]
      /\ sent'[new].arguments = args
  BY <1>3, <1>4, SentGrows
<1>7. UNCHANGED <<hand, outcomes>>
  BY DEF Sending
<1>8. \/ Queued(frames) /\ Kind # "own"
      \/ /\ Waits(frames)
         /\ \/ Kind = "own" /\ sequence' = sequence + n
            \/ ~inside /\ UNCHANGED sequence
      \/ Leaves(frames) /\ inside
  BY <1>3 DEF SentNow
<1> HIDE DEF frames, n
<1>9. /\ sequence' \in Nat /\ sequence <= sequence'
      /\ inside => sequence' = sequence + n
  BY <1>5, <1>8 DEF Queued, Waits, Leaves, n
<1>10. \A k \in Numbers : Bare(k)' <=> Bare(k)
  BY <1>6 DEF Bare, Kind
<1>11. Bare(new)' <=> args = None \/ Kind = "own"
  BY <1>6 DEF Bare, Kind
<1>12. ASSUME NEW e, e.packet \in Numbers, Holds(e), args = None
       PROVE  Holds(e)'
  <2>1. UNCHANGED arguments
    BY <1>3, <1>12 DEF Brings
  <2>2. Bare(e.packet)' <=> Bare(e.packet)
    BY <1>6, <1>12 DEF Bare, Kind
  <2> QED
    BY <1>6, <1>12, <2>1, <2>2 DEF Holds
<1>13. DOMAIN arguments' \subseteq 0..(sequence' - 1)
  <2>1. CASE args = None
    BY <1>3, <1>5, <1>9, <2>1 DEF Brings, ArgumentsInv
  <2>2. CASE args # None
    <3>1. PICK last : /\ inside /\ last = sequence + n - 1
                      /\ arguments' = [q \in DOMAIN arguments \cup {last} |->
                                         IF q = last THEN args ELSE arguments[q]]
      BY <1>3, <2>2 DEF Brings, frames, n
    <3>2. DOMAIN arguments' = DOMAIN arguments \cup {last}
      BY <3>1
    <3>3. sequence' = sequence + n /\ last \in 0..(sequence + n - 1)
      BY <1>5, <1>9, <3>1
    <3> QED
      BY <1>5, <3>2, <3>3 DEF ArgumentsInv
  <2> QED
    BY <2>1, <2>2
<1>14. Ordered(hand, sequence)'
  <2>1. Ordered(hand, sequence')
    BY <1>5, <1>9, OrderedBelow DEF ArgumentsInv, Typed
  <2> QED
    BY <1>7, <2>1
<1>15. ASSUME NEW i \in 1..Len(hand), hand[i].last
       PROVE  Holds(hand[i])'
  <2>1. PICK e : e = hand[i]
    OBVIOUS
  <2>2. hand # <<>>
    BY EmptyShape
  <2>3. args = None
    BY <1>3, <2>2 DEF Brings
  <2>4. Holds(e)'
    BY <1>12, <1>15, <2>1, <2>3 DEF ArgumentsInv, Typed, Mentions
  <2> QED
    BY <1>7, <2>1, <2>4
<1>16. ArgumentsAreOwn'
  <2>1. ASSUME NEW i \in 1..Len(outcomes)
        PROVE  outcomes[i].number \in Numbers /\ sent'[outcomes[i].number] = sent[outcomes[i].number]
    BY <1>6 DEF Typed
  <2> QED
    BY <1>7, <2>1 DEF ArgumentsInv, ArgumentsAreOwn, PacketOf, Kind
<1>17. ASSUME NEW i \in 1..Len(monitor), monitor[i].last
       PROVE  \E e : e = monitor[i] /\ Holds(e)'
  <2>1. PICK e : e = monitor[i]
    OBVIOUS
  <2>2. monitor # <<>>
    BY EmptyShape
  <2>3. args = None
    BY <1>3, <2>2 DEF Brings
  <2>4. Holds(e)'
    BY <1>12, <1>17, <2>1, <2>3 DEF ArgumentsInv, Typed, Mentions
  <2> QED
    BY <2>1, <2>4
<1>18. ASSUME NEW i \in 1..Len(line), line[i].last
       PROVE  \E k : k = line[i].packet /\ Bare(k)'
  <2>1. PICK k : k = line[i].packet
    OBVIOUS
  <2>2. k \in Numbers /\ Bare(k)
    BY <1>18, <2>1 DEF ArgumentsInv, Typed, Mentions
  <2> QED
    BY <1>10, <2>1, <2>2
<1>19. CASE Queued(frames) /\ Kind # "own"
  <2> DEFINE more == Numbered(frames, sequence)
  <2>1. /\ monitor' = monitor \o more /\ sequence' = sequence + n
        /\ UNCHANGED line
    BY <1>19 DEF Queued, n
  <2>2. Ordered(monitor \o more, sequence + n)
    BY <1>5, OrderedConcat DEF ArgumentsInv, Typed, n
  <2>3. Ordered(monitor, sequence)'
    BY <2>1, <2>2
  <2>4. /\ IsSequence(monitor) /\ IsSequence(more) /\ Len(more) = n
        /\ \A j \in 1..n : /\ more[j].packet = new /\ (more[j].last <=> j = n)
                          /\ more[j].seq = sequence + j - 1
    BY <1>5, NumberedShape, TypedIsSequence, ZenonT(40) DEF Typed, n
  <2> HIDE DEF more
  <2>5. ASSUME NEW e, e.packet = new, e.seq = sequence + n - 1
        PROVE  Holds(e)'
    <3>1. CASE args = None
      <4>1. UNCHANGED arguments /\ e.seq \notin DOMAIN arguments
        BY <1>3, <1>5, <2>5, <3>1 DEF Brings, ArgumentsInv
      <4>2. Bare(e.packet)'
        BY <1>6, <2>5, <3>1 DEF Bare
      <4> QED
        BY <4>1, <4>2 DEF Holds
    <3>2. CASE args # None
      <4>1. arguments' = [q \in DOMAIN arguments \cup {e.seq} |->
                           IF q = e.seq THEN args ELSE arguments[q]]
        BY <1>3, <2>5, <3>2 DEF Brings, frames, n
      <4>2. e.seq \in DOMAIN arguments' /\ arguments'[e.seq] = args
        BY <4>1
      <4>3. sent'[e.packet].arguments = args
        BY <1>6, <2>5
      <4> QED
        BY <1>19, <3>2, <4>2, <4>3 DEF Holds, Bare, Kind
    <3> QED
      BY <3>1, <3>2
  <2>6. ASSUME NEW i \in 1..Len(monitor \o more), (monitor \o more)[i].last
        PROVE  \E e : e = (monitor \o more)[i] /\ Holds(e)'
    <3>1. CASE i \in 1..Len(monitor) /\ (monitor \o more)[i] = monitor[i]
      BY <1>17, <2>6, <3>1
    <3>2. CASE /\ i - Len(monitor) \in 1..Len(more)
               /\ (monitor \o more)[i] = more[i - Len(monitor)]
      <4>1. PICK e : e = (monitor \o more)[i]
        OBVIOUS
      <4>2. e.packet = new /\ e.seq = sequence + n - 1
        BY <2>4, <2>6, <3>2, <4>1
      <4> QED
        BY <2>5, <4>1, <4>2
    <3>3. IsSequence(monitor) /\ IsSequence(more)
      BY <2>4
    <3>4. \/ i \in 1..Len(monitor) /\ (monitor \o more)[i] = monitor[i]
          \/ i - Len(monitor) \in 1..Len(more) /\ (monitor \o more)[i] = more[i - Len(monitor)]
      BY <3>3, ConcatShape
    <3> QED
      BY <3>1, <3>2, <3>4
  <2>7. \A i \in 1..Len(monitor') : monitor'[i].last => Holds(monitor[i])'
    BY <2>1, <2>6
  <2>8. \A i \in 1..Len(line') : line'[i].last => Bare(line[i].packet)'
    BY <1>18, <2>1
  <2> QED
    BY <1>7, <1>13, <1>14, <1>15, <1>16, <2>3, <2>7, <2>8 DEF ArgumentsInv
<1>20. CASE \/ Waits(frames) /\ (Kind = "own" \/ ~inside)
            \/ Leaves(frames)
  <2>1. UNCHANGED monitor
    BY <1>20 DEF Waits, Leaves
  <2>2. Ordered(monitor, sequence')
    BY <1>5, <1>9, OrderedBelow DEF ArgumentsInv, Typed
  <2>3. Ordered(monitor, sequence)'
    BY <2>1, <2>2
  <2>4. \A i \in 1..Len(monitor') : monitor'[i].last => Holds(monitor[i])'
    BY <1>17, <2>1
  <2>5. ASSUME line' = line \o frames, Bare(new)'
        PROVE  \A i \in 1..Len(line') : line'[i].last => Bare(line[i].packet)'
    <3>1. IsSequence(line) /\ IsSequence(frames)
      BY <1>5, TypedIsSequence DEF Typed
    <3>2. ASSUME NEW i \in 1..Len(line \o frames), (line \o frames)[i].last
          PROVE  \E k : k = (line \o frames)[i].packet /\ Bare(k)'
      <4>1. CASE i \in 1..Len(line) /\ (line \o frames)[i] = line[i]
        BY <1>18, <3>2, <4>1
      <4>2. CASE /\ i - Len(line) \in 1..Len(frames)
                 /\ (line \o frames)[i] = frames[i - Len(line)]
        BY <1>5, <2>5, <4>2 DEF n
      <4> QED
        BY <3>1, <4>1, <4>2, ConcatShape
    <3> QED
      BY <2>5, <3>2
  <2>6. \A i \in 1..Len(line') : line'[i].last => Bare(line[i].packet)'
    <3>1. CASE Waits(frames) /\ (Kind = "own" \/ ~inside)
      <4>1. args = None \/ Kind = "own"
        BY <1>3, <3>1 DEF Brings
      <4> QED
        BY <1>11, <2>5, <3>1, <4>1 DEF Waits
    <3>2. CASE Leaves(frames)
      BY <1>18, <3>2 DEF Leaves
    <3> QED
      BY <1>20, <3>1, <3>2
  <2> QED
    BY <1>7, <1>13, <1>14, <1>15, <1>16, <2>3, <2>4, <2>6 DEF ArgumentsInv
<1> QED
  BY <1>8, <1>19, <1>20

(* Arguments and envelopes belong together after every step.                *)
LEMMA ArgumentsStep ==
  ASSUME RunInv, Typed, ArgumentsInv, [Next]_vars
  PROVE  ArgumentsInv'
<1>1. CASE Prepare
  <2>1. Blank' /\ DOMAIN <<>> = {}
    BY <1>1, BlankStays DEF Prepare, Typed
  <2> QED
    BY <2>1, EmptyShape DEF Blank, ArgumentsInv, Ordered, ArgumentsAreOwn
<1>2. CASE phase = "run" /\ UNCHANGED <<setup, phase>> /\ Sending
  BY <1>2, ArgumentsSending
<1>3. CASE phase = "run" /\ UNCHANGED <<setup, phase>> /\ Draining
  BY <1>3, ArgumentsDraining
<1>4. CASE phase = "run" /\ UNCHANGED <<setup, phase>> /\ Taking
  BY <1>4, ArgumentsTaking
<1>5. CASE Idle /\ UNCHANGED <<setup, phase>>
  BY <1>5 DEF Idle, ArgumentsInv, Ordered, Holds, Bare, ArgumentsAreOwn, PacketOf, Kind
<1> QED
  BY <1>1, <1>2, <1>3, <1>4, <1>5, StepEffects DEF RunInv, Typed, Effect

(* A set of naturals that is not empty has a least element.                 *)
LEMMA LeastNatural ==
  ASSUME NEW S \in SUBSET Nat, S # {}
  PROVE  \E x \in S : \A y \in S : x <= y
<1>1. PICK x \in S : \A y \in S : ~(<<y, x>> \in OpToRel(<, Nat))
  BY NatLessThanWellFounded, WFMin
<1>2. x \in Nat
  OBVIOUS
<1>3. \A y \in Nat : y < x => <<y, x>> \in OpToRel(<, Nat)
  BY <1>2 DEF OpToRel
<1>4. ASSUME NEW y \in S
      PROVE  x <= y
  <2>1. y \in Nat /\ ~(y < x)
    BY <1>1, <1>3
  <2> QED
    BY <1>2, <2>1
<1> QED
  BY <1>4

-----------------------------------------------------------------------------
(* How the modules are built.                                               *)

Offered == {BuiltIn[t] : t \in DOMAIN BuiltIn} \cup {ThirdParty[t] : t \in DOMAIN ThirdParty}

(* The i-th module, if it is an EPS, has the first payload built before it. *)
Fed(i) ==
  LET found == {j \in 1..(i - 1) : modules[j].class = "simple_payload"}
  IN  modules[i].class = "generic_eps" =>
        IF found = {} THEN modules[i].payload = None
        ELSE \E j \in found : modules[i].payload = modules[j].node /\ \A k \in found : j <= k

(* Modules stand in build order, and before whatever is still to be built.  *)
InBuildOrder ==
  \A i \in 1..Len(modules) :
    /\ modules[i].node \in Simulated(setup)
    /\ modules[i].class = registry[setup.nodes[modules[i].node].module].class
    /\ \A j \in 1..Len(modules) : i < j => Precedes(modules[i].node, modules[j].node)
    /\ \A n \in Simulated(setup) \ Built : Precedes(modules[i].node, n)

BuildInv ==
  /\ \A t \in DOMAIN registry : registry[t] \in Offered
  /\ IsSequence(modules)
  /\ modules # <<>> => phase \in {"build", "run"} /\ TypesKnown
  /\ InBuildOrder
  /\ \A i \in 1..Len(modules) : Fed(i)
  /\ phase = "run" => Simulated(setup) \subseteq Built

(* One more module: the next in build order, and fed if it is an EPS.       *)
LEMMA BuildKeeps ==
  ASSUME BuildInv, NEW n \in Simulated(setup), Build(n)
  PROVE  BuildInv'
<1>1. /\ phase = "build" /\ TypesKnown
      /\ n \notin Built
      /\ \A m \in Simulated(setup) \ (Built \cup {n}) : Precedes(n, m)
      /\ UNCHANGED <<registry, changes, setup, phase>>
  BY DEF Build
<1>2. PICK module : module = Module(n) /\ modules' = Append(modules, module)
  BY DEF Build
<1>3. PICK new : new = Len(modules) + 1
  OBVIOUS
<1>4. /\ IsSequence(modules') /\ Len(modules) \in Nat /\ Len(modules') = new
      /\ \A i \in 1..Len(modules) : modules'[i] = modules[i]
      /\ modules'[new] = module
  BY <1>2, <1>3, AppendShape DEF BuildInv
<1>5. \A i \in 1..new : i \in 1..Len(modules) \/ i = new
  BY <1>3, <1>4
<1>6. /\ module.node = n
      /\ module.class = registry[setup.nodes[n].module].class
      /\ module.class = "generic_eps" => module.payload = FirstOfClass("simple_payload")
  BY <1>2 DEF Module
<1>7. \A a, b : Precedes(a, b)' <=> Precedes(a, b)
  BY <1>1 DEF Precedes
<1>8. Built' = Built \cup {n} /\ Simulated(setup') = Simulated(setup)
  BY <1>1, <1>3, <1>4, <1>5, <1>6 DEF Built
<1>9. InBuildOrder'
  <2>1. ASSUME NEW i \in 1..new
        PROVE  /\ modules'[i].node \in Simulated(setup)
               /\ modules'[i].class = registry[setup.nodes[modules'[i].node].module].class
    BY <1>4, <1>5, <1>6 DEF BuildInv, InBuildOrder
  <2>2. ASSUME NEW i \in 1..new, NEW j \in 1..new, i < j
        PROVE  Precedes(modules'[i].node, modules'[j].node)
    <3>1. i \in 1..Len(modules)
      BY <1>3, <1>4, <2>2
    <3>2. CASE j \in 1..Len(modules)
      BY <1>4, <2>2, <3>1, <3>2 DEF BuildInv, InBuildOrder
    <3>3. CASE j = new
      BY <1>1, <1>4, <1>6, <3>1, <3>3 DEF BuildInv, InBuildOrder
    <3> QED
      BY <1>5, <3>2, <3>3
  <2>3. ASSUME NEW i \in 1..new, NEW m \in Simulated(setup) \ (Built \cup {n})
        PROVE  Precedes(modules'[i].node, m)
    <3>1. CASE i \in 1..Len(modules)
      BY <1>4, <2>3, <3>1 DEF BuildInv, InBuildOrder
    <3>2. CASE i = new
      BY <1>1, <1>4, <1>6, <2>3, <3>2
    <3> QED
      BY <1>5, <3>1, <3>2
  <2> QED
    BY <1>1, <1>4, <1>7, <1>8, <2>1, <2>2, <2>3 DEF InBuildOrder
<1>10. ASSUME NEW i \in 1..Len(modules)
       PROVE  Fed(i)'
  <2>1. Fed(i)
    BY DEF BuildInv
  <2>2. 1..(i - 1) \subseteq 1..Len(modules)
    BY <1>4
  <2> QED
    BY <1>4, <2>1, <2>2 DEF Fed
<1>11. Fed(new)'
  <2> DEFINE found == {j \in 1..Len(modules) : modules[j].class = "simple_payload"}
  <2>1. new - 1 = Len(modules)
    BY <1>3, <1>4
  <2>2. found = {} => FirstOfClass("simple_payload") = None
    BY DEF FirstOfClass
  <2>3. found # {} => \E j \in found : /\ FirstOfClass("simple_payload") = modules[j].node
                                       /\ \A k \in found : j <= k
    <3>1. found # {} => \E j \in found : \A k \in found : j <= k
      <4>1. found \in SUBSET Nat
        BY <1>4
      <4> HIDE DEF found
      <4> QED
        BY <4>1, LeastNatural
    <3> QED
      BY <3>1 DEF FirstOfClass
  <2>4. \A j \in 1..Len(modules) : /\ modules'[j].class = modules[j].class
                                   /\ modules'[j].node = modules[j].node
    BY <1>4
  <2>5. {j \in 1..(new - 1) : modules'[j].class = "simple_payload"} = found
    BY <2>1, <2>4
  <2> HIDE DEF found
  <2>6. CASE found = {}
    BY <1>4, <1>6, <2>2, <2>5, <2>6 DEF Fed
  <2>7. CASE found # {}
    <3>1. PICK j \in found : /\ FirstOfClass("simple_payload") = modules[j].node
                             /\ \A k \in found : j <= k
      BY <2>3, <2>7
    <3>2. modules'[j].node = modules[j].node
      BY <2>4 DEF found
    <3> QED
      BY <1>4, <1>6, <2>5, <2>7, <3>1, <3>2 DEF Fed
  <2> QED
    BY <2>6, <2>7
<1>12. TypesKnown'
  BY <1>1, <1>8 DEF TypesKnown
<1> QED
  BY <1>1, <1>4, <1>5, <1>9, <1>10, <1>11, <1>12 DEF BuildInv

(* What was built stays in order while setup and registry stay.             *)
LEMMA SameBuild ==
  ASSUME BuildInv, UNCHANGED <<registry, setup, modules>>
  PROVE  /\ InBuildOrder' /\ Built' = Built /\ (TypesKnown <=> TypesKnown')
         /\ \A i \in 1..Len(modules') : Fed(i)'
<1>1. Built' = Built
  BY DEF Built
<1>2. \A m, n : Precedes(m, n) => Precedes(m, n)'
  BY DEF Precedes
<1>3. InBuildOrder'
  BY <1>1, <1>2 DEF BuildInv, InBuildOrder
<1>4. TypesKnown <=> TypesKnown'
  BY DEF TypesKnown
<1>5. \A i \in 1..Len(modules') : Fed(i)'
  BY SMTT(30) DEF BuildInv, Fed
<1> QED
  BY <1>1, <1>3, <1>4, <1>5

(* Whatever start-up does, modules are built in order.                      *)
LEMMA BuildInvStep ==
  ASSUME SetupInv, BuildInv, [Next]_vars
  PROVE  BuildInv'
<1>1. ASSUME UNCHANGED startupVars
      PROVE  BuildInv'
  BY <1>1, SameBuild DEF startupVars, BuildInv
<1>2. ASSUME modules = <<>>, modules' = <<>>, phase' # "run",
             \A t \in DOMAIN registry' : registry'[t] \in Offered
      PROVE  BuildInv'
  <2>1. 1..Len(<<>>) = {}
    BY EmptyShape
  <2> QED
    BY <1>2, <2>1 DEF BuildInv, InBuildOrder
<1>3. ASSUME NEW t \in DOMAIN ThirdParty, NEW r \in BOOLEAN, RegisterModule(t, r)
      PROVE  BuildInv'
  BY <1>2, <1>3 DEF RegisterModule, BuildInv, Offered
<1>4. ASSUME NEW t \in DOMAIN registry, UnregisterModule(t)
      PROVE  BuildInv'
  BY <1>2, <1>4 DEF UnregisterModule, BuildInv
<1>5. ASSUME NEW s \in Setups, Load(s)
      PROVE  BuildInv'
  BY <1>2, <1>5 DEF Load, BuildInv
<1>6. CASE BuildFails
  BY <1>2, <1>6 DEF BuildFails, BuildInv
<1>7. CASE Start
  <2>1. UNCHANGED <<registry, changes, setup, modules>> /\ Simulated(setup) \subseteq Built
        /\ phase' = "run"
    BY <1>7 DEF Start
  <2> QED
    BY <2>1, SameBuild DEF BuildInv
<1>8. CASE BeforeRun
  BY <1>3, <1>4, <1>5, <1>6, <1>7, <1>8, BuildKeeps DEF BeforeRun, StartupNext, StartRun
<1>9. CASE ~BeforeRun
  <2>1. UNCHANGED startupVars
    BY <1>9 DEF Next, SendCommandStep, EmitTelemetry, SendTelemetry, PeerSends, Dispatch, Drain,
                Deliver, Collect, DropOversized, DeliverCommand, CommandWithoutModule,
                DeliverTelemetry, NoRoute, Delivering, PeerCalls, vars
  <2> QED
    BY <1>1, <2>1
<1> QED
  BY <1>8, <1>9

(* Build order and place in the file are numbers, so nobody precedes itself *)
(* or one that precedes it.                                                 *)
LEMMA PrecedesApart ==
  ASSUME SetupInv, BuildInv, phase = "run", TypesKnown,
         NEW m \in Simulated(setup), NEW n \in Simulated(setup), Precedes(m, n)
  PROVE  m # n /\ ~Precedes(n, m)
<1> DEFINE OrderOf(x) == registry[setup.nodes[x].module].order
<1>1. ASSUME NEW x \in Simulated(setup)
      PROVE  OrderOf(x) \in Nat /\ setup.nodes[x].at \in Nat
  <2>1. registry[setup.nodes[x].module] \in Offered
    BY DEF BuildInv, TypesKnown
  <2>2. OrderOf(x) \in Nat
    BY <2>1, StartupAssumption DEF Offered, Registration
  <2>3. x \in DOMAIN setup.nodes /\ setup \in Setups
    BY DEF Simulated, SetupInv
  <2> QED
    BY <2>2, <2>3, StartupAssumption
<1>2. /\ OrderOf(m) < OrderOf(n) \/ (OrderOf(m) = OrderOf(n) /\ setup.nodes[m].at < setup.nodes[n].at)
      /\ Precedes(n, m) => \/ OrderOf(n) < OrderOf(m)
                           \/ OrderOf(n) = OrderOf(m) /\ setup.nodes[n].at < setup.nodes[m].at
  BY DEF Precedes
<1>3. PICK a, b, c, d : a = OrderOf(m) /\ b = OrderOf(n) /\ c = setup.nodes[m].at /\ d = setup.nodes[n].at
  OBVIOUS
<1>4. a \in Nat /\ b \in Nat /\ c \in Nat /\ d \in Nat
  BY <1>1, <1>3
<1>5. /\ a < b \/ (a = b /\ c < d)
      /\ Precedes(n, m) => b < a \/ (b = a /\ d < c)
      /\ m = n => a = b /\ c = d
  BY <1>2, <1>3
<1> QED
  BY <1>4, <1>5

(* Built in order, payloads first: the first payload built is the first one *)
(* of the file, and it is there when the EPS is built.                      *)
LEMMA FedRight ==
  ASSUME PayloadsFirst, SetupInv, BuildInv
  PROVE  EpsFindsPayload
<1> DEFINE payloads == {n \in Simulated(setup) : ClassOf(n) = "simple_payload"}
<1> SUFFICES ASSUME phase = "run", NEW i \in 1..Len(modules), modules[i].class = "generic_eps"
             PROVE  IF payloads = {} THEN modules[i].payload = None
                    ELSE /\ modules[i].payload \in payloads
                         /\ \A n \in payloads :
                              setup.nodes[modules[i].payload].at <= setup.nodes[n].at
  BY DEF EpsFindsPayload
<1> DEFINE found == {j \in 1..(i - 1) : modules[j].class = "simple_payload"}
           eps == modules[i].node
           RegOf(n) == registry[setup.nodes[n].module]
<1>1. Len(modules) \in Nat /\ TypesKnown /\ Simulated(setup) \subseteq Built
  <2>1. modules # <<>>
    BY EmptyShape
  <2> QED
    BY <2>1 DEF BuildInv, IsSequence
<1>2. ASSUME NEW j \in 1..Len(modules)
      PROVE  /\ modules[j].node \in Simulated(setup)
             /\ modules[j].class = RegOf(modules[j].node).class
             /\ RegOf(modules[j].node) \in Offered
             /\ setup.nodes[modules[j].node].at \in Nat
  <2>1. /\ modules[j].node \in Simulated(setup)
        /\ modules[j].class = RegOf(modules[j].node).class
    BY DEF BuildInv, InBuildOrder
  <2>2. RegOf(modules[j].node) \in Offered
    BY <1>1, <2>1 DEF BuildInv, TypesKnown
  <2>3. setup \in Setups /\ modules[j].node \in DOMAIN setup.nodes
    BY <2>1 DEF SetupInv, Simulated
  <2> QED
    BY <2>1, <2>2, <2>3, StartupAssumption
<1>3. ASSUME NEW j \in 1..Len(modules), NEW k \in 1..Len(modules), j < k
      PROVE  /\ Precedes(modules[j].node, modules[k].node)
             /\ ~Precedes(modules[k].node, modules[j].node)
             /\ modules[j].node # modules[k].node
  <2>1. Precedes(modules[j].node, modules[k].node)
    BY <1>3 DEF BuildInv, InBuildOrder
  <2> QED
    BY <1>1, <1>2, <2>1, PrecedesApart
<1>4. ASSUME NEW j \in 1..Len(modules)
      PROVE  ClassOf(modules[j].node) = modules[j].class
  <2>1. PICK k : k = CHOOSE x \in 1..Len(modules) : modules[x].node = modules[j].node
    OBVIOUS
  <2>2. k \in 1..Len(modules) /\ modules[k].node = modules[j].node
    BY <2>1
  <2>3. ~(k < j) /\ ~(j < k)
    BY <1>3, <2>2
  <2>4. k = j
    BY <1>1, <2>2, <2>3
  <2> QED
    BY <2>1, <2>4 DEF ClassOf
<1>5. ASSUME NEW n \in payloads
      PROVE  \E j \in found : modules[j].node = n
  <2>1. PICK j \in 1..Len(modules) : modules[j].node = n
    BY <1>1 DEF Built
  <2>2. modules[j].class = "simple_payload"
    BY <1>4, <2>1
  <2>3. RegOf(n).class = "simple_payload" /\ RegOf(eps).class = "generic_eps"
        /\ RegOf(n) \in Offered /\ RegOf(eps) \in Offered
    BY <1>2, <2>1, <2>2
  <2>4. RegOf(n).order < RegOf(eps).order
    BY <2>3 DEF PayloadsFirst, Offered
  <2>5. Precedes(n, eps)
    BY <2>4 DEF Precedes
  <2>6. ~(i < j) /\ i # j
    BY <1>3, <2>1, <2>2, <2>5
  <2>7. j \in 1..(i - 1)
    BY <1>1, <2>6
  <2> QED
    BY <2>1, <2>2, <2>7
<1>6. 1..(i - 1) \subseteq 1..Len(modules)
  BY <1>1
<1>7. ASSUME NEW j \in found
      PROVE  modules[j].node \in payloads
  BY <1>2, <1>4, <1>6
<1>8. IF found = {} THEN modules[i].payload = None
      ELSE \E j \in found : modules[i].payload = modules[j].node /\ \A k \in found : j <= k
  BY DEF BuildInv, Fed
<1>9. CASE found = {}
  <2>1. payloads = {}
    BY <1>5, <1>9
  <2> QED
    BY <1>8, <1>9, <2>1
<1>10. CASE found # {}
  <2>1. PICK j \in found : modules[i].payload = modules[j].node /\ \A k \in found : j <= k
    BY <1>8, <1>10
  <2>2. modules[j].node \in payloads
    BY <1>7
  <2>3. ASSUME NEW n \in payloads
        PROVE  setup.nodes[modules[j].node].at <= setup.nodes[n].at
    <3>1. PICK k \in found : modules[k].node = n
      BY <1>5
    <3>2. j \in 1..Len(modules) /\ k \in 1..Len(modules) /\ j <= k
      BY <1>6, <2>1
    <3>3. setup.nodes[modules[j].node].at \in Nat /\ setup.nodes[n].at \in Nat
      BY <1>2, <3>1, <3>2
    <3>4. CASE j = k
      BY <3>1, <3>3, <3>4
    <3>5. CASE j < k
      <4>1. Precedes(modules[j].node, n)
        BY <1>3, <3>1, <3>2, <3>5
      <4>2. RegOf(modules[j].node).order = RegOf(n).order /\ RegOf(n).order \in Nat
        <5>1. /\ RegOf(modules[j].node).class = "simple_payload" /\ RegOf(n).class = "simple_payload"
              /\ RegOf(modules[j].node) \in Offered /\ RegOf(n) \in Offered
          BY <1>2, <3>1, <3>2
        <5> QED
          BY <5>1, StartupAssumption DEF PayloadsFirst, Offered, Registration
      <4>3. setup.nodes[modules[j].node].at < setup.nodes[n].at
        BY <4>1, <4>2 DEF Precedes
      <4> QED
        BY <3>3, <4>3
    <3> QED
      BY <1>1, <3>2, <3>4, <3>5
  <2> QED
    BY <2>1, <2>2, <2>3
<1> QED
  BY <1>9, <1>10

-----------------------------------------------------------------------------
(* What the readers of the endpoint queues hear.                            *)

(* Envelopes in order, then envelopes in order with higher numbers.         *)
LEMMA OrderedJoin ==
  ASSUME NEW queue \in Seq(Envelope), NEW more \in Seq(Envelope), NEW from \in Nat, NEW next \in Nat,
         from <= next, Ordered(queue, from), Ordered(more, next),
         \A i \in 1..Len(more) : from <= more[i].seq
  PROVE  Ordered(queue \o more, next)
<1> DEFINE m == Len(queue)
           n == Len(more)
<1>1. PICK all : all = queue \o more
  OBVIOUS
<1>2. /\ m \in Nat /\ n \in Nat /\ Len(all) = m + n
      /\ \A i \in 1..m : all[i] = queue[i]
      /\ \A i \in 1..n : all[m + i] = more[i]
      /\ \A i \in 1..Len(all) : i \in 1..m \/ i - m \in 1..n
  <2>1. IsSequence(queue) /\ IsSequence(more)
    BY TypedIsSequence
  <2>2. /\ Len(queue) \in Nat /\ Len(more) \in Nat
        /\ Len(queue \o more) = Len(queue) + Len(more)
        /\ \A i \in 1..Len(queue) : (queue \o more)[i] = queue[i]
        /\ \A i \in 1..Len(more) : (queue \o more)[Len(queue) + i] = more[i]
    BY <2>1, ConcatShape
  <2> QED
    BY <1>1, <2>2
<1>3. /\ \A i \in 1..m : queue[i].seq \in Nat /\ queue[i].seq < from
      /\ \A i \in 1..n : more[i].seq \in Nat /\ more[i].seq < next /\ from <= more[i].seq
  BY EnvelopeAt DEF Ordered
<1>4. /\ \A i \in 1..m : \A j \in 1..(i - 1) : queue[j].seq < queue[i].seq
      /\ \A i \in 1..n : \A j \in 1..(i - 1) : more[j].seq < more[i].seq
  BY DEF Ordered
<1> HIDE DEF m, n
<1>5. ASSUME NEW i \in 1..(m + n)
      PROVE  all[i].seq < next /\ \A j \in 1..(i - 1) : all[j].seq < all[i].seq
  <2>1. CASE i \in 1..m
    <3>1. all[i] = queue[i] /\ \A j \in 1..(i - 1) : j \in 1..m /\ all[j] = queue[j]
      BY <1>2, <2>1
    <3>2. all[i].seq \in Nat /\ all[i].seq < from
      BY <1>3, <2>1, <3>1
    <3> QED
      BY <1>2, <1>4, <2>1, <3>1, <3>2
  <2>2. CASE i \notin 1..m
    <3>1. PICK k \in 1..n : i = m + k
      <4>1. i - m \in 1..n /\ i = m + (i - m)
        BY <1>2, <2>2
      <4> QED
        BY <4>1
    <3>2. all[i] = more[k] /\ all[i].seq \in Nat /\ all[i].seq < next /\ from <= all[i].seq
      BY <1>2, <1>3, <3>1
    <3>3. ASSUME NEW j \in 1..(i - 1)
          PROVE  all[j].seq < all[i].seq
      <4>1. CASE j \in 1..m
        <5>1. all[j].seq \in Nat /\ all[j].seq < from
          BY <1>2, <1>3, <4>1
        <5> QED
          BY <3>2, <5>1
      <4>2. CASE j \notin 1..m
        <5>1. j - m \in 1..(k - 1) /\ j - m \in 1..n /\ j = m + (j - m)
          BY <1>2, <3>1, <4>2
        <5>2. all[j] = more[j - m]
          BY <1>2, <5>1
        <5> QED
          BY <1>4, <3>2, <5>1, <5>2
      <4> QED
        BY <4>1, <4>2
    <3> QED
      BY <3>2, <3>3
  <2> QED
    BY <2>1, <2>2
<1> QED
  BY <1>1, <1>2, <1>5 DEF Ordered

(* What is in order is so up to any place.                                  *)
LEMMA OrderedPrefix ==
  ASSUME NEW queue \in Seq(Envelope), NEW more \in Seq(Envelope), NEW next,
         Ordered(queue \o more, next)
  PROVE  Ordered(queue, next)
<1>1. IsSequence(queue) /\ IsSequence(more)
  BY TypedIsSequence
<1>2. PICK all : all = queue \o more
  OBVIOUS
<1>3. /\ Len(queue) \in Nat /\ Len(more) \in Nat /\ Len(all) = Len(queue) + Len(more)
      /\ \A i \in 1..Len(queue) : all[i] = queue[i]
  BY <1>1, <1>2, ConcatShape
<1>4. ASSUME NEW i \in 1..Len(queue)
      PROVE  queue[i].seq < next /\ \A j \in 1..(i - 1) : queue[j].seq < queue[i].seq
  <2>1. i \in 1..Len(all) /\ \A j \in 1..(i - 1) : j \in 1..Len(queue)
    BY <1>3
  <2> QED
    BY <1>2, <1>3, <2>1 DEF Ordered
<1> QED
  BY <1>4 DEF Ordered

(* Numbered frames are in order.                                            *)
LEMMA OrderedNumbered ==
  ASSUME NEW frames \in Seq(Frame), NEW from \in Nat
  PROVE  /\ Ordered(Numbered(frames, from), from + Len(frames))
         /\ \A i \in 1..Len(Numbered(frames, from)) : from <= Numbered(frames, from)[i].seq
<1>1. PICK more : more = Numbered(frames, from)
  OBVIOUS
<1>2. Len(more) = Len(frames) /\ Len(frames) \in Nat /\ \A i \in 1..Len(frames) : more[i].seq = from + i - 1
  BY <1>1, NumberedShape
<1> QED
  BY <1>1, <1>2 DEF Ordered

(* So is what is picked from what is in order.                              *)
LEMMA OrderedSelected ==
  ASSUME NEW queue \in Seq(Envelope), NEW next, Ordered(queue, next), NEW I
  PROVE  /\ Ordered(Selected(queue, I), next)
         /\ Selected(queue, I) \in Seq(Envelope)
         /\ \A k \in 1..Len(Selected(queue, I)) :
              \E i \in 1..Len(queue) : i \in I /\ Selected(queue, I)[k] = queue[i]
<1>1. PICK q : q = Selected(queue, I)
  OBVIOUS
<1>2. q \in Seq(Envelope) /\ Picked(q, queue, I, Len(queue))
  BY <1>1, SelectedShape
<1>3. PICK place \in [1..Len(q) -> 1..Len(queue)] :
        /\ \A k \in 1..Len(q) : place[k] \in I /\ q[k] = queue[place[k]]
        /\ \A j, k \in 1..Len(q) : j < k => place[j] < place[k]
  BY <1>2 DEF Picked
<1>4. Len(queue) \in Nat /\ Len(q) \in Nat
  BY <1>2
<1>5. \A k \in 1..Len(q) : place[k] \in 1..Len(queue)
  BY <1>3
<1>6. ASSUME NEW k \in 1..Len(q)
      PROVE  q[k].seq < next /\ \A j \in 1..(k - 1) : q[j].seq < q[k].seq
  <2>1. q[k].seq < next
    BY <1>3, <1>5 DEF Ordered
  <2>2. ASSUME NEW j \in 1..(k - 1)
        PROVE  q[j].seq < q[k].seq
    <3>1. j \in 1..Len(q) /\ j < k
      BY <1>4
    <3>2. place[j] < place[k] /\ place[j] \in 1..Len(queue) /\ place[k] \in 1..Len(queue)
      BY <1>3, <1>5, <3>1
    <3>3. place[j] \in 1..(place[k] - 1)
      BY <1>4, <3>2
    <3>4. queue[place[j]].seq < queue[place[k]].seq
      BY <3>2, <3>3 DEF Ordered
    <3> QED
      BY <1>3, <3>1, <3>4
  <2> QED
    BY <2>1, <2>2
<1>7. Ordered(q, next)
  BY <1>6 DEF Ordered
<1> QED
  BY <1>1, <1>2, <1>3, <1>5, <1>7

(* Reading an envelope moves it from one side to the other.                 *)
LEMMA ReadingMoves ==
  ASSUME NEW read \in Seq(Envelope), NEW queue \in Seq(Envelope), queue # <<>>
  PROVE  /\ Append(read, Head(queue)) \in Seq(Envelope)
         /\ Tail(queue) \in Seq(Envelope)
         /\ Append(read, Head(queue)) \o Tail(queue) = read \o queue
<1>1. Head(queue) \in Envelope /\ Tail(queue) \in Seq(Envelope)
  OBVIOUS
<1>2. Append(read, Head(queue)) = read \o <<Head(queue)>> /\ <<Head(queue)>> \in Seq(Envelope)
  BY <1>1
<1>3. <<Head(queue)>> \o Tail(queue) = queue
  BY <1>1
<1>4. (read \o <<Head(queue)>>) \o Tail(queue) = read \o (<<Head(queue)>> \o Tail(queue))
  BY <1>1, <1>2
<1> QED
  BY <1>1, <1>2, <1>3, <1>4

(* A reader's envelopes carry packets of others, on the serial link packets *)
(* to the reader.                                                           *)
Meant(a, queue) ==
  \A i \in 1..Len(queue) : /\ queue[i].packet \in Numbers
                           /\ PacketOf(queue[i].packet).src # a
                           /\ Kind = "kiss" => PacketOf(queue[i].packet).dst = a

Listening(a) ==
  /\ heard[a] \in Seq(Envelope) /\ Meant(a, heard[a]) /\ Ordered(heard[a], sequence)
  /\ a \in DOMAIN queues => /\ queues[a] \in Seq(Envelope)
                            /\ Meant(a, queues[a])
                            /\ Ordered(heard[a] \o queues[a], sequence)

HeardInv ==
  /\ phase # "run" => heard = <<>>
  /\ phase = "run" =>
       /\ DOMAIN heard = Addresses(DOMAIN setup.nodes)
       /\ DOMAIN queues \subseteq DOMAIN heard
       /\ \A a \in DOMAIN heard : Listening(a)
       /\ Kind = "kiss" =>
            \A i \in 1..Len(line) : PacketOf(line[i].packet).src \in Addresses(External(setup))

(* The copies of a packet that is sent: what endpoint queues get, and what  *)
(* waits on the line.                                                       *)
Copies(packet) ==
  /\ DOMAIN queues' = DOMAIN queues
  /\ sequence' \in {sequence, sequence + Len(PacketFrames(packet))}
  /\ \A a \in DOMAIN queues :
       \/ queues'[a] = queues[a]
       \/ /\ queues'[a] = queues[a] \o Numbered(PacketFrames(packet), sequence)
          /\ sequence' = sequence + Len(PacketFrames(packet))
          /\ packet.src # a
          /\ Kind = "kiss" => packet.dst = a
  /\ \/ UNCHANGED line
     \/ /\ line' = line \o PacketFrames(packet)
        /\ Kind = "kiss" => packet.src \in Addresses(External(setup))

(* Sending leaves copies with everyone but the sender, or with the receiver *)
LEMMA CopiesShape ==
  ASSUME NEW packet,
         \/ \E route, args : SendInside(packet, route, args)
         \/ SendOutside(packet)
  PROVE  Copies(packet)
<1> DEFINE frames == PacketFrames(packet)
<1>1. ASSUME InMemorySend(frames, packet.src), Kind = "in-memory"
      PROVE  Copies(packet)
  BY <1>1 DEF InMemorySend, Copies
<1>2. ASSUME NEW own, SocketCanSend(frames, own), Kind # "kiss"
      PROVE  Copies(packet)
  BY <1>2 DEF SocketCanSend, Copies
<1>3. ASSUME KissSend(frames, packet.src, packet.dst)
      PROVE  Copies(packet)
  BY <1>3 DEF KissSend, Copies
<1>4. ASSUME NEW route, NEW args, SendInside(packet, route, args)
      PROVE  Copies(packet)
  <2>1. TransportSend(Kind, frames, packet.src, packet.dst)
    BY <1>4 DEF SendInside, SendPacket, PacketFrames
  <2> QED
    BY <1>1, <1>2, <1>3, <2>1 DEF TransportSend
<1>5. ASSUME SendOutside(packet)
      PROVE  Copies(packet)
  <2>1. packet.src \in Addresses(External(setup)) /\ PeerSend(Kind, frames, packet.src)
    BY <1>5 DEF SendOutside
  <2>2. CASE Kind = "in-memory" /\ InMemorySend(frames, packet.src)
    BY <1>1, <2>2
  <2>3. CASE line' = line \o frames /\ UNCHANGED <<monitor, queues, away, sequence>>
    BY <2>1, <2>3 DEF Copies
  <2> QED
    BY <2>1, <2>2, <2>3 DEF PeerSend
<1> QED
  BY <1>4, <1>5

(* More packets in the history change nothing for the older ones.           *)
LEMMA MeantStays ==
  ASSUME NEW a, NEW queue, Meant(a, queue), UNCHANGED setup,
         \A k \in Numbers : k \in Numbers' /\ sent'[k] = sent[k]
  PROVE  \A i \in 1..Len(queue) :
           /\ queue[i].packet \in Numbers'
           /\ sent'[queue[i].packet].packet.src # a
           /\ setup'.transport = "kiss" => sent'[queue[i].packet].packet.dst = a
BY DEF Meant, PacketOf, Kind

(* A packet that is sent reaches the readers it is meant for.               *)
LEMMA HeardSending ==
  ASSUME RunInv, Typed, HeardInv, phase = "run", UNCHANGED <<setup, phase, heard>>, Sending
  PROVE  HeardInv'
<1>1. PICK packet :
        /\ Len(packet.payload) \in Nat
        /\ \/ \E route, args : SendInside(packet, route, args) /\ SentNow(packet, route, args, TRUE)
           \/ SendOutside(packet) /\ SentNow(packet, None, None, FALSE)
  BY SendingShape
<1>2. /\ Copies(packet)
      /\ Numbers' = Numbers \cup {Len(sent) + 1}
      /\ \A k \in Numbers : sent'[k] = sent[k]
      /\ sent'[Len(sent) + 1].packet = packet
  BY <1>1, CopiesShape, SentGrows
<1>3. PICK frames : frames = PacketFrames(packet)
  OBVIOUS
<1>4. /\ frames \in Seq(Frame) /\ Len(frames) \in Nat
      /\ \A i \in 1..Len(frames) : frames[i].packet = Len(sent) + 1
  BY <1>1, <1>3, PacketFramesShape
<1>5. sequence \in Nat /\ sequence' \in Nat /\ sequence <= sequence'
  BY <1>2, <1>3, <1>4 DEF Typed, Copies
<1>6. ASSUME NEW a \in DOMAIN heard
      PROVE  Listening(a)'
  <2>1. Listening(a)
    BY DEF HeardInv
  <2>2. heard'[a] = heard[a] /\ heard[a] \in Seq(Envelope)
    BY <2>1 DEF Listening
  <2>3. Meant(a, heard[a])'
    BY <1>2, <2>1, <2>2, MeantStays DEF Listening, Meant, PacketOf, Kind
  <2>4. Ordered(heard[a], sequence)'
    <3>1. Ordered(heard[a], sequence')
      BY <1>5, <2>1, <2>2, OrderedBelow DEF Listening
    <3> QED
      BY <2>2, <3>1 DEF Ordered
  <2>5. ASSUME a \in DOMAIN queues'
        PROVE  /\ queues'[a] \in Seq(Envelope)
               /\ Meant(a, queues[a])'
               /\ Ordered(heard[a] \o queues[a], sequence)'
    <3>1. /\ a \in DOMAIN queues /\ queues[a] \in Seq(Envelope) /\ Meant(a, queues[a])
          /\ Ordered(heard[a] \o queues[a], sequence)
      BY <1>2, <2>1, <2>5 DEF Copies, Listening
    <3>2. PICK all : all = heard[a] \o queues[a]
      OBVIOUS
    <3>3. all \in Seq(Envelope) /\ Ordered(all, sequence)
      BY <2>2, <3>1, <3>2
    <3>4. CASE queues'[a] = queues[a]
      <4>1. Meant(a, queues[a])'
        BY <1>2, <3>1, <3>4, MeantStays DEF Meant, PacketOf, Kind
      <4>2. Ordered(all, sequence')
        BY <1>5, <3>3, OrderedBelow
      <4> QED
        BY <2>2, <3>1, <3>2, <3>4, <4>1, <4>2 DEF Ordered
    <3>5. CASE /\ queues'[a] = queues[a] \o Numbered(frames, sequence)
               /\ sequence' = sequence + Len(frames)
               /\ packet.src # a
               /\ Kind = "kiss" => packet.dst = a
      <4>1. PICK more : more = Numbered(frames, sequence)
        OBVIOUS
      <4>2. /\ more \in Seq(Envelope) /\ Len(more) = Len(frames)
            /\ \A i \in 1..Len(more) : more[i].packet = Len(sent) + 1
        BY <1>4, <1>5, <4>1, NumberedShape
      <4>3. Ordered(all \o more, sequence')
        BY <1>4, <1>5, <3>3, <3>5, <4>1, OrderedConcat
      <4>4. all \o more = heard[a] \o (queues[a] \o more)
        BY <2>2, <3>1, <3>2, <4>2
      <4>5. Ordered(heard[a] \o queues[a], sequence)'
        BY <2>2, <3>5, <4>1, <4>3, <4>4 DEF Ordered
      <4>6. PICK queue : queue = queues[a] \o more
        OBVIOUS
      <4>7. \A i \in 1..Len(queue) :
              \/ i \in 1..Len(queues[a]) /\ queue[i] = queues[a][i]
              \/ i - Len(queues[a]) \in 1..Len(more) /\ queue[i] = more[i - Len(queues[a])]
        <5>1. IsSequence(queues[a]) /\ IsSequence(more)
          BY <3>1, <4>2, TypedIsSequence
        <5> QED
          BY <4>6, <5>1, ConcatShape, ZenonT(40)
      <4>8. \A i \in 1..Len(queues[a]) :
              /\ queues[a][i].packet \in Numbers'
              /\ sent'[queues[a][i].packet].packet.src # a
              /\ setup'.transport = "kiss" => sent'[queues[a][i].packet].packet.dst = a
        BY <1>2, <3>1, MeantStays
      <4>9. \A i \in 1..Len(more) :
              /\ more[i].packet \in Numbers'
              /\ sent'[more[i].packet].packet.src # a
              /\ setup'.transport = "kiss" => sent'[more[i].packet].packet.dst = a
        BY <1>2, <3>5, <4>2 DEF Kind
      <4>10. \A i \in 1..Len(queue) :
               /\ queue[i].packet \in Numbers'
               /\ sent'[queue[i].packet].packet.src # a
               /\ setup'.transport = "kiss" => sent'[queue[i].packet].packet.dst = a
        BY <4>7, <4>8, <4>9
      <4>11. queues'[a] = queue
        BY <3>5, <4>1, <4>6
      <4>12. Meant(a, queues[a])'
        BY <4>10, <4>11 DEF Meant, PacketOf, Kind
      <4> QED
        BY <3>1, <4>2, <4>5, <4>6, <4>11, <4>12
    <3> QED
      BY <1>2, <1>3, <3>1, <3>4, <3>5 DEF Copies
  <2> QED
    BY <2>2, <2>3, <2>4, <2>5 DEF Listening
<1>7. ASSUME Kind = "kiss", NEW i \in 1..Len(line')
      PROVE  sent'[line'[i].packet].packet.src \in Addresses(External(setup))
  <2>1. \A j \in 1..Len(line) : /\ line[j].packet \in Numbers
                                /\ sent[line[j].packet].packet.src \in Addresses(External(setup))
    BY <1>7 DEF HeardInv, Typed, Mentions, PacketOf
  <2>2. CASE UNCHANGED line
    BY <1>2, <1>7, <2>1, <2>2
  <2>3. CASE line' = line \o frames /\ packet.src \in Addresses(External(setup))
    <3>1. PICK queue : queue = line \o frames
      OBVIOUS
    <3>2. IsSequence(line) /\ IsSequence(frames)
      BY <1>4, TypedIsSequence DEF Typed
    <3>3. \A j \in 1..Len(queue) :
            \/ j \in 1..Len(line) /\ queue[j] = line[j]
            \/ j - Len(line) \in 1..Len(frames) /\ queue[j] = frames[j - Len(line)]
      BY <3>1, <3>2, ConcatShape
    <3>4. \/ \E j \in 1..Len(line) : line'[i] = line[j]
          \/ \E j \in 1..Len(frames) : line'[i] = frames[j]
      BY <1>7, <2>3, <3>1, <3>3
    <3> QED
      BY <1>2, <1>4, <2>1, <2>3, <3>4
  <2> QED
    BY <1>2, <1>3, <1>7, <2>2, <2>3 DEF Copies
<1>8. DOMAIN heard' = Addresses(DOMAIN setup.nodes)' /\ DOMAIN queues' \subseteq DOMAIN heard'
  BY <1>2 DEF HeardInv, Copies, Addresses
<1>9. phase' = "run"
  BY <1>2
<1>10. Kind' = "kiss" =>
         \A i \in 1..Len(line') : PacketOf(line[i].packet)'.src \in Addresses(External(setup))'
  BY <1>7 DEF PacketOf, Kind, Addresses, External, Simulated
<1> QED
  BY <1>6, <1>8, <1>9, <1>10 DEF HeardInv

(* Draining the serial link brings each reader what is addressed to it,     *)
(* from outside, and so never from itself.                                  *)
LEMMA HeardDraining ==
  ASSUME RunInv, Typed, HeardInv, Drain
  PROVE  HeardInv'
<1>1. /\ phase = "run" /\ UNCHANGED <<setup, phase, heard, sent>>
      /\ line' = <<>> /\ sequence' = sequence + Len(line)
  BY DEF Drain, DrainAll, Running, startupVars
<1>2. PICK read : read = Numbered(line, sequence)
  OBVIOUS
<1>3. /\ read \in Seq(Envelope) /\ Len(read) = Len(line) /\ Len(line) \in Nat
      /\ sequence \in Nat
      /\ \A i \in 1..Len(read) : read[i].packet = line[i].packet
      /\ Ordered(read, sequence + Len(line))
      /\ \A i \in 1..Len(read) : sequence <= read[i].seq
  BY <1>2, NumberedShape, OrderedNumbered DEF Typed
<1>4. PICK I : I = [a \in DOMAIN queues |->
                      {i \in 1..Len(read) : [k \in 1..Len(sent) |-> PacketOf(k).dst][read[i].packet] = a}]
  OBVIOUS
<1>5. queues' = IF Kind # "kiss" THEN queues
                ELSE [a \in DOMAIN queues |-> queues[a] \o Selected(read, I[a])]
  BY <1>2, <1>4 DEF Drain, DrainAll
<1>6. DOMAIN queues' = DOMAIN queues
  BY <1>5
<1>7. sequence' \in Nat /\ sequence <= sequence'
  BY <1>1, <1>3
<1>8. ASSUME NEW a \in DOMAIN heard
      PROVE  Listening(a)'
  <2>1. Listening(a) /\ heard'[a] = heard[a] /\ heard[a] \in Seq(Envelope)
    BY <1>1 DEF HeardInv, Listening
  <2>2. Meant(a, heard[a])'
    BY <1>1, <2>1 DEF Listening, Meant, PacketOf, Kind, Numbers
  <2>3. Ordered(heard[a], sequence)'
    <3>1. Ordered(heard[a], sequence')
      BY <1>3, <1>7, <2>1, OrderedBelow DEF Listening
    <3> QED
      BY <2>1, <3>1 DEF Ordered
  <2>4. ASSUME a \in DOMAIN queues'
        PROVE  /\ queues'[a] \in Seq(Envelope)
               /\ Meant(a, queues[a])'
               /\ Ordered(heard[a] \o queues[a], sequence)'
    <3>1. /\ a \in DOMAIN queues /\ queues[a] \in Seq(Envelope) /\ Meant(a, queues[a])
          /\ Ordered(heard[a] \o queues[a], sequence)
      BY <1>6, <2>1, <2>4 DEF Listening
    <3>2. PICK all : all = heard[a] \o queues[a]
      OBVIOUS
    <3>3. all \in Seq(Envelope) /\ Ordered(all, sequence)
      BY <2>1, <3>1, <3>2
    <3>4. CASE Kind # "kiss"
      <4>1. queues'[a] = queues[a]
        BY <1>5, <3>4
      <4>2. Meant(a, queues[a])'
        BY <1>1, <3>1, <4>1 DEF Meant, PacketOf, Kind, Numbers
      <4>3. Ordered(all, sequence')
        BY <1>3, <1>7, <3>3, OrderedBelow
      <4> QED
        BY <2>1, <3>1, <3>2, <4>1, <4>2, <4>3 DEF Ordered
    <3>5. CASE Kind = "kiss"
      <4>1. PICK more : more = Selected(read, I[a])
        OBVIOUS
      <4>2. queues'[a] = queues[a] \o more
        BY <1>5, <3>1, <3>5, <4>1
      <4>3. /\ more \in Seq(Envelope) /\ Ordered(more, sequence')
            /\ \A k \in 1..Len(more) : \E i \in 1..Len(read) : i \in I[a] /\ more[k] = read[i]
        BY <1>1, <1>3, <4>1, OrderedSelected
      <4>4. \A k \in 1..Len(more) : sequence <= more[k].seq
        BY <1>3, <4>3
      <4>5. Ordered(all \o more, sequence')
        BY <1>3, <1>7, <3>3, <4>3, <4>4, OrderedJoin
      <4>6. all \o more = heard[a] \o (queues[a] \o more)
        BY <2>1, <3>1, <3>2, <4>3
      <4>7. Ordered(heard[a] \o queues[a], sequence)'
        BY <2>1, <4>2, <4>5, <4>6 DEF Ordered
      <4>8. PICK queue : queue = queues[a] \o more
        OBVIOUS
      <4>9. \A i \in 1..Len(queue) :
              \/ i \in 1..Len(queues[a]) /\ queue[i] = queues[a][i]
              \/ i - Len(queues[a]) \in 1..Len(more) /\ queue[i] = more[i - Len(queues[a])]
        <5>1. IsSequence(queues[a]) /\ IsSequence(more)
          BY <3>1, <4>3, TypedIsSequence
        <5> QED
          BY <4>8, <5>1, ConcatShape, ZenonT(40)
      <4>10. ASSUME NEW k \in 1..Len(more)
             PROVE  /\ more[k].packet \in Numbers
                    /\ PacketOf(more[k].packet).src # a
                    /\ PacketOf(more[k].packet).dst = a
        <5>1. PICK i \in 1..Len(read) : i \in I[a] /\ more[k] = read[i]
          BY <4>3
        <5>2. line[i].packet \in Numbers /\ read[i].packet = line[i].packet /\ i \in 1..Len(line)
          BY <1>3 DEF Typed, Mentions
        <5>3. PacketOf(read[i].packet).dst = a
          BY <1>4, <3>1, <5>1, <5>2 DEF Numbers
        <5>4. PacketOf(read[i].packet).src \in Addresses(External(setup))
          BY <1>1, <3>5, <5>2 DEF HeardInv
        <5>5. a \in Addresses(Simulated(setup))
          BY <1>1, <3>1, <3>5 DEF RunInv, EndpointsInv
        <5>6. PICK m \in Simulated(setup), n \in External(setup) :
                a = setup.nodes[m].address /\ PacketOf(read[i].packet).src = setup.nodes[n].address
          BY <5>4, <5>5 DEF Addresses
        <5>7. m # n /\ m \in DOMAIN setup.nodes /\ n \in DOMAIN setup.nodes
          BY <5>6 DEF External, Simulated
        <5>8. PacketOf(read[i].packet).src # a
          BY <1>1, <5>6, <5>7 DEF RunInv, SetupInv, UniqueAddresses
        <5> QED
          BY <5>1, <5>2, <5>3, <5>8
      <4>11. Meant(a, queue)
        BY <3>1, <4>9, <4>10 DEF Meant
      <4>12. Meant(a, queues[a])'
        BY <1>1, <4>2, <4>8, <4>11 DEF Meant, PacketOf, Kind, Numbers
      <4> QED
        BY <3>1, <4>2, <4>3, <4>7, <4>12
    <3> QED
      BY <3>4, <3>5
  <2> QED
    BY <2>1, <2>2, <2>3, <2>4 DEF Listening
<1>9. 1..Len(line') = {}
  BY <1>1, EmptyShape
<1> QED
  BY <1>1, <1>6, <1>8, <1>9 DEF HeardInv, Addresses, UniqueAddresses

(* A reader takes an envelope, or its queue is emptied, taken away or made  *)
(* anew; the others notice nothing.                                         *)
LEMMA HeardReading ==
  ASSUME HeardInv, NEW reader \in Addresses(External(setup)), PeerCalls(reader)
  PROVE  HeardInv'
<1>1. /\ phase = "run" /\ UNCHANGED <<setup, phase, line, sequence, sent>>
  BY DEF PeerCalls, Running, startupVars, ReceiveAt, ClearAt, DisconnectAt, ConnectAt
<1>2. /\ DOMAIN heard = Addresses(DOMAIN setup.nodes) /\ DOMAIN queues \subseteq DOMAIN heard
      /\ \A a \in DOMAIN heard : Listening(a)
      /\ reader \in DOMAIN heard
  BY <1>1 DEF HeardInv, Addresses, External
<1>3. ASSUME NEW a \in DOMAIN heard,
             heard'[a] = heard[a],
             a \in DOMAIN queues' => a \in DOMAIN queues /\ queues'[a] = queues[a]
      PROVE  Listening(a)'
  <2>1. Listening(a)
    BY <1>2
  <2> QED
    BY <1>1, <1>3, <2>1 DEF Listening, Meant, Ordered, PacketOf, Kind, Numbers
<1>4. ASSUME NEW a \in DOMAIN heard, heard'[a] = heard[a], a \in DOMAIN queues', queues'[a] = <<>>
      PROVE  Listening(a)'
  <2>1. Listening(a)
    BY <1>2
  <2>2. heard[a] \o <<>> = heard[a]
    BY <2>1 DEF Listening
  <2> QED
    BY <1>1, <1>4, <2>1, <2>2, EmptyShape DEF Listening, Meant, Ordered, PacketOf, Kind, Numbers
<1>5. CASE ReceiveAt(reader) /\ heard' = [heard EXCEPT ![reader] = Append(@, Head(queues[reader]))]
  <2>1. /\ reader \in DOMAIN queues /\ queues[reader] # <<>>
        /\ queues' = [queues EXCEPT ![reader] = Tail(@)]
    BY <1>5 DEF ReceiveAt
  <2>2. Listening(reader)
    BY <1>2
  <2>3. PICK h, q : h = heard[reader] /\ q = queues[reader]
    OBVIOUS
  <2>4. /\ h \in Seq(Envelope) /\ q \in Seq(Envelope) /\ q # <<>>
        /\ Meant(reader, h) /\ Meant(reader, q) /\ Ordered(h \o q, sequence)
    BY <2>1, <2>2, <2>3 DEF Listening
  <2>5. PICK h1, q1 : h1 = Append(h, Head(q)) /\ q1 = Tail(q)
    OBVIOUS
  <2>6. h1 \in Seq(Envelope) /\ q1 \in Seq(Envelope) /\ h1 \o q1 = h \o q
    BY <2>4, <2>5, ReadingMoves
  <2>7. heard'[reader] = h1 /\ queues'[reader] = q1
    BY <1>2, <1>5, <2>1, <2>3, <2>5
  <2>8. Ordered(h1 \o q1, sequence) /\ Ordered(h1, sequence)
    BY <2>4, <2>6, OrderedPrefix
  <2>9. Meant(reader, h1) /\ Meant(reader, q1)
    <3>1. /\ Len(h1) = Len(h) + 1 /\ Len(h) \in Nat /\ Len(q) \in Nat \ {0}
          /\ \A i \in 1..Len(h) : h1[i] = h[i]
          /\ h1[Len(h) + 1] = q[1]
          /\ Len(q1) = Len(q) - 1
          /\ \A i \in 1..Len(q1) : q1[i] = q[i + 1]
      BY <2>4, <2>5, HeadTailShape, TypedIsSequence, AppendShape
    <3>2. \A i \in 1..Len(h1) : i \in 1..Len(h) \/ i = Len(h) + 1
      BY <3>1
    <3>3. 1 \in 1..Len(q) /\ \A i \in 1..Len(q1) : i + 1 \in 1..Len(q)
      BY <3>1
    <3>4. Meant(reader, h1)
      BY <2>4, <3>1, <3>2, <3>3 DEF Meant
    <3>5. Meant(reader, q1)
      BY <2>4, <3>1, <3>3, SMTT(30) DEF Meant
    <3> QED
      BY <3>4, <3>5
  <2>10. Listening(reader)'
    BY <1>1, <2>6, <2>7, <2>8, <2>9 DEF Listening, Meant, Ordered, PacketOf, Kind, Numbers
  <2>11. ASSUME NEW a \in DOMAIN heard, a # reader
         PROVE  Listening(a)'
    BY <1>3, <1>5, <2>1, <2>11
  <2>12. DOMAIN heard' = DOMAIN heard /\ DOMAIN queues' = DOMAIN queues
    BY <1>5, <2>1
  <2> QED
    BY <1>1, <1>2, <2>10, <2>11, <2>12
    DEF HeardInv, Addresses, UniqueAddresses, PacketOf, Kind, External, Simulated
<1>6. CASE UNCHANGED heard /\ (ClearAt(reader) \/ DisconnectAt(reader) \/ ConnectAt(reader))
  <2>1. DOMAIN queues' \subseteq DOMAIN heard'
    BY <1>2, <1>6 DEF ClearAt, DisconnectAt, ConnectAt
  <2>2. ASSUME NEW a \in DOMAIN heard
        PROVE  Listening(a)'
    <3>1. \/ a \in DOMAIN queues' => a \in DOMAIN queues /\ queues'[a] = queues[a]
          \/ a \in DOMAIN queues' /\ queues'[a] = <<>>
      BY <1>6 DEF ClearAt, DisconnectAt, ConnectAt
    <3> QED
      BY <1>3, <1>4, <1>6, <3>1
  <2> QED
    BY <1>1, <1>2, <1>6, <2>1, <2>2
    DEF HeardInv, Addresses, UniqueAddresses, PacketOf, Kind, External, Simulated
<1> QED
  BY <1>5, <1>6 DEF PeerCalls

(* When the run starts nobody has heard anything.                           *)
LEMMA HeardBefore ==
  ASSUME HeardInv, BeforeRun
  PROVE  HeardInv'
<1>1. CASE StartupNext /\ UNCHANGED <<transportVars, runVars>>
  <2>1. phase' # "run" /\ heard' = <<>>
    BY <1>1 DEF StartupNext, RegisterModule, UnregisterModule, Load, Build, BuildFails, HeardInv,
                runVars
  <2> QED
    BY <2>1 DEF HeardInv
<1>2. CASE StartRun
  <2>1. /\ UNCHANGED setup /\ phase' = "run"
        /\ line' = <<>> /\ sequence' = 0
        /\ heard' = [a \in Addresses(DOMAIN setup.nodes) |-> <<>>]
        /\ \E E \in SUBSET Addresses(DOMAIN setup.nodes) : queues' = [a \in E |-> <<>>]
    BY <1>2 DEF StartRun, Start, Connected, HeardInv, Addresses, Simulated
  <2>2. Len(<<>>) = 0 /\ <<>> \in Seq(Envelope) /\ <<>> \o <<>> = <<>> /\ 1..0 = {}
    BY EmptyShape
  <2>3. ASSUME NEW a \in DOMAIN heard'
        PROVE  Listening(a)'
    <3>1. heard'[a] = <<>> /\ (a \in DOMAIN queues' => queues'[a] = <<>>)
      BY <2>1
    <3> QED
      BY <2>2, <3>1 DEF Listening, Meant, Ordered
  <2> QED
    BY <2>1, <2>2, <2>3 DEF HeardInv, Addresses
<1> QED
  BY <1>1, <1>2 DEF BeforeRun

(* A packet that is sent shows in the history.                              *)
LEMMA SendingShows ==
  ASSUME Typed, NEW packet, NEW route, NEW args, SendPacket(packet, route, args)
  PROVE  ~Idle
<1>1. PICK record : sent' = Append(sent, record)
  BY DEF SendPacket
<1>2. Len(sent') = Len(sent) + 1 /\ Len(sent) \in Nat
  BY <1>1, AppendShape DEF Typed
<1> QED
  BY <1>2 DEF Idle

(* What readers hear stays right whatever happens.                          *)
LEMMA HeardStep ==
  ASSUME RunInv, Typed, HeardInv, [Next]_vars
  PROVE  HeardInv'
<1>1. CASE BeforeRun
  BY <1>1, HeardBefore
<1>2. ASSUME UNCHANGED <<setup, phase, heard, queues, line, sequence, sent>>
      PROVE  HeardInv'
  <2>1. Numbers' = Numbers /\ Kind' = Kind /\ \A k : PacketOf(k)' = PacketOf(k)
    BY <1>2 DEF Numbers, Kind, PacketOf
  <2>2. \A nodes : Addresses(nodes)' = Addresses(nodes)
    BY <1>2 DEF Addresses
  <2>3. \A a, q : Meant(a, q) => Meant(a, q)'
    BY <1>2, <2>1 DEF Meant
  <2>4. \A a : Listening(a) => Listening(a)'
    BY <1>2, <2>3 DEF Listening
  <2>5. External(setup)' = External(setup) /\ DOMAIN setup.nodes' = DOMAIN setup.nodes
    BY <1>2
  <2> QED
    BY <1>2, <2>1, <2>2, <2>4, <2>5 DEF HeardInv
<1>3. ASSUME phase = "run", UNCHANGED heard, UNCHANGED <<setup, phase>>,
             Idle \/ Sending,
             ~Idle \/ UNCHANGED <<transportVars, sent>>
      PROVE  HeardInv'
  BY <1>2, <1>3, HeardSending DEF transportVars
<1>4. ASSUME NEW step \in Steps, NEW args \in Arguments \cup {None}, SendCommandStep(step, args)
      PROVE  HeardInv'
  <2>1. UNCHANGED heard /\ (~Idle \/ UNCHANGED <<transportVars, sent>>)
    BY <1>4, SendingShows DEF SendCommandStep
  <2> QED
    BY <1>3, <1>4, <2>1, StepCommandEffect DEF RunInv
<1>5. CASE EmitTelemetry
  BY <1>2, <1>5 DEF EmitTelemetry, startupVars, transportVars
<1>6. ASSUME NEW r \in emitting, NEW v \in Values, SendTelemetry(r, v)
      PROVE  HeardInv'
  <2>1. UNCHANGED heard /\ (~Idle \/ UNCHANGED <<transportVars, sent>>)
    BY <1>6, SendingShows DEF SendTelemetry
  <2> QED
    BY <1>3, <1>6, <2>1, SendTelemetryEffect DEF RunInv
<1>7. ASSUME NEW packet \in ExternalPackets, PeerSends(packet)
      PROVE  HeardInv'
  <2>1. UNCHANGED heard
    BY <1>7 DEF PeerSends
  <2> QED
    BY <1>7, <2>1, PeerSendsEffect, HeardSending DEF RunInv
<1>8. CASE Dispatch
  <2>1. UNCHANGED heard /\ (~Idle \/ UNCHANGED <<transportVars, sent>>)
    BY <1>8, SendingShows DEF Dispatch
  <2> QED
    BY <1>3, <1>8, <2>1, DispatchEffect DEF RunInv
<1>9. CASE Drain
  BY <1>9, HeardDraining
<1>10. CASE Deliver
  <2>1. hand # <<>> /\ Delivering(Head(hand))
    BY <1>10 DEF Deliver, Collect, DropOversized, DeliverCommand, CommandWithoutModule,
                 DeliverTelemetry, NoRoute
  <2> QED
    BY <1>2, <2>1 DEF Delivering, startupVars, transportVars
<1>11. ASSUME NEW a \in Addresses(External(setup)), PeerCalls(a)
       PROVE  HeardInv'
  BY <1>11, HeardReading
<1>12. CASE UNCHANGED vars
  BY <1>2, <1>12 DEF vars, startupVars, transportVars, runVars
<1> QED
  BY <1>1, <1>4, <1>5, <1>6, <1>7, <1>8, <1>9, <1>10, <1>11, <1>12 DEF Next

-----------------------------------------------------------------------------
(* Packets of one source stay in the order they were sent, wherever they    *)
(* are.  A packet counts where its last frame is; packets are looked up in  *)
(* a history, now or after the step.                                        *)
SameSource(history, j, k) == history[j].packet.src = history[k].packet.src

InOrder(queue, history) ==
  \A i, j \in 1..Len(queue) :
    /\ i < j
    /\ queue[i].last /\ queue[j].last
    /\ SameSource(history, queue[i].packet, queue[j].packet)
    => queue[i].packet < queue[j].packet

Behind(early, late, history) ==
  \A i \in 1..Len(early), j \in 1..Len(late) :
    /\ early[i].last /\ late[j].last
    /\ SameSource(history, early[i].packet, late[j].packet)
    => early[i].packet < late[j].packet

Settles(results, queue, history) ==
  \A i \in 1..Len(results), j \in 1..Len(queue) :
    /\ queue[j].last
    /\ SameSource(history, results[i].number, queue[j].packet)
    => results[i].number < queue[j].packet

OrderInv ==
  /\ InOrder(monitor, sent) /\ InOrder(line, sent) /\ InOrder(hand, sent)
  /\ Behind(monitor, line, sent) /\ Behind(hand, line, sent)
  /\ Settles(outcomes, monitor, sent)
  /\ Settles(outcomes, line, sent)
  /\ Settles(outcomes, hand, sent)
  /\ Kind = "in-memory" => line = <<>>
  /\ \A k \in Numbers : PacketOf(k).src \in AllAddresses /\ PacketOf(k).dst \in AllAddresses

(* What holds of packets sent so far holds after more have been sent.       *)
LEMMA OrderStays ==
  ASSUME NEW n, NEW old, NEW new, \A k \in 1..n : new[k] = old[k],
         NEW queue, \A i \in 1..Len(queue) : queue[i].packet \in 1..n
  PROVE  /\ InOrder(queue, old) => InOrder(queue, new)
         /\ \A late : /\ \A i \in 1..Len(late) : late[i].packet \in 1..n
                      /\ Behind(queue, late, old)
                      => Behind(queue, late, new)
         /\ \A results : /\ \A i \in 1..Len(results) : results[i].number \in 1..n
                         /\ Settles(results, queue, old)
                         => Settles(results, queue, new)
BY DEF InOrder, Behind, Settles, SameSource

(* A packet sent now comes last.                                            *)
LEMMA OrderGrows ==
  ASSUME NEW n \in Nat, NEW history,
         NEW queue, IsSequence(queue), \A i \in 1..Len(queue) : queue[i].packet \in 1..n,
         NEW more, IsSequence(more), \A i \in 1..Len(more) : more[i].packet = n + 1,
         \A i \in 1..Len(more) : more[i].last <=> i = Len(more)
  PROVE  /\ InOrder(queue, history) => InOrder(queue \o more, history)
         /\ \A early : /\ \A i \in 1..Len(early) : early[i].packet \in 1..n
                       /\ Behind(early, queue, history)
                       => Behind(early, queue \o more, history)
         /\ \A results : /\ \A i \in 1..Len(results) : results[i].number \in 1..n
                         /\ Settles(results, queue, history)
                         => Settles(results, queue \o more, history)
         /\ \A late : /\ Behind(queue, late, history)
                      /\ \A j \in 1..Len(late) : ~SameSource(history, n + 1, late[j].packet)
                      => Behind(queue \o more, late, history)
<1>1. PICK all : all = queue \o more
  OBVIOUS
<1>2. /\ Len(queue) \in Nat /\ Len(more) \in Nat /\ Len(all) = Len(queue) + Len(more)
      /\ \A i \in 1..Len(all) : \/ i \in 1..Len(queue) /\ all[i] = queue[i]
                                \/ i - Len(queue) \in 1..Len(more) /\ all[i] = more[i - Len(queue)]
  <2>1. /\ Len(queue) \in Nat /\ Len(more) \in Nat
        /\ Len(queue \o more) = Len(queue) + Len(more)
        /\ \A i \in 1..Len(queue \o more) :
             \/ i \in 1..Len(queue) /\ (queue \o more)[i] = queue[i]
             \/ i - Len(queue) \in 1..Len(more) /\ (queue \o more)[i] = more[i - Len(queue)]
    BY ONLY ConcatShape
  <2> QED
    BY <1>1, <2>1
<1>3. ASSUME NEW i \in 1..Len(all)
      PROVE  \/ i \in 1..Len(queue) /\ all[i] = queue[i] /\ queue[i].packet \in 1..n
             \/ all[i].packet = n + 1 /\ (all[i].last => i = Len(all)) /\ i \notin 1..Len(queue)
  <2>1. CASE i \in 1..Len(queue) /\ all[i] = queue[i]
    BY <2>1
  <2>2. CASE i - Len(queue) \in 1..Len(more) /\ all[i] = more[i - Len(queue)]
    <3>1. PICK k \in 1..Len(more) : k = i - Len(queue)
      BY <2>2
    <3>2. all[i].packet = n + 1 /\ (all[i].last => k = Len(more))
      BY <2>2, <3>1
    <3>3. i \notin 1..Len(queue) /\ (k = Len(more) => i = Len(all))
      BY <1>2, <3>1
    <3> QED
      BY <3>2, <3>3
  <2> QED
    BY <1>2, <2>1, <2>2
<1>4. ASSUME InOrder(queue, history)
      PROVE  InOrder(all, history)
  <2> SUFFICES ASSUME NEW i \in 1..Len(all), NEW j \in 1..Len(all), i < j,
                      all[i].last, all[j].last,
                      SameSource(history, all[i].packet, all[j].packet)
               PROVE  all[i].packet < all[j].packet
    BY DEF InOrder
  <2>1. i # Len(all)
    BY <1>2
  <2>2. i \in 1..Len(queue) /\ all[i] = queue[i] /\ queue[i].packet \in 1..n
    BY <1>3, <2>1
  <2>3. CASE j \in 1..Len(queue) /\ all[j] = queue[j]
    BY <1>4, <2>2, <2>3 DEF InOrder
  <2>4. CASE all[j].packet = n + 1
    BY <2>2, <2>4
  <2> QED
    BY <1>3, <2>3, <2>4
<1>5. ASSUME NEW early, \A i \in 1..Len(early) : early[i].packet \in 1..n,
             Behind(early, queue, history)
      PROVE  Behind(early, all, history)
  BY <1>3, <1>5, SMTT(30) DEF Behind
<1>6. ASSUME NEW results, \A i \in 1..Len(results) : results[i].number \in 1..n,
             Settles(results, queue, history)
      PROVE  Settles(results, all, history)
  <2> SUFFICES ASSUME NEW i \in 1..Len(results), NEW j \in 1..Len(all), all[j].last,
                      SameSource(history, results[i].number, all[j].packet)
               PROVE  results[i].number < all[j].packet
    BY DEF Settles
  <2>1. CASE j \in 1..Len(queue) /\ all[j] = queue[j]
    BY <1>6, <2>1 DEF Settles
  <2>2. CASE all[j].packet = n + 1
    BY <1>6, <2>2
  <2> QED
    BY <1>3, <2>1, <2>2
<1>7. ASSUME NEW late, Behind(queue, late, history),
             \A j \in 1..Len(late) : ~SameSource(history, n + 1, late[j].packet)
      PROVE  Behind(all, late, history)
  BY <1>3, <1>7 DEF Behind
<1> QED
  BY <1>1, <1>4, <1>5, <1>6, <1>7

(* A packet that is sent comes after all others of its source.              *)
LEMMA OrderSending ==
  ASSUME RunInv, Typed, HeardInv, OrderInv, phase = "run", UNCHANGED <<setup, phase>>, Sending
  PROVE  OrderInv'
<1>1. PICK packet :
        /\ Len(packet.payload) \in Nat
        /\ \/ \E route, args : SendInside(packet, route, args) /\ SentNow(packet, route, args, TRUE)
           \/ SendOutside(packet) /\ SentNow(packet, None, None, FALSE)
  BY SendingShape
<1>2. PICK n : n = Len(sent)
  OBVIOUS
<1>3. /\ n \in Nat /\ Numbers = 1..n /\ Numbers' = 1..(n + 1)
      /\ \A k \in 1..n : sent'[k] = sent[k]
      /\ sent'[n + 1].packet = packet
  <2>1. /\ n \in Nat /\ Numbers = 1..n /\ Numbers' = Numbers \cup {n + 1}
        /\ \A k \in Numbers : sent'[k] = sent[k]
        /\ sent'[n + 1].packet = packet
    BY <1>1, <1>2, SentGrows DEF Numbers
  <2>2. 1..n \cup {n + 1} = 1..(n + 1)
    BY <2>1
  <2> QED
    BY <2>1, <2>2
<1>4. PICK frames, envelopes :
        frames = PacketFrames(packet) /\ envelopes = Numbered(frames, sequence)
  OBVIOUS
<1>5. /\ frames \in Seq(Frame)
      /\ \A i \in 1..Len(frames) : frames[i].packet = n + 1
      /\ \A i \in 1..Len(frames) : frames[i].last <=> i = Len(frames)
  BY <1>1, <1>2, <1>4, PacketFramesShape
<1>6. /\ envelopes \in Seq(Envelope)
      /\ \A i \in 1..Len(envelopes) : envelopes[i].packet = n + 1
      /\ \A i \in 1..Len(envelopes) : envelopes[i].last <=> i = Len(envelopes)
  <2>1. sequence \in Nat
    BY DEF Typed
  <2>2. /\ envelopes \in Seq(Envelope) /\ Len(envelopes) = Len(frames)
        /\ \A i \in 1..Len(frames) : /\ envelopes[i].packet = frames[i].packet
                                     /\ envelopes[i].last = frames[i].last
    BY <1>4, <1>5, <2>1, NumberedShape
  <2> QED
    BY <1>5, <2>2
<1>7. /\ IsSequence(frames) /\ IsSequence(envelopes)
      /\ IsSequence(monitor) /\ IsSequence(line) /\ IsSequence(hand)
  BY <1>5, <1>6, TypedIsSequence DEF Typed
<1>8. /\ \A i \in 1..Len(monitor) : monitor[i].packet \in 1..n
      /\ \A i \in 1..Len(line) : line[i].packet \in 1..n
      /\ \A i \in 1..Len(hand) : hand[i].packet \in 1..n
      /\ \A i \in 1..Len(outcomes) : outcomes[i].number \in 1..n
  BY <1>3 DEF Typed, Mentions
<1>9. UNCHANGED <<hand, outcomes>>
  BY DEF Sending
<1>10. /\ InOrder(monitor, sent') /\ InOrder(line, sent') /\ InOrder(hand, sent')
       /\ Behind(monitor, line, sent') /\ Behind(hand, line, sent')
       /\ Settles(outcomes, monitor, sent')
       /\ Settles(outcomes, line, sent')
       /\ Settles(outcomes, hand, sent')
  <2>1. \A q \in {monitor, line, hand} : /\ InOrder(q, sent)
                                         /\ Settles(outcomes, q, sent)
                                         /\ \A i \in 1..Len(q) : q[i].packet \in 1..n
    BY <1>8 DEF OrderInv
  <2>2. \A q \in {monitor, line, hand} : InOrder(q, sent') /\ Settles(outcomes, q, sent')
    BY <1>3, <1>8, <2>1, OrderStays
  <2>3. Behind(monitor, line, sent') /\ Behind(hand, line, sent')
    BY <1>3, <1>8, OrderStays DEF OrderInv
  <2> QED
    BY <2>2, <2>3
<1>11. packet.src \in AllAddresses /\ packet.dst \in AllAddresses
  <2>1. ASSUME NEW route, NEW args, SendInside(packet, route, args)
        PROVE  packet.src \in AllAddresses /\ packet.dst \in AllAddresses
    BY <2>1, RouteAddresses DEF SendInside, Fitting, RunInv
  <2>2. ASSUME SendOutside(packet)
        PROVE  packet.src \in AllAddresses /\ packet.dst \in AllAddresses
    <3>1. setup \in Setups
      BY DEF RunInv, SetupInv
    <3> QED
      BY <2>2, <3>1, RoutingAssumption DEF SendOutside, Addresses, External
  <2> QED
    BY <1>1, <2>1, <2>2
<1>12. \A k \in Numbers' : PacketOf(k)'.src \in AllAddresses /\ PacketOf(k)'.dst \in AllAddresses
  <2>1. \A k \in 1..n : sent'[k].packet.src \in AllAddresses /\ sent'[k].packet.dst \in AllAddresses
    BY <1>3 DEF OrderInv, PacketOf
  <2>2. \A k \in 1..(n + 1) : k \in 1..n \/ k = n + 1
    BY <1>3
  <2> QED
    BY <1>3, <1>11, <2>1, <2>2 DEF PacketOf
<1>13. ASSUME Queued(frames), Kind # "in-memory", SendOutside(packet)
       PROVE  FALSE
  <2>1. line' = line \o frames /\ line' = line
    BY <1>4, <1>13 DEF Queued, SendOutside, PeerSend
  <2>2. Len(line) \in Nat /\ Len(frames) \in Nat \ {0} /\ Len(line \o frames) = Len(line) + Len(frames)
    BY <1>1, <1>4, <1>7, PacketFramesShape, ConcatShape, ZenonT(40)
  <2> QED
    BY <2>1, <2>2
<1>14. CASE Queued(frames) /\ Kind \in {"in-memory", "kiss"}
  <2>1. monitor' = monitor \o envelopes /\ line' = line
    BY <1>4, <1>14 DEF Queued
  <2>2. \A j \in 1..Len(line) : ~SameSource(sent', n + 1, line[j].packet)
    <3>1. CASE line = <<>>
      BY <3>1, EmptyShape
    <3>2. CASE line # <<>>
      <4>1. Kind = "kiss"
        BY <1>14, <3>2 DEF OrderInv
      <4>2. packet.src \in Addresses(Simulated(setup))
        BY <1>1, <1>13, <1>14, <3>2, <4>1 DEF SendInside
      <4>3. \A j \in 1..Len(line) : sent[line[j].packet].packet.src \in Addresses(External(setup))
        BY <4>1 DEF HeardInv, PacketOf
      <4>4. UniqueAddresses(setup)
        BY DEF RunInv, SetupInv
      <4>5. packet.src \notin Addresses(External(setup))
        BY <4>2, <4>4 DEF Addresses, External, Simulated, UniqueAddresses
      <4> QED
        BY <1>3, <1>8, <4>3, <4>5 DEF SameSource
    <3> QED
      BY <3>1, <3>2
  <2>3. /\ InOrder(monitor \o envelopes, sent')
        /\ Settles(outcomes, monitor \o envelopes, sent')
        /\ Behind(monitor \o envelopes, line, sent')
    BY <1>3, <1>6, <1>7, <1>8, <1>10, <2>2, OrderGrows
  <2> QED
    BY <1>9, <1>10, <1>12, <2>1, <2>3 DEF OrderInv, Kind
<1>15. CASE Waits(frames) /\ Kind # "in-memory"
  <2>1. monitor' = monitor /\ line' = line \o frames
    BY <1>15 DEF Waits
  <2>2. /\ InOrder(line \o frames, sent')
        /\ Settles(outcomes, line \o frames, sent')
        /\ Behind(monitor, line \o frames, sent')
        /\ Behind(hand, line \o frames, sent')
    BY <1>3, <1>5, <1>7, <1>8, <1>10, OrderGrows
  <2> QED
    BY <1>9, <1>10, <1>12, <1>15, <2>1, <2>2 DEF OrderInv, Kind
<1>16. CASE Leaves(frames)
  <2>1. monitor' = monitor /\ line' = line
    BY <1>16 DEF Leaves
  <2> QED
    BY <1>9, <1>10, <1>12, <2>1 DEF OrderInv, Kind
<1> QED
  BY <1>1, <1>4, <1>14, <1>15, <1>16 DEF SentNow

(* What was waiting is taken in hand in the order that holds among it.      *)
LEMMA OrderDraining ==
  ASSUME Typed, OrderInv, phase = "run", UNCHANGED <<setup, phase>>, Draining
  PROVE  OrderInv'
<1>1. /\ hand' = Received /\ monitor' = <<>> /\ line' = <<>>
      /\ UNCHANGED <<sent, outcomes>>
  BY DEF Draining
<1>2. PICK m, l, all : m = Len(monitor) /\ l = Len(line) /\ all = Received
  OBVIOUS
<1>3. /\ m \in Nat /\ l \in Nat /\ Len(all) = m + l
      /\ \A i \in 1..m : all[i] = monitor[i]
      /\ \A j \in 1..l : all[m + j].packet = line[j].packet /\ all[m + j].last = line[j].last
  BY <1>2, ReceivedShape
<1>4. ASSUME NEW i \in 1..(m + l)
      PROVE  i \in 1..m \/ \E j \in 1..l : i = m + j
  <2>1. i \in 1..m \/ (i - m \in 1..l /\ i = m + (i - m))
    BY <1>3
  <2> QED
    BY <2>1
<1>5. InOrder(all, sent)
  <2> SUFFICES ASSUME NEW i \in 1..(m + l), NEW j \in 1..(m + l), i < j,
                      all[i].last, all[j].last,
                      SameSource(sent, all[i].packet, all[j].packet)
               PROVE  all[i].packet < all[j].packet
    BY <1>3 DEF InOrder
  <2>1. CASE i \in 1..m /\ j \in 1..m
    BY <1>2, <1>3, <2>1 DEF OrderInv, InOrder
  <2>2. ASSUME i \in 1..m, NEW k \in 1..l, j = m + k
        PROVE  all[i].packet < all[j].packet
    BY <1>2, <1>3, <2>2 DEF OrderInv, Behind
  <2>3. ASSUME NEW h \in 1..l, i = m + h, NEW k \in 1..l, j = m + k
        PROVE  all[i].packet < all[j].packet
    <3>1. h < k
      BY <1>3, <2>3
    <3> QED
      BY <1>2, <1>3, <2>3, <3>1 DEF OrderInv, InOrder
  <2>4. ASSUME NEW h \in 1..l, i = m + h, j \in 1..m
        PROVE  FALSE
    BY <1>3, <2>4
  <2> QED
    BY <1>4, <2>1, <2>2, <2>3, <2>4
<1>6. Settles(outcomes, all, sent)
  <2> SUFFICES ASSUME NEW i \in 1..Len(outcomes), NEW j \in 1..(m + l), all[j].last,
                      SameSource(sent, outcomes[i].number, all[j].packet)
               PROVE  outcomes[i].number < all[j].packet
    BY <1>3 DEF Settles
  <2>1. CASE j \in 1..m
    BY <1>2, <1>3, <2>1 DEF OrderInv, Settles
  <2>2. ASSUME NEW k \in 1..l, j = m + k
        PROVE  outcomes[i].number < all[j].packet
    BY <1>2, <1>3, <2>2 DEF OrderInv, Settles
  <2> QED
    BY <1>4, <2>1, <2>2
<1>7. 1..Len(<<>>) = {}
  BY EmptyShape
<1>8. InOrder(<<>>, sent) /\ Settles(outcomes, <<>>, sent)
  BY <1>7 DEF InOrder, Settles
<1>9. Behind(<<>>, <<>>, sent) /\ Behind(all, <<>>, sent)
  BY <1>7 DEF Behind
<1>10. \A k \in Numbers' : (PacketOf(k).src \in AllAddresses /\ PacketOf(k).dst \in AllAddresses)'
  BY <1>1 DEF OrderInv, Numbers, PacketOf
<1>11. hand' = all
  BY <1>1, <1>2
<1> QED
  BY <1>1, <1>5, <1>6, <1>8, <1>9, <1>10, <1>11 DEF OrderInv

(* The frame that is dealt with came before what is left of its source.     *)
LEMMA OrderTaking ==
  ASSUME Typed, OrderInv, phase = "run", UNCHANGED <<setup, phase>>, Taking
  PROVE  OrderInv'
<1>1. /\ UNCHANGED <<monitor, line, sent>>
      /\ monitor = <<>>
      /\ Len(hand) \in Nat \ {0} /\ Len(hand') = Len(hand) - 1
      /\ \A i \in 1..Len(hand') : hand'[i] = hand[i + 1]
      /\ \/ UNCHANGED outcomes
         \/ /\ hand[1].last
            /\ Len(outcomes) \in Nat
            /\ Len(outcomes') = Len(outcomes) + 1
            /\ \A i \in 1..Len(outcomes) : outcomes'[i] = outcomes[i]
            /\ outcomes'[Len(outcomes) + 1].number = hand[1].packet
  BY TakingShape DEF Judged
<1>2. \A i \in 1..Len(hand') : i + 1 \in 1..Len(hand) /\ 1 < i + 1 /\ 1 \in 1..Len(hand)
  BY <1>1
<1>3. InOrder(hand', sent)
  <2> SUFFICES ASSUME NEW i \in 1..Len(hand'), NEW j \in 1..Len(hand'), i < j,
                      hand'[i].last, hand'[j].last,
                      SameSource(sent, hand'[i].packet, hand'[j].packet)
               PROVE  hand'[i].packet < hand'[j].packet
    BY DEF InOrder
  <2>1. i + 1 < j + 1
    BY <1>1
  <2> QED
    BY <1>1, <1>2, <2>1 DEF OrderInv, InOrder
<1>4. Behind(hand', line, sent)
  BY <1>1, <1>2 DEF OrderInv, Behind
<1>5. ASSUME NEW i \in 1..Len(outcomes')
      PROVE  \/ i \in 1..Len(outcomes) /\ outcomes'[i] = outcomes[i]
             \/ hand[1].last /\ outcomes'[i].number = hand[1].packet
  BY <1>1
<1>6. Settles(outcomes', hand', sent)
  <2> SUFFICES ASSUME NEW i \in 1..Len(outcomes'), NEW j \in 1..Len(hand'), hand'[j].last,
                      SameSource(sent, outcomes'[i].number, hand'[j].packet)
               PROVE  outcomes'[i].number < hand'[j].packet
    BY DEF Settles
  <2>1. hand'[j] = hand[j + 1] /\ j + 1 \in 1..Len(hand) /\ 1 < j + 1 /\ 1 \in 1..Len(hand)
    BY <1>1, <1>2
  <2>2. CASE i \in 1..Len(outcomes) /\ outcomes'[i] = outcomes[i]
    BY <2>1, <2>2 DEF OrderInv, Settles
  <2>3. CASE hand[1].last /\ outcomes'[i].number = hand[1].packet
    BY <2>1, <2>3 DEF OrderInv, InOrder
  <2> QED
    BY <1>5, <2>2, <2>3
<1>7. Settles(outcomes', line, sent)
  <2> SUFFICES ASSUME NEW i \in 1..Len(outcomes'), NEW j \in 1..Len(line), line[j].last,
                      SameSource(sent, outcomes'[i].number, line[j].packet)
               PROVE  outcomes'[i].number < line[j].packet
    BY DEF Settles
  <2>1. CASE i \in 1..Len(outcomes) /\ outcomes'[i] = outcomes[i]
    BY <2>1 DEF OrderInv, Settles
  <2>2. CASE hand[1].last /\ outcomes'[i].number = hand[1].packet
    <3>1. 1 \in 1..Len(hand)
      BY <1>1
    <3> QED
      BY <2>2, <3>1 DEF OrderInv, Behind
  <2> QED
    BY <1>5, <2>1, <2>2
<1>8. 1..Len(<<>>) = {}
  BY EmptyShape
<1>9. Settles(outcomes', monitor, sent)
  BY <1>1, <1>8 DEF Settles
<1> QED
  BY <1>1, <1>3, <1>4, <1>6, <1>7, <1>9 DEF OrderInv, PacketOf, Kind, Numbers

(* The order holds after every step.                                        *)
LEMMA OrderStep ==
  ASSUME RunInv, Typed, HeardInv, OrderInv, [Next]_vars
  PROVE  OrderInv'
<1>1. CASE Prepare
  <2>1. Blank' /\ 1..Len(<<>>) = {}
    BY <1>1, BlankStays, EmptyShape DEF Prepare, Typed
  <2> QED
    BY <2>1 DEF Blank, OrderInv, InOrder, Behind, Settles, Numbers
<1>2. CASE phase = "run" /\ UNCHANGED <<setup, phase>> /\ Sending
  BY <1>2, OrderSending
<1>3. CASE phase = "run" /\ UNCHANGED <<setup, phase>> /\ Draining
  BY <1>3, OrderDraining
<1>4. CASE phase = "run" /\ UNCHANGED <<setup, phase>> /\ Taking
  BY <1>4, OrderTaking
<1>5. CASE Idle /\ UNCHANGED <<setup, phase>>
  BY <1>5 DEF Idle, OrderInv, PacketOf, Kind, Numbers
<1> QED
  BY <1>1, <1>2, <1>3, <1>4, <1>5, StepEffects DEF RunInv, Typed, Effect

-----------------------------------------------------------------------------
(* What has been handed over, as the channel sees it.                       *)

(* Numbers of outcomes, in their order.                                     *)
LEMMA HandedShape ==
  ASSUME Typed, NEW a
  PROVE  /\ Handed(a) \in Seq(Nat)
         /\ \A k \in 1..Len(Handed(a)) : \E i \in 1..Len(outcomes) : Handed(a)[k] = outcomes[i].number
<1>1. PICK s, I : /\ s = [i \in 1..Len(outcomes) |-> outcomes[i].number]
                  /\ I = {i \in 1..Len(outcomes) : /\ outcomes[i].kind # "dropped"
                                                   /\ PacketOf(outcomes[i].number).dst = a}
  OBVIOUS
<1>2. Handed(a) = Selected(s, I)
  BY <1>1 DEF Handed
<1>3. Len(outcomes) \in Nat /\ \A i \in 1..Len(outcomes) : outcomes[i].number \in Nat
  BY SMTT(30) DEF Typed, IsSequence, Numbers
<1>4. s \in Seq(Nat) /\ Len(s) = Len(outcomes)
  BY <1>1, <1>3
<1>5. PICK q : q = Selected(s, I)
  OBVIOUS
<1>6. q \in Seq(Nat) /\ Picked(q, s, I, Len(s))
  BY <1>4, <1>5, SelectedShape
<1>7. PICK place \in [1..Len(q) -> 1..Len(s)] : \A k \in 1..Len(q) : q[k] = s[place[k]]
  BY <1>6 DEF Picked
<1>8. \A k \in 1..Len(q) : place[k] \in 1..Len(outcomes) /\ q[k] = outcomes[place[k]].number
  BY <1>1, <1>4, <1>7
<1> QED
  BY <1>2, <1>5, <1>6, <1>8

(* Sending hands nothing over.                                              *)
LEMMA HandedStays ==
  ASSUME Typed, UNCHANGED outcomes, \A k \in Numbers : sent'[k] = sent[k], NEW a
  PROVE  Handed(a)' = Handed(a)
<1>1. {i \in 1..Len(outcomes) : outcomes[i].kind # "dropped" /\ sent'[outcomes[i].number].packet.dst = a}
        = {i \in 1..Len(outcomes) : outcomes[i].kind # "dropped" /\ sent[outcomes[i].number].packet.dst = a}
  BY DEF Typed
<1> QED
  BY <1>1 DEF Handed, PacketOf

(* The packet whose last frame is dealt with is handed to its destination,  *)
(* or dropped.                                                              *)
LEMMA HandedTaking ==
  ASSUME Typed, Taking
  PROVE  \/ \A a : Handed(a)' = Handed(a)
         \/ /\ hand[1].last
            /\ \A a : Handed(a)' = IF PacketOf(hand[1].packet).dst = a
                                   THEN Append(Handed(a), hand[1].packet) ELSE Handed(a)
<1>1. /\ UNCHANGED sent
      /\ hand[1].packet \in Nat
      /\ \/ UNCHANGED outcomes
         \/ /\ hand[1].last
            /\ Len(outcomes) \in Nat
            /\ Len(outcomes') = Len(outcomes) + 1
            /\ \A i \in 1..Len(outcomes) : outcomes'[i] = outcomes[i]
            /\ outcomes'[Len(outcomes) + 1].number = hand[1].packet
  BY TakingShape DEF Judged, Numbers
<1>2. CASE UNCHANGED outcomes
  <2>1. \A a : Handed(a)' = Handed(a)
    BY <1>1, <1>2, HandedStays
  <2> QED
    BY <2>1
<1>3. CASE /\ hand[1].last
           /\ Len(outcomes) \in Nat
           /\ Len(outcomes') = Len(outcomes) + 1
           /\ \A i \in 1..Len(outcomes) : outcomes'[i] = outcomes[i]
           /\ outcomes'[Len(outcomes) + 1].number = hand[1].packet
  <2>1. PICK n, p, o, dropped : /\ n = Len(outcomes) /\ p = hand[1].packet
                                /\ o = outcomes'[n + 1]
                                /\ dropped = (o.kind = "dropped")
    OBVIOUS
  <2>2. n \in Nat /\ p \in Nat /\ Len(outcomes') = n + 1 /\ o.number = p
        /\ \A i \in 1..n : outcomes'[i] = outcomes[i]
    BY <1>1, <1>3, <2>1
  <2>3. ASSUME NEW a
        PROVE  Handed(a)' = IF o.kind # "dropped" /\ PacketOf(p).dst = a
                            THEN Append(Handed(a), p) ELSE Handed(a)
    <3>1. PICK s, t, I, J :
            /\ s = [i \in 1..Len(outcomes) |-> outcomes[i].number]
            /\ t = [i \in 1..Len(outcomes') |-> outcomes'[i].number]
            /\ I = {i \in 1..Len(outcomes) : /\ outcomes[i].kind # "dropped"
                                             /\ sent[outcomes[i].number].packet.dst = a}
            /\ J = {i \in 1..Len(outcomes') : /\ outcomes'[i].kind # "dropped"
                                              /\ sent'[outcomes'[i].number].packet.dst = a}
      OBVIOUS
    <3>2. Handed(a) = Selected(s, I) /\ Handed(a)' = Selected(t, J)
      BY <3>1 DEF Handed, PacketOf
    <3>3. \A i \in 1..n : outcomes[i].number \in Nat
      BY <2>1 DEF Typed, Numbers
    <3>4. s \in Seq(Nat) /\ Len(s) = n
      BY <2>1, <2>2, <3>1, <3>3
    <3>5. t = Append(s, p)
      <4>1. Append(s, p) = [i \in 1..(n + 1) |-> IF i = n + 1 THEN p ELSE s[i]]
        BY <2>1, <2>2, <3>1, <3>4
      <4>2. \A i \in 1..(n + 1) : outcomes'[i].number = IF i = n + 1 THEN p ELSE s[i]
        BY <2>1, <2>2, <3>1
      <4>3. t = [i \in 1..(n + 1) |-> outcomes'[i].number]
        BY <2>2, <3>1
      <4> QED
        BY <4>1, <4>2, <4>3
    <3>6. \A i \in 1..Len(s) : i \in I <=> i \in J
      <4>1. \A i \in 1..n : i \in 1..(n + 1)
        BY <2>2
      <4> QED
        BY <1>1, <2>1, <2>2, <3>1, <3>4, <4>1
    <3>7. Selected(Append(s, p), J) = IF Len(s) + 1 \in J THEN Append(Selected(s, I), p)
                                      ELSE Selected(s, I)
      BY <2>2, <3>4, <3>6, SelectedGrows
    <3>8. n + 1 \in J <=> o.kind # "dropped" /\ PacketOf(p).dst = a
      <4>1. n + 1 \in 1..(n + 1)
        BY <2>2
      <4> QED
        BY <1>1, <2>1, <2>2, <3>1, <4>1 DEF PacketOf
    <3> QED
      BY <3>2, <3>4, <3>5, <3>7, <3>8
  <2>4. CASE o.kind = "dropped"
    <3>1. \A a : Handed(a)' = Handed(a)
      BY <2>3, <2>4
    <3> QED
      BY <3>1
  <2>5. CASE o.kind # "dropped"
    <3>1. \A a : Handed(a)' = IF PacketOf(hand[1].packet).dst = a
                              THEN Append(Handed(a), hand[1].packet) ELSE Handed(a)
      BY <2>1, <2>3, <2>5
    <3> QED
      BY <1>3, <3>1
  <2> QED
    BY <2>4, <2>5
<1> QED
  BY <1>1, <1>2, <1>3

(* The channel's variables.                                                 *)
ChannelRoute == [k \in 1..Len(sent) |-> <<PacketOf(k).src, PacketOf(k).dst>>]
ChannelGot == [a \in AllAddresses |-> Handed(a)]

(* Sending adds a route to the channel.                                     *)
LEMMA ChannelSends ==
  ASSUME RunInv, Typed, OrderInv', phase = "run", Sending
  PROVE  /\ \E r \in AllAddresses \X AllAddresses : ChannelRoute' = Append(ChannelRoute, r)
         /\ ChannelGot' = ChannelGot
<1>1. PICK packet :
        \/ \E route, args : SentNow(packet, route, args, TRUE)
        \/ SentNow(packet, None, None, FALSE)
  BY SendingShape
<1>2. PICK n : n = Len(sent)
  OBVIOUS
<1>3. /\ n \in Nat /\ Numbers = 1..n /\ Numbers' = Numbers \cup {n + 1}
      /\ \A k \in 1..n : sent'[k] = sent[k]
  BY <1>1, <1>2, SentGrows DEF Numbers
<1>4. Len(sent') = n + 1
  <2>1. PICK record : sent' = Append(sent, record)
    BY <1>1 DEF SentNow
  <2> QED
    BY <1>2, <2>1, AppendShape DEF Typed
<1>5. PICK r : r = <<sent'[n + 1].packet.src, sent'[n + 1].packet.dst>>
  OBVIOUS
<1>6. r \in AllAddresses \X AllAddresses
  BY <1>3, <1>5 DEF OrderInv, PacketOf
<1>7. PICK old : old = [k \in 1..n |-> <<sent[k].packet.src, sent[k].packet.dst>>]
  OBVIOUS
<1>8. old = ChannelRoute
  BY <1>2, <1>7 DEF ChannelRoute, PacketOf
<1>9. Append(old, r) = [k \in 1..(n + 1) |-> IF k = n + 1 THEN r ELSE old[k]]
  <2>1. Len(old) = n
    BY <1>3, <1>7
  <2> QED
    BY <1>3, <1>7, <2>1
<1>10. ChannelRoute' = [k \in 1..(n + 1) |-> <<sent'[k].packet.src, sent'[k].packet.dst>>]
  BY <1>4 DEF ChannelRoute, PacketOf
<1>11. \A k \in 1..(n + 1) : <<sent'[k].packet.src, sent'[k].packet.dst>> = IF k = n + 1 THEN r ELSE old[k]
  BY <1>3, <1>5, <1>7
<1>12. ChannelRoute' = Append(ChannelRoute, r)
  BY <1>8, <1>9, <1>10, <1>11
<1>13. \A a : Handed(a)' = Handed(a)
  BY <1>3, HandedStays DEF Sending
<1>14. ChannelGot' = ChannelGot
  BY <1>13 DEF ChannelGot
<1> QED
  BY <1>6, <1>12, <1>14

(* Dealing with a frame delivers its packet, the latest of its route, or    *)
(* leaves the channel alone.                                                *)
LEMMA ChannelDelivers ==
  ASSUME Typed, OrderInv, Taking
  PROVE  /\ ChannelRoute' = ChannelRoute
         /\ \/ ChannelGot' = ChannelGot
            \/ \E p \in 1..Len(ChannelRoute) :
                 /\ \A i \in 1..Len(ChannelGot[ChannelRoute[p][2]]) :
                      ChannelRoute[ChannelGot[ChannelRoute[p][2]][i]] = ChannelRoute[p]
                        => ChannelGot[ChannelRoute[p][2]][i] < p
                 /\ ChannelGot' = [ChannelGot EXCEPT ![ChannelRoute[p][2]] = Append(@, p)]
<1>1. UNCHANGED sent /\ Len(hand) \in Nat \ {0} /\ hand[1].packet \in Numbers
  BY TakingShape
<1>2. ChannelRoute' = ChannelRoute
  BY <1>1 DEF ChannelRoute, PacketOf
<1>3. CASE \A a : Handed(a)' = Handed(a)
  BY <1>2, <1>3 DEF ChannelGot
<1>4. CASE /\ hand[1].last
           /\ \A a : Handed(a)' = IF PacketOf(hand[1].packet).dst = a
                                  THEN Append(Handed(a), hand[1].packet) ELSE Handed(a)
  <2>1. PICK p, d, route, got : /\ p = hand[1].packet /\ d = PacketOf(p).dst
                                /\ route = ChannelRoute /\ got = ChannelGot
    OBVIOUS
  <2>2. /\ Len(route) = Len(sent) /\ p \in 1..Len(sent)
        /\ \A k \in 1..Len(sent) : route[k] = <<PacketOf(k).src, PacketOf(k).dst>>
    <3>1. Len(sent) \in Nat
      BY DEF Typed, IsSequence
    <3> QED
      BY <1>1, <2>1, <3>1 DEF ChannelRoute, Numbers
  <2>3. route[p][2] = d /\ d \in AllAddresses /\ got[d] = Handed(d)
    BY <2>1, <2>2 DEF OrderInv, ChannelGot, Numbers
  <2>4. ChannelGot' = [got EXCEPT ![d] = Append(@, p)]
    BY <1>4, <2>1, <2>3 DEF ChannelGot
  <2>5. ASSUME NEW i \in 1..Len(got[d]), route[got[d][i]] = route[p]
        PROVE  got[d][i] < p
    <3>1. PICK j \in 1..Len(outcomes) : got[d][i] = outcomes[j].number
      BY <2>3, HandedShape
    <3>2. outcomes[j].number \in 1..Len(sent)
      BY DEF Typed, Numbers
    <3>3. SameSource(sent, outcomes[j].number, p)
      BY <2>2, <2>5, <3>1, <3>2 DEF SameSource, PacketOf
    <3>4. Settles(outcomes, hand, sent) /\ 1 \in 1..Len(hand)
      BY <1>1 DEF OrderInv
    <3> QED
      BY <1>4, <2>1, <3>1, <3>3, <3>4 DEF Settles
  <2> QED
    BY <1>2, <2>1, <2>2, <2>3, <2>4, <2>5
<1> QED
  BY <1>3, <1>4, HandedTaking

-----------------------------------------------------------------------------
(* The theorems.                                                            *)
RoutingInv == RunInv /\ Typed /\ ResolutionInv /\ Accounted /\ TraceInv /\ ArgumentsInv

(* The inductive invariant of a run.                                        *)
LEMMA RoutingInvHolds == Spec => []RoutingInv
<1>1. Init => RoutingInv
  <2> SUFFICES ASSUME Init PROVE RoutingInv
    OBVIOUS
  <2>1. RunInv
    BY RunInvInit
  <2>2. Blank
    BY DEF Init, TransportInit, Blank
  <2>3. Typed /\ ResolutionInv /\ ArgumentsInv
    BY <2>2, BlankIsTyped, ResolutionBlank, ArgumentsBlank
  <2>4. Accounted /\ TraceInv
    BY <2>2, EmptyShape DEF Blank, Accounted, TraceInv, Numbers
  <2> QED
    BY <2>1, <2>3, <2>4 DEF RoutingInv
<1>2. RoutingInv /\ [Next]_vars => RoutingInv'
  BY RunInvStep, TypedStep, ResolutionStep, AccountedStep, TraceStep, ArgumentsStep
  DEF RoutingInv
<1> QED
  BY <1>1, <1>2, PTL DEF Spec

(* runner.py _route_packet: whatever the setup and the traffic, a packet    *)
(* sent for a command or a signal is never taken for another one.           *)
THEOREM NeverMistaken == Spec => []DeliveredAsSent
<1>1. RoutingInv => DeliveredAsSent
  BY ResolutionDelivers DEF RoutingInv
<1> QED
  BY <1>1, RoutingInvHolds, PTL

(* runner.py _semantic_payloads_by_envelope: a module gets the arguments of *)
(* the step whose packet it is given, and of no other.                      *)
THEOREM ArgumentsArrive == Spec => []ArgumentsAreOwn
<1>1. RoutingInv => ArgumentsAreOwn
  BY DEF RoutingInv, ArgumentsInv
<1> QED
  BY <1>1, RoutingInvHolds, PTL

(* runner.py _drain_transport_frames: every packet is still queued, became  *)
(* something, or left for a place the transport does not read.              *)
THEOREM EveryPacketAccounted == Spec => []NothingLostQuietly
<1>1. RoutingInv => NothingLostQuietly
  BY DEF RoutingInv, Accounted, Somewhere, NothingLostQuietly
<1> QED
  BY <1>1, RoutingInvHolds, PTL

(* tracing.py: the notes of TX and RX lines are what the runner makes of    *)
(* the packets.                                                             *)
THEOREM TraceIsTruthful == Spec => []TraceTellsTheTruth
<1>1. RoutingInv => TraceTellsTheTruth
  BY TraceIsTrue DEF RoutingInv, ResolutionInv
<1> QED
  BY <1>1, RoutingInvHolds, PTL

(* parser.py validate_scenario_references: a step that passed it resolves.  *)
THEOREM StepsResolve == Spec => []ValidatedStepsResolve
<1>1. ValidatedStepsResolve
  BY ValidStepResolves DEF ValidatedStepsResolve
<1> QED
  BY <1>1, PTL

(* registry.py build orders: under their contract the EPS is given the      *)
(* first payload of the setup file, however the file lists the nodes, and   *)
(* whatever plug-ins bring.                                                 *)
THEOREM EpsIsFed ==
  ASSUME PayloadsFirst
  PROVE  Spec => []EpsFindsPayload
<1>1. Init => BuildInv
  <2> SUFFICES ASSUME Init PROVE BuildInv
    OBVIOUS
  <2>1. modules = <<>> /\ registry = BuiltIn /\ phase = "start"
    BY DEF Init, StartupInit
  <2>2. 1..Len(<<>>) = {} /\ IsSequence(<<>>)
    BY EmptyShape DEF IsSequence
  <2> QED
    BY <2>1, <2>2 DEF BuildInv, InBuildOrder, Offered
<1>2. RoutingInv /\ BuildInv /\ [Next]_vars => BuildInv'
  BY BuildInvStep DEF RoutingInv, RunInv
<1>3. RoutingInv /\ BuildInv => EpsFindsPayload
  BY FedRight DEF RoutingInv, RunInv
<1> QED
  BY <1>1, <1>2, <1>3, RoutingInvHolds, PTL DEF Spec

(* in_memory.py, kiss.py: whoever reads an endpoint hears each frame of the *)
(* others at most once, in the order they were sent, and never its own, on  *)
(* every transport and whatever the queues go through.                      *)
THEOREM PeersHearRight == Spec => []PeersHearOnceInOrder
<1>1. Init => HeardInv
  BY DEF Init, StartupInit, HeardInv
<1>2. RoutingInv /\ HeardInv /\ [Next]_vars => HeardInv'
  BY HeardStep DEF RoutingInv
<1>3. RoutingInv /\ HeardInv => PeersHearOnceInOrder
  <2> SUFFICES ASSUME RoutingInv, HeardInv, NEW a \in DOMAIN queues \cap DOMAIN heard
               PROVE  \E frames \in {heard[a] \o queues[a]} :
                        \A j \in 1..Len(frames) :
                          /\ \A i \in 1..(j - 1) : frames[i].seq < frames[j].seq
                          /\ PacketOf(frames[j].packet).src # a
                          /\ Kind = "kiss" => PacketOf(frames[j].packet).dst = a
    BY DEF PeersHearOnceInOrder
  <2>1. phase = "run"
    <3>1. DOMAIN <<>> = {}
      OBVIOUS
    <3> QED
      BY <3>1 DEF HeardInv
  <2>2. Listening(a)
    BY <2>1 DEF HeardInv
  <2>3. PICK h, q, frames : h = heard[a] /\ q = queues[a] /\ frames = h \o q
    OBVIOUS
  <2>4. /\ h \in Seq(Envelope) /\ q \in Seq(Envelope) /\ Ordered(frames, sequence)
        /\ Meant(a, h) /\ Meant(a, q)
    BY <2>2, <2>3 DEF Listening
  <2>5. \A i \in 1..Len(frames) : \/ i \in 1..Len(h) /\ frames[i] = h[i]
                                  \/ i - Len(h) \in 1..Len(q) /\ frames[i] = q[i - Len(h)]
    <3>1. IsSequence(h) /\ IsSequence(q)
      BY <2>4, TypedIsSequence
    <3>2. \A i \in 1..Len(h \o q) :
            \/ i \in 1..Len(h) /\ (h \o q)[i] = h[i]
            \/ i - Len(h) \in 1..Len(q) /\ (h \o q)[i] = q[i - Len(h)]
      BY ONLY <3>1, ConcatShape
    <3> QED
      BY ONLY <2>3, <3>2
  <2>6. Meant(a, frames)
    BY <2>4, <2>5 DEF Meant
  <2> QED
    BY <2>3, <2>4, <2>6 DEF Meant, Ordered
<1> QED
  BY <1>1, <1>2, <1>3, RoutingInvHolds, PTL DEF Spec

(* in_memory.py, socketcan.py, kiss.py under the runner: on every transport *)
(* the bus is the channel that CFP2 promises.  A packet reaches the runner  *)
(* once and, per source and destination, in the order of sending.           *)
THEOREM ChannelKept == Spec => ImplementsChannel
<1>1. Init => HeardInv /\ OrderInv
  <2> SUFFICES ASSUME Init PROVE HeardInv /\ OrderInv
    OBVIOUS
  <2>1. HeardInv
    BY DEF Init, StartupInit, HeardInv
  <2>2. 1..Len(<<>>) = {}
    BY EmptyShape
  <2>3. OrderInv
    BY <2>2 DEF Init, TransportInit, OrderInv, InOrder, Behind, Settles, Numbers
  <2> QED
    BY <2>1, <2>3
<1>2. RoutingInv /\ HeardInv /\ OrderInv /\ [Next]_vars => HeardInv' /\ OrderInv'
  BY HeardStep, OrderStep DEF RoutingInv
<1>3. Init => Channel!Init
  <2> SUFFICES ASSUME Init PROVE Channel!Init
    OBVIOUS
  <2>1. sent = <<>> /\ outcomes = <<>> /\ Len(<<>>) = 0
    BY EmptyShape DEF Init
  <2>2. [k \in 1..Len(sent) |-> <<PacketOf(k).src, PacketOf(k).dst>>] = <<>>
    BY <2>1
  <2>3. ASSUME NEW a
        PROVE  Handed(a) = <<>>
    <3>1. Typed
      BY <2>1, BlankIsTyped DEF Init, TransportInit, Blank
    <3>2. PICK q : q = Handed(a)
      OBVIOUS
    <3>3. q \in Seq(Nat) /\ \A k \in 1..Len(q) : \E i \in 1..Len(outcomes) : q[k] = outcomes[i].number
      BY <3>1, <3>2, HandedShape
    <3>4. 1..Len(outcomes) = {}
      BY <2>1
    <3>5. Len(q) = 0
      BY <3>3, <3>4
    <3> QED
      BY <3>2, <3>3, <3>5
  <2> QED
    BY <2>2, <2>3 DEF Channel!Init
<1>4. RoutingInv /\ OrderInv /\ OrderInv' /\ [Next]_vars => [Channel!Next]_(Channel!vars)
  <2> SUFFICES ASSUME RoutingInv, OrderInv, OrderInv', [Next]_vars
               PROVE  [Channel!Next]_(Channel!vars)
    OBVIOUS
  <2> DEFINE route == [k \in 1..Len(sent) |-> <<PacketOf(k).src, PacketOf(k).dst>>]
             got == [a \in AllAddresses |-> Handed(a)]
  <2>1. /\ route = ChannelRoute /\ route' = ChannelRoute'
        /\ got = ChannelGot /\ got' = ChannelGot'
    BY DEF ChannelRoute, ChannelGot
  <2>2. RunInv /\ Typed
    BY DEF RoutingInv
  <2>3. CASE UNCHANGED <<sent, outcomes>>
    <3>1. route' = route /\ got' = got
      <4>1. \A a : Handed(a)' = Handed(a)
        BY <2>2, <2>3, HandedStays
      <4>2. ChannelRoute' = ChannelRoute /\ ChannelGot' = ChannelGot
        BY <2>3, <4>1 DEF ChannelRoute, ChannelGot, PacketOf
      <4> QED
        BY <2>1, <4>2
    <3> QED
      BY <3>1 DEF Channel!vars
  <2>4. CASE phase = "run" /\ Sending
    <3>1. /\ \E r \in AllAddresses \X AllAddresses : ChannelRoute' = Append(ChannelRoute, r)
          /\ ChannelGot' = ChannelGot
      BY <2>2, <2>4, ChannelSends
    <3>2. (\E r \in AllAddresses \X AllAddresses : route' = Append(route, r)) /\ got' = got
      BY <2>1, <3>1
    <3>3. Channel!Send
      BY <3>2 DEF Channel!Send
    <3> QED
      BY <3>3 DEF Channel!Next
  <2>5. CASE Taking
    <3>1. ChannelRoute' = ChannelRoute
      BY <2>2, <2>5, ChannelDelivers
    <3>2. CASE ChannelGot' = ChannelGot
      <4>1. route' = route /\ got' = got
        BY <2>1, <3>1, <3>2
      <4> QED
        BY <4>1 DEF Channel!vars
    <3>3. ASSUME NEW p \in 1..Len(ChannelRoute),
                 \A i \in 1..Len(ChannelGot[ChannelRoute[p][2]]) :
                   ChannelRoute[ChannelGot[ChannelRoute[p][2]][i]] = ChannelRoute[p]
                     => ChannelGot[ChannelRoute[p][2]][i] < p,
                 ChannelGot' = [ChannelGot EXCEPT ![ChannelRoute[p][2]] = Append(@, p)]
          PROVE  Channel!Deliver
      <4>1. /\ p \in 1..Len(route)
            /\ \A i \in 1..Len(got[route[p][2]]) :
                 route[got[route[p][2]][i]] = route[p] => got[route[p][2]][i] < p
            /\ got' = [got EXCEPT ![route[p][2]] = Append(@, p)]
            /\ route' = route
        <5> HIDE DEF route, got
        <5> QED
          BY <2>1, <3>1, <3>3
      <4> QED
        BY <4>1 DEF Channel!Deliver
    <3> QED
      BY <2>2, <2>5, <3>2, <3>3, ChannelDelivers DEF Channel!Next
  <2>6. CASE Idle \/ Prepare \/ Draining
    <3>1. UNCHANGED <<sent, outcomes>>
      BY <2>6 DEF Idle, Prepare, Draining
    <3> QED
      BY <2>3, <3>1
  <2> QED
    BY <2>2, <2>4, <2>5, <2>6, StepEffects DEF RunInv, Typed, Effect
<1> QED
  BY <1>1, <1>2, <1>3, <1>4, RoutingInvHolds, PTL DEF Spec, ImplementsChannel, Channel!Spec
=============================================================================
