-------------------------- MODULE PacedWaitProofs ---------------------------
(***************************************************************************)
(* Theorems about PacedWait and the KissLink it reads, for any packets, any *)
(* damage and any waits: how far virtual time may lead the wall clock, that *)
(* nothing decoded is left lying, that the link is a packet channel and    *)
(* that damage spreads to one frame at most.                               *)
(*                                                                         *)
(* The first part is about the clock and needs nothing of the decoder.  The *)
(* second follows the bytes: what a frame looks like (Framed), what one byte *)
(* does to the decoder (Outcome), and where on the line the next byte is   *)
(* from (Lies).  LinkInv relates that place to what has been decoded       *)
(* (InTurn) and to what the decoder is doing (Sync).                       *)
(***************************************************************************)
EXTENDS PacedWait, FiniteSetTheorems, WellFoundedInduction, TLAPS

(* Where the next stop and the wall clock are, phase by phase.  Before and *)
(* during a blocking receive the time left covers the way to the stop; after *)
(* it the stop is paid for by the wall clock, or by a read that brought    *)
(* nothing.                                                                *)
ClockInv ==
  /\ now \in Nat /\ stop \in Nat /\ target \in Nat /\ stepAt \in Nat
  /\ wall \in Nat /\ timeout \in Nat /\ partial \in Nat
  /\ now < stepAt /\ stepAt <= now + StepTime
  /\ phase \in {"poll", "block", "jump"} => now <= stop /\ stop <= stepAt
  /\ phase \in {"poll", "block"} => stop <= wall + timeout
  /\ phase = "jump" => stop <= wall + StepTime * partial
  /\ LeadBounded

(* One read more pays for one step more.                                   *)
LEMMA OneMoreRead ==
  ASSUME NEW n \in Nat
  PROVE  /\ StepTime * n \in Nat
         /\ StepTime * (n + 1) = StepTime * n + StepTime
<1>1. StepTime \in Nat
  BY PacedAssumption
<1> QED
  BY <1>1

LEMMA ClockInit == Init => ClockInv
BY PacedAssumption, OneMoreRead DEF Init, ClockInv, LeadBounded

LEMMA ClockStep == ClockInv /\ [Next]_vars => ClockInv'
<1> SUFFICES ASSUME ClockInv, [Next]_vars
             PROVE  ClockInv'
  OBVIOUS
<1>0. /\ StepTime \in Nat /\ StepTime > 0 /\ Delay \subseteq Nat
      /\ StepTime * partial \in Nat
  BY PacedAssumption, OneMoreRead DEF ClockInv
<1>1. CASE Peer \/ LineDamage
  BY <1>1 DEF Peer, LineDamage, clocks, ClockInv, LeadBounded
<1>2. CASE Elapse
  BY <1>0, <1>2 DEF Elapse, Blocking, ClockInv, LeadBounded
<1>3. CASE StartWait
  BY <1>0, <1>3 DEF StartWait, ClockInv, LeadBounded
<1>4. CASE GiveUp \/ Arrived
  BY <1>4 DEF GiveUp, Arrived, clocks, ClockInv, LeadBounded
<1>5. CASE Round
  <2>1. /\ UNCHANGED <<now, stepAt, target, wall, partial>>
        /\ phase' = "poll" /\ now < target
        /\ stop' = Earlier(NextEventTime, target) /\ timeout' = SecondsUntil(stop)'
    BY <1>5 DEF Round, SecondsUntil
  <2>2. NextEventTime \in Nat /\ now <= NextEventTime /\ NextEventTime <= stepAt
    BY DEF NextEventTime, ClockInv
  <2>3. stop' \in Nat /\ now <= stop' /\ stop' <= stepAt
    BY <2>1, <2>2 DEF Earlier, ClockInv
  <2>4. timeout' \in Nat /\ stop' <= wall' + timeout'
    BY <2>1, <2>3 DEF SecondsUntil, ClockInv
  <2> QED
    BY <2>1, <2>3, <2>4 DEF ClockInv, LeadBounded
<1>6. CASE Poll
  <2>1. /\ UNCHANGED clocks /\ UNCHANGED partial /\ phase = "poll"
        /\ \/ phase' = "round" /\ timeout' = 0
           \/ phase' = "block" /\ UNCHANGED timeout
           \/ phase' = "jump" /\ timeout = 0 /\ UNCHANGED timeout
    <3>1. /\ UNCHANGED <<transport, partial, clocks>> /\ phase = "poll"
          /\ \/ phase' = "round" /\ timeout' = 0
             \/ /\ phase' = IF timeout > 0 THEN "block" ELSE "jump"
                /\ UNCHANGED timeout
      BY <1>6, Zenon DEF Poll, Delivered
    <3>2. timeout > 0 \/ timeout = 0
      BY DEF ClockInv
    <3> QED
      BY <3>1, <3>2
  <2>2. /\ UNCHANGED <<now, stop, target, stepAt, wall, partial>>
        /\ timeout' \in Nat /\ now <= stop /\ stop <= stepAt /\ stop <= wall + timeout
    BY <2>1 DEF clocks, ClockInv
  <2>3. phase' = "block" => stop' <= wall' + timeout'
    BY <2>1, <2>2
  <2>4. phase' = "jump" => stop' <= wall' + StepTime * partial'
    <3> SUFFICES ASSUME phase' = "jump"
                 PROVE  stop <= wall + StepTime * partial
      BY <2>2
    <3>1. stop <= wall
      BY <2>1, <2>2 DEF ClockInv
    <3> QED
      BY <1>0, <3>1 DEF ClockInv
  <2>5. phase' # "poll"
    BY <2>1
  <2> QED
    BY <2>2, <2>3, <2>4, <2>5 DEF ClockInv, LeadBounded
<1>7. CASE Read
  <2>1. /\ UNCHANGED clocks /\ timeout' = 0 /\ phase = "block"
        /\ \/ phase' = "round" /\ UNCHANGED partial
           \/ phase' = "jump" /\ partial' = partial + 1
    BY <1>7 DEF Read, Delivered
  <2>2. CASE phase' = "round" /\ UNCHANGED partial
    BY <2>1, <2>2 DEF clocks, ClockInv, LeadBounded
  <2>3. CASE phase' = "jump" /\ partial' = partial + 1
    <3>1. StepTime * partial' = StepTime * partial + StepTime
      BY <2>3, OneMoreRead DEF ClockInv
    <3> QED
      BY <1>0, <2>1, <2>3, <3>1 DEF clocks, ClockInv, LeadBounded
  <2> QED
    BY <2>1, <2>2, <2>3
<1>8. CASE TimeOut
  BY <1>0, <1>8 DEF TimeOut, clocks, ClockInv, LeadBounded
<1>9. CASE Jump
  BY <1>0, <1>9 DEF Jump, ClockInv, LeadBounded
<1>10. CASE Drain
  BY <1>10 DEF Drain, clocks, ClockInv, LeadBounded
<1>11. CASE UNCHANGED vars
  BY <1>11 DEF vars, ClockInv, LeadBounded
<1> QED
  BY <1>1, <1>2, <1>3, <1>4, <1>5, <1>6, <1>7, <1>8, <1>9, <1>10, <1>11 DEF Next

(* runner.py _wait_paced: however the line breaks up the bytes, virtual time *)
(* leads the wall clock by at most a physical step for each read that      *)
(* completed no packet.                                                    *)
THEOREM LeadIsBounded == Spec => []LeadBounded
<1>1. ClockInv => LeadBounded
  BY DEF ClockInv
<1> QED
  BY <1>1, ClockInit, ClockStep, PTL DEF Spec

LEMMA PromptStep == PromptDelivery /\ [Next]_vars => PromptDelivery'
<1> SUFFICES ASSUME PromptDelivery, [Next]_vars
             PROVE  PromptDelivery'
  OBVIOUS
<1>1. CASE Peer \/ LineDamage
  BY <1>1 DEF Peer, LineDamage, PeerSend, Damage, PromptDelivery
<1>2. CASE Elapse \/ StartWait \/ GiveUp \/ Arrived \/ Round \/ TimeOut \/ Jump
  BY <1>2 DEF Elapse, StartWait, GiveUp, Arrived, Round, TimeOut, Jump, linkVars, PromptDelivery
<1>3. CASE Poll
  BY <1>3 DEF Poll, FindNothing, Delivered, PromptDelivery
<1>5. CASE Read
  BY <1>5 DEF Read, FindNothing, Delivered, PromptDelivery
<1>6. CASE Drain
  BY <1>6 DEF Drain, FindNothing, PromptDelivery
<1>4. CASE UNCHANGED vars
  BY <1>4 DEF vars, linkVars, PromptDelivery
<1> QED
  BY <1>1, <1>2, <1>3, <1>4, <1>5, <1>6 DEF Next

(* kiss.py KissAdapter.receive: packets decoded together come out one by one *)
(* before the runner blocks, jumps or is between two waits.                *)
THEOREM PacketsComeOut == Spec => []PromptDelivery
<1>1. Init => PromptDelivery
  BY DEF Init, LinkInit, PromptDelivery
<1> QED
  BY <1>1, PromptStep, PTL DEF Spec

-----------------------------------------------------------------------------
(* Induction over the naturals, about a set: the library's theorem is about *)
(* an operator, which the provers cannot instantiate.                      *)
LEMMA SetInduction ==
  ASSUME NEW S \in SUBSET Nat, 0 \in S, \A n \in S : n + 1 \in S
  PROVE  S = Nat
<1> SUFFICES ASSUME Nat \ S # {} PROVE FALSE
  OBVIOUS
<1>1. PICK x \in Nat \ S : \A y \in Nat \ S : ~(<<y, x>> \in OpToRel(<, Nat))
  BY NatLessThanWellFounded, WFMin
<1>2. x \in Nat /\ x \notin S /\ x # 0
  OBVIOUS
<1>3. x - 1 \in Nat /\ x - 1 < x /\ (x - 1) + 1 = x
  BY <1>2
<1>4. x - 1 \in S
  <2>1. \A y \in Nat : y < x => <<y, x>> \in OpToRel(<, Nat)
    BY <1>2 DEF OpToRel
  <2> QED
    BY <1>1, <1>3, <2>1
<1> QED
  BY <1>2, <1>3, <1>4

(* Recursion over a sequence of steps, given as a function.                *)
Runs(f, T, base, n) == f[0] = base /\ \A i \in 1..n : f[i] = T[<<f[i - 1], i>>]

(* A function follows every finite run of such steps.                      *)
LEMMA Recursion ==
  ASSUME NEW V, NEW base \in V, NEW n \in Nat, NEW T \in [V \X (1..n) -> V]
  PROVE  \E f \in [0..n -> V] : Runs(f, T, base, n)
<1> DEFINE Done == {m \in Nat : m <= n => \E f \in [0..m -> V] : Runs(f, T, base, m)}
<1>1. 0 \in Done
  <2>1. PICK f : f = [i \in 0..0 |-> base]
    OBVIOUS
  <2>2. f \in [0..0 -> V] /\ f[0] = base
    BY <2>1
  <2> QED
    BY <2>2 DEF Runs
<1>2. ASSUME NEW m \in Done
      PROVE  m + 1 \in Done
  <2> SUFFICES ASSUME m + 1 <= n
               PROVE  \E g \in [0..(m + 1) -> V] : Runs(g, T, base, m + 1)
    OBVIOUS
  <2>1. m \in Nat /\ m <= n /\ m + 1 \in 1..n
    OBVIOUS
  <2>2. PICK f \in [0..m -> V] : Runs(f, T, base, m)
    BY <2>1
  <2>3. PICK next : next = T[<<f[m], m + 1>>]
    OBVIOUS
  <2>4. next \in V
    <3>1. f[m] \in V
      BY <2>1
    <3> QED
      BY <2>1, <2>3, <3>1
  <2>5. PICK g : g = [i \in 0..(m + 1) |-> IF i = m + 1 THEN next ELSE f[i]]
    OBVIOUS
  <2>6. g \in [0..(m + 1) -> V] /\ g[m + 1] = next /\ \A i \in 0..m : g[i] = f[i]
    BY <2>1, <2>4, <2>5
  <2>7. g[0] = base
    <3>1. 0 \in 0..m /\ f[0] = base
      BY <2>1, <2>2 DEF Runs
    <3> QED
      BY <2>6, <3>1
  <2>8. ASSUME NEW i \in 1..(m + 1)
        PROVE  g[i] = T[<<g[i - 1], i>>]
    <3>1. CASE i = m + 1
      <4>1. i - 1 = m /\ m \in 0..m
        BY <2>1, <3>1
      <4> QED
        BY <2>3, <2>6, <3>1, <4>1
    <3>2. CASE i # m + 1
      <4>1. i \in 1..m /\ i \in 0..m /\ i - 1 \in 0..m
        BY <2>1, <3>2
      <4> QED
        BY <2>2, <2>6, <4>1 DEF Runs
    <3> QED
      BY <3>1, <3>2
  <2> QED
    BY <2>6, <2>7, <2>8 DEF Runs
<1> HIDE DEF Done
<1>3. Done = Nat
  <2>1. Done \in SUBSET Nat
    BY DEF Done
  <2> QED
    BY <1>1, <1>2, <2>1, SetInduction
<1> QED
  BY <1>3 DEF Done

-----------------------------------------------------------------------------
(* Sequences.                                                              *)

(* A sequence after another keeps both.                                    *)
LEMMA JoinShape ==
  ASSUME NEW S, NEW s \in Seq(S), NEW t \in Seq(S)
  PROVE  /\ s \o t \in Seq(S) /\ Len(s) \in Nat /\ Len(t) \in Nat
         /\ Len(s \o t) = Len(s) + Len(t)
         /\ \A i \in 1..Len(s) : (s \o t)[i] = s[i]
         /\ \A i \in 1..Len(t) : (s \o t)[Len(s) + i] = t[i]
         /\ \A i \in 1..Len(s \o t) : \/ i \in 1..Len(s) /\ (s \o t)[i] = s[i]
                                      \/ i - Len(s) \in 1..Len(t) /\ (s \o t)[i] = t[i - Len(s)]
OBVIOUS

(* What Append does: one element more, the others in place.                *)
LEMMA AppendShape ==
  ASSUME NEW S, NEW s \in Seq(S), NEW x \in S
  PROVE  /\ Append(s, x) \in Seq(S)
         /\ Len(s) \in Nat /\ Len(Append(s, x)) = Len(s) + 1
         /\ \A i \in 1..Len(s) : Append(s, x)[i] = s[i]
         /\ Append(s, x)[Len(s) + 1] = x
OBVIOUS

(* The range of a sequence is what it holds.                               *)
LEMMA RangeIs ==
  ASSUME NEW S, NEW s \in Seq(S)
  PROVE  /\ \A i \in 1..Len(s) : s[i] \in Range(s)
         /\ \A x \in Range(s) : \E i \in 1..Len(s) : x = s[i]
<1>1. DOMAIN s = 1..Len(s)
  OBVIOUS
<1> QED
  BY <1>1 DEF Range

(* Append adds one element to it.                                          *)
LEMMA RangeAppend ==
  ASSUME NEW S, NEW s \in Seq(S), NEW x \in S
  PROVE  Range(Append(s, x)) = Range(s) \cup {x}
<1>1. PICK t : t = Append(s, x)
  OBVIOUS
<1>2. /\ t \in Seq(S) /\ Len(s) \in Nat /\ Len(t) = Len(s) + 1
      /\ \A i \in 1..Len(s) : t[i] = s[i]
      /\ t[Len(s) + 1] = x
  BY <1>1, AppendShape
<1>3. ASSUME NEW y \in Range(t)
      PROVE  y \in Range(s) \cup {x}
  <2>1. PICK i \in 1..Len(t) : y = t[i]
    BY <1>2, RangeIs
  <2>2. i \in 1..Len(s) \/ i = Len(s) + 1
    BY <1>2
  <2> QED
    BY <1>2, <2>1, <2>2, RangeIs
<1>4. ASSUME NEW y \in Range(s)
      PROVE  y \in Range(t)
  <2>1. PICK i \in 1..Len(s) : y = s[i]
    BY RangeIs
  <2>2. i \in 1..Len(t) /\ y = t[i]
    BY <1>2, <2>1
  <2> QED
    BY <1>2, <2>2, RangeIs
<1>5. x \in Range(t)
  <2>1. Len(s) + 1 \in 1..Len(t)
    BY <1>2
  <2> QED
    BY <1>2, <2>1, RangeIs
<1> QED
  BY <1>1, <1>3, <1>4, <1>5

(* FlattenSeq appends one sequence after the other.                        *)
LEMMA FlattenBy ==
  ASSUME NEW S, NEW seqs \in Seq(Seq(S)), NEW n \in Nat, n = Len(seqs), n > 0
  PROVE  \E f : /\ f[1] = seqs[1]
                /\ \A i \in 2..n : f[i] = f[i - 1] \o seqs[i]
                /\ FlattenSeq(seqs) = f[n]
<1>1. PICK T : T = [p \in Seq(S) \X (1..n) |-> p[1] \o seqs[p[2]]]
  OBVIOUS
<1>2. T \in [Seq(S) \X (1..n) -> Seq(S)] /\ \A s \in Seq(S), i \in 1..n : T[<<s, i>>] = s \o seqs[i]
  <2>1. \A s \in Seq(S), i \in 1..n : s \o seqs[i] \in Seq(S)
    BY JoinShape
  <2> QED
    BY <1>1, <2>1
<1>3. PICK f \in [0..n -> Seq(S)] : Runs(f, T, <<>>, n)
  <2>1. <<>> \in Seq(S)
    OBVIOUS
  <2> QED
    BY <1>2, <2>1, Recursion
<1>4. ASSUME NEW i \in 1..n
      PROVE  f[i] = f[i - 1] \o seqs[i]
  <2>1. i - 1 \in 0..n
    OBVIOUS
  <2>2. f[i - 1] \in Seq(S)
    BY <2>1
  <2>3. f[i] = T[<<f[i - 1], i>>]
    BY <1>3 DEF Runs
  <2> QED
    BY <1>2, <2>2, <2>3
<1>5. f[1] = seqs[1]
  <2>1. f[0] = <<>> /\ 1 \in 1..n /\ seqs[1] \in Seq(S)
    BY <1>3 DEF Runs
  <2>3. 1 - 1 = 0
    OBVIOUS
  <2>2. f[1] = <<>> \o seqs[1]
    BY <1>4, <2>1, <2>3
  <2> QED
    BY <2>1, <2>2
<1> DEFINE Step(u) == [i \in 1..n |-> IF i = 1 THEN seqs[i] ELSE u[i - 1] \o seqs[i]]
           flatten == CHOOSE u : u = Step(u)
<1>6. PICK g : g = [i \in 1..n |-> f[i]]
  OBVIOUS
<1>7. g = Step(g)
  <2>1. ASSUME NEW i \in 1..n
        PROVE  g[i] = Step(g)[i]
    <3>1. i = 1 \/ i - 1 \in 1..n
      OBVIOUS
    <3> QED
      BY <1>4, <1>5, <1>6, <3>1
  <2>2. g = [i \in 1..n |-> g[i]]
    BY <1>6
  <2>3. Step(g) = [i \in 1..n |-> Step(g)[i]]
    OBVIOUS
  <2> QED
    BY <2>1, <2>2, <2>3
<1>8. flatten = Step(flatten)
  BY <1>7
<1>9. FlattenSeq(seqs) = flatten[n]
  BY DEF FlattenSeq
<1> HIDE DEF flatten
<1>10. \A i \in 1..n : flatten[i] = IF i = 1 THEN seqs[i] ELSE flatten[i - 1] \o seqs[i]
  BY <1>8
<1>11. flatten[1] = seqs[1] /\ \A i \in 2..n : flatten[i] = flatten[i - 1] \o seqs[i]
  <2>1. 1 \in 1..n
    OBVIOUS
  <2>2. \A i \in 2..n : i \in 1..n /\ i # 1
    OBVIOUS
  <2> QED
    BY <1>10, <2>1, <2>2
<1> QED
  BY <1>9, <1>11

-----------------------------------------------------------------------------
(* The bytes of a frame.                                                   *)

Bytes == [kind : Kind, of : Nat, at : Nat]

(* A byte of the packet that needs no escape, or the first or the second   *)
(* byte of an escape sequence.                                             *)
Stands(b, shape) == shape.kind[b.at] \notin {"fend", "fesc"} /\ b.kind = shape.kind[b.at]
Leads(b, shape) == shape.kind[b.at] \in {"fend", "fesc"} /\ b.kind = "fesc"
Trails(b, shape) ==
  \/ shape.kind[b.at] = "fend" /\ b.kind = "tfend"
  \/ shape.kind[b.at] = "fesc" /\ b.kind = "tfesc"

(* What follows a byte of the same packet: the rest of its escape sequence, *)
(* or the next byte.                                                       *)
Follows(b, c, shape) ==
  IF Leads(b, shape) THEN Trails(c, shape) /\ c.at = b.at
                     ELSE ~Trails(c, shape) /\ c.at = b.at + 1

(* A byte of the first i of packet n, in one of the three ways.            *)
Part(b, n, shape, i) ==
  /\ b.of = n /\ b.at \in 1..i
  /\ Stands(b, shape) \/ Leads(b, shape) \/ Trails(b, shape)

Ascends(b, c, shape) == b.at < c.at \/ (b.at = c.at /\ Leads(b, shape))

(* body encodes the first i bytes of packet n.                             *)
Coded(body, n, shape, i) ==
  /\ body \in Seq(Bytes) /\ Len(body) >= 1
  /\ \A j \in 1..Len(body) : Part(body[j], n, shape, i)
  /\ body[1].at = 1 /\ ~Trails(body[1], shape)
  /\ body[Len(body)].at = i /\ ~Leads(body[Len(body)], shape)
  /\ \A j \in 1..(Len(body) - 1) : Follows(body[j], body[j + 1], shape)
  /\ \A j, k \in 1..Len(body) : j < k => Ascends(body[j], body[k], shape)

(* What a byte of the packet is sent as.                                   *)
Escapes(code, n, shape, i) ==
  /\ code \in Seq(Bytes)
  /\ \A j \in 1..Len(code) : code[j].of = n /\ code[j].at = i
  /\ \/ Len(code) = 1 /\ Stands(code[1], shape)
     \/ Len(code) = 2 /\ Leads(code[1], shape) /\ Trails(code[2], shape)

(* One byte is sent as itself, or as an escape sequence.                   *)
LEMMA EscapedShape ==
  ASSUME NEW n \in Nat, NEW shape \in PacketShape, NEW i \in Nat, i >= 1, i <= Len(shape.kind)
  PROVE  Escapes(Escaped(Byte(shape.kind[i], n, i)), n, shape, i)
<1>0. PICK code : code = Escaped(Byte(shape.kind[i], n, i))
  OBVIOUS
<1>1. PICK b : b = Byte(shape.kind[i], n, i)
  OBVIOUS
<1>2. shape.kind[i] \in Kind
  <2>1. shape.kind \in Seq(Kind) /\ i \in 1..Len(shape.kind)
    BY DEF PacketShape
  <2> QED
    BY <2>1
<1>3. b \in Bytes /\ b.kind = shape.kind[i] /\ b.of = n /\ b.at = i
  BY <1>1, <1>2 DEF Byte, Bytes
<1>4. CASE b.kind = "fend"
  <2>1. PICK c, e : c = [b EXCEPT !.kind = "fesc"] /\ e = [b EXCEPT !.kind = "tfend"]
    OBVIOUS
  <2>2. /\ c \in Bytes /\ c.kind = "fesc" /\ c.of = n /\ c.at = i
        /\ e \in Bytes /\ e.kind = "tfend" /\ e.of = n /\ e.at = i
    BY <1>3, <2>1 DEF Bytes, Kind
  <2>3. code = <<c, e>>
    BY <1>0, <1>1, <1>4, <2>1 DEF Escaped
  <2>4. Leads(c, shape) /\ Trails(e, shape)
    BY <1>3, <1>4, <2>2 DEF Leads, Trails
  <2> QED
    BY <1>0, <2>2, <2>3, <2>4 DEF Escapes
<1>5. CASE b.kind = "fesc"
  <2>1. PICK e : e = [b EXCEPT !.kind = "tfesc"]
    OBVIOUS
  <2>2. e \in Bytes /\ e.kind = "tfesc" /\ e.of = n /\ e.at = i
    BY <1>3, <2>1 DEF Bytes, Kind
  <2>3. code = <<b, e>>
    BY <1>0, <1>1, <1>5, <2>1 DEF Escaped
  <2>4. Leads(b, shape) /\ Trails(e, shape)
    BY <1>3, <1>5, <2>2 DEF Leads, Trails
  <2> QED
    BY <1>0, <1>3, <2>2, <2>3, <2>4 DEF Escapes
<1>6. CASE b.kind \notin {"fend", "fesc"}
  <2>1. code = <<b>>
    BY <1>0, <1>1, <1>6 DEF Escaped
  <2>2. Stands(b, shape)
    BY <1>3, <1>6 DEF Stands
  <2> QED
    BY <1>0, <1>3, <2>1, <2>2 DEF Escapes
<1> QED
  BY <1>4, <1>5, <1>6

(* The code of the first byte encodes one byte of the packet.              *)
LEMMA CodedFirst ==
  ASSUME NEW n \in Nat, NEW shape \in PacketShape, Len(shape.kind) >= 1
  PROVE  Coded(Escaped(Byte(shape.kind[1], n, 1)), n, shape, 1)
<1>1. PICK code : code = Escaped(Byte(shape.kind[1], n, 1))
  OBVIOUS
<1>3. /\ code \in Seq(Bytes)
      /\ \A j \in 1..Len(code) : code[j].of = n /\ code[j].at = 1
      /\ \/ Len(code) = 1 /\ Stands(code[1], shape)
         \/ Len(code) = 2 /\ Leads(code[1], shape) /\ Trails(code[2], shape)
  <2>1. Escapes(Escaped(Byte(shape.kind[1], n, 1)), n, shape, 1)
    BY EscapedShape
  <2> QED
    BY <1>1, <2>1 DEF Escapes
<1>4. CASE Len(code) = 1 /\ Stands(code[1], shape)
  <2>1. ~Trails(code[1], shape) /\ ~Leads(code[1], shape)
    BY <1>4 DEF Leads, Trails, Stands
  <2>2. Part(code[1], n, shape, 1)
    BY <1>3, <1>4 DEF Part
  <2>3. \A j \in 1..Len(code) : j = 1
    BY <1>4
  <2> QED
    BY <1>1, <1>3, <1>4, <2>1, <2>2, <2>3 DEF Coded
<1>5. CASE Len(code) = 2 /\ Leads(code[1], shape) /\ Trails(code[2], shape)
  <2>1. ~Trails(code[1], shape) /\ ~Leads(code[2], shape)
    BY <1>5 DEF Leads, Trails
  <2>2. /\ code[1].of = n /\ code[1].at = 1 /\ code[2].of = n /\ code[2].at = 1
        /\ \A j \in 1..Len(code) : j = 1 \/ j = 2
    BY <1>3, <1>5
  <2>3. Follows(code[1], code[2], shape)
    BY <1>5, <2>2 DEF Follows
  <2>4. Part(code[1], n, shape, 1) /\ Part(code[2], n, shape, 1)
    BY <1>5, <2>2 DEF Part
  <2>5. Ascends(code[1], code[2], shape)
    BY <1>5, <2>2 DEF Ascends
  <2>6. \A j \in 1..(Len(code) - 1) : j = 1 /\ j + 1 = 2
    BY <1>5
  <2>7. \A j, k \in 1..Len(code) : j < k => j = 1 /\ k = 2
    BY <1>5
  <2> QED
    BY <1>1, <1>3, <1>5, <2>1, <2>2, <2>3, <2>4, <2>5, <2>6, <2>7 DEF Coded
<1> QED
  BY <1>3, <1>4, <1>5

(* The code of the next byte encodes one byte more.                        *)
LEMMA CodedStep ==
  ASSUME NEW n \in Nat, NEW shape \in PacketShape, NEW i \in Nat, i >= 1, i + 1 <= Len(shape.kind),
         NEW body, Coded(body, n, shape, i)
  PROVE  Coded(body \o Escaped(Byte(shape.kind[i + 1], n, i + 1)), n, shape, i + 1)
<1>1. PICK code, all, m : code = Escaped(Byte(shape.kind[i + 1], n, i + 1)) /\ all = body \o code
                          /\ m = Len(body)
  OBVIOUS
<1>2. /\ code \in Seq(Bytes)
      /\ \A j \in 1..Len(code) : code[j].of = n /\ code[j].at = i + 1
      /\ \/ Len(code) = 1 /\ Stands(code[1], shape)
         \/ Len(code) = 2 /\ Leads(code[1], shape) /\ Trails(code[2], shape)
  <2>1. Escapes(Escaped(Byte(shape.kind[i + 1], n, i + 1)), n, shape, i + 1)
    <3>1. i + 1 \in Nat /\ i + 1 >= 1
      OBVIOUS
    <3> QED
      BY <3>1, EscapedShape
  <2> QED
    BY <1>1, <2>1 DEF Escapes
<1>3. /\ body \in Seq(Bytes) /\ m \in Nat /\ m >= 1
      /\ \A j \in 1..m : Part(body[j], n, shape, i)
      /\ body[1].at = 1 /\ ~Trails(body[1], shape)
      /\ body[m].at = i /\ ~Leads(body[m], shape)
      /\ \A j \in 1..(m - 1) : Follows(body[j], body[j + 1], shape)
      /\ \A j, k \in 1..m : j < k => Ascends(body[j], body[k], shape)
  BY <1>1 DEF Coded
<1>4. /\ all \in Seq(Bytes) /\ Len(code) \in Nat
      /\ Len(all) = m + Len(code)
      /\ \A j \in 1..m : all[j] = body[j]
      /\ \A j \in 1..Len(code) : all[m + j] = code[j]
      /\ \A j \in 1..Len(all) : \/ j \in 1..m /\ all[j] = body[j]
                                \/ j - m \in 1..Len(code) /\ all[j] = code[j - m]
  BY <1>1, <1>2, <1>3, JoinShape
<1>5. CASE Len(code) = 1 /\ Stands(code[1], shape)
  <2>1. /\ Len(all) = m + 1 /\ all[m + 1] = code[1]
        /\ code[1].of = n /\ code[1].at = i + 1
        /\ ~Leads(code[1], shape) /\ ~Trails(code[1], shape)
    BY <1>2, <1>4, <1>5 DEF Stands, Leads, Trails
  <2>2. \A j \in 1..Len(all) : (j \in 1..m /\ all[j] = body[j]) \/ j = m + 1
    BY <1>3, <1>4, <2>1
  <2>3. \A j \in 1..(Len(all) - 1) : Follows(all[j], all[j + 1], shape)
    <3>1. ASSUME NEW j \in 1..(Len(all) - 1) PROVE Follows(all[j], all[j + 1], shape)
      <4>1. j = m \/ (j \in 1..(m - 1) /\ j \in 1..m /\ j + 1 \in 1..m)
        BY <1>3, <2>1
      <4>2. CASE j = m
        <5>1. all[j] = body[m] /\ all[j + 1] = code[1]
          BY <1>3, <1>4, <2>1, <4>2
        <5> QED
          BY <1>3, <2>1, <5>1 DEF Follows
      <4>3. CASE j \in 1..(m - 1) /\ j \in 1..m /\ j + 1 \in 1..m
        BY <1>3, <1>4, <4>3
      <4> QED
        BY <4>1, <4>2, <4>3
    <3> QED
      BY <3>1
  <2>4. \A j, k \in 1..Len(all) : j < k => Ascends(all[j], all[k], shape)
    <3>1. ASSUME NEW j \in 1..Len(all), NEW k \in 1..Len(all), j < k
          PROVE  Ascends(all[j], all[k], shape)
      <4>1. j \in 1..m /\ all[j] = body[j]
        BY <1>3, <2>1, <2>2, <3>1
      <4>2. CASE k = m + 1
        <5>1. body[j].at \in 1..i /\ all[k].at = i + 1
          BY <1>3, <2>1, <4>1, <4>2 DEF Part
        <5> QED
          BY <4>1, <5>1 DEF Ascends
      <4>3. CASE k \in 1..m /\ all[k] = body[k]
        BY <1>3, <3>1, <4>1, <4>3
      <4> QED
        BY <2>2, <4>2, <4>3
    <3> QED
      BY <3>1
  <2>5. \A j \in 1..Len(all) : Part(all[j], n, shape, i + 1)
    <3>1. ASSUME NEW j \in 1..Len(all) PROVE Part(all[j], n, shape, i + 1)
      <4>1. CASE j \in 1..m /\ all[j] = body[j]
        <5>1. Part(body[j], n, shape, i)
          BY <1>3, <4>1
        <5> QED
          BY <4>1, <5>1 DEF Part
      <4>2. CASE j \notin 1..m
        <5>1. i + 1 \in 1..(i + 1)
          OBVIOUS
        <5> QED
          BY <1>5, <2>1, <2>2, <4>2, <5>1 DEF Part
      <4> QED
        BY <1>3, <2>2, <4>1, <4>2
    <3> QED
      BY <3>1
  <2>6. all[1] = body[1] /\ Len(all) >= 1
    BY ONLY <1>3, <1>4, <2>1
  <2> QED
    BY <1>1, <1>3, <1>4, <2>1, <2>3, <2>4, <2>5, <2>6 DEF Coded
<1>6. CASE Len(code) = 2 /\ Leads(code[1], shape) /\ Trails(code[2], shape)
  <2>1. /\ Len(all) = m + 2 /\ all[m + 1] = code[1] /\ all[m + 2] = code[2]
        /\ code[1].of = n /\ code[1].at = i + 1
        /\ code[2].of = n /\ code[2].at = i + 1
        /\ ~Trails(code[1], shape) /\ ~Leads(code[2], shape)
    BY <1>2, <1>4, <1>6 DEF Stands, Leads, Trails
  <2>7. m \in Nat /\ Len(code) = 2 /\ all[m] = body[m]
    <3>1. m \in Nat /\ m \in 1..m
      BY ONLY <1>3
    <3>2. all[m] = body[m]
      BY ONLY <1>4, <3>1
    <3> QED
      BY <1>6, <3>1, <3>2
  <2>2. \A j \in 1..Len(all) : (j \in 1..m /\ all[j] = body[j]) \/ j = m + 1 \/ j = m + 2
    <3> SUFFICES ASSUME NEW j \in 1..Len(all)
                 PROVE  (j \in 1..m /\ all[j] = body[j]) \/ j = m + 1 \/ j = m + 2
      OBVIOUS
    <3>1. j \in Nat /\ ((j \in 1..m /\ all[j] = body[j]) \/ j - m \in 1..Len(code))
      BY <1>4
    <3> QED
      BY ONLY <2>7, <3>1
  <2>3. \A j \in 1..(Len(all) - 1) : Follows(all[j], all[j + 1], shape)
    <3>1. ASSUME NEW j \in 1..(Len(all) - 1) PROVE Follows(all[j], all[j + 1], shape)
      <4>1. j = m \/ j = m + 1 \/ (j \in 1..(m - 1) /\ j \in 1..m /\ j + 1 \in 1..m)
        BY <1>3, <2>1
      <4>2. CASE j = m
        <5>1. all[j] = body[m] /\ all[j + 1] = code[1]
          BY ONLY <2>1, <2>7, <4>2
        <5> QED
          BY <1>3, <2>1, <5>1 DEF Follows
      <4>3. CASE j \in 1..(m - 1) /\ j \in 1..m /\ j + 1 \in 1..m
        BY <1>3, <1>4, <4>3
      <4>4. CASE j = m + 1
        <5>1. all[j] = code[1] /\ all[j + 1] = code[2]
          BY <1>3, <2>1, <4>4
        <5> QED
          BY <1>6, <2>1, <5>1 DEF Follows
      <4> QED
        BY <4>1, <4>2, <4>3, <4>4
    <3> QED
      BY <3>1
  <2>4. \A j, k \in 1..Len(all) : j < k => Ascends(all[j], all[k], shape)
    <3>1. ASSUME NEW j \in 1..Len(all), NEW k \in 1..Len(all), j < k
          PROVE  Ascends(all[j], all[k], shape)
      <4>1. CASE j \in 1..m /\ all[j] = body[j] /\ k \notin 1..m
        <5>1. all[k].at = i + 1 /\ body[j].at \in 1..i
          BY <1>3, <2>1, <2>2, <4>1 DEF Part
        <5> QED
          BY <4>1, <5>1 DEF Ascends
      <4>2. CASE j \in 1..m /\ all[j] = body[j] /\ k \in 1..m
        BY <1>3, <1>4, <3>1, <4>2
      <4>3. CASE j \notin 1..m
        <5>1. j = m + 1 /\ k = m + 2
          BY <1>3, <2>1, <2>2, <3>1, <4>3
        <5> QED
          BY <1>6, <2>1, <5>1 DEF Ascends
      <4> QED
        BY <1>3, <2>2, <4>1, <4>2, <4>3
    <3> QED
      BY <3>1
  <2>5. \A j \in 1..Len(all) : Part(all[j], n, shape, i + 1)
    <3>1. ASSUME NEW j \in 1..Len(all) PROVE Part(all[j], n, shape, i + 1)
      <4>1. CASE j \in 1..m /\ all[j] = body[j]
        <5>1. Part(body[j], n, shape, i)
          BY <1>3, <4>1
        <5> QED
          BY <4>1, <5>1 DEF Part
      <4>2. CASE j \notin 1..m
        <5>1. i + 1 \in 1..(i + 1)
          OBVIOUS
        <5> QED
          BY <1>6, <2>1, <2>2, <4>2, <5>1 DEF Part
      <4>3. j \in 1..m => all[j] = body[j]
        BY <1>4
      <4> QED
        BY <4>1, <4>2, <4>3
    <3> QED
      BY <3>1
  <2>6. all[1] = body[1] /\ Len(all) >= 1
    BY <1>3, <1>4, <2>1
  <2> QED
    BY <1>1, <1>3, <1>4, <2>1, <2>3, <2>4, <2>5, <2>6 DEF Coded
<1> QED
  BY <1>2, <1>5, <1>6

(* A whole frame: the packet, byte by byte, between delimiter, TNC byte and *)
(* delimiter.                                                              *)
Framed(frame, n, shape) ==
  /\ frame \in Seq(Bytes) /\ Len(frame) >= 4
  /\ frame[1] = Byte("fend", n, 0) /\ frame[2] = Byte("plain", n, 0)
  /\ frame[Len(frame)] = Byte("fend", n, 0)
  /\ \A j \in 3..(Len(frame) - 1) : Part(frame[j], n, shape, Len(shape.kind))
  /\ frame[3].at = 1 /\ ~Trails(frame[3], shape)
  /\ frame[Len(frame) - 1].at = Len(shape.kind) /\ ~Leads(frame[Len(frame) - 1], shape)
  /\ \A j \in 3..(Len(frame) - 2) : Follows(frame[j], frame[j + 1], shape)
  /\ \A j, k \in 3..(Len(frame) - 1) : j < k => Ascends(frame[j], frame[k], shape)

(* The bytes between the delimiters encode the packet from its first byte to its last. *)
LEMMA BodyCoded ==
  ASSUME NEW n \in Nat, NEW shape \in PacketShape, Len(shape.kind) >= 1
  PROVE  Coded(FlattenSeq([i \in DOMAIN PacketBytes(n, shape) |-> Escaped(PacketBytes(n, shape)[i])]),
               n, shape, Len(shape.kind))
<1>1. PICK size, pieces : /\ size = Len(shape.kind)
                          /\ pieces = [i \in 1..size |-> Escaped(Byte(shape.kind[i], n, i))]
  OBVIOUS
<1>2. shape.kind \in Seq(Kind) /\ size \in Nat /\ size >= 1 /\ DOMAIN shape.kind = 1..size
  BY <1>1 DEF PacketShape
<1>3. [i \in DOMAIN PacketBytes(n, shape) |-> Escaped(PacketBytes(n, shape)[i])] = pieces
  BY <1>1, <1>2 DEF PacketBytes
<1>4. pieces \in Seq(Seq(Bytes)) /\ Len(pieces) = size
  <2>1. ASSUME NEW i \in 1..size PROVE pieces[i] \in Seq(Bytes)
    <3>1. i \in Nat /\ i >= 1 /\ i <= Len(shape.kind)
      BY <1>1, <1>2
    <3>2. Escapes(Escaped(Byte(shape.kind[i], n, i)), n, shape, i)
      BY <3>1, EscapedShape
    <3> QED
      BY <1>1, <3>2 DEF Escapes
  <2>2. pieces \in [1..size -> Seq(Bytes)]
    BY <1>1, <2>1
  <2> QED
    BY <1>2, <2>2
<1>5. PICK f : /\ f[1] = pieces[1]
               /\ \A i \in 2..size : f[i] = f[i - 1] \o pieces[i]
               /\ FlattenSeq(pieces) = f[size]
  <2>1. size > 0
    BY <1>2
  <2> QED
    BY <1>2, <1>4, <2>1, FlattenBy
<1> DEFINE Done == {i \in Nat : i + 1 <= size => Coded(f[i + 1], n, shape, i + 1)}
<1>6. 0 \in Done
  <2>1. Coded(Escaped(Byte(shape.kind[1], n, 1)), n, shape, 1)
    BY CodedFirst
  <2>2. f[1] = Escaped(Byte(shape.kind[1], n, 1))
    BY <1>1, <1>2, <1>5
  <2>3. 0 + 1 = 1
    OBVIOUS
  <2> QED
    BY <2>1, <2>2, <2>3
<1>7. ASSUME NEW i \in Done PROVE i + 1 \in Done
  <2> SUFFICES ASSUME (i + 1) + 1 <= size
               PROVE  Coded(f[(i + 1) + 1], n, shape, (i + 1) + 1)
    OBVIOUS
  <2>1. PICK m : m = i + 1
    OBVIOUS
  <2>2. m \in Nat /\ m >= 1 /\ m + 1 <= Len(shape.kind) /\ m + 1 \in 2..size /\ m + 1 \in 1..size
        /\ (m + 1) - 1 = m
    BY <1>1, <1>2, <2>1
  <2>3. Coded(f[m], n, shape, m)
    BY <1>1, <2>1, <2>2
  <2>4. Coded(f[m] \o Escaped(Byte(shape.kind[m + 1], n, m + 1)), n, shape, m + 1)
    BY <2>2, <2>3, CodedStep
  <2>5. f[m + 1] = f[m] \o Escaped(Byte(shape.kind[m + 1], n, m + 1))
    BY <1>1, <1>5, <2>2
  <2> QED
    BY <2>1, <2>4, <2>5
<1> HIDE DEF Done
<1>8. Done = Nat
  <2>1. Done \in SUBSET Nat
    BY DEF Done
  <2> QED
    BY <1>6, <1>7, <2>1, SetInduction
<1>9. Coded(f[size], n, shape, size)
  <2>1. size - 1 \in Done /\ (size - 1) + 1 = size
    BY <1>2, <1>8
  <2> QED
    BY <1>2, <2>1 DEF Done
<1> QED
  BY <1>1, <1>3, <1>5, <1>9

(* encode_kiss_frame: what a frame looks like.                             *)
LEMMA FrameShape ==
  ASSUME NEW n \in Nat, NEW shape \in PacketShape, Len(shape.kind) >= 1
  PROVE  Framed(EncodeKissFrame(n, shape), n, shape)
<1>1. PICK body, frame, size, opening, closing :
        /\ body = FlattenSeq([i \in DOMAIN PacketBytes(n, shape) |-> Escaped(PacketBytes(n, shape)[i])])
        /\ frame = EncodeKissFrame(n, shape)
        /\ size = Len(body)
        /\ opening = <<Byte("fend", n, 0), Byte("plain", n, 0)>>
        /\ closing = <<Byte("fend", n, 0)>>
  OBVIOUS
<1>2. Coded(body, n, shape, Len(shape.kind))
  BY <1>1, BodyCoded
<1>3. frame = (opening \o body) \o closing
  BY <1>1 DEF EncodeKissFrame
<1>4. Byte("fend", n, 0) \in Bytes /\ Byte("plain", n, 0) \in Bytes
  BY DEF Byte, Bytes, Kind
<1>5. /\ opening \in Seq(Bytes) /\ Len(opening) = 2
      /\ opening[1] = Byte("fend", n, 0) /\ opening[2] = Byte("plain", n, 0)
      /\ closing \in Seq(Bytes) /\ Len(closing) = 1 /\ closing[1] = Byte("fend", n, 0)
  BY <1>1, <1>4
<1>6. body \in Seq(Bytes) /\ size \in Nat /\ size >= 1
  BY <1>1, <1>2 DEF Coded
<1>7. PICK front : front = opening \o body
  OBVIOUS
<1>8. /\ front \in Seq(Bytes) /\ Len(front) = 2 + size
      /\ front[1] = opening[1] /\ front[2] = opening[2]
      /\ \A i \in 1..size : front[2 + i] = body[i]
  BY <1>1, <1>5, <1>6, <1>7, JoinShape
<1>9. /\ frame \in Seq(Bytes) /\ Len(frame) = size + 3
      /\ \A i \in 1..(2 + size) : frame[i] = front[i]
      /\ frame[size + 3] = closing[1]
  <2>1. /\ front \o closing \in Seq(Bytes)
        /\ Len(front \o closing) = Len(front) + Len(closing)
        /\ \A i \in 1..Len(front) : (front \o closing)[i] = front[i]
        /\ \A i \in 1..Len(closing) : (front \o closing)[Len(front) + i] = closing[i]
    <3>1. front \in Seq(Bytes) /\ closing \in Seq(Bytes)
      BY <1>5, <1>8
    <3> QED
      BY ONLY <3>1, JoinShape
  <2>2. 1 \in 1..Len(closing) /\ (2 + size) + 1 = size + 3
    BY <1>5, <1>6
  <2> QED
    BY <1>3, <1>5, <1>6, <1>7, <1>8, <2>1, <2>2
<1>10. ASSUME NEW j \in 3..(size + 2)
       PROVE  j - 2 \in 1..size /\ frame[j] = body[j - 2]
  <2>1. j - 2 \in 1..size /\ j \in 1..(2 + size) /\ 2 + (j - 2) = j
    BY <1>6
  <2>2. frame[j] = front[j] /\ front[2 + (j - 2)] = body[j - 2]
    BY <1>8, <1>9, <2>1
  <2> QED
    BY <2>1, <2>2
<1>11. \A j \in 3..(size + 2) : Part(frame[j], n, shape, Len(shape.kind))
  BY <1>1, <1>2, <1>10 DEF Coded
<1>12. frame[3].at = 1 /\ ~Trails(frame[3], shape)
  <2>1. 3 \in 3..(size + 2) /\ 3 - 2 = 1
    BY <1>6
  <2>2. frame[3] = body[1]
    BY <1>10, <2>1
  <2> QED
    BY <1>2, <2>2 DEF Coded
<1>13. frame[size + 2].at = Len(shape.kind) /\ ~Leads(frame[size + 2], shape)
  <2>1. size + 2 \in 3..(size + 2) /\ (size + 2) - 2 = size
    BY <1>6
  <2>2. frame[size + 2] = body[size]
    BY <1>10, <2>1
  <2> QED
    BY <1>1, <1>2, <2>2 DEF Coded
<1>14. ASSUME NEW j \in 3..(size + 1)
       PROVE  Follows(frame[j], frame[j + 1], shape)
  <2>1. j \in 3..(size + 2) /\ j + 1 \in 3..(size + 2) /\ (j + 1) - 2 = (j - 2) + 1 /\ j - 2 \in 1..(size - 1)
    BY <1>6
  <2>2. frame[j] = body[j - 2] /\ frame[j + 1] = body[(j - 2) + 1]
    BY <1>10, <2>1
  <2>3. Follows(body[j - 2], body[(j - 2) + 1], shape)
    BY <1>1, <1>2, <2>1 DEF Coded
  <2> QED
    BY <2>2, <2>3
<1>15. ASSUME NEW j \in 3..(size + 2), NEW k \in 3..(size + 2), j < k
       PROVE  Ascends(frame[j], frame[k], shape)
  <2>1. j - 2 \in 1..size /\ k - 2 \in 1..size /\ j - 2 < k - 2
    BY <1>6, <1>15
  <2>2. frame[j] = body[j - 2] /\ frame[k] = body[k - 2]
    BY <1>10
  <2>3. Ascends(body[j - 2], body[k - 2], shape)
    BY <1>1, <1>2, <2>1 DEF Coded
  <2> QED
    BY <2>2, <2>3
<1>16. /\ Len(frame) - 1 = size + 2 /\ Len(frame) - 2 = size + 1 /\ Len(frame) >= 4
       /\ frame[1] = Byte("fend", n, 0) /\ frame[2] = Byte("plain", n, 0)
       /\ frame[Len(frame)] = Byte("fend", n, 0)
  BY <1>5, <1>6, <1>8, <1>9
<1>17. Framed(frame, n, shape)
  BY <1>9, <1>11, <1>12, <1>13, <1>14, <1>15, <1>16 DEF Framed
<1> QED
  BY <1>1, <1>17

-----------------------------------------------------------------------------
(* The decoder, byte by byte.                                              *)

Events == [reason : {"overflow", "too_short", "crc_error", "malformed", "packet"}, of : Nat]

Decoders == [mode : {"not_started", "started", "escaped"}, first : BOOLEAN,
             buffer : Seq(Bytes), packets : Seq(Nat),
             drops : Seq(Events)]

Full(d) == d.mode # "not_started" /\ Len(d.buffer) >= Limit
Silent(d, e) == e.packets = d.packets /\ e.drops = d.drops

(* What feeding byte b makes of decoder d, case by case.                   *)
DropsFrame(d, b, e) ==
  /\ Full(d)
  /\ e.packets = d.packets
  /\ e.drops = Append(d.drops, Event("overflow", Last(d.buffer).of))
  /\ e.buffer = <<>>
  /\ IF b.kind = "fend" THEN e.mode = "started" /\ e.first
                        ELSE e.mode = "not_started" /\ e.first = d.first

OpensFrame(d, b, e) ==
  /\ d.mode = "not_started" /\ b.kind = "fend"
  /\ Silent(d, e) /\ e.mode = "started" /\ e.first /\ e.buffer = <<>>

ClosesFrame(d, b, e) ==
  /\ ~Full(d) /\ d.mode = "started" /\ b.kind = "fend" /\ d.buffer # <<>>
  /\ e.mode = "not_started" /\ e.first = d.first /\ e.buffer = <<>>
  /\ IF Complete(d.buffer).reason = "packet"
       THEN e.packets = Append(d.packets, Complete(d.buffer).of) /\ e.drops = d.drops
       ELSE e.packets = d.packets /\ e.drops = Append(d.drops, Complete(d.buffer))

Ignores(d, b, e) ==
  /\ e = d
  /\ \/ d.mode = "not_started" /\ b.kind # "fend"
     \/ d.mode = "started" /\ b.kind = "fend" /\ d.buffer = <<>>

MarksEscape(d, b, e) ==
  /\ ~Full(d) /\ d.mode = "started" /\ b.kind = "fesc"
  /\ Silent(d, e) /\ e.mode = "escaped" /\ e.first = d.first /\ e.buffer = d.buffer

SkipsFirst(d, b, e) ==
  /\ ~Full(d) /\ d.mode = "started" /\ b.kind \notin {"fesc", "fend"} /\ d.first
  /\ Silent(d, e) /\ e.mode = "started" /\ ~e.first /\ e.buffer = d.buffer

Collects(d, b, e) ==
  /\ ~Full(d) /\ d.mode = "started" /\ b.kind \notin {"fesc", "fend"} /\ ~d.first
  /\ Silent(d, e) /\ e.mode = "started" /\ ~e.first /\ e.buffer = Append(d.buffer, b)

Unescapes(d, b, e) ==
  /\ ~Full(d) /\ d.mode = "escaped" /\ b.kind \in {"tfesc", "tfend"}
  /\ Silent(d, e) /\ e.mode = "started" /\ e.first = d.first
  /\ e.buffer = Append(d.buffer, [b EXCEPT !.kind = IF b.kind = "tfesc" THEN "fesc" ELSE "fend"])

Swallows(d, b, e) ==
  /\ ~Full(d) /\ d.mode = "escaped" /\ b.kind \notin {"tfesc", "tfend"}
  /\ Silent(d, e) /\ e.mode = "started" /\ e.first = d.first /\ e.buffer = d.buffer

Outcome(d, b, e) ==
  \/ DropsFrame(d, b, e) \/ OpensFrame(d, b, e) \/ ClosesFrame(d, b, e) \/ Ignores(d, b, e)
  \/ MarksEscape(d, b, e) \/ SkipsFirst(d, b, e) \/ Collects(d, b, e)
  \/ Unescapes(d, b, e) \/ Swallows(d, b, e)

(* KissDecoder.feed: one byte has one of these outcomes.                   *)
LEMMA FeedOutcome ==
  ASSUME NEW d \in Decoders, NEW b \in Bytes
  PROVE  Outcome(d, b, FeedByte(d, b))
<1>1. PICK e : e = FeedByte(d, b)
  OBVIOUS
<1>2. CASE Full(d)
  <2>1. PICK r : r = Overflow(d)
    OBVIOUS
  <2>2. r = [Reset(d) EXCEPT !.drops = Append(@, Event("overflow", Last(d.buffer).of))]
    BY <1>2, <2>1 DEF Overflow, Full
  <2>3. /\ r.mode = "not_started" /\ r.first = d.first /\ r.buffer = <<>> /\ r.packets = d.packets
        /\ r.drops = Append(d.drops, Event("overflow", Last(d.buffer).of))
        /\ DOMAIN r = DOMAIN d
    BY <2>2 DEF Reset, Decoders
  <2>4. e = StartFrame(r, b)
    BY <1>1, <2>1, <2>3 DEF FeedByte
  <2>5. DropsFrame(d, b, e)
    <3>1. DOMAIN d = {"mode", "first", "buffer", "packets", "drops"}
      BY DEF Decoders
    <3>2. CASE b.kind = "fend"
      <4>1. e = [r EXCEPT !.mode = "started", !.first = TRUE, !.buffer = <<>>]
        BY <2>4, <3>2 DEF StartFrame
      <4>2. e.mode = "started" /\ e.first /\ e.buffer = <<>> /\ e.packets = r.packets /\ e.drops = r.drops
        BY <2>3, <3>1, <4>1
      <4> QED
        BY <1>2, <2>3, <3>2, <4>2 DEF DropsFrame
    <3>3. CASE b.kind # "fend"
      <4>1. e = r
        BY <2>4, <3>3 DEF StartFrame
      <4> QED
        BY <1>2, <2>3, <3>3, <4>1 DEF DropsFrame
    <3> QED
      BY <3>2, <3>3
  <2> QED
    BY <1>1, <2>5 DEF Outcome
<1>3. CASE ~Full(d)
  <2>1. Overflow(d) = d
    BY <1>3 DEF Overflow, Full
  <2>2. CASE d.mode = "not_started"
    <3>1. e = StartFrame(d, b)
      BY <1>1, <2>1, <2>2 DEF FeedByte
    <3>2. CASE b.kind = "fend"
      <4>1. OpensFrame(d, b, e)
        BY <2>2, <3>1, <3>2 DEF StartFrame, OpensFrame, Silent, Decoders
      <4> QED
        BY <1>1, <4>1 DEF Outcome
    <3>3. CASE b.kind # "fend"
      BY <1>1, <2>2, <3>1, <3>3 DEF StartFrame, Ignores, Outcome
    <3> QED
      BY <3>2, <3>3
  <2>3. CASE d.mode = "started"
    <3>1. e = InFrame(d, b)
      BY <1>1, <2>1, <2>3 DEF FeedByte
    <3>2. CASE b.kind = "fesc"
      <4>1. e = [d EXCEPT !.mode = "escaped"]
        BY <3>1, <3>2 DEF InFrame
      <4>2. MarksEscape(d, b, e)
        BY <1>3, <2>3, <3>2, <4>1 DEF MarksEscape, Silent, Decoders
      <4> QED
        BY <1>1, <4>2 DEF Outcome
    <3>3. CASE b.kind = "fend" /\ d.buffer # <<>>
      <4>1. PICK c, r : c = Complete(d.buffer) /\ r = Reset(d)
        OBVIOUS
      <4>2. e = Returned(r, c)
        BY <3>1, <3>3, <4>1 DEF InFrame
      <4>3. /\ r.mode = "not_started" /\ r.first = d.first /\ r.buffer = <<>>
            /\ r.packets = d.packets /\ r.drops = d.drops
            /\ r = [r EXCEPT !.mode = r.mode]
            /\ DOMAIN r = {"mode", "first", "buffer", "packets", "drops"}
        BY <4>1 DEF Reset, Decoders
      <4>4. CASE c.reason = "packet"
        <5>1. e = [r EXCEPT !.packets = Append(@, c.of)]
          BY <4>2, <4>4 DEF Returned
        <5>2. /\ e.mode = r.mode /\ e.first = r.first /\ e.buffer = r.buffer
              /\ e.packets = Append(r.packets, c.of) /\ e.drops = r.drops
          BY <4>3, <5>1
        <5>3. ClosesFrame(d, b, e)
          BY <1>3, <2>3, <3>3, <4>1, <4>3, <4>4, <5>2 DEF ClosesFrame
        <5> QED
          BY <1>1, <5>3 DEF Outcome
      <4>5. CASE c.reason # "packet"
        <5>1. e = [r EXCEPT !.drops = Append(@, c)]
          BY <4>2, <4>5 DEF Returned
        <5>2. /\ e.mode = r.mode /\ e.first = r.first /\ e.buffer = r.buffer
              /\ e.packets = r.packets /\ e.drops = Append(r.drops, c)
          BY <4>3, <5>1
        <5>3. ClosesFrame(d, b, e)
          BY <1>3, <2>3, <3>3, <4>1, <4>3, <4>5, <5>2 DEF ClosesFrame
        <5> QED
          BY <1>1, <5>3 DEF Outcome
      <4> QED
        BY <4>4, <4>5
    <3>4. CASE b.kind = "fend" /\ d.buffer = <<>>
      BY <1>1, <2>3, <3>1, <3>4 DEF InFrame, Ignores, Outcome
    <3>5. CASE b.kind \notin {"fesc", "fend"} /\ d.first
      <4>1. e = [d EXCEPT !.first = FALSE]
        BY <3>1, <3>5 DEF InFrame
      <4>2. SkipsFirst(d, b, e)
        BY <1>3, <2>3, <3>5, <4>1 DEF SkipsFirst, Silent, Decoders
      <4> QED
        BY <1>1, <4>2 DEF Outcome
    <3>6. CASE b.kind \notin {"fesc", "fend"} /\ ~d.first
      <4>1. e = [d EXCEPT !.buffer = Append(@, b)]
        BY <3>1, <3>6 DEF InFrame
      <4>2. Collects(d, b, e)
        BY <1>3, <2>3, <3>6, <4>1 DEF Collects, Silent, Decoders
      <4> QED
        BY <1>1, <4>2 DEF Outcome
    <3> QED
      BY <3>2, <3>3, <3>4, <3>5, <3>6
  <2>4. CASE d.mode = "escaped"
    <3>1. e = InEscape(d, b)
      BY <1>1, <2>1, <2>4 DEF FeedByte
    <3>2. CASE b.kind \in {"tfesc", "tfend"}
      <4>1. PICK c : c = [b EXCEPT !.kind = IF b.kind = "tfesc" THEN "fesc" ELSE "fend"]
        OBVIOUS
      <4>2. e = [d EXCEPT !.mode = "started", !.buffer = @ \o <<c>>]
        <5>1. CASE b.kind = "tfesc"
          BY <3>1, <4>1, <5>1 DEF InEscape
        <5>2. CASE b.kind = "tfend"
          BY <3>1, <4>1, <5>2 DEF InEscape
        <5> QED
          BY <3>2, <5>1, <5>2
      <4>3. c \in Bytes /\ d.buffer \in Seq(Bytes)
        BY <4>1 DEF Bytes, Kind, Decoders
      <4>4. d.buffer \o <<c>> = Append(d.buffer, c)
        BY <4>3
      <4>5. Unescapes(d, b, e)
        BY <1>3, <2>4, <3>2, <4>1, <4>2, <4>4 DEF Unescapes, Silent, Decoders
      <4> QED
        BY <1>1, <4>5 DEF Outcome
    <3>3. CASE b.kind \notin {"tfesc", "tfend"}
      <4>1. e = [d EXCEPT !.mode = "started", !.buffer = @ \o <<>>]
        BY <3>1, <3>3 DEF InEscape
      <4>2. d.buffer \o <<>> = d.buffer
        BY DEF Decoders
      <4>3. Swallows(d, b, e)
        BY <1>3, <2>4, <3>3, <4>1, <4>2 DEF Swallows, Silent, Decoders
      <4> QED
        BY <1>1, <4>3 DEF Outcome
    <3> QED
      BY <3>2, <3>3
  <2> QED
    BY <2>2, <2>3, <2>4 DEF Decoders
<1> QED
  BY <1>2, <1>3

(* The last byte held.                                                     *)
LEMMA LastByte ==
  ASSUME NEW s \in Seq(Bytes), s # <<>>
  PROVE  Last(s) \in Bytes /\ Last(s) = s[Len(s)] /\ Len(s) \in 1..Len(s) /\ Last(s).of \in Nat
<1>1. Len(s) \in 1..Len(s)
  OBVIOUS
<1>2. Last(s) = s[Len(s)] /\ s[Len(s)] \in Bytes
  BY <1>1 DEF Last
<1>3. \A b \in Bytes : b.of \in Nat
  BY DEF Bytes
<1> QED
  BY <1>1, <1>2, <1>3

(* _complete returns a packet or a dropped frame.                          *)
LEMMA CompleteTyped ==
  ASSUME NEW s \in Seq(Bytes), s # <<>>
  PROVE  Complete(s) \in Events
<1>1. Last(s).of \in Nat
  BY LastByte
<1>2. \A reason \in {"overflow", "too_short", "crc_error", "malformed", "packet"} :
        Event(reason, Last(s).of) \in Events
  BY <1>1 DEF Event, Events
<1> QED
  BY <1>2 DEF Complete

(* A full buffer holds a byte.                                             *)
LEMMA FullBuffer ==
  ASSUME NEW d \in Decoders, Full(d)
  PROVE  d.buffer # <<>>
<1>1. Limit \in Nat /\ Limit > 0
  BY KissAssumption DEF Limit
<1> QED
  BY <1>1 DEF Full, Decoders

(* A byte leaves a decoder.                                                *)
LEMMA FeedTyped ==
  ASSUME NEW d \in Decoders, NEW b \in Bytes
  PROVE  FeedByte(d, b) \in Decoders
<1>1. ASSUME NEW r \in Decoders PROVE Reset(r) \in Decoders
  <2>1. <<>> \in Seq(Bytes)
    OBVIOUS
  <2>2. [r EXCEPT !.mode = "not_started"] \in Decoders
    BY DEF Decoders
  <2> QED
    BY <2>1, <2>2 DEF Reset, Decoders
<1>2. ASSUME NEW r \in Decoders, NEW ev \in Events PROVE [r EXCEPT !.drops = Append(@, ev)] \in Decoders
  <2>1. r.drops \in Seq(Events)
    BY DEF Decoders
  <2>2. Append(r.drops, ev) \in Seq(Events)
    BY <2>1
  <2> QED
    BY <2>2 DEF Decoders
<1>3. ASSUME NEW r \in Decoders, NEW ev \in Events PROVE Returned(r, ev) \in Decoders
  <2>1. ev.of \in Nat /\ r.packets \in Seq(Nat)
    BY DEF Decoders, Events
  <2>2. Append(r.packets, ev.of) \in Seq(Nat)
    BY <2>1
  <2>3. [r EXCEPT !.packets = Append(@, ev.of)] \in Decoders
    BY <2>2 DEF Decoders
  <2> QED
    BY <1>2, <2>3 DEF Returned
<1>4. PICK r : r = Overflow(d)
  OBVIOUS
<1>5. r \in Decoders
  <2>1. CASE Full(d)
    <3>1. d.buffer \in Seq(Bytes) /\ d.buffer # <<>>
      BY <2>1, FullBuffer DEF Decoders
    <3>2. Last(d.buffer).of \in Nat
      BY <3>1, LastByte
    <3>3. Event("overflow", Last(d.buffer).of) \in Events
      BY <3>2 DEF Event, Events
    <3>4. r = [Reset(d) EXCEPT !.drops = Append(@, Event("overflow", Last(d.buffer).of))]
      BY <1>4, <2>1 DEF Overflow, Full
    <3> QED
      BY <1>1, <1>2, <3>3, <3>4
  <2>2. CASE ~Full(d)
    BY <1>4, <2>2 DEF Overflow, Full
  <2> QED
    BY <2>1, <2>2
<1>6. StartFrame(r, b) \in Decoders
  <2>1. [r EXCEPT !.mode = "started", !.first = TRUE, !.buffer = <<>>] \in Decoders
    <3>1. <<>> \in Seq(Bytes)
      OBVIOUS
    <3> QED
      BY <1>5, <3>1 DEF Decoders
  <2> QED
    BY <1>5, <2>1 DEF StartFrame
<1>7. InFrame(r, b) \in Decoders
  <2>1. [r EXCEPT !.mode = "escaped"] \in Decoders /\ [r EXCEPT !.first = FALSE] \in Decoders
    BY <1>5 DEF Decoders
  <2>2. r.buffer \in Seq(Bytes)
    BY <1>5 DEF Decoders
  <2>3. Append(r.buffer, b) \in Seq(Bytes)
    BY <2>2
  <2>4. [r EXCEPT !.buffer = Append(@, b)] \in Decoders
    BY <1>5, <2>3 DEF Decoders
  <2>5. r.buffer # <<>> => Returned(Reset(r), Complete(r.buffer)) \in Decoders
    <3>1. Reset(r) \in Decoders
      BY <1>1, <1>5
    <3>2. r.buffer # <<>> => Complete(r.buffer) \in Events
      BY <2>2, CompleteTyped
    <3> QED
      BY <1>3, <3>1, <3>2
  <2> QED
    BY <1>5, <2>1, <2>4, <2>5 DEF InFrame
<1>8. InEscape(r, b) \in Decoders
  <2>1. r.buffer \in Seq(Bytes)
    BY <1>5 DEF Decoders
  <2>2. [b EXCEPT !.kind = "fesc"] \in Bytes /\ [b EXCEPT !.kind = "fend"] \in Bytes
    BY DEF Bytes, Kind
  <2>3. \A meant \in Seq(Bytes) : [r EXCEPT !.mode = "started", !.buffer = @ \o meant] \in Decoders
    <3>1. ASSUME NEW meant \in Seq(Bytes)
          PROVE  [r EXCEPT !.mode = "started", !.buffer = @ \o meant] \in Decoders
      <4>1. r.buffer \o meant \in Seq(Bytes)
        BY <2>1
      <4> QED
        BY <1>5, <4>1 DEF Decoders
    <3> QED
      BY <3>1
  <2>4. /\ <<[b EXCEPT !.kind = "fesc"]>> \in Seq(Bytes)
        /\ <<[b EXCEPT !.kind = "fend"]>> \in Seq(Bytes)
        /\ <<>> \in Seq(Bytes)
    BY <2>2
  <2> QED
    BY <2>3, <2>4 DEF InEscape
<1> QED
  BY <1>4, <1>5, <1>6, <1>7, <1>8 DEF FeedByte, Decoders

(* csp_v2_kiss.py feed: between frames nothing is held, within one no more *)
(* than the limit.                                                         *)
Bounded(d) ==
  /\ d \in Decoders
  /\ Len(d.buffer) <= Limit
  /\ d.mode = "not_started" => d.buffer = <<>>

(* A byte keeps the buffer within the limit, and empty between frames.     *)
LEMMA FeedBounded ==
  ASSUME NEW d, Bounded(d), NEW b \in Bytes
  PROVE  Bounded(FeedByte(d, b))
<1>1. PICK e : e = FeedByte(d, b)
  OBVIOUS
<1>2. d \in Decoders /\ e \in Decoders /\ Outcome(d, b, e)
  BY <1>1, FeedOutcome, FeedTyped DEF Bounded
<1>3. d.buffer \in Seq(Bytes) /\ Len(d.buffer) \in Nat /\ Limit \in Nat
  BY <1>2, KissAssumption DEF Decoders, Limit
<1>4. Len(<<>>) = 0 /\ \A c \in Bytes : Len(Append(d.buffer, c)) = Len(d.buffer) + 1
  BY <1>3
<1>5. \A kind \in Kind : [b EXCEPT !.kind = kind] \in Bytes
  BY DEF Bytes
<1>6. CASE DropsFrame(d, b, e) \/ OpensFrame(d, b, e) \/ ClosesFrame(d, b, e)
  <2>1. e.buffer = <<>>
    BY <1>6 DEF DropsFrame, OpensFrame, ClosesFrame
  <2> QED
    BY <1>1, <1>2, <1>3, <1>4, <2>1 DEF Bounded
<1>7. CASE Ignores(d, b, e)
  BY <1>1, <1>7 DEF Ignores
<1>8. CASE MarksEscape(d, b, e) \/ SkipsFirst(d, b, e) \/ Swallows(d, b, e)
  <2>1. e.buffer = d.buffer /\ e.mode # "not_started"
    BY <1>8 DEF MarksEscape, SkipsFirst, Swallows
  <2> QED
    BY <1>1, <1>2, <2>1 DEF Bounded
<1>9. CASE Collects(d, b, e) \/ Unescapes(d, b, e)
  <2>1. PICK c \in Bytes : e.buffer = Append(d.buffer, c)
    <3>1. CASE Collects(d, b, e)
      BY <3>1 DEF Collects
    <3>2. CASE Unescapes(d, b, e)
      <4>1. (IF b.kind = "tfesc" THEN "fesc" ELSE "fend") \in Kind
        BY DEF Kind
      <4> QED
        BY <1>5, <3>2, <4>1 DEF Unescapes
    <3> QED
      BY <1>9, <3>1, <3>2
  <2>2. ~Full(d) /\ d.mode # "not_started" /\ e.mode # "not_started"
    BY <1>9 DEF Collects, Unescapes
  <2>3. Len(d.buffer) < Limit
    BY <1>3, <2>2 DEF Full
  <2>4. Len(e.buffer) = Len(d.buffer) + 1
    BY <1>4, <2>1
  <2>5. Len(e.buffer) <= Limit
    BY <1>3, <2>3, <2>4
  <2> QED
    BY <1>1, <1>2, <2>2, <2>5 DEF Bounded
<1> QED
  BY <1>2, <1>6, <1>7, <1>8, <1>9 DEF Outcome

-----------------------------------------------------------------------------
(* Packets come out in order.  The line is followed by place: byte j of the *)
(* frame of packet m is read next.  s is what was sent, h the packets of the *)
(* bytes damaged, q the packets decoded so far.                            *)

Frame(s, n) == EncodeKissFrame(n, s[n])

(* The place after place j of frame m.                                     *)
Moves(s, m, j, m2, j2) ==
  IF j < Len(Frame(s, m)) THEN m2 = m /\ j2 = j + 1 ELSE m2 = m + 1 /\ j2 = 1

(* What is read at a place: the byte that was sent, or one garbled.        *)
Arrives(s, h, m, j, b) ==
  b = Frame(s, m)[j] \/ (b \in Bytes /\ b.of = 0 /\ m \in Range(h))

(* A byte in the buffer is of a packet later than those decoded, and no    *)
(* other byte of it is on the line.                                        *)
Recent(s, b, m, j, q) ==
  b.of # 0 =>
    /\ b.of \in 1..m /\ b.of <= Len(s)
    /\ \A i \in 1..Len(q) : q[i] < b.of
    /\ b.of = m => /\ j > 1
                   /\ b.at > 0 => \A k \in 1..Len(Frame(s, m)) : k >= j => Frame(s, m)[k].at # b.at

InTurn(s, d, m, j, q) ==
  /\ q \in Seq(Nat)
  /\ \A i \in 1..Len(q) : q[i] >= 1 /\ q[i] < m
  /\ \A i, k \in 1..Len(q) : i < k => q[i] < q[k]
  /\ \A x \in 1..Len(d.buffer) : Recent(s, d.buffer[x], m, j, q)

(* q grows as p does.                                                      *)
GrowsWith(q, q2, p, p2) == (p2 = p => q2 = q) /\ \A x : p2 = Append(p, x) => q2 = Append(q, x)

(* The frame of a packet that was sent.                                    *)
LEMMA SentFramed ==
  ASSUME NEW s \in Seq(Shape), NEW m \in 1..Len(s)
  PROVE  /\ Framed(Frame(s, m), m, s[m])
         /\ m \in Nat /\ s[m] \in Shape /\ s[m] \in PacketShape
         /\ Len(s[m].kind) \in Nat /\ Len(s[m].kind) >= HeaderBytes + CrcBytes
         /\ Len(s[m].kind) >= 2 /\ Len(Frame(s, m)) \in Nat /\ Len(Frame(s, m)) >= 4
<1>1. m \in Nat /\ s[m] \in Shape
  OBVIOUS
<1>2. /\ s[m] \in PacketShape /\ Len(s[m].kind) >= HeaderBytes + CrcBytes
      /\ HeaderBytes \in Nat \ {0} /\ CrcBytes \in Nat \ {0}
  BY <1>1, KissAssumption
<1>3. Len(s[m].kind) \in Nat /\ Len(s[m].kind) >= 2
  BY <1>2 DEF PacketShape
<1>4. Framed(EncodeKissFrame(m, s[m]), m, s[m])
  BY <1>1, <1>2, <1>3, FrameShape
<1> QED
  BY <1>1, <1>2, <1>3, <1>4 DEF Frame, Framed

(* Every byte of a frame is one of its packet; the last byte of the packet *)
(* is followed by the delimiter only.                                      *)
LEMMA FrameBytes ==
  ASSUME NEW s \in Seq(Shape), NEW m \in 1..Len(s), NEW j \in 1..Len(Frame(s, m))
  PROVE  /\ Frame(s, m)[j] \in Bytes /\ Frame(s, m)[j].of = m /\ Frame(s, m)[j].at \in Nat
         /\ Frame(s, m)[j].kind # "fesc" /\ Frame(s, m)[j].at > 0 =>
              \A k \in 1..Len(Frame(s, m)) : k > j => Frame(s, m)[k].at # Frame(s, m)[j].at
<1>1. PICK frame, shape : frame = Frame(s, m) /\ shape = s[m]
  OBVIOUS
<1>2. Framed(frame, m, shape) /\ m \in Nat /\ Len(frame) \in Nat /\ Len(frame) >= 4
  BY <1>1, SentFramed
<1>3. frame \in Seq(Bytes) /\ frame[j] \in Bytes
  BY <1>1, <1>2 DEF Framed
<1>4. j = 1 \/ j = 2 \/ j = Len(frame) \/ j \in 3..(Len(frame) - 1)
  BY <1>1, <1>2
<1>5. \A k : Byte(k, m, 0).of = m /\ Byte(k, m, 0).at = 0
  BY DEF Byte
<1>6. CASE j \notin 3..(Len(frame) - 1)
  <2>1. frame[j].of = m /\ frame[j].at = 0
    BY <1>2, <1>4, <1>5, <1>6 DEF Framed
  <2> QED
    BY <1>1, <1>3, <2>1
<1>7. CASE j \in 3..(Len(frame) - 1)
  <2>1. Part(frame[j], m, shape, Len(shape.kind))
    BY <1>2, <1>7 DEF Framed
  <2>2. frame[j].of = m /\ frame[j].at \in Nat
    BY <2>1 DEF Part
  <2>3. ASSUME NEW k \in 1..Len(frame), k > j, frame[j].kind # "fesc", frame[j].at > 0
        PROVE  frame[k].at # frame[j].at
    <3>1. k = Len(frame) \/ k \in 3..(Len(frame) - 1)
      BY <1>2, <1>7, <2>3
    <3>2. CASE k = Len(frame)
      BY <1>2, <1>5, <2>3, <3>2 DEF Framed
    <3>3. CASE k \in 3..(Len(frame) - 1)
      <4>1. Ascends(frame[j], frame[k], shape)
        BY <1>2, <1>7, <2>3, <3>3 DEF Framed
      <4>2. frame[j].at < frame[k].at
        BY <2>3, <4>1 DEF Ascends, Leads
      <4> QED
        BY <2>2, <4>2
    <3> QED
      BY <3>1, <3>2, <3>3
  <2> QED
    BY <1>1, <1>3, <2>2, <2>3
<1> QED
  BY <1>6, <1>7

(* A packet with the right CRC ends as the one that was sent.              *)
LEMMA SameTrailer ==
  ASSUME NEW p \in Seq(Bytes), Len(p) >= HeaderBytes + CrcBytes,
         NEW n \in Nat, NEW shape \in PacketShape, Len(shape.kind) >= HeaderBytes + CrcBytes,
         Trailer(p) = Trailer(PacketBytes(n, shape))
  PROVE  p[Len(p)].of = n /\ p[Len(p)].at = Len(shape.kind)
<1>1. PICK size, t : size = Len(shape.kind) /\ t = PacketBytes(n, shape)
  OBVIOUS
<1>2. HeaderBytes \in Nat \ {0} /\ CrcBytes \in Nat \ {0} /\ Len(p) \in Nat
  BY KissAssumption
<1>3. shape.kind \in Seq(Kind) /\ size \in Nat /\ DOMAIN shape.kind = 1..size
  BY <1>1 DEF PacketShape
<1>4. t = [i \in 1..size |-> Byte(shape.kind[i], n, i)]
  BY <1>1, <1>3 DEF PacketBytes
<1>5. t \in Seq(Bytes) /\ Len(t) = size
  <2>1. \A i \in 1..size : shape.kind[i] \in Kind
    BY <1>1, <1>3
  <2>2. \A i \in 1..size : Byte(shape.kind[i], n, i) \in Bytes
    BY <2>1, <1>3 DEF Byte, Bytes
  <2>3. t \in [1..size -> Bytes]
    BY <1>4, <2>2
  <2> QED
    BY <1>3, <2>3
<1>6. ASSUME NEW u \in Seq(Bytes), Len(u) >= CrcBytes
      PROVE  Trailer(u)[CrcBytes] = u[Len(u)]
  <2>1. Len(u) - CrcBytes + 1 \in 1..Len(u) /\ Len(u) \in Nat /\ Len(u) - (Len(u) - CrcBytes + 1) + 1 = CrcBytes
    BY <1>2, <1>6
  <2>2. SubSeq(u, Len(u) - CrcBytes + 1, Len(u))
          = [i \in 1..(Len(u) - (Len(u) - CrcBytes + 1) + 1) |-> u[i + (Len(u) - CrcBytes + 1) - 1]]
    BY <2>1
  <2>3. CrcBytes \in 1..(Len(u) - (Len(u) - CrcBytes + 1) + 1)
    BY <1>2, <2>1
  <2>4. CrcBytes + (Len(u) - CrcBytes + 1) - 1 = Len(u)
    BY <1>2, <2>1
  <2> QED
    BY <2>2, <2>3, <2>4 DEF Trailer
<1>7. p[Len(p)] = t[size]
  <2>1. Len(p) >= CrcBytes /\ size >= CrcBytes
    BY <1>1, <1>2, <1>3
  <2>2. Trailer(p)[CrcBytes] = p[Len(p)] /\ Trailer(t)[CrcBytes] = t[size]
    BY <1>5, <1>6, <2>1
  <2> QED
    BY <1>1, <2>2
<1>8. t[size] = Byte(shape.kind[size], n, size)
  <2>1. size \in 1..size
    BY <1>1, <1>2, <1>3
  <2> QED
    BY <1>4, <2>1
<1> QED
  BY <1>1, <1>7, <1>8 DEF Byte

(* What is known of a byte remains true as the line moves on.              *)
LEMMA RecentMoves ==
  ASSUME NEW s \in Seq(Shape), NEW m \in 1..Len(s), NEW j \in 1..Len(Frame(s, m)),
         NEW m2, NEW j2, Moves(s, m, j, m2, j2),
         NEW b \in Bytes, NEW q, Recent(s, b, m, j, q)
  PROVE  Recent(s, b, m2, j2, q)
<1>1. m \in Nat /\ j \in Nat /\ b.of \in Nat /\ Len(Frame(s, m)) \in Nat
  BY SentFramed DEF Bytes
<1>2. CASE j < Len(Frame(s, m))
  <2>1. m2 = m /\ j2 = j + 1
    BY <1>2 DEF Moves
  <2> QED
    BY <1>1, <2>1 DEF Recent
<1>3. CASE ~(j < Len(Frame(s, m)))
  <2>1. m2 = m + 1 /\ j2 = 1
    BY <1>3 DEF Moves
  <2> QED
    BY <1>1, <2>1 DEF Recent
<1> QED
  BY <1>2, <1>3

(* A byte just read is recent, unless it opens an escape sequence.         *)
LEMMA RecentArrives ==
  ASSUME NEW s \in Seq(Shape), NEW m \in 1..Len(s), NEW j \in 1..Len(Frame(s, m)),
         NEW m2, NEW j2, Moves(s, m, j, m2, j2),
         NEW h, NEW b, Arrives(s, h, m, j, b), b.kind # "fesc",
         NEW c, c.of = b.of, c.at = b.at,
         NEW q, \A i \in 1..Len(q) : q[i] >= 1 /\ q[i] < m
  PROVE  Recent(s, c, m2, j2, q)
<1> SUFFICES ASSUME c.of # 0 PROVE Recent(s, c, m2, j2, q)
  BY DEF Recent
<1>1. b = Frame(s, m)[j]
  BY DEF Arrives
<1>2. /\ c.of = m /\ c.at \in Nat
      /\ c.at > 0 => \A k \in 1..Len(Frame(s, m)) : k > j => Frame(s, m)[k].at # c.at
  BY <1>1, FrameBytes
<1>3. m \in Nat /\ j \in Nat /\ m >= 1 /\ m <= Len(s) /\ Len(s) \in Nat /\ Len(Frame(s, m)) \in Nat
  BY SentFramed
<1>4. CASE j < Len(Frame(s, m))
  <2>1. m2 = m /\ j2 = j + 1
    BY <1>4 DEF Moves
  <2> QED
    BY <1>2, <1>3, <2>1 DEF Recent
<1>5. CASE ~(j < Len(Frame(s, m)))
  <2>1. m2 = m + 1 /\ j2 = 1
    BY <1>5 DEF Moves
  <2> QED
    BY <1>2, <1>3, <2>1 DEF Recent
<1> QED
  BY <1>4, <1>5

(* The next place is in the same frame, or the first of the next one.      *)
LEMMA MovesOn ==
  ASSUME NEW s \in Seq(Shape), NEW m \in 1..Len(s), NEW j \in 1..Len(Frame(s, m)),
         NEW m2, NEW j2, Moves(s, m, j, m2, j2)
  PROVE  /\ m2 \in Nat /\ m2 >= m /\ m2 <= m + 1 /\ j2 \in Nat /\ j2 >= 1
         /\ m2 = m => j2 = j + 1 /\ j2 <= Len(Frame(s, m))
         /\ m2 # m => m2 = m + 1 /\ j2 = 1 /\ j = Len(Frame(s, m))
BY SentFramed DEF Moves

(* One byte more: what is decoded stays in turn.                           *)
LEMMA InTurnStep ==
  ASSUME sent \in Seq(Shape), NEW m \in 1..Len(sent), NEW j \in 1..Len(Frame(sent, m)),
         NEW m2, NEW j2, Moves(sent, m, j, m2, j2),
         NEW h, NEW b \in Bytes, Arrives(sent, h, m, j, b),
         NEW d \in Decoders, NEW e \in Decoders, Outcome(d, b, e),
         NEW q, NEW q2, GrowsWith(q, q2, d.packets, e.packets),
         InTurn(sent, d, m, j, q)
  PROVE  InTurn(sent, e, m2, j2, q2)
<1>1. /\ m \in Nat /\ m >= 1 /\ m <= Len(sent) /\ Len(sent) \in Nat
      /\ m2 \in Nat /\ m2 >= m /\ m2 <= m + 1 /\ j2 \in Nat
      /\ m2 # m => m2 = m + 1 /\ j = Len(Frame(sent, m))
  BY MovesOn, SentFramed
<1>2. d.buffer \in Seq(Bytes) /\ e.buffer \in Seq(Bytes)
  BY DEF Decoders
<1>3. /\ q \in Seq(Nat) /\ \A i \in 1..Len(q) : q[i] >= 1 /\ q[i] < m
      /\ \A i, k \in 1..Len(q) : i < k => q[i] < q[k]
      /\ \A x \in 1..Len(d.buffer) : Recent(sent, d.buffer[x], m, j, q)
  BY DEF InTurn
<1>4. ASSUME NEW x \in 1..Len(d.buffer)
      PROVE  Recent(sent, d.buffer[x], m2, j2, q)
  <2>1. d.buffer[x] \in Bytes /\ Recent(sent, d.buffer[x], m, j, q)
    BY <1>2, <1>3
  <2> QED
    BY <2>1, RecentMoves
<1>5. \A i \in 1..Len(q) : q[i] >= 1 /\ q[i] < m2
  <2>1. \A i \in 1..Len(q) : q[i] \in Nat
    BY <1>3
  <2> QED
    BY <1>1, <1>3, <2>1
<1>6. CASE e.packets = d.packets /\ e.buffer \in {<<>>, d.buffer}
  <2>1. q2 = q
    BY <1>6 DEF GrowsWith
  <2>2. \A x \in 1..Len(e.buffer) : Recent(sent, e.buffer[x], m2, j2, q)
    <3>1. Len(<<>>) = 0
      OBVIOUS
    <3> QED
      BY <1>4, <1>6, <3>1
  <2> QED
    BY <1>3, <1>5, <2>1, <2>2 DEF InTurn
<1>7. ASSUME NEW c \in Bytes, c.of = b.of, c.at = b.at, b.kind # "fesc",
             e.packets = d.packets, e.buffer = Append(d.buffer, c)
      PROVE  InTurn(sent, e, m2, j2, q2)
  <2>1. q2 = q
    BY <1>7 DEF GrowsWith
  <2>2. Recent(sent, c, m2, j2, q)
    BY <1>3, <1>7, RecentArrives
  <2>3. /\ Len(e.buffer) = Len(d.buffer) + 1 /\ Len(d.buffer) \in Nat
        /\ \A x \in 1..Len(d.buffer) : e.buffer[x] = d.buffer[x]
        /\ e.buffer[Len(d.buffer) + 1] = c
    BY <1>2, <1>7, AppendShape
  <2>4. ASSUME NEW x \in 1..Len(e.buffer) PROVE Recent(sent, e.buffer[x], m2, j2, q)
    <3>1. x \in 1..Len(d.buffer) \/ x = Len(d.buffer) + 1
      BY <2>3
    <3> QED
      BY <1>4, <2>2, <2>3, <3>1
  <2> QED
    BY <1>3, <1>5, <2>1, <2>4 DEF InTurn
<1>8. CASE DropsFrame(d, b, e) \/ OpensFrame(d, b, e) \/ Ignores(d, b, e) \/ MarksEscape(d, b, e)
           \/ SkipsFirst(d, b, e) \/ Swallows(d, b, e)
  <2>1. e.packets = d.packets /\ e.buffer \in {<<>>, d.buffer}
    BY <1>8 DEF DropsFrame, OpensFrame, Ignores, MarksEscape, SkipsFirst, Swallows, Silent
  <2> QED
    BY <1>6, <2>1
<1>9. CASE Collects(d, b, e)
  <2>1. b.kind # "fesc" /\ e.packets = d.packets /\ e.buffer = Append(d.buffer, b)
    BY <1>9 DEF Collects, Silent
  <2> QED
    BY <1>7, <2>1
<1>10. CASE Unescapes(d, b, e)
  <2>1. PICK c : c = [b EXCEPT !.kind = IF b.kind = "tfesc" THEN "fesc" ELSE "fend"]
    OBVIOUS
  <2>2. c \in Bytes /\ c.of = b.of /\ c.at = b.at
    BY <2>1 DEF Bytes, Kind
  <2>3. b.kind # "fesc" /\ e.packets = d.packets /\ e.buffer = Append(d.buffer, c)
    BY <1>10, <2>1 DEF Unescapes, Silent
  <2> QED
    BY <1>7, <2>2, <2>3
<1>11. CASE ClosesFrame(d, b, e)
  <2>1. PICK p, c : p = d.buffer /\ c = Complete(p)
    OBVIOUS
  <2>2. p \in Seq(Bytes) /\ p # <<>> /\ e.buffer = <<>>
    BY <1>2, <1>11, <2>1 DEF ClosesFrame
  <2>3. CASE c.reason # "packet"
    <3>1. e.packets = d.packets
      BY <1>11, <2>1, <2>3 DEF ClosesFrame
    <3> QED
      BY <1>6, <2>2, <3>1
  <2>4. CASE c.reason = "packet"
    <3>1. PICK n : n = Last(p).of
      OBVIOUS
    <3>2. /\ Len(p) >= HeaderBytes + CrcBytes /\ n # 0 /\ CrcOf(n, p) /\ c.of = n
      <4>1. HeaderBytes \in Nat /\ CrcBytes \in Nat /\ Len(p) \in Nat
        BY <2>2, KissAssumption
      <4>2. ~(Len(p) < HeaderBytes + CrcBytes)
        BY <2>1, <2>4 DEF Complete, Event
      <4>3. ~(n = 0 \/ ~CrcOf(n, p))
        BY <2>1, <2>4, <3>1, <4>2 DEF Complete, Event
      <4>4. c.of = n
        BY <2>1, <2>4, <3>1 DEF Complete, Event
      <4> QED
        BY <4>1, <4>2, <4>3, <4>4
    <3>3. Last(p) = p[Len(p)] /\ Len(p) \in 1..Len(p) /\ n \in Nat
      BY <2>2, <3>1, LastByte
    <3>4. Recent(sent, p[Len(p)], m, j, q)
      BY <1>3, <2>1, <3>3
    <3>5. n \in 1..m /\ n <= Len(sent) /\ \A i \in 1..Len(q) : q[i] < n
      BY <3>1, <3>2, <3>3, <3>4 DEF Recent
    <3>6. /\ sent[n] \in PacketShape /\ Len(sent[n].kind) >= HeaderBytes + CrcBytes
          /\ Len(sent[n].kind) \in Nat /\ Len(sent[n].kind) >= 2
      <4>1. n \in 1..Len(sent)
        BY <1>1, <3>5
      <4> QED
        BY <4>1, SentFramed
    <3>7. p[Len(p)].at = Len(sent[n].kind)
      <4>1. Trailer(p) = Trailer(PacketBytes(n, sent[n]))
        BY <3>2 DEF CrcOf
      <4> QED
        BY <2>2, <3>2, <3>3, <3>6, <4>1, SameTrailer
    <3>8. n < m2
      <4>1. CASE n # m
        BY <1>1, <3>5, <4>1
      <4>2. CASE n = m
        <5>1. PICK frame : frame = Frame(sent, m)
          OBVIOUS
        <5>2. \A k \in 1..Len(frame) : k >= j => frame[k].at # p[Len(p)].at
          BY <3>1, <3>2, <3>3, <3>4, <3>6, <3>7, <4>2, <5>1 DEF Recent
        <5>3. Framed(frame, m, sent[m]) /\ Len(frame) \in Nat /\ Len(frame) >= 4
          BY <5>1, SentFramed
        <5>4. frame[Len(frame) - 1].at = Len(sent[m].kind)
          BY <5>3 DEF Framed
        <5>5. Len(frame) - 1 \in 1..Len(frame)
          BY <5>3
        <5>6. ~(Len(frame) - 1 >= j)
          BY <3>7, <4>2, <5>2, <5>4, <5>5
        <5>7. ~(j < Len(frame))
          BY <5>1, <5>3, <5>6
        <5>8. m2 = m + 1
          BY <5>1, <5>7 DEF Moves
        <5> QED
          BY <1>1, <4>2, <5>8
      <4> QED
        BY <4>1, <4>2
    <3>9. q2 = Append(q, n)
      <4>1. e.packets = Append(d.packets, n)
        BY <1>11, <2>1, <2>4, <3>2 DEF ClosesFrame
      <4> QED
        BY <4>1 DEF GrowsWith
    <3>10. /\ q2 \in Seq(Nat) /\ Len(q2) = Len(q) + 1 /\ Len(q) \in Nat
           /\ \A i \in 1..Len(q) : q2[i] = q[i]
           /\ q2[Len(q) + 1] = n
      BY <1>3, <3>3, <3>9, AppendShape
    <3>11. \A i \in 1..Len(q2) : (i \in 1..Len(q) /\ q2[i] = q[i]) \/ (i = Len(q) + 1 /\ q2[i] = n)
      BY <3>10
    <3>12. \A i \in 1..Len(q2) : q2[i] >= 1 /\ q2[i] < m2
      BY <1>5, <3>5, <3>8, <3>11
    <3>13. ASSUME NEW i \in 1..Len(q2), NEW k \in 1..Len(q2), i < k
           PROVE  q2[i] < q2[k]
      <4>1. i \in 1..Len(q) /\ q2[i] = q[i]
        BY <3>10, <3>11, <3>13
      <4> QED
        BY <1>3, <3>5, <3>11, <3>13, <4>1
    <3>14. Len(e.buffer) = 0
      BY <2>2
    <3> QED
      BY <3>10, <3>12, <3>13, <3>14 DEF InTurn
  <2> QED
    BY <2>3, <2>4
<1> QED
  BY <1>8, <1>9, <1>10, <1>11 DEF Outcome

-----------------------------------------------------------------------------
(* Damage is contained: what the decoder is doing within a frame that      *)
(* arrives as it was sent.                                                 *)

(* Before place j of frame m, the packet has been read up to Count bytes.  *)
Count(s, m, j) == IF j < Len(Frame(s, m)) THEN Frame(s, m)[j].at - 1 ELSE Len(s[m].kind)
ModeAt(s, m, j) ==
  IF j < Len(Frame(s, m)) /\ Trails(Frame(s, m)[j], s[m]) THEN "escaped" ELSE "started"

(* Between two frames the decoder has just left one, or taken the delimiter *)
(* that closed it for one that opens.                                      *)
Clear(d) == d.mode = "not_started" \/ (d.mode = "started" /\ d.first /\ d.buffer = <<>>)

(* Whatever the decoder held when frame m began: it ignores the frame, or  *)
(* appends it to what it held.                                             *)
Tracked(s, d, m, j) ==
  IF j = 2 THEN d.mode # "escaped"
  ELSE \/ d.mode = "not_started"
       \/ ~d.first /\ d.mode = ModeAt(s, m, j) /\ (Count(s, m, j) >= 1 => d.buffer # <<>>)

(* The decoder was clear when frame m began: it holds what it has read of  *)
(* the packet, or has reported that the packet is too long.                *)
Reported(n, q) == \E i \in 1..Len(q) : q[i] = Event("overflow", n)
Aligned(s, d, m, j, q) ==
  IF j = 2 THEN d.mode = "started" /\ d.first /\ d.buffer = <<>>
  ELSE \/ d.mode = "not_started" /\ ~Fits(s[m]) /\ Reported(m, q)
       \/ /\ ~d.first /\ d.mode = ModeAt(s, m, j) /\ Len(d.buffer) = Count(s, m, j)
          /\ \A x \in 1..Len(d.buffer) : d.buffer[x] = Byte(s[m].kind[x], m, x)

(* What place j of a frame is, and what comes after it.                    *)
Opening(s, m, j, b, m2, j2) == j = 1 /\ b.kind = "fend" /\ m2 = m /\ j2 = 2
Command(s, m, j, b, m2, j2) ==
  /\ j = 2 /\ b.kind \notin {"fend", "fesc"} /\ m2 = m /\ j2 = 3
  /\ ModeAt(s, m, 3) = "started" /\ Count(s, m, 3) = 0
Closing(s, m, j, b, m2, j2) ==
  /\ j # 1 /\ j # 2 /\ b.kind = "fend" /\ m2 = m + 1 /\ j2 = 1
  /\ ModeAt(s, m, j) = "started" /\ Count(s, m, j) = Len(s[m].kind)
Leading(s, m, j, b, m2, j2) ==
  /\ j # 1 /\ j # 2 /\ b.kind = "fesc" /\ m2 = m /\ j2 # 1 /\ j2 # 2
  /\ ModeAt(s, m, j) = "started" /\ ModeAt(s, m, j2) = "escaped"
  /\ Count(s, m, j2) = Count(s, m, j) /\ Count(s, m, j) < Len(s[m].kind)
Reading(s, m, j, b, m2, j2) ==
  /\ j # 1 /\ j # 2 /\ m2 = m /\ j2 # 1 /\ j2 # 2
  /\ ModeAt(s, m, j2) = "started"
  /\ Count(s, m, j2) = Count(s, m, j) + 1 /\ Count(s, m, j2) <= Len(s[m].kind)
  /\ b \in Bytes /\ b.of = m /\ b.at = Count(s, m, j2)
  /\ \/ ModeAt(s, m, j) = "started" /\ b.kind \notin {"fend", "fesc"} /\ b.kind = s[m].kind[b.at]
     \/ ModeAt(s, m, j) = "escaped" /\ b.kind = "tfesc" /\ s[m].kind[b.at] = "fesc"
     \/ ModeAt(s, m, j) = "escaped" /\ b.kind = "tfend" /\ s[m].kind[b.at] = "fend"

(* Every place of a frame is one of these.                                 *)
LEMMA FrameReading ==
  ASSUME NEW s \in Seq(Shape), NEW m \in 1..Len(s), NEW j \in 1..Len(Frame(s, m)),
         NEW m2, NEW j2, Moves(s, m, j, m2, j2), NEW b, b = Frame(s, m)[j]
  PROVE  /\ j = 1 => Opening(s, m, j, b, m2, j2)
         /\ j = 2 => Command(s, m, j, b, m2, j2)
         /\ j # 1 /\ j # 2 => \/ Closing(s, m, j, b, m2, j2)
                              \/ Leading(s, m, j, b, m2, j2)
                              \/ Reading(s, m, j, b, m2, j2)
         /\ j # 1 /\ j # 2 => Count(s, m, j) \in Nat
<1>1. PICK frame, shape, size : frame = Frame(s, m) /\ shape = s[m] /\ size = Len(frame)
  OBVIOUS
<1>2. /\ Framed(frame, m, shape) /\ size \in Nat /\ size >= 4 /\ m \in Nat
      /\ Len(shape.kind) \in Nat /\ Len(shape.kind) >= 2
  BY <1>1, SentFramed
<1>3. b \in Bytes /\ b.of = m /\ b.at \in Nat
  BY <1>1, FrameBytes
<1>4. CASE j = 1
  <2>1. b.kind = "fend"
    BY <1>1, <1>2, <1>4 DEF Framed, Byte
  <2>2. m2 = m /\ j2 = 2
    BY <1>1, <1>2, <1>4 DEF Moves
  <2> QED
    BY <1>4, <2>1, <2>2 DEF Opening
<1>5. CASE j = 2
  <2>1. b.kind = "plain"
    BY <1>1, <1>2, <1>5 DEF Framed, Byte
  <2>2. m2 = m /\ j2 = 3 /\ 3 < size
    BY <1>1, <1>2, <1>5 DEF Moves
  <2>3. frame[3].at = 1 /\ ~Trails(frame[3], shape)
    BY <1>2 DEF Framed
  <2>4. ModeAt(s, m, 3) = "started" /\ Count(s, m, 3) = 0
    BY <1>1, <2>2, <2>3 DEF ModeAt, Count
  <2> QED
    BY <1>5, <2>1, <2>2, <2>4 DEF Command
<1>6. CASE j = size
  <2>1. b.kind = "fend"
    BY <1>1, <1>2, <1>6 DEF Framed, Byte
  <2>2. m2 = m + 1 /\ j2 = 1 /\ j # 1 /\ j # 2
    BY <1>1, <1>2, <1>6 DEF Moves
  <2>3. ModeAt(s, m, j) = "started" /\ Count(s, m, j) = Len(shape.kind)
    BY <1>1, <1>2, <1>6 DEF ModeAt, Count
  <2> QED
    BY <1>1, <1>2, <2>1, <2>2, <2>3 DEF Closing
<1>7. CASE j # 1 /\ j # 2 /\ j # size
  <2>1. j \in 3..(size - 1) /\ j < size
    BY <1>1, <1>2, <1>7
  <2>2. m2 = m /\ j2 = j + 1 /\ j2 # 1 /\ j2 # 2
    BY <1>1, <2>1 DEF Moves
  <2>3. Part(b, m, shape, Len(shape.kind))
    BY <1>1, <1>2, <2>1 DEF Framed
  <2>4. b.at \in 1..Len(shape.kind) /\ (Stands(b, shape) \/ Leads(b, shape) \/ Trails(b, shape))
    BY <2>3 DEF Part
  <2>5. Count(s, m, j) = b.at - 1 /\ b.at - 1 \in Nat
    BY <1>1, <2>1, <2>4 DEF Count
  <2>6. j < size - 1 => Follows(b, frame[j + 1], shape)
    <3>1. j < size - 1 => j \in 3..(size - 2)
      BY <1>2, <2>1
    <3> QED
      BY <1>1, <1>2, <3>1 DEF Framed
  <2>7. j = size - 1 => b.at = Len(shape.kind) /\ ~Leads(b, shape)
    BY <1>1, <1>2 DEF Framed
  <2>8. j < size - 1 \/ j = size - 1
    BY <1>2, <2>1
  <2>9. CASE Leads(b, shape)
    <3>1. j < size - 1
      BY <2>7, <2>8, <2>9
    <3>2. Trails(frame[j + 1], shape) /\ frame[j + 1].at = b.at
      BY <2>6, <2>9, <3>1 DEF Follows
    <3>3. j2 < size
      BY <1>2, <2>1, <2>2, <3>1
    <3>4. ModeAt(s, m, j2) = "escaped" /\ Count(s, m, j2) = b.at - 1
      BY <1>1, <2>2, <3>2, <3>3 DEF ModeAt, Count
    <3>5. b.kind = "fesc" /\ ~Trails(b, shape)
      BY <2>9 DEF Leads, Trails
    <3>6. ModeAt(s, m, j) = "started"
      BY <1>1, <3>5 DEF ModeAt
    <3>7. Count(s, m, j) < Len(shape.kind)
      BY <1>2, <2>4, <2>5
    <3> QED
      BY <1>1, <1>7, <2>2, <2>5, <3>4, <3>5, <3>6, <3>7 DEF Leading
  <2>10. CASE ~Leads(b, shape)
    <3>1. ModeAt(s, m, j2) = "started" /\ Count(s, m, j2) = b.at
      <4>1. CASE j < size - 1
        <5>1. ~Trails(frame[j + 1], shape) /\ frame[j + 1].at = b.at + 1
          BY <2>6, <2>10, <4>1 DEF Follows
        <5>2. j2 < size /\ (b.at + 1) - 1 = b.at
          BY <1>2, <1>3, <2>1, <2>2, <4>1
        <5> QED
          BY <1>1, <2>2, <5>1, <5>2 DEF ModeAt, Count
      <4>2. CASE j = size - 1
        <5>1. ~(j2 < size)
          BY <1>2, <2>2, <4>2
        <5> QED
          BY <1>1, <2>7, <4>2, <5>1 DEF ModeAt, Count
      <4> QED
        BY <2>8, <4>1, <4>2
    <3>2. Count(s, m, j2) = Count(s, m, j) + 1 /\ Count(s, m, j2) <= Len(shape.kind)
      BY <1>2, <1>3, <2>4, <2>5, <3>1
    <3>3. CASE Stands(b, shape)
      <4>1. b.kind \notin {"fend", "fesc"} /\ b.kind = shape.kind[b.at] /\ ~Trails(b, shape)
        BY <3>3 DEF Stands, Trails
      <4>2. ModeAt(s, m, j) = "started"
        BY <1>1, <4>1 DEF ModeAt
      <4> QED
        BY <1>1, <1>3, <1>7, <2>2, <2>5, <3>1, <3>2, <4>1, <4>2 DEF Reading
    <3>4. CASE Trails(b, shape)
      <4>1. ModeAt(s, m, j) = "escaped"
        BY <1>1, <2>1, <3>4 DEF ModeAt
      <4>2. \/ b.kind = "tfesc" /\ shape.kind[b.at] = "fesc"
            \/ b.kind = "tfend" /\ shape.kind[b.at] = "fend"
        BY <3>4 DEF Trails
      <4> QED
        BY <1>1, <1>3, <1>7, <2>2, <2>5, <3>1, <3>2, <4>1, <4>2 DEF Reading
    <3> QED
      BY <2>4, <2>10, <3>3, <3>4
  <2> QED
    BY <2>9, <2>10
<1>8. j # 1 /\ j # 2 => Count(s, m, j) \in Nat
  <2>1. CASE j = size
    BY <1>1, <1>2, <2>1 DEF Count
  <2>2. CASE j \in 3..(size - 1)
    <3>1. Part(frame[j], m, shape, Len(shape.kind)) /\ j < size
      BY <1>1, <1>2, <2>2 DEF Framed
    <3>2. frame[j].at \in 1..Len(shape.kind)
      BY <3>1 DEF Part
    <3>3. frame[j].at - 1 \in Nat
      BY <1>2, <3>2
    <3> QED
      BY <1>1, <3>1, <3>3 DEF Count
  <2>3. j # 1 /\ j # 2 => j = size \/ j \in 3..(size - 1)
    BY <1>1, <1>2
  <2> QED
    BY <2>1, <2>2, <2>3
<1> QED
  BY <1>4, <1>5, <1>6, <1>7, <1>8

(* A frame that arrives as it was sent leaves the decoder clear.           *)
LEMMA TrackStep ==
  ASSUME NEW s \in Seq(Shape), NEW m \in 1..Len(s), NEW j \in 1..Len(Frame(s, m)),
         NEW m2, NEW j2, Moves(s, m, j, m2, j2), NEW b, b = Frame(s, m)[j],
         NEW d \in Decoders, NEW e \in Decoders, Outcome(d, b, e),
         j # 1 => Tracked(s, d, m, j)
  PROVE  /\ j2 = 1 => Clear(e)
         /\ j2 # 1 => Tracked(s, e, m2, j2)
<1>1. d.buffer \in Seq(Bytes) /\ d.mode \in {"not_started", "started", "escaped"} /\ b \in Bytes
  BY FrameBytes DEF Decoders
<1>2. \A c \in Bytes : Append(d.buffer, c) # <<>>
  BY <1>1
<1>3. /\ j = 1 => Opening(s, m, j, b, m2, j2)
      /\ j = 2 => Command(s, m, j, b, m2, j2)
      /\ j # 1 /\ j # 2 => \/ Closing(s, m, j, b, m2, j2)
                           \/ Leading(s, m, j, b, m2, j2)
                           \/ Reading(s, m, j, b, m2, j2)
      /\ j # 1 /\ j # 2 => Count(s, m, j) \in Nat
  BY FrameReading
<1>4. CASE Opening(s, m, j, b, m2, j2)
  <2>1. e.mode # "escaped"
    BY <1>4 DEF Opening, Outcome, DropsFrame, OpensFrame, ClosesFrame, Ignores, MarksEscape,
                SkipsFirst, Collects, Unescapes, Swallows
  <2> QED
    BY <1>4, <2>1 DEF Opening, Tracked
<1>5. CASE Command(s, m, j, b, m2, j2)
  <2>1. j # 1 /\ j = 2 /\ d.mode # "escaped" /\ b.kind \notin {"fend", "fesc"} /\ m2 = m /\ j2 = 3
        /\ ModeAt(s, m, 3) = "started" /\ Count(s, m, 3) = 0
    BY <1>5 DEF Command, Tracked
  <2>2. e.mode = "not_started" \/ (e.mode = "started" /\ ~e.first)
    BY <2>1 DEF Outcome, DropsFrame, OpensFrame, ClosesFrame, Ignores, MarksEscape,
                SkipsFirst, Collects, Unescapes, Swallows
  <2>3. ~(0 >= 1)
    OBVIOUS
  <2> QED
    BY <2>1, <2>2, <2>3 DEF Tracked
<1>6. CASE j # 1 /\ j # 2 /\ d.mode = "not_started"
  <2>1. CASE b.kind = "fend"
    <3>1. e.mode = "started" /\ e.first /\ e.buffer = <<>>
      BY <1>6, <2>1 DEF Full, Outcome, DropsFrame, OpensFrame, ClosesFrame, Ignores, MarksEscape,
                SkipsFirst, Collects, Unescapes, Swallows
    <3>2. Clear(e) /\ j2 = 1
      <4>1. ~Leading(s, m, j, b, m2, j2) /\ ~Reading(s, m, j, b, m2, j2)
        BY <2>1 DEF Leading, Reading
      <4> QED
        BY <1>3, <1>6, <3>1, <4>1 DEF Clear, Closing
    <3> QED
      BY <3>2
  <2>2. CASE b.kind # "fend"
    <3>1. e.mode = "not_started"
      BY <1>6, <2>2 DEF Full, Outcome, DropsFrame, OpensFrame, ClosesFrame, Ignores, MarksEscape,
                SkipsFirst, Collects, Unescapes, Swallows
    <3>2. j2 # 1 /\ j2 # 2
      BY <1>3, <1>6, <2>2 DEF Closing, Leading, Reading
    <3> QED
      BY <3>1, <3>2 DEF Tracked
  <2> QED
    BY <2>1, <2>2
<1>7. CASE /\ j # 1 /\ j # 2 /\ d.mode # "not_started"
           /\ ~d.first /\ d.mode = ModeAt(s, m, j) /\ (Count(s, m, j) >= 1 => d.buffer # <<>>)
  <2>1. CASE Closing(s, m, j, b, m2, j2)
    <3>1. Len(s[m].kind) >= 1
      BY SentFramed
    <3>2. d.mode = "started" /\ d.buffer # <<>> /\ b.kind = "fend" /\ j2 = 1
      BY <1>7, <2>1, <3>1 DEF Closing
    <3>3. Clear(e)
      BY <3>2 DEF Clear, Outcome, DropsFrame, OpensFrame, ClosesFrame, Ignores, MarksEscape,
                SkipsFirst, Collects, Unescapes, Swallows
    <3> QED
      BY <3>2, <3>3
  <2>2. CASE Leading(s, m, j, b, m2, j2)
    <3>1. d.mode = "started" /\ b.kind = "fesc" /\ ModeAt(s, m2, j2) = "escaped"
          /\ Count(s, m2, j2) = Count(s, m, j) /\ j2 # 1 /\ j2 # 2
      BY <1>7, <2>2 DEF Leading
    <3>2. \/ e.mode = "not_started"
          \/ e.mode = "escaped" /\ e.first = d.first /\ e.buffer = d.buffer
      BY <3>1 DEF Outcome, DropsFrame, OpensFrame, ClosesFrame, Ignores, MarksEscape,
                SkipsFirst, Collects, Unescapes, Swallows
    <3> QED
      BY <1>7, <3>1, <3>2 DEF Tracked
  <2>3. CASE Reading(s, m, j, b, m2, j2)
    <3>1. ModeAt(s, m2, j2) = "started" /\ j2 # 1 /\ j2 # 2
      BY <2>3 DEF Reading
    <3>2. CASE d.mode = "started"
      <4>1. b.kind \notin {"fend", "fesc"}
        BY <1>7, <2>3, <3>2 DEF Reading
      <4>2. \/ e.mode = "not_started"
            \/ e.mode = "started" /\ ~e.first /\ e.buffer = Append(d.buffer, b)
        BY <1>7, <3>2, <4>1 DEF Outcome, DropsFrame, OpensFrame, ClosesFrame, Ignores, MarksEscape,
                SkipsFirst, Collects, Unescapes, Swallows
      <4> QED
        BY <1>1, <1>2, <3>1, <4>2 DEF Tracked
    <3>3. CASE d.mode = "escaped"
      <4>1. b.kind \in {"tfesc", "tfend"}
        BY <1>7, <2>3, <3>3 DEF Reading
      <4>2. PICK c : c = [b EXCEPT !.kind = IF b.kind = "tfesc" THEN "fesc" ELSE "fend"]
        OBVIOUS
      <4>3. c \in Bytes
        BY <1>1, <4>2 DEF Bytes, Kind
      <4>4. \/ e.mode = "not_started"
            \/ e.mode = "started" /\ e.first = d.first /\ e.buffer = Append(d.buffer, c)
        BY <1>7, <3>3, <4>1, <4>2 DEF Outcome, DropsFrame, OpensFrame, ClosesFrame, Ignores, MarksEscape,
                SkipsFirst, Collects, Unescapes, Swallows
      <4> QED
        BY <1>2, <1>7, <3>1, <4>3, <4>4 DEF Tracked
    <3> QED
      BY <1>1, <1>7, <3>2, <3>3
  <2> QED
    BY <1>3, <1>7, <2>1, <2>2, <2>3
<1>8. j # 1 /\ j # 2 => \/ d.mode = "not_started"
                        \/ ~d.first /\ d.mode = ModeAt(s, m, j) /\ (Count(s, m, j) >= 1 => d.buffer # <<>>)
  BY DEF Tracked
<1> QED
  BY <1>3, <1>4, <1>5, <1>6, <1>7, <1>8

(* A frame that finds the decoder clear is decoded, or reported as too long. *)
LEMMA WholePacket ==
  ASSUME NoFragments, sent \in Seq(Shape), NEW m \in 1..Len(sent),
         NEW p \in Seq(Bytes), Len(p) = Len(sent[m].kind),
         \A x \in 1..Len(p) : p[x] = Byte(sent[m].kind[x], m, x)
  PROVE  Complete(p) = Event("packet", m)
<1>1. PICK shape, size : shape = sent[m] /\ size = Len(shape.kind)
  OBVIOUS
<1>2. /\ shape \in Shape /\ shape \in PacketShape /\ size \in Nat /\ size >= HeaderBytes + CrcBytes
      /\ size >= 2 /\ m \in Nat
  BY <1>1, SentFramed
<1>3. HeaderBytes \in Nat /\ CrcBytes \in Nat /\ HeaderBytes <= size
  BY <1>2, KissAssumption
<1>4. DOMAIN shape.kind = 1..size
  BY <1>1, <1>2 DEF PacketShape
<1>5. p = PacketBytes(m, shape)
  <2>1. p = [x \in 1..size |-> p[x]]
    BY <1>1
  <2>2. PacketBytes(m, shape) = [x \in 1..size |-> Byte(shape.kind[x], m, x)]
    BY <1>4 DEF PacketBytes
  <2> QED
    BY <1>1, <2>1, <2>2
<1>6. Last(p).of = m
  <2>1. Len(p) \in 1..Len(p) /\ Last(p) = p[Len(p)]
    BY <1>1, <1>2 DEF Last
  <2>2. p[Len(p)] = Byte(sent[m].kind[Len(p)], m, Len(p))
    BY <2>1
  <2> QED
    BY <2>1, <2>2 DEF Byte
<1>7. CrcOf(m, p)
  BY <1>1, <1>5 DEF CrcOf
<1>8. \A i \in 1..HeaderBytes : p[i].kind # "flag"
  <2>1. ASSUME NEW i \in 1..HeaderBytes PROVE p[i].kind # "flag"
    <3>1. i \in 1..Len(p) /\ p[i] = Byte(shape.kind[i], m, i)
      BY <1>1, <1>2, <1>3
    <3>2. shape.kind[i] # "flag"
      BY <1>2 DEF NoFragments
    <3> QED
      BY <3>1, <3>2 DEF Byte
  <2> QED
    BY <2>1
<1>9. ~(Len(p) < HeaderBytes + CrcBytes) /\ m # 0
  BY <1>1, <1>2, <1>3
<1> QED
  BY <1>6, <1>7, <1>8, <1>9 DEF Complete

(* A byte is its kind and its place.                                       *)
LEMMA ByteIs ==
  ASSUME NEW b \in Bytes
  PROVE  b = Byte(b.kind, b.of, b.at)
BY DEF Byte, Bytes

(* What has been reported stays reported.                                  *)
LEMMA ReportedAppend ==
  ASSUME NEW r \in Seq(Events), NEW n \in Nat
  PROVE  /\ \A x \in Events : Reported(n, r) => Reported(n, Append(r, x))
         /\ Reported(n, Append(r, Event("overflow", n)))
<1>1. Event("overflow", n) \in Events
  BY DEF Event, Events
<1>2. ASSUME NEW x \in Events, Reported(n, r)
      PROVE  Reported(n, Append(r, x))
  <2>1. PICK i \in 1..Len(r) : r[i] = Event("overflow", n)
    BY <1>2 DEF Reported
  <2>2. Append(r, x)[i] = r[i] /\ i \in 1..Len(Append(r, x))
    BY AppendShape
  <2> QED
    BY <2>1, <2>2 DEF Reported
<1>3. Append(r, Event("overflow", n))[Len(r) + 1] = Event("overflow", n)
      /\ Len(r) + 1 \in 1..Len(Append(r, Event("overflow", n)))
  BY <1>1, AppendShape
<1> QED
  BY <1>2, <1>3 DEF Reported

(* The byte after those of the packet that are held.                       *)
LEMMA AlignedMore ==
  ASSUME NEW s \in Seq(Shape), NEW m \in 1..Len(s), NEW buffer \in Seq(Bytes),
         NEW n \in Nat, Len(buffer) = n,
         \A x \in 1..Len(buffer) : buffer[x] = Byte(s[m].kind[x], m, x),
         NEW b \in Bytes, b.of = m, b.at = n + 1, b.kind = s[m].kind[b.at]
  PROVE  /\ Len(Append(buffer, b)) = n + 1
         /\ \A x \in 1..Len(Append(buffer, b)) : Append(buffer, b)[x] = Byte(s[m].kind[x], m, x)
<1>1. /\ Len(Append(buffer, b)) = n + 1
      /\ \A x \in 1..n : Append(buffer, b)[x] = buffer[x]
      /\ Append(buffer, b)[n + 1] = b
  BY AppendShape
<1>2. b = Byte(s[m].kind[n + 1], m, n + 1)
  BY ByteIs
<1>3. ASSUME NEW x \in 1..(n + 1)
      PROVE  Append(buffer, b)[x] = Byte(s[m].kind[x], m, x)
  <2>1. CASE x = n + 1
    BY <1>1, <1>2, <2>1
  <2>2. CASE x # n + 1
    BY <1>1, <2>2
  <2> QED
    BY <2>1, <2>2
<1> QED
  BY <1>1, <1>3

(* A frame that finds the decoder clear is decoded, or reported as too long. *)
LEMMA AlignStep ==
  ASSUME NoFragments, sent \in Seq(Shape),
         NEW m \in 1..Len(sent), NEW j \in 1..Len(Frame(sent, m)),
         NEW m2, NEW j2, Moves(sent, m, j, m2, j2), NEW b, b = Frame(sent, m)[j],
         NEW d \in Decoders, NEW e \in Decoders, Bounded(d), Outcome(d, b, e),
         NEW r \in Seq(Events), NEW r2 \in Seq(Events), GrowsWith(r, r2, d.drops, e.drops),
         j = 1 => Clear(d),
         j # 1 => Aligned(sent, d, m, j, r)
  PROVE  /\ j2 # 1 => Aligned(sent, e, m2, j2, r2)
         /\ j2 = 1 => IF Fits(sent[m]) THEN e.packets = Append(d.packets, m) ELSE Reported(m, r2)
<1>1. /\ b \in Bytes /\ d.buffer \in Seq(Bytes) /\ Len(d.buffer) \in Nat
      /\ m \in Nat /\ sent[m] \in Shape /\ Len(sent[m].kind) \in Nat /\ Len(sent[m].kind) >= 2
      /\ Limit \in Nat /\ Limit > 0
  <2>1. Limit \in Nat /\ Limit > 0
    BY KissAssumption DEF Limit
  <2> QED
    BY <2>1, FrameBytes, SentFramed, SMTT(30) DEF Decoders
<1>2. /\ j = 1 => Opening(sent, m, j, b, m2, j2)
      /\ j = 2 => Command(sent, m, j, b, m2, j2)
      /\ j # 1 /\ j # 2 => \/ Closing(sent, m, j, b, m2, j2)
                           \/ Leading(sent, m, j, b, m2, j2)
                           \/ Reading(sent, m, j, b, m2, j2)
      /\ j # 1 /\ j # 2 => Count(sent, m, j) \in Nat
  BY FrameReading
<1>3. d.buffer = <<>> => ~Full(d)
  BY <1>1 DEF Full
<1>4. CASE j = 1
  <2>1. b.kind = "fend" /\ m2 = m /\ j2 = 2 /\ Clear(d)
    BY <1>2, <1>4 DEF Opening
  <2>2. d.buffer = <<>>
    BY <2>1 DEF Clear, Bounded
  <2>3. e.mode = "started" /\ e.first /\ e.buffer = <<>>
    BY <1>3, <2>1, <2>2 DEF Clear, Outcome, DropsFrame, OpensFrame, ClosesFrame, Ignores,
                MarksEscape, SkipsFirst, Collects, Unescapes, Swallows
  <2> QED
    BY <2>1, <2>3 DEF Aligned
<1>5. CASE j = 2
  <2>1. /\ d.mode = "started" /\ d.first /\ d.buffer = <<>>
        /\ b.kind \notin {"fend", "fesc"} /\ m2 = m /\ j2 = 3
        /\ ModeAt(sent, m, 3) = "started" /\ Count(sent, m, 3) = 0
    BY <1>2, <1>5 DEF Command, Aligned
  <2>2. e.mode = "started" /\ ~e.first /\ e.buffer = <<>>
    BY <1>3, <2>1 DEF Outcome, DropsFrame, OpensFrame, ClosesFrame, Ignores,
                MarksEscape, SkipsFirst, Collects, Unescapes, Swallows
  <2>3. Len(e.buffer) = 0
    BY <2>2
  <2> QED
    BY <2>1, <2>2, <2>3 DEF Aligned
<1>6. CASE j # 1 /\ j # 2 /\ d.mode = "not_started" /\ ~Fits(sent[m]) /\ Reported(m, r)
  <2>1. e.drops = d.drops
    BY <1>6 DEF Full, Silent, Outcome, DropsFrame, OpensFrame, ClosesFrame, Ignores,
                MarksEscape, SkipsFirst, Collects, Unescapes, Swallows
  <2>2. Reported(m, r2)
    BY <1>6, <2>1 DEF GrowsWith
  <2>3. CASE Closing(sent, m, j, b, m2, j2)
    BY <1>6, <2>2, <2>3 DEF Closing
  <2>4. CASE Leading(sent, m, j, b, m2, j2) \/ Reading(sent, m, j, b, m2, j2)
    <3>1. b.kind # "fend" /\ j2 # 1 /\ j2 # 2 /\ m2 = m
      BY <2>4 DEF Leading, Reading
    <3>2. e.mode = "not_started"
      BY <1>6, <3>1 DEF Full, Outcome, DropsFrame, OpensFrame, ClosesFrame, Ignores,
                MarksEscape, SkipsFirst, Collects, Unescapes, Swallows
    <3> QED
      BY <1>6, <2>2, <3>1, <3>2 DEF Aligned
  <2> QED
    BY <1>2, <1>6, <2>3, <2>4
<1>7. CASE /\ j # 1 /\ j # 2
           /\ ~d.first /\ d.mode = ModeAt(sent, m, j) /\ Len(d.buffer) = Count(sent, m, j)
           /\ \A x \in 1..Len(d.buffer) : d.buffer[x] = Byte(sent[m].kind[x], m, x)
  <2>1. ASSUME Full(d), Count(sent, m, j) <= Len(sent[m].kind)
        PROVE  ~Fits(sent[m]) /\ Reported(m, r2) /\ (b.kind # "fend" => e.mode = "not_started")
    <3>1. ~Fits(sent[m])
      BY <1>1, <1>7, <2>1 DEF Full, Fits
    <3>2. d.buffer # <<>>
      BY <1>3, <2>1
    <3>3. Last(d.buffer).of = m
      <4>1. Last(d.buffer) = d.buffer[Len(d.buffer)] /\ Len(d.buffer) \in 1..Len(d.buffer)
        BY <1>1, <3>2, LastByte
      <4>2. Last(d.buffer) = Byte(sent[m].kind[Len(d.buffer)], m, Len(d.buffer))
        BY <1>7, <4>1
      <4> QED
        BY <4>2 DEF Byte
    <3>4. DropsFrame(d, b, e)
      BY <1>3, <2>1, <3>2 DEF Full, Outcome, DropsFrame, OpensFrame, ClosesFrame, Ignores,
                MarksEscape, SkipsFirst, Collects, Unescapes, Swallows
    <3>5. e.drops = Append(d.drops, Event("overflow", m)) /\ (b.kind # "fend" => e.mode = "not_started")
      BY <3>3, <3>4 DEF DropsFrame
    <3>6. r2 = Append(r, Event("overflow", m))
      BY <3>5 DEF GrowsWith
    <3>7. Reported(m, r2)
      BY <1>1, <3>6, ReportedAppend
    <3> QED
      BY <3>1, <3>5, <3>7
  <2>2. CASE Closing(sent, m, j, b, m2, j2)
    <3>1. /\ d.mode = "started" /\ b.kind = "fend" /\ j2 = 1
          /\ Count(sent, m, j) = Len(sent[m].kind) /\ Len(d.buffer) = Len(sent[m].kind)
      BY <1>7, <2>2 DEF Closing
    <3>2. CASE Full(d)
      BY <1>1, <2>1, <3>1, <3>2
    <3>3. CASE ~Full(d)
      <4>1. Fits(sent[m])
        BY <1>1, <3>1, <3>3 DEF Full, Fits
      <4>2. d.buffer # <<>>
        BY <1>1, <3>1
      <4>3. Complete(d.buffer) = Event("packet", m)
        BY <1>1, <1>7, <3>1, WholePacket
      <4>4. ClosesFrame(d, b, e)
        BY <3>1, <3>3, <4>2 DEF Outcome, DropsFrame, OpensFrame, ClosesFrame, Ignores,
                MarksEscape, SkipsFirst, Collects, Unescapes, Swallows
      <4>5. e.packets = Append(d.packets, m)
        BY <4>3, <4>4 DEF ClosesFrame, Event
      <4> QED
        BY <3>1, <4>1, <4>5
    <3> QED
      BY <3>2, <3>3
  <2>3. CASE Leading(sent, m, j, b, m2, j2)
    <3>1. /\ d.mode = "started" /\ b.kind = "fesc" /\ m2 = m /\ j2 # 1 /\ j2 # 2
          /\ ModeAt(sent, m2, j2) = "escaped" /\ Count(sent, m2, j2) = Count(sent, m, j)
          /\ Count(sent, m, j) <= Len(sent[m].kind)
      BY <1>1, <1>2, <1>7, <2>3 DEF Leading
    <3>2. CASE Full(d)
      BY <2>1, <3>1, <3>2 DEF Aligned
    <3>3. CASE ~Full(d)
      <4>1. e.mode = "escaped" /\ e.first = d.first /\ e.buffer = d.buffer
        BY <3>1, <3>3 DEF Outcome, DropsFrame, OpensFrame, ClosesFrame, Ignores,
                MarksEscape, SkipsFirst, Collects, Unescapes, Swallows
      <4> QED
        BY <1>7, <3>1, <4>1 DEF Aligned
    <3> QED
      BY <3>2, <3>3
  <2>4. CASE Reading(sent, m, j, b, m2, j2)
    <3>1. /\ b.kind # "fend" /\ m2 = m /\ j2 # 1 /\ j2 # 2
          /\ ModeAt(sent, m2, j2) = "started" /\ Count(sent, m2, j2) = Count(sent, m, j) + 1
          /\ Count(sent, m, j) + 1 <= Len(sent[m].kind)
          /\ b.of = m /\ b.at = Count(sent, m, j) + 1
      BY <2>4 DEF Reading
    <3>2. Count(sent, m, j) \in Nat /\ Count(sent, m, j) <= Len(sent[m].kind)
      BY <1>1, <1>2, <1>7, <3>1
    <3>3. CASE Full(d)
      BY <2>1, <3>1, <3>2, <3>3 DEF Aligned
    <3>4. CASE ~Full(d) /\ d.mode = "started"
      <4>1. b.kind \notin {"fend", "fesc"} /\ b.kind = sent[m].kind[b.at]
        BY <1>7, <2>4, <3>4 DEF Reading
      <4>2. e.mode = "started" /\ ~e.first /\ e.buffer = Append(d.buffer, b)
        BY <1>7, <3>4, <4>1 DEF Outcome, DropsFrame, OpensFrame, ClosesFrame, Ignores,
                MarksEscape, SkipsFirst, Collects, Unescapes, Swallows
      <4>3. /\ Len(e.buffer) = Count(sent, m, j) + 1
            /\ \A x \in 1..Len(e.buffer) : e.buffer[x] = Byte(sent[m].kind[x], m, x)
        <5>1. PICK k, w : k = Count(sent, m, j) /\ w = d.buffer
          OBVIOUS
        <5>2. /\ sent \in Seq(Shape) /\ m \in 1..Len(sent) /\ w \in Seq(Bytes) /\ k \in Nat /\ Len(w) = k
              /\ \A x \in 1..Len(w) : w[x] = Byte(sent[m].kind[x], m, x)
              /\ b \in Bytes /\ b.of = m /\ b.at = k + 1 /\ b.kind = sent[m].kind[b.at]
          BY <1>1, <1>7, <3>1, <3>2, <4>1, <5>1
        <5>3. /\ Len(Append(w, b)) = k + 1
              /\ \A x \in 1..Len(Append(w, b)) : Append(w, b)[x] = Byte(sent[m].kind[x], m, x)
          BY ONLY <5>2, AlignedMore
        <5> QED
          BY <4>2, <5>1, <5>3
      <4> QED
        BY <3>1, <4>2, <4>3 DEF Aligned
    <3>5. CASE ~Full(d) /\ d.mode = "escaped"
      <4>1. \/ b.kind = "tfesc" /\ sent[m].kind[b.at] = "fesc"
            \/ b.kind = "tfend" /\ sent[m].kind[b.at] = "fend"
        BY <1>7, <2>4, <3>5 DEF Reading
      <4>2. PICK c : c = [b EXCEPT !.kind = IF b.kind = "tfesc" THEN "fesc" ELSE "fend"]
        OBVIOUS
      <4>3. c \in Bytes /\ c.of = m /\ c.at = Count(sent, m, j) + 1 /\ c.kind = sent[m].kind[c.at]
        BY <1>1, <3>1, <4>1, <4>2 DEF Bytes, Kind
      <4>4. e.mode = "started" /\ ~e.first /\ e.buffer = Append(d.buffer, c)
        BY <1>7, <3>5, <4>1, <4>2 DEF Outcome, DropsFrame, OpensFrame, ClosesFrame, Ignores,
                MarksEscape, SkipsFirst, Collects, Unescapes, Swallows
      <4>5. /\ Len(e.buffer) = Count(sent, m, j) + 1
            /\ \A x \in 1..Len(e.buffer) : e.buffer[x] = Byte(sent[m].kind[x], m, x)
        <5>1. PICK k, w : k = Count(sent, m, j) /\ w = d.buffer
          OBVIOUS
        <5>2. /\ sent \in Seq(Shape) /\ m \in 1..Len(sent) /\ w \in Seq(Bytes) /\ k \in Nat /\ Len(w) = k
              /\ \A x \in 1..Len(w) : w[x] = Byte(sent[m].kind[x], m, x)
              /\ c \in Bytes /\ c.of = m /\ c.at = k + 1 /\ c.kind = sent[m].kind[c.at]
          BY <1>1, <1>7, <3>1, <3>2, <4>3, <5>1
        <5>3. /\ Len(Append(w, c)) = k + 1
              /\ \A x \in 1..Len(Append(w, c)) : Append(w, c)[x] = Byte(sent[m].kind[x], m, x)
          BY ONLY <5>2, AlignedMore
        <5> QED
          BY <4>4, <5>1, <5>3
      <4> QED
        BY <3>1, <4>4, <4>5 DEF Aligned
    <3> QED
      BY <1>7, <3>3, <3>4, <3>5 DEF ModeAt
  <2> QED
    BY <1>2, <1>7, <2>2, <2>3, <2>4
<1> QED
  BY <1>4, <1>5, <1>6, <1>7 DEF Aligned

(* What has been damaged, and what must have become of the rest.           *)
Clean(h, n) == n \notin Range(h)
Entered(h, m) == m = 1 \/ Clean(h, m - 1)
Among(n, q) == \E i \in 1..Len(q) : q[i] = n
Settled(s, h, m, q, r) ==
  \A n \in 1..Len(s) :
    n < m /\ Clean(h, n) /\ Entered(h, n) => IF Fits(s[n]) THEN Among(n, q) ELSE Reported(n, r)

(* The decoder in step with the line, as far as the line is undamaged.     *)
Sync(s, h, d, m, j, q, r) ==
  /\ Settled(s, h, m, q, r)
  /\ j = 1 /\ Entered(h, m) => Clear(d)
  /\ j # 1 /\ Clean(h, m) => Tracked(s, d, m, j)
  /\ j # 1 /\ Clean(h, m) /\ Entered(h, m) => Aligned(s, d, m, j, r)

(* A byte adds one packet or one dropped frame at most.                    *)
LEMMA OneEvent ==
  ASSUME NEW d \in Decoders, NEW b, NEW e \in Decoders, Outcome(d, b, e)
  PROVE  /\ e.packets = d.packets \/ \E x \in Nat : e.packets = Append(d.packets, x)
         /\ e.drops = d.drops \/ \E x \in Events : e.drops = Append(d.drops, x)
<1>0. d.buffer \in Seq(Bytes)
  BY DEF Decoders
<1>1. CASE DropsFrame(d, b, e)
  <2>1. Last(d.buffer).of \in Nat
    BY <1>0, <1>1, FullBuffer, LastByte DEF DropsFrame
  <2>2. Event("overflow", Last(d.buffer).of) \in Events
    BY <2>1 DEF Event, Events
  <2> QED
    BY <1>1, <2>2 DEF DropsFrame
<1>2. CASE ClosesFrame(d, b, e)
  <2>1. Complete(d.buffer) \in Events
    BY <1>0, <1>2, CompleteTyped DEF ClosesFrame
  <2>2. Complete(d.buffer).of \in Nat
    BY <2>1 DEF Events
  <2> QED
    BY <1>2, <2>1, <2>2 DEF ClosesFrame
<1>3. CASE ~DropsFrame(d, b, e) /\ ~ClosesFrame(d, b, e)
  BY <1>3 DEF Outcome, OpensFrame, Ignores, MarksEscape, SkipsFirst, Collects, Unescapes, Swallows, Silent
<1> QED
  BY <1>1, <1>2, <1>3

(* What has been settled stays settled.                                    *)
LEMMA SettledGrows ==
  ASSUME NEW s, NEW h, NEW m,
         NEW q \in Seq(Nat), NEW q2, q2 = q \/ \E x \in Nat : q2 = Append(q, x),
         NEW r \in Seq(Events), NEW r2, r2 = r \/ \E x \in Events : r2 = Append(r, x),
         Settled(s, h, m, q, r), Len(s) \in Nat
  PROVE  Settled(s, h, m, q2, r2)
<1>1. ASSUME NEW n, Among(n, q)
      PROVE  Among(n, q2)
  <2>1. PICK i \in 1..Len(q) : q[i] = n
    BY <1>1 DEF Among
  <2>2. ASSUME NEW x \in Nat, q2 = Append(q, x)
        PROVE  Among(n, q2)
    <3>1. q2[i] = n /\ i \in 1..Len(q2)
      BY <2>1, <2>2, AppendShape
    <3> QED
      BY <3>1 DEF Among
  <2> QED
    BY <1>1, <2>2
<1>2. ASSUME NEW n \in Nat, Reported(n, r)
      PROVE  Reported(n, r2)
  BY <1>2, ReportedAppend
<1> QED
  BY <1>1, <1>2 DEF Settled

(* A byte read keeps the decoder in step.                                  *)
LEMMA SyncRead ==
  ASSUME NoFragments, sent \in Seq(Shape),
         NEW m \in 1..Len(sent), NEW j \in 1..Len(Frame(sent, m)),
         NEW m2, NEW j2, Moves(sent, m, j, m2, j2),
         NEW h, NEW b \in Bytes, Arrives(sent, h, m, j, b),
         NEW d \in Decoders, NEW e \in Decoders, Bounded(d), Outcome(d, b, e),
         NEW q \in Seq(Nat), NEW q2 \in Seq(Nat), GrowsWith(q, q2, d.packets, e.packets),
         NEW r \in Seq(Events), NEW r2 \in Seq(Events), GrowsWith(r, r2, d.drops, e.drops),
         Sync(sent, h, d, m, j, q, r)
  PROVE  Sync(sent, h, e, m2, j2, q2, r2)
<1>1. /\ m2 \in Nat /\ m2 >= m /\ m2 <= m + 1 /\ j2 \in Nat /\ j2 >= 1
      /\ m2 = m => j2 = j + 1 /\ j2 <= Len(Frame(sent, m))
      /\ m2 # m => m2 = m + 1 /\ j2 = 1 /\ j = Len(Frame(sent, m))
  BY MovesOn
<1>2. m \in Nat /\ m >= 1 /\ j \in Nat /\ j >= 1 /\ Len(sent) \in Nat
  OBVIOUS
<1>3. /\ q2 = q \/ \E x \in Nat : q2 = Append(q, x)
      /\ r2 = r \/ \E x \in Events : r2 = Append(r, x)
  BY OneEvent DEF GrowsWith
<1>4. Settled(sent, h, m, q2, r2)
  BY <1>2, <1>3, SettledGrows DEF Sync
<1>5. ASSUME m2 = m + 1 => (Clean(h, m) /\ Entered(h, m) => IF Fits(sent[m]) THEN Among(m, q2) ELSE Reported(m, r2))
      PROVE  Settled(sent, h, m2, q2, r2)
  <2>1. ASSUME NEW n \in 1..Len(sent), n < m2, Clean(h, n), Entered(h, n)
        PROVE  IF Fits(sent[n]) THEN Among(n, q2) ELSE Reported(n, r2)
    <3>1. n < m \/ (n = m /\ m2 = m + 1)
      BY <1>1, <1>2, <2>1
    <3> QED
      BY <1>4, <1>5, <2>1, <3>1 DEF Settled
  <2> QED
    BY <2>1 DEF Settled
<1>6. CASE ~Clean(h, m)
  <2>1. Settled(sent, h, m2, q2, r2)
    BY <1>5, <1>6
  <2>2. j2 = 1 => ~Entered(h, m2)
    <3>1. j2 = 1 => m2 = m + 1 /\ m2 - 1 = m /\ m2 # 1
      BY <1>1, <1>2
    <3> QED
      BY <1>6, <3>1 DEF Entered
  <2>3. j2 # 1 => ~Clean(h, m2)
    BY <1>1, <1>6
  <2> QED
    BY <2>1, <2>2, <2>3 DEF Sync
<1>7. CASE Clean(h, m)
  <2>1. b = Frame(sent, m)[j]
    BY <1>7 DEF Arrives, Clean
  <2>2. j # 1 => Tracked(sent, d, m, j)
    BY <1>7 DEF Sync
  <2>3. /\ j2 = 1 => Clear(e)
        /\ j2 # 1 => Tracked(sent, e, m2, j2)
    BY <2>1, <2>2, TrackStep
  <2>4. ASSUME Entered(h, m)
        PROVE  /\ j2 # 1 => Aligned(sent, e, m2, j2, r2)
               /\ j2 = 1 => IF Fits(sent[m]) THEN e.packets = Append(d.packets, m) ELSE Reported(m, r2)
    <3>1. (j = 1 => Clear(d)) /\ (j # 1 => Aligned(sent, d, m, j, r))
      BY <1>7, <2>4 DEF Sync
    <3> QED
      BY <2>1, <3>1, AlignStep
  <2>5. j2 # 1 => m2 = m
    BY <1>1
  <2>6. ASSUME m2 = m + 1, Entered(h, m)
        PROVE  IF Fits(sent[m]) THEN Among(m, q2) ELSE Reported(m, r2)
    <3>1. j2 = 1
      BY <1>1, <1>2, <2>6
    <3>2. ASSUME e.packets = Append(d.packets, m)
          PROVE  Among(m, q2)
      <4>1. q2 = Append(q, m)
        BY <3>2 DEF GrowsWith
      <4>2. q2[Len(q) + 1] = m /\ Len(q) + 1 \in 1..Len(q2)
        BY <1>2, <4>1, AppendShape
      <4> QED
        BY <4>2 DEF Among
    <3> QED
      BY <2>4, <2>6, <3>1, <3>2
  <2>7. Settled(sent, h, m2, q2, r2)
    BY <1>5, <2>6
  <2> QED
    BY <1>7, <2>3, <2>4, <2>5, <2>7 DEF Sync
<1> QED
  BY <1>6, <1>7

(* A place lost to the line keeps it too.                                  *)
LEMMA SyncLost ==
  ASSUME NEW s \in Seq(Shape), NEW m \in 1..Len(s), NEW j \in 1..Len(Frame(s, m)),
         NEW m2, NEW j2, Moves(s, m, j, m2, j2) \/ (m2 = m /\ j2 = j),
         NEW h \in Seq(Nat), NEW h2, h2 = Append(h, m) \/ (h2 = Append(h, 0) /\ m \in Range(h)),
         NEW d, NEW q, NEW r, Sync(s, h, d, m, j, q, r)
  PROVE  Sync(s, h2, d, m2, j2, q, r)
<1>1. /\ m2 \in Nat /\ m2 >= m /\ m2 <= m + 1 /\ j2 \in Nat /\ j2 >= 1
      /\ m2 # m => m2 = m + 1 /\ j2 = 1
      /\ m2 = m => j2 = j \/ j2 = j + 1
  BY MovesOn
<1>2. m \in Nat /\ m >= 1 /\ j \in Nat /\ j >= 1
  OBVIOUS
<1>3. Range(h) \subseteq Range(h2) /\ m \in Range(h2)
  <2>1. ASSUME NEW x \in Nat
        PROVE  Range(h) \subseteq Range(Append(h, x)) /\ x \in Range(Append(h, x))
    BY RangeAppend
  <2> QED
    BY <1>2, <2>1
<1>4. /\ \A n : Clean(h2, n) => Clean(h, n)
      /\ \A n : Entered(h2, n) => Entered(h, n)
      /\ ~Clean(h2, m)
  BY <1>3 DEF Clean, Entered
<1>5. Settled(s, h2, m2, q, r)
  <2>1. ASSUME NEW n \in 1..Len(s), n < m2, Clean(h2, n), Entered(h2, n)
        PROVE  IF Fits(s[n]) THEN Among(n, q) ELSE Reported(n, r)
    <3>1. n # m
      BY <1>4, <2>1
    <3>2. n < m
      BY <1>1, <1>2, <2>1, <3>1
    <3> QED
      BY <1>4, <2>1, <3>2 DEF Sync, Settled
  <2> QED
    BY <2>1 DEF Settled
<1>6. m2 = m + 1 => ~Entered(h2, m2)
  <2>1. (m + 1) - 1 = m /\ m + 1 # 1
    BY <1>2
  <2> QED
    BY <1>4, <2>1 DEF Entered
<1>7. CASE m2 = m + 1
  <2>1. j2 = 1
    BY <1>1, <1>2, <1>7
  <2> QED
    BY <1>5, <1>6, <1>7, <2>1 DEF Sync
<1>8. CASE m2 = m
  <2>1. j2 = 1 => j = 1
    BY <1>1, <1>2, <1>8
  <2> QED
    BY <1>4, <1>5, <1>8, <2>1 DEF Sync
<1> QED
  BY <1>1, <1>7, <1>8

-----------------------------------------------------------------------------
(* The bytes on the line: each at its place in a frame, and all there are  *)
(* from the first to the end of the last frame.  A garbled byte is the next *)
(* to be read.                                                             *)
Lies(s, h, w, pk, pl) ==
  /\ w \in Seq(Bytes)
  /\ pk \in [1..(Len(w) + 1) -> Nat] /\ pl \in [1..(Len(w) + 1) -> Nat]
  /\ \A i \in 1..Len(w) :
       /\ pk[i] \in 1..Len(s) /\ pl[i] \in 1..Len(Frame(s, pk[i]))
       /\ Moves(s, pk[i], pl[i], pk[i + 1], pl[i + 1])
       /\ w[i] = Frame(s, pk[i])[pl[i]] \/ (i = 1 /\ w[i].of = 0 /\ pk[i] \in Range(h))
  /\ pk[Len(w) + 1] = Len(s) + 1 /\ pl[Len(w) + 1] = 1

(* What is read from the line was sent there, or garbled.                  *)
LEMMA LineArrives ==
  ASSUME NEW s, NEW h, NEW w, NEW pk, NEW pl, Lies(s, h, w, pk, pl), NEW i \in 1..Len(w)
  PROVE  Arrives(s, h, pk[i], pl[i], w[i]) /\ w[i] \in Bytes
<1>1. w[i] \in Bytes
  BY DEF Lies
<1> QED
  BY <1>1 DEF Lies, Arrives

(* v is w without its first k bytes.                                       *)
Rest(w, v, k) == v \in Seq(Bytes) /\ Len(v) = Len(w) - k /\ \A i \in 1..Len(v) : v[i] = w[i + k]

LineFrom(s, h, w, m, j) == \E pk, pl : Lies(s, h, w, pk, pl) /\ pk[1] = m /\ pl[1] = j

(* A read splits the line in two.                                          *)
LEMMA SubSeqRest ==
  ASSUME NEW w \in Seq(Bytes), NEW k \in Nat, k <= Len(w)
  PROVE  /\ Rest(w, SubSeq(w, k + 1, Len(w)), k)
         /\ SubSeq(w, 1, k) \in Seq(Bytes) /\ Len(SubSeq(w, 1, k)) = k
         /\ \A i \in 1..k : SubSeq(w, 1, k)[i] = w[i]
<1>1. Len(w) \in Nat
  OBVIOUS
<1>2. /\ SubSeq(w, 1, k) \in Seq(Bytes) /\ Len(SubSeq(w, 1, k)) = k
      /\ \A i \in 1..k : SubSeq(w, 1, k)[i] = w[i]
  <2>1. SubSeq(w, 1, k) = [i \in 1..k |-> w[i]]
    BY <1>1
  <2>2. \A i \in 1..k : w[i] \in Bytes
    BY <1>1
  <2> QED
    BY <2>1, <2>2
<1>3. PICK n, v : n = Len(w) - k /\ v = [i \in 1..n |-> w[i + k]]
  OBVIOUS
<1>4. n \in Nat /\ \A i \in 1..n : i + k \in 1..Len(w) /\ w[i + k] \in Bytes
  <2>1. n \in Nat /\ n + k = Len(w)
    BY <1>1, <1>3
  <2>2. \A i \in 1..n : i + k \in 1..Len(w)
    BY <1>1, <2>1
  <2> QED
    BY <2>1, <2>2
<1>5. SubSeq(w, k + 1, Len(w)) = v
  <2>1. SubSeq(w, k + 1, Len(w)) = [i \in 1..(1 + Len(w) - (k + 1)) |-> w[(k + 1) + i - 1]]
    BY <1>1
  <2>2. 1 + Len(w) - (k + 1) = n
    BY <1>1, <1>3
  <2>3. \A i \in 1..n : (k + 1) + i - 1 = i + k
    OBVIOUS
  <2> QED
    BY <1>3, <2>1, <2>2, <2>3
<1>6. v \in Seq(Bytes) /\ Len(v) = n /\ \A i \in 1..n : v[i] = w[i + k]
  BY <1>3, <1>4
<1> QED
  BY <1>2, <1>3, <1>5, <1>6 DEF Rest

(* The line after a read starts where the read ended.                      *)
LEMMA LineRest ==
  ASSUME NEW s, NEW h, NEW w, NEW pk, NEW pl, Lies(s, h, w, pk, pl), NEW k \in 0..Len(w),
         NEW v, Rest(w, v, k), NEW h2, Range(h) \subseteq Range(h2)
  PROVE  LineFrom(s, h2, v, pk[k + 1], pl[k + 1])
<1>1. /\ Len(w) \in Nat /\ k \in Nat /\ Len(v) \in Nat /\ Len(v) = Len(w) - k
      /\ pk \in [1..(Len(w) + 1) -> Nat] /\ pl \in [1..(Len(w) + 1) -> Nat]
  BY DEF Lies, Rest
<1>2. PICK pk2, pl2 : pk2 = [i \in 1..(Len(v) + 1) |-> pk[i + k]]
                      /\ pl2 = [i \in 1..(Len(v) + 1) |-> pl[i + k]]
  OBVIOUS
<1>3. \A i \in 1..(Len(v) + 1) : /\ i + k \in 1..(Len(w) + 1)
                                 /\ pk2[i] = pk[i + k] /\ pl2[i] = pl[i + k]
  BY <1>1, <1>2
<1>4. pk2 \in [1..(Len(v) + 1) -> Nat] /\ pl2 \in [1..(Len(v) + 1) -> Nat]
  BY <1>1, <1>2, <1>3
<1>5. ASSUME NEW i \in 1..Len(v)
      PROVE  /\ pk2[i] \in 1..Len(s) /\ pl2[i] \in 1..Len(Frame(s, pk2[i]))
             /\ Moves(s, pk2[i], pl2[i], pk2[i + 1], pl2[i + 1])
             /\ v[i] = Frame(s, pk2[i])[pl2[i]] \/ (i = 1 /\ v[i].of = 0 /\ pk2[i] \in Range(h2))
  <2>1. i \in 1..(Len(v) + 1) /\ i + 1 \in 1..(Len(v) + 1) /\ i + k \in 1..Len(w) /\ i + 1 + k = (i + k) + 1
    BY <1>1
  <2>2. PICK x : x = i + k
    OBVIOUS
  <2>3. pk2[i] = pk[x] /\ pl2[i] = pl[x] /\ pk2[i + 1] = pk[x + 1] /\ pl2[i + 1] = pl[x + 1]
        /\ v[i] = w[x] /\ x \in 1..Len(w)
    BY <1>3, <2>1, <2>2 DEF Rest
  <2>4. /\ pk[x] \in 1..Len(s) /\ pl[x] \in 1..Len(Frame(s, pk[x]))
        /\ Moves(s, pk[x], pl[x], pk[x + 1], pl[x + 1])
        /\ w[x] = Frame(s, pk[x])[pl[x]] \/ (x = 1 /\ w[x].of = 0 /\ pk[x] \in Range(h))
    BY <2>3 DEF Lies
  <2>5. x = 1 => i = 1
    BY <1>1, <2>2
  <2> QED
    BY <2>3, <2>4, <2>5
<1>6. pk2[Len(v) + 1] = Len(s) + 1 /\ pl2[Len(v) + 1] = 1
  <2>1. Len(v) + 1 \in 1..(Len(v) + 1) /\ (Len(v) + 1) + k = Len(w) + 1
    BY <1>1
  <2> QED
    BY <1>3, <2>1 DEF Lies
<1>7. pk2[1] = pk[k + 1] /\ pl2[1] = pl[k + 1]
  <2>1. 1 \in 1..(Len(v) + 1) /\ 1 + k = k + 1
    BY <1>1
  <2> QED
    BY <1>3, <2>1
<1>8. Lies(s, h2, v, pk2, pl2)
  BY <1>4, <1>5, <1>6 DEF Lies, Rest
<1> QED
  BY <1>7, <1>8 DEF LineFrom

(* The line with its next byte garbled.                                    *)
LEMMA LineGarbled ==
  ASSUME NEW s, NEW h, NEW w, NEW pk, NEW pl, Lies(s, h, w, pk, pl), Len(w) >= 1,
         NEW b \in Bytes, b.of = 0, NEW h2, pk[1] \in Range(h2)
  PROVE  Lies(s, h2, [w EXCEPT ![1] = b], pk, pl)
<1>1. PICK v : v = [w EXCEPT ![1] = b]
  OBVIOUS
<1>2. w \in Seq(Bytes) /\ Len(w) \in Nat /\ 1 \in 1..Len(w)
  BY DEF Lies
<1>3. v \in Seq(Bytes) /\ Len(v) = Len(w) /\ v[1] = b /\ \A i \in 1..Len(w) : i # 1 => v[i] = w[i]
  BY <1>1, <1>2
<1>4. ASSUME NEW i \in 1..Len(v)
      PROVE  v[i] = Frame(s, pk[i])[pl[i]] \/ (i = 1 /\ v[i].of = 0 /\ pk[i] \in Range(h2))
  BY <1>3, <1>4 DEF Lies
<1> QED
  BY <1>1, <1>3, <1>4 DEF Lies

(* A packet more is sent: the frames of the others stay as they are.       *)
OneMore(s, s2, shape) ==
  /\ s2 \in Seq(Shape) /\ Len(s) \in Nat /\ Len(s2) = Len(s) + 1
  /\ \A n \in 1..Len(s) : s2[n] = s[n] /\ Frame(s2, n) = Frame(s, n)
  /\ s2[Len(s) + 1] = shape /\ Frame(s2, Len(s) + 1) = EncodeKissFrame(Len(s) + 1, shape)
  /\ Frame(s2, Len(s) + 1) \in Seq(Bytes)

(* The packets sent before are numbered and framed as they were.           *)
LEMMA SameFrames ==
  ASSUME NEW s \in Seq(Shape), NEW shape \in Shape, NEW s2, s2 = Append(s, shape)
  PROVE  OneMore(s, s2, shape)
<1>1. /\ s2 \in Seq(Shape) /\ Len(s) \in Nat /\ Len(s2) = Len(s) + 1
      /\ \A n \in 1..Len(s) : s2[n] = s[n]
      /\ s2[Len(s) + 1] = shape
  BY AppendShape
<1>2. Len(s) + 1 \in 1..Len(s2)
  BY <1>1
<1>3. Frame(s2, Len(s) + 1) \in Seq(Bytes)
  BY <1>1, <1>2, SentFramed DEF Framed
<1>4. \A n \in 1..Len(s) : Frame(s2, n) = Frame(s, n)
  BY <1>1 DEF Frame
<1> QED
  BY <1>1, <1>3, <1>4 DEF Frame, OneMore

(* The line with one frame more.                                           *)
LEMMA LineSent ==
  ASSUME NEW s \in Seq(Shape), NEW shape \in Shape, NEW s2, s2 = Append(s, shape),
         NEW h, NEW w, NEW w2, w2 = w \o EncodeKissFrame(Len(s2), shape),
         NEW pk, NEW pl, Lies(s, h, w, pk, pl)
  PROVE  LineFrom(s2, h, w2, pk[1], pl[1])
<1>1. PICK n, l, f, v : n = Len(s) + 1 /\ f = Frame(s2, n) /\ l = Len(f) /\ v = w \o f
  OBVIOUS
<1>2. /\ s2 \in Seq(Shape) /\ Len(s) \in Nat /\ Len(s2) = n /\ n \in 1..Len(s2) /\ n \in Nat
      /\ \A i \in 1..Len(s) : s2[i] = s[i] /\ Frame(s2, i) = Frame(s, i)
      /\ f = EncodeKissFrame(Len(s2), shape) /\ f \in Seq(Bytes) /\ l \in Nat /\ l >= 4
  <2>1. /\ s2 \in Seq(Shape) /\ Len(s) \in Nat /\ Len(s2) = Len(s) + 1
        /\ \A i \in 1..Len(s) : s2[i] = s[i] /\ Frame(s2, i) = Frame(s, i)
        /\ s2[Len(s) + 1] = shape /\ Frame(s2, Len(s) + 1) = EncodeKissFrame(Len(s) + 1, shape)
        /\ Frame(s2, Len(s) + 1) \in Seq(Bytes)
    <3>1. OneMore(s, s2, shape)
      BY SameFrames
    <3> QED
      BY <3>1 DEF OneMore
  <2>2. n \in Nat /\ n \in 1..Len(s2)
    BY <1>1, <2>1
  <2>3. Len(Frame(s2, n)) \in Nat /\ Len(Frame(s2, n)) >= 4
    BY <2>1, <2>2, SentFramed
  <2> QED
    BY <1>1, <2>1, <2>2, <2>3
<1>3. w \in Seq(Bytes) /\ Len(w) \in Nat
      /\ pk \in [1..(Len(w) + 1) -> Nat] /\ pl \in [1..(Len(w) + 1) -> Nat]
      /\ pk[Len(w) + 1] = n /\ pl[Len(w) + 1] = 1
  BY <1>1 DEF Lies
<1>4. /\ v \in Seq(Bytes) /\ Len(v) = Len(w) + l
      /\ \A i \in 1..Len(w) : v[i] = w[i]
      /\ \A i \in 1..l : v[Len(w) + i] = f[i]
  BY <1>1, <1>2, <1>3, JoinShape
<1>0. Len(w) \in Nat /\ l \in Nat /\ l >= 4 /\ n \in Nat /\ Len(v) \in Nat /\ Len(v) = Len(w) + l
  BY <1>2, <1>3, <1>4
<1>5. PICK pk2, pl2 :
        /\ pk2 = [i \in 1..(Len(v) + 1) |-> IF i <= Len(w) THEN pk[i] ELSE IF i <= Len(w) + l THEN n ELSE n + 1]
        /\ pl2 = [i \in 1..(Len(v) + 1) |-> IF i <= Len(w) THEN pl[i] ELSE IF i <= Len(w) + l THEN i - Len(w) ELSE 1]
  OBVIOUS
<1>6. /\ \A i \in 1..(Len(w) + 1) : pk2[i] = pk[i] /\ pl2[i] = pl[i]
      /\ \A i \in 1..l : pk2[Len(w) + i] = n /\ pl2[Len(w) + i] = i
      /\ pk2[Len(v) + 1] = n + 1 /\ pl2[Len(v) + 1] = 1
  <2>1. \A i \in 1..Len(w) : i \in 1..(Len(v) + 1) /\ i <= Len(w)
    BY <1>2, <1>3, <1>4
  <2>2. \A i \in 1..l : Len(w) + i \in 1..(Len(v) + 1) /\ ~(Len(w) + i <= Len(w)) /\ Len(w) + i <= Len(w) + l
                        /\ (Len(w) + i) - Len(w) = i
    BY <1>2, <1>3, <1>4
  <2>3. Len(v) + 1 \in 1..(Len(v) + 1) /\ ~(Len(v) + 1 <= Len(w)) /\ ~(Len(v) + 1 <= Len(w) + l)
    BY <1>2, <1>3, <1>4
  <2>4. \A i \in 1..Len(w) : pk2[i] = pk[i] /\ pl2[i] = pl[i]
    BY <1>5, <2>1
  <2>5. \A i \in 1..l : pk2[Len(w) + i] = n /\ pl2[Len(w) + i] = i
    BY <1>5, <2>2
  <2>6. pk2[Len(w) + 1] = n /\ pl2[Len(w) + 1] = 1
    BY <1>2, <2>5
  <2>7. \A i \in 1..(Len(w) + 1) : i \in 1..Len(w) \/ i = Len(w) + 1
    BY <1>3
  <2> QED
    BY <1>3, <1>5, <2>3, <2>4, <2>5, <2>6, <2>7
<1>7. pk2 \in [1..(Len(v) + 1) -> Nat] /\ pl2 \in [1..(Len(v) + 1) -> Nat]
  <2>1. ASSUME NEW i \in 1..(Len(v) + 1)
        PROVE  pk2[i] \in Nat /\ pl2[i] \in Nat
    <3>1. CASE i <= Len(w) + 1
      <4>1. i \in 1..(Len(w) + 1)
        BY <1>0, <3>1
      <4>2. pk2[i] = pk[i] /\ pl2[i] = pl[i]
        BY <1>6, <4>1
      <4> QED
        BY <1>3, <4>1, <4>2
    <3>2. CASE i > Len(w) + 1 /\ i <= Len(w) + l
      <4>1. i - Len(w) \in 1..l /\ Len(w) + (i - Len(w)) = i
        BY <1>0, <3>2
      <4>2. pk2[i] = n /\ pl2[i] = i - Len(w)
        BY <1>6, <4>1
      <4> QED
        BY <1>2, <4>1, <4>2
    <3>3. CASE i > Len(w) + l
      <4>1. i = Len(v) + 1
        <5>1. i \in 1..(Len(v) + 1)
          OBVIOUS
        <5> QED
          BY ONLY <1>0, <3>3, <5>1
      <4> QED
        BY <1>2, <1>6, <4>1
    <3> QED
      BY <1>2, <1>3, <3>1, <3>2, <3>3
  <2> QED
    BY <1>5, <2>1
<1>8. ASSUME NEW i \in 1..Len(v)
      PROVE  /\ pk2[i] \in 1..Len(s2) /\ pl2[i] \in 1..Len(Frame(s2, pk2[i]))
             /\ Moves(s2, pk2[i], pl2[i], pk2[i + 1], pl2[i + 1])
             /\ v[i] = Frame(s2, pk2[i])[pl2[i]] \/ (i = 1 /\ v[i].of = 0 /\ pk2[i] \in Range(h))
  <2>1. CASE i <= Len(w)
    <3>1. i \in 1..Len(w) /\ i \in 1..(Len(w) + 1) /\ i + 1 \in 1..(Len(w) + 1)
      BY <1>3, <2>1
    <3>2. pk2[i] = pk[i] /\ pl2[i] = pl[i] /\ pk2[i + 1] = pk[i + 1] /\ pl2[i + 1] = pl[i + 1] /\ v[i] = w[i]
      BY <1>4, <1>6, <3>1
    <3>3. /\ pk[i] \in 1..Len(s) /\ pl[i] \in 1..Len(Frame(s, pk[i]))
          /\ Moves(s, pk[i], pl[i], pk[i + 1], pl[i + 1])
          /\ w[i] = Frame(s, pk[i])[pl[i]] \/ (i = 1 /\ w[i].of = 0 /\ pk[i] \in Range(h))
      BY <3>1 DEF Lies
    <3>4. Frame(s2, pk[i]) = Frame(s, pk[i]) /\ pk[i] \in 1..Len(s2)
      BY <1>1, <1>2, <3>3
    <3> QED
      BY <3>2, <3>3, <3>4 DEF Moves
  <2>2. CASE i > Len(w)
    <3>1. PICK x : x = i - Len(w)
      OBVIOUS
    <3>2. x \in 1..l /\ Len(w) + x = i
      BY <1>2, <1>3, <1>4, <2>2, <3>1
    <3>3. pk2[i] = n /\ pl2[i] = x /\ v[i] = f[x]
      BY <1>4, <1>6, <3>2
    <3>4. CASE x < l
      <4>1. x + 1 \in 1..l /\ Len(w) + (x + 1) = i + 1
        <5>1. x \in Nat /\ x >= 1 /\ x < l /\ i = Len(w) + x
          BY <1>0, <3>2, <3>4
        <5> QED
          BY <1>0, <5>1
      <4>2. pk2[i + 1] = n /\ pl2[i + 1] = x + 1
        BY <1>6, <4>1
      <4> QED
        BY <1>1, <1>2, <3>2, <3>3, <3>4, <4>2 DEF Moves
    <3>5. CASE x = l
      <4>1. i + 1 = Len(v) + 1
        BY <1>2, <1>3, <1>4, <3>2, <3>5
      <4>2. pk2[i + 1] = n + 1 /\ pl2[i + 1] = 1
        BY <1>6, <4>1
      <4>3. ~(x < Len(f))
        BY <1>1, <1>2, <3>5
      <4> QED
        BY <1>1, <1>2, <3>2, <3>3, <4>2, <4>3 DEF Moves
    <3> QED
      BY <1>2, <3>2, <3>4, <3>5
  <2> QED
    BY <1>3, <2>1, <2>2
<1>9. Lies(s2, h, v, pk2, pl2)
  BY <1>2, <1>4, <1>6, <1>7, <1>8 DEF Lies
<1>10. pk2[1] = pk[1] /\ pl2[1] = pl[1]
  BY <1>3, <1>6
<1>11. v = w2
  BY <1>1, <1>2
<1> QED
  BY <1>9, <1>10, <1>11 DEF LineFrom

(* ... and so does what is known of the decoder.                           *)
LEMMA InTurnSent ==
  ASSUME NEW s \in Seq(Shape), NEW shape \in Shape, NEW s2, s2 = Append(s, shape),
         NEW d \in Decoders, NEW m, NEW j, NEW q, InTurn(s, d, m, j, q)
  PROVE  InTurn(s2, d, m, j, q)
<1>1. /\ Len(s) \in Nat /\ Len(s2) = Len(s) + 1
      /\ \A n \in 1..Len(s) : Frame(s2, n) = Frame(s, n)
  <2>1. OneMore(s, s2, shape)
    BY SameFrames
  <2> QED
    BY <2>1 DEF OneMore
<1>2. ASSUME NEW x \in 1..Len(d.buffer)
      PROVE  Recent(s2, d.buffer[x], m, j, q)
  <2>1. PICK b : b = d.buffer[x]
    OBVIOUS
  <2>2. Recent(s, b, m, j, q)
    BY <2>1 DEF InTurn
  <2>3. b \in Bytes /\ b.of \in Nat
    <3>1. d.buffer \in Seq(Bytes)
      BY DEF Decoders
    <3>2. b \in Bytes
      BY <2>1, <3>1
    <3> QED
      BY <3>2 DEF Bytes
  <2>4. b.of # 0 /\ b.of <= Len(s) => b.of \in 1..Len(s)
    BY <1>1, <2>3
  <2>5. b.of # 0 /\ b.of = m => Frame(s2, m) = Frame(s, m)
    BY <1>1, <2>2, <2>4 DEF Recent
  <2>6. b.of # 0 => b.of <= Len(s2)
    BY <1>1, <2>2, <2>3 DEF Recent
  <2> QED
    BY <2>1, <2>2, <2>5, <2>6 DEF Recent
<1> QED
  BY <1>2 DEF InTurn

(* What the decoder is doing does not depend on what is sent later.        *)
LEMMA SyncSent ==
  ASSUME NEW s \in Seq(Shape), NEW shape \in Shape, NEW s2, s2 = Append(s, shape),
         NEW h, NEW d, NEW m \in Nat, NEW j, NEW q, NEW r,
         m \in 1..Len(s) \/ (m = Len(s) + 1 /\ j = 1), Sync(s, h, d, m, j, q, r)
  PROVE  Sync(s2, h, d, m, j, q, r)
<1>1. /\ Len(s) \in Nat /\ Len(s2) = Len(s) + 1
      /\ \A n \in 1..Len(s) : s2[n] = s[n] /\ Frame(s2, n) = Frame(s, n)
  <2>1. OneMore(s, s2, shape)
    BY SameFrames
  <2> QED
    BY <2>1 DEF OneMore
<1>2. Settled(s2, h, m, q, r)
  <2>1. ASSUME NEW n \in 1..Len(s2), n < m, Clean(h, n), Entered(h, n)
        PROVE  IF Fits(s2[n]) THEN Among(n, q) ELSE Reported(n, r)
    <3>1. n \in 1..Len(s)
      BY <1>1, <2>1
    <3>2. s2[n] = s[n] /\ (IF Fits(s[n]) THEN Among(n, q) ELSE Reported(n, r))
      BY <1>1, <2>1, <3>1 DEF Sync, Settled
    <3> QED
      BY <3>2
  <2> QED
    BY <2>1 DEF Settled
<1>3. j # 1 => Frame(s2, m) = Frame(s, m) /\ s2[m] = s[m]
  BY <1>1
<1>4. j # 1 => /\ ModeAt(s2, m, j) = ModeAt(s, m, j) /\ Count(s2, m, j) = Count(s, m, j)
  BY <1>3 DEF ModeAt, Count
<1>5. j # 1 => /\ Tracked(s, d, m, j) => Tracked(s2, d, m, j)
               /\ Aligned(s, d, m, j, r) => Aligned(s2, d, m, j, r)
  BY <1>3, <1>4 DEF Tracked, Aligned
<1> QED
  BY <1>2, <1>5 DEF Sync

-----------------------------------------------------------------------------
(* A read: feed takes the decoder through the bytes one by one.            *)
Feeds(f, d, w, n) ==
  /\ f \in [0..n -> Decoders] /\ f[0] = d
  /\ \A i \in 1..n : f[i] = FeedByte(f[i - 1], w[i])

(* feed, as a run over the bytes.                                          *)
LEMMA FeedRuns ==
  ASSUME NEW d \in Decoders, d.packets = <<>>, d.drops = <<>>, NEW bytes \in Seq(Bytes)
  PROVE  \E f : Feeds(f, d, bytes, Len(bytes)) /\ Feed(d, bytes) = f[Len(bytes)]
<1>1. PICK n : n = Len(bytes)
  OBVIOUS
<1>2. n \in Nat /\ \A i \in 1..n : bytes[i] \in Bytes
  BY <1>1
<1>3. [d EXCEPT !.packets = <<>>, !.drops = <<>>] = d
  BY DEF Decoders
<1>4. PICK T : T = [p \in Decoders \X (1..n) |-> FeedByte(p[1], bytes[p[2]])]
  OBVIOUS
<1>5. T \in [Decoders \X (1..n) -> Decoders]
      /\ \A c \in Decoders, i \in 1..n : T[<<c, i>>] = FeedByte(c, bytes[i])
  <2>1. \A c \in Decoders, i \in 1..n : FeedByte(c, bytes[i]) \in Decoders
    BY <1>2, FeedTyped
  <2> QED
    BY <1>4, <2>1
<1>6. PICK f \in [0..n -> Decoders] : Runs(f, T, d, n)
  BY <1>2, <1>5, Recursion
<1>7. Feeds(f, d, bytes, n)
  <2>1. ASSUME NEW i \in 1..n
        PROVE  f[i] = FeedByte(f[i - 1], bytes[i])
    <3>1. i - 1 \in 0..n /\ f[i] = T[<<f[i - 1], i>>]
      BY <1>2, <1>6 DEF Runs
    <3>2. f[i - 1] \in Decoders
      BY <3>1
    <3> QED
      BY <1>5, <3>1, <3>2
  <2>2. f[0] = d
    BY <1>6 DEF Runs
  <2> QED
    BY <2>1, <2>2 DEF Feeds
<1> DEFINE base == [d EXCEPT !.packets = <<>>, !.drops = <<>>]
           Step(u) == [i \in 0..Len(bytes) |-> IF i = 0 THEN base ELSE FeedByte(u[i - 1], bytes[i])]
           fed == CHOOSE u : u = Step(u)
<1>8. f = Step(f)
  <2>1. f = [i \in 0..Len(bytes) |-> f[i]]
    BY <1>1
  <2>2. \A i \in 0..n : f[i] = IF i = 0 THEN base ELSE FeedByte(f[i - 1], bytes[i])
    <3>1. f[0] = base
      BY <1>3, <1>7 DEF Feeds
    <3>2. \A i \in 0..n : i = 0 \/ i \in 1..n
      BY <1>2
    <3>3. \A i \in 1..n : i # 0 /\ f[i] = FeedByte(f[i - 1], bytes[i])
      BY <1>7 DEF Feeds
    <3> HIDE DEF base
    <3> QED
      BY <3>1, <3>2, <3>3
  <2> HIDE DEF base
  <2> QED
    BY <1>1, <2>1, <2>2
<1>9. fed = Step(fed)
  BY <1>8
<1>10. Feed(d, bytes) = fed[n]
  BY <1>1 DEF Feed
<1> HIDE DEF fed
<1>11. \A i \in 0..n : fed[i] = IF i = 0 THEN base ELSE FeedByte(fed[i - 1], bytes[i])
  BY <1>1, <1>9
<1>12. fed[0] = d /\ \A i \in 1..n : fed[i] = FeedByte(fed[i - 1], bytes[i])
  <2>1. 0 \in 0..n /\ \A i \in 1..n : i \in 0..n /\ i # 0
    BY <1>2
  <2> HIDE DEF base
  <2>2. base = d
    BY <1>3 DEF base
  <2> QED
    BY <1>11, <2>1, <2>2
<1> DEFINE Same == {i \in Nat : i <= n => fed[i] = f[i]}
<1>13. 0 \in Same
  BY <1>7, <1>12 DEF Feeds
<1>14. ASSUME NEW i \in Same
       PROVE  i + 1 \in Same
  <2> SUFFICES ASSUME i + 1 <= n PROVE fed[i + 1] = f[i + 1]
    OBVIOUS
  <2>1. i \in Nat /\ i + 1 \in 1..n /\ (i + 1) - 1 = i /\ fed[i] = f[i]
    BY <1>2
  <2>2. fed[i + 1] = FeedByte(fed[i], bytes[i + 1])
    BY <1>12, <2>1
  <2>3. f[i + 1] = FeedByte(f[i], bytes[i + 1])
    BY <1>7, <2>1 DEF Feeds
  <2> QED
    BY <2>1, <2>2, <2>3
<1> HIDE DEF Same
<1>15. Same = Nat
  <2>1. Same \in SUBSET Nat
    BY DEF Same
  <2> QED
    BY <1>13, <1>14, <2>1, SetInduction
<1>16. fed[n] = f[n]
  BY <1>2, <1>15 DEF Same
<1> QED
  BY <1>1, <1>7, <1>10, <1>16

(* What has been decoded before a read, and in it.                         *)
LEMMA JoinGrows ==
  ASSUME NEW S, NEW q \in Seq(S), NEW p \in Seq(S), NEW p2 \in Seq(S)
  PROVE  GrowsWith(q \o p, q \o p2, p, p2)
<1>1. ASSUME NEW x, p2 = Append(p, x)
      PROVE  q \o p2 = Append(q \o p, x)
  <2>1. x \in S
    <3>1. Len(p2) = Len(p) + 1 /\ p2[Len(p) + 1] = x /\ Len(p) + 1 \in 1..Len(p2)
      BY <1>1
    <3> QED
      BY <3>1
  <2> QED
    BY <1>1, <2>1
<1> QED
  BY <1>1 DEF GrowsWith

(* Each byte of a read arrives at its place, and has its outcome.          *)
LEMMA FeedPlaces ==
  ASSUME NEW s, NEW h, NEW w, NEW pk, NEW pl, Lies(s, h, w, pk, pl), NEW k \in 0..Len(w),
         NEW d \in Decoders, NEW f, Feeds(f, d, w, k), NEW i \in Nat, i + 1 <= k
  PROVE  /\ i + 1 \in 1..Len(w) /\ pk[i + 1] \in 1..Len(s) /\ pl[i + 1] \in 1..Len(Frame(s, pk[i + 1]))
         /\ Moves(s, pk[i + 1], pl[i + 1], pk[(i + 1) + 1], pl[(i + 1) + 1])
         /\ w[i + 1] \in Bytes /\ Arrives(s, h, pk[i + 1], pl[i + 1], w[i + 1])
         /\ f[i] \in Decoders /\ f[i + 1] \in Decoders
         /\ f[i + 1] = FeedByte(f[i], w[i + 1]) /\ Outcome(f[i], w[i + 1], f[i + 1])
<1>1. Len(w) \in Nat
  BY DEF Lies
<1>2. i + 1 \in 1..Len(w) /\ i + 1 \in 1..k /\ i \in 0..k /\ i + 1 \in 0..k /\ (i + 1) - 1 = i
  BY <1>1
<1>3. f[i] \in Decoders /\ f[i + 1] \in Decoders /\ f[i + 1] = FeedByte(f[i], w[i + 1])
  BY <1>2 DEF Feeds
<1>4. w[i + 1] \in Bytes /\ Arrives(s, h, pk[i + 1], pl[i + 1], w[i + 1])
  BY <1>2, LineArrives
<1>5. Outcome(f[i], w[i + 1], FeedByte(f[i], w[i + 1]))
  BY <1>3, <1>4, FeedOutcome
<1> QED
  BY <1>2, <1>3, <1>4, <1>5 DEF Lies

(* After i bytes of a read.                                                *)
ReadInTurn(f, pk, pl, q, i) ==
  Bounded(f[i]) /\ InTurn(sent, f[i], pk[i + 1], pl[i + 1], q \o f[i].packets)

(* What is decoded stays in turn during a read.                            *)
LEMMA FeedInTurn ==
  ASSUME sent \in Seq(Shape), NEW h, NEW w, NEW pk, NEW pl, Lies(sent, h, w, pk, pl),
         NEW k \in 0..Len(w), NEW d \in Decoders, NEW f, Feeds(f, d, w, k),
         Bounded(d), d.packets = <<>>, NEW q \in Seq(Nat), InTurn(sent, d, pk[1], pl[1], q)
  PROVE  \A i \in 0..k : ReadInTurn(f, pk, pl, q, i)
<1> DEFINE Good == {i \in Nat : i <= k => ReadInTurn(f, pk, pl, q, i)}
<1>1. 0 \in Good
  <2>1. f[0] = d /\ q \o d.packets = q /\ 0 + 1 = 1
    BY DEF Feeds
  <2> QED
    BY <2>1 DEF ReadInTurn
<1>2. ASSUME NEW i \in Good
      PROVE  i + 1 \in Good
  <2> SUFFICES ASSUME i + 1 <= k PROVE ReadInTurn(f, pk, pl, q, i + 1)
    OBVIOUS
  <2>1. i \in Nat /\ ReadInTurn(f, pk, pl, q, i)
    BY DEF Lies
  <2> HIDE DEF Good
  <2>2. PICK m, j, m2, j2, b, c, e :
          /\ m = pk[i + 1] /\ j = pl[i + 1] /\ m2 = pk[(i + 1) + 1] /\ j2 = pl[(i + 1) + 1]
          /\ b = w[i + 1] /\ c = f[i] /\ e = f[i + 1]
    OBVIOUS
  <2>3. /\ m \in 1..Len(sent) /\ j \in 1..Len(Frame(sent, m)) /\ Moves(sent, m, j, m2, j2)
        /\ b \in Bytes /\ Arrives(sent, h, m, j, b) /\ c \in Decoders /\ e \in Decoders
        /\ e = FeedByte(c, b) /\ Outcome(c, b, e)
    BY <2>1, <2>2, FeedPlaces
  <2>4. Bounded(c) /\ InTurn(sent, c, m, j, q \o c.packets)
    BY <2>1, <2>2 DEF ReadInTurn
  <2>5. Bounded(e)
    BY <2>3, <2>4, FeedBounded
  <2>6. PICK q1, q2 : q1 = q \o c.packets /\ q2 = q \o e.packets
    OBVIOUS
  <2>7. GrowsWith(q1, q2, c.packets, e.packets)
    <3>1. c.packets \in Seq(Nat) /\ e.packets \in Seq(Nat)
      BY <2>3 DEF Decoders
    <3> QED
      BY <2>6, <3>1, JoinGrows
  <2>8. InTurn(sent, e, m2, j2, q2)
    <3>1. sent \in Seq(Shape) /\ InTurn(sent, c, m, j, q1)
      BY <2>4, <2>6
    <3> QED
      BY ONLY <2>3, <2>7, <3>1, InTurnStep
  <2> QED
    BY <2>2, <2>5, <2>6, <2>8 DEF ReadInTurn
<1> HIDE DEF Good
<1>3. Good = Nat
  <2>1. Good \in SUBSET Nat
    BY DEF Good
  <2> QED
    BY <1>1, <1>2, <2>1, SetInduction
<1> QED
  BY <1>3 DEF Good

ReadSync(f, h, pk, pl, q, r, i) ==
  Sync(sent, h, f[i], pk[i + 1], pl[i + 1], q \o f[i].packets, r \o f[i].drops)

(* The decoder stays in step with the line during a read.                  *)
LEMMA FeedSync ==
  ASSUME NoFragments, sent \in Seq(Shape), NEW h, NEW w, NEW pk, NEW pl, Lies(sent, h, w, pk, pl),
         NEW k \in 0..Len(w), NEW d \in Decoders, NEW f, Feeds(f, d, w, k),
         \A i \in 0..k : Bounded(f[i]), d.packets = <<>>, d.drops = <<>>,
         NEW q \in Seq(Nat), NEW r \in Seq(Events), Sync(sent, h, d, pk[1], pl[1], q, r)
  PROVE  \A i \in 0..k : ReadSync(f, h, pk, pl, q, r, i)
<1> DEFINE Good == {i \in Nat : i <= k => ReadSync(f, h, pk, pl, q, r, i)}
<1>1. 0 \in Good
  <2>1. f[0] = d /\ q \o d.packets = q /\ r \o d.drops = r /\ 0 + 1 = 1
    BY DEF Feeds
  <2> QED
    BY <2>1 DEF ReadSync
<1>2. ASSUME NEW i \in Good
      PROVE  i + 1 \in Good
  <2> SUFFICES ASSUME i + 1 <= k PROVE ReadSync(f, h, pk, pl, q, r, i + 1)
    OBVIOUS
  <2>1. i \in Nat /\ i \in 0..k /\ ReadSync(f, h, pk, pl, q, r, i)
    BY DEF Lies
  <2> HIDE DEF Good
  <2>2. PICK m, j, m2, j2, b, c, e :
          /\ m = pk[i + 1] /\ j = pl[i + 1] /\ m2 = pk[(i + 1) + 1] /\ j2 = pl[(i + 1) + 1]
          /\ b = w[i + 1] /\ c = f[i] /\ e = f[i + 1]
    OBVIOUS
  <2>3. /\ m \in 1..Len(sent) /\ j \in 1..Len(Frame(sent, m)) /\ Moves(sent, m, j, m2, j2)
        /\ b \in Bytes /\ Arrives(sent, h, m, j, b) /\ c \in Decoders /\ e \in Decoders
        /\ e = FeedByte(c, b) /\ Outcome(c, b, e)
    BY <2>1, <2>2, FeedPlaces, SMTT(30)
  <2>4. PICK q1, q2, r1, r2 : /\ q1 = q \o c.packets /\ q2 = q \o e.packets
                              /\ r1 = r \o c.drops /\ r2 = r \o e.drops
    OBVIOUS
  <2>5. Bounded(c) /\ Sync(sent, h, c, m, j, q1, r1)
    BY <2>1, <2>2, <2>4 DEF ReadSync
  <2>6. /\ c.packets \in Seq(Nat) /\ e.packets \in Seq(Nat)
        /\ c.drops \in Seq(Events) /\ e.drops \in Seq(Events)
    BY <2>3 DEF Decoders
  <2>7. q1 \in Seq(Nat) /\ q2 \in Seq(Nat) /\ r1 \in Seq(Events) /\ r2 \in Seq(Events)
    BY <2>4, <2>6, JoinShape
  <2>8. GrowsWith(q1, q2, c.packets, e.packets) /\ GrowsWith(r1, r2, c.drops, e.drops)
    BY <2>4, <2>6, JoinGrows
  <2>9. Sync(sent, h, e, m2, j2, q2, r2)
    BY <2>3, <2>5, <2>7, <2>8, SyncRead
  <2> QED
    BY <2>2, <2>4, <2>9 DEF ReadSync
<1> HIDE DEF Good
<1>3. Good = Nat
  <2>1. Good \in SUBSET Nat
    BY DEF Good
  <2> QED
    BY <1>1, <1>2, <2>1, SetInduction
<1> QED
  BY <1>3 DEF Good

-----------------------------------------------------------------------------
(* Frames transport: nothing is damaged, and a read that brings bytes brings *)
(* the next frame from its first byte to its last.                         *)
LEMMA WholeFrame ==
  ASSUME NEW s \in Seq(Shape), NEW w, NEW pk, NEW pl, Lies(s, <<>>, w, pk, pl),
         Len(w) >= 1, pl[1] = 1, NEW n, n = Cardinality({i \in DOMAIN w : w[i].of = w[1].of})
  PROVE  /\ n \in 1..Len(w) /\ pk[1] \in 1..Len(s)
         /\ pk[n + 1] = pk[1] + 1 /\ pl[n + 1] = 1
<1>1. PICK m, l : m = pk[1] /\ l = Len(Frame(s, m))
  OBVIOUS
<1>2. /\ Len(w) \in Nat /\ 1 \in 1..Len(w) /\ m \in 1..Len(s) /\ m \in Nat /\ Len(s) \in Nat
      /\ l \in Nat /\ l >= 4 /\ DOMAIN w = 1..Len(w)
      /\ pk[Len(w) + 1] = Len(s) + 1
  <2>1. w \in Seq(Bytes) /\ pk[Len(w) + 1] = Len(s) + 1
    BY DEF Lies
  <2>2. Len(w) \in Nat /\ 1 \in 1..Len(w) /\ DOMAIN w = 1..Len(w)
    BY <2>1
  <2>3. m \in 1..Len(s)
    BY <1>1, <2>2 DEF Lies
  <2> QED
    BY <1>1, <2>1, <2>2, <2>3, SentFramed
<1>3. ASSUME NEW i \in 1..Len(w)
      PROVE  /\ pk[i] \in 1..Len(s) /\ pl[i] \in 1..Len(Frame(s, pk[i]))
             /\ Moves(s, pk[i], pl[i], pk[i + 1], pl[i + 1])
             /\ w[i].of = pk[i] /\ pk[i] \in Nat /\ pk[i + 1] \in Nat /\ pk[i + 1] >= pk[i]
  <2>1. /\ pk[i] \in 1..Len(s) /\ pl[i] \in 1..Len(Frame(s, pk[i]))
        /\ Moves(s, pk[i], pl[i], pk[i + 1], pl[i + 1])
        /\ w[i] = Frame(s, pk[i])[pl[i]] \/ pk[i] \in Range(<<>>)
    BY DEF Lies
  <2>2. Range(<<>>) = {}
    BY DEF Range
  <2>3. w[i].of = pk[i]
    BY <2>1, <2>2, FrameBytes
  <2>4. pk[i + 1] \in Nat /\ pk[i + 1] >= pk[i]
    BY <2>1, MovesOn
  <2> QED
    BY <2>1, <2>3, <2>4
<1> DEFINE In == {i \in Nat : i \in 1..l => i \in 1..Len(w) /\ pk[i] = m /\ pl[i] = i}
<1>4. In = Nat
  <2>1. 0 \in In
    OBVIOUS
  <2>2. ASSUME NEW i \in In
        PROVE  i + 1 \in In
    <3> SUFFICES ASSUME i + 1 \in 1..l
                 PROVE  i + 1 \in 1..Len(w) /\ pk[i + 1] = m /\ pl[i + 1] = i + 1
      OBVIOUS
    <3>1. CASE i = 0
      BY <1>1, <1>2, <3>1
    <3>2. CASE i # 0
      <4>1. i \in 1..l /\ i < l
        BY <1>2, <3>2
      <4>2. i \in 1..Len(w) /\ pk[i] = m /\ pl[i] = i
        BY <4>1
      <4>3. Moves(s, m, i, pk[i + 1], pl[i + 1])
        BY <1>3, <4>2
      <4>4. pk[i + 1] = m /\ pl[i + 1] = i + 1
        BY <1>1, <4>1, <4>3 DEF Moves
      <4>5. i # Len(w)
        <5>1. m # Len(s) + 1
          BY <1>2
        <5>2. i = Len(w) => pk[i + 1] = Len(s) + 1
          BY <1>2
        <5> QED
          BY <4>4, <5>1, <5>2
      <4>6. i + 1 \in 1..Len(w)
        <5>1. Len(w) \in Nat /\ i \in 1..Len(w)
          BY <1>2, <4>2
        <5> QED
          BY <4>5, <5>1
      <4> QED
        BY <4>4, <4>6
    <3> QED
      BY <3>1, <3>2
  <2> QED
    BY <2>1, <2>2, SetInduction
<1>5. \A i \in 1..l : i \in 1..Len(w) /\ pk[i] = m /\ pl[i] = i
  <2>1. \A i \in 1..l : i \in In
    BY <1>4
  <2> QED
    BY <2>1
<1>6. l \in 1..Len(w) /\ pk[l + 1] = m + 1 /\ pl[l + 1] = 1
  <2>1. l \in 1..l
    BY <1>2
  <2>2. l \in 1..Len(w) /\ pk[l] = m /\ pl[l] = l
    BY <1>5, <2>1
  <2>3. Moves(s, m, l, pk[l + 1], pl[l + 1])
    BY <1>3, <2>2
  <2> QED
    BY <1>1, <1>2, <2>2, <2>3 DEF Moves
<1> DEFINE After == {i \in Nat : i > l /\ i <= Len(w) => pk[i] > m}
<1>7. After = Nat
  <2>1. 0 \in After
    BY <1>2
  <2>2. ASSUME NEW i \in After
        PROVE  i + 1 \in After
    <3> SUFFICES ASSUME i + 1 > l, i + 1 <= Len(w) PROVE pk[i + 1] > m
      OBVIOUS
    <3>1. CASE i = l
      BY <1>2, <1>6, <3>1
    <3>2. CASE i # l
      <4>1. i > l /\ i <= Len(w) /\ i \in 1..Len(w)
        BY <1>2, <3>2
      <4>2. pk[i] > m
        BY <4>1
      <4>3. pk[i] \in Nat /\ pk[i + 1] \in Nat /\ pk[i + 1] >= pk[i] /\ m \in Nat
        BY <1>2, <1>3, <4>1
      <4> QED
        BY <4>2, <4>3
    <3> QED
      BY <3>1, <3>2
  <2> QED
    BY <2>1, <2>2, SetInduction
<1>8. \A i \in 1..Len(w) : i > l => pk[i] > m
  <2>1. \A i \in 1..Len(w) : i \in After
    BY <1>7
  <2> QED
    BY <2>1
<1> HIDE DEF In, After
<1>9. {i \in DOMAIN w : w[i].of = w[1].of} = 1..l
  <2>1. w[1].of = m
    BY <1>1, <1>2, <1>3
  <2>2. ASSUME NEW i \in 1..Len(w)
        PROVE  w[i].of = m <=> i \in 1..l
    <3>1. w[i].of = pk[i] /\ pk[i] \in Nat
      BY <1>3
    <3>2. i \in 1..l \/ i > l
      BY <1>2
    <3> QED
      BY <1>2, <1>5, <1>8, <3>1, <3>2
  <2>3. \A i \in 1..l : i \in 1..Len(w)
    BY <1>5
  <2> QED
    BY <1>2, <2>1, <2>2, <2>3
<1>10. n = l
  <2>1. Cardinality(1..l) = l
    BY <1>2, FS_Interval
  <2> QED
    BY <1>9, <2>1
<1> QED
  BY <1>1, <1>2, <1>6, <1>10

-----------------------------------------------------------------------------
(* The link in step with what was sent: somewhere in a frame, pk[1] and    *)
(* pl[1], the next byte is read.  On the frames transport the line is never *)
(* damaged and read between frames.                                        *)
Link(pk, pl) ==
  /\ Lies(sent, damaged, wire, pk, pl)
  /\ InTurn(sent, decoder, pk[1], pl[1], taken \o monitor)
  /\ NoFragments => Sync(sent, damaged, decoder, pk[1], pl[1], taken \o monitor, drops)
  /\ transport = "frames" => /\ damaged = <<>> /\ pl[1] = 1
                             /\ \A n \in 1..Len(sent) : Fits(sent[n])

LinkInv ==
  /\ sent \in Seq(Shape) /\ damaged \in Seq(Nat)
  /\ taken \in Seq(Nat) /\ monitor \in Seq(Nat) /\ drops \in Seq(Events)
  /\ Bounded(decoder) /\ decoder.packets = <<>> /\ decoder.drops = <<>>
  /\ \E pk, pl : Link(pk, pl)

(* Nothing is sent and nothing read.                                       *)
LEMMA LinkStarts == Init => LinkInv
<1> SUFFICES ASSUME Init PROVE LinkInv
  OBVIOUS
<1>1. /\ sent = <<>> /\ wire = <<>> /\ damaged = <<>> /\ monitor = <<>> /\ taken = <<>> /\ drops = <<>>
      /\ decoder = [mode |-> "not_started", first |-> FALSE, buffer |-> <<>>,
                    packets |-> <<>>, drops |-> <<>>]
  BY DEF Init, LinkInit
<1>2. /\ decoder.mode = "not_started" /\ decoder.buffer = <<>> /\ Len(decoder.buffer) = 0
      /\ decoder.packets = <<>> /\ decoder.drops = <<>> /\ decoder \in Decoders
  BY <1>1 DEF Decoders
<1>3. Bounded(decoder)
  <2>1. Limit \in Nat
    BY KissAssumption DEF Limit
  <2> QED
    BY <1>2, <2>1 DEF Bounded
<1>4. PICK pk, pl : pk = [i \in 1..1 |-> 1] /\ pl = [i \in 1..1 |-> 1]
  OBVIOUS
<1>5. Len(sent) = 0 /\ Len(wire) = 0 /\ wire \in Seq(Bytes) /\ sent \in Seq(Shape)
  BY <1>1
<1>6. Lies(sent, damaged, wire, pk, pl) /\ pk[1] = 1 /\ pl[1] = 1
  BY <1>4, <1>5 DEF Lies
<1>7. taken \o monitor = <<>> /\ Len(taken \o monitor) = 0 /\ taken \o monitor \in Seq(Nat)
  BY <1>1
<1>8. InTurn(sent, decoder, 1, 1, taken \o monitor)
  BY <1>2, <1>7 DEF InTurn
<1>9. Sync(sent, damaged, decoder, 1, 1, taken \o monitor, drops)
  BY <1>2, <1>5 DEF Sync, Settled, Clear
<1>10. Link(pk, pl)
  BY <1>1, <1>5, <1>6, <1>8, <1>9 DEF Link
<1> QED
  BY <1>1, <1>2, <1>3, <1>5, <1>10 DEF LinkInv

(* Whatever leaves the link alone.                                         *)
LEMMA LinkStays ==
  ASSUME LinkInv, UNCHANGED linkVars, transport' = transport
  PROVE  LinkInv'
BY DEF LinkInv, Link, linkVars

(* The place the line is at.                                               *)
LEMMA LinePlace ==
  ASSUME NEW s \in Seq(Shape), NEW h, NEW w, NEW pk, NEW pl, Lies(s, h, w, pk, pl)
  PROVE  /\ Len(s) \in Nat /\ Len(w) \in Nat /\ pk[1] \in Nat
         /\ pk[1] \in 1..Len(s) \/ (pk[1] = Len(s) + 1 /\ pl[1] = 1)
         /\ Len(w) >= 1 => /\ pk[1] \in 1..Len(s) /\ pl[1] \in 1..Len(Frame(s, pk[1]))
                           /\ Moves(s, pk[1], pl[1], pk[2], pl[2])
<1>1. /\ Len(s) \in Nat /\ Len(w) \in Nat /\ pk \in [1..(Len(w) + 1) -> Nat]
      /\ pk[Len(w) + 1] = Len(s) + 1 /\ pl[Len(w) + 1] = 1
  BY DEF Lies
<1>2. CASE Len(w) = 0
  BY <1>1, <1>2
<1>3. CASE Len(w) >= 1
  <2>1. 1 \in 1..Len(w) /\ 1 \in 1..(Len(w) + 1) /\ 1 + 1 = 2
    BY <1>1, <1>3
  <2>2. /\ pk[1] \in 1..Len(s) /\ pl[1] \in 1..Len(Frame(s, pk[1]))
        /\ Moves(s, pk[1], pl[1], pk[1 + 1], pl[1 + 1])
    BY <2>1 DEF Lies
  <2> QED
    BY <1>1, <2>1, <2>2
<1> QED
  BY <1>1, <1>2, <1>3

(* The peer sends a packet.                                                *)
LEMMA LinkSent ==
  ASSUME LinkInv, NEW shape \in Shape, PeerSend(shape), transport' = transport,
         transport = "frames" => Fits(shape)
  PROVE  LinkInv'
<1>1. PICK pk, pl : Link(pk, pl)
  BY DEF LinkInv
<1>2. PICK s, s2, w, w2, h, d, q, r :
        /\ s = sent /\ s2 = Append(s, shape) /\ w = wire /\ w2 = w \o EncodeKissFrame(Len(s2), shape)
        /\ h = damaged /\ d = decoder /\ q = taken \o monitor /\ r = drops
  OBVIOUS
<1>3. /\ sent' = s2 /\ wire' = w2 /\ damaged' = h /\ decoder' = d /\ (taken \o monitor)' = q
      /\ UNCHANGED <<drops, damaged, decoder, taken, monitor>>
  BY <1>2 DEF PeerSend
<1>4. s \in Seq(Shape) /\ d \in Decoders /\ Lies(s, h, w, pk, pl)
  BY <1>1, <1>2 DEF LinkInv, Link, Bounded
<1>5. PICK pk2, pl2 : Lies(s2, h, w2, pk2, pl2) /\ pk2[1] = pk[1] /\ pl2[1] = pl[1]
  <2>1. s2 = Append(s, shape) /\ w2 = w \o EncodeKissFrame(Len(s2), shape)
    BY <1>2
  <2>2. LineFrom(s2, h, w2, pk[1], pl[1])
    BY <1>4, <2>1, LineSent
  <2> QED
    BY <2>2 DEF LineFrom
<1>6. InTurn(s2, d, pk[1], pl[1], q)
  <2>1. InTurn(s, d, pk[1], pl[1], q)
    BY <1>1, <1>2 DEF Link
  <2> QED
    BY <1>2, <1>4, <2>1, InTurnSent
<1>7. NoFragments => Sync(s2, h, d, pk[1], pl[1], q, r)
  <2> SUFFICES ASSUME NoFragments PROVE Sync(s2, h, d, pk[1], pl[1], q, r)
    OBVIOUS
  <2>1. Sync(s, h, d, pk[1], pl[1], q, r)
    BY <1>1, <1>2 DEF Link
  <2>2. /\ pk[1] \in Nat
        /\ pk[1] \in 1..Len(s) \/ (pk[1] = Len(s) + 1 /\ pl[1] = 1)
    BY <1>4, LinePlace
  <2> QED
    BY <1>2, <1>4, <2>1, <2>2, SyncSent
<1>8. OneMore(s, s2, shape)
  BY <1>2, <1>4, SameFrames
<1>9. transport = "frames" => \A n \in 1..Len(s2) : Fits(s2[n])
  <2> SUFFICES ASSUME transport = "frames", NEW n \in 1..Len(s2) PROVE Fits(s2[n])
    OBVIOUS
  <2>1. n \in 1..Len(s) \/ n = Len(s) + 1
    BY <1>8 DEF OneMore
  <2>2. CASE n \in 1..Len(s)
    <3>1. Fits(s[n])
      BY <1>1, <1>2, <2>2 DEF Link
    <3> QED
      BY <1>8, <2>2, <3>1 DEF OneMore
  <2>3. CASE n = Len(s) + 1
    BY <1>8, <2>3 DEF OneMore
  <2> QED
    BY <2>1, <2>2, <2>3
<1>10. Link(pk2, pl2)'
  BY <1>1, <1>2, <1>3, <1>5, <1>6, <1>7, <1>9 DEF Link
<1>11. s2 \in Seq(Shape)
  BY <1>8 DEF OneMore
<1> QED
  BY <1>3, <1>10, <1>11 DEF LinkInv

(* A byte that never arrives leaves what is decoded in turn.               *)
LEMMA InTurnLost ==
  ASSUME NEW s \in Seq(Shape), NEW m \in 1..Len(s), NEW j \in 1..Len(Frame(s, m)),
         NEW m2, NEW j2, Moves(s, m, j, m2, j2),
         NEW d \in Decoders, NEW q, InTurn(s, d, m, j, q)
  PROVE  InTurn(s, d, m2, j2, q)
<1>1. m \in Nat /\ m2 \in Nat /\ m2 >= m
  BY MovesOn
<1>2. ASSUME NEW i \in 1..Len(q)
      PROVE  q[i] >= 1 /\ q[i] < m2
  <2>1. q[i] \in Nat /\ q[i] >= 1 /\ q[i] < m
    BY DEF InTurn
  <2> QED
    BY <1>1, <2>1
<1>3. ASSUME NEW x \in 1..Len(d.buffer)
      PROVE  Recent(s, d.buffer[x], m2, j2, q)
  <2>1. d.buffer \in Seq(Bytes)
    BY DEF Decoders
  <2>2. d.buffer[x] \in Bytes /\ Recent(s, d.buffer[x], m, j, q)
    BY <2>1 DEF InTurn
  <2> QED
    BY <2>2, RecentMoves
<1> QED
  BY <1>2, <1>3 DEF InTurn

(* The line loses or garbles its next byte.                                *)
LEMMA LinkDamaged ==
  ASSUME LinkInv, wire # <<>>, Damage(1), transport # "frames", transport' = transport
  PROVE  LinkInv'
<1>1. PICK pk, pl : Link(pk, pl)
  BY DEF LinkInv
<1>2. PICK s, w, h, h2, d, q, r, m, j :
        /\ s = sent /\ w = wire /\ h = damaged /\ h2 = Append(h, w[1].of)
        /\ d = decoder /\ q = taken \o monitor /\ r = drops /\ m = pk[1] /\ j = pl[1]
  OBVIOUS
<1>3. /\ sent' = s /\ damaged' = h2 /\ decoder' = d /\ (taken \o monitor)' = q
      /\ UNCHANGED <<sent, drops, decoder, taken, monitor>>
  BY <1>2 DEF Damage
<1>4. /\ s \in Seq(Shape) /\ h \in Seq(Nat) /\ d \in Decoders /\ Lies(s, h, w, pk, pl)
      /\ InTurn(s, d, m, j, q) /\ (NoFragments => Sync(s, h, d, m, j, q, r))
  BY <1>1, <1>2 DEF LinkInv, Link, Bounded
<1>5. w \in Seq(Bytes) /\ Len(w) \in Nat /\ Len(w) >= 1 /\ 1 \in 1..Len(w)
  BY <1>2, <1>4 DEF Lies
<1>6. /\ m \in 1..Len(s) /\ j \in 1..Len(Frame(s, m)) /\ Moves(s, m, j, pk[2], pl[2])
  BY <1>2, <1>4, <1>5, LinePlace
<1>7. w[1].of = m \/ (w[1].of = 0 /\ m \in Range(h))
  <2>1. w[1] = Frame(s, m)[j] \/ (w[1].of = 0 /\ m \in Range(h))
    BY <1>2, <1>4, <1>5 DEF Lies
  <2>2. Frame(s, m)[j].of = m
    BY <1>4, <1>6, FrameBytes
  <2> QED
    BY <2>1, <2>2
<1>8. h2 = Append(h, m) \/ (h2 = Append(h, 0) /\ m \in Range(h))
  BY <1>2, <1>7
<1>9. h2 \in Seq(Nat) /\ Range(h) \subseteq Range(h2) /\ m \in Range(h2)
  <2>1. m \in Nat /\ 0 \in Nat
    BY <1>6
  <2>2. Range(Append(h, m)) = Range(h) \cup {m} /\ Range(Append(h, 0)) = Range(h) \cup {0}
    BY <1>4, <2>1, RangeAppend
  <2>3. Append(h, m) \in Seq(Nat) /\ Append(h, 0) \in Seq(Nat)
    BY <1>4, <2>1
  <2> QED
    BY <1>8, <2>2, <2>3
<1>10. CASE wire' = RemoveAt(wire, 1)
  <2>1. PICK v : v = wire'
    OBVIOUS
  <2>2. Rest(w, v, 1)
    <3>1. v = SubSeq(w, 1, 0) \o SubSeq(w, 1 + 1, Len(w))
      BY <1>2, <1>10, <2>1 DEF RemoveAt
    <3>2. SubSeq(w, 1, 0) = <<>>
      BY <1>5
    <3>3. Rest(w, SubSeq(w, 1 + 1, Len(w)), 1)
      BY <1>5, SubSeqRest
    <3>4. v = SubSeq(w, 1 + 1, Len(w))
      BY <3>1, <3>2, <3>3 DEF Rest
    <3> QED
      BY <3>3, <3>4
  <2>3. 1 \in 0..Len(w) /\ 1 + 1 = 2
    BY <1>5
  <2>4. PICK pk2, pl2 : Lies(s, h2, v, pk2, pl2) /\ pk2[1] = pk[1 + 1] /\ pl2[1] = pl[1 + 1]
    <3>1. LineFrom(s, h2, v, pk[1 + 1], pl[1 + 1])
      BY <1>4, <1>9, <2>2, <2>3, LineRest
    <3> QED
      BY <3>1 DEF LineFrom
  <2>5. pk2[1] = pk[2] /\ pl2[1] = pl[2]
    BY <2>3, <2>4
  <2>6. InTurn(s, d, pk[2], pl[2], q)
    BY <1>4, <1>6, InTurnLost
  <2>7. NoFragments => Sync(s, h2, d, pk[2], pl[2], q, r)
    BY <1>4, <1>6, <1>8, SyncLost
  <2>8. Link(pk2, pl2)'
    BY <1>2, <1>3, <2>1, <2>4, <2>5, <2>6, <2>7 DEF Link
  <2> QED
    BY <1>3, <1>9, <2>8 DEF LinkInv
<1>11. CASE \E kind \in Garbled \ {wire[1].kind} : wire' = ReplaceAt(wire, 1, Noise(kind))
  <2>1. PICK kind \in Garbled : wire' = ReplaceAt(wire, 1, Noise(kind))
    BY <1>11
  <2>2. PICK b, v : b = Noise(kind) /\ v = [w EXCEPT ![1] = b]
    OBVIOUS
  <2>3. b \in Bytes /\ b.of = 0
    <3>1. kind \in Kind
      BY KissAssumption
    <3> QED
      BY <2>2, <3>1 DEF Noise, Byte, Bytes
  <2>4. wire' = v
    BY <1>2, <2>1, <2>2 DEF ReplaceAt
  <2>5. Lies(s, h2, v, pk, pl)
    BY <1>2, <1>4, <1>5, <1>9, <2>2, <2>3, LineGarbled
  <2>6. NoFragments => Sync(s, h2, d, m, j, q, r)
    BY <1>4, <1>6, <1>8, SyncLost
  <2>7. Link(pk, pl)'
    BY <1>2, <1>3, <1>4, <2>4, <2>5, <2>6 DEF Link
  <2> QED
    BY <1>3, <1>9, <2>7 DEF LinkInv
<1> QED
  BY <1>10, <1>11 DEF Damage

(* What a read leaves behind keeps its state, its events taken out.        *)
LEMMA Emptied ==
  ASSUME NEW d, Bounded(d), NEW e, e = [d EXCEPT !.packets = <<>>, !.drops = <<>>]
  PROVE  /\ Bounded(e) /\ e.packets = <<>> /\ e.drops = <<>>
         /\ e.mode = d.mode /\ e.first = d.first /\ e.buffer = d.buffer
<1>1. /\ d.mode \in {"not_started", "started", "escaped"} /\ d.first \in BOOLEAN
      /\ d.buffer \in Seq(Bytes) /\ d \in Decoders
  BY DEF Bounded, Decoders
<1>2. <<>> \in Seq(Nat) /\ <<>> \in Seq(Events)
  OBVIOUS
<1>3. /\ e.packets = <<>> /\ e.drops = <<>> /\ e.mode = d.mode /\ e.first = d.first /\ e.buffer = d.buffer
      /\ e \in Decoders
  BY <1>1, <1>2 DEF Decoders
<1> QED
  BY <1>3 DEF Bounded

(* InTurn and Sync look at the state of the decoder, not at its events.    *)
LEMMA SameState ==
  ASSUME NEW d, NEW e, e.mode = d.mode, e.first = d.first, e.buffer = d.buffer
  PROVE  /\ \A s, m, j, q : InTurn(s, d, m, j, q) => InTurn(s, e, m, j, q)
         /\ \A s, h, m, j, q, r : Sync(s, h, d, m, j, q, r) => Sync(s, h, e, m, j, q, r)
<1>1. ASSUME NEW s, NEW m, NEW j, NEW q, InTurn(s, d, m, j, q)
      PROVE  InTurn(s, e, m, j, q)
  BY <1>1 DEF InTurn
<1>2. ASSUME NEW s, NEW h, NEW m, NEW j, NEW q, NEW r, Sync(s, h, d, m, j, q, r)
      PROVE  Sync(s, h, e, m, j, q, r)
  <2>1. /\ Clear(d) => Clear(e)
        /\ Tracked(s, d, m, j) => Tracked(s, e, m, j)
        /\ Aligned(s, d, m, j, r) => Aligned(s, e, m, j, r)
    BY DEF Clear, Tracked, Aligned
  <2> QED
    BY <1>2, <2>1 DEF Sync
<1> QED
  BY <1>1, <1>2

(* A read of k bytes, and where it leaves the line and the decoder.        *)
ReadTo(e, k, m, j) ==
  /\ e = Pumped(k) /\ Bounded(e)
  /\ LineFrom(sent, damaged, SubSeq(wire, k + 1, Len(wire)), m, j)
  /\ InTurn(sent, e, m, j, taken \o monitor \o e.packets)
  /\ NoFragments => Sync(sent, damaged, e, m, j, taken \o monitor \o e.packets, drops \o e.drops)

(* A read, from the line to the decoder.                                   *)
LEMMA ReadLine ==
  ASSUME LinkInv, NEW pk, NEW pl, Link(pk, pl), NEW k \in 0..Len(wire)
  PROVE  \E e : ReadTo(e, k, pk[k + 1], pl[k + 1])
<1>1. PICK s, w, h, d, q, r : /\ s = sent /\ w = wire /\ h = damaged /\ d = decoder
                              /\ q = taken \o monitor /\ r = drops
  OBVIOUS
<1>2. /\ s \in Seq(Shape) /\ h \in Seq(Nat) /\ q \in Seq(Nat) /\ r \in Seq(Events)
      /\ Bounded(d) /\ d \in Decoders /\ d.packets = <<>> /\ d.drops = <<>>
      /\ Lies(s, h, w, pk, pl) /\ InTurn(s, d, pk[1], pl[1], q)
      /\ (NoFragments => Sync(s, h, d, pk[1], pl[1], q, r))
  BY <1>1, JoinShape DEF LinkInv, Link, Bounded
<1>3. w \in Seq(Bytes) /\ Len(w) \in Nat /\ k \in Nat /\ k <= Len(w) /\ k \in 0..k
  BY <1>1, <1>2 DEF Lies
<1>4. PICK bytes : bytes = SubSeq(w, 1, k)
  OBVIOUS
<1>5. /\ bytes \in Seq(Bytes) /\ Len(bytes) = k /\ \A i \in 1..k : bytes[i] = w[i]
      /\ Rest(w, SubSeq(w, k + 1, Len(w)), k)
  BY <1>3, <1>4, SubSeqRest
<1>6. PICK f : Feeds(f, d, bytes, Len(bytes)) /\ Feed(d, bytes) = f[Len(bytes)]
  BY <1>2, <1>5, FeedRuns
<1>7. Feeds(f, d, w, k) /\ Pumped(k) = f[k]
  <2>1. Pumped(k) = Feed(d, bytes)
    BY <1>1, <1>4 DEF Pumped
  <2> QED
    BY <1>5, <1>6, <2>1 DEF Feeds
<1>8. \A i \in 0..k : ReadInTurn(f, pk, pl, q, i)
  <2>1. sent \in Seq(Shape) /\ Lies(sent, h, w, pk, pl) /\ InTurn(sent, d, pk[1], pl[1], q) /\ k \in 0..Len(w)
    BY <1>1, <1>2, <1>3
  <2> QED
    BY <1>2, <1>7, <2>1, FeedInTurn
<1>9. NoFragments => \A i \in 0..k : ReadSync(f, h, pk, pl, q, r, i)
  <2> SUFFICES ASSUME NoFragments PROVE \A i \in 0..k : ReadSync(f, h, pk, pl, q, r, i)
    OBVIOUS
  <2>1. sent \in Seq(Shape) /\ Lies(sent, h, w, pk, pl) /\ Sync(sent, h, d, pk[1], pl[1], q, r) /\ k \in 0..Len(w)
    BY <1>1, <1>2, <1>3
  <2>2. \A i \in 0..k : Bounded(f[i])
    BY <1>8 DEF ReadInTurn
  <2> QED
    BY <1>2, <1>7, <2>1, <2>2, FeedSync
<1>10. PICK e : e = f[k]
  OBVIOUS
<1>11. Bounded(e) /\ InTurn(sent, e, pk[k + 1], pl[k + 1], q \o e.packets)
  BY <1>3, <1>8, <1>10 DEF ReadInTurn
<1>12. NoFragments => Sync(sent, h, e, pk[k + 1], pl[k + 1], q \o e.packets, r \o e.drops)
  BY <1>3, <1>9, <1>10 DEF ReadSync
<1>13. LineFrom(s, h, SubSeq(w, k + 1, Len(w)), pk[k + 1], pl[k + 1])
  <2>1. k \in 0..Len(w) /\ Range(h) \subseteq Range(h)
    BY <1>3
  <2>2. PICK v : v = SubSeq(w, k + 1, Len(w))
    OBVIOUS
  <2>3. Rest(w, v, k)
    BY <1>5, <2>2
  <2>4. LineFrom(s, h, v, pk[k + 1], pl[k + 1])
    BY <1>2, <2>1, <2>3, LineRest
  <2> QED
    BY <2>2, <2>4
<1>14. ReadTo(e, k, pk[k + 1], pl[k + 1])
  BY <1>1, <1>7, <1>10, <1>11, <1>12, <1>13 DEF ReadTo
<1> QED
  BY <1>14

(* Concatenation is associative.                                           *)
LEMMA JoinThree ==
  ASSUME NEW S, NEW p \in Seq(S), NEW q \in Seq(S), NEW r \in Seq(S)
  PROVE  p \o (q \o r) = (p \o q) \o r
OBVIOUS

(* What a receive does with the packets that were decoded.                 *)
LEMMA LinkPumped ==
  ASSUME LinkInv, NEW k \in 0..Len(wire), Pump(k), transport' = transport,
         transport = "frames" /\ k # 0 => k = FrameLength,
         taken' \in Seq(Nat), monitor' \in Seq(Nat), (taken \o monitor)' = taken \o Queued(k)
  PROVE  LinkInv'
<1>1. PICK pk, pl : Link(pk, pl)
  BY DEF LinkInv
<1>2. PICK m, j : m = pk[k + 1] /\ j = pl[k + 1]
  OBVIOUS
<1>3. PICK e : ReadTo(e, k, m, j)
  BY <1>1, <1>2, ReadLine
<1>4. PICK d : d = [e EXCEPT !.packets = <<>>, !.drops = <<>>]
  OBVIOUS
<1>5. /\ e = Pumped(k) /\ Bounded(e) /\ e.packets \in Seq(Nat) /\ e.drops \in Seq(Events)
      /\ taken \in Seq(Nat) /\ monitor \in Seq(Nat) /\ drops \in Seq(Events)
      /\ sent \in Seq(Shape) /\ damaged \in Seq(Nat)
  BY <1>3 DEF ReadTo, Bounded, Decoders, LinkInv
<1>6. PICK q, r : q = taken \o monitor \o e.packets /\ r = drops \o e.drops
  OBVIOUS
<1>7. /\ UNCHANGED <<sent, damaged>> /\ wire' = SubSeq(wire, k + 1, Len(wire))
      /\ decoder' = d /\ drops' = r
  BY <1>4, <1>5, <1>6 DEF Pump
<1>8. (taken \o monitor)' = q
  <2>1. taken \o (monitor \o e.packets) = (taken \o monitor) \o e.packets
    <3>1. PICK a, b, c : a = taken /\ b = monitor /\ c = e.packets
      OBVIOUS
    <3>2. a \in Seq(Nat) /\ b \in Seq(Nat) /\ c \in Seq(Nat)
      BY <1>5, <3>1
    <3>3. a \o (b \o c) = (a \o b) \o c
      BY ONLY <3>2, JoinThree, SMTT(30)
    <3> QED
      BY <3>1, <3>3
  <2> QED
    BY <1>5, <1>6, <2>1 DEF Queued
<1>9. drops' \in Seq(Events)
  BY <1>5, <1>6, <1>7, JoinShape
<1>10. /\ Bounded(d) /\ d.packets = <<>> /\ d.drops = <<>>
       /\ d.mode = e.mode /\ d.first = e.first /\ d.buffer = e.buffer
  BY <1>4, <1>5, Emptied
<1>11. InTurn(sent, d, m, j, q)
  <2>1. InTurn(sent, e, m, j, q)
    BY <1>3, <1>6 DEF ReadTo
  <2> QED
    BY <1>10, <2>1, SameState
<1>12. NoFragments => Sync(sent, damaged, d, m, j, q, r)
  <2>1. NoFragments => Sync(sent, damaged, e, m, j, q, r)
    BY <1>3, <1>6 DEF ReadTo
  <2> QED
    BY <1>10, <2>1, SameState
<1>13. PICK pk2, pl2 : Lies(sent, damaged, wire', pk2, pl2) /\ pk2[1] = m /\ pl2[1] = j
  <2>1. LineFrom(sent, damaged, wire', m, j)
    BY <1>3, <1>7 DEF ReadTo
  <2> QED
    BY <2>1 DEF LineFrom
<1>14. transport = "frames" => damaged = <<>> /\ j = 1 /\ \A n \in 1..Len(sent) : Fits(sent[n])
  <2> SUFFICES ASSUME transport = "frames" PROVE j = 1
    BY <1>1 DEF Link
  <2>1. damaged = <<>> /\ pl[1] = 1 /\ Lies(sent, damaged, wire, pk, pl)
    BY <1>1 DEF Link
  <2>2. CASE k = 0
    BY <1>2, <2>1, <2>2
  <2>3. CASE k # 0
    <3>1. Len(wire) >= 1
      <4>1. Len(wire) \in Nat
        BY <2>1 DEF Lies
      <4> QED
        BY <2>3, <4>1
    <3>2. k = Cardinality({i \in DOMAIN wire : wire[i].of = wire[1].of})
      BY <2>3 DEF FrameLength
    <3>3. Lies(sent, <<>>, wire, pk, pl)
      BY <2>1
    <3>4. pl[k + 1] = 1
      BY <1>5, <2>1, <3>1, <3>2, <3>3, WholeFrame
    <3> QED
      BY <1>2, <3>4
  <2> QED
    BY <2>2, <2>3
<1>15. Link(pk2, pl2)'
  BY <1>7, <1>8, <1>11, <1>12, <1>13, <1>14 DEF Link
<1> QED
  BY <1>5, <1>7, <1>9, <1>10, <1>15 DEF LinkInv

(* How much one read returns.                                              *)
LEMMA ReadableBytes ==
  ASSUME LinkInv, NEW least \in Nat, NEW k \in Readable(least)
  PROVE  /\ k \in 0..Len(wire) /\ k >= least
         /\ transport = "frames" /\ k # 0 => k = FrameLength
<1>1. PICK pk, pl : Link(pk, pl)
  BY DEF LinkInv
<1>2. Lies(sent, damaged, wire, pk, pl) /\ sent \in Seq(Shape) /\ wire \in Seq(Bytes) /\ Len(wire) \in Nat
  BY <1>1 DEF Link, LinkInv, Lies
<1>3. CASE transport = "serial"
  <2>1. k \in 0..Earlier(ReadBytes, Len(wire)) /\ k >= least
    BY <1>3 DEF Readable
  <2>2. ReadBytes \in Nat
    BY PacedAssumption
  <2> QED
    BY <1>2, <1>3, <2>1, <2>2 DEF Earlier
<1>4. CASE transport # "serial" /\ wire = <<>>
  BY <1>2, <1>4 DEF Readable
<1>5. CASE transport # "serial" /\ wire # <<>>
  <2>1. k \in {0, FrameLength} /\ k >= least
    BY <1>5 DEF Readable
  <2>2. FrameLength \in 0..Len(wire)
    <3>1. PICK S : S = {i \in DOMAIN wire : wire[i].of = wire[1].of}
      OBVIOUS
    <3>2. S \subseteq 1..Len(wire) /\ IsFiniteSet(1..Len(wire)) /\ Cardinality(1..Len(wire)) = Len(wire)
      <4>1. DOMAIN wire = 1..Len(wire)
        BY <1>2
      <4>2. IsFiniteSet(1..Len(wire)) /\ Cardinality(1..Len(wire)) = Len(wire)
        <5>1. PICK n : n = Len(wire)
          OBVIOUS
        <5>2. n \in Nat /\ n \in Int /\ 1 \in Int
          BY <1>2, <5>1
        <5>3. IsFiniteSet(1..n) /\ Cardinality(1..n) = IF 1 > n THEN 0 ELSE n - 1 + 1
          BY ONLY <5>2, FS_Interval
        <5>4. (IF 1 > n THEN 0 ELSE n - 1 + 1) = n
          BY <5>2
        <5> QED
          BY <5>1, <5>3, <5>4
      <4> QED
        BY <3>1, <4>1, <4>2
    <3>3. IsFiniteSet(S) /\ Cardinality(S) <= Len(wire)
      BY <3>2, FS_Subset
    <3>4. Cardinality(S) \in Nat
      BY <3>3, FS_CardinalityType
    <3> QED
      BY <1>2, <3>1, <3>3, <3>4 DEF FrameLength
  <2> QED
    BY <1>2, <2>1, <2>2
<1> QED
  BY <1>3, <1>4, <1>5

(* The queue of decoded packets after a read.                              *)
LEMMA QueuedTyped ==
  ASSUME LinkInv, NEW k \in 0..Len(wire)
  PROVE  Queued(k) \in Seq(Nat) /\ Pumped(k).packets \in Seq(Nat)
<1>1. PICK pk, pl : Link(pk, pl)
  BY DEF LinkInv
<1>2. PICK e : ReadTo(e, k, pk[k + 1], pl[k + 1])
  BY <1>1, ReadLine
<1>3. e = Pumped(k) /\ e.packets \in Seq(Nat) /\ monitor \in Seq(Nat)
  BY <1>2 DEF ReadTo, Bounded, Decoders, LinkInv
<1>4. monitor \o e.packets \in Seq(Nat)
  BY <1>3, JoinShape
<1> QED
  BY <1>3, <1>4 DEF Queued

(* receive returns a packet, or nothing.                                   *)
LEMMA LinkReceived ==
  ASSUME LinkInv, NEW least \in Nat, NEW k \in Readable(least),
         TakePacket(k) \/ FindNothing(k), transport' = transport
  PROVE  LinkInv'
<1>1. /\ k \in 0..Len(wire)
      /\ transport = "frames" /\ k # 0 => k = FrameLength
  BY ReadableBytes
<1>2. PICK q : q = Queued(k)
  OBVIOUS
<1>3. q \in Seq(Nat) /\ taken \in Seq(Nat)
  BY <1>1, <1>2, QueuedTyped DEF LinkInv
<1>4. CASE TakePacket(k)
  <2>1. q # <<>> /\ taken' = Append(taken, Head(q)) /\ monitor' = Tail(q) /\ Pump(k)
    BY <1>2, <1>4 DEF TakePacket
  <2>2. Head(q) \in Nat /\ Tail(q) \in Seq(Nat)
    BY <1>3, <2>1
  <2>3. Append(taken, Head(q)) \o Tail(q) = taken \o q
    BY <1>3, <2>1, <2>2, SMTT(30)
  <2>4. taken' \in Seq(Nat) /\ monitor' \in Seq(Nat) /\ (taken \o monitor)' = taken \o Queued(k)
    BY <1>2, <1>3, <2>1, <2>2, <2>3, SMTT(30)
  <2> QED
    BY <1>1, <2>1, <2>4, LinkPumped
<1>5. CASE FindNothing(k)
  <2>1. taken' = taken /\ monitor' = q /\ Pump(k)
    BY <1>2, <1>5 DEF FindNothing
  <2>2. taken' \in Seq(Nat) /\ monitor' \in Seq(Nat) /\ (taken \o monitor)' = taken \o Queued(k)
    BY <1>2, <1>3, <2>1
  <2> QED
    BY <1>1, <2>1, <2>2, LinkPumped
<1> QED
  BY <1>4, <1>5

(* Every step keeps the link in step.                                      *)
LEMMA LinkStep == LinkInv /\ [Next]_vars => LinkInv'
<1> SUFFICES ASSUME LinkInv, [Next]_vars
             PROVE  LinkInv'
  OBVIOUS
<1>1. CASE Peer
  <2>1. PICK shape \in Shape : (transport = "frames" => Fits(shape)) /\ PeerSend(shape)
    BY <1>1 DEF Peer
  <2>2. transport' = transport
    BY <1>1 DEF Peer
  <2> QED
    BY <2>1, <2>2, LinkSent
<1>2. CASE LineDamage
  BY <1>2, LinkDamaged DEF LineDamage
<1>3. CASE Elapse \/ StartWait \/ GiveUp \/ Arrived \/ Round \/ TimeOut \/ Jump
  BY <1>3, LinkStays DEF Elapse, StartWait, GiveUp, Arrived, Round, TimeOut, Jump
<1>4. CASE Poll
  <2>1. PICK k \in Readable(0) : TakePacket(k) \/ FindNothing(k)
    BY <1>4 DEF Poll
  <2>2. transport' = transport
    BY <1>4 DEF Poll
  <2> QED
    BY <2>1, <2>2, LinkReceived
<1>5. CASE Read
  <2>1. PICK k \in Readable(1) : TakePacket(k) \/ FindNothing(k)
    BY <1>5 DEF Read
  <2>2. transport' = transport
    BY <1>5 DEF Read
  <2> QED
    BY <2>1, <2>2, LinkReceived
<1>6. CASE Drain
  <2>1. PICK k \in Readable(0) : TakePacket(k) \/ FindNothing(k)
    BY <1>6 DEF Drain
  <2>2. transport' = transport
    BY <1>6 DEF Drain
  <2> QED
    BY <2>1, <2>2, LinkReceived
<1>7. CASE UNCHANGED vars
  BY <1>7, LinkStays DEF vars
<1> QED
  BY <1>1, <1>2, <1>3, <1>4, <1>5, <1>6, <1>7 DEF Next

(* The link is in step with what was sent, always.                         *)
LEMMA LinkInvHolds == Spec => []LinkInv
BY LinkStarts, LinkStep, PTL DEF Spec

-----------------------------------------------------------------------------
(* A read on the frames transport completes the packet.                    *)
LEMMA ReadCompletes ==
  ASSUME NoFragments, LinkInv, transport = "frames", NEW k \in Readable(1)
  PROVE  Queued(k) # <<>>
<1>1. PICK pk, pl : Link(pk, pl)
  BY DEF LinkInv
<1>2. PICK m, q : m = pk[1] /\ q = taken \o monitor
  OBVIOUS
<1>3. k \in 0..Len(wire) /\ k >= 1 /\ k # 0 /\ k = FrameLength
  BY ReadableBytes
<1>4. /\ Lies(sent, <<>>, wire, pk, pl) /\ damaged = <<>> /\ pl[1] = 1
      /\ \A n \in 1..Len(sent) : Fits(sent[n])
      /\ sent \in Seq(Shape) /\ q \in Seq(Nat) /\ InTurn(sent, decoder, m, pl[1], q)
  BY <1>1, <1>2, JoinShape DEF Link, LinkInv
<1>5. k = Cardinality({i \in DOMAIN wire : wire[i].of = wire[1].of}) /\ Len(wire) >= 1
  <2>1. Len(wire) \in Nat
    BY <1>4 DEF Lies
  <2> QED
    BY <1>3, <2>1 DEF FrameLength
<1>6. pk[1] \in 1..Len(sent) /\ pk[k + 1] = pk[1] + 1 /\ pl[k + 1] = 1
  BY <1>4, <1>5, WholeFrame
<1>7. PICK e : ReadTo(e, k, m + 1, 1)
  BY <1>1, <1>2, <1>3, <1>6, ReadLine
<1>8. Sync(sent, damaged, e, m + 1, 1, q \o e.packets, drops \o e.drops) /\ e = Pumped(k)
      /\ e.packets \in Seq(Nat)
  BY <1>2, <1>7 DEF ReadTo, Bounded, Decoders
<1>9. Clean(damaged, m) /\ Entered(damaged, m)
  BY <1>4 DEF Clean, Entered, Range
<1>10. Among(m, q \o e.packets)
  <2>1. m \in 1..Len(sent) /\ m < m + 1
    BY <1>2, <1>6
  <2> QED
    BY <1>4, <1>8, <1>9, <2>1 DEF Sync, Settled
<1>11. ASSUME e.packets = <<>>
       PROVE  FALSE
  <2>1. PICK i \in 1..Len(q) : q[i] = m
    BY <1>4, <1>10, <1>11 DEF Among
  <2>2. q[i] < m /\ m \in Nat
    BY <1>2, <1>4, <1>6 DEF InTurn
  <2> QED
    BY <2>1, <2>2
<1>12. monitor \o e.packets # <<>>
  <2>1. monitor \in Seq(Nat)
    BY DEF LinkInv
  <2>2. Len(monitor \o e.packets) = Len(monitor) + Len(e.packets) /\ Len(e.packets) > 0
    BY <1>8, <1>11, <2>1
  <2> QED
    BY <2>1, <2>2
<1> QED
  BY <1>8, <1>12 DEF Queued

(* Where the runner is, and no time later than the bound.                  *)
PhaseInv ==
  /\ phase \in Phase /\ pending \in BOOLEAN
  /\ now \in 0..MaxNow /\ stop \in 0..MaxNow /\ target \in 0..MaxNow
  /\ rounds \in 0..MaxSettle

(* No step takes the runner past its bounds.                               *)
LEMMA PhaseStep == ClockInv /\ PhaseInv /\ [Next]_vars => PhaseInv'
<1> SUFFICES ASSUME ClockInv, PhaseInv, [Next]_vars
             PROVE  PhaseInv'
  OBVIOUS
<1>0. MaxNow \in Nat /\ MaxSettle \in Nat /\ Delay \subseteq Nat
  BY PacedAssumption
<1>1. CASE Peer \/ LineDamage \/ TimeOut \/ GiveUp \/ Arrived
  BY <1>1 DEF Peer, LineDamage, TimeOut, GiveUp, Arrived, clocks, PhaseInv, Phase
<1>2. CASE Elapse
  BY <1>2 DEF Elapse, PhaseInv
<1>3. CASE StartWait
  <2>1. PICK delay \in Delay : now + delay <= MaxNow /\ target' = now + delay
    BY <1>3 DEF StartWait
  <2>2. target' \in 0..MaxNow
    BY <1>0, <2>1 DEF PhaseInv
  <2>3. rounds' \in 0..MaxSettle
    BY <1>0, <1>3 DEF StartWait
  <2> QED
    BY <1>3, <2>2, <2>3 DEF StartWait, PhaseInv, Phase
<1>4. CASE Round
  <2>1. /\ rounds' = rounds + 1 /\ rounds < MaxSettle /\ stop' = Earlier(NextEventTime, target)
        /\ phase' = "poll" /\ UNCHANGED <<pending, now, target>>
    BY <1>4 DEF Round
  <2>2. NextEventTime \in Nat
    BY DEF NextEventTime, ClockInv
  <2>3. stop' \in 0..MaxNow
    BY <1>0, <2>1, <2>2 DEF Earlier, PhaseInv
  <2>4. rounds' \in 0..MaxSettle
    BY <1>0, <2>1 DEF PhaseInv
  <2> QED
    BY <2>1, <2>3, <2>4 DEF PhaseInv, Phase
<1>5. CASE Poll
  <2>1. phase' \in {"round", "block", "jump"} /\ pending' \in {pending, TRUE} /\ UNCHANGED clocks
    BY <1>5, Zenon DEF Poll, Delivered
  <2> QED
    BY <2>1 DEF clocks, PhaseInv, Phase
<1>6. CASE Read
  <2>1. phase' \in {"round", "jump"} /\ pending' \in {pending, TRUE} /\ UNCHANGED clocks
    BY <1>6, Zenon DEF Read, Delivered
  <2> QED
    BY <2>1 DEF clocks, PhaseInv, Phase
<1>7. CASE Jump
  BY <1>7 DEF Jump, PhaseInv, Phase
<1>8. CASE Drain
  <2>1. phase' \in {phase, "round", "idle"} /\ pending' = FALSE /\ UNCHANGED clocks
    BY <1>8, Zenon DEF Drain
  <2> QED
    BY <2>1 DEF clocks, PhaseInv, Phase
<1>9. CASE UNCHANGED vars
  BY <1>9 DEF vars, PhaseInv
<1> QED
  BY <1>1, <1>2, <1>3, <1>4, <1>5, <1>6, <1>7, <1>8, <1>9 DEF Next

(* Every blocking read on the frames transport brings a packet.            *)
FramesInv == transport = "frames" => partial = 0

(* No blocking read on the frames transport ends without a packet.         *)
LEMMA FramesStep ==
  ASSUME NoFragments, LinkInv, FramesInv, [Next]_vars
  PROVE  FramesInv'
<1>1. CASE Peer \/ LineDamage \/ Elapse \/ StartWait \/ GiveUp \/ Arrived \/ Round \/ Poll \/ TimeOut
           \/ Jump \/ Drain
  BY <1>1 DEF Peer, LineDamage, Elapse, StartWait, GiveUp, Arrived, Round, Poll, TimeOut, Jump, Drain,
              FramesInv
<1>2. CASE Read
  <2>1. transport' = transport
    BY <1>2 DEF Read
  <2>2. PICK k \in Readable(1) : \/ TakePacket(k) /\ UNCHANGED partial
                                 \/ FindNothing(k)
    BY <1>2 DEF Read
  <2>3. transport = "frames" => ~FindNothing(k)
    BY ReadCompletes DEF FindNothing
  <2> QED
    BY <2>1, <2>2, <2>3 DEF FramesInv
<1>3. CASE UNCHANGED vars
  BY <1>3 DEF vars, FramesInv
<1> QED
  BY <1>1, <1>2, <1>3 DEF Next

(* The parts of TypeOK.                                                    *)
LEMMA TypesKnown == ClockInv /\ PhaseInv /\ LinkInv /\ FramesInv => TypeOK
<1> SUFFICES ASSUME ClockInv, PhaseInv, LinkInv, FramesInv PROVE TypeOK
  OBVIOUS
<1>1. /\ decoder.mode \in {"not_started", "started", "escaped"} /\ decoder.first \in BOOLEAN
      /\ decoder.buffer \in Seq(Bytes) /\ Len(decoder.buffer) <= Limit
      /\ decoder.mode = "not_started" => decoder.buffer = <<>>
      /\ decoder.packets = <<>> /\ decoder.drops = <<>>
  BY DEF LinkInv, Bounded, Decoders
<1>2. \A i \in DOMAIN decoder.buffer : decoder.buffer[i].kind \in Kind
  <2>1. ASSUME NEW i \in DOMAIN decoder.buffer
        PROVE  decoder.buffer[i].kind \in Kind
    <3>1. decoder.buffer[i] \in Bytes
      BY <1>1
    <3> QED
      BY <3>1 DEF Bytes
  <2> QED
    BY <2>1
<1> QED
  BY <1>1, <1>2 DEF TypeOK, ClockInv, PhaseInv, FramesInv

(* PacedWait's state: the decoder never holds more than the buffer of the  *)
(* link or anything between frames, no wait goes past its bound, and on a  *)
(* bus of whole frames every read that ends brings a packet.               *)
THEOREM PacedTypeCorrect ==
  ASSUME NoFragments
  PROVE  Spec => []TypeOK
<1>1. Init => PhaseInv /\ FramesInv
  <2>1. MaxNow \in Nat /\ MaxSettle \in Nat
    BY PacedAssumption
  <2>2. Init => phase = "idle" /\ pending = FALSE /\ now = 0 /\ stop = 0 /\ target = 0 /\ rounds = 0 /\ partial = 0
    BY DEF Init
  <2>3. 0 \in 0..MaxNow /\ 0 \in 0..MaxSettle
    BY <2>1
  <2> QED
    BY <2>2, <2>3 DEF PhaseInv, Phase, FramesInv
<1>2. LinkInv /\ FramesInv /\ [Next]_vars => FramesInv'
  BY FramesStep
<1> QED
  BY <1>1, <1>2, ClockInit, ClockStep, PhaseStep, LinkInvHolds, TypesKnown, PTL DEF Spec

(* KissDecoder.feed resynchronises: a frame that arrives as it was sent,   *)
(* after another that did, is decoded, or reported if it is too long.      *)
THEOREM DamageIsContained ==
  ASSUME NoFragments
  PROVE  Spec => []DamageContained
<1>1. LinkInv => DamageContained
  <2> SUFFICES ASSUME LinkInv, NEW n \in DOMAIN sent, Passed(n), Undamaged(n), n > 1 => Undamaged(n - 1)
               PROVE  IF Fits(sent[n]) THEN n \in Decoded
                      ELSE \E i \in DOMAIN drops : drops[i] = Event("overflow", n)
    BY DEF DamageContained
  <2>1. PICK pk, pl : Link(pk, pl)
    BY DEF LinkInv
  <2>2. /\ Lies(sent, damaged, wire, pk, pl) /\ sent \in Seq(Shape) /\ drops \in Seq(Events)
        /\ taken \in Seq(Nat) /\ monitor \in Seq(Nat)
        /\ Settled(sent, damaged, pk[1], taken \o monitor, drops)
    BY <2>1 DEF Link, LinkInv, Sync
  <2>3. n \in 1..Len(sent) /\ n \in Nat /\ DOMAIN drops = 1..Len(drops)
    BY <2>2
  <2>4. n < pk[1]
    <3>1. /\ Len(sent) \in Nat /\ Len(wire) \in Nat /\ pk[1] \in Nat
          /\ pk[Len(wire) + 1] = Len(sent) + 1
      BY <2>2, LinePlace DEF Lies
    <3>2. CASE Len(wire) = 0
      BY <2>3, <3>1, <3>2
    <3>3. CASE Len(wire) >= 1
      <4>1. 1 \in 1..Len(wire) /\ 1 \in DOMAIN wire
        BY <2>2, <3>1, <3>3 DEF Lies
      <4>2. wire[1].of > n
        BY <4>1 DEF Passed
      <4>3. wire[1] = Frame(sent, pk[1])[pl[1]] \/ wire[1].of = 0
        BY <2>2, <4>1 DEF Lies
      <4>4. wire[1] = Frame(sent, pk[1])[pl[1]]
        BY <2>3, <4>2, <4>3
      <4>5. pk[1] \in 1..Len(sent) /\ pl[1] \in 1..Len(Frame(sent, pk[1]))
        BY <2>2, <4>1 DEF Lies
      <4>6. wire[1].of = pk[1]
        BY <2>2, <4>4, <4>5, FrameBytes
      <4> QED
        BY <2>3, <3>1, <4>2, <4>6
    <3> QED
      BY <3>1, <3>2, <3>3
  <2>5. Clean(damaged, n) /\ Entered(damaged, n)
    BY <2>3 DEF Undamaged, Clean, Entered
  <2>6. IF Fits(sent[n]) THEN Among(n, taken \o monitor) ELSE Reported(n, drops)
    BY <2>2, <2>3, <2>4, <2>5 DEF Settled
  <2>7. ASSUME Among(n, taken \o monitor)
        PROVE  n \in Decoded
    <3>1. PICK i \in 1..Len(taken \o monitor) : (taken \o monitor)[i] = n
      BY <2>7 DEF Among
    <3>2. \/ i \in 1..Len(taken) /\ taken[i] = n
          \/ i - Len(taken) \in 1..Len(monitor) /\ monitor[i - Len(taken)] = n
      BY <2>2, <3>1, JoinShape
    <3> QED
      BY <2>2, <3>2, RangeIs DEF Decoded
  <2> QED
    BY <2>3, <2>6, <2>7 DEF Reported
<1> QED
  BY <1>1, LinkInvHolds, PTL

(* The packets the runner has taken are numbers of packets sent, rising.   *)
LEMMA TakenRises ==
  ASSUME LinkInv
  PROVE  /\ taken \in Seq(Nat) /\ sent \in Seq(Shape)
         /\ \A i \in 1..Len(taken) : taken[i] \in 1..Len(sent)
         /\ \A i, k \in 1..Len(taken) : i < k => taken[i] < taken[k]
<1>1. PICK pk, pl : Link(pk, pl)
  BY DEF LinkInv
<1>2. PICK q, m : q = taken \o monitor /\ m = pk[1]
  OBVIOUS
<1>3. /\ sent \in Seq(Shape) /\ taken \in Seq(Nat) /\ monitor \in Seq(Nat)
      /\ Lies(sent, damaged, wire, pk, pl) /\ InTurn(sent, decoder, m, pl[1], q)
  BY <1>1, <1>2 DEF LinkInv, Link
<1>4. m \in Nat /\ Len(sent) \in Nat /\ m <= Len(sent) + 1
  <2>1. /\ Len(sent) \in Nat /\ pk[1] \in Nat
        /\ pk[1] \in 1..Len(sent) \/ (pk[1] = Len(sent) + 1 /\ pl[1] = 1)
    BY <1>3, LinePlace
  <2> QED
    BY <1>2, <2>1
<1>5. \A i \in 1..Len(taken) : i \in 1..Len(q) /\ q[i] = taken[i]
  BY <1>2, <1>3, JoinShape
<1>6. ASSUME NEW i \in 1..Len(taken)
      PROVE  taken[i] \in 1..Len(sent)
  <2>1. i \in 1..Len(q) /\ q[i] = taken[i] /\ taken[i] \in Nat
    BY <1>3, <1>5
  <2>2. q[i] >= 1 /\ q[i] < m
    BY <1>3, <2>1 DEF InTurn
  <2> QED
    BY <1>4, <2>1, <2>2
<1>7. ASSUME NEW i \in 1..Len(taken), NEW k \in 1..Len(taken), i < k
      PROVE  taken[i] < taken[k]
  BY <1>3, <1>5, <1>7 DEF InTurn
<1> QED
  BY <1>3, <1>6, <1>7

(* As an implication, for the state after a step.                          *)
LEMMA TakenRising ==
  LinkInv => /\ taken \in Seq(Nat) /\ sent \in Seq(Shape)
             /\ \A i \in 1..Len(taken) : taken[i] \in 1..Len(sent)
             /\ \A i, k \in 1..Len(taken) : i < k => taken[i] < taken[k]
BY TakenRises

(* A step sends one packet, or takes one, or neither.                      *)
LEMMA LinkSteps ==
  ASSUME [Next]_vars
  PROVE  \/ UNCHANGED <<sent, taken>>
         \/ taken' = taken /\ \E shape \in Shape : sent' = Append(sent, shape)
         \/ sent' = sent /\ \E p : taken' = Append(taken, p)
<1>1. ASSUME NEW k, TakePacket(k) \/ FindNothing(k)
      PROVE  sent' = sent /\ (taken' = taken \/ \E p : taken' = Append(taken, p))
  BY <1>1 DEF TakePacket, FindNothing, Pump
<1>2. CASE Peer
  BY <1>2 DEF Peer, PeerSend
<1>3. CASE LineDamage
  BY <1>3 DEF LineDamage, Damage
<1>4. CASE Elapse \/ StartWait \/ GiveUp \/ Arrived \/ Round \/ TimeOut \/ Jump
  BY <1>4 DEF Elapse, StartWait, GiveUp, Arrived, Round, TimeOut, Jump, linkVars
<1>5. CASE Poll \/ Read \/ Drain
  <2>1. \E k : TakePacket(k) \/ FindNothing(k)
    BY <1>5 DEF Poll, Read, Drain
  <2> QED
    BY <1>1, <2>1
<1>6. CASE UNCHANGED vars
  BY <1>6 DEF vars, linkVars
<1> QED
  BY <1>2, <1>3, <1>4, <1>5, <1>6 DEF Next

(* The serial link is a packet channel (transport/kiss.py KissAdapter):    *)
(* whatever bytes the line loses or garbles, what the runner receives are  *)
(* packets the peer sent, whole, at most once and in order.                *)
THEOREM KissChannel == Spec => ImplementsChannel
<1>1. Init => Channel!Init
  <2> SUFFICES ASSUME Init PROVE Channel!Init
    OBVIOUS
  <2>1. sent = <<>> /\ taken = <<>> /\ DOMAIN sent = {}
    BY DEF Init, LinkInit
  <2>2. [n \in DOMAIN sent |-> <<"peer", "testbed">>] = <<>>
    BY <2>1
  <2>3. [d \in {"peer", "testbed"} |-> IF d = "testbed" THEN taken ELSE <<>>]
          = [d \in {"peer", "testbed"} |-> <<>>]
    BY <2>1
  <2> QED
    BY <2>2, <2>3 DEF Channel!Init
<1>2. LinkInv /\ LinkInv' /\ [Next]_vars => [Channel!Next]_(Channel!vars)
  <2> SUFFICES ASSUME LinkInv, LinkInv', [Next]_vars
               PROVE  [Channel!Next]_(Channel!vars)
    OBVIOUS
  <2>1. PICK t, t2, s, s2 : t = taken /\ t2 = taken' /\ s = sent /\ s2 = sent'
    OBVIOUS
  <2> DEFINE route == [n \in DOMAIN sent |-> <<"peer", "testbed">>]
             got == [d \in {"peer", "testbed"} |-> IF d = "testbed" THEN taken ELSE <<>>]
  <2>2. CASE UNCHANGED <<sent, taken>>
    BY <2>2 DEF Channel!vars
  <2>3. CASE taken' = taken /\ \E shape \in Shape : sent' = Append(sent, shape)
    <3>1. PICK shape \in Shape : sent' = Append(sent, shape)
      BY <2>3
    <3>2. sent \in Seq(Shape) /\ sent' \in Seq(Shape) /\ Len(sent') = Len(sent) + 1 /\ Len(sent) \in Nat
      BY <3>1, AppendShape DEF LinkInv
    <3>3. route' = Append(route, <<"peer", "testbed">>)
      <4>1. DOMAIN sent = 1..Len(sent) /\ DOMAIN sent' = 1..(Len(sent) + 1)
        BY <3>2
      <4>2. PICK n, r : n = Len(sent) /\ r = <<"peer", "testbed">>
        OBVIOUS
      <4>3. route = [i \in 1..n |-> r] /\ route' = [i \in 1..(n + 1) |-> r]
        BY <4>1, <4>2
      <4>4. Append([i \in 1..n |-> r], r) = [i \in 1..(n + 1) |-> r]
        BY <3>2, <4>2
      <4> QED
        BY <4>2, <4>3, <4>4
    <3>4. got' = got
      BY <2>3
    <3>5. <<"peer", "testbed">> \in {"peer", "testbed"} \X {"peer", "testbed"}
      OBVIOUS
    <3>6. Channel!Send
      BY <3>3, <3>4, <3>5 DEF Channel!Send
    <3> QED
      BY <3>6 DEF Channel!Next
  <2>4. CASE sent' = sent /\ \E p : taken' = Append(taken, p)
    <3>1. PICK p : taken' = Append(taken, p)
      BY <2>4
    <3>2. /\ taken \in Seq(Nat) /\ sent \in Seq(Shape) /\ taken' \in Seq(Nat)
          /\ \A i \in 1..Len(taken') : taken'[i] \in 1..Len(sent)
          /\ \A i, k \in 1..Len(taken') : i < k => taken'[i] < taken'[k]
      <4>1. (/\ taken \in Seq(Nat) /\ sent \in Seq(Shape)
             /\ \A i \in 1..Len(taken) : taken[i] \in 1..Len(sent)
             /\ \A i, k \in 1..Len(taken) : i < k => taken[i] < taken[k])'
        BY TakenRising, PTL
      <4> QED
        BY <2>4, <4>1, TakenRises
    <3>3. Len(taken) \in Nat /\ Len(taken') = Len(taken) + 1 /\ taken'[Len(taken) + 1] = p
          /\ \A i \in 1..Len(taken) : taken'[i] = taken[i]
      BY <3>1, <3>2
    <3>4. p \in 1..Len(sent) /\ \A i \in 1..Len(taken) : taken[i] < p
      <4>1. Len(taken) + 1 \in 1..Len(taken')
        BY <3>3
      <4>2. ASSUME NEW i \in 1..Len(taken)
            PROVE  taken[i] < p
        <5>1. i \in 1..Len(taken') /\ i < Len(taken) + 1
          BY <3>3
        <5> QED
          BY <3>2, <3>3, <4>1, <5>1
      <4> QED
        BY <3>2, <3>3, <4>1, <4>2
    <3>5. route' = route
      BY <2>4
    <3>6. Len(route) = Len(sent) /\ p \in 1..Len(route) /\ route[p] = <<"peer", "testbed">>
      <4>1. DOMAIN sent = 1..Len(sent) /\ Len(sent) \in Nat
        BY <3>2
      <4> QED
        BY <3>4, <4>1
    <3>7. route[p][2] = "testbed" /\ got["testbed"] = taken
      BY <3>6
    <3>8. got' = [got EXCEPT !["testbed"] = Append(taken, p)]
      BY <3>1
    <3>9. Channel!Deliver
      <4>1. /\ p \in 1..Len(route)
            /\ \A i \in 1..Len(got[route[p][2]]) :
                 route[got[route[p][2]][i]] = route[p] => got[route[p][2]][i] < p
            /\ got' = [got EXCEPT ![route[p][2]] = Append(@, p)]
            /\ route' = route
        <5> HIDE DEF route, got
        <5> QED
          BY <3>4, <3>5, <3>6, <3>7, <3>8
      <4> QED
        BY <4>1 DEF Channel!Deliver
    <3> QED
      BY <3>9 DEF Channel!Next
  <2> QED
    BY <2>2, <2>3, <2>4, LinkSteps
<1> QED
  BY <1>1, <1>2, LinkInvHolds, PTL DEF Spec, ImplementsChannel, Channel!Spec
=============================================================================
