----------------------------- MODULE PacedWait ------------------------------
(***************************************************************************)
(* A wait paced by the wall clock (scenario/runner.py _wait_paced,         *)
(* clock.py RealTimeClock) over a transport a real peer sends on.  Virtual *)
(* and wall-clock time count the same unit from the origin of the clock    *)
(* (time_scale 1).  The transport is a serial line, of which a read        *)
(* returns any number of bytes, or a bus whose receive returns one whole   *)
(* frame or times out, as SocketCAN's does.                                *)
(*                                                                         *)
(* Packets between simulated nodes are sent and drained within one physical*)
(* step and are left out.                                                  *)
(***************************************************************************)
EXTENDS KissLink, FiniteSets

CONSTANTS
  StepTime,    (* _PHYSICAL_STEP_US                                          *)
  Delay,       (* durations of wait steps                                    *)
  MaxSettle,   (* max_settle_events                                          *)
  ReadBytes,   (* most bytes one read returns (os.read(fd, 4096))            *)
  MaxNow,      (* bound: no wait ends later in virtual time                  *)
  MaxWall      (* bound: wall-clock time that passes outside of blocking     *)

ASSUME PacedAssumption ==
  /\ StepTime \in Nat \ {0} /\ Delay \subseteq Nat \ {0}
  /\ MaxSettle \in Nat \ {0} /\ ReadBytes \in Nat \ {0}
  /\ MaxNow \in Nat /\ MaxWall \in Nat

VARIABLES
  transport,  (* "serial" or "frames"                                       *)
  phase,      (* where the runner is                                        *)
  now,        (* engine.now                                                 *)
  stepAt,     (* time of the next physical step                             *)
  pending,    (* a telemetry event waits at the present virtual time        *)
  target,     (* of the wait                                                *)
  stop,       (* next_stop of this round                                    *)
  timeout,    (* what is left of "remaining" until receive has returned     *)
  rounds,     (* rounds of this wait begun                                  *)
  wall,       (* the wall clock                                             *)
  partial     (* history: blocking reads that ended without a packet        *)

vars == <<linkVars, transport, phase, now, stepAt, pending, target, stop, timeout,
          rounds, wall, partial>>
clocks == <<now, stepAt, target, stop, rounds, wall>>

Phase == {"idle", "round", "poll", "block", "jump", "step", "settle", "raised"}

Earlier(a, b) == IF a <= b THEN a ELSE b

(* A whole packet of this shape fits the receive buffer with a byte to spare:*)
(* the buffer is checked when the closing delimiter arrives.                 *)
Fits(shape) == Len(shape.kind) < Limit

(* Peers do not set CSP_FLAG_FRAGMENT, which neither end supports.           *)
NoFragments == \A shape \in Shape : \A i \in 1..HeaderBytes : shape.kind[i] # "flag"

FrameLength == Cardinality({i \in DOMAIN wire : wire[i].of = wire[1].of})

(* How many bytes one read may return, at least "least".                     *)
Readable(least) ==
  LET upTo == IF transport = "serial" THEN 0..Earlier(ReadBytes, Len(wire))
              ELSE IF wire = <<>> THEN {0} ELSE {0, FrameLength}
  IN  {k \in upTo : k >= least}

Init ==
  /\ LinkInit
  /\ transport \in {"serial", "frames"}
  /\ phase = "idle" /\ now = 0 /\ stepAt = StepTime /\ pending = FALSE
  /\ target = 0 /\ stop = 0 /\ timeout = 0 /\ rounds = 0 /\ wall = 0 /\ partial = 0

-----------------------------------------------------------------------------
(* The world: the peer, the line, time.  Bytes may take any time from the    *)
(* peer to the runner, so that they are sent between waits and the line hits  *)
(* the one that is read next: a read with a hit inside is two reads here.    *)

Peer ==
  /\ phase = "idle"
  /\ \E shape \in Shape : (transport = "frames" => Fits(shape)) /\ PeerSend(shape)
  /\ UNCHANGED <<transport, phase, pending, timeout, partial, clocks>>

LineDamage ==
  /\ phase \in {"poll", "block", "step", "settle"}
  /\ transport = "serial"
  /\ wire # <<>> /\ Damage(1)
  /\ UNCHANGED <<transport, phase, pending, timeout, partial, clocks>>

Blocking == phase = "block" /\ timeout > 0

Elapse ==
  /\ Blocking \/ wall < MaxWall
  /\ wall' = wall + 1
  /\ timeout' = IF Blocking THEN timeout - 1 ELSE timeout
  /\ UNCHANGED <<linkVars, transport, phase, pending, now, stepAt, target, stop, rounds, partial>>

-----------------------------------------------------------------------------
(* The runner.                                                               *)

StartWait ==
  /\ phase = "idle"
  /\ \E delay \in Delay : now + delay <= MaxNow /\ target' = now + delay
  /\ rounds' = 0
  /\ phase' = "round"
  /\ UNCHANGED <<linkVars, transport, pending, timeout, partial, now, stepAt, stop, wall>>

NextEventTime == IF pending THEN now ELSE stepAt

(* Mutant: the wait is cut short by a unit.                                  *)
SecondsUntil_Truncated(time) == IF time > wall THEN time - wall - 1 ELSE 0

SecondsUntil(time) == IF time > wall THEN time - wall ELSE 0

(* The head of the loop in _wait_paced.  The loop ends by itself after       *)
(* MaxSettle rounds, before the target is looked at again.                   *)
GiveUp ==
  /\ phase = "round" /\ rounds = MaxSettle
  /\ phase' = "raised"
  /\ UNCHANGED <<linkVars, transport, pending, timeout, partial, clocks>>

Arrived ==
  /\ phase = "round" /\ rounds < MaxSettle /\ now >= target
  /\ phase' = "settle"
  /\ UNCHANGED <<linkVars, transport, pending, timeout, partial, clocks>>

Round ==
  /\ phase = "round" /\ rounds < MaxSettle /\ now < target
  /\ rounds' = rounds + 1
  /\ stop' = Earlier(NextEventTime, target)
  /\ timeout' = SecondsUntil(stop')
  /\ phase' = "poll"
  /\ UNCHANGED <<linkVars, transport, pending, partial, now, stepAt, target, wall>>

(* receive returned a packet: telemetry becomes an event of this instant,    *)
(* anything else is handled at once.                                         *)
Delivered ==
  /\ pending' \in {pending, TRUE}
  /\ phase' = "round"

(* Mutant: with time to wait, receive reads before it looks at its queue.    *)
Poll_ReadsFirst ==
  /\ phase = "poll"
  /\ IF timeout > 0 THEN phase' = "block" /\ UNCHANGED <<linkVars, pending>>
     ELSE \E k \in Readable(0) :
            \/ TakePacket(k) /\ Delivered
            \/ FindNothing(k) /\ phase' = "jump" /\ UNCHANGED pending
  /\ UNCHANGED <<transport, timeout, partial, clocks>>

(* receive(timeout): what is there already, without waiting ...              *)
Poll ==
  /\ phase = "poll"
  /\ \E k \in Readable(0) :
       \/ TakePacket(k) /\ Delivered /\ timeout' = 0
       \/ /\ FindNothing(k)
          /\ phase' = IF timeout > 0 THEN "block" ELSE "jump"
          /\ UNCHANGED <<pending, timeout>>
  /\ UNCHANGED <<transport, partial, clocks>>

(* ... and one read that waits for bytes.  It ends with the first that come, *)
(* whether or not they complete a packet.                                    *)
Read ==
  /\ phase = "block"
  /\ \E k \in Readable(1) :
       \/ TakePacket(k) /\ Delivered /\ UNCHANGED partial
       \/ FindNothing(k) /\ phase' = "jump" /\ partial' = partial + 1 /\ UNCHANGED pending
  /\ timeout' = 0
  /\ UNCHANGED <<transport, clocks>>

TimeOut ==
  /\ phase = "block" /\ timeout = 0
  /\ phase' = "jump"
  /\ UNCHANGED <<linkVars, transport, pending, timeout, partial, clocks>>

(* engine.run_until(next_stop): the events up to it, the physical step last. *)
Jump ==
  /\ phase = "jump"
  /\ now' = stop
  /\ pending' = FALSE
  /\ IF stop = stepAt THEN stepAt' = stepAt + StepTime /\ phase' = "step"
                      ELSE UNCHANGED stepAt /\ phase' = "round"
  /\ UNCHANGED <<linkVars, transport, timeout, partial, target, stop, rounds, wall>>

(* _run_current_events within the physical step, and after the loop: every   *)
(* packet there is, and the events they cause.                               *)
Drain ==
  /\ phase \in {"step", "settle"}
  /\ \E k \in Readable(0) :
       \/ TakePacket(k) /\ UNCHANGED phase
       \/ FindNothing(k) /\ phase' = IF phase = "step" THEN "round" ELSE "idle"
  /\ pending' = FALSE
  /\ UNCHANGED <<transport, timeout, partial, clocks>>

Next == \/ Peer \/ LineDamage \/ Elapse
        \/ StartWait \/ GiveUp \/ Arrived \/ Round \/ Poll \/ Read \/ TimeOut \/ Jump \/ Drain

Spec == Init /\ [][Next]_vars

-----------------------------------------------------------------------------
(* Properties.                                                               *)

(* Type correctness; the decoder never holds more than the buffer of the     *)
(* link, nor anything between frames (csp_v2_kiss.py feed), and on a bus of  *)
(* whole frames no blocking read ends without a packet.                      *)
TypeOK ==
  /\ decoder.mode \in {"not_started", "started", "escaped"}
  /\ decoder.first \in BOOLEAN /\ decoder.packets = <<>> /\ decoder.drops = <<>>
  /\ Len(decoder.buffer) <= Limit
  /\ \A i \in DOMAIN decoder.buffer : decoder.buffer[i].kind \in Kind
  /\ decoder.mode = "not_started" => decoder.buffer = <<>>
  /\ phase \in Phase
  /\ now \in 0..MaxNow /\ stop \in 0..MaxNow /\ target \in 0..MaxNow
  /\ now < stepAt /\ stepAt <= now + StepTime
  /\ timeout \in Nat /\ rounds \in 0..MaxSettle /\ wall \in Nat /\ partial \in Nat
  /\ pending \in BOOLEAN
  /\ transport = "frames" => partial = 0

(* What the link promises: packets whole, at most once, in order, or not at  *)
(* all, whatever bytes the line loses or garbles (transport/kiss.py receive).*)
Channel == INSTANCE PacketChannel WITH
  Node <- {"peer", "testbed"},
  route <- [n \in DOMAIN sent |-> <<"peer", "testbed">>],
  got <- [d \in {"peer", "testbed"} |-> IF d = "testbed" THEN taken ELSE <<>>]
ImplementsChannel == Channel!Spec

(* Damage spreads to one frame at most: a frame that arrives as it was sent, *)
(* after another that did, is decoded if it fits, and reported if it does    *)
(* not (KissDecoder.feed resynchronises).                                    *)
Decoded == Range(monitor) \cup Range(taken)
Passed(n) == n \in DOMAIN sent /\ \A i \in DOMAIN wire : wire[i].of > n
Undamaged(n) == n \notin Range(damaged)
DamageContained ==
  \A n \in DOMAIN sent :
    Passed(n) /\ Undamaged(n) /\ (n > 1 => Undamaged(n - 1)) =>
      IF Fits(sent[n]) THEN n \in Decoded
      ELSE \E i \in DOMAIN drops : drops[i] = Event("overflow", n)

(* Virtual time runs ahead of the wall clock by one physical step at most    *)
(* for each read that brought bytes and no packet: what _wait_paced promises *)
(* a peer that needs its time, as far as it keeps it on a serial line.       *)
LeadBounded == now <= wall + StepTime * partial

(* A packet is delivered as soon as it has arrived: no decoded packet waits  *)
(* in the adapter while the runner blocks, advances virtual time or is       *)
(* between two waits (runner.py wait, KissAdapter.receive).                  *)
PromptDelivery == phase \in {"block", "jump", "idle"} => monitor = <<>>

(* runner.py:410-414: a jump is safe "since wall-clock time has by then      *)
(* actually caught up to it".                                                *)
WallClockCaughtUp == now <= wall
=============================================================================
