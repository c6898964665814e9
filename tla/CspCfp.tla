------------------------------ MODULE CspCfp --------------------------------
(***************************************************************************)
(* CSP v2 packets over CAN (CFP2): fragmentation, a bus that interleaves   *)
(* the traffic of several nodes and loses frames, and one reassembler per  *)
(* receiving node.                                                         *)
(*   protocol/csp_v2.py      CspFragmenter, CspReassembler                 *)
(*   scenario/runner.py      _send_packet, _deliver_transport_envelope,    *)
(*                           _record_drop, _expire_partial_packets         *)
(*   modules/obc_peer.py     _emit_command (a second fragmenter of a node) *)
(*                                                                         *)
(* Payload bytes are abstracted to chunk identities <<p, i>>: the i-th     *)
(* piece of the p-th packet sent.  Sizes stay in bytes, and counters keep  *)
(* their widths.                                                           *)
(***************************************************************************)
EXTENDS Integers, Sequences, FiniteSets

CONSTANTS
  Node,          (* CSP addresses                                           *)
  Fragmenter,    (* packet senders: <<address, owner>>                      *)
  Limit,         (* max_packet_bytes of each node                           *)
  PayloadSize,   (* payload sizes that are sent, in bytes                   *)
  Priority,      (* CSP priorities used                                     *)
  Form,          (* "ok", and from real peers "ffrag" (fragment flag set)   *)
                 (* or "short" (first frame without a header)               *)
  Timeout,       (* CSP_V2_REASSEMBLY_TIMEOUT_US, in clock ticks            *)
  None,
  MaxSent,       (* bound: packets sent                                     *)
  MaxLost,       (* bound: frames lost                                      *)
  MaxTime        (* bound: virtual time                                     *)

PacketCounts == 4        (* CSP_CAN_V2_PACKET_COUNT_MAX + 1 *)
FrameCounts == 8         (* CSP_CAN_V2_FRAME_COUNT_MAX + 1  *)
SenderFields == 64       (* CSP_CAN_V2_SENDER_MAX + 1       *)
FirstChunk == 4          (* CSP_V2_SINGLE_FRAME_MAX_PAYLOAD_BYTES *)
NextChunk == 8           (* CSP_V2_CFP_CONTINUATION_PAYLOAD_BYTES *)

(* CspReassembler's partial packet of one connection key.                   *)
Partial == [chunks : Seq(Nat \X Nat), bytes : Nat, next : 0..(FrameCounts - 1), last : Nat]

ASSUME CfpAssumption ==
  /\ Node \subseteq Nat
  /\ Fragmenter \subseteq Node \X {"runner", "obc_peer"}
  /\ Limit \in [Node -> Nat \ {0}]
  /\ PayloadSize \subseteq Nat
  /\ Form \subseteq {"ok", "ffrag", "short"}
  /\ Timeout \in Nat
  /\ MaxSent \in Nat
  /\ MaxLost \in Nat
  /\ MaxTime \in Nat
  /\ None \notin Partial

VARIABLES
  clock,      (* virtual time                                               *)
  counter,    (* CspFragmenter._packet_counts, one sender per fragmenter    *)
  bus,        (* frames each node has put on the bus and nobody has read    *)
  partials,   (* CspReassembler._partials of each receiving node            *)
  ended,      (* the run is over                                            *)
  sent,       (* history: the packets sent                                  *)
  lost,       (* history: chunks whose frame the bus lost                   *)
  delivered,  (* history: packets delivered at each node                    *)
  reported    (* history: packets a recorded drop stands for                *)

vars == <<clock, counter, bus, partials, ended, sent, lost, delivered, reported>>

(* The connection key: priority, low bits of the sender's address, packet   *)
(* counter.  The destination is the node whose reassembler it is.           *)
Sender == {n % SenderFields : n \in Node}
Key == Priority \X Sender \X (0..(PacketCounts - 1))

-----------------------------------------------------------------------------
(* fragment_packet                                                          *)
FrameTotal(size) ==
  IF size <= FirstChunk THEN 1
  ELSE 1 + ((size - FirstChunk + NextChunk - 1) \div NextChunk)

ChunkBytes(size, i) ==
  IF i = 0 THEN IF size < FirstChunk THEN size ELSE FirstChunk
  ELSE IF size - FirstChunk - NextChunk * (i - 1) < NextChunk
       THEN size - FirstChunk - NextChunk * (i - 1) ELSE NextChunk

(* Mutant: the packet counter is left out of the identifier.                *)
FragmentPacket_NoCount(p, pk) ==
  [j \in 1..FrameTotal(pk.size) |->
     [chunk |-> <<p, j - 1>>, bytes |-> ChunkBytes(pk.size, j - 1), dst |-> pk.dst,
      key |-> <<pk.prio, pk.src % SenderFields, 0>>,
      count |-> (j - 1) % FrameCounts, begin |-> j = 1, end |-> j = FrameTotal(pk.size)]]

FragmentPacket(p, pk) ==
  [j \in 1..FrameTotal(pk.size) |->
     [chunk |-> <<p, j - 1>>, bytes |-> ChunkBytes(pk.size, j - 1), dst |-> pk.dst,
      key |-> <<pk.prio, pk.src % SenderFields, pk.count>>,
      count |-> (j - 1) % FrameCounts, begin |-> j = 1, end |-> j = FrameTotal(pk.size)]]

Init ==
  /\ clock = 0
  /\ counter = [f \in Fragmenter |-> 0]
  /\ bus = [n \in Node |-> <<>>]
  /\ partials = [n \in Node |-> [k \in Key |-> None]]
  /\ ended = FALSE
  /\ sent = <<>>
  /\ lost = {}
  /\ delivered = [n \in Node |-> <<>>]
  /\ reported = {}

-----------------------------------------------------------------------------
(* Mutant: the packet counter is not advanced.                              *)
Send_SameCount(f, dst, size, prio, form) ==
  LET pk == [src |-> f[1], dst |-> dst, size |-> size, prio |-> prio, form |-> form,
             count |-> counter[f]]
  IN  /\ ~ended
      /\ Len(sent) < MaxSent
      /\ size <= Limit[f[1]]
      /\ sent' = Append(sent, pk)
      /\ bus' = [bus EXCEPT ![f[1]] = @ \o FragmentPacket(Len(sent) + 1, pk)]
      /\ UNCHANGED <<clock, counter, partials, ended, lost, delivered, reported>>

(* CspFragmenter.fragment and the sends of its frames, back to back: the    *)
(* process that owns the node puts a whole packet on its bus handle.  An    *)
(* oversized payload is refused before anything is sent.                    *)
Send(f, dst, size, prio, form) ==
  LET pk == [src |-> f[1], dst |-> dst, size |-> size, prio |-> prio, form |-> form,
             count |-> counter[f]]
  IN  /\ ~ended
      /\ Len(sent) < MaxSent
      /\ size <= Limit[f[1]]
      /\ sent' = Append(sent, pk)
      /\ bus' = [bus EXCEPT ![f[1]] = @ \o FragmentPacket(Len(sent) + 1, pk)]
      /\ counter' = [counter EXCEPT ![f] = (@ + 1) % PacketCounts]
      /\ UNCHANGED <<clock, partials, ended, lost, delivered, reported>>

(* The bus drops the oldest unread frame of a node.                         *)
Lose(n) ==
  /\ bus[n] # <<>>
  /\ Cardinality(lost) < MaxLost
  /\ lost' = lost \cup {Head(bus[n]).chunk}
  /\ bus' = [bus EXCEPT ![n] = Tail(@)]
  /\ UNCHANGED <<clock, counter, partials, ended, sent, delivered, reported>>

-----------------------------------------------------------------------------
(* CspReassembler.feed, one action per way a frame can go.                  *)

(* Number of the packet whose header chunks start with, and the packets     *)
(* chunks were taken from.                                                  *)
HeaderOf(chunks) == chunks[1][1]
PacketsOf(chunks) == {chunks[j][1] : j \in 1..Len(chunks)}

IsStale(part, now) == part # None /\ now - part.last > Timeout

(* CspReassembler.expire                                                    *)
Unexpired(parts, now) == [k \in Key |-> IF IsStale(parts[k], now) THEN None ELSE parts[k]]
TimedOut(parts, now) ==
  UNION {PacketsOf(parts[k].chunks) : k \in {x \in Key : IsStale(parts[x], now)}}

(* A frame arrives from node n: the next unread one of that node.           *)
Arrives(n, fr) ==
  /\ ~ended
  /\ bus[n] # <<>>
  /\ fr = Head(bus[n])
  /\ bus' = [bus EXCEPT ![n] = Tail(@)]
  /\ UNCHANGED <<clock, counter, ended, sent, lost>>

Drop(fr, key, parts, packets) ==
  /\ partials' = [partials EXCEPT ![fr.dst] = [parts EXCEPT ![key] = None]]
  /\ reported' = reported \cup packets
  /\ UNCHANGED delivered

(* Mutant: a continuation without a first frame is taken as noise.          *)
Orphan_Silent(n) ==
  LET fr == Head(bus[n])
  IN  /\ Arrives(n, fr)
      /\ ~fr.begin
      /\ partials[fr.dst][fr.key] = None
      /\ UNCHANGED <<partials, delivered, reported>>

(* A continuation with no packet in progress: nothing expires, and nothing  *)
(* is kept.                                                                 *)
Orphan(n) ==
  LET fr == Head(bus[n])
  IN  /\ Arrives(n, fr)
      /\ ~fr.begin
      /\ partials[fr.dst][fr.key] = None
      /\ Drop(fr, fr.key, partials[fr.dst], {fr.chunk[1]})

(* A continuation out of step ends the packet in progress.                  *)
FrameLost(n) ==
  LET fr == Head(bus[n])
      part == partials[fr.dst][fr.key]
  IN  /\ Arrives(n, fr)
      /\ ~fr.begin
      /\ part # None
      /\ fr.count # part.next
      /\ Drop(fr, fr.key, partials[fr.dst], PacketsOf(Append(part.chunks, fr.chunk)))

(* What was collected before a first frame: stale packets are flushed when  *)
(* no packet of this key is in progress, a packet in progress is restarted. *)
Flushed(fr) ==
  IF partials[fr.dst][fr.key] = None
  THEN Unexpired(partials[fr.dst], clock) ELSE partials[fr.dst]
Superseded(fr) ==
  IF partials[fr.dst][fr.key] = None
  THEN TimedOut(partials[fr.dst], clock) ELSE PacketsOf(partials[fr.dst][fr.key].chunks)

(* A first frame too short to hold the header extension.                    *)
ShortFirst(n) ==
  LET fr == Head(bus[n])
  IN  /\ Arrives(n, fr)
      /\ fr.begin
      /\ sent[fr.chunk[1]].form = "short"
      /\ Drop(fr, fr.key, Flushed(fr), Superseded(fr) \cup {fr.chunk[1]})

(* Mutant: the fragment at hand is left out of the sum.                     *)
Overflows_Collected(fr, part) == part.bytes > Limit[fr.dst]

Overflows(fr, part) == part.bytes + fr.bytes > Limit[fr.dst]

(* The end of feed, for a partial packet `part' that takes frame fr.        *)
Take(fr, parts, part, packets) ==
  LET full == [part EXCEPT !.bytes = @ + fr.bytes, !.chunks = Append(@, fr.chunk)]
  IN  \/ /\ Overflows(fr, part)
         /\ Drop(fr, fr.key, parts, packets \cup PacketsOf(full.chunks))
      \/ /\ ~Overflows(fr, part)
         /\ ~fr.end
         /\ partials' = [partials EXCEPT ![fr.dst] = [parts EXCEPT ![fr.key] = full]]
         /\ reported' = reported \cup packets
         /\ UNCHANGED delivered
      \/ /\ ~Overflows(fr, part)
         /\ fr.end
         /\ sent[HeaderOf(full.chunks)].form = "ffrag"
         /\ Drop(fr, fr.key, parts, packets \cup PacketsOf(full.chunks))
      \/ /\ ~Overflows(fr, part)
         /\ fr.end
         /\ sent[HeaderOf(full.chunks)].form # "ffrag"
         /\ partials' = [partials EXCEPT ![fr.dst] = [parts EXCEPT ![fr.key] = None]]
         /\ delivered' = [delivered EXCEPT ![fr.dst] = Append(@, full.chunks)]
         /\ reported' = reported \cup packets

FirstFrame(n) ==
  LET fr == Head(bus[n])
      new == [chunks |-> <<>>, bytes |-> 0, next |-> 1, last |-> clock]
  IN  /\ Arrives(n, fr)
      /\ fr.begin
      /\ sent[fr.chunk[1]].form # "short"
      /\ Take(fr, Flushed(fr), new, Superseded(fr))

(* A continuation is accepted whatever the silence before it.               *)
Continuation(n) ==
  LET fr == Head(bus[n])
      part == partials[fr.dst][fr.key]
  IN  /\ Arrives(n, fr)
      /\ ~fr.begin
      /\ part # None
      /\ fr.count = part.next
      /\ Take(fr, partials[fr.dst],
              [part EXCEPT !.next = (@ + 1) % FrameCounts, !.last = clock], {})

-----------------------------------------------------------------------------
TimePasses ==
  /\ ~ended
  /\ clock < MaxTime
  /\ clock' = clock + 1
  /\ UNCHANGED <<counter, bus, partials, ended, sent, lost, delivered, reported>>

(* Mutant: the run ends without a look at the packets in progress.          *)
RunEnds_NoExpiry ==
  /\ ~ended
  /\ \A n \in Node : bus[n] = <<>>
  /\ ended' = TRUE
  /\ UNCHANGED <<clock, counter, bus, partials, sent, lost, delivered, reported>>

(* The end of ScenarioRunner.run: the bus has been drained and every        *)
(* reassembler is asked for what has timed out.                             *)
RunEnds ==
  /\ ~ended
  /\ \A n \in Node : bus[n] = <<>>
  /\ ended' = TRUE
  /\ partials' = [n \in Node |-> Unexpired(partials[n], clock)]
  /\ reported' = reported \cup UNION {TimedOut(partials[n], clock) : n \in Node}
  /\ UNCHANGED <<clock, counter, bus, sent, lost, delivered>>

Next ==
  \/ \E f \in Fragmenter, d \in Node, s \in PayloadSize, p \in Priority, m \in Form :
       d # f[1] /\ Send(f, d, s, p, m)
  \/ \E n \in Node : Lose(n)
  \/ \E n \in Node :
       /\ bus[n] # <<>>
       /\ \/ Orphan(n)
          \/ FrameLost(n)
          \/ ShortFirst(n)
          \/ FirstFrame(n)
          \/ Continuation(n)
  \/ TimePasses
  \/ RunEnds

Spec == Init /\ [][Next]_vars

-----------------------------------------------------------------------------
TypeOK ==
  /\ clock \in Nat
  /\ counter \in [Fragmenter -> 0..(PacketCounts - 1)]
  /\ \A n \in Node : \A k \in Key :
       partials[n][k] # None => /\ partials[n][k] \in Partial
                                /\ partials[n][k].chunks # <<>>
                                /\ partials[n][k].bytes <= Limit[n]
  /\ \A n \in Node : \A i \in 1..Len(delivered[n]) : delivered[n][i] \in Seq(Nat \X Nat)
  /\ reported \subseteq 1..Len(sent)

Whole(chunks) ==
  chunks = [j \in 1..FrameTotal(sent[HeaderOf(chunks)].size) |-> <<HeaderOf(chunks), j - 1>>]

(* What the counters do guarantee, whatever is lost: the fragments of a     *)
(* delivery agree in priority, sender bits, destination and packet counter, *)
(* their positions run on modulo the frame counter, and it starts and ends  *)
(* with the first and the last fragment of a packet.                        *)
DeliveredInStep ==
  \A n \in Node : \A i \in 1..Len(delivered[n]) :
    LET ds == delivered[n][i]
        last == ds[Len(ds)]
        KeyOf(p) == <<sent[p].prio, sent[p].src % SenderFields, sent[p].count>>
    IN  /\ \A j \in 1..Len(ds) : /\ KeyOf(ds[j][1]) = KeyOf(HeaderOf(ds))
                                /\ sent[ds[j][1]].dst = n
                                /\ ds[j][2] % FrameCounts = (j - 1) % FrameCounts
        /\ ds[1][2] = 0
        /\ last[2] = FrameTotal(sent[last[1]].size) - 1

(* Every frame sent is still unread, was lost by the bus, is collected in a *)
(* packet in progress, is part of a delivery, or its packet stands in the   *)
(* run's list of dropped packets.  When the run is over a packet that has   *)
(* timed out is not in progress any more: it has to be in the list.  (One   *)
(* that has not is the matter of EndReportsEverything, below.)              *)
NoSilentLoss ==
  \A p \in 1..Len(sent) : \A j \in 0..(FrameTotal(sent[p].size) - 1) :
    LET Among(chunks) == \E x \in 1..Len(chunks) : chunks[x] = <<p, j>>
    IN  \/ \E n \in Node : \E i \in 1..Len(bus[n]) : bus[n][i].chunk = <<p, j>>
        \/ <<p, j>> \in lost
        \/ \E n \in Node : \E k \in Key :
             /\ partials[n][k] # None /\ Among(partials[n][k].chunks)
             /\ ~(ended /\ IsStale(partials[n][k], clock))
        \/ \E n \in Node : \E i \in 1..Len(delivered[n]) : Among(delivered[n][i])
        \/ p \in reported

(* The abstract channel; a delivery that is not whole maps to packet 0.     *)
Channel == INSTANCE PacketChannel WITH
  route <- [p \in 1..Len(sent) |-> <<sent[p].src, sent[p].dst>>],
  got <- [n \in Node |-> [i \in 1..Len(delivered[n]) |->
            IF Whole(delivered[n][i]) THEN delivered[n][i][1][1] ELSE 0]]

ImplementsChannel == Channel!Spec

-----------------------------------------------------------------------------
(* Statements of the sources that the code does not keep.                   *)

(* csp_v2.py: "two back-to-back packets from one node differ in the         *)
(* packet-counter bits of their CAN identifiers".                           *)
BackToBackCountersDiffer ==
  \A n \in Node : \A i \in 1..Len(bus[n]) :
    i < Len(bus[n]) /\ bus[n][i].chunk[1] # bus[n][i + 1].chunk[1] =>
      bus[n][i].key[3] # bus[n][i + 1].key[3]

(* runner.py, of the drops in the result of a run: "a packet lost on the bus*)
(* never goes unreported".  What a node has read of a packet and not        *)
(* delivered when the run is over belongs to a packet in that list.         *)
EndReportsEverything ==
  ended => \A n \in Node : \A k \in Key :
    partials[n][k] # None => PacketsOf(partials[n][k].chunks) \subseteq reported
=============================================================================
