---------------------------- MODULE CspCfpProofs ----------------------------
(***************************************************************************)
(* Theorems about CspCfp for every set of nodes, senders, sizes and forms, *)
(* and any number of packets, interleavings, lost frames and timeouts.     *)
(*                                                                         *)
(* However a frame goes through CspReassembler.feed, it does one of three  *)
(* things to its connection key: the packet in progress is dropped, grows, *)
(* or grows and is handed over.  FeedEffects shows that; the invariants    *)
(* are then shown effect by effect.  The last part shows that, within the  *)
(* two premises named there, the bus implements PacketChannel.             *)
(***************************************************************************)
EXTENDS CspCfp, FiniteSetTheorems, TLAPS

-----------------------------------------------------------------------------
(* The inductive invariant.                                                 *)

Packet == [src : Node, dst : Node, size : PayloadSize, prio : Priority, form : Form,
           count : 0..(PacketCounts - 1)]

Frame == [chunk : Nat \X Nat, bytes : Nat, dst : Node, key : Key, count : 0..(FrameCounts - 1),
          begin : BOOLEAN, end : BOOLEAN]

Total(p) == FrameTotal(sent[p].size)
KeyOf(p) == <<sent[p].prio, sent[p].src % SenderFields, sent[p].count>>

(* The chunks of the packets sent.                                          *)
IsChunk(c) == c \in Nat \X Nat /\ c[1] \in 1..Len(sent) /\ c[2] < Total(c[1])

(* A frame of a packet sent.                                                *)
Sound(fr) ==
  /\ IsChunk(fr.chunk)
  /\ fr.dst = sent[fr.chunk[1]].dst
  /\ fr.key = KeyOf(fr.chunk[1])
  /\ fr.count = fr.chunk[2] % FrameCounts
  /\ fr.begin <=> fr.chunk[2] = 0
  /\ fr.end <=> fr.chunk[2] = Total(fr.chunk[1]) - 1

(* What a reassembler collects under key k at node n: chunks of packets with *)
(* this key for this node, from a first one on, in step with the counter.   *)
Collected(chunks, n, k) ==
  /\ chunks \in Seq(Nat \X Nat)
  /\ chunks # <<>>
  /\ \A j \in 1..Len(chunks) : /\ IsChunk(chunks[j])
                               /\ KeyOf(chunks[j][1]) = k
                               /\ sent[chunks[j][1]].dst = n
                               /\ chunks[j][2] % FrameCounts = (j - 1) % FrameCounts
  /\ chunks[1][2] = 0

Typed ==
  /\ clock \in Nat
  /\ counter \in [Fragmenter -> 0..(PacketCounts - 1)]
  /\ sent \in Seq(Packet)
  /\ reported \subseteq 1..Len(sent)
  /\ bus \in [Node -> Seq(Frame)]
  /\ partials \in [Node -> [Key -> Partial \cup {None}]]

BusInv == \A n \in Node : \A i \in 1..Len(bus[n]) : Sound(bus[n][i])

InProgress(part, n, k) ==
  /\ Collected(part.chunks, n, k)
  /\ part.bytes <= Limit[n]
  /\ part.next = Len(part.chunks) % FrameCounts

PartialInv ==
  \A n \in Node : \A k \in Key : partials[n][k] # None => InProgress(partials[n][k], n, k)

Delivery(chunks, n) ==
  /\ \E k \in Key : Collected(chunks, n, k)
  /\ LET last == chunks[Len(chunks)] IN last[2] = Total(last[1]) - 1

DeliveryInv ==
  /\ delivered \in [Node -> Seq(Seq(Nat \X Nat))]
  /\ \A n \in Node : \A i \in 1..Len(delivered[n]) : Delivery(delivered[n][i], n)

CfpInv == Typed /\ BusInv /\ PartialInv /\ DeliveryInv

-----------------------------------------------------------------------------
(* Sequences and sizes.                                                     *)

(* What Append does: one element more, the others in place.                 *)
LEMMA AppendShape ==
  ASSUME NEW S, NEW s \in Seq(S), NEW x \in S
  PROVE  /\ Append(s, x) \in Seq(S) /\ Append(s, x) # <<>>
         /\ Len(s) \in Nat /\ Len(Append(s, x)) = Len(s) + 1
         /\ \A i \in 1..Len(s) : Append(s, x)[i] = s[i]
         /\ Append(s, x)[Len(s) + 1] = x
OBVIOUS

(* Taking the head moves every other element one place forward.             *)
LEMMA HeadTailShape ==
  ASSUME NEW S, NEW s \in Seq(S), s # <<>>
  PROVE  /\ Head(s) = s[1] /\ Head(s) \in S
         /\ Tail(s) \in Seq(S)
         /\ Len(s) \in Nat \ {0} /\ Len(Tail(s)) = Len(s) - 1
         /\ \A i \in 1..Len(Tail(s)) : Tail(s)[i] = s[i + 1]
OBVIOUS

(* What concatenation does: the left elements, then the right ones.         *)
LEMMA ConcatShape ==
  ASSUME NEW S, NEW s \in Seq(S), NEW t \in Seq(S)
  PROVE  /\ s \o t \in Seq(S)
         /\ Len(s) \in Nat /\ Len(t) \in Nat /\ Len(s \o t) = Len(s) + Len(t)
         /\ \A i \in 1..Len(s \o t) :
              \/ i \in 1..Len(s) /\ (s \o t)[i] = s[i]
              \/ i - Len(s) \in 1..Len(t) /\ i > Len(s) /\ (s \o t)[i] = t[i - Len(s)]
         /\ \A i \in 1..Len(s) : i \in 1..Len(s \o t) /\ (s \o t)[i] = s[i]
         /\ \A i \in 1..(Len(s) + Len(t)) : i > Len(s) => (s \o t)[i] = t[i - Len(s)]
<1>1. /\ s \o t \in Seq(S)
      /\ Len(s) \in Nat /\ Len(t) \in Nat /\ Len(s \o t) = Len(s) + Len(t)
      /\ \A i \in 1..(Len(s) + Len(t)) : (s \o t)[i] = IF i <= Len(s) THEN s[i] ELSE t[i - Len(s)]
  OBVIOUS
<1> QED
  BY <1>1

(* fragment_packet makes at least one frame, none of them of negative size. *)
LEMMA Sizes ==
  ASSUME NEW size \in Nat
  PROVE  /\ FrameTotal(size) \in Nat \ {0}
         /\ \A i \in 0..(FrameTotal(size) - 1) : ChunkBytes(size, i) \in Nat
<1>1. FrameTotal(size) \in Nat \ {0}
  BY DEF FrameTotal, FirstChunk, NextChunk
<1>2. ASSUME NEW i \in 0..(FrameTotal(size) - 1)
      PROVE  ChunkBytes(size, i) \in Nat
  <2>1. CASE i = 0
    BY <2>1 DEF ChunkBytes, FirstChunk
  <2>2. CASE i # 0
    <3>1. size > 4 /\ i <= (size + 3) \div 8
      BY <1>2, <2>2 DEF FrameTotal, FirstChunk, NextChunk
    <3>2. i \in Nat /\ 8 * i <= size + 3
      BY <3>1
    <3>3. size - 4 - 8 * (i - 1) \in Nat
      BY <3>2
    <3> QED
      BY <2>2, <3>3 DEF ChunkBytes, FirstChunk, NextChunk
  <2> QED
    BY <2>1, <2>2
<1> QED
  BY <1>1, <1>2

(* The key of a packet is one of Key.                                       *)
LEMMA PacketFacts ==
  ASSUME Typed, NEW p \in 1..Len(sent)
  PROVE  /\ sent[p] \in Packet /\ Len(sent) \in Nat
         /\ Total(p) \in Nat \ {0}
         /\ sent[p].dst \in Node
         /\ KeyOf(p) \in Key
<1>1. sent[p] \in Packet /\ Len(sent) \in Nat
  BY DEF Typed
<1>2. Total(p) \in Nat \ {0}
  BY <1>1, Sizes, CfpAssumption DEF Total, Packet
<1>3. KeyOf(p) \in Key
  BY <1>1 DEF KeyOf, Key, Sender, Packet
<1> QED
  BY <1>1, <1>2, <1>3 DEF Packet

(* Nothing is collected of any packet at first.                             *)
LEMMA NoChunks == PacketsOf(<<>>) = {}
<1>1. 1..Len(<<>>) = {}
  OBVIOUS
<1> QED
  BY <1>1 DEF PacketsOf

(* The next unread frame of a node.                                         *)
LEMMA HeadFacts ==
  ASSUME CfpInv, NEW n \in Node, bus[n] # <<>>, NEW fr, fr = Head(bus[n])
  PROVE  /\ fr \in Frame /\ Sound(fr)
         /\ fr.chunk \in Nat \X Nat /\ fr.chunk[1] \in 1..Len(sent)
         /\ fr.dst \in Node /\ fr.key \in Key /\ fr.bytes \in Nat
         /\ bus[n] \in Seq(Frame) /\ Tail(bus[n]) \in Seq(Frame)
         /\ Len(bus[n]) \in Nat \ {0} /\ bus[n][1] = fr
         /\ Len(Tail(bus[n])) = Len(bus[n]) - 1
         /\ \A i \in 1..Len(Tail(bus[n])) : Tail(bus[n])[i] = bus[n][i + 1]
<1>1. bus[n] \in Seq(Frame)
  BY DEF CfpInv, Typed
<1>2. /\ fr = bus[n][1] /\ fr \in Frame /\ Tail(bus[n]) \in Seq(Frame)
      /\ Len(bus[n]) \in Nat \ {0} /\ Len(Tail(bus[n])) = Len(bus[n]) - 1
      /\ \A i \in 1..Len(Tail(bus[n])) : Tail(bus[n])[i] = bus[n][i + 1]
  BY <1>1, HeadTailShape
<1>3. Sound(fr)
  BY <1>2 DEF CfpInv, BusInv
<1> QED
  BY <1>1, <1>2, <1>3 DEF Frame, Sound, IsChunk

-----------------------------------------------------------------------------
(* What a frame does.                                                       *)

(* The packets a reassembler had collected pieces of are reported dropped.  *)
Gone(part) == part # None => PacketsOf(part.chunks) \subseteq reported'

(* A frame is fed.  Under other keys, packets in progress stay or are       *)
(* reported.                                                                *)
Fed(n, fr) ==
  /\ Arrives(n, fr)
  /\ reported \subseteq reported'
  /\ reported' \subseteq 1..Len(sent)
  /\ partials' \in [Node -> [Key -> Partial \cup {None}]]
  /\ \A m \in Node, k \in Key :
       \/ m = fr.dst /\ k = fr.key
       \/ partials'[m][k] = partials[m][k]
       \/ partials'[m][k] = None /\ Gone(partials[m][k])

(* The packet in progress with the frame: begun by it, or grown in step.    *)
Grown(fr, full) ==
  /\ full \in Partial
  /\ full.bytes <= Limit[fr.dst]
  /\ \/ /\ fr.begin
        /\ full.chunks = <<fr.chunk>>
        /\ full.next = 1
        /\ Gone(partials[fr.dst][fr.key])
     \/ /\ ~fr.begin
        /\ partials[fr.dst][fr.key] # None
        /\ fr.count = partials[fr.dst][fr.key].next
        /\ full.chunks = Append(partials[fr.dst][fr.key].chunks, fr.chunk)
        /\ full.next = (partials[fr.dst][fr.key].next + 1) % FrameCounts

Dropped(fr) ==
  /\ partials'[fr.dst][fr.key] = None
  /\ Gone(partials[fr.dst][fr.key])
  /\ fr.chunk[1] \in reported'
  /\ UNCHANGED delivered

Kept(fr) ==
  /\ ~fr.end
  /\ \E full : Grown(fr, full) /\ partials'[fr.dst][fr.key] = full
  /\ UNCHANGED delivered

Handed(fr) ==
  /\ fr.end
  /\ partials'[fr.dst][fr.key] = None
  /\ \E full : /\ Grown(fr, full)
               /\ delivered' = [delivered EXCEPT ![fr.dst] = Append(@, full.chunks)]

(* What is left of a node's packets in progress under other keys.           *)
Rest(fr, parts, packets) ==
  /\ parts \in [Key -> Partial \cup {None}]
  /\ packets \subseteq 1..Len(sent)
  /\ \A k \in Key \ {fr.key} :
       \/ parts[k] = partials[fr.dst][k]
       \/ /\ parts[k] = None
          /\ partials[fr.dst][k] # None => PacketsOf(partials[fr.dst][k].chunks) \subseteq packets

(* What is collected belongs to packets sent.                               *)
LEMMA CollectedSent ==
  ASSUME CfpInv, NEW m \in Node, NEW k \in Key, partials[m][k] # None
  PROVE  /\ partials[m][k] \in Partial
         /\ partials[m][k].chunks \in Seq(Nat \X Nat)
         /\ Len(partials[m][k].chunks) \in Nat
         /\ PacketsOf(partials[m][k].chunks) \subseteq 1..Len(sent)
<1>1. partials[m][k] \in Partial
  BY DEF CfpInv, Typed
<1> DEFINE c == partials[m][k].chunks
<1>2. \A j \in 1..Len(c) : c[j][1] \in 1..Len(sent)
  BY DEF CfpInv, PartialInv, InProgress, Collected, IsChunk
<1>3. c \in Seq(Nat \X Nat)
  BY <1>1 DEF Partial
<1> HIDE DEF c
<1>4. PacketsOf(c) \subseteq 1..Len(sent)
  BY <1>2 DEF PacketsOf
<1>5. Len(c) \in Nat
  BY <1>3
<1> QED
  BY <1>1, <1>3, <1>4, <1>5 DEF c

(* The chunks of a packet in progress and one more.                         *)
LEMMA PacketsOfAppend ==
  ASSUME NEW chunks \in Seq(Nat \X Nat), NEW c \in Nat \X Nat
  PROVE  PacketsOf(Append(chunks, c)) = PacketsOf(chunks) \cup {c[1]}
<1> DEFINE r == Append(chunks, c)
<1>1. /\ Len(chunks) \in Nat /\ Len(r) = Len(chunks) + 1
      /\ \A i \in 1..Len(chunks) : r[i] = chunks[i]
      /\ r[Len(chunks) + 1] = c
  BY AppendShape
<1> HIDE DEF r
<1>2. \A i \in 1..Len(r) : i \in 1..Len(chunks) \/ i = Len(chunks) + 1
  BY <1>1
<1>3. \A i \in 1..Len(chunks) : i \in 1..Len(r)
  BY <1>1
<1>4. Len(chunks) + 1 \in 1..Len(r)
  BY <1>1
<1>5. PacketsOf(r) = PacketsOf(chunks) \cup {c[1]}
  BY <1>1, <1>2, <1>3, <1>4, ZenonT(40) DEF PacketsOf
<1> QED
  BY <1>5 DEF r

(* The slot of the frame's key is written.                                  *)
LEMMA SlotWritten ==
  ASSUME CfpInv, NEW n \in Node, NEW fr, Arrives(n, fr), fr.dst \in Node, fr.key \in Key,
         NEW parts, NEW packets, Rest(fr, parts, packets),
         NEW slot \in Partial \cup {None}, NEW more \in SUBSET (1..Len(sent)),
         packets \subseteq more, reported' = reported \cup more,
         partials' = [partials EXCEPT ![fr.dst] = [parts EXCEPT ![fr.key] = slot]]
  PROVE  Fed(n, fr) /\ partials'[fr.dst][fr.key] = slot
<1>1. partials \in [Node -> [Key -> Partial \cup {None}]] /\ reported \subseteq 1..Len(sent)
  BY DEF CfpInv, Typed
<1>2. parts \in [Key -> Partial \cup {None}]
  BY DEF Rest
<1> DEFINE new == [parts EXCEPT ![fr.key] = slot]
<1>3. /\ new \in [Key -> Partial \cup {None}] /\ new[fr.key] = slot
      /\ \A k \in Key \ {fr.key} : new[k] = parts[k]
  BY <1>2
<1> HIDE DEF new
<1>4. partials' = [partials EXCEPT ![fr.dst] = new]
  BY DEF new
<1>5. /\ partials' \in [Node -> [Key -> Partial \cup {None}]] /\ partials'[fr.dst] = new
      /\ \A m \in Node \ {fr.dst} : partials'[m] = partials[m]
  BY <1>1, <1>3, <1>4
<1>6. ASSUME NEW m \in Node, NEW k \in Key, ~(m = fr.dst /\ k = fr.key)
      PROVE  \/ partials'[m][k] = partials[m][k]
             \/ partials'[m][k] = None /\ Gone(partials[m][k])
  <2>1. CASE m # fr.dst
    BY <1>5, <2>1
  <2>2. CASE m = fr.dst
    <3>1. partials'[m][k] = parts[k] /\ k \in Key \ {fr.key}
      BY <1>3, <1>5, <1>6, <2>2
    <3> QED
      BY <2>2, <3>1 DEF Rest, Gone
  <2> QED
    BY <2>1, <2>2
<1> QED
  BY <1>1, <1>3, <1>5, <1>6 DEF Fed

(* Drop, with everything that was collected under the key and the frame     *)
(* itself among the packets.                                                *)
LEMMA DropEffect ==
  ASSUME CfpInv, NEW n \in Node, NEW fr, Arrives(n, fr), fr.dst \in Node, fr.key \in Key,
         NEW parts, NEW packets, Rest(fr, parts, packets),
         NEW more \in SUBSET (1..Len(sent)), packets \subseteq more,
         fr.chunk[1] \in more,
         partials[fr.dst][fr.key] # None => PacketsOf(partials[fr.dst][fr.key].chunks) \subseteq more,
         Drop(fr, fr.key, parts, more)
  PROVE  Fed(n, fr) /\ Dropped(fr)
<1>1. /\ partials' = [partials EXCEPT ![fr.dst] = [parts EXCEPT ![fr.key] = None]]
      /\ reported' = reported \cup more
      /\ UNCHANGED delivered
  BY DEF Drop
<1>2. Fed(n, fr) /\ partials'[fr.dst][fr.key] = None
  BY <1>1, SlotWritten
<1> QED
  BY <1>1, <1>2 DEF Dropped, Gone

(* The end of feed: a packet in progress takes the frame.                   *)
LEMMA TakeEffect ==
  ASSUME CfpInv, NEW n \in Node, NEW fr \in Frame, Arrives(n, fr),
         fr.dst \in Node, fr.key \in Key, fr.chunk[1] \in 1..Len(sent),
         NEW parts, NEW packets, Rest(fr, parts, packets), NEW part \in Partial,
         \/ /\ fr.begin /\ part.chunks = <<>> /\ part.next = 1
            /\ partials[fr.dst][fr.key] # None =>
                 PacketsOf(partials[fr.dst][fr.key].chunks) \subseteq packets
         \/ /\ ~fr.begin /\ partials[fr.dst][fr.key] # None
            /\ part.chunks = partials[fr.dst][fr.key].chunks
            /\ fr.count = partials[fr.dst][fr.key].next
            /\ part.next = (partials[fr.dst][fr.key].next + 1) % FrameCounts,
         Take(fr, parts, part, packets)
  PROVE  Fed(n, fr) /\ (Dropped(fr) \/ Kept(fr) \/ Handed(fr))
<1> DEFINE full == [part EXCEPT !.bytes = @ + fr.bytes, !.chunks = Append(@, fr.chunk)]
           old == partials[fr.dst][fr.key]
<1>1. /\ part.chunks \in Seq(Nat \X Nat) /\ part.bytes \in Nat /\ part.next \in 0..(FrameCounts - 1)
      /\ part.last \in Nat /\ fr.chunk \in Nat \X Nat /\ fr.bytes \in Nat
  BY DEF Partial, Frame
<1>2. /\ full.chunks = Append(part.chunks, fr.chunk) /\ full.bytes = part.bytes + fr.bytes
      /\ full.next = part.next
  BY DEF Partial
<1>3. full \in Partial
  <2>1. Append(part.chunks, fr.chunk) \in Seq(Nat \X Nat) /\ part.bytes + fr.bytes \in Nat
    BY <1>1, AppendShape
  <2> QED
    BY <2>1 DEF Partial
<1>4. PacketsOf(full.chunks) = PacketsOf(part.chunks) \cup {fr.chunk[1]}
  BY <1>1, <1>2, PacketsOfAppend
<1>5. full.bytes <= Limit[fr.dst] <=> ~Overflows(fr, part)
  <2>1. Limit[fr.dst] \in Nat
    BY CfpAssumption
  <2> QED
    BY <1>1, <1>2, <2>1 DEF Overflows
<1>6. part.chunks = <<>> => full.chunks = <<fr.chunk>>
  BY <1>2
<1>7. \/ Overflows(fr, part) /\ Drop(fr, fr.key, parts, packets \cup PacketsOf(full.chunks))
      \/ /\ ~Overflows(fr, part) /\ ~fr.end
         /\ partials' = [partials EXCEPT ![fr.dst] = [parts EXCEPT ![fr.key] = full]]
         /\ reported' = reported \cup packets
         /\ UNCHANGED delivered
      \/ /\ ~Overflows(fr, part) /\ fr.end
         /\ Drop(fr, fr.key, parts, packets \cup PacketsOf(full.chunks))
      \/ /\ ~Overflows(fr, part) /\ fr.end
         /\ partials' = [partials EXCEPT ![fr.dst] = [parts EXCEPT ![fr.key] = None]]
         /\ delivered' = [delivered EXCEPT ![fr.dst] = Append(@, full.chunks)]
         /\ reported' = reported \cup packets
  BY DEF Take
<1> HIDE DEF full
<1>8. packets \in SUBSET (1..Len(sent))
  BY DEF Rest
<1>9. /\ PacketsOf(full.chunks) \subseteq 1..Len(sent)
      /\ old # None => PacketsOf(old.chunks) \subseteq packets \cup PacketsOf(full.chunks)
      /\ fr.chunk[1] \in PacketsOf(full.chunks)
  <2>1. PacketsOf(<<>>) = {}
    BY NoChunks
  <2>2. old # None => PacketsOf(old.chunks) \subseteq 1..Len(sent)
    BY CollectedSent
  <2> QED
    BY <1>4, <2>1, <2>2
<1>10. CASE Drop(fr, fr.key, parts, packets \cup PacketsOf(full.chunks))
  BY <1>8, <1>9, <1>10, DropEffect
<1> DEFINE Wrote(slot) == partials' = [partials EXCEPT ![fr.dst] = [parts EXCEPT ![fr.key] = slot]]
<1>11. ASSUME NEW slot \in Partial \cup {None}, Wrote(slot), reported' = reported \cup packets
       PROVE  Fed(n, fr) /\ partials'[fr.dst][fr.key] = slot
  <2>1. Wrote(slot) /\ reported' = reported \cup packets /\ packets \subseteq packets
    BY <1>11
  <2>2. Rest(fr, parts, packets) /\ Arrives(n, fr) /\ CfpInv
    OBVIOUS
  <2> QED
    BY ONLY <1>8, <1>11, <2>1, <2>2, SlotWritten, n \in Node, fr.dst \in Node, fr.key \in Key
<1>12. reported' = reported \cup packets /\ full.bytes <= Limit[fr.dst] => Grown(fr, full)
  <2> SUFFICES ASSUME reported' = reported \cup packets, full.bytes <= Limit[fr.dst]
               PROVE  Grown(fr, full)
    OBVIOUS
  <2>1. CASE fr.begin
    BY <1>2, <1>3, <1>6, <2>1 DEF Grown, Gone
  <2>2. CASE ~fr.begin
    BY <1>2, <1>3, <2>2 DEF Grown
  <2> QED
    BY <2>1, <2>2
<1>13. CASE ~Overflows(fr, part) /\ ~fr.end /\ Wrote(full) /\ reported' = reported \cup packets
            /\ UNCHANGED delivered
  BY <1>3, <1>5, <1>11, <1>12, <1>13 DEF Kept
<1>14. CASE /\ ~Overflows(fr, part) /\ fr.end /\ Wrote(None) /\ reported' = reported \cup packets
            /\ delivered' = [delivered EXCEPT ![fr.dst] = Append(@, full.chunks)]
  BY <1>3, <1>5, <1>11, <1>12, <1>14 DEF Handed
<1> QED
  BY <1>7, <1>10, <1>13, <1>14

(* What a first frame leaves of the packets in progress, and what it        *)
(* reports.                                                                 *)
LEMMA FlushedRest ==
  ASSUME CfpInv, NEW fr \in Frame, fr.dst \in Node, fr.key \in Key
  PROVE  /\ Rest(fr, Flushed(fr), Superseded(fr))
         /\ partials[fr.dst][fr.key] # None =>
              PacketsOf(partials[fr.dst][fr.key].chunks) \subseteq Superseded(fr)
<1> DEFINE own == partials[fr.dst]
<1>1. own \in [Key -> Partial \cup {None}]
  BY DEF CfpInv, Typed
<1>2. CASE own[fr.key] # None
  <2>1. Flushed(fr) = own /\ Superseded(fr) = PacketsOf(own[fr.key].chunks)
    BY <1>2 DEF Flushed, Superseded
  <2>2. Superseded(fr) \subseteq 1..Len(sent)
    BY <1>2, <2>1, CollectedSent
  <2> QED
    BY <1>1, <2>1, <2>2 DEF Rest
<1>3. CASE own[fr.key] = None
  <2>1. Flushed(fr) = Unexpired(own, clock) /\ Superseded(fr) = TimedOut(own, clock)
    BY <1>3 DEF Flushed, Superseded
  <2>2. ASSUME NEW k \in Key, IsStale(own[k], clock)
        PROVE  PacketsOf(own[k].chunks) \subseteq 1..Len(sent) \cap TimedOut(own, clock)
    <3>1. own[k] # None
      BY <2>2 DEF IsStale
    <3> QED
      BY <2>2, <3>1, CollectedSent DEF TimedOut
  <2>3. TimedOut(own, clock) \subseteq 1..Len(sent)
    BY <2>2 DEF TimedOut
  <2>4. Unexpired(own, clock) \in [Key -> Partial \cup {None}]
    BY <1>1 DEF Unexpired
  <2>5. \A k \in Key : IF IsStale(own[k], clock) THEN Unexpired(own, clock)[k] = None
                       ELSE Unexpired(own, clock)[k] = own[k]
    BY DEF Unexpired
  <2> QED
    BY <1>3, <2>1, <2>2, <2>3, <2>4, <2>5 DEF Rest
<1> QED
  BY <1>2, <1>3

(* A continuation leaves the other packets in progress alone.               *)
LEMMA OwnRest ==
  ASSUME CfpInv, NEW fr \in Frame, fr.dst \in Node, NEW packets \in SUBSET (1..Len(sent))
  PROVE  Rest(fr, partials[fr.dst], packets)
BY DEF CfpInv, Typed, Rest

Feeds(n) == Orphan(n) \/ FrameLost(n) \/ ShortFirst(n) \/ FirstFrame(n) \/ Continuation(n)

(* CspReassembler.feed, all ways through it.                                *)
LEMMA FeedEffects ==
  ASSUME CfpInv, NEW n \in Node, bus[n] # <<>>, Feeds(n), NEW fr, fr = Head(bus[n])
  PROVE  Fed(n, fr) /\ (Dropped(fr) \/ Kept(fr) \/ Handed(fr))
<1>1. /\ fr \in Frame /\ fr.dst \in Node /\ fr.key \in Key /\ fr.chunk \in Nat \X Nat
      /\ fr.chunk[1] \in 1..Len(sent)
  BY HeadFacts
<1> DEFINE own == partials[fr.dst]
           part == own[fr.key]
<1>2. CASE Orphan(n)
  <2>1. Arrives(n, fr) /\ part = None /\ Drop(fr, fr.key, own, {fr.chunk[1]})
    BY <1>2 DEF Orphan
  <2>2. {fr.chunk[1]} \in SUBSET (1..Len(sent))
    BY <1>1
  <2>3. Rest(fr, own, {fr.chunk[1]})
    BY <1>1, <2>2, OwnRest
  <2> HIDE DEF own
  <2> QED
    BY <1>1, <2>1, <2>2, <2>3, DropEffect DEF own
<1>3. CASE FrameLost(n)
  <2> DEFINE packets == PacketsOf(Append(part.chunks, fr.chunk))
  <2>1. Arrives(n, fr) /\ part # None /\ Drop(fr, fr.key, own, packets)
    BY <1>3 DEF FrameLost
  <2>2. part.chunks \in Seq(Nat \X Nat) /\ PacketsOf(part.chunks) \subseteq 1..Len(sent)
    BY <1>1, <2>1, CollectedSent
  <2>3. packets = PacketsOf(part.chunks) \cup {fr.chunk[1]}
    BY <1>1, <2>2, PacketsOfAppend
  <2>4. packets \in SUBSET (1..Len(sent))
    BY <1>1, <2>2, <2>3
  <2> HIDE DEF packets
  <2>5. Rest(fr, own, packets)
    BY <1>1, <2>4, OwnRest
  <2>6. packets \subseteq packets /\ fr.chunk[1] \in packets /\ PacketsOf(part.chunks) \subseteq packets
    BY <2>3
  <2> QED
    BY <1>1, <2>1, <2>4, <2>5, <2>6, DropEffect
<1>4. CASE ShortFirst(n)
  <2> DEFINE more == Superseded(fr) \cup {fr.chunk[1]}
  <2>1. Arrives(n, fr) /\ Drop(fr, fr.key, Flushed(fr), more)
    BY <1>4 DEF ShortFirst
  <2>2. /\ Rest(fr, Flushed(fr), Superseded(fr))
        /\ part # None => PacketsOf(part.chunks) \subseteq Superseded(fr)
    BY <1>1, FlushedRest
  <2>3. more \in SUBSET (1..Len(sent)) /\ Superseded(fr) \subseteq more /\ fr.chunk[1] \in more
    BY <1>1, <2>2 DEF Rest
  <2>4. part # None => PacketsOf(part.chunks) \subseteq more
    BY <2>2
  <2> HIDE DEF more
  <2> QED
    BY <1>1, <2>1, <2>2, <2>3, <2>4, DropEffect
<1>5. CASE FirstFrame(n)
  <2> DEFINE new == [chunks |-> <<>>, bytes |-> 0, next |-> 1, last |-> clock]
  <2>1. Arrives(n, fr) /\ fr.begin /\ Take(fr, Flushed(fr), new, Superseded(fr))
    BY <1>5 DEF FirstFrame
  <2>2. new \in Partial /\ new.chunks = <<>> /\ new.next = 1
    BY DEF Partial, FrameCounts, CfpInv, Typed
  <2> HIDE DEF new
  <2>3. /\ Rest(fr, Flushed(fr), Superseded(fr))
        /\ part # None => PacketsOf(part.chunks) \subseteq Superseded(fr)
    BY <1>1, FlushedRest
  <2> QED
    BY <1>1, <2>1, <2>2, <2>3, TakeEffect
<1>6. CASE Continuation(n)
  <2> DEFINE next == [part EXCEPT !.next = (@ + 1) % FrameCounts, !.last = clock]
  <2>1. /\ Arrives(n, fr) /\ ~fr.begin /\ part # None /\ fr.count = part.next
        /\ Take(fr, own, next, {})
    BY <1>6 DEF Continuation
  <2>2. part \in Partial
    BY <1>1, <2>1, CollectedSent
  <2>3. /\ next \in Partial /\ next.chunks = part.chunks
        /\ next.next = (part.next + 1) % FrameCounts
    <3>1. clock \in Nat
      BY DEF CfpInv, Typed
    <3>2. part.next \in 0..(FrameCounts - 1)
      BY <2>2 DEF Partial
    <3>3. (part.next + 1) % FrameCounts \in 0..(FrameCounts - 1)
      BY ONLY <3>2 DEF FrameCounts
    <3> DEFINE p == part
               m == (p.next + 1) % FrameCounts
    <3> HIDE DEF m, p
    <3>4. p \in Partial /\ m \in 0..(FrameCounts - 1)
      BY <2>2, <3>3 DEF p, m
    <3>5. LET q == [p EXCEPT !.next = m, !.last = clock]
          IN  q \in Partial /\ q.chunks = p.chunks /\ q.next = m
      BY <3>1, <3>4 DEF Partial
    <3> QED
      BY <3>5 DEF p, m
  <2> HIDE DEF next
  <2>4. Rest(fr, own, {})
    BY <1>1, OwnRest
  <2> QED
    BY <1>1, <2>1, <2>3, <2>4, TakeEffect
<1> QED
  BY <1>2, <1>3, <1>4, <1>5, <1>6 DEF Feeds

(* A packet in progress with the frame is collected in step.                *)
LEMMA GrownCollected ==
  ASSUME CfpInv, NEW n \in Node, bus[n] # <<>>, NEW fr, fr = Head(bus[n]),
         NEW full, Grown(fr, full)
  PROVE  /\ Collected(full.chunks, fr.dst, fr.key)
         /\ full.next = Len(full.chunks) % FrameCounts
         /\ Len(full.chunks) \in Nat \ {0}
         /\ full.chunks[Len(full.chunks)] = fr.chunk
<1>1. /\ fr \in Frame /\ Sound(fr) /\ fr.chunk \in Nat \X Nat
      /\ fr.dst \in Node /\ fr.key \in Key
  BY HeadFacts
<1>2. /\ IsChunk(fr.chunk) /\ KeyOf(fr.chunk[1]) = fr.key /\ sent[fr.chunk[1]].dst = fr.dst
      /\ fr.count = fr.chunk[2] % FrameCounts /\ (fr.begin <=> fr.chunk[2] = 0)
  BY <1>1 DEF Sound
<1> DEFINE part == partials[fr.dst][fr.key]
           c == part.chunks
           r == full.chunks
<1>3. CASE fr.begin
  <2>1. r = <<fr.chunk>> /\ full.next = 1 /\ fr.chunk[2] = 0
    BY <1>2, <1>3 DEF Grown
  <2>2. r \in Seq(Nat \X Nat) /\ Len(r) = 1 /\ r[1] = fr.chunk /\ r # <<>>
    BY <1>1, <2>1
  <2> HIDE DEF r
  <2>3. 0 % FrameCounts = 0 /\ 1 % FrameCounts = 1
    BY DEF FrameCounts
  <2>4. Collected(r, fr.dst, fr.key)
    BY ONLY <1>2, <2>1, <2>2, <2>3 DEF Collected
  <2> QED
    BY <2>1, <2>2, <2>3, <2>4 DEF r
<1>4. CASE ~fr.begin
  <2>1. /\ part # None /\ fr.count = part.next /\ r = Append(c, fr.chunk)
        /\ full.next = (part.next + 1) % FrameCounts
    BY <1>4 DEF Grown
  <2>2. /\ Collected(c, fr.dst, fr.key) /\ part.next = Len(c) % FrameCounts
        /\ c \in Seq(Nat \X Nat) /\ c # <<>>
    BY <1>1, <2>1 DEF CfpInv, PartialInv, InProgress, Collected
  <2> HIDE DEF part, c, r
  <2>3. /\ r \in Seq(Nat \X Nat) /\ r # <<>>
        /\ Len(c) \in Nat /\ Len(r) = Len(c) + 1
        /\ \A i \in 1..Len(c) : r[i] = c[i]
        /\ r[Len(c) + 1] = fr.chunk
    BY <1>1, <2>1, <2>2, AppendShape
  <2>4. 1 \in 1..Len(c)
    BY <2>2, <2>3
  <2>5. ((Len(c) % FrameCounts) + 1) % FrameCounts = (Len(c) + 1) % FrameCounts
    BY <2>3 DEF FrameCounts
  <2>6. ASSUME NEW j \in 1..Len(r)
        PROVE  /\ IsChunk(r[j]) /\ KeyOf(r[j][1]) = fr.key /\ sent[r[j][1]].dst = fr.dst
               /\ r[j][2] % FrameCounts = (j - 1) % FrameCounts
    <3>1. CASE j \in 1..Len(c)
      BY <2>2, <2>3, <3>1 DEF Collected
    <3>2. CASE j = Len(c) + 1
      <4>1. r[j] = fr.chunk /\ j - 1 = Len(c)
        BY <2>3, <3>2
      <4> QED
        BY <1>2, <2>1, <2>2, <4>1
    <3> QED
      BY <2>3, <3>1, <3>2
  <2>7. Collected(r, fr.dst, fr.key)
    BY <2>2, <2>3, <2>4, <2>6 DEF Collected
  <2> QED
    BY <2>1, <2>2, <2>3, <2>5, <2>7 DEF r
<1> QED
  BY <1>3, <1>4

-----------------------------------------------------------------------------
(* The invariant, effect by effect.                                         *)

(* Packets may have been sent; those sent before are as they were.          *)
Extended ==
  /\ Len(sent') \in Nat
  /\ Len(sent) <= Len(sent')
  /\ \A p \in 1..Len(sent) : sent'[p] = sent[p]

(* An unchanged list of packets is an extended one.                         *)
LEMMA SameExtended ==
  ASSUME CfpInv, sent' = sent
  PROVE  Extended
<1>1. Len(sent) \in Nat
  BY DEF CfpInv, Typed
<1> QED
  BY <1>1 DEF Extended

(* What was collected stays so.                                             *)
LEMMA CollectedStays ==
  ASSUME CfpInv, Extended
  PROVE  /\ \A p \in 1..Len(sent) : p \in 1..Len(sent') /\ Total(p)' = Total(p) /\ KeyOf(p)' = KeyOf(p)
         /\ \A c : IsChunk(c) => IsChunk(c)'
         /\ \A c, n, k : Collected(c, n, k) => Collected(c, n, k)'
         /\ \A fr : Sound(fr) => Sound(fr)'
<1>1. Len(sent) \in Nat
  BY DEF CfpInv, Typed
<1>2. \A p \in 1..Len(sent) : p \in 1..Len(sent')
  BY <1>1 DEF Extended
<1>3. \A p \in 1..Len(sent) : Total(p)' = Total(p) /\ KeyOf(p)' = KeyOf(p) /\ sent'[p].dst = sent[p].dst
  BY DEF Extended, Total, KeyOf
<1>4. ASSUME NEW c, IsChunk(c)
      PROVE  IsChunk(c)'
  BY <1>2, <1>3, <1>4 DEF IsChunk
<1>5. ASSUME NEW c, NEW n, NEW k, Collected(c, n, k)
      PROVE  Collected(c, n, k)'
  <2>1. \A j \in 1..Len(c) : IsChunk(c[j]) /\ c[j][1] \in 1..Len(sent)
    BY <1>5 DEF Collected, IsChunk
  <2> QED
    BY <1>3, <1>4, <1>5, <2>1 DEF Collected
<1>6. ASSUME NEW fr, Sound(fr)
      PROVE  Sound(fr)'
  <2>1. fr.chunk[1] \in 1..Len(sent)
    BY <1>6 DEF Sound, IsChunk
  <2> QED
    BY <1>3, <1>4, <1>6, <2>1 DEF Sound
<1> QED
  BY <1>2, <1>3, <1>4, <1>5, <1>6

(* Packets in progress that stay or vanish.                                 *)
LEMMA PartialsStay ==
  ASSUME CfpInv, Extended, NEW n \in Node, NEW k \in Key,
         partials'[n][k] \in {partials[n][k], None}
  PROVE  partials'[n][k] # None => InProgress(partials[n][k], n, k)'
<1> SUFFICES ASSUME partials'[n][k] # None
             PROVE  InProgress(partials[n][k], n, k)'
  OBVIOUS
<1>1. PICK part : part = partials[n][k]
  OBVIOUS
<1>2. InProgress(part, n, k)
  BY <1>1 DEF CfpInv, PartialInv
<1>3. InProgress(part, n, k)'
  BY <1>2, CollectedStays DEF InProgress
<1>4. partials'[n][k] = part
  BY <1>1
<1> QED
  BY <1>3, <1>4 DEF InProgress, Collected, IsChunk, KeyOf, Total

(* Deliveries stay.                                                         *)
LEMMA DeliveryStays ==
  ASSUME CfpInv, Extended, NEW n \in Node, NEW chunks, Delivery(chunks, n)
  PROVE  Delivery(chunks, n)'
<1>1. PICK k \in Key : Collected(chunks, n, k)
  BY DEF Delivery
<1>2. Collected(chunks, n, k)'
  BY <1>1, CollectedStays
<1>3. PICK last : last = chunks[Len(chunks)]
  OBVIOUS
<1>4. Len(chunks) \in 1..Len(chunks)
  BY <1>1 DEF Collected
<1>5. last[1] \in 1..Len(sent) /\ last[2] = Total(last[1]) - 1
  BY <1>1, <1>3, <1>4 DEF Delivery, Collected, IsChunk
<1>6. last[2] = Total(last[1])' - 1
  BY <1>5, CollectedStays
<1> QED
  BY <1>2, <1>3, <1>6 DEF Delivery

(* ... all of them.                                                         *)
LEMMA DeliveriesStay ==
  ASSUME CfpInv, Extended, delivered' = delivered
  PROVE  DeliveryInv'
<1>1. /\ delivered \in [Node -> Seq(Seq(Nat \X Nat))]
      /\ \A n \in Node : \A i \in 1..Len(delivered[n]) : Delivery(delivered[n][i], n)
  BY DEF CfpInv, DeliveryInv
<1>2. ASSUME NEW n \in Node, NEW i \in 1..Len(delivered'[n])
      PROVE  Delivery(delivered[n][i], n)'
  <2>1. PICK chunks : chunks = delivered[n][i]
    OBVIOUS
  <2>2. Delivery(chunks, n)'
    BY <1>1, <1>2, <2>1, DeliveryStays
  <2>3. delivered'[n][i] = chunks
    BY <2>1
  <2> QED
    BY <2>2, <2>3 DEF Delivery, Collected, IsChunk, KeyOf, Total
<1> QED
  BY <1>1, <1>2 DEF DeliveryInv

(* A node's next frame is taken off its bus.                                *)
LEMMA BusTail ==
  ASSUME CfpInv, NEW n \in Node, bus[n] # <<>>, bus' = [bus EXCEPT ![n] = Tail(@)], sent' = sent
  PROVE  /\ bus' \in [Node -> Seq(Frame)]
         /\ BusInv'
         /\ bus'[n] = Tail(bus[n])
         /\ \A m \in Node \ {n} : bus'[m] = bus[m]
<1>1. bus \in [Node -> Seq(Frame)]
  BY DEF CfpInv, Typed
<1>2. /\ Tail(bus[n]) \in Seq(Frame) /\ Len(bus[n]) \in Nat \ {0}
      /\ Len(Tail(bus[n])) = Len(bus[n]) - 1
      /\ \A i \in 1..Len(Tail(bus[n])) : Tail(bus[n])[i] = bus[n][i + 1]
  BY HeadFacts
<1>3. /\ bus' \in [Node -> Seq(Frame)] /\ bus'[n] = Tail(bus[n])
      /\ \A m \in Node \ {n} : bus'[m] = bus[m]
  BY <1>1, <1>2
<1>4. ASSUME NEW m \in Node, NEW i \in 1..Len(bus'[m])
      PROVE  Sound(bus[m][i])'
  <2>1. PICK fr : fr = bus'[m][i]
    OBVIOUS
  <2>2. Sound(fr)
    <3>1. CASE m # n
      BY <1>3, <1>4, <2>1, <3>1 DEF CfpInv, BusInv
    <3>2. CASE m = n
      <4>1. i + 1 \in 1..Len(bus[n]) /\ fr = bus[n][i + 1]
        BY <1>2, <1>3, <1>4, <2>1, <3>2
      <4> QED
        BY <4>1 DEF CfpInv, BusInv
    <3> QED
      BY <3>1, <3>2
  <2>3. Sound(fr)'
    BY <2>2, SameExtended, CollectedStays
  <2> QED
    BY <2>1, <2>3 DEF Sound, IsChunk, KeyOf, Total
<1>5. BusInv'
  BY <1>4 DEF BusInv
<1> QED
  BY <1>3, <1>5

(* Feeding a frame keeps the invariant.                                     *)
LEMMA FedKeeps ==
  ASSUME CfpInv, NEW n \in Node, bus[n] # <<>>, NEW fr, fr = Head(bus[n]),
         Fed(n, fr), Dropped(fr) \/ Kept(fr) \/ Handed(fr)
  PROVE  CfpInv'
<1>1. /\ bus' = [bus EXCEPT ![n] = Tail(@)]
      /\ UNCHANGED <<clock, counter, ended, sent, lost>>
      /\ reported' \subseteq 1..Len(sent)
      /\ partials' \in [Node -> [Key -> Partial \cup {None}]]
      /\ \A m \in Node, k \in Key : \/ m = fr.dst /\ k = fr.key
                                    \/ partials'[m][k] \in {partials[m][k], None}
  BY DEF Fed, Arrives
<1>2. Extended
  BY <1>1, SameExtended
<1>3. /\ fr \in Frame /\ Sound(fr) /\ fr.dst \in Node /\ fr.key \in Key
      /\ IsChunk(fr.chunk) /\ fr.chunk[1] \in 1..Len(sent)
  BY HeadFacts DEF Sound
<1>4. Typed'
  BY <1>1, BusTail DEF CfpInv, Typed
<1>5. BusInv'
  BY <1>1, BusTail
<1>6. PartialInv'
  <2> SUFFICES ASSUME NEW m \in Node, NEW k \in Key, partials'[m][k] # None
               PROVE  InProgress(partials[m][k], m, k)'
    BY DEF PartialInv
  <2>1. CASE partials'[m][k] \in {partials[m][k], None}
    BY <1>2, <2>1, PartialsStay
  <2>2. CASE m = fr.dst /\ k = fr.key /\ Kept(fr)
    <3>1. PICK full : Grown(fr, full) /\ partials'[m][k] = full
      BY <2>2 DEF Kept
    <3>2. InProgress(full, m, k)
      BY <2>2, <3>1, GrownCollected, ZenonT(40) DEF Grown, InProgress
    <3>3. InProgress(full, m, k)'
      BY <1>2, <3>2, CollectedStays DEF InProgress
    <3> QED
      BY <3>1, <3>3 DEF InProgress, Collected, IsChunk, KeyOf, Total
  <2>3. CASE m = fr.dst /\ k = fr.key /\ (Dropped(fr) \/ Handed(fr))
    BY <2>3 DEF Dropped, Handed
  <2> QED
    BY <1>1, <2>1, <2>2, <2>3
<1>7. CASE UNCHANGED delivered
  BY <1>2, <1>4, <1>5, <1>6, <1>7, DeliveriesStay DEF CfpInv
<1>8. CASE Handed(fr)
  <2>1. PICK full : Grown(fr, full) /\ delivered' = [delivered EXCEPT ![fr.dst] = Append(@, full.chunks)]
    BY <1>8 DEF Handed
  <2> DEFINE c == full.chunks
             d == delivered[fr.dst]
  <2>2. /\ Collected(c, fr.dst, fr.key) /\ Len(c) \in Nat \ {0} /\ c[Len(c)] = fr.chunk
    BY <2>1, GrownCollected
  <2>3. fr.end /\ fr.chunk[2] = Total(fr.chunk[1]) - 1
    BY <1>3, <1>8 DEF Handed, Sound
  <2>4. Delivery(c, fr.dst)
    BY <1>3, <2>2, <2>3 DEF Delivery
  <2>5. c \in Seq(Nat \X Nat)
    BY <2>2 DEF Collected
  <2>6. delivered \in [Node -> Seq(Seq(Nat \X Nat))] /\ d \in Seq(Seq(Nat \X Nat))
    BY <1>3 DEF CfpInv, DeliveryInv
  <2> HIDE DEF c
  <2>7. /\ Append(d, c) \in Seq(Seq(Nat \X Nat)) /\ Len(d) \in Nat /\ Len(Append(d, c)) = Len(d) + 1
        /\ \A i \in 1..Len(d) : Append(d, c)[i] = d[i]
        /\ Append(d, c)[Len(d) + 1] = c
    BY ONLY <2>5, <2>6, AppendShape
  <2>8. /\ delivered' \in [Node -> Seq(Seq(Nat \X Nat))]
        /\ delivered'[fr.dst] = Append(d, c)
        /\ \A m \in Node \ {fr.dst} : delivered'[m] = delivered[m]
    BY <1>3, <2>1, <2>6, <2>7 DEF c
  <2>9. ASSUME NEW m \in Node, NEW i \in 1..Len(delivered'[m])
        PROVE  Delivery(delivered[m][i], m)'
    <3>1. PICK chunks : chunks = delivered'[m][i]
      OBVIOUS
    <3>2. Delivery(chunks, m)
      <4>1. CASE m = fr.dst /\ i = Len(d) + 1
        BY <2>4, <2>7, <2>8, <3>1, <4>1
      <4>2. CASE m # fr.dst
        BY <2>8, <2>9, <3>1, <4>2 DEF CfpInv, DeliveryInv
      <4>3. CASE m = fr.dst /\ i # Len(d) + 1
        <5> DEFINE r == Append(d, c)
        <5>1. delivered'[m] = r
          BY <2>8, <4>3
        <5> HIDE DEF r, d
        <5>2. Len(r) = Len(d) + 1
          BY <2>7 DEF r
        <5>3. i \in 1..(Len(d) + 1) /\ chunks = r[i]
          BY <2>9, <3>1, <5>1, <5>2
        <5>4. i \in 1..Len(d)
          BY <2>7, <4>3, <5>3
        <5>5. chunks = d[i]
          BY <2>7, <5>3, <5>4 DEF r
        <5> QED
          BY <4>3, <5>4, <5>5 DEF CfpInv, DeliveryInv, d
      <4> QED
        BY <4>1, <4>2, <4>3
    <3>3. Delivery(chunks, m)'
      BY <1>2, <3>2, DeliveryStays
    <3> QED
      BY <3>1, <3>3 DEF Delivery, Collected, IsChunk, KeyOf, Total
  <2>10. DeliveryInv'
    BY <2>8, <2>9 DEF DeliveryInv
  <2> QED
    BY <1>4, <1>5, <1>6, <2>10 DEF CfpInv
<1> QED
  BY <1>7, <1>8 DEF Dropped, Kept

(* fragment_packet: frames of one packet, numbered from zero.               *)
LEMMA FragmentShape ==
  ASSUME NEW p \in Nat, NEW pk \in Packet
  PROVE  LET frames == FragmentPacket(p, pk)
         IN  /\ frames \in Seq(Frame)
             /\ Len(frames) = FrameTotal(pk.size) /\ Len(frames) \in Nat \ {0}
             /\ \A j \in 1..Len(frames) :
                  /\ frames[j].chunk = <<p, j - 1>>
                  /\ frames[j].dst = pk.dst
                  /\ frames[j].key = <<pk.prio, pk.src % SenderFields, pk.count>>
                  /\ frames[j].count = (j - 1) % FrameCounts
                  /\ frames[j].begin <=> j = 1
                  /\ frames[j].end <=> j = FrameTotal(pk.size)
<1> DEFINE total == FrameTotal(pk.size)
           key == <<pk.prio, pk.src % SenderFields, pk.count>>
           At(j) == [chunk |-> <<p, j - 1>>, bytes |-> ChunkBytes(pk.size, j - 1), dst |-> pk.dst,
                     key |-> key, count |-> (j - 1) % FrameCounts, begin |-> j = 1, end |-> j = total]
<1>1. pk.size \in Nat /\ pk.dst \in Node
  BY CfpAssumption DEF Packet
<1>2. total \in Nat \ {0} /\ \A i \in 0..(total - 1) : ChunkBytes(pk.size, i) \in Nat
  BY <1>1, Sizes
<1>3. key \in Key
  BY DEF Key, Sender, Packet
<1>4. FragmentPacket(p, pk) = [j \in 1..total |-> At(j)]
  BY DEF FragmentPacket
<1> HIDE DEF total, key
<1>5. ASSUME NEW j \in 1..total
      PROVE  At(j) \in Frame
  <2>1. j - 1 \in 0..(total - 1) /\ j - 1 \in Nat
    BY <1>2
  <2>2. (j - 1) % FrameCounts \in 0..(FrameCounts - 1)
    BY <2>1 DEF FrameCounts
  <2> QED
    BY <1>1, <1>2, <1>3, <2>1, <2>2 DEF Frame
<1> DEFINE frames == [j \in 1..total |-> At(j)]
<1>6. frames \in Seq(Frame) /\ Len(frames) = total
  <2> HIDE DEF At
  <2> QED
    BY <1>2, <1>5
<1>7. \A j \in 1..total : /\ frames[j].chunk = <<p, j - 1>>
                          /\ frames[j].dst = pk.dst
                          /\ frames[j].key = key
                          /\ frames[j].count = (j - 1) % FrameCounts
                          /\ frames[j].begin <=> j = 1
                          /\ frames[j].end <=> j = total
  OBVIOUS
<1> HIDE DEF frames
<1>8. FragmentPacket(p, pk) = frames
  BY <1>4 DEF frames
<1> QED
  BY <1>2, <1>6, <1>7, <1>8 DEF total, key

Sends(f, pk) ==
  /\ ~ended
  /\ Len(sent) < MaxSent
  /\ pk \in Packet
  /\ pk.src = f[1] /\ pk.count = counter[f]
  /\ sent' = Append(sent, pk)
  /\ bus' = [bus EXCEPT ![f[1]] = @ \o FragmentPacket(Len(sent) + 1, pk)]
  /\ counter' = [counter EXCEPT ![f] = (@ + 1) % PacketCounts]
  /\ UNCHANGED <<clock, partials, ended, lost, delivered, reported>>

(* CspFragmenter.fragment puts a packet on the bus.                         *)
LEMMA SendEffect ==
  ASSUME CfpInv, NEW f \in Fragmenter, NEW d \in Node, NEW s \in PayloadSize, NEW p \in Priority,
         NEW m \in Form, Send(f, d, s, p, m)
  PROVE  \E pk : Sends(f, pk)
<1> DEFINE pk == [src |-> f[1], dst |-> d, size |-> s, prio |-> p, form |-> m, count |-> counter[f]]
<1>1. f[1] \in Node
  BY CfpAssumption
<1>2. counter[f] \in 0..(PacketCounts - 1)
  BY DEF CfpInv, Typed
<1>3. pk \in Packet
  BY <1>1, <1>2 DEF Packet
<1>4. pk.src = f[1] /\ pk.count = counter[f]
  OBVIOUS
<1>5. /\ ~ended
      /\ Len(sent) < MaxSent
      /\ sent' = Append(sent, pk)
      /\ bus' = [bus EXCEPT ![f[1]] = @ \o FragmentPacket(Len(sent) + 1, pk)]
      /\ counter' = [counter EXCEPT ![f] = (@ + 1) % PacketCounts]
      /\ UNCHANGED <<clock, partials, ended, lost, delivered, reported>>
  BY DEF Send
<1> HIDE DEF pk
<1>6. Sends(f, pk)
  BY <1>3, <1>4, <1>5 DEF Sends
<1> QED
  BY <1>6

(* What is on the bus after a packet was sent.                              *)
LEMMA SendShape ==
  ASSUME CfpInv, NEW f \in Fragmenter, NEW pk, Sends(f, pk)
  PROVE  /\ f[1] \in Node
         /\ Extended
         /\ sent' \in Seq(Packet) /\ Len(sent') = Len(sent) + 1 /\ sent'[Len(sent) + 1] = pk
         /\ bus' \in [Node -> Seq(Frame)]
         /\ Len(bus[f[1]]) \in Nat
         /\ Len(bus'[f[1]]) = Len(bus[f[1]]) + FrameTotal(pk.size)
         /\ FrameTotal(pk.size) \in Nat \ {0}
         /\ \A m \in Node \ {f[1]} : bus'[m] = bus[m]
         /\ \A i \in 1..Len(bus[f[1]]) : i \in 1..Len(bus'[f[1]]) /\ bus'[f[1]][i] = bus[f[1]][i]
         /\ \A i \in 1..Len(bus'[f[1]]) : i > Len(bus[f[1]]) =>
              LET fr == bus'[f[1]][i]
                  j == i - Len(bus[f[1]])
              IN  /\ j \in 1..FrameTotal(pk.size)
                  /\ fr.chunk = <<Len(sent) + 1, j - 1>>
                  /\ fr.dst = pk.dst
                  /\ fr.key = <<pk.prio, pk.src % SenderFields, pk.count>>
                  /\ fr.count = (j - 1) % FrameCounts
                  /\ fr.begin <=> j = 1
                  /\ fr.end <=> j = FrameTotal(pk.size)
<1> DEFINE n == f[1]
           frames == FragmentPacket(Len(sent) + 1, pk)
           old == bus[n]
           new == old \o frames
           Kin(fr, j) == /\ j \in 1..FrameTotal(pk.size)
                         /\ fr.chunk = <<Len(sent) + 1, j - 1>>
                         /\ fr.dst = pk.dst
                         /\ fr.key = <<pk.prio, pk.src % SenderFields, pk.count>>
                         /\ fr.count = (j - 1) % FrameCounts
                         /\ fr.begin <=> j = 1
                         /\ fr.end <=> j = FrameTotal(pk.size)
<1>1. /\ sent \in Seq(Packet) /\ Len(sent) \in Nat /\ bus \in [Node -> Seq(Frame)]
      /\ n \in Node /\ old \in Seq(Frame)
  <2>1. n \in Node
    BY CfpAssumption
  <2>2. sent \in Seq(Packet) /\ bus \in [Node -> Seq(Frame)]
    BY DEF CfpInv, Typed
  <2> QED
    BY <2>1, <2>2
<1>2. pk \in Packet /\ sent' = Append(sent, pk) /\ bus' = [bus EXCEPT ![n] = new]
  BY DEF Sends
<1>3. /\ sent' \in Seq(Packet) /\ Len(sent') = Len(sent) + 1 /\ sent'[Len(sent) + 1] = pk
      /\ \A q \in 1..Len(sent) : sent'[q] = sent[q]
  BY <1>1, <1>2, AppendShape
<1>4. Extended
  BY <1>1, <1>3 DEF Extended
<1>5. Len(sent) + 1 \in Nat
  BY <1>1
<1>6. /\ frames \in Seq(Frame)
      /\ Len(frames) = FrameTotal(pk.size) /\ Len(frames) \in Nat \ {0}
      /\ \A j \in 1..Len(frames) :
           /\ frames[j].chunk = <<Len(sent) + 1, j - 1>>
           /\ frames[j].dst = pk.dst
           /\ frames[j].key = <<pk.prio, pk.src % SenderFields, pk.count>>
           /\ frames[j].count = (j - 1) % FrameCounts
           /\ frames[j].begin <=> j = 1
           /\ frames[j].end <=> j = FrameTotal(pk.size)
  BY <1>2, <1>5, FragmentShape
<1> HIDE DEF frames
<1>7. /\ new \in Seq(Frame)
      /\ Len(old) \in Nat /\ Len(new) = Len(old) + Len(frames)
      /\ \A i \in 1..Len(old) : i \in 1..Len(new) /\ new[i] = old[i]
      /\ \A i \in 1..(Len(old) + Len(frames)) : i > Len(old) => new[i] = frames[i - Len(old)]
  <2>1. old \in Seq(Frame) /\ frames \in Seq(Frame)
    BY <1>1, <1>6
  <2> HIDE DEF old
  <2> QED
    BY <2>1, ConcatShape
<1> HIDE DEF new
<1>8. /\ bus' \in [Node -> Seq(Frame)] /\ bus'[n] = new
      /\ \A m \in Node \ {n} : bus'[m] = bus[m]
  <2>1. bus \in [Node -> Seq(Frame)] /\ n \in Node /\ new \in Seq(Frame)
    BY <1>1, <1>7
  <2>2. bus' = [bus EXCEPT ![n] = new]
    BY <1>2
  <2> HIDE DEF n
  <2> QED
    BY <2>1, <2>2
<1> HIDE DEF old, n
<1>9. ASSUME NEW i \in 1..Len(new), i > Len(old)
      PROVE  Kin(new[i], i - Len(old))
  <2>1. Len(old) \in Nat /\ Len(frames) \in Nat /\ Len(new) = Len(old) + Len(frames)
    BY <1>6, <1>7
  <2>2. i - Len(old) \in 1..Len(frames) /\ new[i] = frames[i - Len(old)]
    BY <1>7, <1>9, <2>1
  <2> QED
    BY <1>6, <2>2
<1> HIDE DEF Kin
<1>10. \A i \in 1..Len(bus'[n]) : i > Len(old) => Kin(bus'[n][i], i - Len(old))
  BY <1>8, <1>9
<1>11. /\ Len(bus'[n]) = Len(old) + FrameTotal(pk.size) /\ FrameTotal(pk.size) \in Nat \ {0}
       /\ \A i \in 1..Len(old) : i \in 1..Len(bus'[n]) /\ bus'[n][i] = old[i]
  BY <1>6, <1>7, <1>8
<1> QED
  BY <1>1, <1>3, <1>4, <1>7, <1>8, <1>10, <1>11 DEF n, old, Kin

(* Sending a packet keeps the invariant.                                    *)
LEMMA SendKeeps ==
  ASSUME CfpInv, NEW f \in Fragmenter, NEW pk, Sends(f, pk)
  PROVE  CfpInv'
<1>1. PICK q : q = Len(sent) + 1
  OBVIOUS
<1>2. /\ pk \in Packet
      /\ counter' = [counter EXCEPT ![f] = (@ + 1) % PacketCounts]
      /\ UNCHANGED <<clock, partials, ended, lost, delivered, reported>>
  BY DEF Sends
<1> DEFINE n == f[1]
<1>3. /\ n \in Node /\ Extended /\ sent' \in Seq(Packet) /\ Len(sent') = q /\ sent'[q] = pk
      /\ bus' \in [Node -> Seq(Frame)] /\ FrameTotal(pk.size) \in Nat \ {0} /\ Len(bus[n]) \in Nat
      /\ \A m \in Node \ {n} : bus'[m] = bus[m]
      /\ \A i \in 1..Len(bus[n]) : bus'[n][i] = bus[n][i]
  BY <1>1, SendShape
<1>4. Len(sent) \in Nat /\ reported \subseteq 1..Len(sent)
  BY DEF CfpInv, Typed
<1>5. Typed'
  <2>1. counter \in [Fragmenter -> 0..(PacketCounts - 1)]
    BY DEF CfpInv, Typed
  <2>2. (counter[f] + 1) % PacketCounts \in 0..(PacketCounts - 1)
    BY <2>1 DEF PacketCounts
  <2>3. counter' \in [Fragmenter -> 0..(PacketCounts - 1)]
    BY <1>2, <2>1, <2>2
  <2>4. reported' \subseteq 1..Len(sent')
    BY <1>1, <1>2, <1>3, <1>4
  <2> QED
    BY <1>2, <1>3, <2>3, <2>4 DEF CfpInv, Typed
<1>6. BusInv'
  <2> SUFFICES ASSUME NEW m \in Node, NEW i \in 1..Len(bus'[m])
               PROVE  Sound(bus[m][i])'
    BY DEF BusInv
  <2>1. PICK fr : fr = bus'[m][i]
    OBVIOUS
  <2>2. Sound(fr)'
    <3>1. CASE m # n
      <4>1. Sound(fr)
        BY <1>3, <2>1, <3>1 DEF CfpInv, BusInv
      <4> QED
        BY <1>3, <4>1, CollectedStays
    <3>2. CASE m = n /\ i <= Len(bus[n])
      <4>1. i \in 1..Len(bus[n]) /\ fr = bus[n][i]
        BY <1>3, <2>1, <3>2
      <4>2. Sound(fr)
        BY <1>3, <4>1 DEF CfpInv, BusInv
      <4> QED
        BY <1>3, <4>2, CollectedStays
    <3>3. CASE m = n /\ i > Len(bus[n])
      <4> DEFINE j == i - Len(bus[n])
      <4>1. /\ j \in 1..FrameTotal(pk.size)
            /\ fr.chunk = <<q, j - 1>>
            /\ fr.dst = pk.dst
            /\ fr.key = <<pk.prio, pk.src % SenderFields, pk.count>>
            /\ fr.count = (j - 1) % FrameCounts
            /\ fr.begin <=> j = 1
            /\ fr.end <=> j = FrameTotal(pk.size)
        <5>1. PICK x : x = bus'[n][i]
          OBVIOUS
        <5>2. i \in 1..Len(bus'[n]) /\ i > Len(bus[n]) /\ fr = x
          BY <2>1, <3>3, <5>1
        <5>3. /\ j \in 1..FrameTotal(pk.size)
              /\ x.chunk = <<Len(sent) + 1, j - 1>>
              /\ x.dst = pk.dst
              /\ x.key = <<pk.prio, pk.src % SenderFields, pk.count>>
              /\ x.count = (j - 1) % FrameCounts
              /\ x.begin <=> j = 1
              /\ x.end <=> j = FrameTotal(pk.size)
          BY <5>1, <5>2, SendShape
        <5> QED
          BY <1>1, <5>2, <5>3
      <4> HIDE DEF j
      <4>2. fr.chunk[1] = q /\ fr.chunk[2] = j - 1 /\ j - 1 \in Nat
        BY <1>3, <4>1
      <4>3. /\ Total(q)' = FrameTotal(pk.size)
            /\ KeyOf(q)' = <<pk.prio, pk.src % SenderFields, pk.count>>
            /\ sent'[q].dst = pk.dst
        BY <1>3 DEF Total, KeyOf
      <4>4. IsChunk(fr.chunk)'
        <5>1. q \in 1..Len(sent') /\ q \in Nat /\ j - 1 < FrameTotal(pk.size)
          BY <1>1, <1>3, <1>4, <4>1
        <5>2. fr.chunk \in Nat \X Nat
          <6>1. <<q, j - 1>> \in Nat \X Nat
            BY <4>2, <5>1
          <6> QED
            BY <4>1, <6>1
        <5> QED
          BY <4>2, <4>3, <5>1, <5>2 DEF IsChunk
      <4>5. (fr.begin <=> fr.chunk[2] = 0) /\ (fr.end <=> fr.chunk[2] = FrameTotal(pk.size) - 1)
        BY <1>3, <4>1, <4>2
      <4> QED
        BY <4>1, <4>2, <4>3, <4>4, <4>5 DEF Sound
    <3> QED
      BY <1>3, <3>1, <3>2, <3>3
  <2> QED
    BY <2>1, <2>2 DEF Sound, IsChunk, KeyOf, Total
<1>7. PartialInv'
  BY <1>2, <1>3, PartialsStay DEF PartialInv
<1>8. DeliveryInv'
  BY <1>2, <1>3, DeliveriesStay
<1> QED
  BY <1>5, <1>6, <1>7, <1>8 DEF CfpInv

(* Lose: the bus loses its oldest unread frame of a node.                   *)
LEMMA LoseKeeps ==
  ASSUME CfpInv, NEW n \in Node, Lose(n)
  PROVE  CfpInv'
<1>1. /\ bus[n] # <<>> /\ bus' = [bus EXCEPT ![n] = Tail(@)]
      /\ UNCHANGED <<clock, counter, partials, ended, sent, delivered, reported>>
  BY DEF Lose
<1>2. Extended
  BY <1>1, SameExtended
<1>3. Typed' /\ BusInv'
  BY <1>1, BusTail DEF CfpInv, Typed
<1>4. PartialInv'
  BY <1>1, <1>2, PartialsStay DEF PartialInv
<1>5. DeliveryInv'
  BY <1>1, <1>2, DeliveriesStay
<1> QED
  BY <1>3, <1>4, <1>5 DEF CfpInv

(* What the end of a run does: packets in progress stay or time out.        *)
LEMMA EndShape ==
  ASSUME CfpInv, RunEnds
  PROVE  /\ partials' \in [Node -> [Key -> Partial \cup {None}]]
         /\ \A n \in Node, k \in Key :
              \/ partials'[n][k] = partials[n][k]
              \/ partials'[n][k] = None /\ Gone(partials[n][k])
         /\ reported' \subseteq 1..Len(sent) /\ reported \subseteq reported'
<1>1. /\ partials \in [Node -> [Key -> Partial \cup {None}]]
      /\ reported \subseteq 1..Len(sent)
  BY DEF CfpInv, Typed
<1>2. /\ partials' = [n \in Node |-> Unexpired(partials[n], clock)]
      /\ reported' = reported \cup UNION {TimedOut(partials[n], clock) : n \in Node}
  BY DEF RunEnds
<1>3. \A n \in Node : Unexpired(partials[n], clock) \in [Key -> Partial \cup {None}]
  BY <1>1 DEF Unexpired
<1>4. ASSUME NEW n \in Node, NEW k \in Key, IsStale(partials[n][k], clock)
      PROVE  /\ PacketsOf(partials[n][k].chunks) \subseteq TimedOut(partials[n], clock)
             /\ PacketsOf(partials[n][k].chunks) \subseteq 1..Len(sent)
  <2>1. partials[n][k] # None
    BY <1>4 DEF IsStale
  <2> QED
    BY <1>4, <2>1, CollectedSent DEF TimedOut
<1>5. ASSUME NEW n \in Node
      PROVE  TimedOut(partials[n], clock) \subseteq 1..Len(sent)
  BY <1>4 DEF TimedOut
<1>6. ASSUME NEW n \in Node, NEW k \in Key
      PROVE  \/ partials'[n][k] = partials[n][k]
             \/ partials'[n][k] = None /\ Gone(partials[n][k])
  <2>1. partials'[n][k] = IF IsStale(partials[n][k], clock) THEN None ELSE partials[n][k]
    BY <1>2 DEF Unexpired
  <2>2. CASE IsStale(partials[n][k], clock)
    <3>1. PacketsOf(partials[n][k].chunks) \subseteq reported'
      BY <1>2, <1>4, <2>2
    <3> QED
      BY <2>1, <2>2, <3>1 DEF Gone
  <2> QED
    BY <2>1, <2>2
<1> QED
  BY <1>1, <1>2, <1>3, <1>5, <1>6

(* The end of a run keeps the invariant.                                    *)
LEMMA EndKeeps ==
  ASSUME CfpInv, RunEnds
  PROVE  CfpInv'
<1>1. UNCHANGED <<clock, counter, bus, sent, lost, delivered>>
  BY DEF RunEnds
<1>2. Extended
  BY <1>1, SameExtended
<1>3. Typed'
  BY <1>1, EndShape DEF CfpInv, Typed
<1>4. BusInv'
  BY <1>1, ZenonT(40) DEF CfpInv, BusInv, Sound, IsChunk, KeyOf, Total
<1>5. PartialInv'
  <2>1. \A n \in Node, k \in Key : partials'[n][k] \in {partials[n][k], None}
    BY EndShape
  <2> QED
    BY <1>2, <2>1, PartialsStay DEF PartialInv
<1>6. DeliveryInv'
  BY <1>1, <1>2, DeliveriesStay
<1> QED
  BY <1>3, <1>4, <1>5, <1>6 DEF CfpInv

(* Nothing but the clock changes.                                           *)
LEMMA QuietKeeps ==
  ASSUME CfpInv, clock' \in Nat,
         UNCHANGED <<counter, bus, partials, ended, sent, lost, delivered, reported>>
  PROVE  CfpInv'
<1>1. Extended
  BY SameExtended
<1>2. Typed'
  BY DEF CfpInv, Typed
<1>3. BusInv'
  BY ZenonT(40) DEF CfpInv, BusInv, Sound, IsChunk, KeyOf, Total
<1>4. PartialInv'
  BY <1>1, PartialsStay DEF PartialInv
<1>5. DeliveryInv'
  BY <1>1, DeliveriesStay
<1> QED
  BY <1>2, <1>3, <1>4, <1>5 DEF CfpInv

(* A fresh bus satisfies the invariant.                                     *)
LEMMA InvInit ==
  ASSUME Init
  PROVE  CfpInv
<1>1. Typed
  <2>1. <<>> \in Seq(Packet) /\ Len(<<>>) = 0
    OBVIOUS
  <2>2. bus \in [Node -> Seq(Frame)]
    BY DEF Init
  <2>3. partials \in [Node -> [Key -> Partial \cup {None}]]
    BY DEF Init
  <2>4. counter \in [Fragmenter -> 0..(PacketCounts - 1)]
    BY DEF Init, PacketCounts
  <2> QED
    BY <2>1, <2>2, <2>3, <2>4 DEF Init, Typed
<1>2. BusInv
  <2>1. \A n \in Node : Len(bus[n]) = 0
    BY DEF Init
  <2> QED
    BY <2>1 DEF BusInv
<1>3. PartialInv
  BY DEF Init, PartialInv
<1>4. DeliveryInv
  <2>1. \A n \in Node : delivered[n] = <<>> /\ Len(delivered[n]) = 0
    BY DEF Init
  <2>2. delivered \in [Node -> Seq(Seq(Nat \X Nat))]
    BY DEF Init
  <2> QED
    BY <2>1, <2>2 DEF DeliveryInv
<1> QED
  BY <1>1, <1>2, <1>3, <1>4 DEF CfpInv

(* The actions of Next, by what they do.                                    *)
LEMMA StepEffects ==
  ASSUME CfpInv, [Next]_vars
  PROVE  \/ \E f \in Fragmenter : \E pk : Sends(f, pk)
         \/ \E n \in Node : Lose(n)
         \/ \E n \in Node : /\ bus[n] # <<>>
                          /\ Fed(n, Head(bus[n]))
                          /\ \/ Dropped(Head(bus[n]))
                             \/ Kept(Head(bus[n]))
                             \/ Handed(Head(bus[n]))
         \/ RunEnds
         \/ /\ clock' \in Nat
            /\ UNCHANGED <<counter, bus, partials, ended, sent, lost, delivered, reported>>
<1>1. clock \in Nat
  BY DEF CfpInv, Typed
<1>2. CASE \E f \in Fragmenter, d \in Node, s \in PayloadSize, p \in Priority, m \in Form :
             Send(f, d, s, p, m)
  BY <1>2, SendEffect
<1>3. CASE \E n \in Node : bus[n] # <<>> /\ Feeds(n)
  <2>1. PICK n \in Node : bus[n] # <<>> /\ Feeds(n)
    BY <1>3
  <2>2. PICK fr : fr = Head(bus[n])
    OBVIOUS
  <2>3. Fed(n, fr) /\ (Dropped(fr) \/ Kept(fr) \/ Handed(fr))
    BY <2>1, <2>2, FeedEffects
  <2> QED
    BY <2>1, <2>2, <2>3
<1>4. CASE TimePasses
  BY <1>1, <1>4 DEF TimePasses
<1>5. CASE UNCHANGED vars
  BY <1>1, <1>5 DEF vars
<1> QED
  BY <1>2, <1>3, <1>4, <1>5 DEF Next, Feeds

(* Every step keeps the invariant.                                          *)
LEMMA InvStep ==
  ASSUME CfpInv, [Next]_vars
  PROVE  CfpInv'
BY StepEffects, SendKeeps, LoseKeeps, FedKeeps, EndKeeps, QuietKeeps

(* The inductive invariant of every bus: frames are those of packets sent,  *)
(* and what a reassembler holds or has handed over is in step.              *)
THEOREM CfpInvariant == Spec => []CfpInv
<1>1. Init => CfpInv
  BY InvInit
<1>2. CfpInv /\ [Next]_vars => CfpInv'
  BY InvStep
<1> QED
  BY <1>1, <1>2, PTL DEF Spec

(* The counters keep their widths, reassemblers hold pieces of packets that *)
(* fit, and only packets that were sent are reported dropped.               *)
THEOREM CfpTypeCorrect == Spec => []TypeOK
<1>1. ASSUME CfpInv, NEW n \in Node, NEW k \in Key, partials[n][k] # None
      PROVE  /\ partials[n][k] \in Partial
             /\ partials[n][k].chunks # <<>>
             /\ partials[n][k].bytes <= Limit[n]
  BY <1>1 DEF CfpInv, Typed, PartialInv, InProgress, Collected
<1>2. ASSUME CfpInv, NEW n \in Node, NEW i \in 1..Len(delivered[n])
      PROVE  delivered[n][i] \in Seq(Nat \X Nat)
  BY <1>2 DEF CfpInv, DeliveryInv, Delivery, Collected
<1>3. CfpInv => TypeOK
  BY <1>1, <1>2 DEF CfpInv, Typed, TypeOK
<1> QED
  BY <1>3, CfpInvariant, PTL

(* CspReassembler.feed: whatever the bus loses and however senders          *)
(* interleave, a delivery agrees in key and destination, and its positions  *)
(* run on modulo the frame counter from a first frame to a last one.        *)
THEOREM DeliveriesInStep == Spec => []DeliveredInStep
<1> DEFINE InStep(n, i) ==
             LET ds == delivered[n][i]
                 last == ds[Len(ds)]
                 key(p) == <<sent[p].prio, sent[p].src % SenderFields, sent[p].count>>
             IN  /\ \A j \in 1..Len(ds) : /\ key(ds[j][1]) = key(ds[1][1])
                                         /\ sent[ds[j][1]].dst = n
                                         /\ ds[j][2] % FrameCounts = (j - 1) % FrameCounts
                 /\ ds[1][2] = 0
                 /\ last[2] = FrameTotal(sent[last[1]].size) - 1
<1>1. ASSUME CfpInv, NEW n \in Node, NEW i \in 1..Len(delivered[n])
      PROVE  InStep(n, i)
  <2> DEFINE ds == delivered[n][i]
  <2>1. Delivery(ds, n)
    BY <1>1 DEF CfpInv, DeliveryInv
  <2>2. PICK k \in Key : Collected(ds, n, k)
    BY <2>1 DEF Delivery
  <2> HIDE DEF ds
  <2>3. /\ \A j \in 1..Len(ds) : /\ KeyOf(ds[j][1]) = k /\ sent[ds[j][1]].dst = n
                               /\ ds[j][2] % FrameCounts = (j - 1) % FrameCounts
        /\ ds[1][2] = 0
        /\ 1 \in 1..Len(ds)
    BY <2>2 DEF Collected
  <2>4. \A j \in 1..Len(ds) : KeyOf(ds[j][1]) = KeyOf(ds[1][1])
    BY <2>3
  <2>5. LET last == ds[Len(ds)] IN last[2] = FrameTotal(sent[last[1]].size) - 1
    BY <2>1 DEF Delivery, Total
  <2> QED
    BY <2>3, <2>4, <2>5 DEF ds, KeyOf
<1>2. ASSUME \A n \in Node : \A i \in 1..Len(delivered[n]) : InStep(n, i)
      PROVE  DeliveredInStep
  BY <1>2, Zenon DEF DeliveredInStep, HeaderOf
<1> HIDE DEF InStep
<1>3. CfpInv => DeliveredInStep
  BY <1>1, <1>2
<1> QED
  BY <1>3, CfpInvariant, PTL

-----------------------------------------------------------------------------
(* Accounting for frames.                                                   *)

Among(chunks, c) == \E x \in 1..Len(chunks) : chunks[x] = c

OnBus(c) == \E n \in Node : \E i \in 1..Len(bus[n]) : bus[n][i].chunk = c
InHand(c) == \E n \in Node : \E k \in Key :
               partials[n][k] # None /\ Among(partials[n][k].chunks, c)
HandedOver(c) == \E n \in Node : \E i \in 1..Len(delivered[n]) : Among(delivered[n][i], c)

(* Where the frame of a chunk may be.                                       *)
Placed(c) == OnBus(c) \/ c \in lost \/ InHand(c) \/ HandedOver(c) \/ c[1] \in reported

AllPlaced == \A c \in Nat \X Nat : IsChunk(c) => Placed(c)

(* Off the bus is only what was its head.                                   *)
LEMMA OffBus ==
  ASSUME CfpInv, NEW n \in Node, bus[n] # <<>>, bus' = [bus EXCEPT ![n] = Tail(@)], sent' = sent,
         NEW c, OnBus(c), c # Head(bus[n]).chunk
  PROVE  OnBus(c)'
<1>1. PICK m \in Node : \E i \in 1..Len(bus[m]) : bus[m][i].chunk = c
  BY DEF OnBus
<1>2. PICK i \in 1..Len(bus[m]) : bus[m][i].chunk = c
  BY <1>1
<1>3. /\ bus'[n] = Tail(bus[n]) /\ \A l \in Node \ {n} : bus'[l] = bus[l]
  BY BusTail
<1>4. CASE m # n
  BY <1>2, <1>3, <1>4 DEF OnBus
<1>5. CASE m = n
  <2>1. /\ Head(bus[n]) = bus[n][1] /\ Len(bus[n]) \in Nat \ {0} /\ Len(Tail(bus[n])) = Len(bus[n]) - 1
        /\ \A j \in 1..Len(Tail(bus[n])) : Tail(bus[n])[j] = bus[n][j + 1]
    BY HeadFacts
  <2>2. i \in 1..Len(bus[n]) /\ bus[n][i].chunk = c /\ i # 1
    BY <1>2, <1>5, <2>1
  <2>3. i - 1 \in 1..Len(Tail(bus[n])) /\ (i - 1) + 1 = i
    BY <2>1, <2>2
  <2>4. Tail(bus[n])[i - 1] = bus[n][i]
    BY <2>1, <2>3
  <2>5. i - 1 \in 1..Len(bus'[n]) /\ bus'[n][i - 1].chunk = c
    BY <1>3, <2>2, <2>3, <2>4
  <2> QED
    BY <2>5 DEF OnBus
<1> QED
  BY <1>4, <1>5

(* Chunks in a packet in progress that stays or is reported.                *)
LEMMA HandKeeps ==
  ASSUME CfpInv, NEW c, NEW n \in Node, NEW k \in Key,
         partials[n][k] # None, Among(partials[n][k].chunks, c),
         partials'[n][k] = partials[n][k] \/ Gone(partials[n][k])
  PROVE  InHand(c)' \/ c[1] \in reported'
<1>1. CASE partials'[n][k] = partials[n][k]
  BY <1>1 DEF InHand, Among
<1>2. CASE Gone(partials[n][k])
  <2>1. c[1] \in PacketsOf(partials[n][k].chunks)
    BY DEF Among, PacketsOf
  <2> QED
    BY <1>2, <2>1 DEF Gone
<1> QED
  BY <1>1, <1>2

(* A packet in progress that takes a frame holds it and what it held.       *)
LEMMA GrownHolds ==
  ASSUME CfpInv, NEW n \in Node, bus[n] # <<>>, NEW fr, fr = Head(bus[n]), NEW full, Grown(fr, full)
  PROVE  /\ Among(full.chunks, fr.chunk)
         /\ \/ Gone(partials[fr.dst][fr.key])
            \/ \A c : Among(partials[fr.dst][fr.key].chunks, c) => Among(full.chunks, c)
<1>1. Len(full.chunks) \in Nat \ {0} /\ full.chunks[Len(full.chunks)] = fr.chunk
  BY GrownCollected
<1>2. Among(full.chunks, fr.chunk)
  <2>1. Len(full.chunks) \in 1..Len(full.chunks)
    BY <1>1
  <2> QED
    BY <1>1, <2>1 DEF Among
<1>3. CASE fr.begin
  BY <1>2, <1>3 DEF Grown
<1>4. CASE ~fr.begin
  <2> DEFINE a == partials[fr.dst][fr.key].chunks
             r == full.chunks
  <2>1. partials[fr.dst][fr.key] # None /\ r = Append(a, fr.chunk)
    BY <1>4 DEF Grown
  <2>2. fr.dst \in Node /\ fr.key \in Key /\ fr.chunk \in Nat \X Nat
    BY HeadFacts
  <2>3. a \in Seq(Nat \X Nat)
    BY <2>1, <2>2, CollectedSent
  <2> HIDE DEF a, r
  <2>4. Len(a) \in Nat /\ Len(r) = Len(a) + 1 /\ \A i \in 1..Len(a) : r[i] = a[i]
    BY <2>1, <2>2, <2>3, AppendShape
  <2>5. \A i \in 1..Len(a) : i \in 1..Len(r)
    BY <2>4
  <2>6. \A c : Among(a, c) => Among(r, c)
    BY <2>4, <2>5 DEF Among
  <2> QED
    BY <1>2, <2>6 DEF a, r
<1> QED
  BY <1>3, <1>4

(* A frame that is fed is kept, handed over or reported, and so is what it  *)
(* meets.                                                                   *)
LEMMA FedAccounts ==
  ASSUME CfpInv, NEW n \in Node, bus[n] # <<>>, NEW fr, fr = Head(bus[n]),
         Fed(n, fr), Dropped(fr) \/ Kept(fr) \/ Handed(fr), NEW c, Placed(c)
  PROVE  Placed(c)'
<1>1. /\ bus' = [bus EXCEPT ![n] = Tail(@)] /\ sent' = sent /\ lost' = lost
      /\ reported \subseteq reported'
      /\ \A m \in Node, k \in Key :
           \/ m = fr.dst /\ k = fr.key
           \/ partials'[m][k] = partials[m][k]
           \/ Gone(partials[m][k])
  BY DEF Fed, Arrives
<1>2. fr.dst \in Node /\ fr.key \in Key
  BY HeadFacts
<1> DEFINE own == partials[fr.dst][fr.key]
<1>3. delivered \in [Node -> Seq(Seq(Nat \X Nat))]
  BY DEF CfpInv, DeliveryInv
<1>4. ASSUME NEW full, Grown(fr, full), NEW x, Among(full.chunks, x),
             delivered' = [delivered EXCEPT ![fr.dst] = Append(@, full.chunks)]
      PROVE  HandedOver(x)'
  <2> DEFINE d == delivered[fr.dst]
             f == full.chunks
  <2>1. d \in Seq(Seq(Nat \X Nat)) /\ f \in Seq(Nat \X Nat)
    BY <1>2, <1>3, <1>4, GrownCollected DEF Collected
  <2>2. delivered'[fr.dst] = Append(d, f)
    BY <1>2, <1>3, <1>4
  <2>3. PICK g : g = f
    OBVIOUS
  <2> HIDE DEF d, f
  <2>4. Len(d) + 1 \in 1..Len(Append(d, f)) /\ Append(d, f)[Len(d) + 1] = f
    BY <2>1, AppendShape
  <2>5. PICK i \in 1..Len(delivered'[fr.dst]) : delivered'[fr.dst][i] = g
    BY <2>2, <2>3, <2>4
  <2>6. Among(g, x)
    BY <1>4, <2>3 DEF f
  <2> QED
    BY <1>2, <2>5, <2>6 DEF HandedOver, Among
<1>5. ASSUME NEW full, Grown(fr, full), NEW x, Among(full.chunks, x), Kept(fr) \/ Handed(fr),
             Kept(fr) => partials'[fr.dst][fr.key] = full,
             Handed(fr) => delivered' = [delivered EXCEPT ![fr.dst] = Append(@, full.chunks)]
      PROVE  InHand(x)' \/ HandedOver(x)'
  <2>1. CASE Handed(fr)
    BY <1>4, <1>5, <2>1
  <2>2. CASE Kept(fr)
    <3>1. full # None /\ partials'[fr.dst][fr.key] = full
      BY <1>5, <2>2, CfpAssumption DEF Grown
    <3> QED
      BY <1>2, <1>5, <3>1 DEF InHand, Among
  <2> QED
    BY <1>5, <2>1, <2>2
<1>6. \/ Dropped(fr)
      \/ \E full : /\ Grown(fr, full) /\ (Kept(fr) \/ Handed(fr))
                   /\ Kept(fr) => partials'[fr.dst][fr.key] = full
                   /\ Handed(fr) => delivered' = [delivered EXCEPT ![fr.dst] = Append(@, full.chunks)]
  BY DEF Kept, Handed
<1>7. CASE OnBus(c) /\ c # fr.chunk
  BY <1>1, <1>7, OffBus DEF Placed
<1>8. CASE c = fr.chunk
  BY <1>5, <1>6, <1>8, GrownHolds DEF Placed, Dropped
<1>9. CASE c \in lost
  BY <1>1, <1>9 DEF Placed
<1>10. CASE c[1] \in reported
  BY <1>1, <1>10 DEF Placed
<1>11. CASE HandedOver(c)
  <2>1. PICK m \in Node : \E i \in 1..Len(delivered[m]) : Among(delivered[m][i], c)
    BY <1>11 DEF HandedOver
  <2>2. PICK i \in 1..Len(delivered[m]) : Among(delivered[m][i], c)
    BY <2>1
  <2>3. i \in 1..Len(delivered'[m]) /\ delivered'[m][i] = delivered[m][i]
    <3>1. CASE UNCHANGED delivered
      BY <3>1
    <3>2. CASE Handed(fr)
      <4>1. PICK full : Grown(fr, full) /\ delivered' = [delivered EXCEPT ![fr.dst] = Append(@, full.chunks)]
        BY <3>2 DEF Handed
      <4> DEFINE f == full.chunks
                 d == delivered[m]
      <4>2. f \in Seq(Nat \X Nat) /\ d \in Seq(Seq(Nat \X Nat))
        BY <1>3, <4>1, GrownCollected DEF Collected
      <4>3. delivered'[m] = IF m = fr.dst THEN Append(d, f) ELSE d
        BY <1>2, <1>3, <4>1
      <4>4. i \in 1..Len(d) /\ d = delivered[m]
        OBVIOUS
      <4> HIDE DEF d, f
      <4>5. i \in 1..Len(Append(d, f)) /\ Append(d, f)[i] = d[i]
        BY <4>2, <4>4, AppendShape
      <4> QED
        BY <4>3, <4>4, <4>5
    <3> QED
      BY <3>1, <3>2 DEF Dropped, Kept
  <2>4. HandedOver(c)'
    BY <2>2, <2>3 DEF HandedOver, Among
  <2> QED
    BY <2>4 DEF Placed
<1>12. CASE InHand(c)
  <2>1. PICK m \in Node : \E k \in Key : partials[m][k] # None /\ Among(partials[m][k].chunks, c)
    BY <1>12 DEF InHand
  <2>2. PICK k \in Key : partials[m][k] # None /\ Among(partials[m][k].chunks, c)
    BY <2>1
  <2>3. CASE partials'[m][k] = partials[m][k] \/ Gone(partials[m][k])
    BY <2>2, <2>3, HandKeeps DEF Placed
  <2>4. CASE m = fr.dst /\ k = fr.key /\ ~Gone(own)
    <3>1. PICK full : /\ Grown(fr, full) /\ (Kept(fr) \/ Handed(fr))
                      /\ Kept(fr) => partials'[fr.dst][fr.key] = full
                      /\ Handed(fr) => delivered' = [delivered EXCEPT ![fr.dst] = Append(@, full.chunks)]
      BY <1>6, <2>4 DEF Dropped
    <3>2. Among(full.chunks, c)
      BY <2>2, <2>4, <3>1, GrownHolds
    <3> QED
      BY <1>5, <3>1, <3>2 DEF Placed
  <2> QED
    BY <1>1, <2>3, <2>4
<1> QED
  BY <1>7, <1>8, <1>9, <1>10, <1>11, <1>12 DEF Placed

(* A packet is sent: its frames are all on the bus.                         *)
LEMMA SentOnBus ==
  ASSUME CfpInv, NEW f \in Fragmenter, NEW pk, Sends(f, pk),
         NEW c \in Nat \X Nat, IsChunk(c)', c[1] = Len(sent) + 1
  PROVE  OnBus(c)'
<1>1. PICK n, q : n = f[1] /\ q = Len(sent) + 1
  OBVIOUS
<1>2. /\ n \in Node /\ sent'[q] = pk
      /\ Len(bus[n]) \in Nat /\ Len(bus'[n]) = Len(bus[n]) + FrameTotal(pk.size)
      /\ FrameTotal(pk.size) \in Nat \ {0}
  BY <1>1, SendShape
<1>3. c[2] \in Nat /\ c[2] < FrameTotal(pk.size) /\ c = <<q, c[2]>>
  <2>1. Total(q)' = FrameTotal(pk.size)
    BY <1>2 DEF Total
  <2> QED
    BY <1>1, <2>1 DEF IsChunk
<1>4. PICK i : i = Len(bus[n]) + c[2] + 1
  OBVIOUS
<1>5. i \in 1..Len(bus'[n]) /\ i > Len(bus[n]) /\ i - Len(bus[n]) - 1 = c[2]
  <2> DEFINE a == Len(bus[n])
             b == FrameTotal(pk.size)
             e == Len(bus'[n])
  <2>1. a \in Nat /\ b \in Nat /\ e = a + b /\ c[2] \in Nat /\ c[2] < b /\ i = a + c[2] + 1
    BY <1>2, <1>3, <1>4
  <2> HIDE DEF a, b, e
  <2>2. i \in 1..e /\ i > a /\ i - a - 1 = c[2]
    BY <2>1
  <2> QED
    BY <2>2 DEF a, e
<1>6. bus'[n][i].chunk = <<q, i - Len(bus[n]) - 1>>
  BY <1>1, <1>5, SendShape
<1> QED
  BY <1>2, <1>3, <1>5, <1>6 DEF OnBus

(* A packet that is sent is accounted for.                                  *)
LEMMA SendAccounts ==
  ASSUME CfpInv, AllPlaced, NEW f \in Fragmenter, NEW pk, Sends(f, pk)
  PROVE  AllPlaced'
<1> SUFFICES ASSUME NEW c \in Nat \X Nat, IsChunk(c)'
             PROVE  Placed(c)'
  BY DEF AllPlaced
<1>1. PICK q : q = Len(sent) + 1
  OBVIOUS
<1>2. PICK n : n = f[1]
  OBVIOUS
<1>3. /\ n \in Node /\ Extended /\ Len(sent') = q
      /\ \A m \in Node \ {n} : bus'[m] = bus[m]
      /\ \A i \in 1..Len(bus[n]) : i \in 1..Len(bus'[n]) /\ bus'[n][i] = bus[n][i]
  BY <1>1, <1>2, SendShape
<1>4. Len(sent) \in Nat /\ UNCHANGED <<partials, lost, delivered, reported>>
  BY DEF CfpInv, Typed, Sends
<1>5. CASE c[1] \in 1..Len(sent)
  <2>1. IsChunk(c)
    <3>1. Total(c[1])' = Total(c[1])
      BY <1>3, <1>5, CollectedStays
    <3> QED
      BY <1>5, <3>1 DEF IsChunk
  <2>2. Placed(c)
    BY <2>1 DEF AllPlaced
  <2>3. OnBus(c) => OnBus(c)'
    BY <1>3 DEF OnBus
  <2> QED
    BY <1>4, <2>2, <2>3 DEF Placed, InHand, HandedOver, Among
<1>6. CASE c[1] = q
  BY <1>1, <1>6, SentOnBus DEF Placed
<1> QED
  BY <1>1, <1>3, <1>4, <1>5, <1>6 DEF IsChunk

(* Every step accounts for every frame.                                     *)
LEMMA StepAccounts ==
  ASSUME CfpInv, AllPlaced, [Next]_vars
  PROVE  AllPlaced'
<1>1. ASSUME NEW n \in Node, bus[n] # <<>>, Fed(n, Head(bus[n])),
             Dropped(Head(bus[n])) \/ Kept(Head(bus[n])) \/ Handed(Head(bus[n]))
      PROVE  AllPlaced'
  <2>1. sent' = sent
    BY <1>1 DEF Fed, Arrives
  <2>2. ASSUME NEW c \in Nat \X Nat, IsChunk(c)'
        PROVE  Placed(c)'
    <3>1. IsChunk(c)
      BY <2>1, <2>2 DEF IsChunk, Total
    <3>2. Placed(c)
      BY <3>1 DEF AllPlaced
    <3>3. PICK fr : fr = Head(bus[n])
      OBVIOUS
    <3> QED
      BY <1>1, <3>2, <3>3, FedAccounts
  <2> QED
    BY <2>2 DEF AllPlaced
<1>2. ASSUME NEW n \in Node, Lose(n)
      PROVE  AllPlaced'
  <2>1. /\ bus[n] # <<>> /\ lost' = lost \cup {Head(bus[n]).chunk} /\ bus' = [bus EXCEPT ![n] = Tail(@)]
        /\ UNCHANGED <<partials, sent, delivered, reported>>
    BY <1>2 DEF Lose
  <2>2. ASSUME NEW c \in Nat \X Nat, IsChunk(c)'
        PROVE  Placed(c)'
    <3>1. IsChunk(c)
      BY <2>1, <2>2 DEF IsChunk, Total
    <3>2. Placed(c)
      BY <3>1 DEF AllPlaced
    <3>3. OnBus(c) => OnBus(c)' \/ c \in lost'
      BY <2>1, OffBus
    <3> QED
      BY <2>1, <3>2, <3>3 DEF Placed, InHand, HandedOver, Among
  <2> QED
    BY <2>2 DEF AllPlaced
<1>3. CASE RunEnds
  <2>1. UNCHANGED <<bus, sent, lost, delivered>>
    BY <1>3 DEF RunEnds
  <2>2. ASSUME NEW c \in Nat \X Nat, IsChunk(c)'
        PROVE  Placed(c)'
    <3>1. IsChunk(c)
      BY <2>1, <2>2 DEF IsChunk, Total
    <3>2. Placed(c)
      BY <3>1 DEF AllPlaced
    <3>3. CASE InHand(c)
      <4>1. PICK m \in Node, k \in Key : partials[m][k] # None /\ Among(partials[m][k].chunks, c)
        BY <3>3 DEF InHand
      <4>2. InHand(c)' \/ c[1] \in reported'
        BY <1>3, <4>1, EndShape, HandKeeps
      <4> QED
        BY <4>2 DEF Placed
    <3>4. reported \subseteq reported'
      BY <1>3, EndShape
    <3> QED
      BY <2>1, <3>2, <3>3, <3>4 DEF Placed, OnBus, HandedOver, Among
  <2> QED
    BY <2>2 DEF AllPlaced
<1>4. ASSUME UNCHANGED <<counter, bus, partials, ended, sent, lost, delivered, reported>>
      PROVE  AllPlaced'
  <2>1. ASSUME NEW c, IsChunk(c)'
        PROVE  IsChunk(c)
    BY <1>4, <2>1 DEF IsChunk, Total
  <2>2. ASSUME NEW c, Placed(c)
        PROVE  Placed(c)'
    BY <1>4, <2>2 DEF Placed, OnBus, InHand, HandedOver, Among
  <2> QED
    BY <2>1, <2>2 DEF AllPlaced
<1> QED
  BY <1>1, <1>2, <1>3, <1>4, StepEffects, SendAccounts

(* When the run is over the bus is empty and nothing in progress has timed  *)
(* out.                                                                     *)
Closed ==
  ended => /\ \A n \in Node : bus[n] = <<>>
           /\ \A n \in Node : \A k \in Key : ~IsStale(partials[n][k], clock)

(* The end of the run flushes what has timed out, and nothing happens after *)
(* it.                                                                      *)
LEMMA StepCloses ==
  ASSUME Closed, [Next]_vars
  PROVE  Closed'
<1>1. CASE RunEnds
  <2>1. /\ bus' = bus /\ clock' = clock /\ \A n \in Node : bus[n] = <<>>
        /\ partials' = [n \in Node |-> Unexpired(partials[n], clock)]
    BY <1>1 DEF RunEnds
  <2>2. ASSUME NEW n \in Node, NEW k \in Key
        PROVE  ~IsStale(partials'[n][k], clock)
    <3>1. partials'[n][k] = IF IsStale(partials[n][k], clock) THEN None ELSE partials[n][k]
      BY <2>1 DEF Unexpired
    <3> QED
      BY <3>1 DEF IsStale
  <2> QED
    BY <2>1, <2>2 DEF Closed, IsStale
<1>2. CASE UNCHANGED vars
  BY <1>2 DEF Closed, IsStale, vars
<1>3. CASE ended' /\ ~RunEnds /\ ~UNCHANGED vars
  <2>1. ended /\ \A n \in Node : bus[n] = <<>>
    BY <1>3 DEF Closed, Next, Send, Lose, Arrives, Orphan, FrameLost, ShortFirst, FirstFrame,
                Continuation, TimePasses
  <2>2. FALSE
    BY <1>3, <2>1 DEF Next, Send, Lose, TimePasses
  <2> QED
    BY <2>2
<1>4. CASE ~ended'
  BY <1>4 DEF Closed
<1> QED
  BY <1>1, <1>2, <1>3, <1>4

(* No frame disappears: it is unread, lost by the bus, collected, delivered,*)
(* or its packet stands in the run's list of dropped packets; and at the end*)
(* of the run whatever has timed out stands there.                          *)
THEOREM FramesAccountedFor == Spec => []NoSilentLoss
<1>0. (Init => Closed) /\ (Closed /\ [Next]_vars => Closed')
  BY StepCloses DEF Init, Closed
<1>1. Init => AllPlaced
  BY DEF Init, AllPlaced, IsChunk
<1>2. CfpInv /\ AllPlaced /\ [Next]_vars => AllPlaced'
  BY StepAccounts
<1>3. ASSUME CfpInv, AllPlaced, NEW p \in 1..Len(sent), NEW j \in 0..(FrameTotal(sent[p].size) - 1)
      PROVE  \/ \E n \in Node : \E i \in 1..Len(bus[n]) : bus[n][i].chunk = <<p, j>>
             \/ <<p, j>> \in lost
             \/ \E n \in Node : \E k \in Key :
                  /\ partials[n][k] # None
                  /\ \E x \in 1..Len(partials[n][k].chunks) : partials[n][k].chunks[x] = <<p, j>>
             \/ \E n \in Node : \E i \in 1..Len(delivered[n]) :
                  \E x \in 1..Len(delivered[n][i]) : delivered[n][i][x] = <<p, j>>
             \/ p \in reported
  <2>1. Total(p) \in Nat \ {0} /\ Len(sent) \in Nat
    BY <1>3, PacketFacts DEF CfpInv
  <2>2. p \in Nat /\ j \in Nat /\ j < Total(p)
    BY <1>3, <2>1 DEF Total
  <2>3. PICK c : c = <<p, j>>
    OBVIOUS
  <2>4. c \in Nat \X Nat /\ c[1] = p /\ IsChunk(c)
    BY <2>2, <2>3 DEF IsChunk
  <2>5. Placed(c)
    BY <1>3, <2>4 DEF AllPlaced
  <2> QED
    BY <2>3, <2>4, <2>5 DEF Placed, OnBus, InHand, HandedOver, Among
<1>4. CfpInv /\ AllPlaced /\ Closed => NoSilentLoss
  <2>1. Closed => \A n \in Node : \A k \in Key : ~(ended /\ IsStale(partials[n][k], clock))
    BY DEF Closed
  <2> QED
    BY <1>3, <2>1 DEF NoSilentLoss
<1> QED
  BY <1>0, <1>1, <1>2, <1>4, CfpInvariant, PTL DEF Spec

-----------------------------------------------------------------------------
(* The channel.                                                             *)

(* No two packet senders share the address bits of the CAN identifier.      *)
SendersApart ==
  \A f, g \in Fragmenter : f[1] % SenderFields = g[1] % SenderFields => f = g

(* The bus loses less than a round of the frame counter; it loses one frame *)
(* at most, or there are not enough packets for their counter to come       *)
(* round.                                                                   *)
FewLosses == MaxLost < FrameCounts /\ (MaxLost < 2 \/ MaxSent <= PacketCounts)

(* The order in which a node sends.                                         *)
Before(c, d) == c[1] < d[1] \/ (c[1] = d[1] /\ c[2] < d[2])

SourceInv ==
  /\ \A p \in 1..Len(sent) : \E f \in Fragmenter : sent[p].src = f[1]
  /\ \A n \in Node : \A i \in 1..Len(bus[n]) : sent[bus[n][i].chunk[1]].src = n

(* What a node has on the bus is the end of what it has sent, in order.     *)
OrderInv ==
  \A n \in Node : \A i \in 1..Len(bus[n]) :
    /\ \A j \in 1..Len(bus[n]) : i < j => Before(bus[n][i].chunk, bus[n][j].chunk)
    /\ \A c \in Nat \X Nat :
         IsChunk(c) /\ sent[c[1]].src = n /\ Before(bus[n][i].chunk, c) => OnBus(c)

(* The first chunks of a packet, up to the one given.                       *)
UpTo(chunks, c) ==
  Len(chunks) = c[2] + 1 /\ \A j \in 1..Len(chunks) : chunks[j] = <<c[1], j - 1>>

(* A packet in progress is the beginning of one packet.  What follows it    *)
(* under its key is still on the bus, or lost.                              *)
Follows(last, n, k) ==
  \A c \in Nat \X Nat :
    IsChunk(c) /\ KeyOf(c[1]) = k /\ sent[c[1]].dst = n /\ Before(last, c) => OnBus(c) \/ c \in lost

Begun(part, last, n, k) ==
  /\ last \in Nat \X Nat
  /\ UpTo(part.chunks, last)
  /\ last[2] + 1 < Total(last[1])
  /\ ~OnBus(last)
  /\ Follows(last, n, k)

BeginningInv ==
  \A n \in Node : \A k \in Key : partials[n][k] # None =>
    \E last : Begun(partials[n][k], last, n, k)

LossInv == IsFiniteSet(lost) /\ Cardinality(lost) <= MaxLost

(* The packet counter before it comes round.                                *)
CounterInv ==
  MaxSent <= PacketCounts =>
    /\ Len(sent) <= MaxSent
    /\ \A p, q \in 1..Len(sent) : p < q /\ sent[p].src = sent[q].src => sent[p].count < sent[q].count
    /\ Len(sent) < PacketCounts =>
         \A f \in Fragmenter :
           /\ counter[f] <= Len(sent)
           /\ \A p \in 1..Len(sent) : sent[p].src = f[1] => sent[p].count < counter[f]

(* A delivery is a whole packet that has left the bus.                      *)
Finished(chunks) ==
  /\ Whole(chunks)
  /\ ~OnBus(<<HeaderOf(chunks), Total(HeaderOf(chunks)) - 1>>)

WholeInv == \A n \in Node : \A i \in 1..Len(delivered[n]) : Finished(delivered[n][i])

ChannelInv == SourceInv /\ OrderInv /\ BeginningInv /\ LossInv /\ CounterInv /\ WholeInv

(* Chunks are sent one before the other.                                    *)
LEMMA Ordered ==
  ASSUME NEW c \in Nat \X Nat, NEW d \in Nat \X Nat
  PROVE  /\ c = d \/ Before(c, d) \/ Before(d, c)
         /\ ~(Before(c, d) /\ Before(d, c)) /\ ~Before(c, c)
         /\ \A e \in Nat \X Nat : Before(c, d) /\ Before(d, e) => Before(c, e)
<1>1. c = <<c[1], c[2]>> /\ d = <<d[1], d[2]>> /\ c[1] \in Nat /\ c[2] \in Nat /\ d[1] \in Nat /\ d[2] \in Nat
  OBVIOUS
<1>2. c = d \/ Before(c, d) \/ Before(d, c)
  <2>1. CASE c[1] = d[1] /\ c[2] = d[2]
    BY <1>1, <2>1
  <2>2. CASE c[1] # d[1] \/ c[2] # d[2]
    BY <1>1, <2>2 DEF Before
  <2> QED
    BY <2>1, <2>2
<1>3. ~(Before(c, d) /\ Before(d, c)) /\ ~Before(c, c)
  BY <1>1 DEF Before
<1>4. ASSUME NEW e \in Nat \X Nat, Before(c, d), Before(d, e)
      PROVE  Before(c, e)
  BY <1>1, <1>4 DEF Before
<1> QED
  BY <1>2, <1>3, <1>4

(* Packets with one key for one node have one sender.                       *)
LEMMA OneSource ==
  ASSUME CfpInv, SourceInv, SendersApart, NEW p \in 1..Len(sent), NEW q \in 1..Len(sent),
         KeyOf(p) = KeyOf(q)
  PROVE  /\ sent[p].src = sent[q].src
         /\ sent[p].count = sent[q].count
<1>1. PICK f \in Fragmenter : sent[p].src = f[1]
  BY DEF SourceInv
<1>2. PICK g \in Fragmenter : sent[q].src = g[1]
  BY DEF SourceInv
<1>3. sent[p].src % SenderFields = sent[q].src % SenderFields /\ sent[p].count = sent[q].count
  BY DEF KeyOf
<1> QED
  BY <1>1, <1>2, <1>3 DEF SendersApart

(* What is on a node's bus follows its head.                                *)
LEMMA HeadFirst ==
  ASSUME CfpInv, SourceInv, OrderInv, NEW n \in Node, bus[n] # <<>>, NEW h, h = Head(bus[n]).chunk
  PROVE  /\ h \in Nat \X Nat /\ IsChunk(h) /\ sent[h[1]].src = n /\ OnBus(h)
         /\ \A c \in Nat \X Nat : IsChunk(c) /\ sent[c[1]].src = n => 
              (OnBus(c) <=> c = h \/ Before(h, c))
<1>1. PICK fr : fr = Head(bus[n])
  OBVIOUS
<1>2. /\ h = fr.chunk /\ bus[n][1] = fr /\ Len(bus[n]) \in Nat \ {0} /\ 1 \in 1..Len(bus[n])
      /\ h \in Nat \X Nat /\ Sound(fr)
  BY <1>1, HeadFacts
<1>3. IsChunk(h) /\ sent[h[1]].src = n /\ OnBus(h)
  BY <1>2 DEF Sound, SourceInv, OnBus
<1>4. ASSUME NEW c \in Nat \X Nat, IsChunk(c), sent[c[1]].src = n, Before(h, c)
      PROVE  OnBus(c)
  BY <1>2, <1>4 DEF OrderInv
<1>5. ASSUME NEW c \in Nat \X Nat, IsChunk(c), sent[c[1]].src = n, OnBus(c)
      PROVE  c = h \/ Before(h, c)
  <2>1. PICK m \in Node : \E i \in 1..Len(bus[m]) : bus[m][i].chunk = c
    BY <1>5 DEF OnBus
  <2>2. PICK i \in 1..Len(bus[m]) : bus[m][i].chunk = c
    BY <2>1
  <2>3. m = n
    BY <1>5, <2>2 DEF SourceInv
  <2>4. i = 1 \/ 1 < i
    BY <1>2
  <2> QED
    BY <1>2, <2>2, <2>3, <2>4 DEF OrderInv
<1> QED
  BY <1>2, <1>3, <1>4, <1>5

(* What leaves a bus is its head, and nothing else.                         *)
LEMMA HeadLeaves ==
  ASSUME CfpInv, SourceInv, OrderInv, NEW n \in Node, bus[n] # <<>>,
         bus' = [bus EXCEPT ![n] = Tail(@)], sent' = sent, NEW h, h = Head(bus[n]).chunk
  PROVE  /\ \A c : OnBus(c)' => OnBus(c)
         /\ \A c : OnBus(c) => c = h \/ OnBus(c)'
         /\ ~OnBus(h)'
         /\ SourceInv' /\ OrderInv'
<1>1. PICK fr : fr = Head(bus[n])
  OBVIOUS
<1>2. /\ h = fr.chunk /\ bus[n][1] = fr /\ Len(bus[n]) \in Nat \ {0} /\ 1 \in 1..Len(bus[n])
      /\ Len(Tail(bus[n])) = Len(bus[n]) - 1
      /\ \A i \in 1..Len(Tail(bus[n])) : Tail(bus[n])[i] = bus[n][i + 1]
      /\ h \in Nat \X Nat /\ Sound(fr)
  BY <1>1, HeadFacts
<1>3. /\ bus'[n] = Tail(bus[n]) /\ \A l \in Node \ {n} : bus'[l] = bus[l]
  BY BusTail
<1>4. ASSUME NEW m \in Node
      PROVE  \E x \in {0, 1} : /\ m = n => x = 1
                               /\ Len(bus[m]) \in Nat /\ Len(bus'[m]) = Len(bus[m]) - x
                               /\ \A i \in 1..Len(bus'[m]) : /\ i + x \in 1..Len(bus[m])
                                                            /\ bus'[m][i] = bus[m][i + x]
  <2>1. CASE m = n
    <3>1. PICK b, t : b = bus[n] /\ t = bus'[n] /\ t = Tail(bus[n])
      BY <1>3
    <3>2. /\ Len(b) \in Nat \ {0} /\ Len(t) = Len(b) - 1
          /\ \A i \in 1..Len(t) : t[i] = b[i + 1]
      BY <1>2, <3>1
    <3>3. \A i \in 1..Len(t) : i + 1 \in 1..Len(b) /\ t[i] = b[i + 1]
      BY <3>2
    <3> QED
      BY ONLY <2>1, <3>1, <3>2, <3>3
  <2>2. CASE m # n
    <3>1. bus'[m] = bus[m]
      BY <1>3, <2>2
    <3>2. Len(bus[m]) \in Nat
      BY DEF CfpInv, Typed
    <3>3. \A i \in 1..Len(bus[m]) : i + 0 = i
      OBVIOUS
    <3>4. Len(bus[m]) = Len(bus[m]) - 0
      BY <3>2
    <3> QED
      BY <2>2, <3>1, <3>2, <3>3, <3>4
  <2> QED
    BY <2>1, <2>2
<1>5. ASSUME NEW c, OnBus(c)'
      PROVE  OnBus(c)
  <2>1. PICK m \in Node : \E i \in 1..Len(bus'[m]) : bus'[m][i].chunk = c
    BY <1>5 DEF OnBus
  <2> QED
    BY <1>4, <2>1 DEF OnBus
<1>6. ASSUME NEW c, OnBus(c)
      PROVE  c = h \/ OnBus(c)'
  BY <1>6, OffBus
<1>7. SourceInv'
  <2>1. ASSUME NEW m \in Node, NEW i \in 1..Len(bus'[m])
        PROVE  sent[bus'[m][i].chunk[1]].src = m
    BY <1>4, <2>1 DEF SourceInv
  <2> QED
    BY <2>1 DEF SourceInv
<1>8. ~OnBus(h)'
  <2> SUFFICES ASSUME OnBus(h)' PROVE FALSE
    OBVIOUS
  <2>1. PICK m \in Node : \E i \in 1..Len(bus'[m]) : bus'[m][i].chunk = h
    BY DEF OnBus
  <2>2. PICK i \in 1..Len(bus'[m]) : bus'[m][i].chunk = h
    BY <2>1
  <2>3. PICK x \in {0, 1} : /\ m = n => x = 1
                            /\ i + x \in 1..Len(bus[m]) /\ bus'[m][i] = bus[m][i + x]
    BY <1>4
  <2>4. m = sent[h[1]].src
    BY <2>2, <2>3 DEF SourceInv
  <2>5. m = n
    BY <2>4, HeadFirst
  <2>6. i + 1 \in 1..Len(bus[n]) /\ 1 < i + 1 /\ bus[n][i + 1].chunk = h
    BY <2>2, <2>3, <2>5
  <2>7. Before(h, h)
    BY <1>2, <2>6 DEF OrderInv
  <2> QED
    BY <1>2, <2>7, Ordered
<1>9. OrderInv'
  <2>1. ASSUME NEW m \in Node, NEW i \in 1..Len(bus'[m]), NEW j \in 1..Len(bus'[m]), i < j
        PROVE  Before(bus'[m][i].chunk, bus'[m][j].chunk)
    <3>1. PICK x \in {0, 1} :
            \A y \in 1..Len(bus'[m]) : y + x \in 1..Len(bus[m]) /\ bus'[m][y] = bus[m][y + x]
      BY <1>4
    <3>2. i + x < j + x
      BY <2>1
    <3> QED
      BY <3>1, <3>2 DEF OrderInv
  <2>2. ASSUME NEW m \in Node, NEW i \in 1..Len(bus'[m]), NEW c \in Nat \X Nat,
               IsChunk(c)', sent'[c[1]].src = m, Before(bus'[m][i].chunk, c)
        PROVE  OnBus(c)'
    <3>1. IsChunk(c) /\ sent[c[1]].src = m
      BY <2>2 DEF IsChunk, Total
    <3>2. PICK x \in {0, 1} : /\ m = n => x = 1
                              /\ Len(bus[m]) \in Nat
                              /\ i + x \in 1..Len(bus[m]) /\ bus'[m][i] = bus[m][i + x]
      BY <1>4
    <3>3. OnBus(c)
      BY <2>2, <3>1, <3>2 DEF OrderInv
    <3>4. ASSUME c = h
          PROVE  FALSE
      <4>1. m = n /\ x = 1
        BY <3>1, <3>2, <3>4, HeadFirst
      <4>2. 1 < i + x
        BY <4>1
      <4>3. PICK d : d = bus[m][i + x].chunk
        OBVIOUS
      <4>4. Before(h, d)
        BY <1>2, <3>2, <4>1, <4>2, <4>3 DEF OrderInv
      <4>5. d \in Nat \X Nat
        BY <3>2, <4>3 DEF CfpInv, BusInv, Sound, IsChunk
      <4>6. Before(d, h)
        BY <2>2, <3>2, <3>4, <4>3
      <4> QED
        BY <1>2, <4>4, <4>5, <4>6, Ordered
    <3> QED
      BY <1>6, <3>3, <3>4
  <2> QED
    BY ONLY <2>1, <2>2 DEF OrderInv, Before
<1> QED
  BY <1>5, <1>6, <1>7, <1>8, <1>9

(* Two chunks lost, or eight: what the premise on losses excludes.          *)
LEMMA LostBound ==
  ASSUME LossInv, FewLosses
  PROVE  /\ \A c, d \in lost : c # d => MaxSent <= PacketCounts
         /\ \A p, m \in Nat : \E x \in (m + 1)..(m + FrameCounts) : <<p, x>> \notin lost
<1>1. IsFiniteSet(lost) /\ Cardinality(lost) \in Nat /\ Cardinality(lost) <= MaxLost
  BY FS_CardinalityType DEF LossInv
<1>2. MaxLost \in Nat /\ MaxSent \in Nat /\ MaxLost < 8
  BY CfpAssumption DEF FewLosses, FrameCounts
<1>3. ASSUME NEW c \in lost, NEW d \in lost, c # d
      PROVE  MaxSent <= PacketCounts
  <2>1. IsFiniteSet({c}) /\ Cardinality({c}) = 1 /\ d \notin {c}
    BY <1>3, FS_Singleton
  <2>2. IsFiniteSet({c} \cup {d}) /\ Cardinality({c} \cup {d}) = 2
    BY <2>1, FS_AddElement
  <2>3. Cardinality({c} \cup {d}) <= Cardinality(lost)
    BY <1>1, <1>3, FS_Subset
  <2> QED
    BY <1>1, <1>2, <2>2, <2>3 DEF FewLosses
<1>4. ASSUME NEW p \in Nat, NEW m \in Nat, \A x \in (m + 1)..(m + FrameCounts) : <<p, x>> \in lost
      PROVE  FALSE
  <2> DEFINE S == (m + 1)..(m + FrameCounts)
             f == [x \in S |-> <<p, x>>]
  <2>1. IsFiniteSet(S) /\ Cardinality(S) = 8
    <3>1. m + 1 \in Int /\ m + FrameCounts \in Int /\ ~(m + 1 > m + FrameCounts)
          /\ (m + FrameCounts) - (m + 1) + 1 = 8
      BY DEF FrameCounts
    <3> QED
      BY <3>1, FS_Interval
  <2> HIDE DEF S
  <2>2. f \in Injection(S, lost)
    BY <1>4 DEF Injection, IsInjective, S
  <2> HIDE DEF f
  <2>3. Cardinality(S) <= Cardinality(lost)
    BY <1>1, <2>2, FS_Injection
  <2> QED
    BY <1>1, <1>2, <2>1, <2>3
<1> QED
  BY <1>3, <1>4

(* The last chunk of a packet in progress.                                  *)
LEMMA LastChunk ==
  ASSUME CfpInv, NEW n \in Node, NEW k \in Key, NEW part, part = partials[n][k], part # None,
         NEW last, Begun(part, last, n, k)
  PROVE  /\ IsChunk(last) /\ KeyOf(last[1]) = k /\ sent[last[1]].dst = n
         /\ part.next = (last[2] + 1) % FrameCounts
<1>1. PICK chunks, x : chunks = part.chunks /\ x = last[2] + 1
  OBVIOUS
<1>2. Collected(chunks, n, k) /\ part.next = Len(chunks) % FrameCounts
  BY <1>1 DEF CfpInv, PartialInv, InProgress
<1>3. Len(chunks) = x /\ \A j \in 1..x : chunks[j] = <<last[1], j - 1>>
  BY <1>1 DEF Begun, UpTo
<1>4. x \in 1..x /\ x - 1 = last[2] /\ last = <<last[1], last[2]>>
  BY <1>1 DEF Begun
<1>5. chunks[x] = last /\ x \in 1..Len(chunks)
  BY <1>3, <1>4
<1>6. \A j \in 1..Len(chunks) : /\ IsChunk(chunks[j]) /\ KeyOf(chunks[j][1]) = k
                                /\ sent[chunks[j][1]].dst = n
  BY <1>2 DEF Collected
<1>7. IsChunk(last) /\ KeyOf(last[1]) = k /\ sent[last[1]].dst = n
  BY <1>5, <1>6
<1> QED
  BY <1>1, <1>2, <1>3, <1>7

(* A continuation that is taken continues the packet in progress: a round   *)
(* of the frame counter cannot have been lost in between, nor can the       *)
(* frames around a packet boundary when the packet counter comes round.     *)
LEMMA NextInLine ==
  ASSUME CfpInv, ChannelInv, SendersApart, FewLosses, NEW n \in Node, bus[n] # <<>>,
         NEW fr, fr = Head(bus[n]), ~fr.begin,
         NEW part, part = partials[fr.dst][fr.key], part # None, fr.count = part.next,
         NEW last, Begun(part, last, fr.dst, fr.key)
  PROVE  fr.chunk = <<last[1], last[2] + 1>>
<1> DEFINE h == fr.chunk
<1>1. /\ h \in Nat \X Nat /\ fr.dst \in Node /\ fr.key \in Key /\ Sound(fr)
      /\ IsChunk(h) /\ h[1] \in 1..Len(sent)
      /\ KeyOf(h[1]) = fr.key /\ sent[h[1]].dst = fr.dst
      /\ fr.count = h[2] % FrameCounts /\ h[2] # 0
  BY HeadFacts DEF Sound
<1>2. PICK p, m, q, j : p = last[1] /\ m = last[2] /\ q = h[1] /\ j = h[2]
  OBVIOUS
<1>3. last = <<p, m>> /\ h = <<q, j>> /\ p \in Nat /\ m \in Nat /\ q \in Nat /\ j \in Nat
  <2>1. last \in Nat \X Nat
    BY DEF Begun
  <2>2. h \in Nat \X Nat
    BY <1>1
  <2> HIDE DEF h
  <2> QED
    BY ONLY <1>2, <2>1, <2>2
<1>4. m + 1 < Total(p) /\ ~OnBus(last) /\ Follows(last, fr.dst, fr.key)
  BY <1>2 DEF Begun
<1>5. /\ IsChunk(last) /\ KeyOf(p) = fr.key /\ sent[p].dst = fr.dst /\ p \in 1..Len(sent)
      /\ part.next = (m + 1) % FrameCounts
  <2>1. /\ IsChunk(last) /\ KeyOf(last[1]) = fr.key /\ sent[last[1]].dst = fr.dst
        /\ part.next = (last[2] + 1) % FrameCounts
    <3>1. PICK d, k : d = fr.dst /\ k = fr.key
      OBVIOUS
    <3>2. d \in Node /\ k \in Key /\ part = partials[d][k] /\ Begun(part, last, d, k)
      BY <1>1, <3>1
    <3>3. /\ IsChunk(last) /\ KeyOf(last[1]) = k /\ sent[last[1]].dst = d
          /\ part.next = (last[2] + 1) % FrameCounts
      BY ONLY CfpInv, part # None, <3>2, LastChunk
    <3> QED
      BY <3>1, <3>3
  <2>2. last[1] \in 1..Len(sent)
    BY <2>1 DEF IsChunk
  <2>3. part.next = (m + 1) % FrameCounts
    BY <1>2, <2>1
  <2> QED
    BY <1>2, <2>1, <2>2, <2>3
<1>6. sent[p].src = sent[q].src /\ sent[p].count = sent[q].count /\ sent[q].src = n
  <2>1. sent[q].src = n
    BY <1>2, HeadFirst DEF ChannelInv
  <2> QED
    BY <1>1, <1>2, <1>5, <2>1, OneSource, ZenonT(40) DEF ChannelInv
<1>7. last # h /\ Before(last, h)
  <2>1. ~Before(h, last) /\ last # h
    <3>1. last \in Nat \X Nat /\ sent[last[1]].src = n /\ ~OnBus(last) /\ IsChunk(last)
      BY <1>2, <1>4, <1>5, <1>6 DEF Begun
    <3> QED
      BY <3>1, HeadFirst DEF ChannelInv
  <2>2. last \in Nat \X Nat
    BY DEF Begun
  <2> QED
    BY <1>1, <2>1, <2>2, Ordered
<1>8. ASSUME NEW c \in Nat \X Nat, IsChunk(c), c[1] \in {p, q}, Before(last, c), Before(c, h)
      PROVE  c \in lost
  <2>1. KeyOf(c[1]) = fr.key /\ sent[c[1]].dst = fr.dst /\ sent[c[1]].src = n
    BY <1>1, <1>2, <1>5, <1>6, <1>8
  <2>2. ~Before(h, c) /\ c # h
    BY <1>1, <1>8, Ordered
  <2>3. ~OnBus(c)
    BY <1>8, <2>1, <2>2, HeadFirst DEF ChannelInv
  <2> QED
    BY <1>4, <1>8, <2>1, <2>3 DEF Follows
<1>9. Total(p) \in Nat /\ Total(q) \in Nat /\ j < Total(q)
  BY <1>1, <1>2, <1>5, PacketFacts DEF CfpInv, IsChunk
<1>10. CASE p = q
  <2>1. m < j
    BY ONLY <1>3, <1>7, <1>10 DEF Before
  <2>2. j % 8 = (m + 1) % 8
    BY <1>1, <1>2, <1>5 DEF FrameCounts
  <2>3. j = m + 1 \/ j >= m + 9
    BY ONLY <1>3, <2>1, <2>2
  <2>4. ASSUME j >= m + 9, NEW x \in (m + 1)..(m + FrameCounts)
        PROVE  <<p, x>> \in lost
    <3>1. x \in Nat /\ m < x /\ x < j /\ x < Total(p)
      BY ONLY <1>3, <1>9, <1>10, <2>4 DEF FrameCounts
    <3>2. PICK c : c = <<p, x>>
      OBVIOUS
    <3>3. c \in Nat \X Nat /\ IsChunk(c) /\ c[1] = p
      BY <1>3, <1>5, <3>1, <3>2 DEF IsChunk
    <3>4. Before(last, c) /\ Before(c, h)
      BY ONLY <1>3, <1>10, <3>1, <3>2 DEF Before
    <3> QED
      BY <1>8, <3>2, <3>3, <3>4
  <2>5. ~(j >= m + 9)
    BY <1>3, <2>4, LostBound DEF ChannelInv
  <2> QED
    BY <1>2, <1>3, <1>10, <2>3, <2>5
<1>11. CASE p # q
  <2>1. p < q
    BY ONLY <1>3, <1>7, <1>11 DEF Before
  <2>2. PICK c, d : c = <<p, m + 1>> /\ d = <<q, 0>>
    OBVIOUS
  <2>3. /\ c \in Nat \X Nat /\ d \in Nat \X Nat /\ c # d /\ c[1] = p /\ d[1] = q
        /\ IsChunk(c) /\ IsChunk(d)
    <3>1. /\ c \in Nat \X Nat /\ d \in Nat \X Nat /\ c[1] = p /\ d[1] = q /\ c # d
          /\ c[2] = m + 1 /\ d[2] = 0
      BY ONLY <1>3, <1>11, <2>2
    <3>2. m + 1 < Total(p) /\ 0 < Total(q) /\ p \in 1..Len(sent) /\ q \in 1..Len(sent)
      <4>1. j \in Nat /\ Total(q) \in Nat /\ j < Total(q)
        BY <1>3, <1>9
      <4> QED
        BY ONLY <1>1, <1>2, <1>4, <1>5, <4>1
    <3> QED
      BY <3>1, <3>2 DEF IsChunk
  <2>4. Before(last, c) /\ Before(c, h) /\ Before(last, d) /\ Before(d, h)
    BY ONLY <1>1, <1>2, <1>3, <2>1, <2>2 DEF Before
  <2>5. MaxSent <= PacketCounts
    BY <1>8, <2>3, <2>4, LostBound DEF ChannelInv
  <2>6. sent[p].count < sent[q].count
    BY <1>1, <1>2, <1>5, <1>6, <2>1, <2>5 DEF ChannelInv, CounterInv
  <2>7. sent[p].count \in 0..3
    <3>1. sent[p] \in Packet
      BY <1>5, PacketFacts DEF CfpInv
    <3> QED
      BY ONLY <3>1 DEF Packet, PacketCounts
  <2> QED
    BY ONLY <1>6, <2>6, <2>7
<1> QED
  BY <1>10, <1>11

(* The first chunks of a packet, up to its last one, are the packet.        *)
LEMMA AllChunks ==
  ASSUME NEW chunks \in Seq(Nat \X Nat), NEW c \in Nat \X Nat, UpTo(chunks, c),
         Total(c[1]) \in Nat
  PROVE  /\ HeaderOf(chunks) = c[1]
         /\ c[2] = Total(c[1]) - 1 => Whole(chunks)
<1>1. c[2] \in Nat /\ Len(chunks) = c[2] + 1 /\ \A j \in 1..Len(chunks) : chunks[j] = <<c[1], j - 1>>
  BY DEF UpTo
<1>2. HeaderOf(chunks) = c[1]
  <2>1. 1 \in 1..Len(chunks)
    BY <1>1
  <2> QED
    BY <1>1, <2>1 DEF HeaderOf
<1>3. ASSUME c[2] = Total(c[1]) - 1
      PROVE  Whole(chunks)
  <2>1. PICK t : t = FrameTotal(sent[c[1]].size)
    OBVIOUS
  <2>2. PICK q, j : q = c[1] /\ j = c[2]
    OBVIOUS
  <2>3. Len(chunks) = j + 1 /\ j \in Nat /\ j = t - 1
    BY <1>1, <1>3, <2>1, <2>2 DEF Total
  <2>4. chunks = [i \in 1..Len(chunks) |-> chunks[i]]
    OBVIOUS
  <2>5. chunks = [i \in 1..Len(chunks) |-> <<q, i - 1>>]
    BY <1>1, <2>2, <2>4
  <2>6. chunks = [i \in 1..t |-> <<q, i - 1>>]
    <3>1. Len(chunks) = t
      <4>1. t \in Nat
        BY <2>1 DEF Total
      <4> QED
        BY <2>3, <4>1
    <3> QED
      BY <2>5, <3>1
  <2> QED
    BY <1>2, <2>1, <2>2, <2>6 DEF Whole
<1> QED
  BY <1>2, <1>3

(* A packet in progress that takes a frame is the beginning of the packet   *)
(* of that frame.                                                           *)
LEMMA GrownBegins ==
  ASSUME CfpInv, ChannelInv, SendersApart, FewLosses, NEW n \in Node, bus[n] # <<>>,
         NEW fr, fr = Head(bus[n]), NEW full, Grown(fr, full)
  PROVE  UpTo(full.chunks, fr.chunk)
<1>1. /\ fr.chunk \in Nat \X Nat /\ fr.dst \in Node /\ fr.key \in Key
      /\ (fr.begin <=> fr.chunk[2] = 0)
  BY HeadFacts DEF Sound
<1>2. PICK q, j : fr.chunk = <<q, j>> /\ q \in Nat /\ j \in Nat
  BY <1>1
<1>3. CASE fr.begin
  <2>1. full.chunks = <<fr.chunk>> /\ j = 0
    <3>1. fr.chunk[2] = j /\ fr.chunk[2] = 0
      BY <1>1, <1>2, <1>3
    <3> QED
      BY <1>3, <3>1 DEF Grown
  <2> QED
    BY <1>2, <2>1 DEF UpTo
<1>4. CASE ~fr.begin
  <2> DEFINE part == partials[fr.dst][fr.key]
  <2>1. part # None /\ fr.count = part.next /\ full.chunks = Append(part.chunks, fr.chunk)
    BY <1>4 DEF Grown
  <2>2. PICK last : Begun(part, last, fr.dst, fr.key)
    BY <1>1, <2>1 DEF ChannelInv, BeginningInv
  <2>3. fr.chunk = <<last[1], last[2] + 1>> /\ last[2] \in Nat
    BY <1>4, <2>1, <2>2, NextInLine DEF Begun
  <2>4. PICK a, r : a = part.chunks /\ r = full.chunks
    OBVIOUS
  <2>5. a \in Seq(Nat \X Nat)
    BY <1>1, <2>1, <2>4, CollectedSent
  <2>6. Len(a) = j /\ \A i \in 1..Len(a) : a[i] = <<q, i - 1>>
    <3>1. last[1] = q /\ last[2] + 1 = j
      BY <1>2, <2>3
    <3>2. Len(a) = last[2] + 1 /\ \A i \in 1..Len(a) : a[i] = <<last[1], i - 1>>
      BY <2>2, <2>4 DEF Begun, UpTo
    <3> QED
      BY <3>1, <3>2
  <2>7. Len(r) = j + 1 /\ r[j + 1] = fr.chunk /\ \A i \in 1..j : r[i] = a[i]
    <3>1. r = Append(a, fr.chunk)
      BY <2>1, <2>4
    <3>2. Len(r) = Len(a) + 1 /\ r[Len(a) + 1] = fr.chunk /\ \A i \in 1..Len(a) : r[i] = a[i]
      BY <1>1, <2>5, <3>1, AppendShape
    <3> QED
      BY <2>6, <3>2
  <2>8. ASSUME NEW i \in 1..(j + 1)
        PROVE  r[i] = <<q, i - 1>>
    <3>1. CASE i \in 1..j
      BY <2>6, <2>7, <3>1
    <3>2. CASE i = j + 1
      <4>1. i - 1 = j
        BY <1>2, <3>2
      <4> QED
        BY <1>2, <2>7, <3>2, <4>1
    <3> QED
      BY <1>2, <3>1, <3>2
  <2>9. fr.chunk[1] = q /\ fr.chunk[2] = j
    BY <1>2
  <2> QED
    BY <2>4, <2>7, <2>8, <2>9 DEF UpTo
<1> QED
  BY <1>3, <1>4

(* A packet in progress stays a beginning while what follows it is unread   *)
(* or lost.                                                                 *)
LEMMA BegunStays ==
  ASSUME CfpInv, NEW part, NEW last, NEW n, NEW k, Begun(part, last, n, k), sent' = sent,
         \A c : OnBus(c)' => OnBus(c), lost \subseteq lost',
         \A c \in Nat \X Nat : IsChunk(c) /\ KeyOf(c[1]) = k /\ sent[c[1]].dst = n /\ OnBus(c)
                                 => OnBus(c)' \/ c \in lost'
  PROVE  Begun(part, last, n, k)'
<1>1. ASSUME NEW c \in Nat \X Nat, IsChunk(c)', KeyOf(c[1])' = k, sent'[c[1]].dst = n, Before(last, c)
      PROVE  OnBus(c)' \/ c \in lost'
  <2>1. IsChunk(c) /\ KeyOf(c[1]) = k /\ sent[c[1]].dst = n
    BY <1>1 DEF IsChunk, Total, KeyOf
  <2> QED
    BY <1>1, <2>1 DEF Begun, Follows
<1>2. Follows(last, n, k)'
  BY <1>1 DEF Follows, Before
<1>3. /\ last \in Nat \X Nat /\ UpTo(part.chunks, last)
      /\ last[2] + 1 < Total(last[1])' /\ ~OnBus(last)'
  BY DEF Begun, Total
<1> QED
  BY <1>2, <1>3 DEF Begun, UpTo

(* Packets sent and nothing put on a bus: what does not involve the         *)
(* reassemblers stays.                                                      *)
LEMMA ChannelStays ==
  ASSUME CfpInv, ChannelInv, UNCHANGED <<counter, sent>>, \A c : OnBus(c)' => OnBus(c)
  PROVE  /\ CounterInv'
         /\ \A chunks : Finished(chunks) => Finished(chunks)'
<1>1. CounterInv'
  BY DEF ChannelInv, CounterInv
<1>2. ASSUME NEW chunks, Finished(chunks)
      PROVE  Finished(chunks)'
  <2>1. Whole(chunks)'
    BY <1>2 DEF Finished, Whole, HeaderOf
  <2>2. PICK c : c = <<HeaderOf(chunks), Total(HeaderOf(chunks)) - 1>>
    OBVIOUS
  <2>3. c = <<HeaderOf(chunks), Total(HeaderOf(chunks))' - 1>> /\ ~OnBus(c)'
    BY <1>2, <2>2 DEF Finished, Total, HeaderOf
  <2> QED
    BY <2>1, <2>3 DEF Finished, OnBus, HeaderOf
<1> QED
  BY <1>1, <1>2

(* Deliveries after a step.                                                 *)
LEMMA DeliveriesFinished ==
  ASSUME \A n \in Node : \A i \in 1..Len(delivered'[n]) :
           \E chunks : chunks = delivered'[n][i] /\ Finished(chunks)'
  PROVE  WholeInv'
<1>1. ASSUME NEW n \in Node, NEW i \in 1..Len(delivered'[n])
      PROVE  Finished(delivered[n][i])'
  <2>1. PICK chunks : chunks = delivered'[n][i] /\ Finished(chunks)'
    OBVIOUS
  <2> QED
    BY <2>1 DEF Finished, Whole, HeaderOf, OnBus, Total
<1> QED
  BY <1>1 DEF WholeInv

(* The bus loses its oldest unread frame of a node.                         *)
LEMMA LoseChannel ==
  ASSUME CfpInv, ChannelInv, NEW n \in Node, Lose(n)
  PROVE  ChannelInv'
<1>1. PICK h : h = Head(bus[n]).chunk
  OBVIOUS
<1>2. /\ bus[n] # <<>> /\ bus' = [bus EXCEPT ![n] = Tail(@)]
      /\ lost' = lost \cup {h} /\ Cardinality(lost) < MaxLost
      /\ UNCHANGED <<clock, counter, partials, ended, sent, delivered, reported>>
  BY <1>1 DEF Lose
<1>3. /\ \A c : OnBus(c)' => OnBus(c)
      /\ \A c : OnBus(c) => c = h \/ OnBus(c)'
      /\ SourceInv' /\ OrderInv'
  BY <1>1, <1>2, HeadLeaves DEF ChannelInv
<1>4. BeginningInv'
  <2>1. ASSUME NEW m \in Node, NEW k \in Key, partials[m][k] # None
        PROVE  \E last : Begun(partials[m][k], last, m, k)'
    <3>1. PICK part : part = partials[m][k]
      OBVIOUS
    <3>2. PICK last : Begun(part, last, m, k)
      BY <2>1, <3>1 DEF ChannelInv, BeginningInv
    <3>3. Begun(part, last, m, k)'
      BY <1>2, <1>3, <3>2, BegunStays
    <3> QED
      BY <1>2, <3>1, <3>3 DEF Begun, UpTo
  <2> QED
    BY <1>2, <2>1 DEF BeginningInv
<1>5. LossInv'
  <2>1. IsFiniteSet(lost) /\ Cardinality(lost) \in Nat
    BY FS_CardinalityType DEF ChannelInv, LossInv
  <2>2. PICK l, x, y : l = lost' /\ x = Cardinality(lost) /\ y = Cardinality(lost')
    OBVIOUS
  <2>3. IsFiniteSet(l) /\ y = IF h \in lost THEN x ELSE x + 1
    BY <1>2, <2>1, <2>2, FS_AddElement
  <2>4. x \in Nat /\ MaxLost \in Nat /\ x < MaxLost
    BY <1>2, <2>1, <2>2, CfpAssumption
  <2>5. y <= MaxLost
    BY <2>3, <2>4
  <2> QED
    BY <2>2, <2>3, <2>5 DEF LossInv
<1>6. CounterInv' /\ WholeInv'
  <2>1. \A m \in Node : \A i \in 1..Len(delivered'[m]) :
          \E chunks : chunks = delivered'[m][i] /\ Finished(chunks)'
    BY <1>2, <1>3, ChannelStays DEF ChannelInv, WholeInv
  <2>2. WholeInv'
    BY <2>1, DeliveriesFinished
  <2> QED
    BY <1>2, <1>3, <2>2, ChannelStays
<1> QED
  BY <1>3, <1>4, <1>5, <1>6 DEF ChannelInv

(* A frame is fed: the packet in progress of its key is then a beginning.   *)
LEMMA FedBegins ==
  ASSUME CfpInv, ChannelInv, SendersApart, FewLosses, NEW n \in Node, bus[n] # <<>>,
         NEW fr, fr = Head(bus[n]), Fed(n, fr), Kept(fr)
  PROVE  \E last : Begun(partials[fr.dst][fr.key], last, fr.dst, fr.key)'
<1>1. PICK h : h = fr.chunk
  OBVIOUS
<1>2. /\ bus' = [bus EXCEPT ![n] = Tail(@)] /\ sent' = sent /\ lost' = lost
  BY DEF Fed, Arrives
<1>3. /\ \A c : OnBus(c) => c = h \/ OnBus(c)'
      /\ ~OnBus(h)'
  BY <1>1, <1>2, HeadLeaves DEF ChannelInv
<1>4. /\ h \in Nat \X Nat /\ IsChunk(h) /\ sent[h[1]].src = n /\ h[1] \in 1..Len(sent)
      /\ KeyOf(h[1]) = fr.key /\ (fr.end <=> h[2] = Total(h[1]) - 1)
  BY <1>1, HeadFacts, HeadFirst DEF ChannelInv, Sound, IsChunk
<1>5. PICK full : Grown(fr, full) /\ partials'[fr.dst][fr.key] = full
  BY DEF Kept
<1>6. UpTo(full.chunks, h)
  BY <1>1, <1>5, GrownBegins
<1>7. h[2] + 1 < Total(h[1])
  <2>1. PICK j, t : j = h[2] /\ t = Total(h[1])
    OBVIOUS
  <2>2. j \in Nat /\ t \in Nat /\ j < t /\ j # t - 1
    <3>1. Total(h[1]) \in Nat
      BY <1>4, PacketFacts DEF CfpInv
    <3> QED
      BY <1>4, <2>1, <3>1 DEF Kept, IsChunk
  <2>3. j + 1 < t
    BY <2>2
  <2> QED
    BY <2>1, <2>3
<1>8. ASSUME NEW c \in Nat \X Nat, IsChunk(c), KeyOf(c[1]) = fr.key, Before(h, c)
      PROVE  OnBus(c)'
  <2>1. c[1] \in 1..Len(sent)
    BY <1>8 DEF IsChunk
  <2>2. sent[c[1]].src = n
    BY <1>4, <1>8, <2>1, OneSource DEF ChannelInv
  <2>3. OnBus(c)
    BY <1>1, <1>8, <2>2, HeadFirst DEF ChannelInv
  <2>4. c # h
    BY <1>4, <1>8, Ordered
  <2> QED
    BY <1>3, <2>3, <2>4
<1>9. Follows(h, fr.dst, fr.key)'
  <2>1. ASSUME NEW c \in Nat \X Nat, IsChunk(c)', KeyOf(c[1])' = fr.key, Before(h, c)
        PROVE  OnBus(c)'
    <3>1. IsChunk(c) /\ KeyOf(c[1]) = fr.key
      BY <1>2, <2>1 DEF IsChunk, Total, KeyOf
    <3> QED
      BY <1>8, <2>1, <3>1
  <2> QED
    BY <2>1 DEF Follows, Before
<1>10. Total(h[1])' = Total(h[1])
  BY <1>2 DEF Total
<1>11. Begun(full, h, fr.dst, fr.key)'
  BY <1>3, <1>4, <1>6, <1>7, <1>9, <1>10 DEF Begun, UpTo
<1> QED
  BY <1>5, <1>11 DEF Begun, UpTo

(* What is handed over is one packet, whole: the one the frame ends.        *)
LEMMA HandedWhole ==
  ASSUME CfpInv, ChannelInv, SendersApart, FewLosses, NEW n \in Node, bus[n] # <<>>,
         NEW fr, fr = Head(bus[n]), fr.end, NEW full, Grown(fr, full)
  PROVE  /\ Whole(full.chunks)
         /\ HeaderOf(full.chunks) = fr.chunk[1]
         /\ fr.chunk = <<fr.chunk[1], Total(fr.chunk[1]) - 1>>
<1>1. /\ fr.chunk \in Nat \X Nat /\ fr.chunk[1] \in 1..Len(sent)
      /\ fr.chunk[2] = Total(fr.chunk[1]) - 1
  BY HeadFacts DEF Sound
<1>2. Total(fr.chunk[1]) \in Nat
  BY <1>1, PacketFacts DEF CfpInv
<1>3. full.chunks \in Seq(Nat \X Nat)
  BY DEF Grown, Partial
<1>4. UpTo(full.chunks, fr.chunk)
  BY GrownBegins
<1>5. Whole(full.chunks) /\ HeaderOf(full.chunks) = fr.chunk[1]
  BY <1>1, <1>2, <1>3, <1>4, AllChunks
<1> QED
  BY <1>1, <1>5

(* Feeding a frame keeps the invariant of the channel.                      *)
LEMMA FedChannel ==
  ASSUME CfpInv, ChannelInv, SendersApart, FewLosses, NEW n \in Node, bus[n] # <<>>,
         NEW fr, fr = Head(bus[n]), Fed(n, fr), Dropped(fr) \/ Kept(fr) \/ Handed(fr)
  PROVE  ChannelInv'
<1>1. /\ bus' = [bus EXCEPT ![n] = Tail(@)]
      /\ UNCHANGED <<clock, counter, ended, sent, lost>>
      /\ \A m \in Node, k \in Key : \/ m = fr.dst /\ k = fr.key
                                    \/ partials'[m][k] \in {partials[m][k], None}
  BY DEF Fed, Arrives
<1>2. PICK h : h = fr.chunk
  OBVIOUS
<1>3. /\ h \in Nat \X Nat /\ fr.dst \in Node /\ fr.key \in Key
      /\ KeyOf(h[1]) = fr.key /\ sent[h[1]].dst = fr.dst
  BY <1>2, HeadFacts DEF Sound
<1>4. /\ \A c : OnBus(c)' => OnBus(c)
      /\ \A c : OnBus(c) => c = h \/ OnBus(c)'
      /\ ~OnBus(h)'
      /\ SourceInv' /\ OrderInv'
  BY <1>1, <1>2, HeadLeaves DEF ChannelInv
<1>5. BeginningInv'
  <2>1. ASSUME NEW m \in Node, NEW k \in Key, partials'[m][k] # None
        PROVE  \E last : Begun(partials[m][k], last, m, k)'
    <3>1. CASE m = fr.dst /\ k = fr.key
      <4>1. Kept(fr)
        BY <2>1, <3>1 DEF Dropped, Handed
      <4> QED
        BY <3>1, <4>1, FedBegins
    <3>2. CASE ~(m = fr.dst /\ k = fr.key)
      <4>1. PICK part : part = partials[m][k]
        OBVIOUS
      <4>2. partials'[m][k] = part /\ part # None
        BY <1>1, <2>1, <3>2, <4>1
      <4>3. PICK last : Begun(part, last, m, k)
        BY <4>1, <4>2 DEF ChannelInv, BeginningInv
      <4>4. Begun(part, last, m, k)'
        BY <1>1, <1>3, <1>4, <3>2, <4>3, BegunStays
      <4> QED
        BY <4>2, <4>4 DEF Begun, UpTo
    <3> QED
      BY <3>1, <3>2
  <2> QED
    BY <2>1 DEF BeginningInv
<1>6. LossInv'
  BY <1>1 DEF ChannelInv, LossInv
<1>7. CounterInv'
  BY <1>1, <1>4, ChannelStays
<1>8. ASSUME NEW chunks, Finished(chunks)
      PROVE  Finished(chunks)'
  BY <1>1, <1>4, <1>8, ChannelStays
<1>9. WholeInv'
  <2>1. CASE UNCHANGED delivered
    <3>1. \A m \in Node : \A i \in 1..Len(delivered'[m]) :
            \E chunks : chunks = delivered'[m][i] /\ Finished(chunks)'
      BY <1>8, <2>1 DEF ChannelInv, WholeInv
    <3> QED
      BY <3>1, DeliveriesFinished
  <2>2. CASE Handed(fr)
    <3>1. PICK full : /\ Grown(fr, full)
                      /\ delivered' = [delivered EXCEPT ![fr.dst] = Append(@, full.chunks)]
      BY <2>2 DEF Handed
    <3>2. PICK new, d, r : new = full.chunks /\ d = delivered[fr.dst] /\ r = Append(d, new)
      OBVIOUS
    <3>3. delivered \in [Node -> Seq(Seq(Nat \X Nat))]
      BY DEF CfpInv, DeliveryInv
    <3>4. new \in Seq(Nat \X Nat)
      BY <3>1, <3>2 DEF Grown, Partial
    <3>5. /\ Len(d) \in Nat /\ Len(r) = Len(d) + 1 /\ r[Len(d) + 1] = new
          /\ \A i \in 1..Len(d) : r[i] = d[i]
      <4>1. d \in Seq(Seq(Nat \X Nat)) /\ new \in Seq(Nat \X Nat) /\ r = Append(d, new)
        BY <1>3, <3>2, <3>3, <3>4
      <4> QED
        BY ONLY <4>1, AppendShape
    <3>6. delivered'[fr.dst] = r /\ \A m \in Node \ {fr.dst} : delivered'[m] = delivered[m]
      BY <1>3, <3>1, <3>2, <3>3
    <3>7. Finished(new)'
      <4>1. Whole(new) /\ h = <<HeaderOf(new), Total(HeaderOf(new)) - 1>>
        <5>1. fr.end
          BY <2>2 DEF Handed
        <5>2. /\ Whole(full.chunks) /\ HeaderOf(full.chunks) = fr.chunk[1]
              /\ fr.chunk = <<fr.chunk[1], Total(fr.chunk[1]) - 1>>
          BY <3>1, <5>1, HandedWhole
        <5>3. PICK q : q = HeaderOf(new)
          OBVIOUS
        <5>4. q = fr.chunk[1]
          BY <3>2, <5>2, <5>3
        <5> QED
          BY <1>2, <3>2, <5>2, <5>3, <5>4
      <4>2. Whole(new)'
        BY <1>1, <4>1 DEF Whole, HeaderOf
      <4>3. h = <<HeaderOf(new), Total(HeaderOf(new))' - 1>> /\ ~OnBus(h)'
        BY <1>1, <1>4, <4>1 DEF Total, HeaderOf
      <4> QED
        BY <4>2, <4>3 DEF Finished, OnBus, HeaderOf
    <3>8. ASSUME NEW m \in Node, NEW i \in 1..Len(delivered'[m])
          PROVE  \E chunks : chunks = delivered'[m][i] /\ Finished(chunks)'
      <4>1. CASE m # fr.dst
        BY <1>8, <3>6, <3>8, <4>1 DEF ChannelInv, WholeInv
      <4>2. CASE m = fr.dst
        <5>1. i \in 1..Len(d) \/ i = Len(d) + 1
          BY <3>5, <3>6, <3>8, <4>2
        <5>2. CASE i \in 1..Len(d)
          <6>1. Finished(d[i])
            BY <1>3, <3>2, <5>2 DEF ChannelInv, WholeInv
          <6>2. delivered'[m][i] = d[i]
            BY <3>5, <3>6, <4>2, <5>2
          <6> QED
            BY <1>8, <6>1, <6>2
        <5>3. CASE i = Len(d) + 1
          BY <3>5, <3>6, <3>7, <4>2, <5>3
        <5> QED
          BY <5>1, <5>2, <5>3
      <4> QED
        BY <4>1, <4>2
    <3> QED
      BY <3>8, DeliveriesFinished
  <2> QED
    BY <2>1, <2>2 DEF Dropped, Kept
<1> QED
  BY <1>4, <1>5, <1>6, <1>7, <1>9 DEF ChannelInv

(* Steps that move no frame: packets in progress stay or time out.          *)
LEMMA QuietChannel ==
  ASSUME CfpInv, ChannelInv, UNCHANGED <<counter, bus, sent, lost, delivered>>,
         \A n \in Node, k \in Key : partials'[n][k] \in {partials[n][k], None}
  PROVE  ChannelInv'
<1>1. \A c : OnBus(c)' <=> OnBus(c)
  BY DEF OnBus
<1>2. SourceInv' /\ LossInv' /\ CounterInv'
  BY DEF ChannelInv, SourceInv, LossInv, CounterInv
<1>3. OrderInv'
  BY DEF ChannelInv, OrderInv, OnBus, IsChunk, Total, Before
<1>4. ASSUME NEW m \in Node, NEW k \in Key, partials'[m][k] # None
      PROVE  \E last : Begun(partials[m][k], last, m, k)'
  <2>1. PICK part : part = partials[m][k]
    OBVIOUS
  <2>2. partials'[m][k] = part /\ part # None
    BY <1>4, <2>1
  <2>3. PICK last : Begun(part, last, m, k)
    BY <2>1, <2>2 DEF ChannelInv, BeginningInv
  <2>4. Begun(part, last, m, k)'
    BY <1>1, <2>3, BegunStays
  <2> QED
    BY <2>2, <2>4 DEF Begun, UpTo
<1>5. BeginningInv'
  BY <1>4 DEF BeginningInv
<1>6. WholeInv'
  <2>1. \A m \in Node : \A i \in 1..Len(delivered'[m]) :
          \E chunks : chunks = delivered'[m][i] /\ Finished(chunks)'
    BY <1>1, ChannelStays DEF ChannelInv, WholeInv
  <2> QED
    BY <2>1, DeliveriesFinished
<1> QED
  BY <1>2, <1>3, <1>5, <1>6 DEF ChannelInv

(* The buses after a packet was sent: what was there, then its chunks.      *)
LEMMA SendBus ==
  ASSUME CfpInv, NEW f \in Fragmenter, NEW pk, Sends(f, pk), NEW q, q = Len(sent) + 1
  PROVE  /\ q \in Nat \ {0} /\ Len(sent') = q /\ sent'[q] = pk /\ f[1] \in Node
         /\ \A p \in 1..Len(sent) : p \in 1..Len(sent') /\ p < q /\ sent'[p] = sent[p]
         /\ \A p \in 1..Len(sent') : p \in 1..Len(sent) \/ p = q
         /\ \A m \in Node : \A i \in 1..Len(bus'[m]) :
              \/ i \in 1..Len(bus[m]) /\ bus'[m][i] = bus[m][i]
              \/ /\ m = f[1] /\ \A j \in 1..Len(bus[m]) : j < i
                 /\ bus'[m][i].chunk = <<q, i - Len(bus[m]) - 1>>
         /\ \A m \in Node : Len(bus[m]) \in Nat
         /\ \A m \in Node : \A i \in 1..Len(bus[m]) : i \in 1..Len(bus'[m]) /\ bus'[m][i] = bus[m][i]
<1>1. PICK n : n = f[1]
  OBVIOUS
<1>2. /\ n \in Node /\ Extended /\ Len(sent') = Len(sent) + 1 /\ sent'[Len(sent) + 1] = pk
      /\ Len(bus[n]) \in Nat
      /\ \A m \in Node \ {n} : bus'[m] = bus[m]
      /\ \A i \in 1..Len(bus[n]) : i \in 1..Len(bus'[n]) /\ bus'[n][i] = bus[n][i]
  BY <1>1, SendShape
<1>3. Len(sent) \in Nat /\ \A m \in Node : Len(bus[m]) \in Nat
  BY DEF CfpInv, Typed
<1>4. /\ \A p \in 1..Len(sent) : p \in 1..Len(sent') /\ p < q /\ sent'[p] = sent[p]
      /\ \A p \in 1..Len(sent') : p \in 1..Len(sent) \/ p = q
      /\ q \in Nat \ {0} /\ Len(sent') = q /\ sent'[q] = pk
  BY <1>2, <1>3 DEF Extended
<1>5. ASSUME NEW i \in 1..Len(bus'[n]), i \notin 1..Len(bus[n])
      PROVE  /\ \A j \in 1..Len(bus[n]) : j < i
             /\ bus'[n][i].chunk = <<q, i - Len(bus[n]) - 1>>
  <2>1. PICK a, b : a = Len(bus[n]) /\ b = Len(bus'[n])
    OBVIOUS
  <2>2. a \in Nat /\ i \in 1..b /\ i \notin 1..a
    BY <1>2, <1>5, <2>1
  <2>3. i > a /\ \A j \in 1..a : j < i
    BY <2>2
  <2>4. bus'[n][i].chunk = <<Len(sent) + 1, i - Len(bus[n]) - 1>>
    BY <1>1, <1>5, <2>1, <2>3, SendShape
  <2> QED
    BY <2>1, <2>3, <2>4
<1>6. ASSUME NEW m \in Node, NEW i \in 1..Len(bus'[m])
      PROVE  \/ i \in 1..Len(bus[m]) /\ bus'[m][i] = bus[m][i]
             \/ /\ m = f[1] /\ \A j \in 1..Len(bus[m]) : j < i
                /\ bus'[m][i].chunk = <<q, i - Len(bus[m]) - 1>>
  <2>1. CASE m # n
    BY <1>2, <1>6, <2>1
  <2>2. CASE m = n
    BY <1>1, <1>2, <1>5, <1>6, <2>2
  <2> QED
    BY <2>1, <2>2
<1>7. ASSUME NEW m \in Node, NEW i \in 1..Len(bus[m])
      PROVE  i \in 1..Len(bus'[m]) /\ bus'[m][i] = bus[m][i]
  BY <1>2, <1>7
<1> QED
  BY <1>1, <1>2, <1>3, <1>4, <1>6, <1>7

(* Chunks of the packets sent before stay where they are.                   *)
LEMMA SendOnBus ==
  ASSUME CfpInv, NEW f \in Fragmenter, NEW pk, Sends(f, pk), NEW q, q = Len(sent) + 1
  PROVE  /\ \A c : OnBus(c) => OnBus(c)'
         /\ \A c : OnBus(c)' => OnBus(c) \/ c[1] = q
         /\ \A c \in Nat \X Nat : IsChunk(c)' => IsChunk(c) \/ (c[1] = q /\ OnBus(c)')
         /\ \A p \in 1..Len(sent) : Total(p)' = Total(p) /\ KeyOf(p)' = KeyOf(p)
<1>1. ASSUME NEW c, OnBus(c)
      PROVE  OnBus(c)'
  BY <1>1, SendBus DEF OnBus
<1>2. ASSUME NEW c, OnBus(c)'
      PROVE  OnBus(c) \/ c[1] = q
  <2>1. PICK m \in Node : \E i \in 1..Len(bus'[m]) : bus'[m][i].chunk = c
    BY <1>2 DEF OnBus
  <2>2. PICK i \in 1..Len(bus'[m]) : bus'[m][i].chunk = c
    BY <2>1
  <2>3. \/ i \in 1..Len(bus[m]) /\ bus'[m][i] = bus[m][i]
        \/ bus'[m][i].chunk = <<q, i - Len(bus[m]) - 1>>
    BY SendBus
  <2> QED
    BY <2>2, <2>3 DEF OnBus
<1>3. /\ \A p \in 1..Len(sent) : Total(p)' = Total(p) /\ KeyOf(p)' = KeyOf(p)
      /\ \A p \in 1..Len(sent') : p \in 1..Len(sent) \/ p = q
  BY SendBus, SendShape, CollectedStays
<1>4. ASSUME NEW c \in Nat \X Nat, IsChunk(c)'
      PROVE  IsChunk(c) \/ (c[1] = q /\ OnBus(c)')
  <2>1. CASE c[1] = q
    BY <1>4, <2>1, SentOnBus
  <2>2. CASE c[1] \in 1..Len(sent)
    BY <1>3, <1>4, <2>2 DEF IsChunk
  <2>3. c[1] \in 1..Len(sent')
    BY <1>4 DEF IsChunk
  <2> QED
    BY <1>3, <2>1, <2>2, <2>3
<1> QED
  BY <1>1, <1>2, <1>3, <1>4

(* The buses stay in order when a packet is sent.                           *)
LEMMA SendOrder ==
  ASSUME CfpInv, ChannelInv, NEW f \in Fragmenter, NEW pk, Sends(f, pk)
  PROVE  SourceInv' /\ OrderInv'
<1>1. PICK q : q = Len(sent) + 1
  OBVIOUS
<1>2. /\ q \in Nat \ {0} /\ Len(sent') = q /\ sent'[q] = pk /\ pk.src = f[1]
      /\ \A p \in 1..Len(sent) : p \in 1..Len(sent') /\ p < q /\ sent'[p] = sent[p]
      /\ \A p \in 1..Len(sent') : p \in 1..Len(sent) \/ p = q
  BY <1>1, SendBus DEF Sends
<1>3. ASSUME NEW m \in Node, NEW i \in 1..Len(bus'[m])
      PROVE  \/ i \in 1..Len(bus[m]) /\ bus'[m][i] = bus[m][i]
             \/ /\ m = f[1] /\ \A j \in 1..Len(bus[m]) : j < i
                /\ bus'[m][i].chunk = <<q, i - Len(bus[m]) - 1>>
  BY <1>1, SendBus, SMTT(30)
<1>4. ASSUME NEW m \in Node, NEW i \in 1..Len(bus[m])
      PROVE  bus[m][i].chunk \in Nat \X Nat /\ bus[m][i].chunk[1] \in 1..Len(sent)
  BY DEF CfpInv, BusInv, Sound, IsChunk
<1>5. SourceInv'
  <2>1. ASSUME NEW p \in 1..Len(sent')
        PROVE  \E g \in Fragmenter : sent'[p].src = g[1]
    BY <1>2 DEF ChannelInv, SourceInv
  <2>2. ASSUME NEW m \in Node, NEW i \in 1..Len(bus'[m])
        PROVE  sent'[bus'[m][i].chunk[1]].src = m
    <3>1. CASE i \in 1..Len(bus[m]) /\ bus'[m][i] = bus[m][i]
      BY <1>2, <1>4, <3>1 DEF ChannelInv, SourceInv
    <3>2. CASE m = f[1] /\ bus'[m][i].chunk = <<q, i - Len(bus[m]) - 1>>
      BY <1>2, <3>2
    <3> QED
      BY <1>3, <3>1, <3>2
  <2> QED
    BY <2>1, <2>2 DEF SourceInv
<1>6. ASSUME NEW m \in Node, NEW i \in 1..Len(bus'[m]), NEW j \in 1..Len(bus'[m]), i < j
      PROVE  Before(bus'[m][i].chunk, bus'[m][j].chunk)
  <2>1. CASE i \in 1..Len(bus[m]) /\ bus'[m][i] = bus[m][i]
    <3>1. CASE j \in 1..Len(bus[m]) /\ bus'[m][j] = bus[m][j]
      BY <1>6, <2>1, <3>1 DEF ChannelInv, OrderInv
    <3>2. CASE bus'[m][j].chunk = <<q, j - Len(bus[m]) - 1>>
      BY <1>2, <1>4, <2>1, <3>2 DEF Before
    <3> QED
      BY <1>3, <3>1, <3>2
  <2>2. CASE /\ \A k \in 1..Len(bus[m]) : k < i
             /\ bus'[m][i].chunk = <<q, i - Len(bus[m]) - 1>>
    <3>1. ~(j < i)
      BY <1>6
    <3>2. bus'[m][j].chunk = <<q, j - Len(bus[m]) - 1>>
      BY <1>3, <2>2, <3>1
    <3>3. Len(bus[m]) \in Nat
      BY DEF CfpInv, Typed
    <3>4. PICK a : a = Len(bus[m])
      OBVIOUS
    <3>5. i - a - 1 < j - a - 1
      BY <1>6, <3>3, <3>4
    <3> QED
      BY <2>2, <3>2, <3>4, <3>5 DEF Before
  <2> QED
    BY <1>3, <2>1, <2>2
<1>7. ASSUME NEW m \in Node, NEW i \in 1..Len(bus'[m]), NEW c \in Nat \X Nat,
             IsChunk(c)', sent'[c[1]].src = m, Before(bus'[m][i].chunk, c)
      PROVE  OnBus(c)'
  <2>1. CASE c[1] = q
    BY <1>1, <1>7, <2>1, SentOnBus
  <2>2. CASE c[1] # q
    <3>1. IsChunk(c) /\ c[1] \in 1..Len(sent) /\ sent[c[1]].src = m
      <4>1. IsChunk(c)
        BY <1>1, <1>7, <2>2, SendOnBus
      <4>2. c[1] \in 1..Len(sent)
        BY <4>1 DEF IsChunk
      <4> QED
        BY <1>2, <1>7, <4>1, <4>2
    <3>2. c[1] < q
      BY <1>2, <3>1
    <3>3. ~(bus'[m][i].chunk = <<q, i - Len(bus[m]) - 1>>)
      BY <1>2, <1>7, <2>2, <3>1, <3>2 DEF Before
    <3>4. OnBus(c)
      BY <1>3, <1>7, <3>1, <3>3 DEF ChannelInv, OrderInv
    <3> QED
      BY <1>1, <3>4, SendOnBus
  <2> QED
    BY <2>1, <2>2
<1>8. OrderInv'
  BY <1>6, <1>7 DEF OrderInv, Before
<1> QED
  BY <1>5, <1>8

(* The packet counter of a sender advances with every packet.               *)
LEMMA SendCounts ==
  ASSUME CfpInv, ChannelInv, SendersApart, NEW f \in Fragmenter, NEW pk, Sends(f, pk)
  PROVE  CounterInv'
<1> SUFFICES ASSUME MaxSent <= PacketCounts
             PROVE  CounterInv'
  BY DEF CounterInv
<1>1. PICK q, v : q = Len(sent) + 1 /\ v = counter[f]
  OBVIOUS
<1>2. /\ q \in Nat \ {0} /\ Len(sent') = q /\ sent'[q] = pk /\ pk.src = f[1] /\ pk.count = v
      /\ \A p \in 1..Len(sent) : p < q /\ sent'[p] = sent[p]
      /\ \A p \in 1..q : p \in 1..Len(sent) \/ p = q
  <2>1. /\ q \in Nat \ {0} /\ Len(sent') = q /\ sent'[q] = pk
        /\ \A p \in 1..Len(sent) : p \in 1..Len(sent') /\ p < q /\ sent'[p] = sent[p]
        /\ \A p \in 1..Len(sent') : p \in 1..Len(sent) \/ p = q
    BY <1>1, SendBus
  <2>2. pk.src = f[1] /\ pk.count = v
    BY <1>1 DEF Sends
  <2> QED
    BY ONLY <2>1, <2>2
<1>3. /\ Len(sent) \in Nat /\ Len(sent) = q - 1 /\ q <= MaxSent /\ MaxSent \in Nat
      /\ MaxSent <= 4 /\ Len(sent) < PacketCounts
  <2>1. Len(sent) < MaxSent /\ MaxSent \in Nat /\ Len(sent) \in Nat
    BY CfpAssumption DEF Sends, CfpInv, Typed
  <2> QED
    BY <1>1, <2>1 DEF PacketCounts
<1>4. /\ counter \in [Fragmenter -> 0..3] /\ v \in 0..3
      /\ counter' = [counter EXCEPT ![f] = (v + 1) % PacketCounts]
  BY <1>1 DEF CfpInv, Typed, Sends, PacketCounts
<1>5. /\ \A p, r \in 1..Len(sent) : p < r /\ sent[p].src = sent[r].src => sent[p].count < sent[r].count
      /\ \A g \in Fragmenter :
           /\ counter[g] <= Len(sent)
           /\ \A p \in 1..Len(sent) : sent[p].src = g[1] => sent[p].count < counter[g]
  BY <1>3 DEF ChannelInv, CounterInv
<1>6. ASSUME NEW p \in 1..q, NEW r \in 1..q, p < r, sent'[p].src = sent'[r].src
      PROVE  sent'[p].count < sent'[r].count
  <2>1. p \in 1..Len(sent)
    BY <1>2, <1>3, <1>6
  <2>2. CASE r \in 1..Len(sent)
    BY <1>2, <1>5, <1>6, <2>1, <2>2
  <2>3. CASE r = q
    BY <1>1, <1>2, <1>5, <1>6, <2>1, <2>3
  <2> QED
    BY <1>2, <2>2, <2>3
<1>7. ASSUME q < 4, NEW g \in Fragmenter
      PROVE  /\ counter'[g] <= q
             /\ \A p \in 1..q : sent'[p].src = g[1] => sent'[p].count < counter'[g]
  <2>1. CASE g # f
    <3>1. counter'[g] = counter[g] /\ counter[g] \in 0..3 /\ counter[g] <= Len(sent)
      BY <1>4, <1>5, <2>1
    <3>2. counter'[g] <= q
      <4>1. \A x \in 0..3 : x <= Len(sent) => x <= q
        BY <1>2, <1>3
      <4> QED
        BY <3>1, <4>1
    <3>3. ASSUME NEW p \in 1..q, sent'[p].src = g[1]
          PROVE  sent'[p].count < counter'[g]
      <4>1. CASE p \in 1..Len(sent)
        BY <1>2, <1>5, <3>1, <3>3, <4>1
      <4>2. p # q
        BY <1>2, <2>1, <3>3 DEF SendersApart
      <4> QED
        BY <1>2, <4>1, <4>2
    <3> QED
      BY <3>2, <3>3
  <2>2. CASE g = f
    <3>1. v + 1 \in 0..3 /\ v < v + 1 /\ v + 1 <= q
      BY <1>1, <1>3, <1>4, <1>5, <1>7
    <3>2. (v + 1) % 4 = v + 1
      BY <3>1
    <3>3. counter'[g] = v + 1
      BY <1>4, <2>2, <3>2 DEF PacketCounts
    <3>4. ASSUME NEW p \in 1..q, sent'[p].src = g[1]
          PROVE  sent'[p].count < counter'[g]
      <4>1. CASE p \in 1..Len(sent)
        <5>1. sent'[p].count < v
          BY <1>1, <1>2, <1>5, <2>2, <3>4, <4>1
        <5>2. sent'[p].count \in 0..3
          BY <1>2, <4>1, PacketFacts, SMTT(30) DEF CfpInv, Packet, PacketCounts
        <5> QED
          BY <1>4, <3>3, <5>1, <5>2
      <4>2. CASE p = q
        BY <1>2, <3>1, <3>3, <4>2
      <4> QED
        BY <1>2, <4>1, <4>2
    <3> QED
      BY <3>1, <3>3, <3>4
  <2> QED
    BY <2>1, <2>2
<1> QED
  BY <1>2, <1>3, <1>6, <1>7 DEF CounterInv, PacketCounts

(* A packet that was delivered was sent.                                    *)
LEMMA DeliveredSent ==
  ASSUME CfpInv, NEW n \in Node, NEW i \in 1..Len(delivered[n]),
         NEW chunks, chunks = delivered[n][i]
  PROVE  /\ HeaderOf(chunks) \in 1..Len(sent)
         /\ sent[HeaderOf(chunks)].dst = n
<1>1. PICK k \in Key : Collected(chunks, n, k)
  BY DEF CfpInv, DeliveryInv, Delivery
<1>2. 1 \in 1..Len(chunks)
  <2>1. chunks \in Seq(Nat \X Nat) /\ chunks # <<>>
    BY <1>1 DEF Collected
  <2> QED
    BY <2>1
<1>3. IsChunk(chunks[1]) /\ sent[chunks[1][1]].dst = n
  BY <1>1, <1>2 DEF Collected
<1> QED
  BY <1>3 DEF HeaderOf, IsChunk

(* Sending a packet keeps the invariant of the channel.                     *)
LEMMA SendChannel ==
  ASSUME CfpInv, ChannelInv, SendersApart, NEW f \in Fragmenter, NEW pk, Sends(f, pk)
  PROVE  ChannelInv'
<1>1. PICK q : q = Len(sent) + 1
  OBVIOUS
<1>2. UNCHANGED <<clock, partials, ended, lost, delivered, reported>>
  BY DEF Sends
<1>3. /\ q \in Nat \ {0}
      /\ \A p \in 1..Len(sent) : p # q /\ sent'[p] = sent[p]
  <2>1. /\ q \in Nat \ {0}
        /\ \A p \in 1..Len(sent) : p < q /\ sent'[p] = sent[p]
    BY <1>1, SendBus
  <2> QED
    BY <2>1
<1>4. /\ \A c : OnBus(c) => OnBus(c)'
      /\ \A c : OnBus(c)' => OnBus(c) \/ c[1] = q
      /\ \A c \in Nat \X Nat : IsChunk(c)' => IsChunk(c) \/ OnBus(c)'
      /\ \A p \in 1..Len(sent) : Total(p)' = Total(p) /\ KeyOf(p)' = KeyOf(p)
  BY <1>1, SendOnBus
<1>5. BeginningInv'
  <2>1. ASSUME NEW m \in Node, NEW k \in Key, partials[m][k] # None
        PROVE  \E last : Begun(partials[m][k], last, m, k)'
    <3>1. PICK part : part = partials[m][k]
      OBVIOUS
    <3>2. PICK last : Begun(part, last, m, k)
      BY <2>1, <3>1 DEF ChannelInv, BeginningInv
    <3>3. last[1] \in 1..Len(sent)
      BY <2>1, <3>1, <3>2, LastChunk DEF IsChunk
    <3>4. /\ last \in Nat \X Nat /\ UpTo(part.chunks, last) /\ ~OnBus(last)'
          /\ last[2] + 1 < Total(last[1])'
      BY <1>3, <1>4, <3>2, <3>3 DEF Begun
    <3>5. ASSUME NEW c \in Nat \X Nat, IsChunk(c)', KeyOf(c[1])' = k, sent'[c[1]].dst = m, Before(last, c)
          PROVE  OnBus(c)' \/ c \in lost'
      <4>1. CASE IsChunk(c)
        <5>1. c[1] \in 1..Len(sent)
          BY <4>1 DEF IsChunk
        <5>2. KeyOf(c[1]) = k /\ sent[c[1]].dst = m
          BY <1>3, <1>4, <3>5, <5>1
        <5>3. OnBus(c) \/ c \in lost
          BY <3>2, <3>5, <4>1, <5>2 DEF Begun, Follows
        <5> QED
          BY <1>2, <1>4, <5>3
      <4> QED
        BY <1>4, <3>5, <4>1
    <3>6. Follows(last, m, k)'
      BY <3>5 DEF Follows, Before
    <3>7. Begun(part, last, m, k)'
      BY <3>4, <3>6 DEF Begun, UpTo
    <3> QED
      BY <1>2, <3>1, <3>7 DEF Begun, UpTo
  <2> QED
    BY <1>2, <2>1 DEF BeginningInv
<1>6. LossInv'
  BY <1>2 DEF ChannelInv, LossInv
<1>7. WholeInv'
  <2>1. ASSUME NEW m \in Node, NEW i \in 1..Len(delivered'[m])
        PROVE  \E chunks : chunks = delivered'[m][i] /\ Finished(chunks)'
    <3>1. PICK chunks, p : chunks = delivered[m][i] /\ p = HeaderOf(chunks)
      OBVIOUS
    <3>2. p \in 1..Len(sent) /\ Finished(chunks)
      BY <1>2, <2>1, <3>1, DeliveredSent DEF ChannelInv, WholeInv
    <3>3. PICK c : c = <<p, Total(p) - 1>>
      OBVIOUS
    <3>4. ~OnBus(c)'
      BY <1>3, <1>4, <3>1, <3>2, <3>3 DEF Finished
    <3>5. c = <<p, Total(p)' - 1>>
      BY <1>4, <3>2, <3>3
    <3>6. Whole(chunks)'
      <4>1. sent'[p] = sent[p]
        BY <1>3, <3>2
      <4> QED
        BY <3>1, <3>2, <4>1 DEF Finished, Whole, HeaderOf
    <3>7. Finished(chunks)'
      BY <3>1, <3>4, <3>5, <3>6 DEF Finished, OnBus, HeaderOf
    <3> QED
      BY <1>2, <3>1, <3>7
  <2> QED
    BY <2>1, DeliveriesFinished
<1> QED
  BY <1>5, <1>6, <1>7, SendOrder, SendCounts DEF ChannelInv

(* A fresh bus satisfies the invariant of the channel.                      *)
LEMMA ChannelInit ==
  ASSUME Init
  PROVE  ChannelInv
<1>1. sent = <<>> /\ Len(sent) = 0 /\ \A n \in Node : Len(bus[n]) = 0 /\ Len(delivered[n]) = 0
  BY DEF Init
<1>2. SourceInv /\ OrderInv /\ WholeInv
  BY <1>1 DEF SourceInv, OrderInv, WholeInv
<1>3. BeginningInv
  BY DEF Init, BeginningInv
<1>4. LossInv
  <2>1. IsFiniteSet({}) /\ Cardinality({}) = 0
    BY FS_EmptySet
  <2> QED
    BY <2>1, CfpAssumption DEF Init, LossInv
<1>5. CounterInv
  <2>1. \A f \in Fragmenter : counter[f] = 0
    BY DEF Init
  <2> QED
    BY <1>1, <2>1, CfpAssumption DEF CounterInv, PacketCounts
<1> QED
  BY <1>2, <1>3, <1>4, <1>5 DEF ChannelInv

(* Every step keeps the invariant of the channel.                           *)
LEMMA ChannelStep ==
  ASSUME CfpInv, ChannelInv, SendersApart, FewLosses, [Next]_vars
  PROVE  ChannelInv'
<1>1. CASE \E f \in Fragmenter : \E pk : Sends(f, pk)
  BY <1>1, SendChannel
<1>2. CASE \E n \in Node : Lose(n)
  BY <1>2, LoseChannel
<1>3. CASE \E n \in Node : /\ bus[n] # <<>>
                           /\ Fed(n, Head(bus[n]))
                           /\ \/ Dropped(Head(bus[n]))
                              \/ Kept(Head(bus[n]))
                              \/ Handed(Head(bus[n]))
  <2>1. PICK n \in Node : /\ bus[n] # <<>>
                          /\ Fed(n, Head(bus[n]))
                          /\ \/ Dropped(Head(bus[n]))
                             \/ Kept(Head(bus[n]))
                             \/ Handed(Head(bus[n]))
    BY <1>3
  <2>2. PICK fr : fr = Head(bus[n])
    OBVIOUS
  <2>3. Fed(n, fr) /\ (Dropped(fr) \/ Kept(fr) \/ Handed(fr))
    BY <2>1, <2>2
  <2> QED
    BY <2>1, <2>2, <2>3, FedChannel
<1>4. CASE RunEnds
  <2>1. UNCHANGED <<counter, bus, sent, lost, delivered>>
    BY <1>4 DEF RunEnds
  <2>2. \A n \in Node, k \in Key : partials'[n][k] \in {partials[n][k], None}
    BY <1>4, EndShape
  <2> QED
    BY <2>1, <2>2, QuietChannel
<1>5. CASE UNCHANGED <<counter, bus, partials, ended, sent, lost, delivered, reported>>
  BY <1>5, QuietChannel
<1> QED
  BY <1>1, <1>2, <1>3, <1>4, <1>5, StepEffects

-----------------------------------------------------------------------------
(* The refinement.                                                          *)

Route == [p \in 1..Len(sent) |-> <<sent[p].src, sent[p].dst>>]
Got == [n \in Node |-> [i \in 1..Len(delivered[n]) |-> HeaderOf(delivered[n][i])]]

(* Every delivery is whole, so what the channel has handed over are the     *)
(* packets of the deliveries.                                               *)
LEMMA GotHeaders ==
  ASSUME ChannelInv
  PROVE  [n \in Node |-> [i \in 1..Len(delivered[n]) |->
            IF Whole(delivered[n][i]) THEN delivered[n][i][1][1] ELSE 0]] = Got
<1>1. \A n \in Node : \A i \in 1..Len(delivered[n]) : Whole(delivered[n][i])
  BY DEF ChannelInv, WholeInv, Finished
<1> QED
  BY <1>1 DEF Got, HeaderOf

(* The same after a step.                                                   *)
LEMMA GotHeadersNext ==
  ASSUME ChannelInv'
  PROVE  [n \in Node |-> [i \in 1..Len(delivered'[n]) |->
            IF Whole(delivered[n][i])' THEN delivered'[n][i][1][1] ELSE 0]] = Got'
<1>1. \A n \in Node : \A i \in 1..Len(delivered'[n]) : Whole(delivered[n][i])'
  BY DEF ChannelInv, WholeInv, Finished
<1> QED
  BY <1>1 DEF Got, HeaderOf

(* A packet that is sent is sent on the channel.                            *)
LEMMA SendRoutes ==
  ASSUME CfpInv, NEW f \in Fragmenter, NEW pk, Sends(f, pk)
  PROVE  \E r \in Node \X Node : Route' = Append(Route, r)
<1>1. PICK q, r : q = Len(sent) + 1 /\ r = <<pk.src, pk.dst>>
  OBVIOUS
<1>2. /\ Len(sent') = q /\ sent'[q] = pk /\ q \in Nat \ {0}
      /\ \A p \in 1..Len(sent) : sent'[p] = sent[p]
      /\ \A p \in 1..Len(sent') : p \in 1..Len(sent) \/ p = q
  BY <1>1, SendBus
<1>3. r \in Node \X Node
  BY <1>1 DEF Sends, Packet
<1>4. Len(sent) = q - 1 /\ Len(sent) \in Nat
  BY <1>1 DEF CfpInv, Typed
<1>5. \A p \in 1..Len(sent) : <<sent[p].src, sent[p].dst>> \in Node \X Node
  BY PacketFacts DEF CfpInv, Packet
<1> DEFINE S == Node \X Node
<1>6. Route \in Seq(S) /\ Len(Route) = q - 1
  <2> HIDE DEF S
  <2>1. \A p \in 1..Len(sent) : <<sent[p].src, sent[p].dst>> \in S
    BY <1>5 DEF S
  <2>2. [p \in 1..Len(sent) |-> <<sent[p].src, sent[p].dst>>] \in [1..Len(sent) -> S]
    BY <2>1
  <2>3. Route \in Seq(S) /\ Len(Route) = Len(sent)
    BY <1>4, <2>2 DEF Route
  <2> QED
    BY <1>4, <2>3
<1>7. Append(Route, r) = [p \in 1..q |-> IF p = q THEN r ELSE Route[p]]
  <2> HIDE DEF S
  <2>1. r \in S
    BY <1>3 DEF S
  <2>2. PICK t : t = Append(Route, r)
    OBVIOUS
  <2>3. t \in Seq(S) /\ Len(t) = q /\ \A p \in 1..q : t[p] = IF p = q THEN r ELSE Route[p]
    <3>1. /\ t \in Seq(S) /\ Len(t) = Len(Route) + 1
          /\ \A p \in 1..Len(Route) : t[p] = Route[p]
          /\ t[Len(Route) + 1] = r
      BY <1>6, <2>1, <2>2, AppendShape
    <3> QED
      BY <1>2, <1>6, <3>1
  <2>4. t = [p \in 1..Len(t) |-> t[p]]
    BY <2>3
  <2> QED
    BY <2>2, <2>3, <2>4
<1>8. Route' = [p \in 1..q |-> IF p = q THEN r ELSE Route[p]]
  <2>1. Route' = [p \in 1..q |-> <<sent'[p].src, sent'[p].dst>>]
    BY <1>2 DEF Route
  <2>2. ASSUME NEW p \in 1..q
        PROVE  <<sent'[p].src, sent'[p].dst>> = IF p = q THEN r ELSE Route[p]
    <3>1. CASE p = q
      BY <1>1, <1>2, <3>1
    <3>2. CASE p # q
      BY <1>2, <2>2, <3>2 DEF Route
    <3> QED
      BY <3>1, <3>2
  <2> QED
    BY <2>1, <2>2
<1> QED
  BY <1>3, <1>7, <1>8

(* A packet that is handed over is delivered by the channel: no later       *)
(* packet of its route has been, for its last frame has just left the bus.  *)
LEMMA HandDelivers ==
  ASSUME CfpInv, ChannelInv, ChannelInv', SendersApart, FewLosses, NEW n \in Node, bus[n] # <<>>,
         NEW fr, fr = Head(bus[n]), Fed(n, fr), Handed(fr)
  PROVE  \E p \in 1..Len(Route) :
           LET d == Route[p][2]
           IN  /\ \A i \in 1..Len(Got[d]) : Route[Got[d][i]] = Route[p] => Got[d][i] < p
               /\ Got' = [Got EXCEPT ![d] = Append(@, p)]
<1>1. PICK h, p, d : h = fr.chunk /\ p = h[1] /\ d = fr.dst
  OBVIOUS
<1>2. /\ h \in Nat \X Nat /\ p \in 1..Len(sent) /\ d \in Node /\ sent[p].dst = d
      /\ Len(sent) \in Nat
  BY <1>1, HeadFacts DEF Sound, CfpInv, Typed
<1>3. PICK full : /\ Grown(fr, full)
                  /\ delivered' = [delivered EXCEPT ![fr.dst] = Append(@, full.chunks)]
  BY DEF Handed
<1>4. PICK new, old : new = full.chunks /\ old = delivered[d]
  OBVIOUS
<1>5. HeaderOf(new) = p /\ h = <<p, Total(p) - 1>>
  <2>1. fr.end
    BY DEF Handed
  <2>2. HeaderOf(full.chunks) = fr.chunk[1] /\ fr.chunk = <<fr.chunk[1], Total(fr.chunk[1]) - 1>>
    BY <1>3, <2>1, HandedWhole
  <2> QED
    BY <1>1, <1>4, <2>2
<1>6. /\ delivered \in [Node -> Seq(Seq(Nat \X Nat))] /\ old \in Seq(Seq(Nat \X Nat))
      /\ new \in Seq(Nat \X Nat)
  BY <1>2, <1>3, <1>4 DEF CfpInv, DeliveryInv, Grown, Partial
<1>7. /\ delivered'[d] = Append(old, new)
      /\ \A m \in Node \ {d} : delivered'[m] = delivered[m]
  BY <1>1, <1>2, <1>3, <1>4, <1>6
<1>8. Route \in [1..Len(sent) -> Node \X Node] /\ DOMAIN Route = 1..Len(sent) /\ Len(Route) = Len(sent)
  <2>1. \A q \in 1..Len(sent) : <<sent[q].src, sent[q].dst>> \in Node \X Node
    BY PacketFacts DEF CfpInv, Packet
  <2>2. Route \in [1..Len(sent) -> Node \X Node]
    BY <2>1 DEF Route
  <2> HIDE DEF Route
  <2> QED
    BY <1>2, <2>2
<1>9. /\ Got[d] = [i \in 1..Len(old) |-> HeaderOf(old[i])]
      /\ Len(Got[d]) = Len(old)
      /\ \A i \in 1..Len(old) : Got[d][i] = HeaderOf(old[i]) /\ HeaderOf(old[i]) \in 1..Len(sent)
  <2>1. \A i \in 1..Len(old) : HeaderOf(old[i]) \in 1..Len(sent)
    BY <1>2, <1>4, DeliveredSent
  <2>2. Got[d] = [i \in 1..Len(old) |-> HeaderOf(old[i])]
    BY <1>2, <1>4 DEF Got
  <2>3. Len(old) \in Nat
    BY <1>6
  <2> QED
    BY <2>1, <2>2, <2>3
<1>10. ASSUME NEW i \in 1..Len(old), Route[HeaderOf(old[i])] = Route[p]
       PROVE  HeaderOf(old[i]) < p
  <2>1. PICK q, c : q = HeaderOf(old[i]) /\ c = <<q, Total(q) - 1>>
    OBVIOUS
  <2>2. q \in 1..Len(sent) /\ Route[q] = Route[p]
    BY <1>9, <1>10, <2>1
  <2>3. sent[q].src = sent[p].src
    BY <1>2, <2>2 DEF Route
  <2>4. ~OnBus(c)
    BY <1>2, <1>4, <2>1 DEF ChannelInv, WholeInv, Finished
  <2>5. Total(q) \in Nat \ {0} /\ q \in Nat /\ p \in Nat
    BY <1>2, <2>2, PacketFacts DEF CfpInv
  <2>6. c \in Nat \X Nat /\ IsChunk(c) /\ c[1] = q
    BY <2>1, <2>2, <2>5 DEF IsChunk
  <2>7. sent[p].src = n
    BY <1>1, HeadFirst DEF ChannelInv
  <2>8. ~(c = h \/ Before(h, c))
    BY <1>1, <2>3, <2>4, <2>6, <2>7, HeadFirst DEF ChannelInv
  <2>9. Before(c, h)
    BY <1>2, <2>6, <2>8, Ordered
  <2>10. q # p
    BY <1>5, <2>1, <2>8
  <2>11. q < p
    BY <1>1, <2>6, <2>9, <2>10 DEF Before
  <2> QED
    BY <2>1, <2>11
<1>11. Got' = [Got EXCEPT ![d] = Append(@, p)]
  <2>1. PICK r : r = Append(old, new)
    OBVIOUS
  <2>2. Len(old) \in Nat /\ Len(r) = Len(old) + 1
        /\ (\A i \in 1..Len(old) : r[i] = old[i]) /\ r[Len(old) + 1] = new
    BY <1>6, <2>1, AppendShape
  <2>3. Got' = [m \in Node |-> [i \in 1..Len(delivered'[m]) |-> HeaderOf(delivered'[m][i])]]
    BY DEF Got, HeaderOf
  <2>4. PICK a : a = Got[d]
    OBVIOUS
  <2>5. a \in Seq(Nat) /\ Len(a) = Len(old) /\ p \in Nat
    BY <1>2, <1>9, <2>2, <2>4
  <2>6. PICK b : b = Append(a, p)
    OBVIOUS
  <2>7. b \in Seq(Nat) /\ Len(b) = Len(r) /\ \A i \in 1..Len(r) : b[i] = HeaderOf(r[i])
    <3>1. /\ b \in Seq(Nat) /\ Len(b) = Len(a) + 1
          /\ (\A i \in 1..Len(a) : b[i] = a[i]) /\ b[Len(a) + 1] = p
      BY <2>5, <2>6, AppendShape
    <3>2. ASSUME NEW i \in 1..Len(r)
          PROVE  b[i] = HeaderOf(r[i])
      <4>1. CASE i \in 1..Len(old)
        BY <1>9, <2>2, <2>4, <2>5, <3>1, <4>1
      <4>2. CASE i = Len(old) + 1
        BY <1>5, <2>2, <2>5, <3>1, <4>2
      <4> QED
        BY <2>2, <4>1, <4>2
    <3> QED
      BY <2>2, <2>5, <3>1, <3>2
  <2>8. b = [i \in 1..Len(r) |-> HeaderOf(r[i])]
    <3>1. b = [i \in 1..Len(b) |-> b[i]]
      BY <2>7
    <3> QED
      BY <2>7, <3>1
  <2>9. ASSUME NEW m \in Node
        PROVE  [i \in 1..Len(delivered'[m]) |-> HeaderOf(delivered'[m][i])]
                 = IF m = d THEN b ELSE Got[m]
    <3>1. CASE m = d
      BY <1>7, <2>1, <2>8, <3>1
    <3>2. CASE m # d
      BY <1>7, <3>2 DEF Got
    <3> QED
      BY <3>1, <3>2
  <2>10. Got' = [m \in Node |-> IF m = d THEN b ELSE Got[m]]
    BY <2>3, <2>9
  <2>11. [Got EXCEPT ![d] = Append(@, p)] = [m \in Node |-> IF m = d THEN b ELSE Got[m]]
    BY <2>4, <2>6 DEF Got
  <2> QED
    BY <2>10, <2>11
<1>12. Route[p][2] = d
  BY <1>2 DEF Route
<1>13. ASSUME NEW i \in 1..Len(Got[d]), Route[Got[d][i]] = Route[p]
       PROVE  Got[d][i] < p
  BY <1>9, <1>10, <1>13
<1>14. p \in 1..Len(Route)
  BY <1>2, <1>8
<1> QED
  BY <1>11, <1>12, <1>13, <1>14

(* Everything else leaves the channel as it is.                             *)
LEMMA ChannelStutters ==
  ASSUME UNCHANGED <<sent, delivered>>
  PROVE  Route' = Route /\ Got' = Got
BY DEF Route, Got, HeaderOf

(* The bus implements the channel of PacketChannel, for any interleaving of *)
(* nodes and receivers, timeouts and refused packets: each packet is handed *)
(* over whole, at most once, and in the order of its sender.  The premises  *)
(* are the two things the four bits of the frame and packet counters        *)
(* cannot tell apart by themselves.                                         *)
THEOREM ChannelImplemented ==
  ASSUME SendersApart, FewLosses
  PROVE  Spec => ImplementsChannel
<1>1. Init => ChannelInv
  BY ChannelInit
<1>2. CfpInv /\ ChannelInv /\ [Next]_vars => ChannelInv'
  BY ChannelStep
<1>3. Init => Channel!Init
  <2> SUFFICES ASSUME Init PROVE Channel!Init
    OBVIOUS
  <2>1. sent = <<>> /\ Len(sent) = 0 /\ \A n \in Node : delivered[n] = <<>> /\ Len(delivered[n]) = 0
    BY DEF Init
  <2>2. [p \in 1..Len(sent) |-> <<sent[p].src, sent[p].dst>>] = <<>>
    BY <2>1
  <2>3. [n \in Node |-> [i \in 1..Len(delivered[n]) |->
           IF Whole(delivered[n][i]) THEN delivered[n][i][1][1] ELSE 0]] = [n \in Node |-> <<>>]
    BY <2>1
  <2> QED
    BY <2>2, <2>3 DEF Channel!Init
<1>4. CfpInv /\ CfpInv' /\ ChannelInv /\ ChannelInv' /\ [Next]_vars => [Channel!Next]_(Channel!vars)
  <2> SUFFICES ASSUME CfpInv, CfpInv', ChannelInv, ChannelInv', [Next]_vars
               PROVE  [Channel!Next]_(Channel!vars)
    OBVIOUS
  <2> DEFINE route == [p \in 1..Len(sent) |-> <<sent[p].src, sent[p].dst>>]
             got == [n \in Node |-> [i \in 1..Len(delivered[n]) |->
                      IF Whole(delivered[n][i]) THEN delivered[n][i][1][1] ELSE 0]]
  <2>1. route = Route /\ route' = Route'
    BY DEF Route
  <2>2. got = Got
    BY GotHeaders
  <2>3. got' = Got'
    BY GotHeadersNext
  <2>4. CASE UNCHANGED <<sent, delivered>>
    <3>1. route' = route /\ got' = got
      BY <2>1, <2>2, <2>3, <2>4, ChannelStutters
    <3> QED
      BY <3>1 DEF Channel!vars
  <2>5. CASE \E f \in Fragmenter : \E pk : Sends(f, pk)
    <3>1. \E r \in Node \X Node : Route' = Append(Route, r)
      BY <2>5, SendRoutes
    <3>2. Got' = Got
      BY <2>5 DEF Sends, Got, HeaderOf
    <3>3. (\E r \in Node \X Node : route' = Append(route, r)) /\ got' = got
      BY <2>1, <2>2, <2>3, <3>1, <3>2
    <3>4. Channel!Send
      BY <3>3 DEF Channel!Send
    <3> QED
      BY <3>4 DEF Channel!Next
  <2>6. CASE \E n \in Node : bus[n] # <<>> /\ Fed(n, Head(bus[n])) /\ Handed(Head(bus[n]))
    <3>1. PICK n \in Node : bus[n] # <<>> /\ Fed(n, Head(bus[n])) /\ Handed(Head(bus[n]))
      BY <2>6
    <3>2. PICK fr : fr = Head(bus[n])
      OBVIOUS
    <3>3. Fed(n, fr) /\ Handed(fr)
      BY <3>1, <3>2
    <3>4. PICK p \in 1..Len(Route) :
             LET d == Route[p][2]
             IN  /\ \A i \in 1..Len(Got[d]) : Route[Got[d][i]] = Route[p] => Got[d][i] < p
                 /\ Got' = [Got EXCEPT ![d] = Append(@, p)]
      BY <3>1, <3>2, <3>3, HandDelivers
    <3>5. Route' = Route
      BY <3>3 DEF Fed, Arrives, Route
    <3>6. Channel!Deliver
      <4>1. /\ p \in 1..Len(route)
            /\ \A i \in 1..Len(got[route[p][2]]) :
                 route[got[route[p][2]][i]] = route[p] => got[route[p][2]][i] < p
            /\ got' = [got EXCEPT ![route[p][2]] = Append(@, p)]
            /\ route' = route
        <5> HIDE DEF route, got
        <5> QED
          BY <2>1, <2>2, <2>3, <3>4, <3>5
      <4> QED
        BY <4>1 DEF Channel!Deliver
    <3> QED
      BY <3>6 DEF Channel!Next
  <2>7. CASE \E n \in Node : /\ Fed(n, Head(bus[n]))
                             /\ Dropped(Head(bus[n])) \/ Kept(Head(bus[n]))
    <3>1. UNCHANGED <<sent, delivered>>
      BY <2>7 DEF Fed, Arrives, Dropped, Kept
    <3> QED
      BY <2>4, <3>1
  <2>8. CASE (\E n \in Node : Lose(n)) \/ RunEnds
    <3>1. UNCHANGED <<sent, delivered>>
      BY <2>8 DEF Lose, RunEnds
    <3> QED
      BY <2>4, <3>1
  <2> QED
    BY <2>4, <2>5, <2>6, <2>7, <2>8, StepEffects
<1> QED
  BY <1>1, <1>2, <1>3, <1>4, CfpInvariant, PTL DEF Spec, ImplementsChannel, Channel!Spec

=============================================================================
