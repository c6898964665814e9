------------------------------ MODULE KissLink ------------------------------
(***************************************************************************)
(* CSP packets over a serial line (protocol/csp_v2_kiss.py and             *)
(* transport/kiss.py): the KISS frames a peer writes, a line that loses    *)
(* and garbles bytes, the byte-by-byte decoder, and the queue of decoded   *)
(* packets.                                                                *)
(*                                                                         *)
(* A byte is its kind and, unless the line garbled it, where it comes      *)
(* from: position "at" of packet number "of" (0 for delimiter and TNC      *)
(* byte).  CRC-32 is taken to recognise every packet that is not as it was *)
(* sent, in the bytes it covers.                                           *)
(***************************************************************************)
EXTENDS Naturals, Sequences, SequencesExt

CONSTANTS
  HeaderBytes,     (* CSP_V2_HEADER_BYTES                                   *)
  CrcBytes,        (* KISS_CRC32_BYTES                                      *)
  MaxPacketBytes,  (* receive buffer of this end                            *)
  SenderBytes,     (* packet buffer of the peer                             *)
  Shape,           (* packets the peer may send                             *)
  Garbled,         (* kinds a byte may be garbled to                        *)
  MaxPackets,      (* bound: packets sent                                   *)
  MaxDamage        (* bound: bytes lost or garbled                          *)

(* 0xC0, 0xDB, 0xDC, 0xDD; "flag" is a byte that sets CSP_FLAG_FRAGMENT when  *)
(* it is read as a header; "plain" is any other byte.                        *)
Kind == {"fend", "fesc", "tfend", "tfesc", "flag", "plain"}

(* covers: what the sender computed the CRC32 over.                          *)
PacketShape == [kind : Seq(Kind), covers : {"payload", "packet"}]

ASSUME KissAssumption ==
  /\ HeaderBytes \in Nat \ {0} /\ CrcBytes \in Nat \ {0}
  /\ MaxPacketBytes \in Nat \ {0} /\ SenderBytes \in Nat
  /\ \A s \in Shape : s \in PacketShape /\ Len(s.kind) >= HeaderBytes + CrcBytes
  /\ Garbled \subseteq Kind
  /\ MaxPackets \in Nat /\ MaxDamage \in Nat

VARIABLES
  sent,      (* shapes of the packets the peer has sent                     *)
  wire,      (* bytes on the line that have not been read                   *)
  damaged,   (* history: the packet of each byte lost or garbled        *)
  decoder,   (* KissDecoder                                                 *)
  monitor,   (* packets decoded and not yet received by the runner          *)
  taken,     (* history: packets received by the runner                     *)
  drops      (* history: what take_drops has returned or will return        *)

linkVars == <<sent, wire, damaged, decoder, monitor, taken, drops>>

-----------------------------------------------------------------------------
(* Frames on the line.                                                       *)

Byte(kind, n, i) == [kind |-> kind, of |-> n, at |-> i]
Noise(kind) == Byte(kind, 0, 0)

(* The bytes of packet n: header, payload, CRC32.                            *)
PacketBytes(n, shape) == [i \in DOMAIN shape.kind |-> Byte(shape.kind[i], n, i)]

Escaped(b) ==
  CASE b.kind = "fend" -> <<[b EXCEPT !.kind = "fesc"], [b EXCEPT !.kind = "tfend"]>>
    [] b.kind = "fesc" -> <<b, [b EXCEPT !.kind = "tfesc"]>>
    [] OTHER -> <<b>>

EncodeKissFrame(n, shape) ==
  LET packet == PacketBytes(n, shape)
      fend == Byte("fend", n, 0)
      tnc == Byte("plain", n, 0)
  IN  <<fend, tnc>> \o FlattenSeq([i \in DOMAIN packet |-> Escaped(packet[i])]) \o <<fend>>

-----------------------------------------------------------------------------
(* The decoder.  feed handles a byte in a mode; "packets" and "drops" collect*)
(* the events one call of feed returns, good packets by number.              *)

Limit == MaxPacketBytes + HeaderBytes

Header(packet) == SubSeq(packet, 1, HeaderBytes)
Body(packet) == SubSeq(packet, HeaderBytes + 1, Len(packet) - CrcBytes)
Trailer(packet) == SubSeq(packet, Len(packet) - CrcBytes + 1, Len(packet))

(* The CRC32 in packet was computed by the sender of packet n and is right.  *)
CrcOf(n, packet) ==
  LET original == PacketBytes(n, sent[n])
  IN  /\ Trailer(packet) = Trailer(original)
      /\ Body(packet) = Body(original)
      /\ sent[n].covers = "packet" => Header(packet) = Header(original)

Event(reason, n) == [reason |-> reason, of |-> n]

Complete(packet) ==
  LET n == Last(packet).of
  IN  IF Len(packet) < HeaderBytes + CrcBytes THEN Event("too_short", n)
      ELSE IF n = 0 \/ ~CrcOf(n, packet) THEN Event("crc_error", n)
      ELSE IF \E i \in 1..HeaderBytes : packet[i].kind = "flag" THEN Event("malformed", n)
      ELSE Event("packet", n)

(* Mutant: the buffer is not cleared between frames.                        *)
Reset_Nothing(d) == d

(* Mutant: the rest of a dropped frame is read as one.                       *)
Reset_KeepsMode(d) == [d EXCEPT !.mode = "started", !.buffer = <<>>]

(* _reset                                                                    *)
Reset(d) == [d EXCEPT !.mode = "not_started", !.buffer = <<>>]

(* Mutant: one byte more is let in.                                          *)
Overflow_OneMore(d) ==
  IF d.mode # "not_started" /\ Len(d.buffer) > Limit
    THEN [Reset(d) EXCEPT !.drops = Append(@, Event("overflow", Last(d.buffer).of))]
    ELSE d

(* The buffer is full when a byte arrives: the frame is dropped, and the     *)
(* byte is handled as one between frames.                                    *)
Overflow(d) ==
  IF d.mode # "not_started" /\ Len(d.buffer) >= Limit
    THEN [Reset(d) EXCEPT !.drops = Append(@, Event("overflow", Last(d.buffer).of))]
    ELSE d

StartFrame(d, b) ==
  IF b.kind = "fend"
    THEN [d EXCEPT !.mode = "started", !.first = TRUE, !.buffer = <<>>]
    ELSE d

Returned(d, event) ==
  IF event.reason = "packet" THEN [d EXCEPT !.packets = Append(@, event.of)]
                             ELSE [d EXCEPT !.drops = Append(@, event)]

InFrame(d, b) ==
  CASE b.kind = "fesc" -> [d EXCEPT !.mode = "escaped"]
    [] b.kind = "fend" /\ d.buffer # <<>> ->
         Returned(Reset(d), Complete(d.buffer))
    [] b.kind = "fend" /\ d.buffer = <<>> -> d
    [] b.kind \notin {"fesc", "fend"} /\ d.first -> [d EXCEPT !.first = FALSE]
    [] OTHER -> [d EXCEPT !.buffer = Append(@, b)]

(* An unknown escape sequence vanishes, a delimiter included.                *)
InEscape(d, b) ==
  LET meant == CASE b.kind = "tfesc" -> <<[b EXCEPT !.kind = "fesc"]>>
                 [] b.kind = "tfend" -> <<[b EXCEPT !.kind = "fend"]>>
                 [] OTHER -> <<>>
  IN  [d EXCEPT !.mode = "started", !.buffer = @ \o meant]

FeedByte(d0, b) ==
  LET d == Overflow(d0)
  IN  CASE d.mode = "not_started" -> StartFrame(d, b)
        [] d.mode = "started" -> InFrame(d, b)
        [] d.mode = "escaped" -> InEscape(d, b)

Feed(d, bytes) ==
  LET fed[i \in 0..Len(bytes)] ==
        IF i = 0 THEN [d EXCEPT !.packets = <<>>, !.drops = <<>>]
                 ELSE FeedByte(fed[i - 1], bytes[i])
  IN  fed[Len(bytes)]

-----------------------------------------------------------------------------
(* The line and both ends, before anything is sent.                          *)
LinkInit ==
  /\ sent = <<>> /\ wire = <<>> /\ damaged = <<>>
  /\ decoder = [mode |-> "not_started", first |-> FALSE, buffer |-> <<>>,
                packets |-> <<>>, drops |-> <<>>]
  /\ monitor = <<>> /\ taken = <<>> /\ drops = <<>>

(* KissAdapter.send at the other end: a packet over its buffer is refused.   *)
PeerSend(shape) ==
  /\ Len(sent) < MaxPackets
  /\ Len(shape.kind) - HeaderBytes <= SenderBytes
  /\ sent' = Append(sent, shape)
  /\ wire' = wire \o EncodeKissFrame(Len(sent'), shape)
  /\ UNCHANGED <<damaged, decoder, monitor, taken, drops>>

(* The line loses or garbles a byte on its way.                              *)
Damage(i) ==
  /\ Len(damaged) < MaxDamage
  /\ damaged' = Append(damaged, wire[i].of)
  /\ \/ wire' = RemoveAt(wire, i)
     \/ \E kind \in Garbled \ {wire[i].kind} : wire' = ReplaceAt(wire, i, Noise(kind))
  /\ UNCHANGED <<sent, decoder, monitor, taken, drops>>

(* _pump: one read returns the next k bytes, the decoder is fed with them,   *)
(* packets are queued and drops kept for take_drops.                         *)
Pumped(k) == Feed(decoder, SubSeq(wire, 1, k))
Queued(k) == monitor \o Pumped(k).packets

Pump(k) ==
  /\ wire' = SubSeq(wire, k + 1, Len(wire))
  /\ decoder' = [Pumped(k) EXCEPT !.packets = <<>>, !.drops = <<>>]
  /\ drops' = drops \o Pumped(k).drops
  /\ UNCHANGED <<sent, damaged>>

(* receive after a pump: the first packet in the queue, if there is one.     *)
TakePacket(k) ==
  /\ Queued(k) # <<>>
  /\ Pump(k)
  /\ monitor' = Tail(Queued(k))
  /\ taken' = Append(taken, Head(Queued(k)))

FindNothing(k) ==
  /\ Queued(k) = <<>>
  /\ Pump(k)
  /\ monitor' = Queued(k)
  /\ UNCHANGED taken
=============================================================================
