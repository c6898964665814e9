-------------------------- MODULE TransportAdapter --------------------------
(***************************************************************************)
(* What the three transports do with frames: where a frame that is sent    *)
(* can be received, by whom, and under which sequence number.              *)
(*   transport/in_memory.py  InMemoryBusAdapter                            *)
(*   transport/socketcan.py  SocketCanAdapter                              *)
(*   transport/kiss.py       KissAdapter                                   *)
(*   transport/base.py       new_sender, drain                             *)
(*                                                                         *)
(* A frame is [packet, last]: the number of the packet it carries, and     *)
(* whether it completes it.  An envelope adds the adapter's sequence       *)
(* number.  Framing and blocking reads of the serial line are KissLink and *)
(* PacedWait, loss on the bus is CspCfp.                                   *)
(***************************************************************************)
EXTENDS Naturals, Sequences

CONSTANTS
  FirstChunk,   (* payload bytes in the first frame of a packet             *)
  NextChunk     (* payload bytes in each further frame                      *)

ASSUME TransportAssumption == FirstChunk \in Nat /\ NextChunk \in Nat \ {0}

VARIABLES
  monitor,     (* _monitor_queue, _monitor: envelopes the runner may receive *)
  line,        (* frames in the CAN socket or on the serial line, unread    *)
  queues,      (* _endpoint_queues, by connected address                    *)
  away,        (* frames that left on the CAN bus or the serial line        *)
  sequence     (* _next_sequence                                            *)

transportVars == <<monitor, line, queues, away, sequence>>

(* build_transport_adapter: endpoints of the in-memory bus are all nodes,   *)
(* those of the serial link the simulated nodes, SocketCAN has none.        *)
Connected(endpoints) ==
  /\ monitor' = <<>>
  /\ line' = <<>>
  /\ queues' = [a \in endpoints |-> <<>>]
  /\ away' = <<>>
  /\ sequence' = 0

TransportInit ==
  /\ monitor = <<>>
  /\ line = <<>>
  /\ queues = <<>>
  /\ away = <<>>
  /\ sequence = 0

-----------------------------------------------------------------------------
(* The elements of s whose positions are in I, in order.                    *)
Selected(s, I) ==
  LET upTo[i \in 0..Len(s)] ==
        IF i = 0 THEN <<>>
        ELSE IF i \in I THEN Append(upTo[i - 1], s[i]) ELSE upTo[i - 1]
  IN  upTo[Len(s)]

(* PacketSender.frames: one frame per packet on a serial link, CFP2 frames  *)
(* on CAN (FrameTotal of CspCfp).                                           *)
FrameTotal(kind, bytes) ==
  IF kind = "kiss" \/ bytes <= FirstChunk THEN 1
  ELSE 1 + ((bytes - FirstChunk + NextChunk - 1) \div NextChunk)

Frames(kind, number, bytes) ==
  [i \in 1..FrameTotal(kind, bytes) |->
     [packet |-> number, last |-> i = FrameTotal(kind, bytes)]]

Numbered(frames, from) ==
  [i \in 1..Len(frames) |->
     [packet |-> frames[i].packet, last |-> frames[i].last, seq |-> from + i - 1]]

(* Mutant: the sender hears itself.                                         *)
InMemorySend_Echo(frames, source) ==
  LET envelopes == Numbered(frames, sequence)
  IN  /\ monitor' = monitor \o envelopes
      /\ queues' = [a \in DOMAIN queues |-> queues[a] \o envelopes]
      /\ sequence' = sequence + Len(frames)
      /\ UNCHANGED <<line, away>>

(* send of every frame of a packet, back to back.                           *)
InMemorySend(frames, source) ==
  LET envelopes == Numbered(frames, sequence)
  IN  /\ monitor' = monitor \o envelopes
      /\ queues' = [a \in DOMAIN queues |-> IF a = source THEN queues[a] ELSE queues[a] \o envelopes]
      /\ sequence' = sequence + Len(frames)
      /\ UNCHANGED <<line, away>>

(* The frames go out; the kernel gives them back only when asked to.        *)
SocketCanSend(frames, own) ==
  /\ away' = away \o frames
  /\ line' = IF own THEN line \o frames ELSE line
  /\ sequence' = sequence + Len(frames)
  /\ UNCHANGED <<monitor, queues>>

(* A packet for a simulated node stays here, any other goes out.            *)
KissSend(frames, source, destination) ==
  LET envelopes == Numbered(frames, sequence)
  IN  /\ sequence' = sequence + Len(frames)
      /\ UNCHANGED line
      /\ \/ /\ destination \in DOMAIN queues
            /\ monitor' = monitor \o envelopes
            /\ queues' = IF destination = source THEN queues
                         ELSE [queues EXCEPT ![destination] = @ \o envelopes]
            /\ UNCHANGED away
         \/ /\ destination \notin DOMAIN queues
            /\ away' = away \o frames
            /\ UNCHANGED <<monitor, queues>>

TransportSend(kind, frames, source, destination) ==
  \/ kind = "in-memory" /\ InMemorySend(frames, source)
  \/ kind = "socketcan" /\ SocketCanSend(frames, FALSE)
  \/ kind = "own" /\ SocketCanSend(frames, TRUE)
  \/ kind = "kiss" /\ KissSend(frames, source, destination)

(* The envelope that send returns for the last frame has this number.       *)
LastSequence(frames) == sequence + Len(frames) - 1

(* A peer puts a packet on the bus or the line.  On the in-memory bus it    *)
(* calls send itself, elsewhere the frames wait to be read.                 *)
PeerSend(kind, frames, source) ==
  \/ kind = "in-memory" /\ InMemorySend(frames, source)
  \/ /\ kind # "in-memory"
     /\ line' = line \o frames
     /\ UNCHANGED <<monitor, queues, away, sequence>>

(* Mutants: drain stops after one envelope; it looks at the monitor queue   *)
(* only; it takes the newest envelope first (pop for popleft).              *)
Received_One == LET all == monitor \o Numbered(line, sequence)
                IN  IF all = <<>> THEN all ELSE <<Head(all)>>
Received_Monitor == monitor
Received_Newest == LET all == monitor \o Numbered(line, sequence)
                   IN  [i \in 1..Len(all) |-> all[Len(all) + 1 - i]]

(* drain: receive until nothing is left.  What was waiting outside gets its *)
(* sequence number as it is read, and on a serial link a copy goes to the   *)
(* endpoint it is addressed to.                                             *)
Received == monitor \o Numbered(line, sequence)

DrainAll(kind, destination) ==
  LET read == Numbered(line, sequence)
  IN  /\ monitor' = <<>>
      /\ line' = <<>>
      /\ sequence' = sequence + Len(line)
      /\ queues' = IF kind # "kiss" THEN queues
                   ELSE [a \in DOMAIN queues |->
                           queues[a] \o Selected(read, {i \in 1..Len(read) :
                                                        destination[read[i].packet] = a})]
      /\ UNCHANGED away

-----------------------------------------------------------------------------
(* The endpoint queues, for whoever drives a node by hand.                  *)
ReceiveAt(a) ==
  /\ a \in DOMAIN queues
  /\ queues[a] # <<>>
  /\ queues' = [queues EXCEPT ![a] = Tail(@)]
  /\ UNCHANGED <<monitor, line, away, sequence>>

ClearAt(a) ==
  /\ a \in DOMAIN queues
  /\ queues[a] # <<>>
  /\ queues' = [queues EXCEPT ![a] = <<>>]
  /\ UNCHANGED <<monitor, line, away, sequence>>

DisconnectAt(a) ==
  /\ a \in DOMAIN queues
  /\ queues' = [x \in DOMAIN queues \ {a} |-> queues[x]]
  /\ UNCHANGED <<monitor, line, away, sequence>>

(* Frames sent while it was away are not replayed.                          *)
ConnectAt(a) ==
  /\ a \notin DOMAIN queues
  /\ queues' = [x \in DOMAIN queues \cup {a} |-> IF x = a THEN <<>> ELSE queues[x]]
  /\ UNCHANGED <<monitor, line, away, sequence>>
=============================================================================
