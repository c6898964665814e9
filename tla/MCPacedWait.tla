----------------------------- MODULE MCPacedWait ----------------------------
(* A model-checking instance of PacedWait.                                   *)
EXTENDS PacedWait

(* Packet buffers of both ends hold two bytes: a peer sends the second packet*)
(* and the link, one byte stricter, drops it.                                *)
MCShape == {[kind |-> <<"plain", "fend">>, covers |-> "payload"],
            [kind |-> <<"plain", "fesc", "plain">>, covers |-> "packet"]}

(* The premise of the theorems about damage.                                 *)
ASSUME PeerAssumption == NoFragments
=============================================================================
