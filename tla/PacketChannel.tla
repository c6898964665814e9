--------------------------- MODULE PacketChannel ----------------------------
(***************************************************************************)
(* What CFP2 fragmentation promises its users: a channel that may lose     *)
(* packets but delivers each one whole, at most once and, per source and   *)
(* destination, in the order it was sent.  CspCfp implements it.           *)
(***************************************************************************)
EXTENDS Naturals, Sequences

CONSTANTS Node

VARIABLES
  route,   (* route[p] = <<source, destination>> of the p-th packet sent    *)
  got      (* got[d] = numbers of the packets delivered at d, in order      *)

vars == <<route, got>>

Init ==
  /\ route = <<>>
  /\ got = [d \in Node |-> <<>>]

Send ==
  /\ \E r \in Node \X Node : route' = Append(route, r)
  /\ UNCHANGED got

(* A packet may be delivered once no later packet of its route has been.    *)
Deliver ==
  /\ \E p \in 1..Len(route) :
       LET d == route[p][2]
       IN  /\ \A i \in 1..Len(got[d]) : route[got[d][i]] = route[p] => got[d][i] < p
           /\ got' = [got EXCEPT ![d] = Append(@, p)]
  /\ UNCHANGED route

Next == Send \/ Deliver
Spec == Init /\ [][Next]_vars
=============================================================================
