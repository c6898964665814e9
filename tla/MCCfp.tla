------------------------------- MODULE MCCfp --------------------------------
(* Model-checking instances of CspCfp.                                      *)
EXTENDS CspCfp

(* Three nodes; node 3 has a small packet buffer.                           *)
MCLimit == [n \in Node |-> IF n = 3 THEN 4 ELSE 256]

(* One packet sender per node ...                                           *)
OneSender == {<<1, "runner">>, <<2, "runner">>}
(* ... and a node whose scenario commands and OBC rules send separately.    *)
TwoSenders == {<<1, "runner">>, <<1, "obc_peer">>}
=============================================================================
