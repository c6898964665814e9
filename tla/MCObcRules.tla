----------------------------- MODULE MCObcRules -----------------------------
(* Model-checking instance of ObcRules: two rules on one signal, with       *)
(* overlapping conditions, and one on another signal.                       *)
EXTENDS ObcRules

MCRules == <<"low", "band", "hot">>
MCSignalOf == [r \in Rule |-> IF r = "hot" THEN "temp" ELSE "battery"]
MCOp == [r \in Rule |-> CASE r = "low" -> "<" [] r = "band" -> "<=" [] r = "hot" -> ">="]
MCThreshold == [r \in Rule |-> 1]
MCFor == [r \in Rule |-> CASE r = "low" -> 0 [] r = "band" -> 2 [] r = "hot" -> 1]
MCCooldown == [r \in Rule |-> CASE r = "low" -> 2 [] r = "band" -> 1 [] r = "hot" -> 0]
=============================================================================
