-------------------------- MODULE MCWeightedScore --------------------------
EXTENDS WeightedScore

(* One backend of twice the weight of the others. *)
MCWeight == [b \in Backends |-> IF b = 0 THEN 2 ELSE 1]

(* - 100 ln(h / 9) for h = 1 .. 8. *)
MCNegLn == <<220, 150, 110, 81, 59, 41, 25, 12>>
=============================================================================
