----------------------- MODULE MCWeightedRoundRobin -----------------------
EXTENDS WeightedRoundRobin

(* Distinct weights with a gcd that is not the unit. *)
WeightsEven == [b \in Backends |-> IF b = 0 THEN 4 ELSE 2]

(* One heavy backend and two light ones. *)
WeightsHeavy == [b \in Backends |-> IF b = 0 THEN 2 ELSE 1]

(* Lists of weights for the construction by itself. *)
MCVectors == UNION {[1 .. n -> 1 .. 9] : n \in 1 .. 3}
=============================================================================
