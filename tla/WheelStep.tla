----------------------------- MODULE WheelStep -----------------------------
(***************************************************************************)
(* The step of the wheel of weighted round robin, as new() computes it     *)
(* (src/balancer/wrr.rs): gcd_f64 folded over the weights of the backends. *)
(* Weights are f64 in the code; here they, One (1.0) and the epsilon of    *)
(* gcd_f64 count quanta, of which each is a multiple.                      *)
(***************************************************************************)
EXTENDS Naturals, Sequences

CONSTANTS
  One,        \* gcd_weight when the gcd of the weights is 0
  Vectors,    \* lists of weights
  Epsilons    \* what gcd_f64 may take for zero below

ASSUME StepAssumption ==
  /\ One \in Nat \ {0}
  /\ \A weights \in Vectors : weights \in Seq(Nat \ {0}) /\ weights # <<>>
  /\ Epsilons \subseteq Nat \ {0}

(* gcd[p] is the gcd of the pair p, remainders below epsilon taken for 0.  *)
GcdF64(a, b, epsilon) ==
  LET gcd[p \in Nat \X Nat] ==
        IF p[2] < epsilon THEN p[1] ELSE gcd[<<p[2], p[1] % p[2]>>]
  IN  gcd[<<a, b>>]

(* Mutant: the fold forgets all weights but the last. *)
StepOfLast(weights, epsilon) == GcdF64(0, weights[Len(weights)], epsilon)

(* fold[n] is the fold of the first n weights. *)
StepOf(weights, epsilon) ==
  LET fold[n \in 0 .. Len(weights)] ==
        IF n = 0 THEN 0 ELSE GcdF64(fold[n - 1], weights[n], epsilon)
  IN  IF fold[Len(weights)] > 0 THEN fold[Len(weights)] ELSE One

-----------------------------------------------------------------------------
(* Every backend that weighs at least the epsilon is reached by the wheel: *)
(* its step is not larger than their weights, so that the weight in the    *)
(* mutex passes each of them on its way down.                              *)
Unreached == {x \in Vectors \X Epsilons :
  /\ \A i \in 1 .. Len(x[1]) : x[1][i] >= x[2]
  /\ \E i \in 1 .. Len(x[1]) : StepOf(x[1], x[2]) > x[1][i]}

DividesAll(d, weights) == \A i \in 1 .. Len(weights) : weights[i] % d = 0

(* With an epsilon that cuts no remainder but zero the step is the         *)
(* greatest common divisor of the weights.                                 *)
NotTheGcd == {weights \in Vectors :
  ~ /\ DividesAll(StepOf(weights, 1), weights)
    /\ \A d \in (StepOf(weights, 1) + 1) .. weights[1] : ~DividesAll(d, weights)}
=============================================================================
