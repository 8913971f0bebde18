--------------------------- MODULE WeightedScore ---------------------------
(***************************************************************************)
(* The score of rendezvous hashing, src/balancer/rh.rs:18-32: the hash of  *)
(* key and address is normalised to u in (0, 1] and the score is           *)
(* (-ln u) ^ (1 / weight). RendezvousHashing takes scores as given; here   *)
(* they are computed, so that it can be asked how the keys are shared.     *)
(*                                                                         *)
(* A hash is one of Levels values, u = h / (Levels + 1), and a key is the  *)
(* vector of its hashes, one per backend: FNV is taken to spread the keys  *)
(* evenly over the vectors of distinct hashes (64-bit hashes do not tie).  *)
(***************************************************************************)
EXTENDS RendezvousHashing, FiniteSetsExt

CONSTANTS
  Weight,     \* Weight[b], a natural number here
  Levels,     \* bound: the number of hash values
  NegLn,      \* NegLn[h]: - ln u in units of 1 / Unit, rounded, decreasing
  Unit

(* hash_with_backend, for every backend. *)
HashVectors ==
  {k \in [Backends -> 1 .. Levels] :
     \A b, c \in Backends : b # c => k[b] # k[c]}

(* A common exponent that makes every power below whole. *)
Exponent == FoldSet(LAMBDA w, x : w * x, 1, {Weight[b] : b \in Backends})

(* weighted_hash raised to Exponent and scaled: the order is the same.     *)
WeightedHash(h, w) ==
  LET e == Exponent \div w IN NegLn[h] ^ e * Unit ^ (Exponent - e)

Scores == [k \in HashVectors |->
            [b \in Backends |-> WeightedHash(k[b], Weight[b])]]

(* The keys a call answers with b for, with the flags as they are now:     *)
(* SteadyCallFindsOwner in RendezvousHashing_proofs.                       *)
Owned(b) == {k \in Keys : IsOwner(k, AliveSet, b)}

(* README.md:204 "weighted distribution": of two backends that are up, the *)
(* heavier one gets at least as many keys.                                 *)
HeavierGetsMore ==
  \A b, c \in AliveSet :
    Weight[b] > Weight[c] => Cardinality(Owned(b)) >= Cardinality(Owned(c))
=============================================================================
