------------------------------ MODULE FlowKeys ------------------------------
(***************************************************************************)
(* Balancer::forward (src/balancer/core.rs): rendezvous hashing called     *)
(* with the keys that build_hash_key makes of packets.                     *)
(***************************************************************************)
EXTENDS RendezvousHashing, HashKey

(* README "Hash Keys": packets of one listener have the same key if and    *)
(* only if they agree in the selected fields, although keys have no        *)
(* separators and the IPFIX fields are missing from some. So no call of    *)
(* next() is made with a key that stands for two flows, or for half a one. *)
(* The destination address at a wildcard listener is excepted (Unseen).    *)
KeyIdentifiesFlow == (\E w \in Workers : phase[w] = "calling") => Ambiguous = {}
=============================================================================
