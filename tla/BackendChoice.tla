--------------------------- MODULE BackendChoice ---------------------------
(***************************************************************************)
(* What a balancing algorithm promises the code that forwards a packet     *)
(* (Balancer::forward, src/balancer/core.rs:122): next(key) answers with a *)
(* backend that was up at some moment of the call, and answers None only   *)
(* when no backend it could have chosen was up for the whole call. Flags   *)
(* change while next() runs, so nothing stronger can be promised of a      *)
(* single instant.                                                         *)
(***************************************************************************)
EXTENDS Algorithm

CONSTANT Eligible   \* Eligible[k]: the backends the algorithm undertakes to
                    \* find for key k when they stay up

Answer(w) ==
  /\ phase[w] = "calling"
  /\ \/ \E b \in seen[w] : Return(w, b)
     \/ /\ kept[w] \cap Eligible[key[w]] = {}
        /\ Return(w, None)

Next ==
  \/ \E b \in Backends, up \in BOOLEAN : StoreAlive(b, up)
  \/ \E w \in Workers, k \in Keys : Begin(w, k)
  \/ \E w \in Workers : Answer(w)

Spec == AlgInit /\ [][Next]_interface
=============================================================================
