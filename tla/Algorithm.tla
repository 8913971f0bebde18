----------------------------- MODULE Algorithm -----------------------------
(***************************************************************************)
(* The interface between the callers of a balancing algorithm, its         *)
(* backends and the health checker: `trait Algorithm` of                   *)
(* src/balancer/algorithm.rs, the alive flags of src/balancer/backend.rs   *)
(* and the store by which src/server/checker.rs publishes a check.         *)
(*                                                                         *)
(* The listener's workers call next(key) concurrently. An alive flag is an *)
(* AtomicBool read and stored with Ordering::Relaxed: each read and each   *)
(* store is a step of its own, so a flag can change between any two reads  *)
(* of one call. The three algorithms conjoin Begin, Return and StoreAlive  *)
(* with the steps of their own next().                                     *)
(***************************************************************************)
EXTENDS Naturals, FiniteSets

CONSTANTS
  N,          \* number of backends of the balancer, at least one (config.rs)
  Checked,    \* the backends that have a healthcheck section
  Workers,    \* the listener's workers
  Keys,       \* hash keys, as built by Balancer::build_hash_key
  None        \* Option::None, the answer "no available backend"

Backends == 0 .. (N - 1)

ASSUME NAssumption == N \in Nat \ {0}
ASSUME CheckedAssumption == Checked \subseteq Backends
ASSUME NoneAssumption == None \notin Backends /\ None \notin Keys

VARIABLES
  alive,      \* alive[b]: the flag of backend b
  phase,      \* phase[w]: "idle", "calling" or "done" (next() has returned)
  key,        \* key[w]: the argument of w's current or last call
  result,     \* result[w]: what that call returned
  seen,       \* history: the backends up at some moment of the call
  kept        \* history: the backends up at every moment of the call

interface == <<alive, phase, key, result, seen, kept>>

AliveSet == {b \in Backends : alive[b]}

(* UdpBackend::new: every backend starts alive. *)
AlgInit ==
  /\ alive = [b \in Backends |-> TRUE]
  /\ phase = [w \in Workers |-> "idle"]
  /\ key = [w \in Workers |-> None]
  /\ result = [w \in Workers |-> None]
  /\ seen = [w \in Workers |-> {}]
  /\ kept = [w \in Workers |-> {}]

(* The health checker publishes a result that differs from the last one.   *)
StoreAlive(b, up) ==
  /\ b \in Checked
  /\ alive[b] # up
  /\ alive' = [alive EXCEPT ![b] = up]
  /\ seen' = [w \in Workers |->
                IF phase[w] = "calling" /\ up THEN seen[w] \cup {b} ELSE seen[w]]
  /\ kept' = [w \in Workers |->
                IF phase[w] = "calling" /\ ~up THEN kept[w] \ {b} ELSE kept[w]]
  /\ UNCHANGED <<phase, key, result>>

(* Balancer::forward calls next(key). *)
Begin(w, k) ==
  /\ phase[w] # "calling"
  /\ phase' = [phase EXCEPT ![w] = "calling"]
  /\ key' = [key EXCEPT ![w] = k]
  /\ result' = [result EXCEPT ![w] = None]
  /\ seen' = [seen EXCEPT ![w] = AliveSet]
  /\ kept' = [kept EXCEPT ![w] = AliveSet]
  /\ UNCHANGED alive

(* next() returns r to forward. *)
Return(w, r) ==
  /\ phase[w] = "calling"
  /\ phase' = [phase EXCEPT ![w] = "done"]
  /\ result' = [result EXCEPT ![w] = r]
  /\ UNCHANGED <<alive, key, seen, kept>>

InterfaceTypeOK ==
  /\ alive \in [Backends -> BOOLEAN]
  /\ phase \in [Workers -> {"idle", "calling", "done"}]
  /\ key \in [Workers -> Keys \cup {None}]
  /\ result \in [Workers -> Backends \cup {None}]
  /\ seen \in [Workers -> SUBSET Backends]
  /\ kept \in [Workers -> SUBSET Backends]
=============================================================================
