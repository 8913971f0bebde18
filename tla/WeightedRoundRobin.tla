------------------------ MODULE WeightedRoundRobin ------------------------
(***************************************************************************)
(* Weighted round robin, src/balancer/wrr.rs. next() first filters the     *)
(* backends that are up, one flag at a time and without a lock. With none  *)
(* it answers None, with one it answers that one; with more it locks       *)
(* current_weight and turns the wheel: an index that walks the backends    *)
(* and, each time it passes 0, a weight that goes down by the gcd of the   *)
(* weights and back to their maximum. It stops at the first backend that   *)
(* is up and at least as heavy as that weight.                             *)
(*                                                                         *)
(* Weights are f64 in the code and multiples of a common quantum here:     *)
(* Weight[b] and Epsilon (0.0001) count quanta. WheelStep has the gcd.     *)
(***************************************************************************)
EXTENDS Algorithm, WheelStep, Integers

CONSTANTS
  Weight,     \* Weight[b]: the weight of b; config.rs accepts any positive one
  Epsilon,    \* below it gcd_f64 takes a remainder for zero
  UsizeMod    \* the counter `current` is an AtomicUsize: it wraps at this value

ASSUME WeightAssumption == Weight \in [Backends -> Nat \ {0}]
ASSUME QuantumAssumption == Epsilon \in Nat \ {0}

MaxWeight == CHOOSE m \in {Weight[b] : b \in Backends} :
               \A b \in Backends : Weight[b] <= m

(* Mutant: the wheel goes down by the largest weight. *)
StepByMax == MaxWeight

GcdWeight == StepOf([i \in 1 .. N |-> Weight[i - 1]], Epsilon)

(* The counter wraps, but not before the wheel has gone round twice.       *)
ASSUME UsizeAssumption ==
  UsizeMod \in Nat \ {0} /\ UsizeMod >= 2 * N * (MaxWeight \div GcdWeight)

ASSUME LockAssumption == None \notin Workers

VARIABLES
  pos,        \* pos[w]: the next flag the filter of worker w reads
  up,         \* up[w]: alive_backends
  lock,       \* the worker that holds the mutex current_weight, or None
  current,    \* the shared index, not yet reduced modulo N
  cw,         \* the value in the mutex
  served,     \* history: picks of each backend since the wheel last restarted
  steady      \* history: backends up ever since then; {} before the first time

vars == <<alive, phase, key, result, seen, kept,
          pos, up, lock, current, cw, served, steady>>

locals == <<pos, up>>
wheel == <<lock, current, cw, served, steady>>

Init ==
  /\ AlgInit
  /\ pos = [w \in Workers |-> 0]
  /\ up = [w \in Workers |-> {}]
  /\ lock = None
  /\ current = 0
  /\ cw = 0
  /\ served = [b \in Backends |-> 0]
  /\ steady = {}

Call(w, k) ==
  /\ Begin(w, k)
  /\ pos' = [pos EXCEPT ![w] = 0]
  /\ up' = [up EXCEPT ![w] = {}]
  /\ UNCHANGED wheel

(* The filter reads one flag. *)
Filter(w) ==
  /\ phase[w] = "calling" /\ pos[w] < N
  /\ pos' = [pos EXCEPT ![w] = @ + 1]
  /\ up' = [up EXCEPT ![w] = IF alive[pos[w]] THEN @ \cup {pos[w]} ELSE @]
  /\ UNCHANGED <<interface, wheel>>

(* Mutant: the position among those up is taken for the backend. *)
ShortcutPosition(w) ==
  /\ pos[w] = N
  /\ \/ up[w] = {} /\ Return(w, None)
     \/ \E b \in up[w] : up[w] = {b} /\ Return(w, 0)
  /\ UNCHANGED <<locals, wheel>>

(* At most one backend was found up: no lock is taken. *)
Shortcut(w) ==
  /\ pos[w] = N
  /\ \/ up[w] = {} /\ Return(w, None)
     \/ \E b \in up[w] : up[w] = {b} /\ Return(w, b)
  /\ UNCHANGED <<locals, wheel>>

Acquire(w) ==
  /\ phase[w] = "calling" /\ pos[w] = N
  /\ Cardinality(up[w]) > 1
  /\ lock = None
  /\ lock' = w
  /\ UNCHANGED <<interface, locals, current, cw, served, steady>>

Index == current % N

(* Mutant: a spent weight is not put back to the maximum. *)
LoweredOnly == IF Index = 0 THEN cw - GcdWeight ELSE cw

(* Mutant: the weight is put back, but never lowered. *)
LoweredStuck == IF Index = 0 /\ cw - GcdWeight <= 0 THEN MaxWeight ELSE cw

(* *cw once the index has been taken. *)
Lowered ==
  IF Index # 0 THEN cw
  ELSE IF cw - GcdWeight > 0 THEN cw - GcdWeight ELSE MaxWeight

Restarts == Index = 0 /\ cw - GcdWeight <= 0

(* Mutant: the strict comparison. *)
OutweighsStrictly(b) == Weight[b] > Lowered

Outweighs(b) == Weight[b] >= Lowered

Pick(w) == alive[Index] /\ Outweighs(Index)

(* One turn of the loop, under the mutex: it touches nothing that another  *)
(* worker can touch except the flag of one backend. Once *cw is back to    *)
(* the maximum it is positive, so the early return of line 73 is not taken *)
(* (WeightAssumption). Returning drops the guard.                          *)
Turn(w) ==
  /\ lock = w
  /\ current' = (current + 1) % UsizeMod
  /\ cw' = Lowered
  /\ served' = [b \in Backends |->
                  (IF Restarts THEN 0 ELSE served[b])
                  + (IF Pick(w) /\ b = Index THEN 1 ELSE 0)]
  /\ steady' = IF Restarts THEN AliveSet ELSE steady
  /\ \/ Pick(w) /\ Return(w, Index) /\ lock' = None
     \/ ~Pick(w) /\ UNCHANGED <<interface, lock>>
  /\ UNCHANGED locals

HealthFlip == \E b \in Backends, v \in BOOLEAN :
  /\ StoreAlive(b, v)
  /\ steady' = IF v THEN steady ELSE steady \ {b}
  /\ UNCHANGED <<locals, lock, current, cw, served>>

Next ==
  \/ \E w \in Workers, k \in Keys : Call(w, k)
  \/ \E w \in Workers : Filter(w)
  \/ \E w \in Workers : Shortcut(w)
  \/ \E w \in Workers : Acquire(w)
  \/ \E w \in Workers : Turn(w)
  \/ HealthFlip

Spec == Init /\ [][Next]_vars

(* A worker inside next() keeps running, and parking_lot hands the mutex   *)
(* to a waiter that has waited long enough (its eventual fairness): SF.    *)
(* Nothing obliges packets to arrive or flags to change.                   *)
Fairness == \A w \in Workers :
  /\ WF_vars(Filter(w))
  /\ WF_vars(Shortcut(w))
  /\ SF_vars(Acquire(w))
  /\ WF_vars(Turn(w))

FairSpec == Spec /\ Fairness

-----------------------------------------------------------------------------
(* Types of the variables, and the mutex protects a positive weight once   *)
(* the wheel has been turned: next() can then never take line 73.          *)
TypeOK ==
  /\ InterfaceTypeOK
  /\ pos \in [Workers -> 0 .. N]
  /\ up \in [Workers -> SUBSET Backends]
  /\ lock \in Workers \cup {None}
  /\ current \in 0 .. (UsizeMod - 1)
  /\ cw \in 0 .. MaxWeight
  /\ served \in [Backends -> Nat]
  /\ steady \in SUBSET Backends

(* README "respecting weights": between two restarts of the wheel, every   *)
(* backend that stayed up is picked exactly weight / gcd times, however    *)
(* many workers turn it and whatever happens to the other backends.        *)
WeightedShare ==
  [][Restarts /\ lock # None /\ current' # current
     => \A b \in steady : served[b] = Weight[b] \div GcdWeight]_vars

(* gcd_f64 and its fold in new() (wrr.rs:18-39), whose cut-off makes the   *)
(* step neither a divisor of the weights nor one that depends on their set *)
(* only: no backend is out of the wheel's reach all the same, and where    *)
(* the cut-off does not bite shares are exact (WeightedShare). A statement *)
(* about what new() leaves, when the wheel has not been turned.            *)
StepReachesAll == cw = 0 => Unreached = {} /\ NotTheGcd = {}

(* No backend is picked more often than its share before the wheel         *)
(* restarts, not even one that goes down and comes back.                   *)
NeverOverserved ==
  steady # {} => \A b \in Backends : served[b] * GcdWeight <= Weight[b]

Choice == INSTANCE BackendChoice WITH Eligible <- [k \in Keys |-> Backends]

(* Every behaviour keeps the promise of BackendChoice, for any backend.    *)
KeepsPromise == Choice!Spec

(* README "traffic is automatically redistributed to healthy backends": if *)
(* some backend stays up, every call of next() returns.                    *)
EventualReturn == \A w \in Workers :
  (\E b \in Backends : <>[]alive[b])
    => (phase[w] = "calling" ~> phase[w] = "done")

(* test_wrr_all_backends_down (wrr.rs:171-179): with every backend down    *)
(* next() answers None.                                                    *)
NoneWhenAllDown == \A w \in Workers :
  <>[](AliveSet = {}) => (phase[w] = "calling" ~> phase[w] = "done")
=============================================================================
