------------------------- MODULE RendezvousHashing -------------------------
(***************************************************************************)
(* Rendezvous hashing, src/balancer/rh.rs. next(key) scans the backends in *)
(* order, skips those that are down and keeps the first one of the highest *)
(* score. FNV and the floating-point weighting are abstracted to Score:    *)
(* Score[k][b] ranks weighted_hash(hash(k ++ address of b), weight of b),  *)
(* equal scores rank equal, and 0 stands for f64::NEG_INFINITY, which the  *)
(* strict comparison never accepts.                                        *)
(***************************************************************************)
EXTENDS Algorithm

CONSTANT Score

ASSUME ScoreAssumption == Score \in [Keys -> [Backends -> Nat]]

VARIABLES
  pos,        \* pos[w]: the index the scan of worker w reads next
  best        \* best[w]: best_backend of that scan

vars == <<alive, phase, key, result, seen, kept, pos, best>>

Init ==
  /\ AlgInit
  /\ pos = [w \in Workers |-> 0]
  /\ best = [w \in Workers |-> None]

(* Mutant: hashes a backend's rank among those that are up, not its address. *)
ScoreOfRank(k, b) ==
  Score[k][Cardinality({c \in Backends : c < b /\ alive[c]})]

(* hash_with_backend followed by weighted_hash. *)
ScoreOf(k, b) == Score[k][b]

(* best_score: NEG_INFINITY until a backend is kept. *)
BestScore(w) == IF best[w] = None THEN 0 ELSE ScoreOf(key[w], best[w])

(* Mutant: >= in place of >, the last of the equal scores wins. *)
BeatsOrTies(w, b) == ScoreOf(key[w], b) >= BestScore(w)

Beats(w, b) == ScoreOf(key[w], b) > BestScore(w)

Call(w, k) ==
  /\ Begin(w, k)
  /\ pos' = [pos EXCEPT ![w] = 0]
  /\ best' = [best EXCEPT ![w] = None]

(* Mutant: the loop does not skip a backend that is down. *)
ExamineDead(w) ==
  /\ phase[w] = "calling" /\ pos[w] < N
  /\ pos' = [pos EXCEPT ![w] = @ + 1]
  /\ best' = [best EXCEPT ![w] = IF Beats(w, pos[w]) THEN pos[w] ELSE @]
  /\ UNCHANGED interface

(* One turn of the loop: the flag is read, then the score compared. *)
Examine(w) ==
  /\ phase[w] = "calling" /\ pos[w] < N
  /\ pos' = [pos EXCEPT ![w] = @ + 1]
  /\ best' = [best EXCEPT ![w] =
                IF alive[pos[w]] /\ Beats(w, pos[w]) THEN pos[w] ELSE @]
  /\ UNCHANGED interface

(* Mutant: answers with the position of the scan when nothing was kept. *)
FinishAtEnd(w) ==
  /\ pos[w] = N
  /\ Return(w, IF best[w] = None THEN pos[w] ELSE best[w])
  /\ UNCHANGED <<pos, best>>

Finish(w) ==
  /\ pos[w] = N
  /\ Return(w, best[w])
  /\ UNCHANGED <<pos, best>>

HealthFlip == \E b \in Backends, up \in BOOLEAN :
  /\ StoreAlive(b, up)
  /\ UNCHANGED <<pos, best>>

Next ==
  \/ \E w \in Workers, k \in Keys : Call(w, k)
  \/ \E w \in Workers : Examine(w)
  \/ \E w \in Workers : Finish(w)
  \/ HealthFlip

Spec == Init /\ [][Next]_vars

-----------------------------------------------------------------------------
(* Types of the variables; a call that is over has answered with a backend *)
(* or with None.                                                           *)
TypeOK ==
  /\ InterfaceTypeOK
  /\ pos \in [Workers -> 0 .. N]
  /\ best \in [Workers -> Backends \cup {None}]

(* The backends rendezvous hashing can find for a key. *)
Scored(k) == {b \in Backends : Score[k][b] > 0}

(* b is ranked before c for key k: higher score, or equal and earlier. *)
RanksAbove(k, b, c) ==
  \/ Score[k][b] > Score[k][c]
  \/ Score[k][b] = Score[k][c] /\ b <= c

(* o is the backend that owns key k when exactly the backends of S are up. *)
IsOwner(k, S, o) ==
  IF S \cap Scored(k) = {}
  THEN o = None
  ELSE o \in S \cap Scored(k) /\ \A c \in S \cap Scored(k) : RanksAbove(k, o, c)

(* A call during which no flag changed answers with the owner of its key,  *)
(* whatever the other workers do (rh.rs:36-60).                            *)
OwnerWhenSteady ==
  \A w \in Workers :
    phase[w] = "done" /\ seen[w] = kept[w] => IsOwner(key[w], kept[w], result[w])

(* README "only its traffic is redistributed": two calls for one key, in   *)
(* succession or overlapping, answer differently only if the backend one   *)
(* of them chose was down at some moment of the other.                     *)
FlowAffinity ==
  \A v, w \in Workers :
    /\ phase[v] = "done" /\ phase[w] = "done" /\ key[v] = key[w]
    /\ result[v] # result[w]
    => result[v] \notin kept[w] \/ result[w] \notin kept[v]

Choice == INSTANCE BackendChoice WITH Eligible <- [k \in Keys |-> Scored(k)]

(* Every behaviour keeps the promise of BackendChoice for the backends     *)
(* that have a score: what forward relies on at core.rs:122.               *)
KeepsPromise == Choice!Spec
=============================================================================
