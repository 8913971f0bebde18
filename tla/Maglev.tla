------------------------------- MODULE Maglev -------------------------------
(***************************************************************************)
(* Maglev, src/balancer/maglev.rs: the shared lookup table and next().     *)
(* What the table is filled with is the business of MaglevTable; here a    *)
(* table is named by the set of backends it was built for, {} for the      *)
(* empty Vec, and Owner[S][k] is the backend found at the slot of key k.   *)
(*                                                                         *)
(* next() looks its key up under a read guard; when the owner is down it   *)
(* drops the guard, calls rebuild_table(), which reads the flags one by    *)
(* one and then stores the new table under the write guard, and looks the  *)
(* key up once more. Nothing serialises two rebuilds.                      *)
(***************************************************************************)
EXTENDS Algorithm

CONSTANT Owner

ASSUME OwnerAssumption ==
  \A S \in SUBSET Backends \ {{}} : \A k \in Keys : Owner[S][k] \in S

ASSUME PosAssumption == None \notin 0 .. (N + 1)

VARIABLES
  table,      \* lookup_table
  pos,        \* pos[w]: None, or the next flag rebuild_table() reads
  up          \* up[w]: alive_indices of that call

vars == <<alive, phase, key, result, seen, kept, table, pos, up>>

(* Mutant: the first table counts the backends from one. *)
InitFromOne ==
  /\ AlgInit
  /\ table = 1 .. N
  /\ pos = [w \in Workers |-> None]
  /\ up = [w \in Workers |-> {}]

(* Maglev::new builds the first table, every backend being up. *)
Init ==
  /\ AlgInit
  /\ table = Backends
  /\ pos = [w \in Workers |-> None]
  /\ up = [w \in Workers |-> {}]

Call(w, k) ==
  /\ Begin(w, k)
  /\ UNCHANGED <<table, pos, up>>

(* Mutant: the owner is returned without a look at its flag. *)
AnswersOwner(k) == IF table = {} THEN None ELSE Owner[table][k]

(* What the table answers for k, and None also when the owner is down. *)
Answer(k) ==
  IF table # {} /\ alive[Owner[table][k]] THEN Owner[table][k] ELSE None

(* Mutant: an owner that is down is answered with None, without a rebuild. *)
LookupOnly(w) ==
  /\ phase[w] = "calling" /\ pos[w] = None
  /\ Return(w, Answer(key[w]))
  /\ UNCHANGED <<table, pos, up>>

(* The first lookup. The guard keeps the table in place between the read   *)
(* of the slot and the read of the flag, so they are one step.             *)
Lookup(w) ==
  /\ phase[w] = "calling" /\ pos[w] = None
  /\ \/ /\ table = {} \/ Answer(key[w]) # None
        /\ Return(w, Answer(key[w]))
        /\ UNCHANGED <<pos, up>>
     \/ /\ table # {} /\ Answer(key[w]) = None
        /\ pos' = [pos EXCEPT ![w] = 0]
        /\ up' = [up EXCEPT ![w] = {}]
        /\ UNCHANGED interface
  /\ UNCHANGED table

(* Mutant: the table is rebuilt for every backend. *)
ScanAll(w) ==
  /\ pos[w] # None /\ pos[w] < N
  /\ pos' = [pos EXCEPT ![w] = @ + 1]
  /\ up' = [up EXCEPT ![w] = @ \cup {pos[w]}]
  /\ UNCHANGED <<interface, table>>

(* rebuild_table() reads one flag. *)
Scan(w) ==
  /\ pos[w] # None /\ pos[w] < N
  /\ pos' = [pos EXCEPT ![w] = @ + 1]
  /\ up' = [up EXCEPT ![w] = IF alive[pos[w]] THEN @ \cup {pos[w]} ELSE @]
  /\ UNCHANGED <<interface, table>>

(* Mutant: the scan leaves out the last backend. *)
InstallEarly(w) ==
  /\ pos[w] = N - 1
  /\ table' = up[w]
  /\ pos' = [pos EXCEPT ![w] = N + 1]
  /\ UNCHANGED <<interface, up>>

(* The scan is over: the table for it is built and replaces the old one.   *)
(* With positive weights only an empty scan has no entries.                *)
Install(w) ==
  /\ pos[w] = N
  /\ table' = up[w]
  /\ pos' = [pos EXCEPT ![w] = N + 1]
  /\ UNCHANGED <<interface, up>>

(* The second lookup is final. *)
Relookup(w) ==
  /\ pos[w] = N + 1
  /\ Return(w, Answer(key[w]))
  /\ pos' = [pos EXCEPT ![w] = None]
  /\ up' = [up EXCEPT ![w] = {}]
  /\ UNCHANGED table

HealthFlip == \E b \in Backends, v \in BOOLEAN :
  /\ StoreAlive(b, v)
  /\ UNCHANGED <<table, pos, up>>

Next ==
  \/ \E w \in Workers, k \in Keys : Call(w, k)
  \/ \E w \in Workers : Lookup(w)
  \/ \E w \in Workers : Scan(w)
  \/ \E w \in Workers : Install(w)
  \/ \E w \in Workers : Relookup(w)
  \/ HealthFlip

Spec == Init /\ [][Next]_vars

(* A worker inside next() keeps running: it waits for no one, the guards   *)
(* being held for a lookup or a store only.                                *)
Fairness == \A w \in Workers :
  WF_vars(Lookup(w) \/ Scan(w) \/ Install(w) \/ Relookup(w))

FairSpec == Spec /\ Fairness

-----------------------------------------------------------------------------
(* Types of the variables. *)
TypeOK ==
  /\ InterfaceTypeOK
  /\ table \in SUBSET Backends
  /\ pos \in [Workers -> 0 .. (N + 1) \cup {None}]
  /\ up \in [Workers -> SUBSET Backends]

Choice == INSTANCE BackendChoice WITH Eligible <- [k \in Keys |-> {}]

(* Every behaviour keeps the promise of BackendChoice in its weakest form: *)
(* a backend that answered was up at some moment of the call, but None may *)
(* be answered while backends are up (OwnRebuildAnswers says when).          *)
KeepsPromise == Choice!Spec

(* A call during which no flag changes and a backend is up finds one       *)
(* (maglev.rs:153-170), unless the table is empty or another worker has    *)
(* replaced the table this call has installed by one from older flags.     *)
OwnRebuildAnswers ==
  [][\A w \in Workers :
       phase[w] = "calling" /\ phase'[w] = "done" /\ result'[w] = None
       => \/ seen[w] # kept[w] \/ kept[w] = {}
          \/ table = {}
          \/ pos[w] # None /\ table # up[w]]_vars

(* The end of a call that found no backend. *)
AnswersNone ==
  \E w \in Workers : phase[w] = "calling" /\ phase'[w] = "done" /\ result'[w] = None

(* Once the flags have settled with a backend up, and unless the table is  *)
(* emptied, calls stop answering None after finitely many: stale rebuilds  *)
(* still under way cannot keep undoing each other.                         *)
Settles ==
  (\E S \in SUBSET Backends \ {{}} : <>[](AliveSet = S /\ table # {}))
    => <>[][~AnswersNone]_vars

(* README "traffic is automatically redistributed to healthy backends":    *)
(* the same without the condition on the table.                            *)
Recovers ==
  (\E S \in SUBSET Backends \ {{}} : <>[](AliveSet = S))
    => <>[][~AnswersNone]_vars

(* The table is emptied only by a scan that saw every backend down, each   *)
(* at its own moment of the call: then no backend stayed up for the call.  *)
EmptiedOnlyByOutage ==
  [][table # {} /\ table' = {}
     => \E w \in Workers : phase[w] = "calling" /\ kept[w] = {}]_vars
=============================================================================
