--------------------------- MODULE Maglev_proofs ---------------------------
(***************************************************************************)
(* Theorems of Maglev, for any number of backends, workers and keys, any   *)
(* filling of the table and any schedule of health changes and rebuilds.   *)
(***************************************************************************)
EXTENDS Maglev, TLAPS

(* What is known of the call of w: what is up now was seen, what stayed up *)
(* is up now; and of a rebuild by that call, the scan has found up what    *)
(* stayed up below pos, and nothing that was not seen.                     *)
WorkerInv(w) ==
  /\ phase[w] = "calling" =>
       /\ key[w] \in Keys
       /\ AliveSet \subseteq seen[w]
       /\ kept[w] \subseteq AliveSet
  /\ pos[w] # None =>
       /\ phase[w] = "calling"
       /\ up[w] \subseteq seen[w]
       /\ \A b \in kept[w] : b < pos[w] => b \in up[w]

(* The inductive invariant. *)
IInv == TypeOK /\ \A w \in Workers : WorkerInv(w)

LEMMA BackendFacts ==
  /\ \A b \in Backends : b \in Nat /\ b < N
  /\ None \notin Backends /\ None \notin 0 .. (N + 1)
  /\ N \in Nat /\ N > 0
BY NAssumption, NoneAssumption, PosAssumption DEF Backends

(* The slot of a key holds a backend the table was built for. *)
LEMMA AnswerFacts ==
  ASSUME TypeOK, NEW k \in Keys
  PROVE  /\ Answer(k) \in AliveSet \cup {None}
         /\ table # {} /\ Answer(k) = None => Owner[table][k] \in table \ AliveSet
<1>1. table # {} => Owner[table][k] \in table /\ table \subseteq Backends
  BY OwnerAssumption DEF TypeOK
<1> QED
  BY <1>1, BackendFacts DEF Answer, AliveSet

-----------------------------------------------------------------------------
LEMMA InitIInv == Init => IInv
<1> SUFFICES ASSUME Init PROVE IInv
  OBVIOUS
<1>1. TypeOK
  BY DEF Init, AlgInit, TypeOK, InterfaceTypeOK
<1> QED
  BY <1>1 DEF Init, AlgInit, IInv, WorkerInv

LEMMA StepTypeOK ==
  ASSUME IInv, [Next]_vars
  PROVE  TypeOK'
<1> USE BackendFacts DEF TypeOK, InterfaceTypeOK
<1>0. TypeOK /\ \A w \in Workers : WorkerInv(w)
  BY DEF IInv
<1>1. ASSUME NEW w \in Workers, NEW k \in Keys, Call(w, k)
      PROVE  TypeOK'
  BY <1>0, <1>1 DEF Call, Begin, AliveSet
<1>2. ASSUME NEW w \in Workers, Lookup(w)
      PROVE  TypeOK'
  <2>1. Answer(key[w]) \in Backends \cup {None}
    BY <1>0, <1>2, AnswerFacts DEF Lookup, WorkerInv, AliveSet
  <2>2. CASE Return(w, Answer(key[w])) /\ UNCHANGED <<pos, up, table>>
    BY <1>0, <2>1, <2>2 DEF Return
  <2>3. CASE /\ pos' = [pos EXCEPT ![w] = 0] /\ up' = [up EXCEPT ![w] = {}]
             /\ UNCHANGED <<interface, table>>
    BY <1>0, <2>3 DEF interface
  <2> QED
    BY <1>2, <2>2, <2>3 DEF Lookup
<1>3. ASSUME NEW w \in Workers, Scan(w)
      PROVE  TypeOK'
  <2>1. pos[w] \in 0 .. (N + 1) /\ pos[w] \in Backends /\ pos[w] + 1 \in 0 .. (N + 1)
    BY <1>0, <1>3 DEF Scan, Backends
  <2> QED
    BY <1>0, <1>3, <2>1 DEF Scan, interface
<1>4. ASSUME NEW w \in Workers, Install(w)
      PROVE  TypeOK'
  BY <1>0, <1>4 DEF Install, interface
<1>5. ASSUME NEW w \in Workers, Relookup(w)
      PROVE  TypeOK'
  <2>1. Answer(key[w]) \in Backends \cup {None}
    BY <1>0, <1>5, AnswerFacts DEF Relookup, Return, WorkerInv, AliveSet
  <2> QED
    BY <1>0, <1>5, <2>1 DEF Relookup, Return
<1>6. CASE HealthFlip
  <2> PICK b \in Backends, v \in BOOLEAN : StoreAlive(b, v) /\ UNCHANGED <<table, pos, up>>
    BY <1>6 DEF HealthFlip
  <2>1. alive' \in [Backends -> BOOLEAN]
    BY <1>0 DEF StoreAlive
  <2>2. seen' \in [Workers -> SUBSET Backends] /\ kept' \in [Workers -> SUBSET Backends]
    BY <1>0 DEF StoreAlive
  <2> QED
    BY <1>0, <2>1, <2>2 DEF StoreAlive
<1>7. CASE UNCHANGED vars
  BY <1>0, <1>7 DEF vars
<1> QED
  BY <1>1, <1>2, <1>3, <1>4, <1>5, <1>6, <1>7 DEF Next

-----------------------------------------------------------------------------
(* A step that changes nothing of worker v keeps what is known of v. *)
LEMMA OtherWorker ==
  ASSUME NEW v \in Workers, WorkerInv(v), UNCHANGED alive,
         phase'[v] = phase[v], key'[v] = key[v],
         seen'[v] = seen[v], kept'[v] = kept[v],
         pos'[v] = pos[v], up'[v] = up[v]
  PROVE  WorkerInv(v)'
BY DEF WorkerInv, AliveSet

(* The steps of a call of w. *)
LEMMA OwnStep ==
  ASSUME IInv, NEW w \in Workers,
         \/ \E k \in Keys : Call(w, k)
         \/ Lookup(w) \/ Scan(w) \/ Install(w) \/ Relookup(w)
  PROVE  WorkerInv(w)' /\ \A v \in Workers \ {w} : WorkerInv(v)'
<1> USE BackendFacts DEF TypeOK, InterfaceTypeOK
<1>0. TypeOK /\ \A v \in Workers : WorkerInv(v)
  BY DEF IInv
<1>1. ASSUME NEW k \in Keys, Call(w, k)
      PROVE  WorkerInv(w)' /\ \A v \in Workers \ {w} : WorkerInv(v)'
  <2>1. /\ phase[w] # "calling" /\ pos'[w] = pos[w] /\ pos[w] = None
        /\ key'[w] = k /\ seen'[w] = AliveSet /\ kept'[w] = AliveSet /\ alive' = alive
    BY <1>0, <1>1 DEF Call, Begin, WorkerInv
  <2>2. WorkerInv(w)'
    BY <2>1 DEF WorkerInv, AliveSet
  <2>3. \A v \in Workers \ {w} : WorkerInv(v)'
    BY <1>0, <1>1, OtherWorker DEF Call, Begin
  <2> QED
    BY <2>2, <2>3
<1>2. CASE Lookup(w)
  <2>1. /\ phase[w] = "calling" /\ alive' = alive
        /\ key' = key /\ seen' = seen /\ kept' = kept
        /\ \/ phase'[w] = "done" /\ pos'[w] = None
           \/ phase'[w] = "calling" /\ pos'[w] = 0 /\ up'[w] = {}
    BY <1>0, <1>2 DEF Lookup, Return, interface
  <2>2. \A b \in kept[w] : b \in Nat
    BY <1>0
  <2>3. WorkerInv(w)'
    BY <1>0, <2>1, <2>2 DEF WorkerInv, AliveSet
  <2>4. \A v \in Workers \ {w} : WorkerInv(v)'
    BY <1>0, <1>2, OtherWorker DEF Lookup, Return, interface
  <2> QED
    BY <2>3, <2>4
<1>3. CASE Scan(w)
  <2>1. /\ UNCHANGED interface /\ pos[w] # None /\ pos[w] \in Backends
        /\ pos'[w] = pos[w] + 1
        /\ up'[w] = IF alive[pos[w]] THEN up[w] \cup {pos[w]} ELSE up[w]
    BY <1>0, <1>3 DEF Scan, Backends
  <2>2. /\ up[w] \subseteq seen[w] /\ AliveSet \subseteq seen[w] /\ kept[w] \subseteq AliveSet
        /\ \A b \in kept[w] : b < pos[w] => b \in up[w]
    BY <1>0, <2>1 DEF WorkerInv
  <2>3. up'[w] \subseteq seen[w]
    BY <2>1, <2>2 DEF AliveSet
  <2>4. ASSUME NEW b \in kept[w], b < pos[w] + 1
        PROVE  b \in up'[w]
    <3>1. b \in Backends /\ alive[b]
      BY <2>2 DEF AliveSet
    <3>2. b < pos[w] \/ b = pos[w]
      BY <2>1, <2>4, <3>1
    <3> QED
      BY <2>1, <2>2, <3>1, <3>2
  <2>5. WorkerInv(w)'
    BY <1>0, <2>1, <2>3, <2>4 DEF WorkerInv, AliveSet, interface
  <2>6. \A v \in Workers \ {w} : WorkerInv(v)'
    BY <1>0, <1>3, OtherWorker DEF Scan, interface
  <2> QED
    BY <2>5, <2>6
<1>4. CASE Install(w)
  <2>1. /\ UNCHANGED <<interface, up>> /\ pos[w] = N /\ pos[w] # None
        /\ pos'[w] = N + 1 /\ \A b \in kept[w] : b < N
    BY <1>0, <1>4 DEF Install
  <2>2. WorkerInv(w)'
    BY <1>0, <2>1 DEF WorkerInv, AliveSet, interface
  <2>3. \A v \in Workers \ {w} : WorkerInv(v)'
    BY <1>0, <1>4, OtherWorker DEF Install, interface
  <2> QED
    BY <2>2, <2>3
<1>5. CASE Relookup(w)
  <2>1. pos'[w] = None /\ phase'[w] = "done"
    BY <1>0, <1>5 DEF Relookup, Return
  <2>2. WorkerInv(w)'
    BY <2>1 DEF WorkerInv
  <2>3. \A v \in Workers \ {w} : WorkerInv(v)'
    BY <1>0, <1>5, OtherWorker DEF Relookup, Return
  <2> QED
    BY <2>2, <2>3
<1> QED
  BY <1>1, <1>2, <1>3, <1>4, <1>5

(* A health change adds to seen and takes from kept, while a call lasts. *)
LEMMA HealthFlipInv ==
  ASSUME IInv, HealthFlip, NEW v \in Workers
  PROVE  WorkerInv(v)'
<1>1. WorkerInv(v)
  BY DEF IInv
<1> PICK b \in Backends, y \in BOOLEAN : StoreAlive(b, y) /\ UNCHANGED <<table, pos, up>>
  BY DEF HealthFlip
<1>2. /\ UNCHANGED <<phase, key, pos, up>>
      /\ alive' = [alive EXCEPT ![b] = y]
      /\ alive \in [Backends -> BOOLEAN]
      /\ seen'[v] = IF phase[v] = "calling" /\ y THEN seen[v] \cup {b} ELSE seen[v]
      /\ kept'[v] = IF phase[v] = "calling" /\ ~y THEN kept[v] \ {b} ELSE kept[v]
  BY DEF StoreAlive, IInv, TypeOK, InterfaceTypeOK
<1>3. seen[v] \subseteq seen'[v] /\ kept'[v] \subseteq kept[v]
  BY <1>2
<1>4. (phase[v] = "calling" =>
         key[v] \in Keys /\ AliveSet \subseteq seen[v] /\ kept[v] \subseteq AliveSet)'
  BY <1>1, <1>2 DEF WorkerInv, AliveSet
<1>5. (pos[v] # None =>
         /\ phase[v] = "calling" /\ up[v] \subseteq seen[v]
         /\ \A c \in kept[v] : c < pos[v] => c \in up[v])'
  BY <1>1, <1>2, <1>3 DEF WorkerInv
<1> QED
  BY <1>4, <1>5 DEF WorkerInv

LEMMA StepIInv ==
  ASSUME IInv, [Next]_vars
  PROVE  IInv'
<1>1. TypeOK'
  BY StepTypeOK
<1>2. ASSUME NEW v \in Workers PROVE WorkerInv(v)'
  <2>1. CASE UNCHANGED vars
    BY <2>1, OtherWorker DEF vars, IInv
  <2>2. CASE HealthFlip
    BY <2>2, HealthFlipInv
  <2> QED
    BY <2>1, <2>2, OwnStep DEF Next
<1> QED
  BY <1>1, <1>2 DEF IInv

THEOREM Inductive == Spec => []IInv
BY InitIInv, StepIInv, PTL DEF Spec

-----------------------------------------------------------------------------
(* Types of every reachable state: the second lookup, too, only ever       *)
(* finds a backend of the balancer in the table.                           *)
THEOREM TypeCorrect == Spec => []TypeOK
<1>1. IInv => TypeOK
  BY DEF IInv
<1> QED
  BY <1>1, Inductive, PTL

(* A table is emptied by nothing but a scan that saw every backend down,   *)
(* each at its own moment: what had stayed up for the call, the scan would *)
(* have found.                                                             *)
THEOREM EmptiedByOutage == Spec => EmptiedOnlyByOutage
<1>1. ASSUME IInv, [Next]_vars, table # {}, table' = {}
      PROVE  \E w \in Workers : phase[w] = "calling" /\ kept[w] = {}
  <2>1. PICK w \in Workers : Install(w)
    BY <1>1 DEF Next, vars, Call, Lookup, Scan, Relookup, HealthFlip
  <2>2. pos[w] = N /\ pos[w] # None /\ up[w] = {} /\ kept[w] \subseteq Backends
    BY <1>1, <2>1, BackendFacts DEF Install, IInv, TypeOK, InterfaceTypeOK
  <2>3. phase[w] = "calling" /\ \A b \in kept[w] : b < N => b \in up[w]
    BY <1>1, <2>2 DEF IInv, WorkerInv
  <2> QED
    BY <2>2, <2>3, BackendFacts
<1>2. IInv /\ [Next]_vars
        => [table # {} /\ table' = {}
            => \E w \in Workers : phase[w] = "calling" /\ kept[w] = {}]_vars
  BY <1>1
<1> QED
  BY <1>2, Inductive, PTL DEF Spec, EmptiedOnlyByOutage

(* The end of a call is one of its two lookups. *)
LEMMA Ends ==
  ASSUME IInv, [Next]_vars, NEW w \in Workers,
         phase[w] = "calling", phase'[w] = "done"
  PROVE  \/ pos[w] = None /\ Lookup(w)
         \/ pos[w] = N + 1 /\ Relookup(w)
<1> USE DEF IInv, TypeOK, InterfaceTypeOK
<1>1. ASSUME NEW v \in Workers, NEW k \in Keys, Call(v, k) PROVE FALSE
  BY <1>1 DEF Call, Begin
<1>2. ASSUME NEW v \in Workers, Scan(v) \/ Install(v) PROVE FALSE
  BY <1>2 DEF Scan, Install, interface
<1>3. ASSUME NEW v \in Workers, Lookup(v) PROVE v = w /\ pos[w] = None
  BY <1>3 DEF Lookup, Return, interface
<1>4. ASSUME NEW v \in Workers, Relookup(v) PROVE v = w /\ pos[w] = N + 1
  BY <1>4 DEF Relookup, Return
<1>5. ~HealthFlip /\ ~UNCHANGED vars
  BY DEF HealthFlip, StoreAlive, vars
<1> QED
  BY <1>1, <1>2, <1>3, <1>4, <1>5 DEF Next

(* A call during which the flags stay as they are, one of them up, is      *)
(* answered None only if it met an empty table or a table of another       *)
(* worker's rebuild.                                                       *)
THEOREM OwnRebuild == Spec => OwnRebuildAnswers
<1>1. ASSUME IInv, [Next]_vars, NEW w \in Workers,
             phase[w] = "calling", phase'[w] = "done", result'[w] = None
      PROVE  \/ seen[w] # kept[w] \/ kept[w] = {}
             \/ table = {}
             \/ pos[w] # None /\ table # up[w]
  <2>1. /\ TypeOK /\ WorkerInv(w) /\ key[w] \in Keys
        /\ result \in [Workers -> Backends \cup {None}]
    BY <1>1 DEF IInv, WorkerInv, TypeOK, InterfaceTypeOK
  <2>2. CASE pos[w] = None /\ Lookup(w)
    BY <1>1, <2>1, <2>2 DEF Lookup, Return, interface
  <2>3. CASE pos[w] = N + 1 /\ Relookup(w)
    <3>1. Answer(key[w]) = None /\ pos[w] # None
      BY <1>1, <2>1, <2>3, BackendFacts DEF Relookup, Return
    <3>2. table # {} => Owner[table][key[w]] \in table \ AliveSet
      BY <2>1, <3>1, AnswerFacts
    <3>3. up[w] \subseteq seen[w] /\ kept[w] \subseteq AliveSet
      BY <1>1, <2>1, <3>1 DEF WorkerInv
    <3> QED
      BY <3>1, <3>2, <3>3
  <2> QED
    BY <1>1, <2>2, <2>3, Ends
<1>2. IInv /\ [Next]_vars
        => [\A w \in Workers :
              phase[w] = "calling" /\ phase'[w] = "done" /\ result'[w] = None
              => \/ seen[w] # kept[w] \/ kept[w] = {}
                 \/ table = {}
                 \/ pos[w] # None /\ table # up[w]]_vars
  BY <1>1
<1> QED
  BY <1>2, Inductive, PTL DEF Spec, OwnRebuildAnswers

-----------------------------------------------------------------------------
(* What a lookup returns was up at that moment, or is None. *)
LEMMA ReturnAnswers ==
  ASSUME IInv, NEW w \in Workers, Return(w, Answer(key[w]))
  PROVE  Choice!Answer(w)
<1>1. TypeOK /\ phase[w] = "calling" /\ key[w] \in Keys /\ AliveSet \subseteq seen[w]
  BY DEF Return, IInv, WorkerInv
<1>2. Choice!Return(w, Answer(key[w]))
  BY DEF Return, Choice!Return
<1>3. Answer(key[w]) \in seen[w] \cup {None}
  BY <1>1, AnswerFacts
<1>4. kept[w] \cap [k \in Keys |-> {}][key[w]] = {}
  BY <1>1
<1> QED
  BY <1>1, <1>2, <1>3, <1>4 DEF Choice!Answer

(* Maglev implements BackendChoice in its weakest form: whoever rebuilds   *)
(* the table meanwhile, a backend that answers was up during the call.     *)
THEOREM Refinement == Spec => KeepsPromise
<1>1. Init => Choice!AlgInit
  BY DEF Init, AlgInit, Choice!AlgInit, Choice!Backends, Backends
<1>2. ASSUME IInv, [Next]_vars
      PROVE  [Choice!Next]_(Choice!interface)
  <2>1. ASSUME NEW w \in Workers, NEW k \in Keys, Call(w, k)
        PROVE  Choice!Next
    <3>1. Choice!Begin(w, k)
      BY <2>1 DEF Call, Begin, Choice!Begin, AliveSet, Choice!AliveSet, Backends, Choice!Backends
    <3> QED
      BY <3>1 DEF Choice!Next
  <2>2. ASSUME NEW w \in Workers, Lookup(w)
        PROVE  [Choice!Next]_(Choice!interface)
    <3>1. CASE UNCHANGED interface
      BY <3>1 DEF interface, Choice!interface
    <3>2. CASE Return(w, Answer(key[w]))
      BY <1>2, <3>2, ReturnAnswers DEF Choice!Next
    <3> QED
      BY <2>2, <3>1, <3>2 DEF Lookup
  <2>3. ASSUME NEW w \in Workers, Scan(w) \/ Install(w)
        PROVE  UNCHANGED Choice!interface
    BY <2>3 DEF Scan, Install, interface, Choice!interface
  <2>4. ASSUME NEW w \in Workers, Relookup(w)
        PROVE  Choice!Next
    BY <1>2, <2>4, ReturnAnswers DEF Relookup, Choice!Next
  <2>5. CASE HealthFlip
    <3> PICK b \in Backends, v \in BOOLEAN : StoreAlive(b, v)
      BY <2>5 DEF HealthFlip
    <3>1. Choice!StoreAlive(b, v)
      BY DEF StoreAlive, Choice!StoreAlive, AliveSet, Choice!AliveSet, Backends, Choice!Backends
    <3> QED
      BY <3>1 DEF Choice!Next, Choice!Backends, Backends
  <2>6. CASE UNCHANGED vars
    BY <2>6 DEF vars, Choice!interface
  <2> QED
    BY <1>2, <2>1, <2>2, <2>3, <2>4, <2>5, <2>6 DEF Next
<1> QED
  BY <1>1, <1>2, Inductive, PTL DEF Spec, KeepsPromise, Choice!Spec
=============================================================================
