---------------------- MODULE RendezvousHashing_proofs ----------------------
(***************************************************************************)
(* Theorems of RendezvousHashing, for any number of backends, workers and  *)
(* keys, any scores and any schedule of health changes; and of HashKey and *)
(* FlowKeys, which make the keys, for any fields, clients and payloads.    *)
(***************************************************************************)
EXTENDS FlowKeys, WellFoundedInduction, SequenceTheorems, TLAPS

(* What is known of c, the backend kept by the scan of w when it has read  *)
(* the flags below p: c was up during the call, has a score, and is ranked *)
(* above every scored backend below p that stayed up for the whole call.   *)
ScanInv(w, p, c) ==
  /\ c # None => /\ c \in seen[w]
                 /\ c < p
                 /\ Score[key[w]][c] > 0
  /\ \A d \in kept[w] :
       d < p /\ Score[key[w]][d] > 0
         => c # None /\ RanksAbove(key[w], c, d)

(* The inductive invariant. TypeOK alone says nothing of best; ScanInv     *)
(* speaks of kept and seen, which other steps only shrink and extend.      *)
IInv ==
  /\ TypeOK
  /\ \A w \in Workers :
       /\ phase[w] # "idle" => key[w] \in Keys /\ kept[w] \subseteq seen[w]
       /\ phase[w] = "calling" => ScanInv(w, pos[w], best[w])
       /\ phase[w] = "calling" => AliveSet \subseteq seen[w]
       /\ phase[w] = "calling" => kept[w] \subseteq AliveSet
       /\ phase[w] = "done" => ScanInv(w, N, result[w])

LEMMA BackendFacts ==
  /\ \A b \in Backends : b \in Nat /\ b < N
  /\ None \notin Backends
  /\ \A k \in Keys, b \in Backends : Score[k][b] \in Nat
  /\ N \in Nat
BY NAssumption, NoneAssumption, ScoreAssumption DEF Backends

(* RanksAbove is a total preorder of the backends for a key, and an order  *)
(* in its second argument: two backends ranked above each other are one.   *)
LEMMA RankOrder ==
  ASSUME NEW k \in Keys, NEW a \in Backends, NEW b \in Backends, NEW c \in Backends
  PROVE  /\ RanksAbove(k, a, b) /\ RanksAbove(k, b, c) => RanksAbove(k, a, c)
         /\ RanksAbove(k, a, b) /\ RanksAbove(k, b, a) => a = b
         /\ RanksAbove(k, a, b) \/ RanksAbove(k, b, a)
BY BackendFacts DEF RanksAbove

(* README "When a backend fails, only its traffic is redistributed": if o  *)
(* owns k among the backends of S and another backend b fails, o still     *)
(* owns k.                                                                 *)
THEOREM MinimalRedistribution ==
  ASSUME NEW k \in Keys, NEW S \in SUBSET Backends, NEW b \in S,
         NEW o, IsOwner(k, S, o), o # b,
         NEW p, IsOwner(k, S \ {b}, p)
  PROVE  p = o
<1>1. CASE S \cap Scored(k) = {}
  BY <1>1 DEF IsOwner
<1>2. CASE S \cap Scored(k) # {}
  <2>1. /\ o \in S \cap Scored(k)
        /\ \A c \in S \cap Scored(k) : RanksAbove(k, o, c)
    BY <1>2 DEF IsOwner
  <2>2. o \in (S \ {b}) \cap Scored(k)
    BY <2>1
  <2>3. /\ p \in (S \ {b}) \cap Scored(k)
        /\ RanksAbove(k, p, o)
    BY <2>2 DEF IsOwner
  <2>4. RanksAbove(k, o, p)
    BY <2>1, <2>3
  <2> QED
    BY <2>1, <2>3, <2>4, RankOrder
<1> QED
  BY <1>1, <1>2

-----------------------------------------------------------------------------
(* The inductive invariant holds initially. *)
LEMMA InitIInv == Init => IInv
<1> SUFFICES ASSUME Init PROVE IInv
  OBVIOUS
<1>1. TypeOK
  BY BackendFacts DEF Init, AlgInit, TypeOK, InterfaceTypeOK
<1> QED
  BY <1>1 DEF Init, AlgInit, IInv

(* Every step preserves the types. *)
LEMMA StepTypeOK ==
  ASSUME TypeOK, [Next]_vars
  PROVE  TypeOK'
<1> USE BackendFacts DEF TypeOK, InterfaceTypeOK
<1>1. ASSUME NEW w \in Workers, NEW k \in Keys, Call(w, k)
      PROVE  TypeOK'
  BY <1>1 DEF Call, Begin, AliveSet
<1>2. ASSUME NEW w \in Workers, Examine(w)
      PROVE  TypeOK'
  <2>1. pos[w] \in Backends /\ pos[w] + 1 \in 0 .. N
    BY <1>2 DEF Examine, Backends
  <2>2. pos' \in [Workers -> 0 .. N]
    BY <1>2, <2>1 DEF Examine
  <2>3. best' \in [Workers -> Backends \cup {None}]
    BY <1>2, <2>1 DEF Examine
  <2> QED
    BY <1>2, <2>2, <2>3 DEF Examine, interface
<1>3. ASSUME NEW w \in Workers, Finish(w)
      PROVE  TypeOK'
  BY <1>3 DEF Finish, Return
<1>4. CASE HealthFlip
  <2> PICK b \in Backends, up \in BOOLEAN :
        StoreAlive(b, up) /\ UNCHANGED <<pos, best>>
    BY <1>4 DEF HealthFlip
  <2>1. alive' \in [Backends -> BOOLEAN]
    BY DEF StoreAlive
  <2>2. seen' \in [Workers -> SUBSET Backends] /\ kept' \in [Workers -> SUBSET Backends]
    BY DEF StoreAlive
  <2> QED
    BY <2>1, <2>2 DEF StoreAlive
<1>5. CASE UNCHANGED vars
  BY <1>5 DEF vars
<1> QED
  BY <1>1, <1>2, <1>3, <1>4, <1>5 DEF Next

(* Types of every reachable state, for all values of the constants. *)
THEOREM TypeCorrect == Spec => []TypeOK
<1>1. Init => TypeOK
  BY InitIInv DEF IInv
<1> QED
  BY <1>1, StepTypeOK, PTL DEF Spec
-----------------------------------------------------------------------------
(* What IInv says of one worker. *)
WorkerInv(w) ==
  /\ phase[w] # "idle" => key[w] \in Keys /\ kept[w] \subseteq seen[w]
  /\ phase[w] = "calling" => ScanInv(w, pos[w], best[w])
  /\ phase[w] = "calling" => AliveSet \subseteq seen[w]
  /\ phase[w] = "calling" => kept[w] \subseteq AliveSet
  /\ phase[w] = "done" => ScanInv(w, N, result[w])

(* A step that changes nothing of worker v keeps what IInv says of v. *)
LEMMA OtherWorker ==
  ASSUME NEW v \in Workers, WorkerInv(v), UNCHANGED alive,
         phase'[v] = phase[v], key'[v] = key[v], result'[v] = result[v],
         seen'[v] = seen[v], kept'[v] = kept[v],
         pos'[v] = pos[v], best'[v] = best[v]
  PROVE  WorkerInv(v)'
BY DEF WorkerInv, ScanInv, AliveSet, RanksAbove

(* A call starts with nothing kept and nothing scanned. *)
LEMMA CallInv ==
  ASSUME IInv, NEW w \in Workers, NEW k \in Keys, Call(w, k),
         NEW v \in Workers
  PROVE  WorkerInv(v)'
<1>1. WorkerInv(v)
  BY DEF IInv, WorkerInv
<1>2. CASE v # w
  BY <1>1, <1>2, OtherWorker DEF Call, Begin, IInv, TypeOK, InterfaceTypeOK
<1>3. CASE v = w
  <2>1. /\ phase'[v] = "calling" /\ key'[v] = k
        /\ seen'[v] = AliveSet /\ kept'[v] = AliveSet /\ alive' = alive
        /\ pos'[v] = 0 /\ best'[v] = None
    BY <1>3 DEF Call, Begin, IInv, TypeOK, InterfaceTypeOK
  <2>2. ScanInv(v, pos[v], best[v])'
    BY <2>1, BackendFacts DEF ScanInv, AliveSet
  <2> QED
    BY <2>1, <2>2 DEF WorkerInv, AliveSet
<1> QED
  BY <1>2, <1>3

(* One turn of the loop keeps the best of what has been scanned. *)
LEMMA ExamineInv ==
  ASSUME IInv, NEW w \in Workers, Examine(w), NEW v \in Workers
  PROVE  WorkerInv(v)'
<1>1. WorkerInv(v)
  BY DEF IInv, WorkerInv
<1>2. CASE v # w
  BY <1>1, <1>2, OtherWorker DEF Examine, interface, IInv, TypeOK, InterfaceTypeOK
<1>3. CASE v = w
  <2> DEFINE p == pos[w]
             c == best[w]
             k == key[w]
  <2>1. /\ phase[w] = "calling" /\ p \in Backends /\ k \in Keys
        /\ c \in Backends \cup {None}
        /\ ScanInv(w, p, c)
        /\ kept[w] \subseteq AliveSet /\ AliveSet \subseteq seen[w]
    <3>1. phase[w] = "calling" /\ WorkerInv(w)
      BY <1>1, <1>3 DEF Examine
    <3>2. pos[w] \in 0 .. N /\ pos[w] < N /\ best[w] \in Backends \cup {None}
      BY DEF Examine, IInv, TypeOK
    <3> QED
      BY <3>1, <3>2, BackendFacts DEF WorkerInv, Backends
  <2>2. /\ UNCHANGED interface
        /\ pos'[w] = p + 1
        /\ best'[w] = IF alive[p] /\ Beats(w, p) THEN p ELSE c
    BY DEF Examine, IInv, TypeOK
  <2>3. Beats(w, p) <=> IF c = None THEN Score[k][p] > 0 ELSE Score[k][p] > Score[k][c]
    BY DEF Beats, BestScore, ScoreOf
  <2>4. ScanInv(w, p + 1, best'[w])
    <3>1. CASE alive[p] /\ Beats(w, p)
      <4>1. best'[w] = p /\ p \in seen[w]
        BY <2>1, <2>2, <3>1 DEF AliveSet
      <4>2. Score[k][p] > 0
        BY <2>1, <2>3, <3>1, BackendFacts DEF ScanInv
      <4>3. ASSUME NEW d \in kept[w], d < p + 1, Score[k][d] > 0
            PROVE  RanksAbove(k, p, d)
        <5>1. d \in Backends
          BY <2>1 DEF AliveSet
        <5>2. CASE d = p
          BY <2>1, <5>2, BackendFacts DEF RanksAbove
        <5>3. CASE d < p
          BY <2>1, <2>3, <3>1, <4>3, <5>1, <5>3, BackendFacts DEF RanksAbove, ScanInv
        <5> QED
          BY <2>1, <4>3, <5>1, <5>2, <5>3, BackendFacts
      <4> QED
        BY <2>1, <4>1, <4>2, <4>3, BackendFacts DEF ScanInv
    <3>2. CASE ~(alive[p] /\ Beats(w, p))
      <4>1. best'[w] = c
        BY <2>2, <3>2
      <4>2. ASSUME NEW d \in kept[w], d < p + 1, Score[k][d] > 0
            PROVE  c # None /\ RanksAbove(k, c, d)
        <5>1. d \in Backends /\ alive[d]
          BY <2>1 DEF AliveSet
        <5>2. CASE d = p
          <6>1. ~Beats(w, p)
            BY <3>2, <5>1, <5>2
          <6>2. c # None /\ Score[k][c] >= Score[k][p]
            BY <2>1, <2>3, <4>2, <5>2, <6>1, BackendFacts
          <6> QED
            BY <2>1, <5>2, <6>2, BackendFacts DEF RanksAbove, ScanInv
        <5>3. CASE d < p
          BY <2>1, <4>2, <5>3 DEF ScanInv
        <5> QED
          BY <2>1, <4>2, <5>1, <5>2, <5>3, BackendFacts
      <4>3. c # None => c < p + 1
        BY <2>1, BackendFacts DEF ScanInv
      <4> QED
        BY <2>1, <4>1, <4>2, <4>3 DEF ScanInv
    <3> QED
      BY <3>1, <3>2
  <2>5. ScanInv(w, pos[w], best[w])'
    BY <2>2, <2>4 DEF ScanInv, RanksAbove, interface
  <2> QED
    BY <1>1, <1>3, <2>1, <2>2, <2>5 DEF WorkerInv, interface, AliveSet
<1> QED
  BY <1>2, <1>3

(* The scan is over: what it kept is what next() answers. *)
LEMMA FinishInv ==
  ASSUME IInv, NEW w \in Workers, Finish(w), NEW v \in Workers
  PROVE  WorkerInv(v)'
<1>1. WorkerInv(v)
  BY DEF IInv, WorkerInv
<1>2. CASE v # w
  BY <1>1, <1>2, OtherWorker DEF Finish, Return, IInv, TypeOK, InterfaceTypeOK
<1>3. CASE v = w
  <2>1. /\ phase[v] = "calling" /\ pos[v] = N
        /\ phase'[v] = "done" /\ result'[v] = best[v]
        /\ UNCHANGED <<alive, key, seen, kept>>
    BY <1>3 DEF Finish, Return, IInv, TypeOK, InterfaceTypeOK
  <2>2. ScanInv(v, N, result'[v])
    BY <1>1, <2>1 DEF WorkerInv
  <2>3. ScanInv(v, N, result[v])'
    BY <2>1, <2>2 DEF ScanInv, RanksAbove
  <2> QED
    BY <1>1, <2>1, <2>3 DEF WorkerInv
<1> QED
  BY <1>2, <1>3

(* A health change takes backends from kept and adds backends to seen, of  *)
(* the workers inside a call only.                                         *)
LEMMA HealthFlipInv ==
  ASSUME IInv, HealthFlip, NEW v \in Workers
  PROVE  WorkerInv(v)'
<1>1. WorkerInv(v)
  BY DEF IInv, WorkerInv
<1> PICK b \in Backends, up \in BOOLEAN :
      StoreAlive(b, up) /\ UNCHANGED <<pos, best>>
  BY DEF HealthFlip
<1>2. /\ UNCHANGED <<phase, key, result, pos, best>>
      /\ alive' = [alive EXCEPT ![b] = up]
      /\ alive \in [Backends -> BOOLEAN]
      /\ seen'[v] = IF phase[v] = "calling" /\ up THEN seen[v] \cup {b} ELSE seen[v]
      /\ kept'[v] = IF phase[v] = "calling" /\ ~up THEN kept[v] \ {b} ELSE kept[v]
  BY DEF StoreAlive, IInv, TypeOK, InterfaceTypeOK
<1>3. seen[v] \subseteq seen'[v] /\ kept'[v] \subseteq kept[v]
  BY <1>2
<1>4. ASSUME NEW p, NEW c, ScanInv(v, p, c)
      PROVE  /\ c # None => c \in seen'[v] /\ c < p /\ Score[key[v]][c] > 0
             /\ \A d \in kept'[v] : d < p /\ Score[key[v]][d] > 0
                                  => c # None /\ RanksAbove(key[v], c, d)
  BY <1>3, <1>4 DEF ScanInv
<1>5. (phase[v] = "calling" => ScanInv(v, pos[v], best[v]))'
  <2>1. HAVE (phase[v] = "calling")'
  <2>2. ScanInv(v, pos[v], best[v])
    BY <1>1, <1>2, <2>1 DEF WorkerInv
  <2> QED
    BY <1>2, <1>4, <2>2 DEF ScanInv, RanksAbove
<1>6. (phase[v] = "done" => ScanInv(v, N, result[v]))'
  <2>1. HAVE (phase[v] = "done")'
  <2>2. ScanInv(v, N, result[v])
    BY <1>1, <1>2, <2>1 DEF WorkerInv
  <2> QED
    BY <1>2, <1>4, <2>2 DEF ScanInv, RanksAbove
<1>7. (phase[v] = "calling" => AliveSet \subseteq seen[v] /\ kept[v] \subseteq AliveSet)'
  BY <1>1, <1>2 DEF WorkerInv, AliveSet
<1>8. (phase[v] # "idle" => key[v] \in Keys /\ kept[v] \subseteq seen[v])'
  BY <1>1, <1>2, <1>3 DEF WorkerInv
<1> QED
  BY <1>5, <1>6, <1>7, <1>8 DEF WorkerInv

(* The invariant is inductive. *)
LEMMA StepIInv ==
  ASSUME IInv, [Next]_vars
  PROVE  IInv'
<1>1. TypeOK'
  BY StepTypeOK DEF IInv
<1>2. ASSUME NEW v \in Workers PROVE WorkerInv(v)'
  <2>1. CASE \E w \in Workers, k \in Keys : Call(w, k)
    BY <2>1, CallInv
  <2>2. CASE \E w \in Workers : Examine(w)
    BY <2>2, ExamineInv
  <2>3. CASE \E w \in Workers : Finish(w)
    BY <2>3, FinishInv
  <2>4. CASE HealthFlip
    BY <2>4, HealthFlipInv
  <2>5. CASE UNCHANGED vars
    BY <2>5, OtherWorker DEF vars, IInv, WorkerInv
  <2> QED
    BY <2>1, <2>2, <2>3, <2>4, <2>5 DEF Next
<1>3. \A v \in Workers : WorkerInv(v)'
  BY <1>2
<1> QED
  BY <1>1, <1>3 DEF IInv, WorkerInv

LEMMA Inductive == Spec => []IInv
BY InitIInv, StepIInv, PTL DEF Spec

-----------------------------------------------------------------------------
(* A steady call answers with the owner of its key, for any number of      *)
(* backends and of concurrent workers.                                     *)
THEOREM SteadyCallFindsOwner == Spec => []OwnerWhenSteady
<1>1. IInv => OwnerWhenSteady
  <2> SUFFICES ASSUME IInv, NEW w \in Workers,
                      phase[w] = "done", seen[w] = kept[w]
               PROVE  IsOwner(key[w], kept[w], result[w])
    BY DEF OwnerWhenSteady
  <2>1. /\ key[w] \in Keys /\ kept[w] \subseteq Backends
        /\ result[w] \in Backends \cup {None}
        /\ ScanInv(w, N, result[w])
    BY DEF IInv, TypeOK, InterfaceTypeOK
  <2>2. \A d \in kept[w] \cap Scored(key[w]) :
          result[w] # None /\ RanksAbove(key[w], result[w], d)
    BY <2>1, BackendFacts DEF ScanInv, Scored
  <2>3. result[w] # None => result[w] \in kept[w] \cap Scored(key[w])
    BY <2>1 DEF ScanInv, Scored
  <2> QED
    BY <2>2, <2>3 DEF IsOwner
<1> QED
  BY <1>1, Inductive, PTL

(* Flow affinity: two calls for one key disagree only if the backend one   *)
(* of them chose was down at some moment of the other.                     *)
THEOREM FlowsStay == Spec => []FlowAffinity
<1>1. IInv => FlowAffinity
  <2> SUFFICES ASSUME IInv, NEW v \in Workers, NEW w \in Workers,
                      phase[v] = "done", phase[w] = "done", key[v] = key[w],
                      result[v] \in kept[w], result[w] \in kept[v]
               PROVE  result[v] = result[w]
    BY DEF FlowAffinity
  <2>1. /\ key[v] \in Keys
        /\ result[v] \in Backends /\ result[w] \in Backends
        /\ ScanInv(v, N, result[v]) /\ ScanInv(w, N, result[w])
    BY DEF IInv, TypeOK, InterfaceTypeOK
  <2>2. Score[key[v]][result[v]] > 0 /\ Score[key[v]][result[w]] > 0
    BY <2>1, BackendFacts DEF ScanInv
  <2>3. RanksAbove(key[v], result[v], result[w]) /\ RanksAbove(key[v], result[w], result[v])
    BY <2>1, <2>2, BackendFacts DEF ScanInv
  <2> QED
    BY <2>1, <2>3, RankOrder
<1> QED
  BY <1>1, Inductive, PTL

(* Rendezvous hashing implements BackendChoice: what forward relies on.    *)
THEOREM Refinement == Spec => KeepsPromise
<1>1. Init => Choice!AlgInit
  BY DEF Init, AlgInit, Choice!AlgInit, Choice!Backends, Backends
<1>2. ASSUME IInv, [Next]_vars
      PROVE  [Choice!Next]_(Choice!interface)
  <2>1. ASSUME NEW w \in Workers, NEW k \in Keys, Call(w, k)
        PROVE  Choice!Next
    <3>1. Choice!Begin(w, k)
      BY <2>1 DEF Call, Begin, Choice!Begin, AliveSet, Choice!AliveSet, Backends, Choice!Backends
    <3> QED
      BY <3>1 DEF Choice!Next
  <2>2. ASSUME NEW w \in Workers, Examine(w)
        PROVE  UNCHANGED Choice!interface
    BY <2>2 DEF Examine, interface, Choice!interface
  <2>3. ASSUME NEW w \in Workers, Finish(w)
        PROVE  Choice!Next
    <3>1. /\ phase[w] = "calling" /\ key[w] \in Keys /\ kept[w] \subseteq Backends
          /\ best[w] \in Backends \cup {None}
          /\ ScanInv(w, N, best[w])
          /\ Choice!Return(w, best[w])
      <4>1. phase[w] = "calling" /\ pos[w] = N
        BY <2>3 DEF Finish, Return
      <4>2. Choice!Return(w, best[w])
        BY <2>3 DEF Finish, Return, Choice!Return
      <4>3. ScanInv(w, N, best[w]) /\ key[w] \in Keys
        BY <1>2, <4>1 DEF IInv
      <4> QED
        BY <1>2, <4>1, <4>2, <4>3 DEF IInv, TypeOK, InterfaceTypeOK
    <3>2. CASE best[w] = None
      <4>1. kept[w] \cap Scored(key[w]) = {}
        BY <3>1, <3>2, BackendFacts DEF ScanInv, Scored
      <4>2. Choice!Answer(w)
        BY <3>1, <3>2, <4>1 DEF Choice!Answer
      <4> QED
        BY <4>2 DEF Choice!Next
    <3>3. CASE best[w] # None
      <4>1. Choice!Answer(w)
        BY <3>1, <3>3 DEF Choice!Answer, ScanInv
      <4> QED
        BY <4>1 DEF Choice!Next
    <3> QED
      BY <3>2, <3>3
  <2>4. CASE HealthFlip
    <3> PICK b \in Backends, up \in BOOLEAN : StoreAlive(b, up)
      BY <2>4 DEF HealthFlip
    <3>1. Choice!StoreAlive(b, up)
      BY DEF StoreAlive, Choice!StoreAlive, AliveSet, Choice!AliveSet, Backends, Choice!Backends
    <3> QED
      BY <3>1 DEF Choice!Next, Choice!Backends, Backends
  <2>5. CASE UNCHANGED vars
    BY <2>5 DEF vars, Choice!interface
  <2> QED
    BY <1>2, <2>1, <2>2, <2>3, <2>4, <2>5 DEF Next
<1> QED
  BY <1>1, <1>2, Inductive, PTL DEF Spec, KeepsPromise, Choice!Spec

-----------------------------------------------------------------------------
(* Keys. BuildHashKey is a recursive function, and the library's induction *)
(* theorems take an operator: induction is over sets of numbers here, from *)
(* the well-founded order of the naturals.                                 *)
LEMMA Least ==
  ASSUME NEW U, U \subseteq Nat, U # {}
  PROVE  \E m \in U : \A y \in U : m <= y
<1> DEFINE Less == OpToRel(<, Nat)
<1>1. \A x, y \in Nat : x < y => <<x, y>> \in Less
  BY DEF OpToRel
<1>2. IsWellFoundedOn(Less, Nat)
  BY NatLessThanWellFounded
<1> HIDE DEF Less
<1>3. PICK m \in U : \A y \in U : ~(<<y, m>> \in Less)
  BY <1>2, WFMin
<1>4. ASSUME NEW y \in U
      PROVE  m <= y
  <2>1. m \in Nat /\ y \in Nat
    OBVIOUS
  <2>2. ~(y < m)
    BY <1>1, <1>3, <2>1
  <2> QED
    BY <2>1, <2>2
<1> QED
  BY <1>4

(* A set with 0 and every successor holds every number. *)
LEMMA SetInduction ==
  ASSUME NEW T, 0 \in T, \A n \in T \cap Nat : n + 1 \in T
  PROVE  Nat \subseteq T
<1> SUFFICES ASSUME Nat \ T # {} PROVE FALSE
  OBVIOUS
<1>1. PICK m \in Nat \ T : \A y \in Nat \ T : m <= y
  BY Least
<1>2. m # 0 /\ m - 1 \in Nat /\ m - 1 < m
  BY <1>1
<1>3. m - 1 \in T
  BY <1>1, <1>2
<1>4. m - 1 \in T \cap Nat /\ (m - 1) + 1 = m
  BY <1>2, <1>3
<1>5. (m - 1) + 1 \in T
  BY <1>4
<1> QED
  BY <1>4, <1>5

(* The function that BuildHashKey takes the key from, and what it makes of *)
(* the key of the fields before one.                                       *)
KeyUpTo(fields, p, at) ==
  LET prefix[n \in 0 .. Len(fields)] ==
        IF n = 0 THEN <<>> ELSE prefix[n - 1] \o FieldOctets(fields[n], p, at)
  IN  prefix

KeyStep(fields, p, at, g, n) ==
  IF n = 0 THEN <<>> ELSE g[n - 1] \o FieldOctets(fields[n], p, at)

LEMMA KeyIsLast ==
  ASSUME NEW fields, NEW p, NEW at
  PROVE  BuildHashKey(fields, p, at) = KeyUpTo(fields, p, at)[Len(fields)]
BY DEF BuildHashKey, KeyUpTo

(* The recursion obeys its definition. *)
LEMMA KeyUpToDef ==
  ASSUME NEW fields, Len(fields) \in Nat, NEW p, NEW at
  PROVE  \A n \in 0 .. Len(fields) :
           KeyUpTo(fields, p, at)[n] = KeyStep(fields, p, at, KeyUpTo(fields, p, at), n)
<1> DEFINE Step(g, n) == KeyStep(fields, p, at, g, n)
           T == {m \in Nat : \E g : g = [n \in 0 .. m |-> Step(g, n)]}
<1>1. 0 \in T
  <2> DEFINE g == [n \in 0 .. 0 |-> <<>>]
  <2>1. g = [n \in 0 .. 0 |-> Step(g, n)]
    BY DEF KeyStep
  <2> QED
    BY <2>1
<1>2. ASSUME NEW m \in T \cap Nat
      PROVE  m + 1 \in T
  <2>1. PICK g : g = [n \in 0 .. m |-> Step(g, n)]
    OBVIOUS
  <2> DEFINE h == [n \in 0 .. (m + 1) |-> IF n <= m THEN g[n] ELSE Step(g, n)]
  <2>2. ASSUME NEW n \in 0 .. (m + 1)
        PROVE  h[n] = Step(h, n)
    <3>1. h[n] = Step(g, n)
      <4>1. CASE n <= m
        <5>1. n \in 0 .. m
          BY <4>1
        <5>2. g[n] = Step(g, n)
          BY <2>1, <5>1
        <5> QED
          BY <4>1, <5>2
      <4>2. CASE ~(n <= m)
        BY <4>2
      <4> QED
        BY <4>1, <4>2
    <3>2. CASE n = 0
      BY <3>1, <3>2 DEF KeyStep
    <3>3. CASE n # 0
      <4>1. n - 1 \in 0 .. (m + 1) /\ n - 1 <= m
        BY <3>3
      <4>2. h[n - 1] = g[n - 1]
        BY <4>1
      <4> HIDE DEF h
      <4> QED
        BY <3>1, <3>3, <4>2 DEF KeyStep
    <3> QED
      BY <3>2, <3>3
  <2>3. h = [n \in 0 .. (m + 1) |-> h[n]]
    OBVIOUS
  <2> HIDE DEF h
  <2>4. h = [n \in 0 .. (m + 1) |-> Step(h, n)]
    BY <2>2, <2>3
  <2> QED
    BY <2>4
<1>3. PICK g : g = [n \in 0 .. Len(fields) |-> Step(g, n)]
  <2> HIDE DEF T
  <2>1. Len(fields) \in T
    BY <1>1, <1>2, SetInduction
  <2> QED
    BY <2>1 DEF T
<1>4. g = [n \in 0 .. Len(fields) |->
             IF n = 0 THEN <<>> ELSE g[n - 1] \o FieldOctets(fields[n], p, at)]
  BY <1>3 DEF KeyStep
<1>5. KeyUpTo(fields, p, at) =
        [n \in 0 .. Len(fields) |->
           IF n = 0 THEN <<>>
           ELSE KeyUpTo(fields, p, at)[n - 1] \o FieldOctets(fields[n], p, at)]
  BY <1>4 DEF KeyUpTo
<1> QED
  BY <1>5 DEF KeyStep

-----------------------------------------------------------------------------
(* A sequence of octets, here of any numbers.                              *)
Str == Seq(Nat)

(* A packet and an address as the listener passes them.                    *)
IsPacket(p) == p.srcIp \in Str /\ p.srcPort \in Nat /\ p.payload \in Str
IsAddress(at) == at.ip \in Str /\ at.port \in Nat

LEMMA Slice ==
  ASSUME NEW s \in Str, NEW m \in Nat, NEW n \in Nat, 1 <= m, m <= n, n <= Len(s)
  PROVE  /\ SubSeq(s, m, n) \in Str /\ Len(SubSeq(s, m, n)) = n - m + 1
         /\ \A i \in 1 .. n - m + 1 : SubSeq(s, m, n)[i] = s[m + i - 1]
<1>1. \A i \in m .. n : s[i] \in Nat
  BY DEF Str
<1>2. m \in Int /\ n \in Int
  OBVIOUS
<1> QED
  BY <1>1, <1>2, SubSeqProperties DEF Str

LEMMA Chain ==
  ASSUME NEW s \in Str, NEW t \in Str
  PROVE  /\ s \o t \in Str /\ Len(s \o t) = Len(s) + Len(t)
         /\ Len(s) \in Nat /\ Len(t) \in Nat
         /\ \A i \in 1 .. Len(s) : (s \o t)[i] = s[i]
         /\ \A i \in 1 .. Len(t) : (s \o t)[Len(s) + i] = t[i]
BY DEF Str

LEMMA OctetsFacts ==
  ASSUME NEW n \in Nat
  PROVE  Octets(n) \in Str /\ Len(Octets(n)) = 2 /\ Octets(n) # <<>>
<1>1. n \div 256 \in Nat /\ n % 256 \in Nat
  OBVIOUS
<1> QED
  BY <1>1 DEF Octets, Str

(* Two octets determine the number.                                        *)
LEMMA OctetsInjective ==
  ASSUME NEW m \in Nat, NEW n \in Nat
  PROVE  /\ Octets(m) = Octets(n) <=> m = n
         /\ Number(m \div 256, m % 256) = m
<1>1. m = (m \div 256) * 256 + (m % 256) /\ n = (n \div 256) * 256 + (n % 256)
  OBVIOUS
<1>2. Octets(m) = Octets(n) => m \div 256 = n \div 256 /\ m % 256 = n % 256
  BY DEF Octets
<1> QED
  BY <1>1, <1>2 DEF Number

(* What the fields of IPFIX add has one length or none, and there is no    *)
(* template without a domain: the message is long enough for both.         *)
LEMMA IpfixLengths ==
  ASSUME NEW payload \in Str
  PROVE  /\ DomainId(payload) \in Str /\ Len(DomainId(payload)) \in {0, 4}
         /\ TemplateId(payload) \in Str /\ Len(TemplateId(payload)) \in {0, 2}
         /\ Len(TemplateId(payload)) = 2 => Len(DomainId(payload)) = 4
<1>1. Len(payload) \in Nat /\ <<>> \in Str /\ Len(<<>>) = 0
  BY DEF Str
<1>2. CASE Len(payload) < 16 \/ ~IsIpfix(payload)
  <2>1. DomainId(payload) = <<>> /\ TemplateId(payload) = <<>>
    BY <1>1, <1>2 DEF DomainId, TemplateId
  <2> QED
    BY <1>1, <2>1
<1>3. CASE ~(Len(payload) < 16 \/ ~IsIpfix(payload))
  <2>1. DomainId(payload) = SubSeq(payload, 13, 16)
    BY <1>3 DEF DomainId
  <2>2. DomainId(payload) \in Str /\ Len(DomainId(payload)) = 4
    BY <1>1, <1>3, <2>1, Slice
  <2>3. \/ TemplateId(payload) = <<>>
        \/ Len(payload) >= 18 /\ TemplateId(payload) = SubSeq(payload, 17, 18)
    BY <1>1 DEF TemplateId
  <2>4. CASE TemplateId(payload) = <<>>
    BY <1>1, <2>2, <2>4
  <2>5. CASE Len(payload) >= 18 /\ TemplateId(payload) = SubSeq(payload, 17, 18)
    <3>1. TemplateId(payload) \in Str /\ Len(TemplateId(payload)) = 2
      BY <1>1, <2>5, Slice
    <3> QED
      BY <2>2, <3>1
  <2> QED
    BY <2>3, <2>4, <2>5
<1> QED
  BY <1>2, <1>3

(* No field of p is longer than the same field of q.                       *)
Shorter(p, q) ==
  /\ Len(p.srcIp) = Len(q.srcIp)
  /\ Len(DomainId(p.payload)) <= Len(DomainId(q.payload))
  /\ Len(TemplateId(p.payload)) <= Len(TemplateId(q.payload))

LEMMA OneIsShorter ==
  ASSUME NEW p, IsPacket(p), NEW q, IsPacket(q), Len(p.srcIp) = Len(q.srcIp)
  PROVE  Shorter(p, q) \/ Shorter(q, p)
BY IpfixLengths DEF IsPacket, Shorter

LEMMA FieldFacts ==
  ASSUME NEW f \in HashKeyField, NEW p, IsPacket(p), NEW at, IsAddress(at)
  PROVE  FieldOctets(f, p, at) \in Str
<1>1. CASE f = "src_port" \/ f = "dst_port"
  BY <1>1, OctetsFacts DEF FieldOctets, IsPacket, IsAddress
<1>2. CASE f = "ipfix" \/ f = "ipfix_template_id"
  BY <1>2, IpfixLengths DEF FieldOctets, IsPacket
<1>3. CASE f = "src_ip" \/ f = "dst_ip"
  BY <1>3 DEF FieldOctets, IsPacket, IsAddress
<1> QED
  BY <1>1, <1>2, <1>3 DEF HashKeyField

LEMMA FieldLengths ==
  ASSUME NEW f \in HashKeyField, NEW at, IsAddress(at),
         NEW p, IsPacket(p), NEW q, IsPacket(q), Shorter(p, q)
  PROVE  Len(FieldOctets(f, p, at)) <= Len(FieldOctets(f, q, at))
<1>1. CASE f = "src_port"
  BY <1>1, OctetsFacts DEF FieldOctets, IsPacket
<1>2. CASE f = "ipfix" \/ f = "ipfix_template_id"
  BY <1>2, IpfixLengths DEF FieldOctets, IsPacket, Shorter
<1>3. CASE f = "src_ip"
  <2>1. Len(p.srcIp) \in Nat
    BY DEF IsPacket, Str
  <2> QED
    BY <1>3, <2>1 DEF FieldOctets, Shorter
<1>4. CASE f = "dst_ip" \/ f = "dst_port"
  <2>1. FieldOctets(f, p, at) = FieldOctets(f, q, at)
    BY <1>4 DEF FieldOctets
  <2>2. Len(FieldOctets(f, p, at)) \in Nat
    BY FieldFacts DEF Str
  <2> QED
    BY <2>1, <2>2
<1> QED
  BY <1>1, <1>2, <1>3, <1>4 DEF HashKeyField

(* Where the parts of one concatenation are no longer than those of an     *)
(* equal one, the parts are equal.                                         *)
LEMMA PartsEqual ==
  ASSUME NEW s \in Str, NEW t \in Str, NEW a \in Str, NEW b \in Str,
         Len(s) <= Len(t), Len(a) <= Len(b), s \o a = t \o b
  PROVE  s = t /\ a = b
<1>1. /\ Len(s) \in Nat /\ Len(t) \in Nat /\ Len(a) \in Nat /\ Len(b) \in Nat
      /\ Len(s) + Len(a) = Len(t) + Len(b)
  BY Chain
<1>2. Len(s) = Len(t) /\ Len(a) = Len(b)
  BY <1>1
<1>3. \A i \in 1 .. Len(s) : s[i] = t[i]
  BY <1>2, Chain
<1>4. ASSUME NEW i \in 1 .. Len(a)
      PROVE  a[i] = b[i]
  <2>1. (s \o a)[Len(s) + i] = a[i]
    BY Chain
  <2>2. i \in 1 .. Len(b)
    BY <1>2
  <2>3. (t \o b)[Len(t) + i] = b[i]
    BY <2>2, Chain
  <2> QED
    BY <1>2, <2>1, <2>3
<1> QED
  BY <1>2, <1>3, <1>4, SeqEqual DEF Str

-----------------------------------------------------------------------------
LEMMA KeyFacts ==
  ASSUME NEW fields \in Seq(HashKeyField), NEW p, IsPacket(p), NEW at, IsAddress(at)
  PROVE  /\ KeyUpTo(fields, p, at)[0] = <<>>
         /\ \A n \in 1 .. Len(fields) :
              /\ FieldOctets(fields[n], p, at) \in Str
              /\ KeyUpTo(fields, p, at)[n] =
                   KeyUpTo(fields, p, at)[n - 1] \o FieldOctets(fields[n], p, at)
         /\ \A n \in 0 .. Len(fields) : KeyUpTo(fields, p, at)[n] \in Str
<1> DEFINE K == KeyUpTo(fields, p, at)
<1>1. Len(fields) \in Nat /\ \A n \in 1 .. Len(fields) : fields[n] \in HashKeyField
  OBVIOUS
<1>2. K[0] = <<>>
  BY <1>1, KeyUpToDef DEF KeyStep
<1>3. ASSUME NEW n \in 1 .. Len(fields)
      PROVE  K[n] = K[n - 1] \o FieldOctets(fields[n], p, at)
  <2>1. n \in 0 .. Len(fields) /\ n # 0
    BY <1>1
  <2>2. K[n] = KeyStep(fields, p, at, K, n)
    BY <1>1, <2>1, KeyUpToDef
  <2> QED
    BY <2>1, <2>2 DEF KeyStep
<1>4. \A n \in 1 .. Len(fields) : FieldOctets(fields[n], p, at) \in Str
  BY <1>1, FieldFacts
<1> DEFINE T == {n \in Nat : n <= Len(fields) => K[n] \in Str}
<1> HIDE DEF K
<1>5. 0 \in T
  <2>1. K[0] \in Str
    BY <1>2 DEF Str
  <2> QED
    BY <2>1
<1>6. ASSUME NEW n \in T \cap Nat
      PROVE  n + 1 \in T
  <2>1. ASSUME n + 1 <= Len(fields)
        PROVE  K[n + 1] \in Str
    <3>1. n + 1 \in 1 .. Len(fields) /\ (n + 1) - 1 = n /\ n <= Len(fields)
      BY <1>1, <2>1
    <3>2. K[n + 1] = K[n] \o FieldOctets(fields[n + 1], p, at)
      BY <1>3, <3>1
    <3>3. K[n] \in Str /\ FieldOctets(fields[n + 1], p, at) \in Str
      BY <1>4, <3>1
    <3> QED
      BY <3>2, <3>3, Chain
  <2> QED
    BY <2>1
<1> HIDE DEF T
<1>7. Nat \subseteq T
  BY <1>5, <1>6, SetInduction
<1>8. \A n \in 0 .. Len(fields) : K[n] \in Str
  BY <1>1, <1>7 DEF T
<1> QED
  BY <1>2, <1>3, <1>4, <1>8 DEF K

(* The packets add the same octets for every field.                        *)
SameFields(fields, p, q, at) ==
  \A i \in 1 .. Len(fields) : FieldOctets(fields[i], p, at) = FieldOctets(fields[i], q, at)

LEMMA SameFieldsSameKey ==
  ASSUME NEW fields \in Seq(HashKeyField), NEW at, IsAddress(at),
         NEW p, IsPacket(p), NEW q, IsPacket(q), SameFields(fields, p, q, at)
  PROVE  BuildHashKey(fields, p, at) = BuildHashKey(fields, q, at)
<1> DEFINE K == KeyUpTo(fields, p, at)
           L == KeyUpTo(fields, q, at)
           T == {n \in Nat : n <= Len(fields) => K[n] = L[n]}
<1>0. Len(fields) \in Nat
  OBVIOUS
<1>1. K[0] = L[0]
  BY KeyFacts, Zenon
<1>2. \A n \in 1 .. Len(fields) : /\ K[n] = K[n - 1] \o FieldOctets(fields[n], p, at)
                                  /\ L[n] = L[n - 1] \o FieldOctets(fields[n], p, at)
  <2>1. \A n \in 1 .. Len(fields) : /\ K[n] = K[n - 1] \o FieldOctets(fields[n], p, at)
                                    /\ L[n] = L[n - 1] \o FieldOctets(fields[n], q, at)
    BY KeyFacts, Zenon
  <2> QED
    BY <2>1, Zenon DEF SameFields
<1>3. BuildHashKey(fields, p, at) = K[Len(fields)] /\ BuildHashKey(fields, q, at) = L[Len(fields)]
  BY KeyIsLast
<1> HIDE DEF K, L
<1>4. 0 \in T
  BY <1>1
<1>5. ASSUME NEW n \in T \cap Nat
      PROVE  n + 1 \in T
  <2>1. ASSUME n + 1 <= Len(fields)
        PROVE  K[n + 1] = L[n + 1]
    <3>1. n + 1 \in 1 .. Len(fields) /\ (n + 1) - 1 = n /\ n <= Len(fields)
      BY <1>0, <2>1
    <3>2. K[n] = L[n]
      BY <3>1
    <3> QED
      BY <1>2, <3>1, <3>2
  <2> QED
    BY <2>1
<1> HIDE DEF T
<1>6. Nat \subseteq T
  BY <1>4, <1>5, SetInduction
<1>7. K[Len(fields)] = L[Len(fields)]
  BY <1>0, <1>6 DEF T
<1> QED
  BY <1>3, <1>7

(* If no field of p is longer than that of q, then no prefix of the key    *)
(* of p is longer than that of q, and equal keys split at equal places.    *)
LEMMA SameKeyShorter ==
  ASSUME NEW fields \in Seq(HashKeyField), NEW at, IsAddress(at),
         NEW p, IsPacket(p), NEW q, IsPacket(q), Shorter(p, q),
         BuildHashKey(fields, p, at) = BuildHashKey(fields, q, at)
  PROVE  SameFields(fields, p, q, at)
<1> DEFINE K == KeyUpTo(fields, p, at)
           L == KeyUpTo(fields, q, at)
           F(i) == FieldOctets(fields[i], p, at)
           G(i) == FieldOctets(fields[i], q, at)
           T == {n \in Nat : n <= Len(fields) =>
                   /\ Len(K[n]) <= Len(L[n])
                   /\ K[n] = L[n] => \A i \in 1 .. n : F(i) = G(i)}
<1>0. Len(fields) \in Nat
  OBVIOUS
<1>1. /\ K[0] = <<>> /\ L[0] = <<>>
      /\ \A n \in 0 .. Len(fields) : K[n] \in Str /\ L[n] \in Str
  BY KeyFacts, Zenon
<1>2. \A n \in 1 .. Len(fields) : /\ K[n] = K[n - 1] \o F(n) /\ F(n) \in Str
                                  /\ L[n] = L[n - 1] \o G(n) /\ G(n) \in Str
  BY KeyFacts
<1>3. \A n \in 1 .. Len(fields) : Len(F(n)) <= Len(G(n))
  <2>1. \A n \in 1 .. Len(fields) : fields[n] \in HashKeyField
    OBVIOUS
  <2> QED
    BY <2>1, FieldLengths
<1>4. K[Len(fields)] = L[Len(fields)]
  BY KeyIsLast
<1> HIDE DEF K, L, F, G
<1>5. 0 \in T
  BY <1>0, <1>1
<1>6. ASSUME NEW n \in T \cap Nat
      PROVE  n + 1 \in T
  <2>1. ASSUME n + 1 <= Len(fields)
        PROVE  /\ Len(K[n + 1]) <= Len(L[n + 1])
               /\ K[n + 1] = L[n + 1] => \A i \in 1 .. n + 1 : F(i) = G(i)
    <3>1. n + 1 \in 1 .. Len(fields) /\ (n + 1) - 1 = n /\ n <= Len(fields) /\ n \in 0 .. Len(fields)
      BY <1>0, <2>1
    <3>2. /\ Len(K[n]) <= Len(L[n])
          /\ K[n] = L[n] => \A i \in 1 .. n : F(i) = G(i)
      BY <3>1
    <3>3. /\ K[n + 1] = K[n] \o F(n + 1) /\ F(n + 1) \in Str /\ K[n] \in Str
          /\ L[n + 1] = L[n] \o G(n + 1) /\ G(n + 1) \in Str /\ L[n] \in Str
          /\ Len(F(n + 1)) <= Len(G(n + 1))
      BY <1>1, <1>2, <1>3, <3>1
    <3>4. Len(K[n + 1]) <= Len(L[n + 1])
      <4>1. /\ Len(K[n] \o F(n + 1)) = Len(K[n]) + Len(F(n + 1))
            /\ Len(K[n]) \in Nat /\ Len(F(n + 1)) \in Nat
        BY <3>3, Chain, Zenon
      <4>2. /\ Len(L[n] \o G(n + 1)) = Len(L[n]) + Len(G(n + 1))
            /\ Len(L[n]) \in Nat /\ Len(G(n + 1)) \in Nat
        BY <3>3, Chain, Zenon
      <4>3. Len(K[n] \o F(n + 1)) <= Len(L[n] \o G(n + 1))
        <5> DEFINE a == Len(K[n])
                   b == Len(F(n + 1))
                   c == Len(L[n])
                   d == Len(G(n + 1))
        <5>1. a \in Nat /\ b \in Nat /\ c \in Nat /\ d \in Nat /\ a <= c /\ b <= d
          BY <3>2, <3>3, <4>1, <4>2, Zenon
        <5> HIDE DEF a, b, c, d
        <5>2. a + b <= c + d
          BY <5>1
        <5> QED
          BY <4>1, <4>2, <5>2, Zenon DEF a, b, c, d
      <4> QED
        BY <3>3, <4>3, Zenon
    <3>5. ASSUME K[n + 1] = L[n + 1]
          PROVE  \A i \in 1 .. n + 1 : F(i) = G(i)
      <4>1. K[n] \o F(n + 1) = L[n] \o G(n + 1)
        BY <3>3, <3>5, Zenon
      <4>2. K[n] = L[n] /\ F(n + 1) = G(n + 1)
        <5> DEFINE s == K[n]
                   t == L[n]
                   a == F(n + 1)
                   b == G(n + 1)
        <5>1. s \in Str /\ t \in Str /\ a \in Str /\ b \in Str
          BY <3>3
        <5>2. Len(s) <= Len(t) /\ Len(a) <= Len(b) /\ s \o a = t \o b
          BY <3>2, <3>3, <4>1
        <5> HIDE DEF s, t, a, b
        <5>3. s = t /\ a = b
          BY <5>1, <5>2, PartsEqual
        <5> QED
          BY <5>3 DEF s, t, a, b
      <4>3. \A i \in 1 .. n + 1 : i \in 1 .. n \/ i = n + 1
        BY <3>1
      <4> QED
        BY <3>2, <4>2, <4>3, Zenon
    <3> QED
      BY <3>4, <3>5
  <2> QED
    BY <2>1
<1> HIDE DEF T
<1>7. Nat \subseteq T
  BY <1>5, <1>6, SetInduction
<1>8. \A i \in 1 .. Len(fields) : F(i) = G(i)
  BY <1>0, <1>4, <1>7 DEF T
<1> QED
  BY <1>8 DEF F, G, SameFields

(* Keys have no separators and no lengths, yet for any list of fields, in  *)
(* any order and with repetitions, and any payloads, two clients of one    *)
(* family have the same key exactly if every field adds the same octets.   *)
THEOREM KeysApart ==
  ASSUME NEW fields \in Seq(HashKeyField), NEW at, IsAddress(at),
         NEW p, IsPacket(p), NEW q, IsPacket(q), Len(p.srcIp) = Len(q.srcIp)
  PROVE  BuildHashKey(fields, p, at) = BuildHashKey(fields, q, at)
           <=> SameFields(fields, p, q, at)
<1>1. CASE Shorter(p, q)
  BY <1>1, SameFieldsSameKey, SameKeyShorter
<1>2. CASE Shorter(q, p)
  <2>1. BuildHashKey(fields, p, at) = BuildHashKey(fields, q, at)
          => SameFields(fields, q, p, at)
    BY <1>2, SameKeyShorter
  <2>2. SameFields(fields, q, p, at) => SameFields(fields, p, q, at)
    BY DEF SameFields
  <2> QED
    BY <2>1, <2>2, SameFieldsSameKey
<1> QED
  BY <1>1, <1>2, OneIsShorter

-----------------------------------------------------------------------------
(* Messages. Where the octets that are read stand in one.                  *)
IsMessage(m) ==
  /\ m.version \in Nat /\ m.set \in Nat /\ m.domain \in Nat
  /\ m.unread \in Str /\ Len(m.unread) = 10 /\ m.rest \in Str
  /\ m.length \in 0 .. 18 + Len(m.rest)

High(n) == n \div 65536
Low(n) == n % 65536

Whole(m) ==
  Octets(m.version) \o m.unread \o Octets(High(m.domain))
    \o Octets(Low(m.domain)) \o Octets(m.set) \o m.rest

LEMMA HalvesFacts ==
  ASSUME NEW m \in Nat, NEW n \in Nat
  PROVE  /\ High(n) \in Nat /\ Low(n) \in Nat
         /\ High(m) = High(n) /\ Low(m) = Low(n) => m = n
<1>1. m = (m \div 65536) * 65536 + (m % 65536) /\ n = (n \div 65536) * 65536 + (n % 65536)
  OBVIOUS
<1>2. n \div 65536 \in Nat /\ n % 65536 \in Nat
  OBVIOUS
<1> QED
  BY <1>1, <1>2 DEF High, Low

LEMMA WholeFacts ==
  ASSUME NEW m, IsMessage(m)
  PROVE  /\ Whole(m) \in Str /\ Len(Whole(m)) = 18 + Len(m.rest)
         /\ <<Whole(m)[1], Whole(m)[2]>> = Octets(m.version)
         /\ <<Whole(m)[13], Whole(m)[14]>> = Octets(High(m.domain))
         /\ <<Whole(m)[15], Whole(m)[16]>> = Octets(Low(m.domain))
         /\ <<Whole(m)[17], Whole(m)[18]>> = Octets(m.set)
<1> DEFINE v == Octets(m.version)
           h == Octets(High(m.domain))
           l == Octets(Low(m.domain))
           t == Octets(m.set)
           u == m.unread
           e == m.rest
           vu == v \o u
           vuh == vu \o h
           vuhl == vuh \o l
           vuhlt == vuhl \o t
           w == vuhlt \o e
<1>1. High(m.domain) \in Nat /\ Low(m.domain) \in Nat
  BY HalvesFacts DEF IsMessage
<1>2. /\ v \in Str /\ Len(v) = 2 /\ h \in Str /\ Len(h) = 2
      /\ l \in Str /\ Len(l) = 2 /\ t \in Str /\ Len(t) = 2
  BY <1>1, OctetsFacts DEF IsMessage
<1>3. u \in Str /\ Len(u) = 10 /\ e \in Str /\ w = Whole(m)
  BY DEF IsMessage, Whole, High, Low
<1>4. v = <<v[1], v[2]>> /\ h = <<h[1], h[2]>> /\ l = <<l[1], l[2]>> /\ t = <<t[1], t[2]>>
  BY DEF Octets
<1> HIDE DEF v, h, l, t, u, e
<1>5. vu \in Str /\ Len(vu) = 12 /\ vu[1] = v[1] /\ vu[2] = v[2]
  <2>1. /\ vu \in Str /\ Len(vu) = Len(v) + Len(u)
        /\ \A i \in 1 .. Len(v) : vu[i] = v[i]
    BY <1>2, <1>3, Chain, Zenon
  <2> HIDE DEF vu
  <2> QED
    BY <1>2, <1>3, <2>1
<1> HIDE DEF vu
<1>6. /\ vuh \in Str /\ Len(vuh) = 14 /\ vuh[1] = v[1] /\ vuh[2] = v[2]
      /\ vuh[13] = h[1] /\ vuh[14] = h[2]
  <2>1. /\ vuh \in Str /\ Len(vuh) = Len(vu) + Len(h)
        /\ \A i \in 1 .. Len(vu) : vuh[i] = vu[i]
        /\ \A i \in 1 .. Len(h) : vuh[Len(vu) + i] = h[i]
    BY <1>2, <1>5, Chain, Zenon
  <2> HIDE DEF vuh
  <2> QED
    BY <1>2, <1>5, <2>1
<1> HIDE DEF vuh
<1>7. /\ vuhl \in Str /\ Len(vuhl) = 16 /\ vuhl[1] = v[1] /\ vuhl[2] = v[2]
      /\ vuhl[13] = h[1] /\ vuhl[14] = h[2] /\ vuhl[15] = l[1] /\ vuhl[16] = l[2]
  <2>1. /\ vuhl \in Str /\ Len(vuhl) = Len(vuh) + Len(l)
        /\ \A i \in 1 .. Len(vuh) : vuhl[i] = vuh[i]
        /\ \A i \in 1 .. Len(l) : vuhl[Len(vuh) + i] = l[i]
    BY <1>2, <1>6, Chain, Zenon
  <2> HIDE DEF vuhl
  <2> QED
    BY <1>2, <1>6, <2>1
<1> HIDE DEF vuhl
<1>8. /\ vuhlt \in Str /\ Len(vuhlt) = 18 /\ vuhlt[1] = v[1] /\ vuhlt[2] = v[2]
      /\ vuhlt[13] = h[1] /\ vuhlt[14] = h[2] /\ vuhlt[15] = l[1] /\ vuhlt[16] = l[2]
      /\ vuhlt[17] = t[1] /\ vuhlt[18] = t[2]
  <2>1. /\ vuhlt \in Str /\ Len(vuhlt) = Len(vuhl) + Len(t)
        /\ \A i \in 1 .. Len(vuhl) : vuhlt[i] = vuhl[i]
        /\ \A i \in 1 .. Len(t) : vuhlt[Len(vuhl) + i] = t[i]
    BY <1>2, <1>7, Chain, Zenon
  <2> HIDE DEF vuhlt
  <2> QED
    BY <1>2, <1>7, <2>1
<1> HIDE DEF vuhlt
<1>9. /\ w \in Str /\ Len(w) = 18 + Len(e) /\ w[1] = v[1] /\ w[2] = v[2]
      /\ w[13] = h[1] /\ w[14] = h[2] /\ w[15] = l[1] /\ w[16] = l[2]
      /\ w[17] = t[1] /\ w[18] = t[2]
  <2>1. /\ w \in Str /\ Len(w) = Len(vuhlt) + Len(e)
        /\ \A i \in 1 .. Len(vuhlt) : w[i] = vuhlt[i]
    BY <1>3, <1>8, Chain, Zenon
  <2> HIDE DEF w
  <2> QED
    BY <1>8, <2>1
<1> HIDE DEF w
<1>10. /\ <<w[1], w[2]>> = v /\ <<w[13], w[14]>> = h
       /\ <<w[15], w[16]>> = l /\ <<w[17], w[18]>> = t
  BY <1>4, <1>9
<1> QED
  BY <1>3, <1>9, <1>10 DEF v, h, l, t, e

LEMMA FourOf ==
  ASSUME NEW s \in Str, Len(s) = 4
  PROVE  s = <<s[1], s[2], s[3], s[4]>>
BY DEF Str

(* What the functions of the IPFIX fields read from a message that is cut  *)
(* off after length octets.                                                *)
LEMMA MessageFacts ==
  ASSUME NEW m, IsMessage(m)
  PROVE  /\ MessageOctets(m) \in Str
         /\ DomainId(MessageOctets(m)) =
              IF m.length < 16 \/ m.version # 10 THEN <<>>
              ELSE Octets(High(m.domain)) \o Octets(Low(m.domain))
         /\ TemplateId(MessageOctets(m)) =
              IF m.length < 18 \/ m.version # 10 \/ m.set < 256 THEN <<>>
              ELSE Octets(m.set)
<1> DEFINE w == Whole(m)
           o == MessageOctets(m)
<1>1. o = SubSeq(w, 1, m.length)
  BY DEF MessageOctets, Whole, High, Low
<1>2. /\ m.length \in Nat /\ m.length <= Len(w) /\ w \in Str
  <2>1. w \in Str /\ Len(w) = 18 + Len(m.rest)
    BY WholeFacts, Zenon
  <2> HIDE DEF w
  <2>2. Len(m.rest) \in Nat /\ m.length \in 0 .. 18 + Len(m.rest)
    BY DEF IsMessage, Str
  <2> QED
    BY <2>1, <2>2
<1>3. CASE m.length = 0
  <2>1. o = <<>>
    BY <1>1, <1>3, SubSeqEmpty
  <2>2. Len(o) = 0 /\ o \in Str
    BY <2>1 DEF Str
  <2> QED
    BY <1>3, <2>2 DEF DomainId, TemplateId
<1>4. CASE m.length # 0
  <2>1. /\ o \in Str /\ Len(o) = m.length
        /\ \A i \in 1 .. m.length : o[i] = w[i]
    <3>1. 1 <= m.length
      BY <1>2, <1>4
    <3> HIDE DEF o, w
    <3>2. /\ o \in Str /\ Len(o) = m.length - 1 + 1
          /\ \A i \in 1 .. m.length - 1 + 1 : o[i] = w[1 + i - 1]
      BY <1>1, <1>2, <3>1, Slice
    <3> QED
      BY <1>2, <3>2
  <2> HIDE DEF o, w
  <2>2. ASSUME m.length >= 16
        PROVE  IsIpfix(o) <=> m.version = 10
    <3>1. o[1] = w[1] /\ o[2] = w[2]
      BY <1>2, <2>1, <2>2
    <3>2. o[1] = m.version \div 256 /\ o[2] = m.version % 256
      BY <3>1, WholeFacts DEF Octets, w
    <3>3. Number(m.version \div 256, m.version % 256) = m.version
      BY OctetsInjective DEF IsMessage
    <3>4. Number(o[1], o[2]) = m.version
      BY <3>2, <3>3
    <3> QED
      BY <3>4 DEF IsIpfix
  <2>3. ASSUME m.length >= 16
        PROVE  SubSeq(o, 13, 16) = Octets(High(m.domain)) \o Octets(Low(m.domain))
    <3> DEFINE s == SubSeq(o, 13, 16)
               h == Octets(High(m.domain))
               l == Octets(Low(m.domain))
    <3>1. \A i \in 1 .. 16 : o[i] = w[i]
      BY <1>2, <2>1, <2>3
    <3>2. /\ s \in Str /\ Len(s) = 4 /\ s[1] = o[13] /\ s[2] = o[14] /\ s[3] = o[15] /\ s[4] = o[16]
      BY <1>2, <2>1, <2>3, Slice
    <3>3. h = <<w[13], w[14]>> /\ l = <<w[15], w[16]>>
      BY WholeFacts DEF w
    <3> HIDE DEF s, h, l
    <3>4. h \o l = <<w[13], w[14], w[15], w[16]>>
      <4> DEFINE c == h \o l
      <4>1. h \in Str /\ Len(h) = 2 /\ l \in Str /\ Len(l) = 2
        BY HalvesFacts, OctetsFacts DEF IsMessage, h, l
      <4>2. /\ c \in Str /\ Len(c) = Len(h) + Len(l)
            /\ \A i \in 1 .. Len(h) : c[i] = h[i]
            /\ \A i \in 1 .. Len(l) : c[Len(h) + i] = l[i]
        BY <4>1, Chain, Zenon
      <4> HIDE DEF c
      <4>3. Len(c) = 4 /\ c[1] = h[1] /\ c[2] = h[2] /\ c[3] = l[1] /\ c[4] = l[2]
        BY <4>1, <4>2
      <4>4. c = <<c[1], c[2], c[3], c[4]>>
        BY <4>2, <4>3, FourOf
      <4>5. c = <<w[13], w[14], w[15], w[16]>>
        BY <3>3, <4>3, <4>4
      <4> QED
        BY <4>5 DEF c
    <3>5. s = <<s[1], s[2], s[3], s[4]>>
      BY <3>2 DEF Str
    <3>6. s = <<w[13], w[14], w[15], w[16]>>
      BY <3>1, <3>2, <3>5
    <3> QED
      BY <3>4, <3>6, Zenon DEF s, h, l
  <2>4. ASSUME m.length >= 18
        PROVE  /\ SubSeq(o, 17, 18) = Octets(m.set)
               /\ Number(o[17], o[18]) = m.set
    <3> DEFINE s == SubSeq(o, 17, 18)
    <3>1. \A i \in 1 .. 18 : o[i] = w[i]
      BY <1>2, <2>1, <2>4
    <3>2. s \in Str /\ Len(s) = 2 /\ s[1] = o[17] /\ s[2] = o[18]
      BY <1>2, <2>1, <2>4, Slice
    <3>3. Octets(m.set) = <<w[17], w[18]>>
      BY WholeFacts DEF w
    <3> HIDE DEF s
    <3>4. s = <<s[1], s[2]>>
      BY <3>2 DEF Str
    <3>5. s = Octets(m.set)
      BY <3>1, <3>2, <3>3, <3>4
    <3>6. o[17] = m.set \div 256 /\ o[18] = m.set % 256
      BY <3>1, <3>3 DEF Octets
    <3>7. Number(o[17], o[18]) = m.set
      BY <3>6, OctetsInjective DEF IsMessage
    <3> QED
      BY <3>5, <3>7 DEF s
  <2>5. DomainId(o) = IF m.length < 16 \/ m.version # 10 THEN <<>>
                      ELSE Octets(High(m.domain)) \o Octets(Low(m.domain))
    <3>1. CASE m.length < 16
      BY <2>1, <3>1 DEF DomainId
    <3>2. CASE m.length >= 16
      <4>1. ~(m.length < 16) /\ ~(Len(o) < 16)
        BY <1>2, <2>1, <3>2
      <4>2. DomainId(o) = IF ~IsIpfix(o) THEN <<>> ELSE SubSeq(o, 13, 16)
        BY <4>1 DEF DomainId
      <4>3. CASE m.version = 10
        BY <2>2, <2>3, <3>2, <4>1, <4>2, <4>3
      <4>4. CASE m.version # 10
        BY <2>2, <3>2, <4>2, <4>4
      <4> QED
        BY <4>3, <4>4
    <3> QED
      BY <1>2, <3>1, <3>2
  <2>6. TemplateId(o) = IF m.length < 18 \/ m.version # 10 \/ m.set < 256 THEN <<>>
                        ELSE Octets(m.set)
    <3>1. CASE m.length < 18
      BY <2>1, <3>1 DEF TemplateId
    <3>2. CASE m.length >= 18
      <4>1. ~(m.length < 18) /\ ~(Len(o) < 18) /\ m.length >= 16
        BY <1>2, <2>1, <3>2
      <4>2. TemplateId(o) = IF ~IsIpfix(o) \/ m.set < 256 THEN <<>> ELSE SubSeq(o, 17, 18)
        BY <2>4, <3>2, <4>1 DEF TemplateId
      <4>3. CASE m.version = 10
        BY <2>2, <2>4, <3>2, <4>1, <4>2, <4>3
      <4>4. CASE m.version # 10
        BY <2>2, <4>1, <4>2, <4>4
      <4> QED
        BY <4>3, <4>4
    <3> QED
      BY <1>2, <3>1, <3>2
  <2> QED
    BY <2>1, <2>5, <2>6 DEF o
<1> QED
  BY <1>3, <1>4

-----------------------------------------------------------------------------
(* Four octets determine the number, and are not none.                     *)
Long(n) == Octets(High(n)) \o Octets(Low(n))

LEMMA LongInjective ==
  ASSUME NEW m \in Nat, NEW n \in Nat
  PROVE  /\ Long(m) = Long(n) <=> m = n
         /\ Long(m) # <<>>
<1>1. /\ High(m) \in Nat /\ Low(m) \in Nat /\ High(n) \in Nat /\ Low(n) \in Nat
      /\ High(m) = High(n) /\ Low(m) = Low(n) => m = n
  BY HalvesFacts
<1> DEFINE a == Octets(High(m))
           b == Octets(Low(m))
           c == Octets(High(n))
           d == Octets(Low(n))
<1>2. /\ a \in Str /\ b \in Str /\ c \in Str /\ d \in Str
      /\ Len(a) = 2 /\ Len(b) = 2 /\ Len(c) = 2 /\ Len(d) = 2
  BY <1>1, OctetsFacts
<1>3. a = c /\ b = d => m = n
  BY <1>1, OctetsInjective
<1>4. Long(m) = a \o b /\ Long(n) = c \o d
  BY DEF Long
<1> HIDE DEF a, b, c, d
<1>5. a \o b = c \o d => a = c /\ b = d
  <2>1. Len(a) <= Len(c) /\ Len(b) <= Len(d)
    BY <1>2
  <2> QED
    BY <1>2, <2>1, PartsEqual, Zenon
<1>6. Len(a \o b) = 4
  <2>1. Len(a \o b) = Len(a) + Len(b)
    BY <1>2, Chain, Zenon
  <2> QED
    BY <1>2, <2>1
<1>7. Long(m) # <<>>
  BY <1>4, <1>6
<1> QED
  BY <1>3, <1>4, <1>5, <1>7

(* What was sent is a packet, from clients of one family.                  *)
LEMMA SentFacts ==
  ASSUME NEW at \in Bounds, NEW x \in Sent(at)
  PROVE  /\ x[2] \in Nat /\ IsMessage(x[4])
         /\ IsPacket(PacketOf(x)) /\ IsAddress(at)
         /\ \A y \in Sent(at) : Len(PacketOf(x).srcIp) = Len(PacketOf(y).srcIp)
<1>1. Octet \subseteq Nat /\ Word \subseteq Nat
  BY DEF Octet, Word
<1>2. \A s \in Seq(Octet) : s \in Str
  BY <1>1, SeqMonotonic DEF Str
<1>3. x[1] \in Sources /\ x[2] \in SourcePorts /\ x[4] \in Messages
  BY DEF Sent
<1>4. x[2] \in Nat /\ IsAddress(at)
  <2>1. x[2] \in Word /\ at.ip \in Seq(Octet) /\ at.port \in Word
    BY <1>3, HashKeyAssumption
  <2> QED
    BY <1>1, <1>2, <2>1, Zenon DEF IsAddress
<1>5. IsMessage(x[4])
  <2> DEFINE m == x[4]
  <2>1. /\ m.version \in Word /\ m.set \in Word /\ m.domain \in Nat
        /\ m.unread \in Seq(Octet) /\ Len(m.unread) = 10 /\ m.rest \in Seq(Octet)
        /\ m.length \in 0 .. (18 + Len(m.rest))
    BY <1>3, HashKeyAssumption
  <2> HIDE DEF m
  <2>2. m.version \in Nat /\ m.set \in Nat /\ m.unread \in Str /\ m.rest \in Str
    BY <1>1, <1>2, <2>1, Zenon
  <2>3. IsMessage(m)
    BY <2>1, <2>2, Zenon DEF IsMessage
  <2> QED
    BY <2>3 DEF m
<1>6. MessageOctets(x[4]) \in Str
  BY <1>5, MessageFacts
<1>7. x[1] \in Str
  BY <1>2, <1>3, HashKeyAssumption
<1>8. IsPacket(PacketOf(x))
  BY <1>4, <1>6, <1>7 DEF PacketOf, IsPacket
<1>9. \A y \in Sent(at) : Len(PacketOf(x).srcIp) = Len(PacketOf(y).srcIp)
  BY <1>3, HashKeyAssumption DEF Sent, PacketOf
<1> QED
  BY <1>4, <1>5, <1>8, <1>9

(* A field adds the same octets for two packets exactly if they agree in   *)
(* its value, or both have none; the destination address of a wildcard     *)
(* adds the same to all.                                                   *)
LEMMA FieldIdentifies ==
  ASSUME NEW f \in HashKeyField, NEW at \in Bounds,
         NEW x \in Sent(at), NEW y \in Sent(at)
  PROVE  FieldOctets(f, PacketOf(x), at) = FieldOctets(f, PacketOf(y), at)
           <=> Unseen(f, at) \/ Selected(f, x) = Selected(f, y)
<1> DEFINE F(z) == FieldOctets(f, PacketOf(z), at)
           V(z) == Selected(f, z)
<1>1. x[2] \in Nat /\ y[2] \in Nat /\ IsMessage(x[4]) /\ IsMessage(y[4])
  BY SentFacts
<1>0. f # "dst_ip" => ~Unseen(f, at)
  BY DEF Unseen
<1>2. CASE f = "src_ip"
  BY <1>0, <1>2 DEF FieldOctets, Selected, PacketOf
<1>3. CASE f = "src_port"
  <2>1. F(x) = Octets(x[2]) /\ F(y) = Octets(y[2])
    BY <1>3 DEF FieldOctets, PacketOf
  <2>2. V(x) = {x[2]} /\ V(y) = {y[2]}
    BY <1>3 DEF Selected
  <2>3. F(x) = F(y) <=> x[2] = y[2]
    BY <1>1, <2>1, OctetsInjective
  <2> QED
    BY <1>0, <1>3, <2>2, <2>3
<1>4. CASE f = "dst_ip" \/ f = "dst_port"
  <2>1. F(x) = F(y)
    BY <1>4 DEF FieldOctets
  <2>2. /\ x[3].port = at.port /\ y[3].port = at.port
        /\ ~Wildcard(at.ip) => x[3].ip = at.ip /\ y[3].ip = at.ip
    BY DEF Sent, Destinations
  <2>3. Unseen(f, at) \/ V(x) = V(y)
    BY <1>4, <2>2 DEF Unseen, Selected
  <2> QED
    BY <2>1, <2>3
<1>5. CASE f = "ipfix"
  <2> DEFINE Has(z) == z[4].length >= 16 /\ z[4].version = 10
  <2>1. ASSUME NEW z \in Sent(at)
        PROVE  /\ Has(z) => F(z) = Long(z[4].domain) /\ V(z) = {z[4].domain}
               /\ ~Has(z) => F(z) = <<>> /\ V(z) = {}
    <3>1. IsMessage(z[4]) /\ z[4].length \in Int
      BY SentFacts DEF IsMessage
    <3>2. F(z) = DomainId(MessageOctets(z[4]))
      BY <1>5 DEF FieldOctets, PacketOf
    <3>3. F(z) = IF z[4].length < 16 \/ z[4].version # 10 THEN <<>> ELSE Long(z[4].domain)
      BY <3>1, <3>2, MessageFacts DEF Long
    <3>4. V(z) = {n \in {z[4].domain} : Has(z)}
      BY <1>5 DEF Selected
    <3>5. z[4].length < 16 <=> ~(z[4].length >= 16)
      BY <3>1
    <3> HIDE DEF F, V
    <3> QED
      BY <3>3, <3>4, <3>5
  <2>2. /\ Long(x[4].domain) # <<>> /\ Long(y[4].domain) # <<>>
        /\ Long(x[4].domain) = Long(y[4].domain) <=> x[4].domain = y[4].domain
    BY <1>1, LongInjective DEF IsMessage
  <2> HIDE DEF F, V, Has
  <2>3. F(x) = F(y) <=> V(x) = V(y)
    BY <2>1, <2>2
  <2> QED
    BY <1>0, <1>5, <2>3 DEF F, V
<1>6. CASE f = "ipfix_template_id"
  <2> DEFINE Has(z) == z[4].length >= 18 /\ z[4].version = 10 /\ z[4].set >= 256
  <2>1. ASSUME NEW z \in Sent(at)
        PROVE  /\ Has(z) => F(z) = Octets(z[4].set) /\ V(z) = {z[4].set}
               /\ ~Has(z) => F(z) = <<>> /\ V(z) = {}
    <3>1. IsMessage(z[4]) /\ z[4].length \in Int /\ z[4].set \in Int
      BY SentFacts DEF IsMessage
    <3>2. F(z) = TemplateId(MessageOctets(z[4]))
      BY <1>6 DEF FieldOctets, PacketOf
    <3>3. F(z) = IF z[4].length < 18 \/ z[4].version # 10 \/ z[4].set < 256
                 THEN <<>> ELSE Octets(z[4].set)
      BY <3>1, <3>2, MessageFacts
    <3>4. V(z) = {n \in {z[4].set} : z[4].length >= 18 /\ z[4].version = 10 /\ n >= 256}
      BY <1>6 DEF Selected
    <3>5. /\ z[4].length < 18 <=> ~(z[4].length >= 18)
          /\ z[4].set < 256 <=> ~(z[4].set >= 256)
      BY <3>1
    <3> HIDE DEF F, V
    <3> QED
      BY <3>3, <3>4, <3>5
  <2>2. /\ Octets(x[4].set) # <<>> /\ Octets(y[4].set) # <<>>
        /\ Octets(x[4].set) = Octets(y[4].set) <=> x[4].set = y[4].set
    BY <1>1, OctetsFacts, OctetsInjective DEF IsMessage
  <2> HIDE DEF F, V, Has
  <2>3. F(x) = F(y) <=> V(x) = V(y)
    BY <2>1, <2>2
  <2> QED
    BY <1>0, <1>6, <2>3 DEF F, V
<1> QED
  BY <1>2, <1>3, <1>4, <1>5, <1>6 DEF HashKeyField

(* A key stands for one flow, and a flow has one key. *)
LEMMA NoneAmbiguous == Ambiguous = {}
<1> SUFFICES ASSUME NEW fields \in FieldLists, NEW at \in Bounds,
                    NEW x \in Sent(at), NEW y \in Sent(at)
             PROVE  FlowOf(fields, x, at) = FlowOf(fields, y, at)
                      <=> KeyOf(fields, x, at) = KeyOf(fields, y, at)
  BY DEF Ambiguous
<1>1. fields \in Seq(HashKeyField)
  BY HashKeyAssumption
<1>2. KeyOf(fields, x, at) = KeyOf(fields, y, at)
        <=> SameFields(fields, PacketOf(x), PacketOf(y), at)
  BY <1>1, SentFacts, KeysApart DEF KeyOf
<1>3. FlowOf(fields, x, at) = FlowOf(fields, y, at)
        <=> \A i \in 1 .. Len(fields) :
              Unseen(fields[i], at) \/ Selected(fields[i], x) = Selected(fields[i], y)
  BY DEF FlowOf
<1>4. \A i \in 1 .. Len(fields) : fields[i] \in HashKeyField
  BY <1>1
<1> QED
  BY <1>2, <1>3, <1>4, FieldIdentifies DEF SameFields

(* README "Hash Keys": packets of one listener have the same key if and    *)
(* only if they agree in the selected fields, whatever fields are          *)
(* configured, whatever address the listener is bound to and whatever      *)
(* clients send to it, in every call of next(); save that a wildcard       *)
(* listener does not see the destination address.                          *)
THEOREM KeysIdentifyFlows == Spec => []KeyIdentifiesFlow
<1>1. KeyIdentifiesFlow
  BY NoneAmbiguous DEF KeyIdentifiesFlow
<1> QED
  BY <1>1, PTL
=============================================================================
