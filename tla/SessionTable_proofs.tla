------------------------ MODULE SessionTable_proofs ------------------------
(***************************************************************************)
(* Theorems of SessionTable, for any flows, any timeout, any lag of the    *)
(* cleanup task and any length of the run.                                 *)
(***************************************************************************)
EXTENDS SessionTable, TLAPS

(* The clock and the cleanup task: the next tick is at most one interval   *)
(* away and never more than Lag behind, a cleanup under way began at most  *)
(* Lag ago, and has already set the next tick.                             *)
TaskInv ==
  /\ next <= now + Interval
  /\ now <= next + Lag
  /\ sweep # None =>
       /\ sweep.at <= now
       /\ now <= sweep.at + Lag
       /\ next <= sweep.at + Interval

(* A session never carries a stamp of the future. *)
StampInv(f) == last[f] # None => last[f] <= now

(* Neither does a forward, and one that has still to insert its session    *)
(* stamped it at most Lag ago. The session of one that has shared it is as *)
(* young as the forward's stamp, unless that is more than a timeout ago.   *)
CallInv(w) ==
  call[w] # None =>
    /\ call[w].at # None => call[w].at <= now
    /\ Stamped(w) => now <= call[w].at + Lag
    /\ call[w].shared =>
         /\ call[w].at # None
         /\ \/ last[call[w].flow] # None /\ call[w].at <= last[call[w].flow]
            \/ now > call[w].at + Timeout

(* How old a session may be. One the cleanup under way has not looked at   *)
(* yet was last looked at by the cleanup before it; any other one expires  *)
(* no earlier than one timeout before the interval that ends at next.      *)
AgeInv(f) ==
  last[f] # None =>
    IF sweep # None /\ f \in sweep.left
    THEN sweep.at <= last[f] + Timeout + Interval + Lag
    ELSE next <= last[f] + Timeout + Interval

(* The inductive invariant. *)
IInv ==
  /\ TypeOK
  /\ TaskInv
  /\ \A f \in Flows : StampInv(f) /\ AgeInv(f)
  /\ \A w \in Workers : CallInv(w)

-----------------------------------------------------------------------------
(* The interval of the task is a positive part of the timeout. *)
LEMMA IntervalFacts ==
  /\ Interval \in Nat /\ Interval > 0 /\ Interval <= Timeout
  /\ Timeout \in Nat /\ Lag \in Nat /\ Lag <= Timeout /\ Horizon \in Nat
BY TimeAssumption DEF Interval

(* The tick after a is the next multiple of the interval. *)
LEMMA NextTick ==
  ASSUME NEW a \in Nat
  PROVE  /\ ((a \div Interval) + 1) * Interval \in Nat
         /\ ((a \div Interval) + 1) * Interval <= a + Interval
         /\ a < ((a \div Interval) + 1) * Interval
<1>1. Interval \in Nat /\ Interval > 0
  BY IntervalFacts
<1> DEFINE i == Interval
<1> HIDE DEF i
<1>2. i \in Nat /\ i > 0
  BY <1>1 DEF i
<1>3. a \div i \in Nat /\ i * (a \div i) <= a /\ a < i * (a \div i) + i
  BY <1>2
<1>4. ((a \div i) + 1) * i = i * (a \div i) + i
  BY <1>2, <1>3
<1> QED
  BY <1>2, <1>3, <1>4 DEF i

LEMMA InitIInv == Init => IInv
BY IntervalFacts, NoneAssumption DEF Init, IInv, TypeOK, TaskInv, StampInv, AgeInv, CallInv

(* A cleanup under way is not None, and what it is. *)
LEMMA SweepFacts ==
  ASSUME TypeOK, sweep # None
  PROVE  sweep.at \in 0 .. Horizon /\ sweep.left \subseteq Flows
BY DEF TypeOK, Sweeps

(* A forward, and what it is after Enter. *)
LEMMA CallFacts ==
  ASSUME TypeOK, NEW w \in Workers, call[w] # None
  PROVE  /\ call[w].flow \in Flows /\ call[w].shared \in BOOLEAN
         /\ call[w].at \in 0 .. Horizon \cup {None}
BY DEF TypeOK, Calls

LEMMA EnterFacts ==
  ASSUME TypeOK, NEW w \in Workers, NEW f \in Flows,
         NEW t \in 0 .. Horizon \cup {None}, NEW s \in BOOLEAN, Enter(w, f, t, s)
  PROVE  /\ call' \in [Workers -> Calls \cup {None}]
         /\ call'[w] # None
         /\ call'[w].flow = f /\ call'[w].at = t /\ call'[w].shared = s
         /\ \A v \in Workers \ {w} : call'[v] = call[v]
<1>1. [flow |-> f, at |-> t, shared |-> s] \in Calls
  BY DEF Calls
<1>2. [flow |-> f, at |-> t, shared |-> s] # None
  BY <1>1, NoneAssumption
<1> QED
  BY <1>1, <1>2 DEF Enter, TypeOK

(* A step that stamps f, or inserts it with a stamp that is no more than   *)
(* Lag old and not above the clock: whichever bound AgeInv sets holds of   *)
(* the clock less the lag, and no other forward of the flow is harmed.     *)
LEMMA StampedInv ==
  ASSUME IInv, NEW w \in Workers, NEW f \in Flows, NEW t \in 0 .. Horizon,
         t <= now, now <= t + Lag,
         last[f] # None => last[f] <= t,
         last' = [last EXCEPT ![f] = t], Enter(w, f, t, TRUE),
         UNCHANGED <<now, next, sweep>>
  PROVE  IInv'
<1> USE IntervalFacts DEF IInv
<1>1. /\ now \in 0 .. Horizon /\ next \in Nat
      /\ \A g \in Flows : last[g] \in 0 .. Horizon \cup {None}
      /\ last'[f] = t /\ \A g \in Flows \ {f} : last'[g] = last[g]
      /\ t # None
  BY NoneAssumption DEF TypeOK
<1>2. /\ call' \in [Workers -> Calls \cup {None}]
      /\ call'[w] # None
      /\ call'[w].flow = f /\ call'[w].at = t /\ call'[w].shared = TRUE
      /\ \A v \in Workers \ {w} : call'[v] = call[v]
  BY EnterFacts
<1>3. TypeOK'
  BY <1>2 DEF TypeOK
<1>4. TaskInv'
  BY DEF TaskInv
<1>5. ASSUME NEW g \in Flows
      PROVE  StampInv(g)' /\ AgeInv(g)'
  <2>1. CASE g # f
    BY <1>1, <2>1 DEF StampInv, AgeInv
  <2>2. CASE g = f
    <3>1. StampInv(g)'
      BY <1>1, <2>2 DEF StampInv
    <3>2. /\ sweep # None => sweep.at <= t + Timeout + Interval + Lag
          /\ next <= t + Timeout + Interval
      BY <1>1, SweepFacts DEF TaskInv
    <3>3. AgeInv(g)'
      BY <1>1, <2>2, <3>2 DEF AgeInv
    <3> QED
      BY <3>1, <3>3
  <2> QED
    BY <2>1, <2>2
<1>6. ASSUME NEW v \in Workers
      PROVE  CallInv(v)'
  <2>1. CASE v = w
    BY <1>1, <1>2, <2>1 DEF CallInv, Stamped
  <2>2. CASE v # w
    <3>1. call'[v] = call[v]
      BY <1>2, <2>2
    <3>2. SUFFICES ASSUME call[v] # None
                   PROVE  CallInv(v)'
      BY <3>1 DEF CallInv
    <3>3. /\ call[v].flow \in Flows
          /\ call[v].at # None => call[v].at \in Nat
      BY <3>2, CallFacts
    <3>4. CallInv(v)
      OBVIOUS
    <3>5. /\ call[v].at # None => call[v].at <= now
          /\ Stamped(v)' => now <= call[v].at + Lag
      BY <3>1, <3>2, <3>4 DEF CallInv, Stamped
    <3>6. ASSUME call[v].shared
          PROVE  /\ call[v].at # None
                 /\ \/ /\ last'[call[v].flow] # None
                       /\ call[v].at <= last'[call[v].flow]
                    \/ now > call[v].at + Timeout
      <4>1. /\ call[v].at # None
            /\ \/ last[call[v].flow] # None /\ call[v].at <= last[call[v].flow]
               \/ now > call[v].at + Timeout
        BY <3>2, <3>4, <3>6 DEF CallInv
      <4>2. CASE call[v].flow # f
        BY <1>1, <3>3, <4>1, <4>2
      <4>3. CASE call[v].flow = f
        BY <1>1, <3>3, <4>1, <4>3
      <4> QED
        BY <4>2, <4>3
    <3> QED
      BY <3>1, <3>5, <3>6 DEF CallInv
  <2> QED
    BY <2>1, <2>2
<1> QED
  BY <1>3, <1>4, <1>5, <1>6

LEMMA TakeInv ==
  ASSUME IInv, NEW w \in Workers, NEW f \in Flows, Take(w, f)
  PROVE  IInv'
<1>1. /\ now \in 0 .. Horizon /\ now <= now /\ now <= now + Lag
      /\ last[f] # None => last[f] <= now
  BY IntervalFacts DEF IInv, TypeOK, StampInv
<1> QED
  BY <1>1, StampedInv DEF Take

(* The entry API: with the old stamp into an empty place, or with a new    *)
(* one over a stamp that is not younger.                                   *)
LEMMA InsertInv ==
  ASSUME IInv, NEW w \in Workers, Insert(w)
  PROVE  IInv'
<1> DEFINE f == call[w].flow
           t == IF last[f] = None THEN call[w].at ELSE now
<1>1. /\ call[w] # None /\ call[w].at # None
      /\ last' = [last EXCEPT ![f] = t] /\ Enter(w, f, t, TRUE)
      /\ UNCHANGED <<now, next, sweep>>
  BY DEF Insert, Stamped
<1>2. f \in Flows /\ call[w].at \in 0 .. Horizon
  BY <1>1, CallFacts DEF IInv
<1>3. call[w].at <= now /\ now <= call[w].at + Lag
  BY <1>1 DEF IInv, CallInv, Insert
<1>4. now \in 0 .. Horizon /\ (last[f] # None => last[f] <= now)
  BY <1>2 DEF IInv, TypeOK, StampInv
<1>5. /\ t \in 0 .. Horizon /\ t <= now /\ now <= t + Lag
      /\ last[f] # None => last[f] <= t
  BY <1>2, <1>3, <1>4, IntervalFacts
<1> HIDE DEF f, t
<1> QED
  BY <1>1, <1>2, <1>5, StampedInv

(* A step of one forward that leaves the table, the clock and the cleanup  *)
(* alone, and whose stamp, if it has one, is not in the table yet.         *)
LEMMA ForwardInv ==
  ASSUME IInv, NEW w \in Workers,
         call' \in [Workers -> Calls \cup {None}],
         \A v \in Workers \ {w} : call'[v] = call[v],
         call'[w] # None => /\ ~call'[w].shared
                            /\ call'[w].at \in {None, now},
         UNCHANGED <<now, last, next, sweep>>
  PROVE  IInv'
<1> USE IntervalFacts DEF IInv
<1>1. TypeOK'
  BY DEF TypeOK
<1>2. TaskInv'
  BY DEF TaskInv
<1>3. ASSUME NEW g \in Flows
      PROVE  StampInv(g)' /\ AgeInv(g)'
  BY DEF StampInv, AgeInv
<1>4. ASSUME NEW v \in Workers
      PROVE  CallInv(v)'
  <2>1. CASE v # w
    <3>1. call'[v] = call[v]
      BY <2>1
    <3>2. CallInv(v)
      OBVIOUS
    <3> QED
      BY <3>1, <3>2 DEF CallInv, Stamped
  <2>2. CASE v = w
    <3>1. now \in Nat
      BY DEF TypeOK
    <3> QED
      BY <2>2, <3>1 DEF CallInv, Stamped
  <2> QED
    BY <2>1, <2>2
<1> QED
  BY <1>1, <1>2, <1>3, <1>4

LEMMA MissInv ==
  ASSUME IInv, NEW w \in Workers, NEW f \in Flows, Miss(w, f)
  PROVE  IInv'
<1>1. /\ call' \in [Workers -> Calls \cup {None}]
      /\ call'[w].at = None /\ call'[w].shared = FALSE
      /\ \A v \in Workers \ {w} : call'[v] = call[v]
  BY EnterFacts DEF Miss, IInv
<1> QED
  BY <1>1, ForwardInv DEF Miss

LEMMA StampInsideInv ==
  ASSUME IInv, NEW w \in Workers, Stamp(w)
  PROVE  IInv'
<1>1. call[w].flow \in Flows /\ now \in 0 .. Horizon
  BY CallFacts DEF Stamp, IInv, TypeOK
<1>2. /\ call' \in [Workers -> Calls \cup {None}]
      /\ call'[w].at = now /\ call'[w].shared = FALSE
      /\ \A v \in Workers \ {w} : call'[v] = call[v]
  BY <1>1, EnterFacts DEF Stamp, IInv
<1> QED
  BY <1>2, ForwardInv DEF Stamp

LEMMA LeaveInv ==
  ASSUME IInv, NEW w \in Workers, Leave(w)
  PROVE  IInv'
<1>1. /\ call' \in [Workers -> Calls \cup {None}]
      /\ call'[w] = None
      /\ \A v \in Workers \ {w} : call'[v] = call[v]
  BY DEF Leave, IInv, TypeOK
<1> QED
  BY <1>1, ForwardInv DEF Leave

(* A cleanup starts at most Lag after its tick: every session, now one the *)
(* cleanup has still to look at, is older by that lag at most.             *)
LEMMA SweepStartInv ==
  ASSUME IInv, SweepStart
  PROVE  IInv'
<1> USE IntervalFacts DEF IInv
<1>1. /\ sweep = None /\ now >= next
      /\ sweep' = [at |-> now, left |-> Flows] /\ sweep'.at = now
      /\ next' \in Nat /\ next' <= now + Interval /\ now < next'
      /\ UNCHANGED <<now, last, call>>
      /\ now \in 0 .. Horizon /\ next \in Nat
  BY NextTick DEF SweepStart, TypeOK
<1>2. sweep' \in Sweeps /\ sweep' # None /\ sweep'.left = Flows
  BY <1>1, NoneAssumption DEF Sweeps
<1>3. TypeOK'
  BY <1>1, <1>2 DEF TypeOK
<1>4. TaskInv'
  <2>1. now' <= next' + Lag
    <3> DEFINE tick == next'
    <3>1. now' = now /\ now \in Nat /\ tick \in Nat /\ now < tick
      BY <1>1
    <3> HIDE DEF tick
    <3>2. now' <= tick + Lag
      BY <3>1, IntervalFacts
    <3> QED
      BY <3>2 DEF tick
  <2>2. /\ sweep'.at <= now' /\ now' <= sweep'.at + Lag
        /\ next' <= sweep'.at + Interval /\ next' <= now' + Interval
    BY <1>1
  <2> QED
    BY <2>1, <2>2 DEF TaskInv
<1>5. ASSUME NEW f \in Flows
      PROVE  StampInv(f)' /\ AgeInv(f)'
  <2>1. StampInv(f)'
    BY <1>1 DEF StampInv
  <2>2. AgeInv(f)'
    <3>1. last[f] # None => now <= last[f] + Timeout + Interval + Lag
      <4>1. last[f] # None => last[f] \in Nat /\ next <= last[f] + Timeout + Interval
        BY <1>1 DEF AgeInv, TypeOK
      <4> QED
        BY <1>1, <4>1 DEF TaskInv
    <3> QED
      BY <1>1, <1>2, <3>1 DEF AgeInv
  <2> QED
    BY <2>1, <2>2
<1>6. ASSUME NEW w \in Workers
      PROVE  CallInv(w)'
  <2>1. CallInv(w)
    OBVIOUS
  <2> QED
    BY <1>1, <2>1 DEF CallInv, Stamped
<1> QED
  BY <1>3, <1>4, <1>5, <1>6

(* The cleanup looks at f. What it keeps is at most one timeout old at the *)
(* cleanup's instant; what it takes is older, and with it the stamp of     *)
(* every forward that uses it.                                             *)
LEMMA VisitInv ==
  ASSUME IInv, NEW f \in Flows, Visit(f)
  PROVE  IInv'
<1> USE IntervalFacts DEF IInv
<1>1. /\ sweep # None /\ f \in sweep.left
      /\ UNCHANGED <<now, call, next>>
      /\ last' = [last EXCEPT ![f] = IF Expired(f) THEN None ELSE @]
      /\ sweep' = IF sweep.left = {f} THEN None
                 ELSE [sweep EXCEPT !.left = @ \ {f}]
  BY DEF Visit
<1>2. /\ sweep \in Sweeps
      /\ sweep.at \in 0 .. Horizon /\ sweep.left \subseteq Flows
  BY <1>1, SweepFacts DEF TypeOK
<1>3. \/ sweep' = None /\ sweep.left = {f}
      \/ /\ sweep' \in Sweeps /\ sweep' # None
         /\ sweep'.at = sweep.at /\ sweep'.left = sweep.left \ {f}
  BY <1>1, <1>2, NoneAssumption DEF Sweeps
<1>4. /\ now \in Nat /\ next \in Nat
      /\ \A g \in Flows : last[g] \in Nat \cup {None}
  BY DEF TypeOK
<1>5. TypeOK'
  BY <1>1, <1>3 DEF TypeOK
<1>6. TaskInv'
  BY <1>1, <1>3 DEF TaskInv
<1>7. ASSUME NEW g \in Flows
      PROVE  StampInv(g)' /\ AgeInv(g)'
  <2>1. CASE g # f
    <3>1. last'[g] = last[g]
      BY <1>1, <2>1 DEF TypeOK
    <3>2. sweep' # None /\ g \in sweep'.left <=> g \in sweep.left
      BY <1>3, <2>1
    <3>3. StampInv(g)'
      BY <1>1, <3>1 DEF StampInv
    <3>4. AgeInv(g)'
      BY <1>1, <1>3, <3>1, <3>2 DEF AgeInv
    <3> QED
      BY <3>3, <3>4
  <2>2. CASE g = f
    <3>1. last'[f] = IF Expired(f) THEN None ELSE last[f]
      BY <1>1 DEF TypeOK
    <3>3. StampInv(f)'
      BY <1>1, <3>1 DEF StampInv
    <3>4. ~(sweep' # None /\ f \in sweep'.left)
      BY <1>3
    <3>5. last'[f] # None => next <= last[f] + Timeout + Interval
      <4>1. SUFFICES ASSUME last'[f] # None
                     PROVE  next <= last[f] + Timeout + Interval
        OBVIOUS
      <4>2. last[f] \in Nat /\ ~(Age(f) > Timeout)
        BY <1>4, <3>1, <4>1 DEF Expired
      <4>3. sweep.at <= last[f] + Timeout
        BY <1>2, <4>2 DEF Age
      <4> QED
        BY <1>1, <1>2, <1>4, <4>2, <4>3 DEF TaskInv
    <3>6. AgeInv(f)'
      BY <1>1, <3>1, <3>4, <3>5 DEF AgeInv
    <3> QED
      BY <2>2, <3>3, <3>6
  <2> QED
    BY <2>1, <2>2
<1>8. ASSUME NEW w \in Workers
      PROVE  CallInv(w)'
  <2>1. CallInv(w) /\ UNCHANGED <<now, call>>
    BY <1>1
  <2>2. SUFFICES ASSUME call[w] # None, call[w].shared, call[w].flow = f,
                        call[w].at # None, last[f] # None,
                        call[w].at <= last[f]
                 PROVE  \/ last'[f] # None /\ call[w].at <= last'[f]
                        \/ now > call[w].at + Timeout
    <3>1. \A g \in Flows \ {f} : last'[g] = last[g]
      BY <1>1 DEF TypeOK
    <3>2. call[w] # None => call[w].flow \in Flows
      BY CallFacts
    <3> QED
      BY <2>1, <3>1, <3>2 DEF CallInv, Stamped
  <2>3. call[w].at \in Nat /\ last[f] \in Nat
    BY <1>4, <2>2, CallFacts
  <2>4. CASE Expired(f)
    <3>1. sweep.at - last[f] > Timeout
      BY <1>2, <2>3, <2>4 DEF Expired, Age
    <3>2. sweep.at <= now /\ sweep.at \in Nat
      BY <1>1, <1>2 DEF TaskInv
    <3> QED
      BY <1>4, <2>2, <2>3, <3>1, <3>2
  <2>5. CASE ~Expired(f)
    BY <1>1, <2>2, <2>5 DEF TypeOK
  <2> QED
    BY <2>4, <2>5
<1> QED
  BY <1>5, <1>6, <1>7, <1>8

(* Time passes only as far as the task and the stamps at hand allow. *)
LEMMA PassInv ==
  ASSUME IInv, Pass
  PROVE  IInv'
<1> USE IntervalFacts DEF IInv
<1>1. /\ now \in 0 .. Horizon /\ now' = now + 1 /\ now' \in 0 .. Horizon
      /\ now' <= next + Lag
      /\ sweep # None => now' <= sweep.at + Lag
      /\ \A w \in Workers : Stamped(w) => now' <= call[w].at + Lag
      /\ UNCHANGED <<last, call, next, sweep>>
  BY DEF Pass, TypeOK
<1>2. TypeOK'
  BY <1>1 DEF TypeOK
<1>3. TaskInv'
  BY <1>1, SweepFacts DEF TaskInv, TypeOK
<1>4. ASSUME NEW f \in Flows
      PROVE  StampInv(f)' /\ AgeInv(f)'
  BY <1>1 DEF StampInv, AgeInv, TypeOK
<1>5. ASSUME NEW w \in Workers
      PROVE  CallInv(w)'
  <2>1. CallInv(w)
    OBVIOUS
  <2>2. call[w] # None /\ call[w].at # None => call[w].at \in Nat
    BY CallFacts
  <2> QED
    BY <1>1, <2>1, <2>2 DEF CallInv, Stamped
<1> QED
  BY <1>2, <1>3, <1>4, <1>5

LEMMA StepIInv ==
  ASSUME IInv, [Next]_vars
  PROVE  IInv'
<1>1. CASE UNCHANGED vars
  BY <1>1 DEF vars, IInv, TypeOK, TaskInv, StampInv, AgeInv, CallInv, Stamped
<1> QED
  BY <1>1, TakeInv, MissInv, StampInsideInv, InsertInv, LeaveInv, SweepStartInv,
     VisitInv, PassInv DEF Next

(* The invariant the theorems rest on. *)
THEOREM Inductive == Spec => []IInv
BY InitIInv, StepIInv, PTL DEF Spec

-----------------------------------------------------------------------------
(* Types of every reachable state. *)
THEOREM TypeCorrect == Spec => []TypeOK
<1>1. IInv => TypeOK
  BY DEF IInv
<1> QED
  BY <1>1, Inductive, PTL

(* Whatever the cleanup, other forwards of the flow and the clock do, a    *)
(* forward finds its session in the table for a full timeout after its     *)
(* stamp, however long the send and the wait then take.                    *)
THEOREM NeverTaken == Spec => []KeptWhileAwaited
<1>1. ASSUME IInv, NEW w \in Workers, call[w] # None, call[w].shared,
             last[call[w].flow] = None
      PROVE  now - call[w].at > Timeout
  <2>1. call[w].at # None /\ now > call[w].at + Timeout
    BY <1>1 DEF IInv, CallInv
  <2>2. call[w].at \in Nat /\ now \in Nat
    BY <1>1, <2>1, CallFacts DEF IInv, TypeOK
  <2> QED
    BY <2>1, <2>2, IntervalFacts
<1>2. IInv => KeptWhileAwaited
  BY <1>1 DEF KeptWhileAwaited
<1> QED
  BY <1>2, Inductive, PTL

(* A session is gone one and a half timeouts, and twice the lag of the     *)
(* task, after the last packet of its flow.                                *)
THEOREM Reclaimed == Spec => []ReclaimedInTime
<1>1. ASSUME IInv, NEW f \in Flows, last[f] # None
      PROVE  now - last[f] <= Timeout + Interval + 2 * Lag
  <2>1. /\ now \in Nat /\ next \in Nat /\ last[f] \in Nat
        /\ sweep # None => sweep.at \in Nat
    BY <1>1, SweepFacts DEF IInv, TypeOK
  <2>2. AgeInv(f) /\ TaskInv
    BY <1>1 DEF IInv
  <2> QED
    BY <1>1, <2>1, <2>2, IntervalFacts DEF AgeInv, TaskInv
<1>2. IInv => ReclaimedInTime
  BY <1>1 DEF ReclaimedInTime, Interval
<1> QED
  BY <1>2, Inductive, PTL
=============================================================================
