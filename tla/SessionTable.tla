---------------------------- MODULE SessionTable ----------------------------
(***************************************************************************)
(* The life time of sessions, src/balancer/session.rs: a forward takes the *)
(* session of its flow and stamps last_activity, or makes one and inserts  *)
(* it; it then sends the packet and waits for an answer, each for as long  *)
(* as it takes. The cleanup task wakes up every proxy_timeout / 2 and      *)
(* removes the sessions whose stamp is older than proxy_timeout, entry by  *)
(* entry, against an instant read once at the start. Forwarding models the *)
(* same table without time; here time is counted in small units and        *)
(* everything else is left out.                                            *)
(***************************************************************************)
EXTENDS Naturals

CONSTANTS
  Flows, Workers,
  Timeout,      \* proxy_timeout
  Lag,          \* environment: how late the cleanup task may run or end, and
                \* how long a worker may take from its stamp to the entry API
  Horizon,      \* bound on the time explored
  None

ASSUME TimeAssumption ==
  /\ Timeout \in Nat /\ Timeout > 1    \* the interval of the task is not zero
  /\ Lag \in 0 .. Timeout /\ Horizon \in Nat

(* What a sweep under way is: its instant, and the entries it has not yet  *)
(* looked at.                                                              *)
Sweeps == [at : 0 .. Horizon, left : SUBSET Flows]

(* What a forward is: its flow, the stamp it has read, None while it binds *)
(* and connects a socket, and whether its session has come into the table. *)
Calls == [flow : Flows, at : 0 .. Horizon \cup {None}, shared : BOOLEAN]

ASSUME NoneAssumption ==
  None \notin Nat /\ None \notin Sweeps /\ None \notin Calls

VARIABLES
  now,          \* Instant::now()
  last,         \* last[f]: last_activity of the session of f, None if it has none
  call,         \* call[w]: the forward worker w is in, or None
  next,         \* when the interval of the cleanup task ticks next
  sweep         \* None, or the cleanup under way: [at, left]

vars == <<now, last, call, next, sweep>>

(* Mutant: the task wakes up every proxy_timeout. *)
IntervalOfTimeout == Timeout

Interval == Timeout \div 2

(* The first tick of a tokio interval is immediate. *)
Init ==
  /\ now = 0
  /\ last = [f \in Flows |-> None]
  /\ call = [w \in Workers |-> None]
  /\ next = 0
  /\ sweep = None

(* Worker w has a stamp at hand that is not in the table yet. *)
Stamped(w) == call[w] # None /\ call[w].at # None /\ ~call[w].shared

Enter(w, f, t, s) == call' = [call EXCEPT ![w] = [flow |-> f, at |-> t, shared |-> s]]

(* Mutant: the session is stamped with the time it would expire. *)
TakeDeadline(w, f) ==
  /\ call[w] = None /\ last[f] # None
  /\ last' = [last EXCEPT ![f] = now + Timeout]
  /\ Enter(w, f, now, TRUE)
  /\ UNCHANGED <<now, next, sweep>>

(* Mutant: the session is found, but not stamped. *)
TakeUnstamped(w, f) ==
  /\ call[w] = None /\ last[f] # None
  /\ Enter(w, f, now, TRUE)
  /\ UNCHANGED <<now, last, next, sweep>>

(* The fast path: the entry is stamped under the lock of its shard. *)
Take(w, f) ==
  /\ call[w] = None /\ last[f] # None
  /\ last' = [last EXCEPT ![f] = now]
  /\ Enter(w, f, now, TRUE)
  /\ UNCHANGED <<now, next, sweep>>

(* No session: bind and connect take their time. *)
Miss(w, f) ==
  /\ call[w] = None /\ last[f] = None
  /\ Enter(w, f, None, FALSE)
  /\ UNCHANGED <<now, last, next, sweep>>

(* The socket is connected; the new session is stamped outside the table.  *)
Stamp(w) ==
  /\ call[w] # None /\ call[w].at = None
  /\ Enter(w, call[w].flow, now, FALSE)
  /\ UNCHANGED <<now, last, next, sweep>>

(* The entry API, once its lock is free: a vacant entry takes the session  *)
(* with the stamp it has, an occupied one is stamped anew.                 *)
Insert(w) ==
  /\ Stamped(w)
  /\ LET f == call[w].flow
         t == IF last[f] = None THEN call[w].at ELSE now
     IN  /\ last' = [last EXCEPT ![f] = t]
         /\ Enter(w, f, t, TRUE)
  /\ UNCHANGED <<now, next, sweep>>

(* bind or connect has failed; or the send has, the answer has come, or    *)
(* the timer of the wait, which starts after the send, has fired.          *)
Leave(w) ==
  /\ call[w] # None /\ ~Stamped(w)
  /\ call' = [call EXCEPT ![w] = None]
  /\ UNCHANGED <<now, last, next, sweep>>

(* Instant::duration_since is zero when the stamp is the later one. *)
Age(f) == IF last[f] > sweep.at THEN 0 ELSE sweep.at - last[f]

Expired(f) == last[f] # None /\ Age(f) > Timeout

(* The interval ticks; of the ticks it missed none is made up for.         *)
SweepStart ==
  /\ sweep = None /\ now >= next
  /\ sweep' = [at |-> now, left |-> Flows]
  /\ next' = ((now \div Interval) + 1) * Interval
  /\ UNCHANGED <<now, last, call>>

(* retain() looks at one entry, under the lock of its shard. *)
Visit(f) ==
  /\ sweep # None /\ f \in sweep.left
  /\ last' = [last EXCEPT ![f] = IF Expired(f) THEN None ELSE @]
  /\ sweep' = IF sweep.left = {f} THEN None ELSE [sweep EXCEPT !.left = @ \ {f}]
  /\ UNCHANGED <<now, call, next>>

(* Time passes, but the task, and a worker with a stamp at hand, is not    *)
(* more than Lag late. A send, a wait and a timer may take any time.       *)
Pass ==
  /\ now < Horizon
  /\ now + 1 <= next + Lag
  /\ sweep # None => now + 1 <= sweep.at + Lag
  /\ \A w \in Workers : Stamped(w) => now + 1 <= call[w].at + Lag
  /\ now' = now + 1
  /\ UNCHANGED <<last, call, next, sweep>>

Next ==
  \/ \E w \in Workers, f \in Flows : Take(w, f) \/ Miss(w, f)
  \/ \E w \in Workers : Stamp(w) \/ Insert(w) \/ Leave(w)
  \/ SweepStart
  \/ \E f \in Flows : Visit(f)
  \/ Pass

Spec == Init /\ [][Next]_vars

-----------------------------------------------------------------------------
(* Types of the variables. *)
TypeOK ==
  /\ now \in 0 .. Horizon
  /\ last \in [Flows -> 0 .. Horizon \cup {None}]
  /\ call \in [Workers -> Calls \cup {None}]
  /\ next \in 0 .. (Horizon + Timeout)
  /\ sweep \in Sweeps \cup {None}

(* session.rs:108-121: whatever the cleanup, other forwards of the flow    *)
(* and the clock do meanwhile, a forward finds its session in the table    *)
(* for a full proxy_timeout after its stamp, so packets of the flow that   *)
(* come in that time use its socket. It is not promised more: the wait     *)
(* starts after the send (core.rs:139, 149), so that it may go on when the *)
(* cleanup has already taken the session.                                  *)
KeptWhileAwaited ==
  \A w \in Workers :
    call[w] # None /\ call[w].shared /\ last[call[w].flow] = None
      => now - call[w].at > Timeout

(* A session, and its socket, outlives its last packet by no more than one *)
(* and a half timeouts, and the lag of the task at its start and end.      *)
ReclaimedInTime ==
  \A f \in Flows :
    last[f] # None => now - last[f] <= Timeout + (Timeout \div 2) + 2 * Lag
=============================================================================
