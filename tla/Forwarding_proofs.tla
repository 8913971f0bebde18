------------------------- MODULE Forwarding_proofs -------------------------
(***************************************************************************)
(* Theorems of Forwarding, for any clients, backends, workers, ports and   *)
(* packets, and any schedule of workers, cleanup task and network.         *)
(***************************************************************************)
EXTENDS Forwarding, TLAPS

(* A socket that is bound but not yet in the table, and one that is held   *)
(* by a worker at all.                                                     *)
Fresh(w) == pc[w] \in {"connect", "insert"}
Holding(w) == Fresh(w) \/ Using(w)

(* What a worker's locals hold where it is. *)
LocalInv(w) ==
  /\ packet[w] = None <=> pc[w] = "idle"
  /\ pc[w] \in {"raw", "session"} \/ Holding(w) => backend[w] \in Backends
  /\ socket[w] # None <=> Holding(w)
  /\ answer[w] # None <=> pc[w] = "reply"

(* A socket that is not yet in the table is open and known to its worker   *)
(* only; one in use is connected to the worker's backend, and whoever else *)
(* has it serves the same flow.                                            *)
SocketInv(w) ==
  /\ Fresh(w) =>
       /\ peer[socket[w]] # None
       /\ \A v \in Workers : socket[v] = socket[w] => v = w
       /\ \A f \in Flows : sessions[f] # socket[w]
  /\ pc[w] = "insert" => peer[socket[w]] = backend[w]
  /\ Using(w) =>
       /\ peer[socket[w]] = backend[w]
       /\ \A v \in Workers : socket[v] = socket[w] => Flow(v) = Flow(w)
       /\ \A f \in Flows : sessions[f] = socket[w] => f = Flow(w)
       /\ socket[w] = sessions[Flow(w)] \/ socket[w] \in expired

(* The socket of a session is open, connected, and of that session only. *)
SessionInv(f) ==
  sessions[f] # None =>
    /\ peer[sessions[f]] = f[2]
    /\ \A g \in Flows : sessions[g] = sessions[f] => g = f

SocketsInv ==
  /\ \A w \in Workers : LocalInv(w) /\ SocketInv(w)
  /\ \A f \in Flows : SessionInv(f)

-----------------------------------------------------------------------------
Elems(q) == {q[i] : i \in 1 .. Len(q)}
Unread(p) == Elems(queue[p])

(* The clients served through port p. *)
Users(p) ==
  {ClientOf[packet[w]] : w \in {v \in Workers : socket[v] = p}}
    \cup {f[1] : f \in {g \in Flows : sessions[g] = p}}

(* Port p may receive or hold an answer to r. *)
ServesClientOf(p, r) == r \in overtaken \/ Users(p) \subseteq {ClientOf[r]}

(* A closed port holds no answers, so its next owner inherits only what is *)
(* still in flight. All other answers stay with their client from the      *)
(* backend to the listener's socket.                                       *)
ClosedInv == \A p \in Ports : peer[p] = None => queue[p] = << >>
FlightInv == \A m \in flight : ServesClientOf(m[2], m[3])
QueueInv == \A p \in Ports : \A r \in Unread(p) : ServesClientOf(p, r)
HandInv ==
  \A w \in Workers : answer[w] # None =>
    answer[w] \in overtaken \/ ClientOf[answer[w]] = ClientOf[packet[w]]

ClientInv == ClosedInv /\ FlightInv /\ QueueInv /\ HandInv /\ NoCrossClient

-----------------------------------------------------------------------------
(* Each packet is handled once, and is counted as sent no sooner than it   *)
(* goes out.                                                               *)
PacketInv ==
  /\ sent \subseteq received
  /\ \A w \in Workers : packet[w] # None =>
       /\ packet[w] \in received
       /\ \A v \in Workers : packet[v] = packet[w] => v = w
       /\ packet[w] \in sent => pc[w] \in {"recv", "reply", "mirror"}

(* The answer to r is in one place only: in flight, in the queue of one    *)
(* port, in the hands of one worker, or passed.                            *)
InFlight(r) == \E m \in flight : m[3] = r
Queued(r) == \E p \in Ports : r \in Unread(p)
InHand(r) == \E w \in Workers : answer[w] = r
Passed(r) == \E x \in passed : x[2] = r

NoTwice(q) == \A i, j \in 1 .. Len(q) : q[i] = q[j] => i = j

AnswerInv(r) ==
  /\ InFlight(r) \/ Queued(r) \/ InHand(r) \/ Passed(r) => r \in sent
  /\ InFlight(r) => ~Queued(r) /\ ~InHand(r) /\ ~Passed(r)
  /\ Queued(r) => ~InHand(r) /\ ~Passed(r)
  /\ InHand(r) => ~Passed(r)
  /\ \A m, n \in flight : m[3] = r /\ n[3] = r => m = n
  /\ \A p, q \in Ports : r \in Unread(p) /\ r \in Unread(q) => p = q
  /\ \A v, w \in Workers : answer[v] = r /\ answer[w] = r => v = w
  /\ \A x, y \in passed : x[2] = r /\ y[2] = r => x = y

Answers ==
  /\ \A p \in Ports : NoTwice(queue[p])
  /\ \A r \in Requests : AnswerInv(r)

OnceInv == PacketInv /\ Answers

-----------------------------------------------------------------------------
LEMMA NoneFacts ==
  /\ None \notin Clients /\ None \notin Backends
  /\ None \notin Ports /\ None \notin Requests
  /\ None # "any" /\ "any" \notin Backends
BY NoneAssumption

(* The SessionKey of a worker with a packet and a backend. *)
LEMMA FlowFacts ==
  ASSUME NEW w, packet[w] \in Requests, backend[w] \in Backends
  PROVE  /\ Flow(w) \in Flows
         /\ Flow(w)[1] = ClientOf[packet[w]] /\ Flow(w)[2] = backend[w]
BY ClientAssumption DEF Flow, Flows

(* Closing what nobody holds any more leaves what somebody holds alone. *)
LEMMA CloseFacts ==
  ASSUME TypeOK, CloseUnreferenced
  PROVE  /\ peer' \in [Ports -> Backends \cup {None, "any"}]
         /\ queue' \in [Ports -> Seq(Requests)]
         /\ \A p \in Ports : Referenced(p)' => peer'[p] = peer[p]
         /\ \A p \in Ports : ~Referenced(p)' => peer'[p] = None
         /\ \A p \in Ports : queue'[p] = queue[p] \/ queue'[p] = << >>
<1>1. /\ peer \in [Ports -> Backends \cup {None, "any"}]
      /\ queue \in [Ports -> Seq(Requests)]
      /\ << >> \in Seq(Requests)
  BY DEF TypeOK
<1>2. /\ peer' = [p \in Ports |-> IF Referenced(p)' THEN peer[p] ELSE None]
      /\ queue' = [p \in Ports |-> IF Referenced(p)' THEN queue[p] ELSE << >>]
  BY DEF CloseUnreferenced
<1> QED
  BY <1>1, <1>2

-----------------------------------------------------------------------------
(* What a worker has in its locals where it is. *)
LEMMA AtWork ==
  ASSUME TypeOK, NEW w \in Workers, LocalInv(w)
  PROVE  /\ pc[w] # "idle" => packet[w] \in Requests
         /\ pc[w] \in {"raw", "session"} \/ Holding(w) => Flow(w) \in Flows
         /\ Holding(w) => socket[w] \in Ports /\ pc[w] # "idle"
         /\ pc[w] = "reply" => answer[w] \in Requests
<1>1. pc[w] # "idle" => packet[w] \in Requests
  BY DEF TypeOK, LocalInv
<1>2. Holding(w) => socket[w] \in Ports /\ pc[w] # "idle"
  BY DEF TypeOK, LocalInv, Holding, Fresh, Using
<1>3. pc[w] = "reply" => answer[w] \in Requests
  BY DEF TypeOK, LocalInv
<1>4. pc[w] \in {"raw", "session"} \/ Holding(w) => Flow(w) \in Flows
  BY <1>1, <1>2, FlowFacts DEF LocalInv
<1> QED
  BY <1>1, <1>2, <1>3, <1>4

-----------------------------------------------------------------------------
Locals == \A w \in Workers : LocalInv(w)

LEMMA InitTypeOK == Init => TypeOK /\ Locals
BY NoneFacts DEF Init, TypeOK, Locals, LocalInv, Holding, Fresh, Using

LEMMA HeadTail ==
  ASSUME NEW q \in Seq(Requests), q # << >>
  PROVE  Head(q) \in Requests /\ Tail(q) \in Seq(Requests)
OBVIOUS

(* The steps of a worker preserve the types. *)
LEMMA WorkerTypeOK ==
  ASSUME TypeOK, Locals, NEW w \in Workers, Choose(w) \/ Step(w)
  PROVE  TypeOK'
<1> USE DEF TypeOK, Goto, Hold, counted
<1>0. LocalInv(w)
  BY DEF Locals
<1>1. CASE Choose(w)
  BY <1>1 DEF Choose
<1>2. CASE SendRaw(w)
  BY <1>0, <1>2, AtWork DEF SendRaw
<1>3. CASE FindSession(w)
  <2>1. sessions[Flow(w)] \in Ports
    BY <1>0, <1>3, AtWork DEF FindSession
  <2> QED
    BY <1>3, <2>1 DEF FindSession
<1>4. CASE Bind(w)
  <2>1. CASE UNCHANGED <<socket, peer, expired, overtaken>>
    BY <1>4, <2>1 DEF Bind
  <2>2. CASE \E p \in Ports : /\ peer' = [peer EXCEPT ![p] = "any"]
                              /\ expired' = expired \ {p}
                              /\ overtaken' = overtaken \cup
                                   {m[3] : m \in {x \in flight : x[2] = p}}
                              /\ Hold(w, p)
                              /\ Goto(w, "connect")
    <3>1. overtaken' \subseteq Requests
      BY <2>2
    <3> QED
      BY <1>4, <2>2, <3>1 DEF Bind
  <2> QED
    BY <1>4, <2>1, <2>2 DEF Bind
<1>5. CASE Connect(w)
  <2>1. CASE /\ peer' = [peer EXCEPT ![socket[w]] = backend[w]]
             /\ Goto(w, "insert") /\ UNCHANGED <<socket, queue>>
    BY <1>5, <2>1 DEF Connect
  <2>2. CASE Hold(w, None) /\ CloseUnreferenced /\ Goto(w, "mirror")
    <3>1. /\ peer' \in [Ports -> Backends \cup {None, "any"}]
          /\ queue' \in [Ports -> Seq(Requests)]
      BY <2>2, CloseFacts
    <3> QED
      BY <1>5, <2>2, <3>1 DEF Connect
  <2> QED
    BY <1>5, <2>1, <2>2 DEF Connect
<1>6. CASE Insert(w)
  <2>1. Flow(w) \in Flows /\ socket[w] \in Ports
    BY <1>0, <1>6, AtWork DEF Insert, Holding, Fresh
  <2>2. socket' \in [Workers -> Ports \cup {None}]
    BY <1>6, <2>1 DEF Insert
  <2>3. sessions' \in [Flows -> Ports \cup {None}]
    BY <1>6, <2>1 DEF Insert
  <2>4. /\ peer' \in [Ports -> Backends \cup {None, "any"}]
        /\ queue' \in [Ports -> Seq(Requests)]
    BY <1>6, CloseFacts DEF Insert
  <2> QED
    BY <1>6, <2>2, <2>3, <2>4 DEF Insert
<1>7. CASE Send(w)
  <2>1. packet[w] \in Requests /\ backend[w] \in Backends /\ socket[w] \in Ports
    BY <1>0, <1>7, AtWork DEF Send, Holding, Using, LocalInv
  <2>2. /\ flight' \subseteq Backends \X Ports \X Requests
        /\ sent' \subseteq Requests
    BY <1>7, <2>1 DEF Send
  <2>3. /\ peer' \in [Ports -> Backends \cup {None, "any"}]
        /\ queue' \in [Ports -> Seq(Requests)]
        /\ socket' \in [Workers -> Ports \cup {None}]
    BY <1>7, CloseFacts DEF Send
  <2>4. pc' \in [Workers -> {"idle", "choose", "raw", "session", "connect",
                            "insert", "send", "recv", "reply", "mirror"}]
    BY <1>7 DEF Send
  <2> QED
    BY <1>7, <2>2, <2>3, <2>4 DEF Send
<1>8. CASE Recv(w)
  <2>1. socket[w] \in Ports /\ queue[socket[w]] # << >>
    BY <1>0, <1>8, AtWork DEF Recv, Holding, Using
  <2>2. /\ Head(queue[socket[w]]) \in Requests
        /\ Tail(queue[socket[w]]) \in Seq(Requests)
        /\ << >> \in Seq(Requests)
    BY <2>1, HeadTail
  <2>3. queue' \in [Ports -> Seq(Requests)]
    BY <1>8, <2>2 DEF Recv
  <2>4. peer' \in [Ports -> Backends \cup {None, "any"}]
    BY <1>8 DEF Recv
  <2> QED
    BY <1>8, <2>2, <2>3, <2>4 DEF Recv
<1>9. CASE GiveUp(w)
  <2>1. /\ peer' \in [Ports -> Backends \cup {None, "any"}]
        /\ queue' \in [Ports -> Seq(Requests)]
    BY <1>9, CloseFacts DEF GiveUp
  <2> QED
    BY <1>9, <2>1 DEF GiveUp
<1>10. CASE Reply(w)
  BY <1>0, <1>10, AtWork DEF Reply
<1>11. CASE MirrorPacket(w)
  BY <1>0, <1>11, AtWork DEF MirrorPacket
<1> QED
  BY <1>1, <1>2, <1>3, <1>4, <1>5, <1>6, <1>7, <1>8, <1>9, <1>10, <1>11 DEF Step

(* So do the other actors. *)
LEMMA StepTypeOK ==
  ASSUME TypeOK, Locals, [Next]_vars
  PROVE  TypeOK'
<1> USE DEF TypeOK, counted, locals
<1>1. ASSUME NEW w \in Workers, NEW r \in Requests, Receive(w, r)
      PROVE  TypeOK'
  BY <1>1 DEF Receive, Goto
<1>5. ASSUME NEW w \in Workers, NEW r \in Requests, Ignore(w, r)
      PROVE  TypeOK'
  BY <1>5 DEF Ignore
<1>2. ASSUME NEW f \in Flows, Expire(f)
      PROVE  TypeOK'
  <2>1. /\ peer' \in [Ports -> Backends \cup {None, "any"}]
        /\ queue' \in [Ports -> Seq(Requests)]
    BY <1>2, CloseFacts DEF Expire
  <2> QED
    BY <1>2, <2>1 DEF Expire
<1>3. ASSUME NEW m \in flight, Arrive(m)
      PROVE  TypeOK'
  <2>1. m[2] \in Ports /\ m[3] \in Requests
    OBVIOUS
  <2>2. Append(queue[m[2]], m[3]) \in Seq(Requests)
    BY <2>1
  <2>3. queue' \in [Ports -> Seq(Requests)]
    BY <1>3, <2>1, <2>2 DEF Arrive
  <2> QED
    BY <1>3, <2>3 DEF Arrive
<1>4. CASE UNCHANGED vars
  BY <1>4 DEF vars
<1> QED
  BY <1>1, <1>2, <1>3, <1>4, <1>5, WorkerTypeOK DEF Next

(* What a worker's locals hold follows its place, step by step. *)
LEMMA StepLocals ==
  ASSUME TypeOK, Locals, [Next]_vars
  PROVE  Locals'
<1> USE NoneFacts DEF TypeOK, Goto, Hold, counted, LocalInv, Holding, Fresh, Using
<1>1. ASSUME NEW w \in Workers, NEW r \in Requests, Receive(w, r), NEW v \in Workers
      PROVE  LocalInv(v)'
  <2>1. LocalInv(v)
    BY DEF Locals
  <2> QED
    BY <1>1, <2>1 DEF Receive
<1>2. ASSUME NEW w \in Workers, Choose(w) \/ Step(w), NEW v \in Workers
      PROVE  LocalInv(v)'
  <2>0. LocalInv(v) /\ LocalInv(w)
    BY DEF Locals
  <2>1. CASE Choose(w)
    BY <2>0, <2>1 DEF Choose
  <2>2. CASE SendRaw(w)
    BY <2>0, <2>2 DEF SendRaw
  <2>3. CASE FindSession(w)
    BY <2>0, <2>3 DEF FindSession
  <2>4. CASE Bind(w)
    BY <2>0, <2>4 DEF Bind
  <2>5. CASE Connect(w)
    BY <2>0, <2>5 DEF Connect
  <2>6. CASE Insert(w)
    BY <2>0, <2>6 DEF Insert
  <2>7. CASE Send(w)
    BY <2>0, <2>7 DEF Send
  <2>8. CASE Recv(w)
    <3>1. Head(queue[socket[w]]) \in Requests
      BY <2>0, <2>8, AtWork, HeadTail DEF Recv
    <3> QED
      BY <2>0, <2>8, <3>1 DEF Recv
  <2>9. CASE GiveUp(w)
    BY <2>0, <2>9 DEF GiveUp
  <2>10. CASE Reply(w)
    BY <2>0, <2>10 DEF Reply
  <2>11. CASE MirrorPacket(w)
    BY <2>0, <2>11 DEF MirrorPacket
  <2> QED
    BY <1>2, <2>1, <2>2, <2>3, <2>4, <2>5, <2>6, <2>7, <2>8, <2>9, <2>10, <2>11 DEF Step
<1>3. ASSUME UNCHANGED locals, NEW v \in Workers
      PROVE  LocalInv(v)'
  BY <1>3 DEF locals, Locals
<1>4. (\E w \in Workers, r \in Requests : Ignore(w, r)) \/ (\E f \in Flows : Expire(f))
         \/ (\E m \in flight : Arrive(m)) \/ UNCHANGED vars
        => UNCHANGED locals
  BY DEF Ignore, Expire, Arrive, vars, locals
<1> QED
  BY <1>1, <1>2, <1>3, <1>4 DEF Next, Locals

(* Types of every reachable state. *)
THEOREM TypeCorrect == Spec => []TypeOK
<1>1. TypeOK /\ Locals /\ [Next]_vars => (TypeOK /\ Locals)'
  BY StepTypeOK, StepLocals
<1> QED
  BY <1>1, InitTypeOK, PTL DEF Spec

-----------------------------------------------------------------------------
(* What somebody holds is open, so a free port is nobody's. *)
LEMMA HeldIsOpen ==
  ASSUME TypeOK, SocketsInv, NEW p \in Ports, Referenced(p)
  PROVE  peer[p] # None
<1>1. CASE \E w \in Workers : socket[w] = p
  <2>1. PICK w \in Workers : socket[w] = p
    BY <1>1
  <2>2. LocalInv(w) /\ SocketInv(w) /\ socket[w] # None
    BY <2>1, NoneFacts DEF SocketsInv
  <2> QED
    BY <2>1, <2>2, NoneFacts DEF LocalInv, Holding, SocketInv
<1>2. CASE \E f \in Flows : sessions[f] = p
  <2>1. PICK f \in Flows : sessions[f] = p
    BY <1>2
  <2>2. SessionInv(f) /\ sessions[f] # None /\ f[2] \in Backends
    BY <2>1, NoneFacts DEF SocketsInv, Flows
  <2> QED
    BY <2>1, <2>2, NoneFacts DEF SessionInv
<1> QED
  BY <1>1, <1>2 DEF Referenced

(* Whoever has the socket of a session serves the flow of the session. *)
LEMMA SessionUsers ==
  ASSUME TypeOK, SocketsInv, NEW f \in Flows, sessions[f] # None,
         NEW v \in Workers, socket[v] = sessions[f]
  PROVE  Using(v) /\ Flow(v) = f
<1>1. LocalInv(v) /\ SocketInv(v)
  BY DEF SocketsInv
<1>2. Holding(v) /\ ~Fresh(v)
  BY <1>1 DEF LocalInv, SocketInv
<1> QED
  BY <1>1, <1>2 DEF Holding, SocketInv

(* A step in which workers keep or drop their sockets and sessions are     *)
(* kept or expire, and what somebody still holds stays as it is.           *)
LEMMA Release ==
  ASSUME TypeOK, SocketsInv, Locals',
         \A v \in Workers : Holding(v)' =>
           /\ Holding(v) /\ socket'[v] = socket[v] /\ backend'[v] = backend[v]
           /\ packet'[v] = packet[v]
           /\ pc'[v] = pc[v] \/ (pc[v] = "send" /\ pc'[v] = "recv"),
         \A f \in Flows :
           sessions'[f] = sessions[f] \/ (sessions'[f] = None /\ sessions[f] \in expired'),
         expired \subseteq expired',
         \A p \in Ports : Referenced(p)' => peer'[p] = peer[p],
         TypeOK'
  PROVE  SocketsInv'
<1>1. \A v \in Workers : socket'[v] # None => Holding(v)' /\ socket'[v] = socket[v]
  BY DEF Locals, LocalInv
<1>2. ASSUME NEW w \in Workers
      PROVE  SocketInv(w)'
  <2>1. SocketInv(w) /\ LocalInv(w) /\ LocalInv(w)'
    BY DEF SocketsInv, Locals
  <2>2. Holding(w)' => /\ socket'[w] = socket[w] /\ socket[w] \in Ports
                       /\ Referenced(socket[w])' /\ peer'[socket[w]] = peer[socket[w]]
                       /\ Flow(w)' = Flow(w) /\ Flow(w) \in Flows /\ backend'[w] = backend[w]
    BY <2>1, AtWork DEF Referenced, Flow
  <2>3. Fresh(w)' =>
          /\ Fresh(w) /\ peer'[socket'[w]] # None
          /\ \A v \in Workers : socket'[v] = socket'[w] => v = w
          /\ \A f \in Flows : sessions'[f] # socket'[w]
    <3>1. SUFFICES ASSUME Fresh(w)'
                   PROVE  /\ Fresh(w) /\ peer'[socket'[w]] # None
                          /\ \A v \in Workers : socket'[v] = socket'[w] => v = w
                          /\ \A f \in Flows : sessions'[f] # socket'[w]
      OBVIOUS
    <3>2. Holding(w)' /\ Fresh(w)
      BY <3>1 DEF Holding, Fresh
    <3> QED
      BY <1>1, <2>1, <2>2, <3>2, NoneFacts DEF SocketInv
  <2>4. pc'[w] = "insert" => peer'[socket'[w]] = backend'[w]
    BY <2>1, <2>2 DEF SocketInv, Holding, Fresh
  <2>5. ASSUME Using(w)'
        PROVE  /\ peer'[socket'[w]] = backend'[w]
               /\ \A v \in Workers : socket'[v] = socket'[w] => Flow(v)' = Flow(w)'
               /\ \A f \in Flows : sessions'[f] = socket'[w] => f = Flow(w)'
               /\ socket'[w] = sessions'[Flow(w)'] \/ socket'[w] \in expired'
    <3>1. Holding(w)' /\ Using(w)
      BY <2>5 DEF Holding, Using, Fresh
    <3>2. peer'[socket'[w]] = backend'[w]
      BY <2>1, <2>2, <3>1 DEF SocketInv
    <3>3. ASSUME NEW v \in Workers, socket'[v] = socket'[w]
          PROVE  Flow(v)' = Flow(w)'
      <4>1. Holding(v)' /\ socket'[v] = socket[v]
        BY <1>1, <2>2, <3>1, <3>3, NoneFacts
      <4>2. Flow(v)' = Flow(v)
        BY <4>1 DEF Flow
      <4>3. Flow(v) = Flow(w)
        BY <2>1, <2>2, <3>1, <3>3, <4>1 DEF SocketInv
      <4> QED
        BY <2>2, <3>1, <4>2, <4>3
    <3>4. \A f \in Flows : sessions'[f] = socket'[w] => f = Flow(w)'
      BY <2>1, <2>2, <3>1, NoneFacts DEF SocketInv
    <3>5. socket'[w] = sessions'[Flow(w)'] \/ socket'[w] \in expired'
      BY <2>1, <2>2, <3>1 DEF SocketInv
    <3> QED
      BY <3>2, <3>3, <3>4, <3>5
  <2> QED
    BY <2>3, <2>4, <2>5 DEF SocketInv
<1>3. ASSUME NEW f \in Flows
      PROVE  SessionInv(f)'
  <2>1. SUFFICES ASSUME sessions'[f] # None
                 PROVE  /\ peer'[sessions'[f]] = f[2]
                        /\ \A g \in Flows : sessions'[g] = sessions'[f] => g = f
    BY DEF SessionInv
  <2>2. sessions'[f] = sessions[f] /\ sessions[f] \in Ports /\ Referenced(sessions[f])'
    BY <2>1 DEF TypeOK, Referenced
  <2> QED
    BY <2>1, <2>2 DEF SocketsInv, SessionInv
<1> QED
  BY <1>2, <1>3 DEF SocketsInv, Locals

(* A worker takes over the socket of its flow's session, from the table    *)
(* (fast path) or in place of its own: it joins the users of that flow.    *)
LEMMA JoinSession ==
  ASSUME TypeOK, SocketsInv, NEW w \in Workers, Flow(w) \in Flows,
         sessions[Flow(w)] # None, backend[w] \in Backends,
         Hold(w, sessions[Flow(w)]), Goto(w, "send"),
         UNCHANGED <<packet, backend, answer, sessions, expired>>,
         \A p \in Ports : Referenced(p)' => peer'[p] = peer[p],
         Locals'
  PROVE  SocketsInv'
<1> DEFINE s == sessions[Flow(w)]
<1>1. /\ socket'[w] = s /\ s \in Ports /\ Using(w)' /\ ~Fresh(w)'
      /\ \A v \in Workers \ {w} : /\ socket'[v] = socket[v]
                                  /\ Fresh(v)' <=> Fresh(v)
                                  /\ Using(v)' <=> Using(v)
                                  /\ pc'[v] = pc[v]
      /\ \A v \in Workers : Flow(v)' = Flow(v) /\ backend'[v] = backend[v]
      /\ sessions' = sessions /\ expired' = expired
  BY DEF TypeOK, Hold, Goto, Using, Fresh, Flow
<1>2. SessionInv(Flow(w)) /\ peer[s] = backend[w]
  BY DEF SocketsInv, SessionInv, Flow
<1>3. \A v \in Workers : socket[v] = s => Using(v) /\ Flow(v) = Flow(w)
  BY SessionUsers
<1>4. \A v \in Workers : socket'[v] \in Ports => peer'[socket'[v]] = peer[socket'[v]]
  BY DEF Referenced
<1>5. ASSUME NEW v \in Workers
      PROVE  SocketInv(v)'
  <2>1. SocketInv(v) /\ LocalInv(v)
    BY DEF SocketsInv
  <2>2. CASE v = w
    <3>1. peer'[socket'[w]] = backend'[w]
      BY <1>1, <1>2, <1>4
    <3>2. \A u \in Workers : socket'[u] = socket'[w] => Flow(u)' = Flow(w)'
      BY <1>1, <1>3
    <3>3. \A f \in Flows : sessions'[f] = socket'[w] => f = Flow(w)'
      BY <1>1, <1>2 DEF SessionInv
    <3>4. socket'[w] = sessions'[Flow(w)']
      BY <1>1
    <3>5. pc'[w] # "insert"
      BY DEF TypeOK, Goto
    <3> QED
      BY <1>1, <2>2, <3>1, <3>2, <3>3, <3>4, <3>5 DEF SocketInv
  <2>3. CASE v # w
    <3>1. /\ socket'[v] = socket[v] /\ Flow(v)' = Flow(v) /\ backend'[v] = backend[v]
          /\ Holding(v) => socket[v] \in Ports /\ peer'[socket[v]] = peer[socket[v]]
      BY <1>1, <1>4, <2>1, <2>3, AtWork
    <3>2. Fresh(v) => socket[v] # s
      BY <1>3, NoneFacts DEF Using, Fresh
    <3>3. Fresh(v)' => /\ peer'[socket'[v]] # None
                       /\ \A u \in Workers : socket'[u] = socket'[v] => u = v
                       /\ \A f \in Flows : sessions'[f] # socket'[v]
      BY <1>1, <2>1, <2>3, <3>1, <3>2 DEF SocketInv, Holding
    <3>4. pc'[v] = "insert" => peer'[socket'[v]] = backend'[v]
      BY <1>1, <2>1, <2>3, <3>1 DEF SocketInv, Holding, Fresh
    <3>5. Using(v)' => /\ peer'[socket'[v]] = backend'[v]
                       /\ \A u \in Workers : socket'[u] = socket'[v] => Flow(u)' = Flow(v)'
                       /\ \A f \in Flows : sessions'[f] = socket'[v] => f = Flow(v)'
                       /\ socket'[v] = sessions'[Flow(v)'] \/ socket'[v] \in expired'
      BY <1>1, <1>3, <2>1, <2>3, <3>1 DEF SocketInv, Holding
    <3> QED
      BY <3>3, <3>4, <3>5 DEF SocketInv
  <2> QED
    BY <2>2, <2>3
<1>6. ASSUME NEW f \in Flows
      PROVE  SessionInv(f)'
  <2>1. SessionInv(f)
    BY DEF SocketsInv
  <2>2. sessions[f] # None => sessions[f] \in Ports /\ Referenced(sessions[f])'
    BY <1>1 DEF TypeOK, Referenced
  <2> QED
    BY <1>1, <2>1, <2>2 DEF SessionInv
<1> QED
  BY <1>5, <1>6 DEF SocketsInv, Locals

(* A port that is bound was free: nobody else has it. *)
LEMMA BindInv ==
  ASSUME TypeOK, SocketsInv, NEW w \in Workers, Locals',
         pc[w] = "session", NEW p \in Ports, peer[p] = None,
         peer' = [peer EXCEPT ![p] = "any"], expired' = expired \ {p},
         Hold(w, p), Goto(w, "connect"), UNCHANGED <<packet, backend, sessions>>
  PROVE  SocketsInv'
<1>1. ~Referenced(p)
  BY HeldIsOpen
<1>2. /\ socket'[w] = p /\ Fresh(w)' /\ ~Using(w)' /\ pc'[w] # "insert"
      /\ peer'[p] = "any" /\ \A q \in Ports \ {p} : peer'[q] = peer[q]
      /\ \A v \in Workers \ {w} : /\ socket'[v] = socket[v] /\ socket[v] # p
                                  /\ pc'[v] = pc[v]
      /\ \A v \in Workers : Flow(v)' = Flow(v) /\ backend'[v] = backend[v]
      /\ sessions' = sessions /\ \A f \in Flows : sessions[f] # p
  BY <1>1 DEF TypeOK, Hold, Goto, Using, Fresh, Flow, Referenced
<1>3. ASSUME NEW v \in Workers
      PROVE  SocketInv(v)'
  <2>1. SocketInv(v) /\ LocalInv(v)
    BY DEF SocketsInv
  <2>2. CASE v = w
    BY <1>2, <2>2, NoneFacts DEF SocketInv
  <2>3. CASE v # w
    <3>1. Holding(v) => socket[v] \in Ports \ {p}
      BY <1>2, <2>1, <2>3, AtWork
    <3>2. (Fresh(v)' <=> Fresh(v)) /\ (Using(v)' <=> Using(v))
      BY <1>2, <2>3 DEF Fresh, Using
    <3>3. Fresh(v)' => /\ peer'[socket'[v]] # None
                       /\ \A u \in Workers : socket'[u] = socket'[v] => u = v
                       /\ \A f \in Flows : sessions'[f] # socket'[v]
      BY <1>2, <2>1, <2>3, <3>1, <3>2 DEF SocketInv, Holding
    <3>4. pc'[v] = "insert" => peer'[socket'[v]] = backend'[v]
      BY <1>2, <2>1, <2>3, <3>1 DEF SocketInv, Holding, Fresh
    <3>5. Using(v)' => /\ peer'[socket'[v]] = backend'[v]
                       /\ \A u \in Workers : socket'[u] = socket'[v] => Flow(u)' = Flow(v)'
                       /\ \A f \in Flows : sessions'[f] = socket'[v] => f = Flow(v)'
                       /\ socket'[v] = sessions'[Flow(v)'] \/ socket'[v] \in expired'
      BY <1>2, <2>1, <2>3, <3>1, <3>2 DEF SocketInv, Holding
    <3> QED
      BY <3>3, <3>4, <3>5 DEF SocketInv
  <2> QED
    BY <2>2, <2>3
<1>4. ASSUME NEW f \in Flows
      PROVE  SessionInv(f)'
  <2>1. SessionInv(f) /\ sessions[f] \in Ports \cup {None}
    BY DEF SocketsInv, TypeOK
  <2> QED
    BY <1>2, <2>1 DEF SessionInv
<1> QED
  BY <1>3, <1>4 DEF SocketsInv, Locals

(* connect() changes the socket of its worker, which nobody else has. *)
LEMMA ConnectInv ==
  ASSUME TypeOK, SocketsInv, NEW w \in Workers, Locals', Connect(w), Goto(w, "insert"),
         peer' = [peer EXCEPT ![socket[w]] = backend[w]], UNCHANGED socket
  PROVE  SocketsInv'
<1>1. /\ LocalInv(w) /\ SocketInv(w) /\ Fresh(w) /\ Holding(w)
      /\ socket[w] \in Ports /\ backend[w] \in Backends
  BY AtWork DEF Connect, SocketsInv, Fresh, Holding, LocalInv
<1>2. /\ peer'[socket[w]] = backend[w] /\ backend[w] # None
      /\ \A q \in Ports \ {socket[w]} : peer'[q] = peer[q]
      /\ pc'[w] = "insert" /\ Fresh(w)' /\ ~Using(w)'
      /\ \A v \in Workers \ {w} : pc'[v] = pc[v] /\ socket[v] # socket[w]
      /\ socket' = socket /\ sessions' = sessions /\ expired' = expired
      /\ \A v \in Workers : Flow(v)' = Flow(v) /\ backend'[v] = backend[v]
      /\ \A f \in Flows : sessions[f] # socket[w]
  BY <1>1, NoneFacts DEF Connect, Goto, TypeOK, SocketInv, Fresh, Using, Flow
<1>3. ASSUME NEW v \in Workers
      PROVE  SocketInv(v)'
  <2>1. SocketInv(v) /\ LocalInv(v)
    BY DEF SocketsInv
  <2>2. CASE v = w
    BY <1>1, <1>2, <2>2 DEF SocketInv
  <2>3. CASE v # w
    <3>1. Holding(v) => socket[v] \in Ports \ {socket[w]}
      BY <1>2, <2>1, <2>3, AtWork
    <3>2. (Fresh(v)' <=> Fresh(v)) /\ (Using(v)' <=> Using(v))
      BY <1>2, <2>3 DEF Fresh, Using
    <3> QED
      BY <1>2, <2>1, <2>3, <3>1, <3>2 DEF SocketInv, Holding, Fresh
  <2> QED
    BY <2>2, <2>3
<1>4. ASSUME NEW f \in Flows
      PROVE  SessionInv(f)'
  <2>1. SessionInv(f) /\ sessions[f] \in Ports \cup {None}
    BY DEF SocketsInv, TypeOK
  <2> QED
    BY <1>2, <2>1 DEF SessionInv
<1> QED
  BY <1>3, <1>4 DEF SocketsInv, Locals

(* A worker's own socket becomes the session of its flow. *)
LEMMA InsertOwn ==
  ASSUME TypeOK, SocketsInv, NEW w \in Workers, Locals', Insert(w),
         sessions[Flow(w)] = None
  PROVE  SocketsInv'
<1> DEFINE s == socket[w]
<1>1. /\ LocalInv(w) /\ SocketInv(w) /\ Fresh(w) /\ Holding(w)
      /\ s \in Ports /\ backend[w] \in Backends /\ Flow(w) \in Flows
      /\ peer[s] = backend[w] /\ backend[w] = Flow(w)[2]
      /\ \A v \in Workers : socket[v] = s => v = w
      /\ \A f \in Flows : sessions[f] # s
  BY AtWork DEF Insert, SocketsInv, SocketInv, Fresh, Holding, LocalInv, Flow
<1>2. /\ sessions' = [sessions EXCEPT ![Flow(w)] = s]
      /\ socket' = socket /\ expired' = expired
      /\ pc'[w] = "send" /\ ~Fresh(w)' /\ Using(w)'
      /\ \A v \in Workers \ {w} : pc'[v] = pc[v]
      /\ \A v \in Workers : Flow(v)' = Flow(v) /\ backend'[v] = backend[v]
      /\ \A p \in Ports : Referenced(p)' => peer'[p] = peer[p]
  BY CloseFacts DEF Insert, Goto, TypeOK, Fresh, Using, Flow
<1>3. sessions'[Flow(w)] = s /\ \A f \in Flows \ {Flow(w)} : sessions'[f] = sessions[f]
  BY <1>1, <1>2 DEF TypeOK
<1>4. /\ \A v \in Workers : socket[v] \in Ports => peer'[socket[v]] = peer[socket[v]]
      /\ \A f \in Flows : sessions[f] \in Ports => peer'[sessions[f]] = peer[sessions[f]]
  <2>1. \A f \in Flows : sessions[f] \in Ports => f # Flow(w)
    BY NoneFacts
  <2> QED
    BY <1>2, <1>3, <2>1 DEF Referenced
<1>5. ASSUME NEW v \in Workers
      PROVE  SocketInv(v)'
  <2>1. SocketInv(v) /\ LocalInv(v)
    BY DEF SocketsInv
  <2>2. CASE v = w
    BY <1>1, <1>2, <1>3, <1>4, <2>2 DEF SocketInv
  <2>3. CASE v # w
    <3>1. Holding(v) => socket[v] \in Ports \ {s} /\ socket[v] # None
      BY <1>1, <2>1, <2>3, AtWork DEF LocalInv
    <3>2. (Fresh(v)' <=> Fresh(v)) /\ (Using(v)' <=> Using(v))
      BY <1>2, <2>3 DEF Fresh, Using
    <3>3. Fresh(v)' => /\ peer'[socket'[v]] # None
                       /\ \A u \in Workers : socket'[u] = socket'[v] => u = v
                       /\ \A f \in Flows : sessions'[f] # socket'[v]
      BY <1>2, <1>3, <1>4, <2>1, <3>1, <3>2 DEF SocketInv, Holding
    <3>4. pc'[v] = "insert" => peer'[socket'[v]] = backend'[v]
      BY <1>2, <1>4, <2>1, <2>3, <3>1 DEF SocketInv, Holding, Fresh
    <3>5. Using(v)' => /\ peer'[socket'[v]] = backend'[v]
                       /\ \A u \in Workers : socket'[u] = socket'[v] => Flow(u)' = Flow(v)'
                       /\ \A f \in Flows : sessions'[f] = socket'[v] => f = Flow(v)'
                       /\ socket'[v] = sessions'[Flow(v)'] \/ socket'[v] \in expired'
      BY <1>2, <1>3, <1>4, <2>1, <3>1, <3>2 DEF SocketInv, Holding
    <3> QED
      BY <3>3, <3>4, <3>5 DEF SocketInv
  <2> QED
    BY <2>2, <2>3
<1>6. ASSUME NEW f \in Flows
      PROVE  SessionInv(f)'
  <2>1. SessionInv(f) /\ sessions[f] \in Ports \cup {None}
    BY DEF SocketsInv, TypeOK
  <2>2. peer'[s] = peer[s]
    BY <1>1, <1>4
  <2> QED
    BY <1>1, <1>3, <1>4, <2>1, <2>2, NoneFacts DEF SessionInv
<1> QED
  BY <1>5, <1>6 DEF SocketsInv, Locals

LEMMA InitSockets == Init => SocketsInv
BY InitTypeOK DEF Init, SocketsInv, SocketInv, SessionInv, Locals, Fresh, Using

(* The steps of a worker keep the sockets apart. *)
LEMMA WorkerSockets ==
  ASSUME TypeOK, SocketsInv, TypeOK', Locals', NEW w \in Workers, Choose(w) \/ Step(w)
  PROVE  SocketsInv'
<1> USE DEF Goto, Hold
<1>0. LocalInv(w)
  BY DEF SocketsInv
<1>1. CASE Choose(w)
  BY <1>0, <1>1, Release DEF Choose, TypeOK, Holding, Fresh, Using
<1>2. CASE SendRaw(w)
  BY <1>0, <1>2, Release DEF SendRaw, TypeOK, Holding, Fresh, Using
<1>3. CASE FindSession(w)
  <2>1. Flow(w) \in Flows /\ backend[w] \in Backends
    BY <1>0, <1>3, AtWork DEF FindSession, LocalInv
  <2> QED
    BY <1>3, <2>1, JoinSession DEF FindSession
<1>4. CASE Bind(w)
  <2>1. CASE Goto(w, "mirror") /\ UNCHANGED <<socket, peer, expired, overtaken>>
    BY <1>0, <1>4, <2>1, Release DEF Bind, TypeOK, Holding, Fresh, Using
  <2>2. CASE \E p \in Ports : /\ peer[p] = None
                              /\ peer' = [peer EXCEPT ![p] = "any"]
                              /\ expired' = expired \ {p}
                              /\ Hold(w, p)
                              /\ Goto(w, "connect")
    <3>1. pc[w] = "session" /\ UNCHANGED <<packet, backend, sessions>>
      BY <1>4 DEF Bind
    <3> QED
      BY <2>2, <3>1, BindInv
  <2> QED
    BY <1>4, <2>1, <2>2 DEF Bind
<1>5. CASE Connect(w)
  <2>1. CASE /\ peer' = [peer EXCEPT ![socket[w]] = backend[w]]
             /\ Goto(w, "insert") /\ UNCHANGED <<socket, queue>>
    BY <1>5, <2>1, ConnectInv
  <2>2. CASE Hold(w, None) /\ CloseUnreferenced /\ Goto(w, "mirror")
    <3>1. \A p \in Ports : Referenced(p)' => peer'[p] = peer[p]
      BY <2>2, CloseFacts
    <3> QED
      BY <1>0, <1>5, <2>2, <3>1, Release DEF Connect, TypeOK, Holding, Fresh, Using
  <2> QED
    BY <1>5, <2>1, <2>2 DEF Connect
<1>6. CASE Insert(w)
  <2>1. CASE sessions[Flow(w)] = None
    BY <1>6, <2>1, InsertOwn
  <2>2. CASE sessions[Flow(w)] # None
    <3>1. Flow(w) \in Flows /\ backend[w] \in Backends
      BY <1>0, <1>6, AtWork DEF Insert, LocalInv, Holding, Fresh
    <3>2. \A p \in Ports : Referenced(p)' => peer'[p] = peer[p]
      BY <1>6, CloseFacts DEF Insert
    <3> QED
      BY <1>6, <2>2, <3>1, <3>2, JoinSession DEF Insert
  <2> QED
    BY <2>1, <2>2
<1>7. CASE Send(w)
  <2>1. CASE UNCHANGED <<socket, peer, queue>>
    BY <1>0, <1>7, <2>1, Release DEF Send, TypeOK, Holding, Fresh, Using
  <2>2. CASE Hold(w, None) /\ CloseUnreferenced /\ Goto(w, "mirror")
    <3>1. \A p \in Ports : Referenced(p)' => peer'[p] = peer[p]
      BY <2>2, CloseFacts
    <3> QED
      BY <1>0, <1>7, <2>2, <3>1, Release DEF Send, TypeOK, Holding, Fresh, Using
  <2> QED
    BY <1>7, <2>1, <2>2 DEF Send
<1>8. CASE Recv(w)
  <2>1. \A p \in Ports : Referenced(p)' => peer'[p] = peer[p]
    BY <1>8 DEF Recv
  <2> QED
    BY <1>0, <1>8, <2>1, Release DEF Recv, TypeOK, Holding, Fresh, Using
<1>9. CASE GiveUp(w)
  <2>1. \A p \in Ports : Referenced(p)' => peer'[p] = peer[p]
    BY <1>9, CloseFacts DEF GiveUp
  <2> QED
    BY <1>0, <1>9, <2>1, Release DEF GiveUp, TypeOK, Holding, Fresh, Using
<1>10. CASE Reply(w)
  BY <1>0, <1>10, Release DEF Reply, TypeOK, Holding, Fresh, Using
<1>11. CASE MirrorPacket(w)
  BY <1>0, <1>11, Release DEF MirrorPacket, TypeOK, Holding, Fresh, Using
<1> QED
  BY <1>1, <1>2, <1>3, <1>4, <1>5, <1>6, <1>7, <1>8, <1>9, <1>10, <1>11 DEF Step

LEMMA StepSockets ==
  ASSUME TypeOK, SocketsInv, [Next]_vars
  PROVE  TypeOK' /\ SocketsInv'
<1>0. TypeOK' /\ Locals'
  BY StepTypeOK, StepLocals DEF SocketsInv, Locals
<1>1. ASSUME NEW w \in Workers, NEW r \in Requests, Receive(w, r)
      PROVE  SocketsInv'
  BY <1>0, <1>1, Release DEF Receive, Goto, TypeOK, Holding, Fresh, Using
<1>5. ASSUME NEW w \in Workers, NEW r \in Requests, Ignore(w, r)
      PROVE  SocketsInv'
  BY <1>0, <1>5, Release DEF Ignore, locals, Holding, Fresh, Using
<1>2. ASSUME NEW f \in Flows, Expire(f)
      PROVE  SocketsInv'
  <2>1. \A p \in Ports : Referenced(p)' => peer'[p] = peer[p]
    BY <1>2, CloseFacts DEF Expire
  <2> QED
    BY <1>0, <1>2, <2>1, Release DEF Expire, locals, TypeOK, Holding, Fresh, Using
<1>3. ASSUME NEW m \in flight, Arrive(m)
      PROVE  SocketsInv'
  BY <1>0, <1>3, Release DEF Arrive, locals, Holding, Fresh, Using
<1>4. CASE UNCHANGED vars
  BY <1>0, <1>4, Release DEF vars, Holding, Fresh, Using
<1> QED
  BY <1>0, <1>1, <1>2, <1>3, <1>4, <1>5, WorkerSockets DEF Next

THEOREM Sockets == Spec => [](TypeOK /\ SocketsInv)
BY InitTypeOK, InitSockets, StepSockets, PTL DEF Spec

(* Whatever the workers and the cleanup task do between the fast path and  *)
(* the entry API, workers that handle packets of one flow use the socket   *)
(* of its session, or one the cleanup has taken from the table.            *)
THEOREM OneSocket == Spec => []OneSocketPerFlow
<1>1. SocketsInv => OneSocketPerFlow
  BY DEF SocketsInv, SocketInv, OneSocketPerFlow
<1> QED
  BY <1>1, Sockets, PTL

(* A socket in use is open, connected to the backend of its packet and of  *)
(* one flow only, although the system gives closed ports out again.        *)
THEOREM NotShared == Spec => []SocketsNotShared
<1>1. TypeOK /\ SocketsInv => SocketsNotShared
  <2> SUFFICES ASSUME TypeOK, SocketsInv PROVE SocketsNotShared
    OBVIOUS
  <2>1. \A w \in Workers : Using(w) =>
          /\ peer[socket[w]] = backend[w]
          /\ \A v \in Workers :
               Using(v) /\ socket[v] = socket[w] => Flow(v) = Flow(w)
          /\ \A f \in Flows : sessions[f] = socket[w] => f = Flow(w)
    BY DEF SocketsInv, SocketInv
  <2>2. \A f, g \in Flows : sessions[f] = sessions[g] /\ f # g => sessions[f] = None
    BY DEF SocketsInv, SessionInv
  <2> QED
    BY <2>1, <2>2 DEF SocketsNotShared
<1> QED
  BY <1>1, Sockets, PTL

-----------------------------------------------------------------------------
(* What a queue holds after an answer arrives, and after one is read. *)
LEMMA QueueElems ==
  ASSUME NEW q \in Seq(Requests), NEW r \in Requests
  PROVE  /\ Elems(Append(q, r)) = Elems(q) \cup {r}
         /\ q # << >> => Head(q) \in Elems(q) /\ Elems(Tail(q)) \subseteq Elems(q)
         /\ Elems(<< >>) = {}
         /\ Elems(q) \subseteq Requests
<1>1. Elems(Append(q, r)) = Elems(q) \cup {r}
  <2>1. /\ Len(Append(q, r)) = Len(q) + 1
        /\ \A i \in 1 .. Len(q) : Append(q, r)[i] = q[i]
        /\ Append(q, r)[Len(q) + 1] = r /\ Len(q) \in Nat
    OBVIOUS
  <2>2. 1 .. (Len(q) + 1) = (1 .. Len(q)) \cup {Len(q) + 1}
    BY <2>1
  <2> QED
    BY <2>1, <2>2 DEF Elems
<1>2. ASSUME q # << >>
      PROVE  Head(q) \in Elems(q) /\ Elems(Tail(q)) \subseteq Elems(q)
  <2>1. /\ Len(q) \in Nat /\ Len(q) > 0 /\ Head(q) = q[1]
        /\ Len(Tail(q)) = Len(q) - 1
        /\ \A i \in 1 .. Len(Tail(q)) : Tail(q)[i] = q[i + 1] /\ i + 1 \in 1 .. Len(q)
    BY <1>2
  <2> QED
    BY <2>1 DEF Elems
<1> QED
  BY <1>1, <1>2 DEF Elems

(* Who changes what. *)
LEMMA Effects ==
  ASSUME [Next]_vars
  PROVE  /\ flight' = flight \/ (\E w \in Workers : Send(w))
                             \/ (\E m \in flight : Arrive(m))
         /\ \/ \A p \in Ports : queue'[p] = queue[p] \/ queue'[p] = << >>
            \/ \E w \in Workers : Recv(w)
            \/ \E m \in flight : Arrive(m)
         /\ answer' = answer \/ \E w \in Workers : Recv(w) \/ Reply(w)
         /\ passed' = passed \/ \E w \in Workers : Reply(w)
         /\ \/ packet' = packet
            \/ \E w \in Workers : MirrorPacket(w) \/ \E r \in Requests : Receive(w, r)
         /\ sent' = sent \/ \E w \in Workers : SendRaw(w) \/ Send(w)
<1> USE DEF counted, locals
<1>1. ASSUME NEW w \in Workers, NEW r \in Requests, Receive(w, r)
      PROVE  UNCHANGED <<flight, queue, answer, passed, sent>>
  BY <1>1 DEF Receive
<1>17. ASSUME NEW w \in Workers, NEW r \in Requests, Ignore(w, r)
       PROVE  UNCHANGED <<flight, queue, answer, passed, packet, sent>>
  BY <1>17 DEF Ignore
<1>2. ASSUME NEW w \in Workers, Choose(w) \/ FindSession(w) \/ Bind(w)
      PROVE  UNCHANGED <<flight, queue, answer, passed, packet, sent>>
  BY <1>2 DEF Choose, FindSession, Bind
<1>3. ASSUME NEW w \in Workers, SendRaw(w)
      PROVE  UNCHANGED <<flight, queue, answer, passed, packet>>
  BY <1>3 DEF SendRaw
<1>4. ASSUME NEW w \in Workers, MirrorPacket(w)
      PROVE  UNCHANGED <<flight, queue, answer, passed, sent>>
  BY <1>4 DEF MirrorPacket
<1>5. ASSUME NEW w \in Workers, Reply(w)
      PROVE  UNCHANGED <<flight, queue, packet, sent>>
  BY <1>5 DEF Reply
<1>6. ASSUME CloseUnreferenced
      PROVE  \A p \in Ports : queue'[p] = queue[p] \/ queue'[p] = << >>
  BY <1>6 DEF CloseUnreferenced
<1>7. ASSUME NEW w \in Workers, Connect(w) \/ Insert(w) \/ GiveUp(w)
      PROVE  /\ UNCHANGED <<flight, answer, passed, packet, sent>>
             /\ \A p \in Ports : queue'[p] = queue[p] \/ queue'[p] = << >>
  BY <1>6, <1>7 DEF Connect, Insert, GiveUp
<1>8. ASSUME NEW w \in Workers, Send(w)
      PROVE  /\ UNCHANGED <<answer, passed, packet>>
             /\ \A p \in Ports : queue'[p] = queue[p] \/ queue'[p] = << >>
  BY <1>6, <1>8 DEF Send
<1>9. ASSUME NEW w \in Workers, Recv(w)
      PROVE  UNCHANGED <<flight, passed, packet, sent>>
  BY <1>9 DEF Recv
<1>10. ASSUME NEW f \in Flows, Expire(f)
       PROVE  /\ UNCHANGED <<flight, answer, passed, packet, sent>>
              /\ \A p \in Ports : queue'[p] = queue[p] \/ queue'[p] = << >>
  BY <1>6, <1>10 DEF Expire
<1>11. ASSUME NEW m \in flight, Arrive(m)
       PROVE  UNCHANGED <<answer, passed, packet, sent>>
  BY <1>11 DEF Arrive
<1>12. CASE UNCHANGED vars
  BY <1>12 DEF vars
<1>13. CASE \E w \in Workers, r \in Requests : Ignore(w, r) \/ Receive(w, r)
  BY <1>1, <1>13, <1>17
<1>14. CASE \E w \in Workers : Choose(w) \/ Step(w)
  <2>1. PICK w \in Workers : Choose(w) \/ Step(w)
    BY <1>14
  <2>2. CASE Choose(w) \/ FindSession(w) \/ Bind(w)
    BY <1>2, <2>2
  <2>3. CASE SendRaw(w)
    BY <1>3, <2>3
  <2>4. CASE MirrorPacket(w)
    BY <1>4, <2>4
  <2>5. CASE Reply(w)
    BY <1>5, <2>5
  <2>6. CASE Connect(w) \/ Insert(w) \/ GiveUp(w)
    BY <1>7, <2>6
  <2>7. CASE Send(w)
    BY <1>8, <2>7
  <2>8. CASE Recv(w)
    BY <1>9, <2>8
  <2> QED
    BY <2>1, <2>2, <2>3, <2>4, <2>5, <2>6, <2>7, <2>8 DEF Step
<1>15. CASE \E f \in Flows : Expire(f)
  BY <1>10, <1>15
<1>16. CASE \E m \in flight : Arrive(m)
  BY <1>11, <1>16
<1> QED
  BY <1>12, <1>13, <1>14, <1>15, <1>16 DEF Next

LEMMA OvertakenGrows ==
  ASSUME [Next]_vars
  PROVE  overtaken \subseteq overtaken'
<1> USE DEF counted, locals
<1>1. ASSUME NEW w \in Workers, Choose(w) \/ Step(w)
      PROVE  overtaken \subseteq overtaken'
  <2>1. CASE Bind(w)
    BY <2>1 DEF Bind
  <2>2. CASE ~Bind(w)
    BY <1>1, <2>2 DEF Step, Choose, SendRaw, FindSession, Connect, Insert, Send, Recv,
                      GiveUp, Reply, MirrorPacket
  <2> QED
    BY <2>1, <2>2
<1> QED
  BY <1>1 DEF Next, Ignore, Receive, Expire, Arrive, vars

(* A port is given out by Bind alone, which counts the answers under way   *)
(* to the port as overtaken.                                               *)
LEMMA PortEffects ==
  ASSUME TypeOK, SocketsInv, [Next]_vars, NEW p \in Ports
  PROVE  peer[p] = None /\ peer'[p] # None =>
           \A m \in flight : m[2] = p => m[3] \in overtaken'
<1> DEFINE Kept == peer'[p] \in {peer[p], None}
           Goal == peer[p] = None /\ peer'[p] # None =>
                     \A m \in flight : m[2] = p => m[3] \in overtaken'
<1>1. Kept => Goal
  OBVIOUS
<1> USE DEF counted, locals
<1>2. CloseUnreferenced => peer'[p] \in {peer[p], None}
  BY DEF CloseUnreferenced
<1>3. ASSUME NEW w \in Workers, Choose(w) \/ Step(w)
      PROVE  Goal
  <2>1. CASE Choose(w) \/ SendRaw(w) \/ FindSession(w) \/ Reply(w) \/ MirrorPacket(w)
    BY <1>1, <2>1 DEF Choose, SendRaw, FindSession, Reply, MirrorPacket
  <2>2. CASE Bind(w)
    BY <1>1, <2>2 DEF Bind, TypeOK
  <2>3. CASE Connect(w)
    <3>1. Fresh(w) /\ LocalInv(w) /\ SocketInv(w)
      BY <2>3 DEF Connect, SocketsInv, Fresh
    <3>2. socket[w] \in Ports /\ peer[socket[w]] # None
      BY <3>1, AtWork DEF Holding, SocketInv
    <3> QED
      BY <1>1, <1>2, <2>3, <3>2 DEF Connect, TypeOK
  <2>4. CASE Insert(w) \/ GiveUp(w)
    BY <1>1, <1>2, <2>4 DEF Insert, GiveUp
  <2>5. CASE Send(w)
    BY <1>1, <1>2, <2>5 DEF Send
  <2>6. CASE Recv(w)
    BY <1>1, <2>6 DEF Recv
  <2> QED
    BY <1>3, <2>1, <2>2, <2>3, <2>4, <2>5, <2>6 DEF Step
<1>4. CASE \E w \in Workers, r \in Requests : Ignore(w, r) \/ Receive(w, r)
  BY <1>1, <1>4 DEF Ignore, Receive
<1>5. CASE \E f \in Flows : Expire(f)
  BY <1>1, <1>2, <1>5 DEF Expire
<1>6. CASE \E m \in flight : Arrive(m)
  BY <1>1, <1>6 DEF Arrive
<1>7. CASE UNCHANGED vars
  BY <1>1, <1>7 DEF vars
<1> QED
  BY <1>3, <1>4, <1>5, <1>6, <1>7 DEF Next

(* Unless a port is given out, no step adds a client to it: the session of *)
(* a flow serves that flow's client.                                       *)
LEMMA UsersStay ==
  ASSUME TypeOK, SocketsInv, [Next]_vars,
         NEW p \in Ports, ~(peer[p] = None /\ peer'[p] # None)
  PROVE  Users(p)' \subseteq Users(p)
<1> USE DEF Goto, Hold, counted, locals
<1>0. \A w \in Workers : LocalInv(w)
  BY DEF SocketsInv
<1>1. ASSUME \A w \in Workers : socket'[w] = p =>
               \/ socket[w] = p /\ packet'[w] = packet[w]
               \/ \E f \in Flows : sessions[f] = p /\ ClientOf[packet'[w]] = f[1],
             \A f \in Flows : sessions'[f] = p =>
               \/ sessions[f] = p
               \/ \E w \in Workers : socket[w] = p /\ ClientOf[packet[w]] = f[1]
      PROVE  Users(p)' \subseteq Users(p)
  BY <1>1 DEF Users
<1>2. ASSUME UNCHANGED sessions,
             \A w \in Workers : socket'[w] = p => socket[w] = p /\ packet'[w] = packet[w]
      PROVE  Users(p)' \subseteq Users(p)
  BY <1>1, <1>2
<1>3. ASSUME NEW w \in Workers, NEW r \in Requests, Receive(w, r)
      PROVE  Users(p)' \subseteq Users(p)
  BY <1>0, <1>2, <1>3, NoneFacts DEF Receive, TypeOK, LocalInv, Holding, Fresh, Using
<1>8. ASSUME NEW w \in Workers, NEW r \in Requests, Ignore(w, r)
      PROVE  Users(p)' \subseteq Users(p)
  BY <1>2, <1>8 DEF Ignore
<1>4. ASSUME NEW w \in Workers, Choose(w) \/ Step(w)
      PROVE  Users(p)' \subseteq Users(p)
  <2>1. CASE Choose(w) \/ SendRaw(w) \/ Reply(w)
    BY <1>2, <2>1 DEF Choose, SendRaw, Reply
  <2>2. CASE FindSession(w)
    <3>1. /\ Flow(w) \in Flows /\ Flow(w)[1] = ClientOf[packet[w]]
          /\ socket' = [socket EXCEPT ![w] = sessions[Flow(w)]]
          /\ UNCHANGED <<packet, sessions>>
      BY <1>0, <2>2, AtWork DEF FindSession, Flow
    <3> QED
      BY <1>1, <3>1 DEF TypeOK
  <2>3. CASE Bind(w)
    <3>1. CASE UNCHANGED <<socket, peer, expired, overtaken>>
      BY <1>2, <2>3, <3>1 DEF Bind
    <3>2. CASE \E q \in Ports : /\ peer[q] = None
                                /\ peer' = [peer EXCEPT ![q] = "any"]
                                /\ Hold(w, q)
      <4>1. PICK q \in Ports : /\ peer[q] = None
                               /\ peer' = [peer EXCEPT ![q] = "any"]
                               /\ Hold(w, q)
        BY <3>2
      <4>2. q # p
        BY <4>1, NoneFacts DEF TypeOK
      <4>3. UNCHANGED <<packet, sessions>>
        BY <2>3 DEF Bind
      <4> QED
        BY <1>2, <4>1, <4>2, <4>3 DEF TypeOK
    <3> QED
      BY <2>3, <3>1, <3>2 DEF Bind
  <2>4. CASE Insert(w)
    <3>1. /\ Flow(w) \in Flows /\ Flow(w)[1] = ClientOf[packet[w]]
          /\ UNCHANGED packet
      BY <1>0, <2>4, AtWork DEF Insert, Flow, Holding, Fresh
    <3>2. CASE sessions[Flow(w)] = None
      BY <1>1, <2>4, <3>1, <3>2 DEF Insert, TypeOK
    <3>3. CASE sessions[Flow(w)] # None
      BY <1>1, <2>4, <3>1, <3>3 DEF Insert, TypeOK
    <3> QED
      BY <3>2, <3>3
  <2>5. CASE Connect(w) \/ Send(w) \/ Recv(w) \/ GiveUp(w)
    <3>1. /\ UNCHANGED <<packet, sessions>>
          /\ socket' = socket \/ socket' = [socket EXCEPT ![w] = None]
      BY <2>5 DEF Connect, Send, Recv, GiveUp
    <3> QED
      BY <1>2, <3>1, NoneFacts DEF TypeOK
  <2>6. CASE MirrorPacket(w)
    BY <1>0, <1>2, <2>6, NoneFacts DEF MirrorPacket, TypeOK, LocalInv, Holding, Fresh, Using
  <2> QED
    BY <1>4, <2>1, <2>2, <2>3, <2>4, <2>5, <2>6 DEF Step
<1>5. ASSUME NEW f \in Flows, Expire(f)
      PROVE  Users(p)' \subseteq Users(p)
  <2>1. /\ UNCHANGED <<packet, socket>>
        /\ \A g \in Flows : sessions'[g] = p => sessions[g] = p
    BY <1>5, NoneFacts DEF Expire, TypeOK
  <2> QED
    BY <1>1, <2>1
<1>6. ASSUME NEW m \in flight, Arrive(m)
      PROVE  Users(p)' \subseteq Users(p)
  BY <1>2, <1>6 DEF Arrive
<1>7. CASE UNCHANGED vars
  BY <1>2, <1>7 DEF vars
<1> QED
  BY <1>3, <1>4, <1>5, <1>6, <1>7, <1>8 DEF Next

(* So who may receive at a port keeps that right, or counts as overtaken.  *)
LEMMA ServesStay ==
  ASSUME TypeOK, SocketsInv, [Next]_vars,
         NEW p \in Ports, NEW r, ServesClientOf(p, r),
         ~(peer[p] = None /\ peer'[p] # None) \/ r \in overtaken'
  PROVE  ServesClientOf(p, r)'
BY UsersStay, OvertakenGrows DEF ServesClientOf

(* A port that is closed loses its queue, and receives nothing after that. *)
LEMMA StepClosed ==
  ASSUME TypeOK, SocketsInv, ClosedInv, [Next]_vars
  PROVE  ClosedInv'
<1> USE DEF counted, locals
<1>1. ASSUME CloseUnreferenced
      PROVE  ClosedInv'
  BY <1>1 DEF CloseUnreferenced, ClosedInv
<1>2. ASSUME UNCHANGED <<peer, queue>>
      PROVE  ClosedInv'
  BY <1>2 DEF ClosedInv
<1>3. ASSUME NEW w \in Workers, Choose(w) \/ Step(w)
      PROVE  ClosedInv'
  <2>1. CASE Choose(w) \/ SendRaw(w) \/ FindSession(w) \/ Reply(w) \/ MirrorPacket(w)
    BY <1>2, <2>1 DEF Choose, SendRaw, FindSession, Reply, MirrorPacket
  <2>2. CASE Bind(w)
    BY <1>2, <2>2 DEF Bind, ClosedInv, TypeOK
  <2>3. CASE Connect(w)
    <3>1. LocalInv(w) /\ backend[w] \in Backends /\ backend[w] # None
      BY <2>3, NoneFacts DEF Connect, SocketsInv, LocalInv, Holding, Fresh
    <3> QED
      BY <1>1, <2>3, <3>1 DEF Connect, ClosedInv, TypeOK
  <2>4. CASE Insert(w) \/ GiveUp(w)
    BY <1>1, <2>4 DEF Insert, GiveUp
  <2>5. CASE Send(w)
    BY <1>1, <1>2, <2>5 DEF Send
  <2>6. CASE Recv(w)
    <3>1. LocalInv(w) /\ SocketInv(w) /\ Using(w) /\ backend[w] \in Backends
      BY <2>6 DEF Recv, SocketsInv, LocalInv, Holding, Using
    <3>2. peer[socket[w]] # None
      BY <3>1, NoneFacts DEF SocketInv
    <3> QED
      BY <2>6, <3>2 DEF Recv, ClosedInv
  <2> QED
    BY <1>3, <2>1, <2>2, <2>3, <2>4, <2>5, <2>6 DEF Step
<1>4. CASE \E w \in Workers, r \in Requests : Ignore(w, r) \/ Receive(w, r)
  BY <1>2, <1>4 DEF Ignore, Receive
<1>5. CASE \E f \in Flows : Expire(f)
  BY <1>1, <1>5 DEF Expire
<1>6. ASSUME NEW m \in flight, Arrive(m)
      PROVE  ClosedInv'
  BY <1>6, NoneFacts DEF Arrive, ClosedInv, TypeOK
<1>7. CASE UNCHANGED vars
  BY <1>2, <1>7 DEF vars
<1> QED
  BY <1>3, <1>4, <1>5, <1>6, <1>7 DEF Next

(* What is sent leaves from a socket that serves the sender's client only, *)
(* and is overtaken when its port is given out before it has arrived.      *)
LEMMA StepFlight ==
  ASSUME TypeOK, SocketsInv, FlightInv, [Next]_vars
  PROVE  FlightInv'
<1>0. flight \subseteq Backends \X Ports \X Requests
  BY DEF TypeOK
<1>1. ASSUME flight' \subseteq flight
      PROVE  FlightInv'
  <2>1. ASSUME NEW m \in flight'
        PROVE  ServesClientOf(m[2], m[3])'
    <3>1. m \in flight /\ m[2] \in Ports /\ ServesClientOf(m[2], m[3])
      BY <1>0, <1>1, <2>1 DEF FlightInv
    <3>2. ~(peer[m[2]] = None /\ peer'[m[2]] # None) \/ m[3] \in overtaken'
      BY <3>1, PortEffects
    <3> QED
      BY <3>1, <3>2, ServesStay
  <2> QED
    BY <2>1 DEF FlightInv
<1>2. ASSUME NEW w \in Workers, Send(w)
      PROVE  FlightInv'
  <2>1. LocalInv(w) /\ SocketInv(w) /\ Using(w) /\ Holding(w)
    BY <1>2 DEF Send, SocketsInv, Using, Holding
  <2>2. /\ socket[w] \in Ports /\ packet[w] \in Requests
        /\ backend[w] \in Backends /\ Flow(w) \in Flows
    BY <2>1, AtWork DEF LocalInv
  <2>3. peer[socket[w]] # None
    BY <2>1, <2>2, NoneFacts DEF SocketInv
  <2>4. Users(socket[w]) \subseteq {ClientOf[packet[w]]}
    <3>1. \A v \in Workers : socket[v] = socket[w] => ClientOf[packet[v]] = ClientOf[packet[w]]
      BY <2>1 DEF SocketInv, Flow
    <3>2. \A f \in Flows : sessions[f] = socket[w] => f[1] = ClientOf[packet[w]]
      BY <2>1 DEF SocketInv, Flow
    <3> QED
      BY <3>1, <3>2 DEF Users
  <2>5. ASSUME NEW m \in flight'
        PROVE  ServesClientOf(m[2], m[3])'
    <3>1. m \in flight \/ m = <<backend[w], socket[w], packet[w]>>
      BY <1>2 DEF Send
    <3>2. m[2] \in Ports /\ ServesClientOf(m[2], m[3])
      <4>1. CASE m \in flight
        BY <1>0, <4>1 DEF FlightInv
      <4>2. CASE m = <<backend[w], socket[w], packet[w]>>
        BY <2>2, <2>4, <4>2 DEF ServesClientOf
      <4> QED
        BY <3>1, <4>1, <4>2
    <3>3. ~(peer[m[2]] = None /\ peer'[m[2]] # None) \/ m[3] \in overtaken'
      <4>1. CASE m \in flight
        BY <3>2, <4>1, PortEffects
      <4>2. CASE m = <<backend[w], socket[w], packet[w]>>
        BY <2>3, <4>2
      <4> QED
        BY <3>1, <4>1, <4>2
    <3> QED
      BY <3>2, <3>3, ServesStay
  <2> QED
    BY <2>5 DEF FlightInv
<1>3. ASSUME NEW m \in flight, Arrive(m)
      PROVE  FlightInv'
  BY <1>1, <1>3 DEF Arrive
<1> QED
  BY <1>1, <1>2, <1>3, Effects

(* An answer that is read leaves its queue, one that arrives joins it. *)
LEMMA RecvShrinks ==
  ASSUME TypeOK, SocketsInv, NEW w \in Workers, Recv(w), NEW p \in Ports
  PROVE  Unread(p)' \subseteq Unread(p)
<1>1. /\ queue[p] \in Seq(Requests)
      /\ p = socket[w] => queue[p] # << >>
      /\ queue'[p] \in {<< >>, queue[p]} \/ (p = socket[w] /\ queue'[p] = Tail(queue[p]))
  BY DEF Recv, TypeOK
<1>2. CASE queue'[p] = << >>
  BY <1>2 DEF Unread, Elems
<1>3. CASE queue'[p] = queue[p]
  BY <1>3 DEF Unread
<1>4. CASE p = socket[w] /\ queue'[p] = Tail(queue[p])
  BY <1>1, <1>4, QueueElems DEF Unread, Elems
<1> QED
  BY <1>1, <1>2, <1>3, <1>4

LEMMA ArriveAdds ==
  ASSUME TypeOK, NEW m \in flight, Arrive(m), NEW p \in Ports, NEW r \in Unread(p)'
  PROVE  r \in Unread(p) \/ (p = m[2] /\ r = m[3])
<1>1. /\ queue[p] \in Seq(Requests) /\ m[3] \in Requests
      /\ queue'[p] = queue[p] \/ (p = m[2] /\ queue'[p] = Append(queue[p], m[3]))
  BY DEF Arrive, TypeOK
<1>2. Unread(p)' = Elems(queue'[p])
  BY DEF Unread, Elems
<1>3. CASE queue'[p] = queue[p]
  BY <1>2, <1>3 DEF Unread
<1>4. CASE p = m[2] /\ queue'[p] = Append(queue[p], m[3])
  BY <1>1, <1>2, <1>4, QueueElems DEF Unread
<1> QED
  BY <1>1, <1>3, <1>4

(* What a port receives is meant for the clients it serves. *)
LEMMA StepQueue ==
  ASSUME TypeOK, SocketsInv, ClosedInv, FlightInv, QueueInv, [Next]_vars
  PROVE  QueueInv'
<1>0. ASSUME NEW p \in Ports, NEW r \in Unread(p)
      PROVE  ~(peer[p] = None /\ peer'[p] # None)
  BY <1>0 DEF ClosedInv, Unread, Elems
<1>1. ASSUME \A p \in Ports : Unread(p)' \subseteq Unread(p)
      PROVE  QueueInv'
  <2>1. ASSUME NEW p \in Ports, NEW r \in Unread(p)'
        PROVE  ServesClientOf(p, r)'
    BY <1>0, <1>1, <2>1, ServesStay DEF QueueInv
  <2> QED
    BY <2>1 DEF QueueInv
<1>2. ASSUME \A p \in Ports : queue'[p] = queue[p] \/ queue'[p] = << >>
      PROVE  QueueInv'
  <2>1. ASSUME NEW p \in Ports
        PROVE  Unread(p)' \subseteq Unread(p)
    <3>1. CASE queue'[p] = queue[p]
      BY <3>1 DEF Unread
    <3>2. CASE queue'[p] = << >>
      BY <3>2 DEF Unread, Elems
    <3> QED
      BY <1>2, <3>1, <3>2
  <2> QED
    BY <1>1, <2>1
<1>3. ASSUME NEW w \in Workers, Recv(w)
      PROVE  QueueInv'
  BY <1>1, <1>3, RecvShrinks
<1>4. ASSUME NEW m \in flight, Arrive(m)
      PROVE  QueueInv'
  <2>1. m[2] \in Ports /\ m[3] \in Requests /\ ServesClientOf(m[2], m[3])
    BY DEF TypeOK, FlightInv
  <2>2. UNCHANGED peer
    BY <1>4 DEF Arrive
  <2>3. ASSUME NEW p \in Ports, NEW r \in Unread(p)'
        PROVE  ServesClientOf(p, r)'
    <3>1. r \in Unread(p) \/ (p = m[2] /\ r = m[3])
      BY <1>4, ArriveAdds
    <3>2. ServesClientOf(p, r)
      BY <2>1, <3>1 DEF QueueInv
    <3> QED
      BY <2>2, <3>2, ServesStay
  <2> QED
    BY <2>3 DEF QueueInv
<1> QED
  BY <1>2, <1>3, <1>4, Effects

(* The answer a worker reads is for its client, and it passes it on. *)
LEMMA StepHand ==
  ASSUME TypeOK, SocketsInv, QueueInv, HandInv, [Next]_vars
  PROVE  HandInv'
<1>0. \A w \in Workers : LocalInv(w)
  BY DEF SocketsInv
<1>5. overtaken \subseteq overtaken'
  BY OvertakenGrows
<1>1. CASE UNCHANGED <<answer, packet>>
  BY <1>1, <1>5 DEF HandInv
<1>2. ASSUME NEW w \in Workers, Recv(w)
      PROVE  HandInv'
  <2>1. /\ pc[w] = "recv" /\ socket[w] \in Ports /\ queue[socket[w]] # << >>
        /\ queue[socket[w]] \in Seq(Requests)
    BY <1>0, <1>2, AtWork DEF Recv, Holding, Using, TypeOK
  <2>2. Head(queue[socket[w]]) \in Unread(socket[w])
    BY <2>1, QueueElems DEF Unread
  <2>3. ServesClientOf(socket[w], Head(queue[socket[w]]))
    BY <2>1, <2>2 DEF QueueInv
  <2>4. ClientOf[packet[w]] \in Users(socket[w])
    BY DEF Users
  <2>5. \/ Head(queue[socket[w]]) \in overtaken
        \/ ClientOf[Head(queue[socket[w]])] = ClientOf[packet[w]]
    BY <2>3, <2>4 DEF ServesClientOf
  <2>6. packet' = packet /\ answer' = [answer EXCEPT ![w] = Head(queue[socket[w]])]
    BY <1>2 DEF Recv
  <2> QED
    BY <1>5, <2>5, <2>6 DEF HandInv, TypeOK
<1>3. ASSUME NEW w \in Workers, Reply(w)
      PROVE  HandInv'
  BY <1>3, <1>5 DEF Reply, HandInv, TypeOK
<1>4. ASSUME NEW w \in Workers, MirrorPacket(w) \/ \E r \in Requests : Receive(w, r)
      PROVE  HandInv'
  <2>1. answer[w] = None
    BY <1>0, <1>4 DEF MirrorPacket, Receive, LocalInv
  <2>2. answer' = answer /\ \A v \in Workers \ {w} : packet'[v] = packet[v]
    BY <1>4 DEF MirrorPacket, Receive, TypeOK
  <2> QED
    BY <1>5, <2>1, <2>2 DEF HandInv
<1> QED
  BY <1>1, <1>2, <1>3, <1>4, Effects

LEMMA StepClient ==
  ASSUME TypeOK, SocketsInv, ClientInv, [Next]_vars
  PROVE  ClientInv'
<1>1. NoCrossClient'
  <2>0. overtaken \subseteq overtaken'
    BY OvertakenGrows
  <2>1. CASE passed' = passed
    BY <2>0, <2>1 DEF ClientInv, NoCrossClient
  <2>2. ASSUME NEW w \in Workers, Reply(w)
        PROVE  NoCrossClient'
    <3>1. answer[w] \in overtaken \/ ClientOf[answer[w]] = ClientOf[packet[w]]
      BY <2>2 DEF Reply, SocketsInv, LocalInv, ClientInv, HandInv
    <3>2. \A x \in passed' : x \in passed \/ x = <<packet[w], answer[w]>>
      BY <2>2 DEF Reply
    <3> QED
      BY <2>0, <3>1, <3>2 DEF ClientInv, NoCrossClient
  <2> QED
    BY <2>1, <2>2, Effects
<1> QED
  BY <1>1, StepClosed, StepFlight, StepQueue, StepHand DEF ClientInv

(* core.rs:132, per-client session socket for proper response correlation: *)
(* a client is never passed an answer to the packet of another, however    *)
(* packets, answers, failures, time-outs, the cleanup of sessions and the  *)
(* system's choice of ports interleave, unless the answer was under way to *)
(* a port at the moment the system gave that port out again.               *)
THEOREM Correlated == Spec => []NoCrossClient
<1>1. Init => ClientInv
  <2>1. Init => \A p \in Ports : Unread(p) = {}
    BY DEF Init, Unread, Elems
  <2> QED
    BY <2>1 DEF Init, ClientInv, ClosedInv, FlightInv, QueueInv, HandInv, NoCrossClient
<1>2. /\ Init => TypeOK /\ SocketsInv
      /\ TypeOK /\ SocketsInv /\ [Next]_vars => (TypeOK /\ SocketsInv)'
      /\ TypeOK /\ SocketsInv /\ ClientInv /\ [Next]_vars => ClientInv'
  BY InitTypeOK, InitSockets, StepSockets, StepClient
<1>3. ClientInv => NoCrossClient
  BY DEF ClientInv
<1> QED
  BY <1>1, <1>2, <1>3, PTL DEF Spec

-----------------------------------------------------------------------------
(* A queue without repetitions keeps having none. *)
LEMMA QueueNoTwice ==
  ASSUME NEW q \in Seq(Requests), NEW r \in Requests, NoTwice(q)
  PROVE  /\ r \notin Elems(q) => NoTwice(Append(q, r))
         /\ q # << >> => NoTwice(Tail(q)) /\ Head(q) \notin Elems(Tail(q))
         /\ NoTwice(<< >>)
<1>1. ASSUME r \notin Elems(q)
      PROVE  NoTwice(Append(q, r))
  <2>1. /\ Len(Append(q, r)) = Len(q) + 1
        /\ \A i \in 1 .. Len(q) : Append(q, r)[i] = q[i]
        /\ Append(q, r)[Len(q) + 1] = r /\ Len(q) \in Nat
    OBVIOUS
  <2>2. 1 .. (Len(q) + 1) = (1 .. Len(q)) \cup {Len(q) + 1}
    BY <2>1
  <2> QED
    BY <1>1, <2>1, <2>2 DEF NoTwice, Elems
<1>2. ASSUME q # << >>
      PROVE  NoTwice(Tail(q)) /\ Head(q) \notin Elems(Tail(q))
  <2>1. /\ Len(q) \in Nat /\ Len(q) > 0 /\ Head(q) = q[1]
        /\ Len(Tail(q)) = Len(q) - 1
        /\ \A i \in 1 .. Len(Tail(q)) : Tail(q)[i] = q[i + 1] /\ i + 1 \in 1 .. Len(q)
    BY <1>2
  <2>2. NoTwice(Tail(q))
    BY <2>1 DEF NoTwice
  <2>3. ASSUME NEW i \in 1 .. Len(Tail(q)), Tail(q)[i] = Head(q)
        PROVE  FALSE
    <3>1. q[i + 1] = q[1] /\ i + 1 \in 1 .. Len(q) /\ 1 \in 1 .. Len(q)
      BY <2>1, <2>3
    <3>2. i + 1 = 1
      BY <3>1 DEF NoTwice
    <3> QED
      BY <2>1, <3>2
  <2> QED
    BY <2>2, <2>3 DEF Elems
<1> QED
  BY <1>1, <1>2 DEF NoTwice

(* Each packet is handled once, by one worker. *)
LEMMA StepPacket ==
  ASSUME TypeOK, SocketsInv, PacketInv, [Next]_vars
  PROVE  PacketInv'
<1> USE NoneFacts DEF Goto, Hold, counted, locals
<1>0. \A w \in Workers : LocalInv(w)
  BY DEF SocketsInv
<1>1. ASSUME UNCHANGED <<packet, received>>,
             \A w \in Workers : pc'[w] = pc[w] \/ pc'[w] \in {"recv", "reply", "mirror"}
                                  \/ pc[w] \notin {"recv", "reply", "mirror"},
             sent' = sent
      PROVE  PacketInv'
  BY <1>1 DEF PacketInv
<1>2. ASSUME NEW w \in Workers, NEW r \in Requests, Receive(w, r)
      PROVE  PacketInv'
  <2>1. /\ r \notin received /\ received' = received \cup {r} /\ sent' = sent
        /\ packet'[w] = r /\ pc'[w] = "choose"
        /\ \A v \in Workers \ {w} : packet'[v] = packet[v] /\ pc'[v] = pc[v]
    BY <1>2 DEF Receive, TypeOK
  <2> QED
    BY <2>1 DEF PacketInv
<1>9. ASSUME NEW w \in Workers, NEW r \in Requests, Ignore(w, r)
      PROVE  PacketInv'
  BY <1>9 DEF Ignore, PacketInv
<1>3. ASSUME NEW w \in Workers, SendRaw(w) \/ Send(w)
      PROVE  PacketInv'
  <2>1. /\ packet[w] \in Requests /\ packet[w] # None
        /\ pc[w] \notin {"recv", "reply", "mirror"}
        /\ UNCHANGED <<packet, received>>
        /\ pc'[w] \in {"recv", "mirror"}
        /\ \A v \in Workers \ {w} : pc'[v] = pc[v]
        /\ sent' = sent \/ sent' = sent \cup {packet[w]}
    BY <1>0, <1>3, AtWork DEF SendRaw, Send, TypeOK
  <2> QED
    BY <2>1 DEF PacketInv
<1>4. ASSUME NEW w \in Workers, MirrorPacket(w)
      PROVE  PacketInv'
  <2>1. /\ packet'[w] = None /\ UNCHANGED <<sent, received>>
        /\ \A v \in Workers \ {w} : packet'[v] = packet[v] /\ pc'[v] = pc[v]
    BY <1>4 DEF MirrorPacket, TypeOK
  <2> QED
    BY <2>1 DEF PacketInv
<1>5. ASSUME NEW w \in Workers,
             Choose(w) \/ FindSession(w) \/ Bind(w) \/ Connect(w) \/ Insert(w)
               \/ Recv(w) \/ GiveUp(w) \/ Reply(w)
      PROVE  PacketInv'
  <2>1. /\ UNCHANGED <<packet, received, sent>>
        /\ \A v \in Workers \ {w} : pc'[v] = pc[v]
    BY <1>5 DEF Choose, FindSession, Bind, Connect, Insert, Recv, GiveUp, Reply, TypeOK
  <2>2. pc'[w] \in {"recv", "reply", "mirror"} \/ pc[w] \notin {"recv", "reply", "mirror"}
    BY <1>5 DEF Choose, FindSession, Bind, Connect, Insert, Recv, GiveUp, Reply, TypeOK
  <2> QED
    BY <1>1, <2>1, <2>2
<1>6. CASE \E f \in Flows : Expire(f)
  BY <1>1, <1>6 DEF Expire
<1>7. CASE \E m \in flight : Arrive(m)
  BY <1>1, <1>7 DEF Arrive
<1>8. CASE UNCHANGED vars
  BY <1>1, <1>8 DEF vars
<1> QED
  BY <1>2, <1>3, <1>4, <1>5, <1>6, <1>7, <1>8, <1>9 DEF Next, Step

-----------------------------------------------------------------------------
(* A step that moves no answer may drop some. *)
LEMMA AnswersDrop ==
  ASSUME TypeOK, Answers, sent \subseteq sent',
         UNCHANGED <<flight, answer, passed>>,
         \A p \in Ports : queue'[p] = queue[p] \/ queue'[p] = << >>
  PROVE  Answers'
<1>1. ASSUME NEW p \in Ports
      PROVE  Unread(p)' \subseteq Unread(p) /\ NoTwice(queue[p])'
  <2>1. CASE queue'[p] = queue[p]
    BY <2>1 DEF Unread, Elems, NoTwice, Answers
  <2>2. CASE queue'[p] = << >>
    BY <2>2 DEF Unread, Elems, NoTwice
  <2> QED
    BY <2>1, <2>2
<1>2. ASSUME NEW r \in Requests
      PROVE  AnswerInv(r)'
  <2>1. AnswerInv(r)
    BY DEF Answers
  <2>2. /\ InFlight(r)' <=> InFlight(r)
        /\ InHand(r)' <=> InHand(r)
        /\ Passed(r)' <=> Passed(r)
        /\ Queued(r)' => Queued(r)
    BY <1>1 DEF InFlight, InHand, Passed, Queued
  <2> QED
    BY <1>1, <2>1, <2>2 DEF AnswerInv
<1> QED
  BY <1>1, <1>2 DEF Answers

(* The answer to a packet that has not been sent before is in flight. *)
LEMMA AnswersSent ==
  ASSUME TypeOK, SocketsInv, PacketInv, Answers, NEW w \in Workers, Send(w)
  PROVE  Answers'
<1>1. /\ LocalInv(w) /\ packet[w] \in Requests /\ packet[w] \notin sent
  BY AtWork DEF Send, SocketsInv, PacketInv, LocalInv
<1>2. CASE flight' = flight
  <2>1. \A p \in Ports : queue'[p] = queue[p] \/ queue'[p] = << >>
    BY CloseFacts DEF Send
  <2> QED
    BY <1>2, <2>1, AnswersDrop DEF Send
<1>3. CASE /\ flight' = flight \cup {<<backend[w], socket[w], packet[w]>>}
           /\ sent' = sent \cup {packet[w]}
           /\ UNCHANGED <<queue, answer, passed>>
  <2>1. \A p \in Ports : Unread(p)' = Unread(p) /\ NoTwice(queue[p])'
    BY <1>3 DEF Unread, Elems, NoTwice, Answers
  <2>2. ASSUME NEW r \in Requests
        PROVE  AnswerInv(r)'
    <3>1. AnswerInv(r)
      BY DEF Answers
    <3>2. /\ InHand(r)' <=> InHand(r)
          /\ Passed(r)' <=> Passed(r)
          /\ Queued(r)' <=> Queued(r)
      BY <1>3, <2>1 DEF InHand, Passed, Queued
    <3>3. InFlight(r)' => InFlight(r) \/ r = packet[w]
      BY <1>3 DEF InFlight
    <3>4. \A m, n \in flight' : m[3] = r /\ n[3] = r => m = n
      <4>1. CASE r = packet[w]
        BY <1>1, <1>3, <3>1, <4>1 DEF AnswerInv, InFlight
      <4>2. CASE r # packet[w]
        BY <1>3, <3>1, <4>2 DEF AnswerInv
      <4> QED
        BY <4>1, <4>2
    <3> QED
      BY <1>1, <1>3, <2>1, <3>1, <3>2, <3>3, <3>4 DEF AnswerInv
  <2> QED
    BY <2>1, <2>2 DEF Answers
<1> QED
  BY <1>2, <1>3 DEF Send

(* An answer that arrives moves from the network to one queue, or is lost. *)
LEMMA AnswersArrive ==
  ASSUME TypeOK, Answers, NEW m \in flight, Arrive(m)
  PROVE  Answers'
<1> DEFINE a == m[3]
<1>1. /\ flight' = flight \ {m} /\ UNCHANGED <<answer, passed, sent>>
      /\ a \in Requests /\ m[2] \in Ports
  BY DEF Arrive, TypeOK, counted, locals
<1>2. InFlight(a) /\ AnswerInv(a)
  BY <1>1 DEF InFlight, Answers
<1>3. /\ \A n \in flight' : n[3] # a
      /\ \A p \in Ports : a \notin Unread(p)
      /\ ~InHand(a) /\ ~Passed(a) /\ a \in sent
  BY <1>1, <1>2 DEF AnswerInv, Queued
<1>4. \A p \in Ports : Unread(p)' \subseteq Unread(p) \cup (IF p = m[2] THEN {a} ELSE {})
  BY ArriveAdds
<1>5. ASSUME NEW p \in Ports
      PROVE  NoTwice(queue[p])'
  <2>1. /\ queue[p] \in Seq(Requests)
        /\ queue'[p] = queue[p] \/ queue'[p] = Append(queue[p], a)
        /\ NoTwice(queue[p]) /\ a \notin Elems(queue[p])
    BY <1>3 DEF Arrive, TypeOK, Answers, Unread
  <2>2. NoTwice(queue'[p])
    BY <1>1, <2>1, QueueNoTwice
  <2> QED
    BY <2>2 DEF NoTwice
<1>6. ASSUME NEW r \in Requests
      PROVE  AnswerInv(r)'
  <2>1. AnswerInv(r)
    BY DEF Answers
  <2>2. InHand(r)' = InHand(r) /\ Passed(r)' = Passed(r)
    BY <1>1 DEF InHand, Passed
  <2>3. CASE r = a
    <3>1. ~InFlight(r)' /\ ~InHand(r)' /\ ~Passed(r)' /\ r \in sent'
      BY <1>1, <1>3, <2>2, <2>3 DEF InFlight
    <3>2. \A p \in Ports : r \in Unread(p)' => p = m[2]
      BY <1>3, <1>4, <2>3
    <3> QED
      BY <1>1, <2>1, <2>3, <3>1, <3>2 DEF AnswerInv, InFlight
  <2>4. CASE r # a
    <3>1. \A p \in Ports : r \in Unread(p)' => r \in Unread(p)
      BY <1>4, <2>4
    <3>2. (Queued(r)' => Queued(r)) /\ (InFlight(r)' => InFlight(r))
      BY <1>1, <3>1 DEF Queued, InFlight
    <3> QED
      BY <1>1, <2>1, <2>2, <3>1, <3>2 DEF AnswerInv
  <2> QED
    BY <2>3, <2>4
<1> QED
  BY <1>5, <1>6 DEF Answers

(* An answer that is read moves from its queue to the hands of one worker. *)
LEMMA AnswersRecv ==
  ASSUME TypeOK, SocketsInv, Answers, NEW w \in Workers, Recv(w)
  PROVE  Answers'
<1> DEFINE q == queue[socket[w]]
           a == Head(q)
<1>1. /\ pc[w] = "recv" /\ socket[w] \in Ports /\ q # << >> /\ q \in Seq(Requests)
      /\ answer[w] = None
  BY AtWork DEF Recv, Holding, Using, TypeOK, SocketsInv, LocalInv
<1>2. a \in Requests /\ a \in Unread(socket[w])
  BY <1>1, QueueElems DEF Unread
<1>3. /\ UNCHANGED <<flight, passed, sent>>
      /\ answer' = [answer EXCEPT ![w] = a]
      /\ \A p \in Ports :
           \/ queue'[p] = << >>
           \/ p # socket[w] /\ queue'[p] = queue[p]
           \/ p = socket[w] /\ queue'[p] = Tail(queue[p])
  BY DEF Recv, TypeOK, counted
<1>4. AnswerInv(a)
  BY <1>2 DEF Answers
<1>5. /\ a \in sent /\ ~InFlight(a) /\ ~InHand(a) /\ ~Passed(a)
      /\ \A p \in Ports : a \in Unread(p) => p = socket[w]
  <2>1. Queued(a)
    BY <1>1, <1>2 DEF Queued
  <2> QED
    BY <1>1, <1>2, <1>4, <2>1 DEF AnswerInv
<1>6. ASSUME NEW p \in Ports
      PROVE  NoTwice(queue[p])' /\ a \notin Unread(p)'
  <2>1. NoTwice(queue[p]) /\ queue[p] \in Seq(Requests) /\ Unread(p)' = Elems(queue'[p])
    BY DEF Answers, TypeOK, Unread, Elems
  <2>2. CASE queue'[p] = << >>
    BY <2>1, <2>2 DEF NoTwice, Elems
  <2>3. CASE p # socket[w] /\ queue'[p] = queue[p]
    BY <1>5, <2>1, <2>3 DEF NoTwice, Unread
  <2>4. CASE p = socket[w] /\ queue'[p] = Tail(queue[p])
    <3>1. NoTwice(Tail(queue[p])) /\ Head(queue[p]) \notin Elems(Tail(queue[p]))
      BY <1>1, <1>2, <2>1, <2>4, QueueNoTwice
    <3> QED
      BY <2>1, <2>4, <3>1 DEF NoTwice
  <2> QED
    BY <1>3, <2>2, <2>3, <2>4
<1>7. \A p \in Ports : Unread(p)' \subseteq Unread(p)
  BY RecvShrinks
<1>8. ASSUME NEW r \in Requests
      PROVE  AnswerInv(r)'
  <2>1. AnswerInv(r)
    BY DEF Answers
  <2>2. /\ InFlight(r)' <=> InFlight(r)
        /\ Passed(r)' <=> Passed(r)
        /\ Queued(r)' => Queued(r)
    BY <1>3, <1>7 DEF InFlight, Passed, Queued
  <2>3. CASE r = a
    <3>1. ~InFlight(r)' /\ ~Passed(r)' /\ ~Queued(r)' /\ r \in sent'
      BY <1>3, <1>5, <1>6, <2>2, <2>3 DEF Queued
    <3>2. \A v \in Workers : answer'[v] = r => v = w
      BY <1>3, <1>5, <2>3 DEF InHand, TypeOK
    <3>3. /\ \A n, o \in flight' : n[3] = r /\ o[3] = r => n = o
          /\ \A p, s \in Ports : r \in Unread(p)' /\ r \in Unread(s)' => p = s
          /\ \A x, y \in passed' : x[2] = r /\ y[2] = r => x = y
      BY <1>3, <1>7, <2>1 DEF AnswerInv
    <3> QED
      BY <3>1, <3>2, <3>3 DEF AnswerInv
  <2>4. CASE r # a
    <3>1. \A v \in Workers : answer'[v] = r => answer[v] = r
      BY <1>3, <2>4 DEF TypeOK
    <3>2. InHand(r)' => InHand(r)
      BY <3>1 DEF InHand
    <3> QED
      BY <1>3, <1>7, <2>1, <2>2, <3>1, <3>2 DEF AnswerInv
  <2> QED
    BY <2>3, <2>4
<1> QED
  BY <1>6, <1>8 DEF Answers

(* An answer that is passed leaves the hands of its worker. *)
LEMMA AnswersReply ==
  ASSUME TypeOK, SocketsInv, Answers, NEW w \in Workers, Reply(w)
  PROVE  Answers'
<1> DEFINE a == answer[w]
<1>1. /\ a \in Requests /\ a # None
      /\ UNCHANGED <<flight, queue, sent>>
      /\ answer' = [answer EXCEPT ![w] = None]
      /\ passed' \subseteq passed \cup {<<packet[w], a>>}
  BY AtWork, NoneFacts DEF Reply, SocketsInv
<1>2. \A p \in Ports : Unread(p)' = Unread(p) /\ NoTwice(queue[p])'
  BY <1>1 DEF Unread, Elems, NoTwice, Answers
<1>3. ASSUME NEW r \in Requests
      PROVE  AnswerInv(r)'
  <2>1. AnswerInv(r) /\ r # None
    BY NoneFacts DEF Answers
  <2>2. /\ InFlight(r)' <=> InFlight(r)
        /\ Queued(r)' <=> Queued(r)
        /\ \A v \in Workers : answer'[v] = r => answer[v] = r /\ v # w
    BY <1>1, <1>2, <2>1 DEF InFlight, Queued, TypeOK
  <2>3. InHand(r)' => InHand(r)
    BY <2>2 DEF InHand
  <2>4. CASE r = a
    <3>1. InHand(r)
      BY <2>4 DEF InHand
    <3>2. /\ ~InFlight(r)' /\ ~Queued(r)' /\ ~Passed(r) /\ r \in sent'
      BY <1>1, <2>1, <2>2, <3>1 DEF AnswerInv
    <3>3. ~InHand(r)'
      BY <2>1, <2>2, <2>4 DEF InHand, AnswerInv
    <3>4. \A x, y \in passed' : x[2] = r /\ y[2] = r => x = y
      BY <1>1, <3>2 DEF Passed
    <3> QED
      BY <1>1, <1>2, <2>1, <2>2, <3>2, <3>3, <3>4 DEF AnswerInv
  <2>5. CASE r # a
    <3>1. \A x \in passed' : x[2] = r => x \in passed
      BY <1>1, <2>5
    <3>2. Passed(r)' => Passed(r)
      BY <3>1 DEF Passed
    <3> QED
      BY <1>1, <1>2, <2>1, <2>2, <2>3, <3>1, <3>2 DEF AnswerInv
  <2> QED
    BY <2>4, <2>5
<1> QED
  BY <1>2, <1>3 DEF Answers

LEMMA StepAnswers ==
  ASSUME TypeOK, SocketsInv, PacketInv, Answers, [Next]_vars
  PROVE  Answers'
<1>1. CASE /\ UNCHANGED <<flight, answer, passed>> /\ sent \subseteq sent'
           /\ \A p \in Ports : queue'[p] = queue[p] \/ queue'[p] = << >>
  BY <1>1, AnswersDrop
<1>2. ASSUME NEW w \in Workers, SendRaw(w)
      PROVE  sent \subseteq sent'
  BY <1>2 DEF SendRaw
<1>3. CASE \E w \in Workers : Send(w) \/ Recv(w) \/ Reply(w)
  BY <1>3, AnswersSent, AnswersRecv, AnswersReply
<1>4. CASE \E m \in flight : Arrive(m)
  BY <1>4, AnswersArrive
<1> QED
  BY <1>1, <1>2, <1>3, <1>4, Effects

(* Two workers may wait on one socket and the cleanup may take it from the *)
(* table meanwhile: an answer is passed to one client, once, although      *)
(* ports are given out again.                                              *)
THEOREM Once == Spec => []PassedOnce
<1>1. Init => OnceInv
  <2>1. Init => \A p \in Ports : Unread(p) = {} /\ NoTwice(queue[p])
    BY DEF Init, Unread, Elems, NoTwice
  <2> QED
    BY <2>1, NoneFacts DEF Init, OnceInv, Answers, PacketInv, AnswerInv, InFlight, Queued,
                           InHand, Passed
<1>2. /\ Init => TypeOK /\ SocketsInv
      /\ TypeOK /\ SocketsInv /\ [Next]_vars => (TypeOK /\ SocketsInv)'
      /\ TypeOK /\ SocketsInv /\ OnceInv /\ [Next]_vars => OnceInv'
  BY InitTypeOK, InitSockets, StepSockets, StepPacket, StepAnswers DEF OnceInv
<1>3. TypeOK /\ OnceInv => PassedOnce
  <2> SUFFICES ASSUME TypeOK, OnceInv PROVE PassedOnce
    OBVIOUS
  <2>1. \A x \in passed : x[2] \in Requests
    BY DEF TypeOK
  <2> QED
    BY <2>1 DEF OnceInv, Answers, AnswerInv, PassedOnce
<1> QED
  BY <1>1, <1>2, <1>3, PTL DEF Spec
=============================================================================
