----------------------------- MODULE Forwarding -----------------------------
(***************************************************************************)
(* The path of a packet: a listener worker receives it                     *)
(* (src/listener/batch.rs, standard.rs), Balancer::forward                 *)
(* (src/balancer/core.rs) picks a backend, takes the client's session      *)
(* socket from the SessionManager (src/balancer/session.rs), sends the     *)
(* packet and waits for one answer, the worker passes the answer to the    *)
(* client and then mirrors the packet (src/balancer/mirror.rs).            *)
(*                                                                         *)
(* Every .await is a place where other workers, the cleanup task and the   *)
(* network may step in, so each stretch between two awaits is an action.   *)
(* A socket is named by its local port and is closed when the last         *)
(* Arc<UdpSocket>, of the session table or of a worker, is dropped; the    *)
(* system may then give the port out again. The network may delay,         *)
(* reorder and lose packets and answers.                                   *)
(***************************************************************************)
EXTENDS Naturals, Sequences, FiniteSets

CONSTANTS
  Clients, Backends, Workers,
  Raw,          \* the backends in a raw socket mode: no answer expected
  Ports,        \* the local ports UdpSocket::bind may be given
  Requests,     \* bound: the packets the clients send, each once
  Empty,        \* those without a payload
  ClientOf,     \* ClientOf[r]: the source address of r
  None

ASSUME RawAssumption == Raw \subseteq Backends
ASSUME ClientAssumption == ClientOf \in [Requests -> Clients]
ASSUME EmptyAssumption == Empty \subseteq Requests
ASSUME NoneAssumption ==
  /\ \A S \in {Clients, Backends, Ports, Requests} : None \notin S
  /\ None # "any" /\ "any" \notin Backends

Flows == Clients \X Backends      \* SessionKey

VARIABLES
  pc,           \* pc[w]: where worker w is
  packet,       \* packet[w]: the packet it handles
  backend,      \* backend[w]: what Algorithm::next answered
  socket,       \* socket[w]: the Arc<UdpSocket> forward holds
  answer,       \* answer[w]: the response forward returned
  sessions,     \* sessions[f]: the session socket of flow f, or None
  peer,         \* peer[p]: None if p is closed, "any" when bound, or the backend
  queue,        \* queue[p]: the answers received by p and not yet read
  flight,       \* answers the network or a backend still holds: <<b, p, r>>
  sent,         \* history: packets counted in BALANCER_PACKETS_SENT
  passed,       \* history: <<r, a>>, answer a passed to the client of r
  mirrored,     \* history: packets handed to the mirrors
  received,     \* history: packets received by a worker
  expired,      \* history: sockets that the cleanup task took from the table
  overtaken     \* history: packets whose answer was under way to a port when
                \* the port was given out again

locals == <<pc, packet, backend, socket, answer>>
counted == <<sent, passed, mirrored, received>>
vars == <<pc, packet, backend, socket, answer, sessions, peer, queue, flight,
          sent, passed, mirrored, received, expired, overtaken>>

Init ==
  /\ pc = [w \in Workers |-> "idle"]
  /\ packet = [w \in Workers |-> None]
  /\ backend = [w \in Workers |-> None]
  /\ socket = [w \in Workers |-> None]
  /\ answer = [w \in Workers |-> None]
  /\ sessions = [f \in Flows |-> None]
  /\ peer = [p \in Ports |-> None]
  /\ queue = [p \in Ports |-> << >>]
  /\ flight = {}
  /\ sent = {} /\ passed = {} /\ mirrored = {} /\ received = {}
  /\ expired = {} /\ overtaken = {}

(* Mutant: a session for each backend, whoever the client is. *)
FlowOfBackend(w) == <<CHOOSE c \in Clients : TRUE, backend[w]>>

(* The SessionKey of the packet w handles. *)
Flow(w) == <<ClientOf[packet[w]], backend[w]>>

Goto(w, l) == pc' = [pc EXCEPT ![w] = l]
Hold(w, p) == socket' = [socket EXCEPT ![w] = p]

(* Someone holds an Arc of the socket of port p. *)
Referenced(p) ==
  (\E w \in Workers : socket[w] = p) \/ (\E f \in Flows : sessions[f] = p)

(* A step that may drop the last Arc of a socket closes it: the port is    *)
(* free and what it had received is gone.                                  *)
CloseUnreferenced ==
  /\ peer' = [p \in Ports |-> IF Referenced(p)' THEN peer[p] ELSE None]
  /\ queue' = [p \in Ports |-> IF Referenced(p)' THEN queue[p] ELSE << >>]

-----------------------------------------------------------------------------
(* recv_from returned a datagram without a payload: the loop goes on. *)
Ignore(w, r) ==
  /\ pc[w] = "idle" /\ r \in Empty \ received
  /\ received' = received \cup {r}
  /\ UNCHANGED <<locals, sessions, peer, queue, flight, sent, passed,
                 mirrored, expired, overtaken>>

(* recv_from returned a packet; handle_packet begins. *)
Receive(w, r) ==
  /\ pc[w] = "idle" /\ r \notin received \cup Empty
  /\ received' = received \cup {r}
  /\ packet' = [packet EXCEPT ![w] = r]
  /\ Goto(w, "choose")
  /\ UNCHANGED <<backend, socket, answer, sessions, peer, queue, flight,
                 sent, passed, mirrored, expired, overtaken>>

(* Mutant: a forward that fails leaves handle_packet. *)
ChooseOrLeave(w) ==
  /\ pc[w] = "choose"
  /\ \E b \in Backends \cup {None} :
       /\ backend' = [backend EXCEPT ![w] = b]
       /\ Goto(w, IF b = None THEN "idle" ELSE IF b \in Raw THEN "raw" ELSE "session")
  /\ UNCHANGED <<packet, socket, answer, sessions, peer, queue, flight, counted,
                 expired, overtaken>>

(* algorithm.next(key): any backend, or none available (BackendChoice). A  *)
(* call that returns is one step here; whether it returns is open.         *)
Choose(w) ==
  /\ pc[w] = "choose"
  /\ \E b \in Backends \cup {None} :
       /\ backend' = [backend EXCEPT ![w] = b]
       /\ Goto(w, IF b = None THEN "mirror" ELSE IF b \in Raw THEN "raw" ELSE "session")
  /\ UNCHANGED <<packet, socket, answer, sessions, peer, queue, flight, counted,
                 expired, overtaken>>

(* backend.send on a raw socket: sent, or failed; no answer either way.    *)
SendRaw(w) ==
  /\ pc[w] = "raw"
  /\ sent' \in {sent, sent \cup {packet[w]}}
  /\ Goto(w, "mirror")
  /\ UNCHANGED <<packet, backend, socket, answer, sessions, peer, queue, flight,
                 passed, mirrored, received, expired, overtaken>>

(* get_or_create_session, fast path. *)
FindSession(w) ==
  /\ pc[w] = "session" /\ sessions[Flow(w)] # None
  /\ Hold(w, sessions[Flow(w)])
  /\ Goto(w, "send")
  /\ UNCHANGED <<packet, backend, answer, sessions, peer, queue, flight, counted,
                 expired, overtaken>>

(* No session: a socket is bound to a free port of the system's choice, or *)
(* the bind fails and forward returns the error.                           *)
Bind(w) ==
  /\ pc[w] = "session" /\ sessions[Flow(w)] = None
  /\ \/ \E p \in Ports :
          /\ peer[p] = None
          /\ peer' = [peer EXCEPT ![p] = "any"]
          /\ expired' = expired \ {p}
          /\ overtaken' = overtaken \cup {m[3] : m \in {x \in flight : x[2] = p}}
          /\ Hold(w, p)
          /\ Goto(w, "connect")
     \/ Goto(w, "mirror") /\ UNCHANGED <<socket, peer, expired, overtaken>>
  /\ UNCHANGED <<packet, backend, answer, sessions, queue, flight, counted>>

(* From here on the socket receives from its backend only; what it got     *)
(* before stays in its queue. Or connect fails, the socket is dropped and  *)
(* forward returns the error.                                              *)
Connect(w) ==
  /\ pc[w] = "connect"
  /\ UNCHANGED <<packet, backend, answer, sessions, flight, counted, expired,
                 overtaken>>
  /\ \/ /\ peer' = [peer EXCEPT ![socket[w]] = backend[w]]
        /\ Goto(w, "insert")
        /\ UNCHANGED <<socket, queue>>
     \/ /\ Hold(w, None)
        /\ CloseUnreferenced
        /\ Goto(w, "mirror")

(* Mutant: insert in place of the entry API, the last one wins. *)
InsertAlways(w) ==
  /\ pc[w] = "insert"
  /\ sessions' = [sessions EXCEPT ![Flow(w)] = socket[w]]
  /\ Goto(w, "send")
  /\ UNCHANGED <<packet, backend, socket, answer, peer, queue, flight, counted,
                 expired, overtaken>>

(* The entry API: insert, or use the socket another worker inserted since  *)
(* the fast path and drop one's own.                                       *)
Insert(w) ==
  /\ pc[w] = "insert"
  /\ IF sessions[Flow(w)] = None
     THEN sessions' = [sessions EXCEPT ![Flow(w)] = socket[w]] /\ UNCHANGED socket
     ELSE Hold(w, sessions[Flow(w)]) /\ UNCHANGED sessions
  /\ Goto(w, "send")
  /\ UNCHANGED <<packet, backend, answer, flight, counted, expired, overtaken>>
  /\ CloseUnreferenced

(* session_socket.send: the packet goes out, and may be answered any time  *)
(* later; or it fails, say of an earlier ICMP error, and forward returns.  *)
Send(w) ==
  /\ pc[w] = "send"
  /\ UNCHANGED <<packet, backend, answer, sessions, passed, mirrored, received,
                 expired, overtaken>>
  /\ \/ /\ sent' = sent \cup {packet[w]}
        /\ flight' = flight \cup {<<backend[w], socket[w], packet[w]>>}
        /\ Goto(w, "recv")
        /\ UNCHANGED <<socket, peer, queue>>
     \/ /\ Hold(w, None)
        /\ CloseUnreferenced
        /\ Goto(w, "mirror")
        /\ UNCHANGED <<sent, flight>>

(* Mutant: the answer is peeked at and stays in the queue. *)
Peek(w) ==
  /\ pc[w] = "recv" /\ queue[socket[w]] # << >>
  /\ answer' = [answer EXCEPT ![w] = Head(queue[socket[w]])]
  /\ Hold(w, None)
  /\ Goto(w, "reply")
  /\ UNCHANGED <<packet, backend, sessions, flight, counted, expired, overtaken>>
  /\ CloseUnreferenced

(* session_socket.recv returned the oldest answer the socket holds. *)
Recv(w) ==
  /\ pc[w] = "recv" /\ queue[socket[w]] # << >>
  /\ answer' = [answer EXCEPT ![w] = Head(queue[socket[w]])]
  /\ Hold(w, None)
  /\ Goto(w, "reply")
  /\ UNCHANGED <<packet, backend, sessions, flight, counted, expired, overtaken>>
  /\ peer' = [p \in Ports |-> IF Referenced(p)' THEN peer[p] ELSE None]
  /\ queue' = [p \in Ports |->
                 IF ~Referenced(p)' THEN << >>
                 ELSE IF p = socket[w] THEN Tail(queue[p]) ELSE queue[p]]

(* Mutant: the timeout is passed on as an answer. *)
GiveUpAnswering(w) ==
  /\ pc[w] = "recv"
  /\ Hold(w, None)
  /\ Goto(w, "reply")
  /\ UNCHANGED <<packet, backend, answer, sessions, flight, counted, expired, overtaken>>
  /\ CloseUnreferenced

(* proxy_timeout has passed, or recv failed: forward returns Ok(None). So  *)
(* it does for an empty answer, which is as good as one that never arrives.*)
GiveUp(w) ==
  /\ pc[w] = "recv"
  /\ Hold(w, None)
  /\ Goto(w, "mirror")
  /\ UNCHANGED <<packet, backend, answer, sessions, flight, counted, expired, overtaken>>
  /\ CloseUnreferenced

(* The listener's socket sends the answer to the client, or fails to. *)
Reply(w) ==
  /\ pc[w] = "reply"
  /\ passed' \in {passed, passed \cup {<<packet[w], answer[w]>>}}
  /\ answer' = [answer EXCEPT ![w] = None]
  /\ Goto(w, "mirror")
  /\ UNCHANGED <<packet, backend, socket, sessions, peer, queue, flight,
                 sent, mirrored, received, expired, overtaken>>

(* mirror.mirror, whatever became of forward; the worker is free again.    *)
MirrorPacket(w) ==
  /\ pc[w] = "mirror"
  /\ mirrored' = mirrored \cup {packet[w]}
  /\ packet' = [packet EXCEPT ![w] = None]
  /\ backend' = [backend EXCEPT ![w] = None]
  /\ Goto(w, "idle")
  /\ UNCHANGED <<socket, answer, sessions, peer, queue, flight,
                 sent, passed, received, expired, overtaken>>

(* Mutant: the cleanup closes the socket, whoever holds it. *)
ExpireClosing(f) ==
  /\ sessions[f] # None
  /\ sessions' = [sessions EXCEPT ![f] = None]
  /\ expired' = expired \cup {sessions[f]}
  /\ peer' = [peer EXCEPT ![sessions[f]] = None]
  /\ queue' = [queue EXCEPT ![sessions[f]] = << >>]
  /\ UNCHANGED <<locals, flight, counted, overtaken>>

(* cleanup_expired removes a session; a worker may still hold its socket.  *)
(* Time is not modelled here: any session may have been idle long enough.  *)
Expire(f) ==
  /\ sessions[f] # None
  /\ sessions' = [sessions EXCEPT ![f] = None]
  /\ expired' = expired \cup {sessions[f]}
  /\ UNCHANGED <<locals, flight, counted, overtaken>>
  /\ CloseUnreferenced

(* An answer reaches the host: a connected socket takes it from its        *)
(* backend only, one that is just bound from anyone, a closed port drops   *)
(* it. An answer that is lost is one that never arrives.                   *)
Arrive(m) ==
  LET b == m[1] p == m[2] r == m[3] IN
  /\ flight' = flight \ {m}
  /\ queue' = IF peer[p] \in {b, "any"}
              THEN [queue EXCEPT ![p] = Append(@, r)] ELSE queue
  /\ UNCHANGED <<locals, sessions, peer, counted, expired, overtaken>>

(* The steps of worker w after recv_from and outside of next().            *)
Step(w) ==
  \/ SendRaw(w) \/ FindSession(w) \/ Bind(w) \/ Connect(w) \/ Insert(w)
  \/ Send(w) \/ Recv(w) \/ GiveUp(w) \/ Reply(w) \/ MirrorPacket(w)

Next ==
  \/ \E w \in Workers, r \in Requests : Ignore(w, r) \/ Receive(w, r)
  \/ \E w \in Workers : Choose(w) \/ Step(w)
  \/ \E f \in Flows : Expire(f)
  \/ \E m \in flight : Arrive(m)

Spec == Init /\ [][Next]_vars

(* tokio polls a task that is ready, and the timer of proxy_timeout fires  *)
(* in the end. The network owes nothing, and next() owes no return.        *)
Fairness == \A w \in Workers : WF_vars(Step(w))

FairSpec == Spec /\ Fairness

-----------------------------------------------------------------------------
(* Types of the variables. *)
TypeOK ==
  /\ pc \in [Workers -> {"idle", "choose", "raw", "session", "connect", "insert",
                         "send", "recv", "reply", "mirror"}]
  /\ packet \in [Workers -> Requests \cup {None}]
  /\ backend \in [Workers -> Backends \cup {None}]
  /\ socket \in [Workers -> Ports \cup {None}]
  /\ answer \in [Workers -> Requests \cup {None}]
  /\ sessions \in [Flows -> Ports \cup {None}]
  /\ peer \in [Ports -> Backends \cup {None, "any"}]
  /\ queue \in [Ports -> Seq(Requests)]
  /\ flight \subseteq Backends \X Ports \X Requests
  /\ sent \subseteq Requests
  /\ passed \subseteq Requests \X Requests
  /\ mirrored \subseteq Requests /\ received \subseteq Requests
  /\ expired \subseteq Ports /\ overtaken \subseteq Requests

Using(w) == pc[w] \in {"send", "recv"}

(* session.rs:75-89: the workers that handle packets of one flow use the   *)
(* one socket of its session, unless the cleanup task has taken the        *)
(* session away from under them; creating a session never does.            *)
OneSocketPerFlow ==
  \A w \in Workers :
    Using(w) => socket[w] = sessions[Flow(w)] \/ socket[w] \in expired

(* A socket in use is open, connected to the backend chosen for the        *)
(* packet, and no other flow uses it or has it as its session.             *)
SocketsNotShared ==
  /\ \A w \in Workers : Using(w) =>
       /\ peer[socket[w]] = backend[w]
       /\ \A v \in Workers :
            Using(v) /\ socket[v] = socket[w] => Flow(v) = Flow(w)
       /\ \A f \in Flows : sessions[f] = socket[w] => f = Flow(w)
  /\ \A f, g \in Flows : sessions[f] = sessions[g] /\ f # g => sessions[f] = None

(* core.rs:132 "per-client session socket for proper response              *)
(* correlation": a client is passed answers to its own packets only. The   *)
(* one exception: an answer that was still under way when the port of its  *)
(* session was given out again may reach the new owner of the port.        *)
NoCrossClient ==
  \A x \in passed : ClientOf[x[1]] = ClientOf[x[2]] \/ x[2] \in overtaken

(* The stronger reading of the same comment: what a client is passed while *)
(* its packet is handled answers that packet.                              *)
AnswersItsRequest == \A x \in passed : x[1] = x[2]

(* The answer a client is passed is not passed again, to it or to another, *)
(* though two workers may wait on one socket.                              *)
PassedOnce == \A x, y \in passed : x[2] = y[2] => x = y

(* Every packet with a payload is mirrored once it is received: no early   *)
(* end of forward, be it the bind, the connect, the send or a missing      *)
(* answer, keeps a worker from it. This is so as long as the calls of      *)
(* next() return, which WeightedRoundRobin refutes for wrr (wrr.rs:65).    *)
NextReturns == \A w \in Workers : []<>(pc[w] # "choose")

EveryPacketMirrored ==
  NextReturns => \A r \in Requests \ Empty : r \in received ~> r \in mirrored
=============================================================================
