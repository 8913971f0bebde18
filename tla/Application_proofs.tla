------------------------- MODULE Application_proofs -------------------------
(***************************************************************************)
(* Proofs about HealthCheck and Application for any configurations, any    *)
(* number of backends and processors, and any answers.                     *)
(***************************************************************************)
EXTENDS Application, TLAPS

(***************************************************************************)
(* The health checker. The gauge and the flag agree between checks         *)
(* because, at the point between the two stores, flag and was_alive        *)
(* already say what the gauge is about to say (Pending).                   *)
(***************************************************************************)
USE DEF environment, run, Goto

(* Between the store of the flag and the one of the gauge the flag says    *)
(* what the response under way says.                                       *)
Pending ==
  \A b \in Backends : task[b] = "gauge" =>
    (alive[b] <=> IsOk(b)) /\ (wasAlive[b] <=> IsOk(b))

IInv == TypeOK /\ Pending /\ GaugeAgrees

(* TypeOK, one function at a time. *)
LEMMA TypeParts ==
  TypeOK <=>
    /\ state \in [Backends -> Answers]
    /\ task \in [Backends -> {"select", "request", "publish", "gauge", "ended"}]
    /\ response \in [Backends -> Answers \cup {None}]
    /\ due \in [Backends -> BOOLEAN] /\ alive \in [Backends -> BOOLEAN]
    /\ wasAlive \in [Backends -> BOOLEAN] /\ stop \in [Backends -> BOOLEAN]
    /\ gauge \in [Backends -> {0, 1}]
    /\ runner \in {"waiting", "joining", "returned"}
    /\ shutdown \in BOOLEAN
  BY DEF TypeOK

LEMMA TypeInit == Init => TypeOK
  BY TypeParts DEF Init

LEMMA TypeStep == TypeOK /\ [Next]_vars => TypeOK'
<1> SUFFICES ASSUME TypeOK, [Next]_vars PROVE TypeOK'
  OBVIOUS
<1> USE TypeParts
<1>1. ASSUME NEW b \in Backends,
             IntervalPasses(b) \/ Task(b) \/ Stop(b) \/ Change(b)
      PROVE  TypeOK'
  <2>1. CASE IntervalPasses(b)
    BY <2>1 DEF IntervalPasses, TypeOK
  <2>2. CASE Tick(b)
    BY <2>2 DEF Tick, TypeOK
  <2>3. CASE Respond(b)
    BY <2>3 DEF Respond, TypeOK
  <2>4. CASE Publish(b)
    BY <2>4 DEF Publish, IsOk, TypeOK
  <2>5. CASE SetGauge(b)
    BY <2>5 DEF SetGauge, TypeOK
  <2>6. CASE Stop(b)
    BY <2>6 DEF Stop, TypeOK
  <2>7. CASE Change(b)
    BY <2>7 DEF Change, TypeOK
  <2> QED
    BY <1>1, <2>1, <2>2, <2>3, <2>4, <2>5, <2>6, <2>7 DEF Task
<1>2. CASE PassOn
  BY <1>2 DEF PassOn, TypeOK
<1>3. CASE Join
  BY <1>3 DEF Join, TypeOK
<1>4. CASE Shutdown
  BY <1>4 DEF Shutdown, TypeOK
<1>5. CASE UNCHANGED vars
  BY <1>5 DEF vars, TypeOK
<1> QED
  BY <1>1, <1>2, <1>3, <1>4, <1>5 DEF Next

(* Every reachable state is well typed. *)
THEOREM CheckerTypes == Spec => []TypeOK
  BY TypeInit, TypeStep, PTL DEF Spec

(* A step of the task of one backend keeps the two invariants of it, and   *)
(* leaves those of the others alone.                                       *)
LEMMA AgreementStep ==
  IInv /\ [Next]_vars => (Pending /\ GaugeAgrees)'
<1> SUFFICES ASSUME IInv, [Next]_vars, NEW c \in Backends
    PROVE /\ task'[c] = "gauge" =>
               (alive'[c] <=> IsOk(c)') /\ (wasAlive'[c] <=> IsOk(c)')
          /\ task'[c] \in {"select", "request", "ended"} =>
               (gauge'[c] = 1 <=> alive'[c]) /\ (wasAlive'[c] <=> alive'[c])
  BY DEF Pending, GaugeAgrees
<1> USE TypeParts DEF IInv, Pending, GaugeAgrees
<1>1. ASSUME NEW b \in Backends,
             IntervalPasses(b) \/ Task(b) \/ Stop(b) \/ Change(b)
      PROVE  /\ task'[c] = "gauge" =>
                  (alive'[c] <=> IsOk(c)') /\ (wasAlive'[c] <=> IsOk(c)')
             /\ task'[c] \in {"select", "request", "ended"} =>
                  (gauge'[c] = 1 <=> alive'[c]) /\ (wasAlive'[c] <=> alive'[c])
  <2>1. CASE IntervalPasses(b)
    BY <2>1 DEF IntervalPasses, IsOk
  <2>2. CASE Tick(b)
    BY <2>2 DEF Tick, IsOk
  <2>3. CASE Respond(b)
    BY <2>3 DEF Respond, IsOk
  <2>4. CASE Publish(b)
    BY <2>4 DEF Publish, IsOk
  <2>5. CASE SetGauge(b)
    BY <2>5 DEF SetGauge, IsOk
  <2>6. CASE Stop(b)
    BY <2>6 DEF Stop, IsOk
  <2>7. CASE Change(b)
    BY <2>7 DEF Change, IsOk
  <2> QED
    BY <1>1, <2>1, <2>2, <2>3, <2>4, <2>5, <2>6, <2>7 DEF Task
<1>2. CASE PassOn
  BY <1>2 DEF PassOn, IsOk
<1>3. CASE Join
  BY <1>3 DEF Join, IsOk
<1>4. CASE Shutdown
  BY <1>4 DEF Shutdown, IsOk
<1>5. CASE UNCHANGED vars
  BY <1>5 DEF vars, IsOk
<1> QED
  BY <1>1, <1>2, <1>3, <1>4, <1>5 DEF Next

(* Between checks gauge, flag and was_alive agree, for any number of       *)
(* backends that change at any moment.                                     *)
THEOREM GaugeSaysFlag == Spec => []GaugeAgrees
<1>1. Init => IInv
  BY TypeInit DEF Init, IInv, Pending, GaugeAgrees
<1>2. IInv /\ [Next]_vars => IInv'
  BY TypeStep, AgreementStep DEF IInv
<1> QED
  BY <1>1, <1>2, PTL DEF Spec, IInv

(* A task that has ended does nothing any more, and run() returns when all *)
(* have.                                                                   *)
THEOREM ReturnsLast == Spec => []NothingLeftRunning
<1>1. Init => TypeOK /\ NothingLeftRunning
  BY TypeInit DEF Init, NothingLeftRunning
<1>2. TypeOK /\ NothingLeftRunning /\ [Next]_vars => NothingLeftRunning'
  <2> SUFFICES ASSUME TypeOK, NothingLeftRunning, [Next]_vars,
                      runner' = "returned", NEW c \in Backends
      PROVE task'[c] = "ended"
    BY DEF NothingLeftRunning
  <2> USE TypeParts DEF NothingLeftRunning
  <2>1. ASSUME NEW b \in Backends,
               IntervalPasses(b) \/ Task(b) \/ Stop(b) \/ Change(b)
        PROVE  task'[c] = "ended"
    <3>1. runner = "returned" /\ task[c] = "ended" /\ task[b] = "ended"
      BY <2>1 DEF IntervalPasses, Task, Tick, Respond, Publish, SetGauge, Stop, Change
    <3> QED
      BY <2>1, <3>1 DEF IntervalPasses, Task, Tick, Respond, Publish, SetGauge, Stop, Change
  <2>2. CASE PassOn
    BY <2>2 DEF PassOn
  <2>3. CASE Join
    BY <2>3 DEF Join
  <2>4. CASE Shutdown
    BY <2>4 DEF Shutdown
  <2>5. CASE UNCHANGED vars
    BY <2>5 DEF vars
  <2> QED
    BY <2>1, <2>2, <2>3, <2>4, <2>5 DEF Next
<1> QED
  BY <1>1, <1>2, TypeStep, PTL DEF Spec

-----------------------------------------------------------------------------
(***************************************************************************)
(* The program. First: the checker inside the program is the checker of    *)
(* HealthCheck, so that what the theorems above say of it holds in the     *)
(* program. Then the two properties of servers, from an invariant about    *)
(* the servers that are built (those below at) and those that are not.     *)
(***************************************************************************)
(* HealthCheck has one shutdown message; here it is one of those told. *)
ToldAgrees == shutdown \in BOOLEAN /\ (shutdown <=> Checker \in told)

LEMMA ToldInit == AppInit => ToldAgrees
  BY DEF AppInit, Init, ToldAgrees

(* A step of the program is a step of the checker or leaves it alone. *)
LEMMA CheckerSteps ==
  ToldAgrees /\ [AppNext]_allVars => [Next]_vars /\ ToldAgrees'
<1> SUFFICES ASSUME ToldAgrees, [AppNext]_allVars
    PROVE [Next]_vars /\ ToldAgrees'
  OBVIOUS
<1> USE DEF ToldAgrees
<1>1. CASE App \/ Interrupt \/ Fail
  <2>1. CASE Tell
    <3>1. told \subseteq told' /\ shutdown' = (Checker \in told') /\ UNCHANGED <<state, idle>>
      BY <2>1 DEF Tell
    <3>2. CASE shutdown
      BY <3>1, <3>2 DEF idle, run, vars
    <3>3. CASE ~shutdown /\ shutdown'
      BY <3>1, <3>3 DEF idle, run, vars, Next, Shutdown
    <3>4. CASE ~shutdown /\ ~shutdown'
      <4>1. shutdown = FALSE /\ shutdown' = FALSE
        BY <3>1, <3>4
      <4> QED
        BY <3>1, <4>1 DEF idle, run, vars
    <3> QED
      BY <3>2, <3>3, <3>4
  <2>2. CASE ~Tell
    <3>1. UNCHANGED <<vars, told>>
      BY <1>1, <2>2 DEF App, Load, BuildBalancer, BuildMirror, Listen, StartServices,
                        Await, Interrupt, Fail
    <3> QED
      BY <3>1 DEF vars
  <2> QED
    BY <2>1, <2>2
<1>2. CASE Listeners \/ EndRuntime \/ \E w \in Loops : Chosen(w)
  <2>1. UNCHANGED <<vars, told>>
    BY <1>2 DEF Listeners, ListenerStep, SpawnWorkers, TellWorkers, JoinWorkers,
                StopCleanup, Receive, Handled, StopLoop, LoopStep, Chosen, EndRuntime
  <2> QED
    BY <2>1 DEF vars
<1>3. CASE StatusDrain \/ StatusEnd \/ Ask \/ Answered
  <2>1. UNCHANGED <<vars, told>>
    BY <1>3 DEF StatusDrain, StatusEnd, StatusStep, Ask, Answered
  <2> QED
    BY <2>1 DEF vars
<1>4. CASE HealthChecker \/ \E b \in Backends : CheckerStep(Change(b))
  <2>1. Next /\ UNCHANGED <<shutdown, told>>
    BY <1>4 DEF HealthChecker, CheckerStep, appVars, Next, Task, IntervalPasses, Tick,
                Respond, Publish, SetGauge, Stop, Change, PassOn, Join, environment
  <2> QED
    BY <2>1
<1>5. CASE UNCHANGED allVars
  BY <1>5 DEF allVars, vars, appVars
<1> QED
  BY <1>1, <1>2, <1>3, <1>4, <1>5 DEF AppNext

(* The program runs the health checker as HealthCheck specifies it. *)
THEOREM RunsTheChecker == AppSpec => Spec
<1>1. AppInit => Init /\ ToldAgrees
  BY ToldInit DEF AppInit
<1> QED
  BY <1>1, CheckerSteps, PTL DEF AppSpec, Spec

(* In the program too gauge and flag agree between checks. *)
THEOREM ProgramGauge == AppSpec => []GaugeAgrees
  BY RunsTheChecker, GaugeSaysFlag, PTL

-----------------------------------------------------------------------------
(* The servers.                                                            *)

ServerTypes ==
  /\ conf \in Configurations
  /\ at \in Nat \ {0}
  /\ parent \in [Servers -> {"off", "spawned", "waiting", "joining", "returned"}]
  /\ loop \in [Loops -> {"off", "select", "next", "busy", "ended"}]
  /\ label \in [Servers -> {"none", "configured", "bound"}]
  /\ cleanup \in [Servers -> {"off", "on", "panicked", "ended"}]

(* The cleanup task of a server with a balancer has been spawned. *)
Swept(s) ==
  conf[s].balancer # None =>
    \/ cleanup[s] = FirstTick(s)
    \/ cleanup[s] = "ended" /\ Cleanup(s) \in told

(* The server that is being built, and those that are not yet. *)
NotYet ==
  \A s \in Servers : s >= at =>
    parent[s] = "off" /\ \A w \in LoopsOf(s) : loop[w] = "off"

Built ==
  /\ \A s \in Servers : s < at => label[s] = "bound" /\ Swept(s)
  /\ app \in {"mirror", "bind"} => at \in Servers /\ Swept(at)
  /\ app = "load" => at = 1
  /\ app \in {"build", "mirror", "bind"} \/ at > 1 => Valid(conf)

Orphans ==
  \A s \in Servers : parent[s] = "returned" =>
    \A w \in LoopsOf(s) : loop[w] \in {"off", "ended"}

AppInv == ServerTypes /\ NotYet /\ Built /\ Orphans

LEMMA ServersAreNumbers ==
  ASSUME conf \in Configurations
  PROVE  /\ Servers \subseteq Nat \ {0}
         /\ \A s \in Servers : conf[s] \in ServerConfigs
  BY ConfigurationsAssumption DEF Servers

(* The first loop of the server that is built is one of its loops. *)
LEMMA LoopsAreServers ==
  /\ \A w \in Loops : w[1] \in Servers /\ w = <<w[1], w[2]>>
  /\ \A s \in Servers : \A w \in LoopsOf(s) : w \in Loops /\ w[1] = s
  BY DEF Loops, LoopsIn, LoopsOf, Servers

LEMMA InitServers == AppInit => AppInv
  <1> SUFFICES ASSUME AppInit PROVE AppInv
    OBVIOUS
  <1>1. ServerTypes
    BY DEF AppInit, ServerTypes
  <1>2. NotYet /\ Orphans
    BY LoopsAreServers DEF AppInit, NotYet, Orphans
  <1>3. Built
    BY <1>1, ServersAreNumbers DEF AppInit, Built, ServerTypes
  <1> QED
    BY <1>1, <1>2, <1>3 DEF AppInv

(* What the sets of servers and loops are made of does not change. *)
LEMMA SameServers ==
  ASSUME conf' = conf
  PROVE  /\ Servers' = Servers /\ Loops' = Loops
         /\ \A s \in Servers : LoopsOf(s)' = LoopsOf(s) /\ FirstTick(s)' = FirstTick(s)
         /\ Valid(conf)' = Valid(conf)
  BY DEF Servers, Loops, LoopsIn, LoopsOf, FirstTick, Valid

(* Steps that touch nothing of the servers. *)
LEMMA ServersAlone ==
  ASSUME AppInv, UNCHANGED <<conf, at, servers>>, told \subseteq told',
         \/ app' = app
         \/ app' \notin {"load", "build", "mirror", "bind"}
  PROVE  AppInv'
<1> USE SameServers DEF AppInv, servers
<1>1. ServerTypes'
  BY DEF ServerTypes
<1>2. NotYet' /\ Orphans'
  BY DEF NotYet, Orphans
<1>3. \A s \in Servers : Swept(s) => Swept(s)'
  BY DEF Swept
<1>4. Built'
  BY <1>3 DEF Built
<1> QED
  BY <1>1, <1>2, <1>4

LEMMA StartSteps ==
  ASSUME AppInv, Load \/ BuildBalancer \/ BuildMirror \/ Listen
  PROVE  AppInv'
<1> USE ServersAreNumbers, LoopsAreServers, SameServers DEF AppInv
<1>1. CASE Load
  <2>1. UNCHANGED <<conf, at, parent, loop, label, cleanup, told>>
    BY <1>1 DEF Load, servers
  <2>2. ServerTypes' /\ NotYet' /\ Orphans'
    BY <2>1 DEF ServerTypes, NotYet, Orphans
  <2>3. Built'
    BY <1>1, <2>1 DEF Load, Built, ServerTypes
  <2> QED
    BY <2>2, <2>3
<1>2. CASE BuildBalancer
  <2>1. UNCHANGED <<conf, at, parent, loop, told>> /\ at \in Servers /\ app' = "mirror"
    BY <1>2 DEF BuildBalancer
  <2>2. FirstTick(at) \in {"on", "panicked"}
    BY DEF FirstTick
  <2>3. ServerTypes'
    BY <1>2, <2>1, <2>2 DEF BuildBalancer, ServerTypes
  <2>4. NotYet' /\ Orphans'
    BY <2>1 DEF NotYet, Orphans
  <2>5. \A s \in Servers : s < at => label'[s] = "bound" /\ Swept(s)'
    BY <1>2, <2>1 DEF BuildBalancer, Built, Swept, ServerTypes
  <2>6. Swept(at)'
    BY <1>2, <2>1 DEF BuildBalancer, Swept, ServerTypes
  <2>7. Built'
    BY <1>2, <2>1, <2>5, <2>6 DEF BuildBalancer, Built
  <2> QED
    BY <2>3, <2>4, <2>7
<1>3. CASE BuildMirror
  <2>1. UNCHANGED <<conf, at, parent, loop, cleanup, told>> /\ app' = "bind"
    BY <1>3 DEF BuildMirror
  <2>2. ServerTypes' /\ NotYet' /\ Orphans'
    BY <1>3, <2>1 DEF BuildMirror, ServerTypes, NotYet, Orphans, Built
  <2>3. \A s \in Servers : s < at => label'[s] = "bound"
    BY <1>3 DEF BuildMirror, Built, ServerTypes
  <2>4. \A s \in Servers : Swept(s) => Swept(s)'
    BY <2>1 DEF Swept
  <2>5. Built'
    BY <1>3, <2>1, <2>3, <2>4 DEF BuildMirror, Built
  <2> QED
    BY <2>2, <2>5
<1>4. CASE Listen
  <2>1. /\ UNCHANGED <<conf, cleanup, told>> /\ at' = at + 1 /\ app = "bind" /\ app' = "build"
        /\ at \in Servers /\ label' = [label EXCEPT ![at] = "bound"]
    BY <1>4 DEF Listen, Built
  <2>2. ServerTypes' /\ NotYet' /\ Orphans'
    <3>1. CASE conf[at].mode = "standard"
      <4>1. loop' = [loop EXCEPT ![<<at, 1>>] = "select"] /\ UNCHANGED parent
        BY <1>4, <3>1 DEF Listen
      <4>2. loop' \in [Loops -> {"off", "select", "next", "busy", "ended"}]
        BY <4>1 DEF ServerTypes
      <4>3. \A s \in Servers : s # at => \A w \in LoopsOf(s) : loop'[w] = loop[w]
        BY <4>1 DEF ServerTypes
      <4>4. ServerTypes'
        BY <2>1, <4>1, <4>2 DEF ServerTypes
      <4>5. NotYet'
        BY <2>1, <4>1, <4>3 DEF NotYet, ServerTypes
      <4>6. Orphans'
        BY <2>1, <4>1, <4>3 DEF Orphans, NotYet, ServerTypes
      <4> QED
        BY <4>4, <4>5, <4>6
    <3>2. CASE conf[at].mode # "standard"
      <4>1. parent' = [parent EXCEPT ![at] = "spawned"] /\ UNCHANGED loop
        BY <1>4, <3>2 DEF Listen
      <4>2. ServerTypes'
        BY <2>1, <4>1 DEF ServerTypes
      <4>3. NotYet' /\ Orphans'
        BY <2>1, <4>1 DEF NotYet, Orphans, ServerTypes
      <4> QED
        BY <4>2, <4>3
    <3> QED
      BY <3>1, <3>2
  <2>4. \A s \in Servers : Swept(s) => Swept(s)'
    BY <2>1 DEF Swept
  <2>5. Built'
    BY <2>1, <2>4 DEF Built, ServerTypes
  <2> QED
    BY <2>2, <2>5
<1> QED
  BY <1>1, <1>2, <1>3, <1>4

(* A step of the listener of server s, or of one of its loops, leaves all  *)
(* other servers alone and happens to a listener that was spawned.         *)
LEMMA ListenerSteps ==
  ASSUME AppInv, NEW s \in Servers, ListenerStep(s) \/ StopCleanup(s)
  PROVE  AppInv'
<1> USE ServersAreNumbers, LoopsAreServers, SameServers DEF AppInv
<1>1. UNCHANGED <<conf, app, at, label, told>>
  BY DEF ListenerStep, SpawnWorkers, TellWorkers, JoinWorkers, StopCleanup, servers
<1>2. CASE SpawnWorkers(s)
  <2>1. /\ parent[s] = "spawned" /\ parent' = [parent EXCEPT ![s] = "waiting"]
        /\ loop' = [w \in Loops |-> IF w[1] = s THEN "select" ELSE loop[w]]
        /\ UNCHANGED cleanup
    BY <1>2 DEF SpawnWorkers
  <2>2. ServerTypes'
    BY <1>1, <2>1 DEF ServerTypes
  <2>3. s < at
    BY <2>1 DEF NotYet, ServerTypes
  <2>4. NotYet' /\ Orphans'
    BY <1>1, <2>1, <2>3 DEF NotYet, Orphans, ServerTypes
  <2>5. Built'
    BY <1>1, <2>1 DEF Built, Swept
  <2> QED
    BY <2>2, <2>4, <2>5
<1>3. CASE TellWorkers(s) \/ JoinWorkers(s)
  <2>1. /\ parent[s] \in {"waiting", "joining"} /\ UNCHANGED <<loop, cleanup>>
        /\ \E l \in {"joining", "returned"} : parent' = [parent EXCEPT ![s] = l]
        /\ parent'[s] = "returned" => \A w \in LoopsOf(s) : loop[w] = "ended"
    BY <1>3 DEF TellWorkers, JoinWorkers, ServerTypes
  <2>2. ServerTypes'
    BY <1>1, <2>1 DEF ServerTypes
  <2>3. NotYet' /\ Orphans'
    BY <1>1, <2>1 DEF NotYet, Orphans, ServerTypes
  <2>4. Built'
    BY <1>1, <2>1 DEF Built, Swept
  <2> QED
    BY <2>2, <2>3, <2>4
<1>4. CASE StopCleanup(s)
  <2>1. /\ Cleanup(s) \in told /\ UNCHANGED <<parent, loop>>
        /\ cleanup' = [cleanup EXCEPT ![s] = "ended"]
    BY <1>4 DEF StopCleanup
  <2>2. ServerTypes' /\ NotYet' /\ Orphans'
    BY <1>1, <2>1 DEF ServerTypes, NotYet, Orphans
  <2>3. \A r \in Servers : Swept(r) => Swept(r)'
    BY <1>1, <2>1 DEF Swept, ServerTypes
  <2>4. Built'
    BY <1>1, <2>3 DEF Built
  <2> QED
    BY <2>2, <2>4
<1> QED
  BY <1>2, <1>3, <1>4 DEF ListenerStep

(* A loop that moves has been started and has not ended, so its listener   *)
(* has not returned.                                                       *)
LEMMA LoopSteps ==
  ASSUME AppInv, NEW w \in Loops, Receive(w) \/ Chosen(w) \/ Handled(w) \/ StopLoop(w)
  PROVE  AppInv'
<1> USE ServersAreNumbers, LoopsAreServers, SameServers DEF AppInv
<1>1. /\ UNCHANGED <<conf, app, at, parent, label, cleanup, told>>
      /\ loop[w] \in {"select", "next", "busy"}
      /\ \E l \in {"select", "next", "busy", "ended"} : loop' = [loop EXCEPT ![w] = l]
  BY DEF Receive, Chosen, Handled, StopLoop, LoopStep
<1>2. ServerTypes'
  BY <1>1 DEF ServerTypes
<1>3. \A s \in Servers : w \in LoopsOf(s) => s < at /\ parent[s] # "returned"
  BY <1>1 DEF NotYet, Orphans, ServerTypes
<1>4. \A s \in Servers, v \in Loops : v \in LoopsOf(s) /\ v # w => loop'[v] = loop[v]
  BY <1>1 DEF ServerTypes
<1>5. NotYet'
  BY <1>1, <1>3, <1>4 DEF NotYet, ServerTypes
<1>6. Orphans'
  BY <1>1, <1>3, <1>4 DEF Orphans
<1>7. Built'
  BY <1>1 DEF Built, Swept
<1> QED
  BY <1>2, <1>5, <1>6, <1>7

LEMMA AppInvStep == AppInv /\ [AppNext]_allVars => AppInv'
<1> SUFFICES ASSUME AppInv, [AppNext]_allVars PROVE AppInv'
  OBVIOUS
<1>1. CASE Load \/ BuildBalancer \/ BuildMirror \/ Listen
  BY <1>1, StartSteps
<1>2. CASE StartServices \/ Tell \/ Await \/ Interrupt \/ Fail \/ EndRuntime
  BY <1>2, ServersAlone DEF StartServices, Tell, Await, Interrupt, Fail, EndRuntime, servers
<1>3. CASE Listeners \/ \E w \in Loops : Chosen(w)
  BY <1>3, ListenerSteps, LoopSteps DEF Listeners
<1>4. CASE StatusDrain \/ StatusEnd \/ Ask \/ Answered
  BY <1>4, ServersAlone DEF StatusDrain, StatusEnd, StatusStep, Ask, Answered, servers
<1>5. CASE HealthChecker \/ \E b \in Backends : CheckerStep(Change(b))
  BY <1>5, ServersAlone DEF HealthChecker, CheckerStep, appVars, servers
<1>6. CASE UNCHANGED allVars
  BY <1>6, ServersAlone DEF allVars, appVars, servers
<1> QED
  BY <1>1, <1>2, <1>3, <1>4, <1>5, <1>6 DEF AppNext, App

(* A loop that takes packets has somewhere to send them, counts them under *)
(* its bound address, and its sessions are swept until the program is told *)
(* to stop: for every configuration.                                       *)
THEOREM TrafficFindsServerReady == AppSpec => []ReadyBeforeTraffic
<1>1. AppInv => ReadyBeforeTraffic
  <2> SUFFICES ASSUME AppInv, NEW s \in Servers, TakesPackets(s)
      PROVE /\ conf[s].balancer # None \/ conf[s].targets > 0
            /\ label[s] = "bound"
            /\ conf[s].balancer # None /\ Cleanup(s) \notin told =>
                 cleanup[s] = IF conf[s].balancer.timeout = 1 THEN "panicked" ELSE "on"
    BY DEF ReadyBeforeTraffic
  <2>1. at \in Nat \ {0} /\ s \in Nat \ {0} /\ conf[s] \in ServerConfigs
    BY ServersAreNumbers DEF AppInv, ServerTypes
  <2>2. s < at
    BY <2>1 DEF AppInv, NotYet, TakesPackets
  <2>3. Valid(conf) /\ label[s] = "bound" /\ Swept(s)
    BY <2>1, <2>2 DEF AppInv, Built
  <2>4. conf[s].balancer # None \/ conf[s].targets > 0
    BY <2>3 DEF Valid, Servers
  <2>5. ASSUME conf[s].balancer # None, Cleanup(s) \notin told
        PROVE  cleanup[s] = IF conf[s].balancer.timeout = 1 THEN "panicked" ELSE "on"
    <3>1. conf[s].balancer \in Balancers
      <4>1. conf[s].balancer \in Balancers \cup {None}
        BY <2>1 DEF ServerConfigs
      <4> QED
        BY <4>1, <2>5
    <3>2. conf[s].balancer.timeout \in Nat /\ conf[s].balancer.timeout > 0
      BY <2>3, <2>5, <3>1 DEF Valid, Servers, Balancers
    <3>3. conf[s].balancer.timeout \div 2 = 0 <=> conf[s].balancer.timeout = 1
      BY <3>2
    <3> QED
      BY <2>3, <2>5, <3>3 DEF Swept, FirstTick
  <2> QED
    BY <2>3, <2>4, <2>5
<1> QED
  BY <1>1, InitServers, AppInvStep, PTL DEF AppSpec

(* No task outlives the one that has spawned it and waits for it: neither  *)
(* a health check nor the loop of a worker, however many there are.        *)
THEOREM NoOrphans == AppSpec => []NobodyOrphaned
<1>1. AppInv /\ NothingLeftRunning => NobodyOrphaned
  BY DEF AppInv, Orphans, NobodyOrphaned, TakesPackets
<1> QED
  BY <1>1, InitServers, AppInvStep, RunsTheChecker, ReturnsLast, PTL DEF AppSpec

-----------------------------------------------------------------------------
(* The types of what App::run itself keeps. That at stays within the       *)
(* servers and one more takes Built: a server is being built when at goes  *)
(* on.                                                                     *)
RunTypes ==
  /\ app \in {"load", "build", "mirror", "bind", "serving", "telling", "waiting", "returned"}
  /\ at \in 1..(Len(conf) + 1)
  /\ status \in {"off", "serving", "draining", "ended"}
  /\ up \in BOOLEAN /\ started \in BOOLEAN /\ request \in BOOLEAN
  /\ told \subseteq Recipients

LEMMA ConfIsSequence ==
  ASSUME conf \in Configurations
  PROVE  Len(conf) \in Nat /\ Servers = 1..Len(conf)
  BY ConfigurationsAssumption DEF Servers

LEMMA RunTypesInit == AppInit => RunTypes
<1> SUFFICES ASSUME AppInit PROVE RunTypes
  OBVIOUS
<1>1. /\ app = "load" /\ at = 1 /\ status = "off" /\ told = {}
      /\ up = TRUE /\ started = FALSE /\ request = FALSE
  BY DEF AppInit
<1>2. at \in 1..(Len(conf) + 1)
  BY <1>1, ConfIsSequence DEF AppInit
<1> QED
  BY <1>1, <1>2 DEF RunTypes

LEMMA RunTypesStep == AppInv /\ RunTypes /\ [AppNext]_allVars => RunTypes'
<1> SUFFICES ASSUME AppInv, RunTypes, [AppNext]_allVars PROVE RunTypes'
  OBVIOUS
<1>1. conf \in Configurations /\ Len(conf) \in Nat /\ Servers = 1..Len(conf) /\ at \in Nat
  BY ConfIsSequence DEF AppInv, ServerTypes, RunTypes
<1>2. ASSUME UNCHANGED conf PROVE Recipients' = Recipients /\ Len(conf)' = Len(conf)
  BY <1>2 DEF Recipients, Servers, Listener, Cleanup, StatusServer, Checker
<1>3. CASE \/ Load \/ Interrupt \/ Fail \/ Await \/ EndRuntime
           \/ BuildBalancer \/ BuildMirror
  BY <1>2, <1>3 DEF Load, Interrupt, Fail, Await, EndRuntime, BuildBalancer, BuildMirror,
                    RunTypes, services, servers
<1>4. CASE Listen
  <2>1. at \in Servers /\ at' = at + 1 /\ UNCHANGED <<conf, up, services, told>>
        /\ app' = "build"
    BY <1>4 DEF Listen, AppInv, Built
  <2> QED
    BY <1>1, <1>2, <2>1 DEF RunTypes, services
<1>5. CASE StartServices
  BY <1>2, <1>5 DEF StartServices, RunTypes
<1>6. CASE Tell
  <2>1. /\ \E t \in Recipients \ told : told' = told \cup {t}
        /\ app' \in {"telling", "waiting"} /\ UNCHANGED <<conf, at, up, services>>
    BY <1>6 DEF Tell
  <2> QED
    BY <1>2, <2>1 DEF RunTypes, services
<1>7. CASE Listeners \/ \E w \in Loops : Chosen(w)
  <2>1. UNCHANGED <<conf, app, at, up, services, told>>
    BY <1>7 DEF Listeners, ListenerStep, SpawnWorkers, TellWorkers, JoinWorkers,
                StopCleanup, Receive, Chosen, Handled, StopLoop, LoopStep
  <2> QED
    BY <1>2, <2>1 DEF RunTypes, services
<1>8. CASE StatusDrain \/ StatusEnd \/ Ask \/ Answered
  BY <1>2, <1>8 DEF StatusDrain, StatusEnd, StatusStep, Ask, Answered, RunTypes
<1>9. CASE \/ HealthChecker \/ \E b \in Backends : CheckerStep(Change(b))
           \/ UNCHANGED allVars
  <2>1. UNCHANGED <<conf, app, at, up, started, status, request, told>>
    BY <1>9 DEF HealthChecker, CheckerStep, appVars, allVars
  <2> QED
    BY <1>2, <2>1 DEF RunTypes
<1> QED
  BY <1>3, <1>4, <1>5, <1>6, <1>7, <1>8, <1>9 DEF AppNext, App

(* Every reachable state of the program is well typed: App::run builds no  *)
(* server past the last and tells no task that it has not spawned.         *)
THEOREM ProgramTypes == AppSpec => []AppTypeOK
<1>1. AppInv /\ RunTypes /\ TypeOK => AppTypeOK
  BY DEF AppInv, ServerTypes, RunTypes, AppTypeOK
<1> QED
  BY <1>1, InitServers, AppInvStep, RunTypesInit, RunTypesStep, RunsTheChecker,
     CheckerTypes, PTL DEF AppSpec
=============================================================================
