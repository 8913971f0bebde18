---------------------------- MODULE Application ----------------------------
(***************************************************************************)
(* The life of the process, src/main.rs and src/app.rs: the configuration  *)
(* is read and validated, App::run builds the servers one by one and       *)
(* spawns their tasks (session cleanup, listener with its workers), then   *)
(* the health checker and the status server, waits for ctrl-c, tells every *)
(* task to stop and waits for the status server only; main returns and the *)
(* runtime cuts off what still runs, as soon as no thread of it is in the  *)
(* middle of a poll. Any step of the start may fail, which ends the        *)
(* program early with the servers that already run.                        *)
(*                                                                         *)
(* The checker is the one of HealthCheck, which has the same variables     *)
(* here; its application is this module. The forwarding that a busy worker *)
(* does is Forwarding.                                                     *)
(***************************************************************************)
EXTENDS HealthCheck, Sequences

CONSTANTS
  Configurations,   \* the configuration files: sequences of ServerConfigs,
                    \* with the numbers of fields, backends and targets
  Cpus              \* available_parallelism()

(* A proxy_timeout is a number of nanoseconds. *)
Balancers == [algorithm : {"wrr", "rh", "maglev"}, hashKey : Nat,
              backends : Nat, timeout : Nat]
ServerConfigs == [mode : {"standard", "batch"}, workers : Nat,
                  balancer : Balancers \cup {None}, targets : Nat]

ASSUME CpusAssumption == Cpus \in Nat \ {0}
ASSUME ConfigurationsAssumption ==
  Configurations \subseteq Seq(ServerConfigs) /\ None \notin Balancers

VARIABLES
  conf,       \* the configuration file
  app,        \* where main and App::run are
  at,         \* the server that App::run is building
  up,         \* the process with its runtime lives
  started,    \* the health checker has been spawned
  parent,     \* parent[s]: BatchListener::run of server s
  loop,       \* loop[w]: the receive loop of worker w = <<server, number>>
  label,      \* label[s]: listener_addr of the balancer and mirror of s
  cleanup,    \* cleanup[s]: the session cleanup task of s
  status,     \* the status server
  request,    \* a request to the status server is under way
  told        \* the tasks that have been sent their message

appVars == <<conf, app, at, up, started, parent, loop, label, cleanup,
             status, request, told>>
allVars == <<vars, appVars>>
servers == <<parent, loop, label, cleanup>>
services == <<started, status, request>>
idle == <<task, response, due, alive, wasAlive, gauge, run>>

Servers == DOMAIN conf

(* num_workers, as many as processors for 0; a standard listener has the   *)
(* one loop.                                                               *)
WorkersOf(server) ==
  IF server.mode = "standard" THEN 1
  ELSE IF server.workers = 0 THEN Cpus ELSE server.workers

LoopsIn(c) == UNION {{s} \X (1..WorkersOf(c[s])) : s \in DOMAIN c}
Loops == LoopsIn(conf)
LoopsOf(s) == {w \in Loops : w[1] = s}

Listener(s) == <<"listener", s>>
Cleanup(s) == <<"cleanup", s>>
StatusServer == <<"status", 0>>
Checker == <<"checker", 0>>

(* Config::validate; the rules about addresses are SourceAddress's.        *)
Valid(c) ==
  \A s \in DOMAIN c :
    /\ c[s].workers <= 1024
    /\ c[s].balancer # None \/ c[s].targets > 0
    /\ c[s].balancer # None =>
         /\ c[s].balancer.backends > 0
         /\ c[s].balancer.algorithm \in {"rh", "maglev"} => c[s].balancer.hashKey > 0
         /\ c[s].balancer.timeout > 0

AppInit ==
  /\ Init
  /\ conf \in Configurations
  /\ app = "load" /\ at = 1 /\ up = TRUE /\ started = FALSE
  /\ parent = [s \in Servers |-> "off"]
  /\ loop = [w \in Loops |-> "off"]
  /\ label = [s \in Servers |-> "none"]
  /\ cleanup = [s \in Servers |-> "off"]
  /\ status = "off" /\ request = FALSE
  /\ told = {}

-----------------------------------------------------------------------------
(* main and App::run.                                                      *)

(* Config::from_file and the exit of main when it fails. *)
Load ==
  /\ app = "load"
  /\ app' = IF Valid(conf) THEN "build" ELSE "returned"
  /\ UNCHANGED <<vars, conf, at, up, services, servers, told>>

(* A duration is a number of nanoseconds and halved as such: the interval  *)
(* of a timeout of 1 is zero, which tokio's interval refuses by a panic of *)
(* the task.                                                               *)
FirstTick(s) == IF conf[s].balancer.timeout \div 2 = 0 THEN "panicked" ELSE "on"

(* The backends, the balancer and the task that cleans up its sessions. *)
BuildBalancer ==
  /\ app = "build" /\ at \in Servers
  /\ app' = "mirror"
  /\ IF conf[at].balancer = None THEN UNCHANGED <<label, cleanup>>
     ELSE /\ cleanup' = [cleanup EXCEPT ![at] = FirstTick(at)]
          /\ label' = [label EXCEPT ![at] = "configured"]
  /\ UNCHANGED <<vars, conf, at, up, services, parent, loop, told>>

BuildMirror ==
  /\ app = "mirror"
  /\ app' = "bind"
  /\ label' = [label EXCEPT ![at] = IF conf[at].targets > 0 THEN "configured" ELSE @]
  /\ UNCHANGED <<vars, conf, at, up, services, parent, loop, cleanup, told>>

(* Mutant: the listener is spawned with the configured address. *)
ListenUnlabelled ==
  /\ app = "bind"
  /\ app' = "build" /\ at' = at + 1
  /\ IF conf[at].mode = "standard"
     THEN loop' = [loop EXCEPT ![<<at, 1>>] = "select"] /\ UNCHANGED parent
     ELSE parent' = [parent EXCEPT ![at] = "spawned"] /\ UNCHANGED loop
  /\ UNCHANGED <<vars, conf, up, services, label, cleanup, told>>

(* The sockets are bound, the counters get the address they are bound to,  *)
(* and the listener is spawned.                                            *)
Listen ==
  /\ app = "bind"
  /\ app' = "build" /\ at' = at + 1
  /\ label' = [label EXCEPT ![at] = "bound"]
  /\ IF conf[at].mode = "standard"
     THEN loop' = [loop EXCEPT ![<<at, 1>>] = "select"] /\ UNCHANGED parent
     ELSE parent' = [parent EXCEPT ![at] = "spawned"] /\ UNCHANGED loop
  /\ UNCHANGED <<vars, conf, up, services, cleanup, told>>

(* A status server whose address is taken logs it and ends. *)
StartServices ==
  /\ app = "build" /\ at \notin Servers
  /\ app' = "serving" /\ started' = TRUE /\ status' \in {"serving", "ended"}
  /\ UNCHANGED <<vars, conf, at, up, request, servers, told>>

(* Mutant: nobody tells the status server. *)
RecipientsButStatus ==
  {Checker} \cup {Listener(s) : s \in Servers}
    \cup {Cleanup(s) : s \in {x \in Servers : conf[x].balancer # None}}

(* The tasks that App::run tells to stop. *)
Recipients ==
  {StatusServer, Checker} \cup {Listener(s) : s \in Servers}
    \cup {Cleanup(s) : s \in {x \in Servers : conf[x].balancer # None}}

(* It tells the status server and the checker first, then all listeners,   *)
(* then all cleanup tasks.                                                 *)
Rank(t) ==
  CASE t[1] = "status" -> 0
    [] t[1] = "checker" -> 1
    [] t[1] = "listener" -> 1 + t[2]
    [] t[1] = "cleanup" -> 1 + Len(conf) + t[2]

Interrupt ==
  /\ app = "serving"
  /\ app' = "telling"
  /\ UNCHANGED <<vars, conf, at, up, services, servers, told>>

(* A channel has room for the message. *)
Tell ==
  /\ app = "telling"
  /\ \E t \in Recipients \ told :
       /\ \A u \in Recipients \ told : Rank(t) <= Rank(u)
       /\ told' = told \cup {t}
  /\ app' = IF told' = Recipients THEN "waiting" ELSE "telling"
  /\ shutdown' = (Checker \in told')
  /\ UNCHANGED <<state, idle, conf, at, up, services, servers>>

(* status_handle.await; App::run returns and main with it. From here on    *)
(* the runtime polls no task any more.                                     *)
Await ==
  /\ app = "waiting" /\ status = "ended"
  /\ app' = "returned"
  /\ UNCHANGED <<vars, conf, at, up, services, servers, told>>

(* The socket of a backend, a mirror or a listener fails, or the signal    *)
(* handler: App::run returns through the question mark, and main with it.  *)
(* Whether a task still sees its channel closed makes no difference.       *)
Fail ==
  /\ \/ app = "build" /\ at \in Servers /\ conf[at].balancer # None
     \/ app = "mirror" /\ conf[at].targets > 0
     \/ app \in {"bind", "serving"}
  /\ app' = "returned"
  /\ UNCHANGED <<vars, conf, at, up, services, servers, told>>

(* The runtime that #[tokio::main] drops waits for its threads, and each   *)
(* finishes the poll it is in: a worker in the middle of next() first      *)
(* comes back from it. Then the tasks are dropped and the process ends.    *)
EndRuntime ==
  /\ app = "returned" /\ up /\ \A w \in Loops : loop[w] # "next"
  /\ up' = FALSE
  /\ UNCHANGED <<vars, conf, app, at, services, servers, told>>

App == Load \/ BuildBalancer \/ BuildMirror \/ Listen \/ StartServices \/ Tell \/ Await

-----------------------------------------------------------------------------
(* The tasks.                                                              *)

SpawnWorkers(s) ==
  /\ parent[s] = "spawned"
  /\ parent' = [parent EXCEPT ![s] = "waiting"]
  /\ loop' = [w \in Loops |-> IF w[1] = s THEN "select" ELSE loop[w]]
  /\ UNCHANGED <<vars, conf, app, at, up, services, label, cleanup, told>>

(* BatchListener::run passes the message on to its workers. *)
TellWorkers(s) ==
  /\ parent[s] = "waiting" /\ Listener(s) \in told
  /\ parent' = [parent EXCEPT ![s] = "joining"]
  /\ UNCHANGED <<vars, conf, app, at, up, services, loop, label, cleanup, told>>

(* Mutant: run() returns without its workers. *)
LeaveWorkers(s) ==
  /\ parent[s] = "joining"
  /\ parent' = [parent EXCEPT ![s] = "returned"]
  /\ UNCHANGED <<vars, conf, app, at, up, services, loop, label, cleanup, told>>

JoinWorkers(s) ==
  /\ parent[s] = "joining" /\ \A w \in LoopsOf(s) : loop[w] = "ended"
  /\ parent' = [parent EXCEPT ![s] = "returned"]
  /\ UNCHANGED <<vars, conf, app, at, up, services, loop, label, cleanup, told>>

LoopStep(w, from, to) ==
  /\ loop[w] = from
  /\ loop' = [loop EXCEPT ![w] = to]
  /\ UNCHANGED <<vars, conf, app, at, up, services, parent, label, cleanup, told>>

(* A packet arrives while the loop is in select!; forward begins with the  *)
(* call of next(), which does not yield the thread.                        *)
Receive(w) ==
  LoopStep(w, "select", IF conf[w[1]].balancer = None THEN "busy" ELSE "next")

(* next() has answered; what follows ends by itself, with awaits that have *)
(* a timeout or wait for the local system.                                 *)
Chosen(w) == LoopStep(w, "next", "busy")

(* handle_packet returns. *)
Handled(w) == LoopStep(w, "busy", "select")

ToldToStop(w) ==
  IF conf[w[1]].mode = "standard" THEN Listener(w[1]) \in told
                                  ELSE parent[w[1]] = "joining"

(* The loop looks at its shutdown channel in select! only. *)
StopLoop(w) == ToldToStop(w) /\ LoopStep(w, "select", "ended")

StopCleanup(s) ==
  /\ cleanup[s] = "on" /\ Cleanup(s) \in told
  /\ cleanup' = [cleanup EXCEPT ![s] = "ended"]
  /\ UNCHANGED <<vars, conf, app, at, up, services, parent, loop, label, told>>

StatusStep(from, to) ==
  /\ status = from
  /\ status' = to
  /\ UNCHANGED <<vars, conf, app, at, up, started, request, servers, told>>

(* with_graceful_shutdown: requests under way are waited for, without end. *)
StatusDrain == StatusServer \in told /\ StatusStep("serving", "draining")
StatusEnd == ~request /\ StatusStep("draining", "ended")

Ask ==
  /\ status = "serving" /\ ~request
  /\ request' = TRUE
  /\ UNCHANGED <<vars, conf, app, at, up, started, status, servers, told>>

(* The client has read its answer. *)
Answered ==
  /\ request
  /\ request' = FALSE
  /\ UNCHANGED <<vars, conf, app, at, up, started, status, servers, told>>

CheckerStep(A) == started /\ A /\ UNCHANGED appVars

ListenerStep(s) == SpawnWorkers(s) \/ TellWorkers(s) \/ JoinWorkers(s)

Listeners ==
  \/ \E s \in Servers : ListenerStep(s) \/ StopCleanup(s)
  \/ \E w \in Loops : Receive(w) \/ Handled(w) \/ StopLoop(w)

HealthChecker ==
  \/ \E b \in Backends : CheckerStep(IntervalPasses(b) \/ Task(b) \/ Stop(b))
  \/ CheckerStep(PassOn \/ Join)

(* main has not returned: tasks are polled. *)
Running == app # "returned"

(* Changes of a backend before the checker starts are left out: nobody     *)
(* looks, and Init lets the backend be in any state.                       *)
AppNext ==
  \/ Running /\ (App \/ Interrupt \/ Fail)
  \/ Running /\ Listeners
  \/ Running /\ (StatusDrain \/ StatusEnd \/ Ask \/ Answered)
  \/ Running /\ HealthChecker
  \/ Running /\ \E b \in Backends : CheckerStep(Change(b))
  \/ \E w \in Loops : Chosen(w)
  \/ EndRuntime

AppSpec == AppInit /\ [][AppNext]_allVars

ValidOnes == {c \in Configurations : Valid(c)}
AllLoops == UNION {LoopsIn(c) : c \in ValidOnes}

(* The loops whose packets go through an algorithm of the given ones.      *)
Calling(algorithms, c) ==
  {w \in LoopsIn(c) : /\ c[w[1]].balancer # None
                      /\ c[w[1]].balancer.algorithm \in algorithms}
AllCalling(algorithms) == UNION {Calling(algorithms, c) : c \in ValidOnes}

(* What happens once at most for each task: one fairness condition serves  *)
(* them all.                                                               *)
Once ==
  \/ App
  \/ \E s \in Servers : ListenerStep(s) \/ StopCleanup(s)
  \/ StatusDrain \/ StatusEnd
  \/ CheckerStep(PassOn \/ Join)

(* Tasks are polled, time passes, a health check ends by its timeout and   *)
(* handle_packet by proxy_timeout once it has a backend. select! picks at  *)
(* random among the branches that are ready, so a message that is ready    *)
(* again and again is taken: SF for the ends of the loops. Nothing makes a *)
(* client of the status server read its answer, and nothing next() of wrr  *)
(* return (wrr.rs:65); those of rh and maglev scan a table and end.        *)
Fairness ==
  /\ WF_allVars((Running /\ Once) \/ EndRuntime)
  /\ \A w \in AllCalling({"rh", "maglev"}) :
       WF_allVars(w \in Calling({"rh", "maglev"}, conf) /\ Chosen(w))
  /\ \A w \in AllLoops :
       /\ WF_allVars(Running /\ w \in Loops /\ Handled(w))
       /\ SF_allVars(Running /\ w \in Loops /\ StopLoop(w))
  /\ \A b \in Backends :
       /\ WF_allVars(Running /\ CheckerStep(IntervalPasses(b)))
       /\ WF_allVars(Running /\ CheckerStep(Task(b)))
       /\ SF_allVars(Running /\ CheckerStep(Stop(b)))

AppFairSpec == AppSpec /\ Fairness

-----------------------------------------------------------------------------
(* Types of the variables. *)
AppTypeOK ==
  /\ TypeOK
  /\ app \in {"load", "build", "mirror", "bind", "serving", "telling", "waiting", "returned"}
  /\ at \in 1..(Len(conf) + 1)
  /\ parent \in [Servers -> {"off", "spawned", "waiting", "joining", "returned"}]
  /\ loop \in [Loops -> {"off", "select", "next", "busy", "ended"}]
  /\ label \in [Servers -> {"none", "configured", "bound"}]
  /\ cleanup \in [Servers -> {"off", "on", "panicked", "ended"}]
  /\ status \in {"off", "serving", "draining", "ended"}
  /\ \A x \in {up, started, request} : x \in BOOLEAN
  /\ told \subseteq Recipients

(* A loop of server s is running. *)
TakesPackets(s) == \E w \in LoopsOf(s) : loop[w] \in {"select", "next", "busy"}

(* app.rs:82-130: a loop that takes packets has somewhere to send them,    *)
(* counts them under the address it is bound to, and its sessions, which   *)
(* are file descriptors, are swept until the program is told to stop; the  *)
(* sweep of a timeout of one nanosecond is the exception.                  *)
ReadyBeforeTraffic ==
  \A s \in Servers : TakesPackets(s) =>
    /\ conf[s].balancer # None \/ conf[s].targets > 0
    /\ label[s] = "bound"
    /\ conf[s].balancer # None /\ Cleanup(s) \notin told =>
         cleanup[s] = IF conf[s].balancer.timeout = 1 THEN "panicked" ELSE "on"

(* When a task has returned, the tasks it has spawned have: nobody is left *)
(* who could store a flag or take a packet.                                *)
NobodyOrphaned ==
  /\ NothingLeftRunning
  /\ \A s \in Servers : parent[s] = "returned" => ~TakesPackets(s)

(* No worker stays in next(), which is busy waiting and keeps a thread of  *)
(* the runtime. WeightedRoundRobin refutes it for wrr, when every backend  *)
(* is found dead at the wrong moment (wrr.rs:65); what follows is promised *)
(* as long as it does not happen.                                          *)
NextReturns ==
  \A w \in AllCalling({"wrr"}) : []<>~(w \in Loops /\ loop[w] = "next")

(* README "When a backend becomes unhealthy": while the checker runs, the  *)
(* flag of a backend that stays as it is comes to say what it is, and      *)
(* stays so.                                                               *)
FlagFollows ==
  NextReturns => \A b \in Backends :
    <>[](Running /\ started /\ ~shutdown) /\ <>[][FALSE]_(state[b])
      => <>[](alive[b] <=> state[b] \in Healthy)

Stopped ==
  /\ \A s \in Servers : ~TakesPackets(s) /\ parent[s] \in {"off", "returned"}
  /\ \A s \in Servers : cleanup[s] # "on"
  /\ started => runner = "returned"

(* app.rs:174-185: every task ends by itself when it is told to, whatever  *)
(* it is doing, unless the program ends before.                            *)
TasksStop == NextReturns => (app = "waiting" ~> Stopped \/ ~up)

(* The process comes to its end after ctrl-c, as long as no client of the  *)
(* status server leaves its answer unread.                                 *)
ExitCompletes == NextReturns /\ []<>~request => (app = "telling" ~> ~up)
=============================================================================
