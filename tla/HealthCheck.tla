---------------------------- MODULE HealthCheck ----------------------------
(***************************************************************************)
(* The health checker, src/server/checker.rs: run() spawns a task          *)
(* run_check() per backend with a healthcheck section, waits for the       *)
(* application's shutdown message, passes it on to every task and waits    *)
(* for them to end. A task waits for its interval or its shutdown channel, *)
(* and when the interval ticks performs one HTTP request with a timeout    *)
(* and publishes the result: the backend's alive flag, which next() reads, *)
(* and the gauge, the counters and was_alive, which is only logged by.     *)
(*                                                                         *)
(* The backend answers with the state it is in at some moment of the       *)
(* request; the result is published later, when the backend may have       *)
(* changed again. Application starts and ends the checker and states the   *)
(* properties that take fairness.                                          *)
(***************************************************************************)
EXTENDS Naturals, FiniteSets

CONSTANTS
  Backends,     \* the backends with a healthcheck section
  Answers,      \* what a request may end with: status classes and errors
  Healthy,      \* the answers perform_check takes for Ok: status 200 to 499
  None

ASSUME AnswersAssumption == Healthy \subseteq Answers /\ None \notin Answers
ASSUME BackendsAssumption == None \notin Backends /\ IsFiniteSet(Backends)

VARIABLES
  state,        \* environment: what backend b answers a request with now
  task,         \* task[b]: "select", "request", "publish", "gauge" or "ended"
  response,     \* response[b]: the result of the request under way, or None
  due,          \* due[b]: the interval of b has ticked and not been waited for
  alive,        \* the flag shared with the balancer
  wasAlive,     \* was_alive
  gauge,        \* BALANCER_BACKEND_ALIVE
  stop,         \* stop[b]: a message is in the task's shutdown channel
  runner,       \* run(): "waiting", "joining" or "returned"
  shutdown      \* the application has sent its shutdown message

vars == <<state, task, response, due, alive, wasAlive, gauge, stop, runner, shutdown>>
environment == <<state, shutdown>>
run == <<stop, runner>>

(* The first tick of a tokio interval is immediate. *)
Init ==
  /\ state \in [Backends -> Answers]
  /\ task = [b \in Backends |-> "select"]
  /\ response = [b \in Backends |-> None]
  /\ due = [b \in Backends |-> TRUE]
  /\ alive = [b \in Backends |-> TRUE]
  /\ wasAlive = [b \in Backends |-> TRUE]
  /\ gauge = [b \in Backends |-> 1]
  /\ stop = [b \in Backends |-> FALSE]
  /\ runner = "waiting"
  /\ shutdown = FALSE

Goto(b, l) == task' = [task EXCEPT ![b] = l]

(* Time passes: the interval ticks. Missed ticks are skipped, so at most   *)
(* one tick waits for the task.                                            *)
IntervalPasses(b) ==
  /\ ~due[b] /\ task[b] # "ended"
  /\ due' = [due EXCEPT ![b] = TRUE]
  /\ UNCHANGED <<environment, run, task, response, alive, wasAlive, gauge>>

(* select! takes the tick; perform_check sends its request. *)
Tick(b) ==
  /\ task[b] = "select" /\ due[b]
  /\ due' = [due EXCEPT ![b] = FALSE]
  /\ Goto(b, "request")
  /\ UNCHANGED <<environment, run, response, alive, wasAlive, gauge>>

(* The request ends, at the latest with its timeout. *)
Respond(b) ==
  /\ task[b] = "request"
  /\ response' = [response EXCEPT ![b] = state[b]]
  /\ Goto(b, "publish")
  /\ UNCHANGED <<environment, run, due, alive, wasAlive, gauge>>

(* Mutant: server errors are taken for a healthy backend. *)
AnyAnswer(b) == response[b] \in Answers

(* result.is_ok() *)
IsOk(b) == response[b] \in Healthy

(* Mutant: the flag is stored only when the result is a new failure. *)
PublishFailures(b) ==
  /\ task[b] = "publish"
  /\ alive' = [alive EXCEPT ![b] = @ /\ IsOk(b)]
  /\ wasAlive' = [wasAlive EXCEPT ![b] = IsOk(b)]
  /\ Goto(b, "gauge")
  /\ UNCHANGED <<environment, run, response, due, gauge>>

(* was_alive, then the flag that next() reads. *)
Publish(b) ==
  /\ task[b] = "publish"
  /\ alive' = [alive EXCEPT ![b] = IsOk(b)]
  /\ wasAlive' = [wasAlive EXCEPT ![b] = IsOk(b)]
  /\ Goto(b, "gauge")
  /\ UNCHANGED <<environment, run, response, due, gauge>>

(* Mutants: the gauge is never set back to 1; it is incremented.           *)
SetGaugeDownOnly(b) ==
  /\ task[b] = "gauge"
  /\ gauge' = [gauge EXCEPT ![b] = IF IsOk(b) THEN @ ELSE 0]
  /\ response' = [response EXCEPT ![b] = None]
  /\ Goto(b, "select")
  /\ UNCHANGED <<environment, run, due, alive, wasAlive>>

SetGaugeCounting(b) ==
  /\ task[b] = "gauge"
  /\ gauge' = [gauge EXCEPT ![b] = IF IsOk(b) THEN @ + 1 ELSE 0]
  /\ response' = [response EXCEPT ![b] = None]
  /\ Goto(b, "select")
  /\ UNCHANGED <<environment, run, due, alive, wasAlive>>

(* The gauge, and the loop begins again. *)
SetGauge(b) ==
  /\ task[b] = "gauge"
  /\ gauge' = [gauge EXCEPT ![b] = IF IsOk(b) THEN 1 ELSE 0]
  /\ response' = [response EXCEPT ![b] = None]
  /\ Goto(b, "select")
  /\ UNCHANGED <<environment, run, due, alive, wasAlive>>

(* Mutant: select! prefers the tick. *)
StopUnlessDue(b) ==
  /\ task[b] = "select" /\ stop[b] /\ ~due[b]
  /\ Goto(b, "ended")
  /\ UNCHANGED <<environment, run, response, due, alive, wasAlive, gauge>>

(* select! takes the shutdown message. It is looked at in select! only:    *)
(* a request under way is waited for.                                      *)
Stop(b) ==
  /\ task[b] = "select" /\ stop[b]
  /\ Goto(b, "ended")
  /\ UNCHANGED <<environment, run, response, due, alive, wasAlive, gauge>>

(* run() passes the message on; each channel has room for it. *)
PassOn ==
  /\ runner = "waiting" /\ shutdown
  /\ stop' = [b \in Backends |-> TRUE]
  /\ runner' = "joining"
  /\ UNCHANGED <<environment, task, response, due, alive, wasAlive, gauge>>

(* Mutant: run() returns without waiting for its tasks. *)
ReturnAtOnce ==
  /\ runner = "joining"
  /\ runner' = "returned"
  /\ UNCHANGED <<environment, task, response, due, alive, wasAlive, gauge, stop>>

(* run() has awaited every handle. *)
Join ==
  /\ runner = "joining" /\ \A b \in Backends : task[b] = "ended"
  /\ runner' = "returned"
  /\ UNCHANGED <<environment, task, response, due, alive, wasAlive, gauge, stop>>

(* The environment: a backend's state changes, the application shuts down. *)
Change(b) ==
  /\ \E s \in Answers \ {state[b]} : state' = [state EXCEPT ![b] = s]
  /\ UNCHANGED <<task, response, due, alive, wasAlive, gauge, run, shutdown>>

Shutdown ==
  /\ ~shutdown
  /\ shutdown' = TRUE
  /\ UNCHANGED <<task, response, due, alive, wasAlive, gauge, run, state>>

Task(b) == Tick(b) \/ Respond(b) \/ Publish(b) \/ SetGauge(b)

Next ==
  \/ \E b \in Backends :
       IntervalPasses(b) \/ Task(b) \/ Stop(b) \/ Change(b)
  \/ PassOn
  \/ Join
  \/ Shutdown

Spec == Init /\ [][Next]_vars

-----------------------------------------------------------------------------
(* Types of the variables. *)
TypeOK ==
  /\ state \in [Backends -> Answers]
  /\ task \in [Backends -> {"select", "request", "publish", "gauge", "ended"}]
  /\ response \in [Backends -> Answers \cup {None}]
  /\ \A f \in {due, alive, wasAlive, stop} : f \in [Backends -> BOOLEAN]
  /\ gauge \in [Backends -> {0, 1}]
  /\ runner \in {"waiting", "joining", "returned"}
  /\ shutdown \in BOOLEAN

(* Between two checks the operator's gauge, the flag the balancer uses and *)
(* was_alive agree, also after a check whose result changed meanwhile.     *)
GaugeAgrees ==
  \A b \in Backends : task[b] \in {"select", "request", "ended"} =>
    /\ gauge[b] = 1 <=> alive[b]
    /\ wasAlive[b] <=> alive[b]

(* When run() has returned nobody is left who could store a flag. *)
NothingLeftRunning ==
  runner = "returned" => \A b \in Backends : task[b] = "ended"
=============================================================================
