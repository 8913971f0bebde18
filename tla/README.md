# udp-balancer in TLA+

This directory is the verification project of udp-balancer: TLA+ modules that
model its load-balancing algorithms, its forwarding path with the session table
and the hash key, its raw packets, its health checker, and the life of the whole
process; TLC configurations that check them on small instances; and TLAPS proofs
about the algorithms, forwarding, sessions, hash keys, source addresses, raw packets,
the health checker and the process, for every value of their constants. Paths below are relative to the
repository; `rh.rs` and the like live under `src/src/`. `PROJECT.json` lists the
runs, the mutant of every property, the source lines of every definition, the
hazards and the findings.

## 1. Inventory

| Component | Source | State | Operations |
|---|---|---|---|
| Listeners | `listener/batch.rs`, `standard.rs` | one reuseport socket per worker | receive, forward, reply, mirror; shutdown |
| Balancer | `balancer/core.rs` | algorithm, sessions, hash key fields | `forward`, `build_hash_key` |
| Weighted round robin | `balancer/wrr.rs` | `current` (atomic), `current_weight` (mutex) | `next` |
| Rendezvous hashing | `balancer/rh.rs` | none | `next` |
| Maglev | `balancer/maglev.rs` | `lookup_table` (rwlock) | `next`, `rebuild_table` |
| Sessions | `balancer/session.rs` | concurrent map flow -> socket, last activity | `get_or_create_session`, `cleanup_expired` |
| Mirror | `balancer/mirror.rs` | none | `mirror` |
| Backend | `balancer/backend.rs` | `alive` (atomic), socket, send mode | `is_alive`, `send` |
| Raw sockets | `raw_socket.rs` | none | building and sending packets |
| Health checker | `server/checker.rs` | a task per backend, `was_alive`, gauge | check, publish, shutdown |
| Application | `app.rs`, `main.rs` | tasks and their shutdown channels | load, build and start the servers, ctrl-c, tell, wait |
| Configuration | `config.rs` | none | parse, validate |
| Status server | `server/status.rs` | open connections | render, graceful shutdown |
| Metrics | `metrics.rs` | counters, gauge | count, read |

How they interact. A listener worker calls `Balancer::forward` for each packet;
forward calls `next(key)` of the algorithm, takes a session socket, sends, and
waits for one answer for at most `proxy_timeout`; the worker passes the answer to
the client and calls the mirror. The workers share the algorithm object and the
session table. The health checker writes the `alive` flags that `next` reads,
one relaxed atomic at a time and with no other coordination. The cleanup task
removes sessions while workers hold their sockets. Shutdown is a message to each
task: App::run sends one to every cleanup task, listener, the health checker and
the status server, waits for the last of these only, and returns; the runtime then
cuts off what still runs. A listener and the health checker pass the message on to
the tasks they have spawned and wait for those.

What is hard. The flags change between any two reads of `next`, so every
algorithm works on a view that may never have been true; the wheel of WRR and
the table of Maglev are shared by workers with different views; get-or-create of
a session awaits between lookup and insertion; answers arrive late, in another
order or never; a check's result is published after the backend may have changed;
weights are floats; counters wrap; checksums are computed by hand; the start may
fail at any server while earlier ones already forward; a task may be told to stop
at any point of its loop; clients of the status server may hold up the end, and so
may a thread that does not come back from `next`.

What makes each component correct.
- Algorithms: an answer was up at some moment of the call; None is answered only
  if no eligible backend stayed up; a call returns; flows keep their backend (RH,
  Maglev); shares follow weights.
- Forwarding and sessions: one socket per flow, none shared; a client gets
  answers to its own packets, once; every packet received is mirrored; sessions
  live for a timeout after their last packet and not much longer.
- Hash key: packets have one key exactly if they agree in the selected fields.
- Raw packets: an IPv4 target sees the source that is documented; header and
  checksums are right for a receiver that sees the source chosen.
- Health checker: the flag comes to say what the backend is; gauge and flag
  agree.
- Application: a listener takes packets only when its balancer and mirror are
  complete; every task ends when told to, after those it has spawned; the process
  ends after ctrl-c.

## 2. Modules

| Module | Models |
|---|---|
| `Algorithm` | the interface of `next`: calls, answers, flags, and for each call the backends that were up at some moment (`seen`) and all the time (`kept`) |
| `BackendChoice` | the abstract promise of `next`, which the three algorithms implement |
| `RendezvousHashing` | `rh.rs`, flag by flag; scores are ranks |
| `WeightedScore` | the score of `rh.rs` computed from hash and weight |
| `WheelStep` | the step of the wheel of `wrr.rs`: `gcd_f64` and its fold over the weights |
| `WeightedRoundRobin` | `wrr.rs`: construction (with `WheelStep`), filter, shortcut, mutex, wheel |
| `Maglev` | `maglev.rs`: lookup, rebuild and second lookup of workers that share the table |
| `MaglevTable` | `populate_table` and the weighted entries, for every choice of permutations |
| `Forwarding` | a packet from the listener to the mirror, with sessions, sockets and network |
| `SessionTable` | the same session table with time: stamps, timeouts, cleanup |
| `HealthCheck` | `checker.rs`: tasks, requests, flags, gauge, shutdown |
| `Application` | `main.rs`, `app.rs`, the loops of `batch.rs` and `standard.rs`, the cleanup task, the end of the status server; composed with `HealthCheck` |
| `HashKey` | `build_hash_key` and the IPFIX fields of `core.rs`, on octets |
| `FlowKeys` | rendezvous hashing called with the keys of `HashKey` |
| `SourceAddress` | the source address of a packet, from `config.rs` and `app.rs` to `backend.rs` and `raw_socket.rs` |
| `RawPacket` | headers and checksums of `raw_socket.rs`, on octets; used by `SourceAddress` |
| `..._proofs` | theorems and proofs about the module of that name; `RendezvousHashing_proofs` about `HashKey` and `FlowKeys` too, `WeightedRoundRobin_proofs` about `WheelStep`, `Application_proofs` about `HealthCheck` |
| `MC...` | constants for TLC |

Correspondence, in short (PROJECT.json `map` gives lines).
- An action is what runs between two points where another task may step in: a
  read of a flag, taking or dropping a lock, an `.await`. `Examine`, `Filter`,
  `Scan` read one flag each. A turn of the wheel is one action because it is
  under the mutex and reads one flag.
- `HealthFlip` is the store of a flag by the health checker, at any time and for
  any backend of `Checked`, those with a healthcheck section; the other flags
  never change.
- In `Maglev` the table is abstracted to the set of backends it was built for and
  `Owner[S][k]`, the owner of a key in the table of a set. `MaglevTable` shows
  that such a table is complete and owned by members of the set (`TypeOK`), which
  is what `Maglev` assumes of `Owner`; the proofs show it for every prime size,
  the 65537 of the code among them.
- `Forwarding` names a socket by its local port. A socket is closed when the last
  reference to it, of the table or of a worker, goes, so each step that drops one
  also closes (`CloseUnreferenced`), and the system may give the port out again.
  Backend and network are `flight` and `Arrive`: an answer may be late, overtake
  others, or never arrive. An answer under way to a port that is given out again is
  noted in `overtaken`. Binding, connecting and sending may each fail; a datagram
  without payload is received and dropped (`Ignore`, batch.rs:149).
- `SessionTable` keeps apart what `Forwarding` shows without time: a forward stamps
  the session it finds (`Take`), or connects a socket, stamps a new session outside
  the table (`Stamp`) and gives it to the entry API (`Insert`). The send
  (core.rs:139) and the wait that starts after it (core.rs:149) last from there to
  `Leave`, which may come at any time, as a send may take long and a timer fires no
  earlier than its deadline.
- `Application` extends `HealthCheck`: a step of the checker is a step of
  `HealthCheck` while the runtime lives, and `Tell` is its `Shutdown`. `told` is
  the set of tasks whose message has been sent, in the order of `Rank`; the channels have room for it, so
  sending does not wait. A worker inside `handle_packet`, which is `Forwarding`, is
  in "next", the call of the algorithm that does not yield its thread, until
  `Chosen`, and "busy" afterwards. When main has returned the runtime polls no task
  any more, but waits for the polls under way (`EndRuntime`, main.rs:26): the process
  is alive until no worker is in "next". `Fail` is any error of the start that `?` passes to `main`;
  a rejected configuration is one of them, decided by `Valid`.
- A `SendRaw` of `SourceAddress` builds the packet (`PacketFor`) that `packet`
  holds. `BuiltSource` is the source it is built with, `SentSource` the one it leaves
  with: the same behind the IPv4 header that the code writes, and the host's own
  address for an IPv6 target, whose header the kernel writes.
- `HashKey` and `RawPacket` are operators on sequences of octets, with what a reader
  of the documentation or a receiver makes of them defined apart (`Selected`;
  `AllOnes`, which adds modulo 65535 instead of folding). What a client sends has a
  destination (`Sent`); the `Packet` that the listener makes of it has only the
  address the listener is bound to (batch.rs:163). `Unseen` names the one field that
  is lost by it, the destination address at a wildcard.
- `Mutant` definitions are bugs the code does not have. No specification uses
  them; each exists to show that a property can fail.

The algorithm modules share two lines of argument. `seen` and `kept` are history
variables kept by `Begin`, `StoreAlive` and `Return`, and `BackendChoice` is
stated over the same interface, so `KeepsPromise` is plain step simulation.
`Eligible` of `BackendChoice` says which backends an algorithm owes: all of them
for WRR, those with a score for RH, and none for Maglev, whose calls may answer
None while backends are up (finding 3, and the race of two rebuilds below).

## 3. Runs

Passing runs. Each property has a mutant that it catches.

| Run | Shows | Bounds |
|---|---|---|
| `rh_choice` | `OwnerWhenSteady`, `FlowAffinity`, `KeyIdentifiesFlow`, `KeepsPromise` | 2 workers, 3 backends, 2 keys built from the addresses of 2 clients: one with a tie, one with a backend that has no score. Flags flip without limit. Hash keys: every list of one or two fields, the default and one of three; 2 client addresses, 3 client ports on both sides of an octet; a listener bound to one address and one bound to the wildcard of a host with 2 addresses; messages of 15 to 19 octets (every border of an IPFIX field), of IPFIX and of another version, that differ in what is read and in what is not |
| `wrr_share` | `WeightedShare`, `NeverOverserved`, `StepReachesAll`, `KeepsPromise`, `EventualReturn` | 2 workers, 2 backends of weights 4 and 2 (gcd 2), counter wraps at 8: two rounds of the wheel. Construction: every vector of 1 to 3 weights from 1 to 9, epsilon 1 to 4 |
| `maglev_pair` | `KeepsPromise`, `EmptiedOnlyByOutage`, `OwnRebuildAnswers`, `Settles` | 2 workers, 2 backends, 2 keys with opposite owners |
| `maglev_fill` | `TypeOK` (completeness), `Balanced` | every offset and skip of 3 backends over 5 slots, weights 3, 2, 2 (rounded to 2, 1, 1), any order of failures |
| `forward_sockets` | `OneSocketPerFlow`, `SocketsNotShared`, `NoCrossClient`, `PassedOnce`, `EveryPacketMirrored` | 2 workers, 4 packets of 2 clients, one of them empty, 1 standard and 1 raw backend, 2 ports that are given out again; bind, connect and send may fail |
| `application` | `NobodyOrphaned`, `ReadyBeforeTraffic`, `GaugeAgrees`, `FlagFollows`, `TasksStop`, `ExitCompletes` | 7 configuration files: two standard servers, one with a balancer and one with a mirror; a batch server with both, two workers and the shortest timeout; one for each rule of validation that is broken; `wrr` and `rh`. 1 checked backend, 2 kinds of answers |
| `session_table` | `KeptWhileAwaited`, `ReclaimedInTime` | 2 workers, 2 flows, timeout of 4 units, task and entry API at most 2 units late, sends and waits of any length, 13 units of time |
| `source_address` | `NeverMismatched`, `AsDocumented`, `ChecksumsVerify` | every setting of a target with one configured address of each family; 2 hosts, each as IPv4, mapped and IPv6 client; 5 payloads: none, an odd length, carries, and two whose UDP checksum comes out as 0 |

Why the bounds are enough. Two workers give every kind of interference in these
modules, since workers are alike and meet only in one shared object (mutex and
counter, table, session of one flow). Three backends let a scan keep, replace
and skip; with two, WRR has the shortcut, the wheel and a backend to skip.
Three packets with a payload let one client have two packets in flight while another
client has one, and the third session bind a port that the cleanup has closed with an
answer under way. 13 units are more than three timeouts: a session is made, kept alive,
expires under a wait that goes on and is made again by the other worker; a lag of
half a timeout is as long as the interval, so ticks are missed. The bound of `Forwarding` (each packet is sent once)
is the only one that stops the system; its runs, `maglev_fill`
(backends fail, none comes back), `source_address` and `application` (a rejected
configuration or ctrl-c ends the program) do not check deadlock. In `application`
the checks of different backends share no state but the message to stop, so one
stands for all; two servers let the start fail after one has begun to forward.

`StepReachesAll` and `KeyIdentifiesFlow` are about functions: TLC evaluates them over
the inputs that the cfg names, and the states only say when the function is used. The
theorems have them for all inputs.

Violation runs, each a finding of PROJECT.json:

1. `wrr_all_down`. If every backend goes down after the filter has seen two up,
   `next` loops for ever holding the mutex. Until a flag comes up again all
   workers that see two backends block.
2. `rh_weights`. The score `(-ln u)^(1/weight)` with the highest winning does not
   give shares proportional to weights. With weight 2 against three backends of
   weight 1 the heavy one owns *fewer* keys than each light one. The shape does
   not depend on the eight hash values of the run: for real-valued hashes the
   shares are near 0.22 and 0.26, and 0.55 to 0.45 for weights 2 and 1.
3. `maglev_outage`. A scan that saw every backend down installs the empty table,
   and a lookup in the empty table returns before the rebuild: Maglev never
   recovers. `EmptiedOnlyByOutage` shows that nothing else empties it.
4. `forward_skew`. An answer that is later than `proxy_timeout` waits in the
   session socket and is passed as the answer to the client's next packet, whose
   own answer then waits for the one after.

Seen while modelling, with no run of their own:
- Two rebuilds of Maglev are not serialised: one that read the flags earlier may
  overwrite a newer table between another call's rebuild and its second lookup;
  that call answers None though a backend was up throughout. `OwnRebuildAnswers`
  has this case as its only exception; `Settles` says that it ends.
- When the system gives the port of a cleaned-up session out again while an answer to
  it is under way, another client gets that answer. `NoCrossClient` has this as its
  only exception (`overtaken`) and fails without it.
- A wait starts after the send (core.rs:139, 149) and its timer may be late, so it can
  outlive the `proxy_timeout` that the session has from its stamp; the cleanup then
  takes the session while it is awaited. The wait keeps its socket, the client's next
  packet gets another. `KeptWhileAwaited` promises the one timeout, no more.
- An IPv6 raw socket sends with the host's own address (raw_socket.rs:62-70 sets no
  header-include, 205-229 builds a UDP segment only), so README.md:127 and 128 of the
  repository, the rows of IPv6 backends, are not what the code does; such a target
  cannot tell clients apart, and the checksum is computed for an address that it does
  not see. `AsDocumented` is about IPv4 targets.
- `session.rs` errors leave `forward` through `?` at core.rs:137 and are not
  counted as failed (README.md of the repository, line 189, says failed forwards
  are).
- Weights that are multiples of each other in decimals need not be in f64: the
  lowered `current_weight` stops a rest above zero and the wheel makes one more
  turn. The code serves 0.9 to 0.3 as 4 to 1, 1.0 to 0.1 as 11 to 1, and 1.00005
  to 1.0 as 2 to 1. The model does too (weights 301 and 100 with an epsilon of 2:
  4 to 1). README.md:209 of the repository says "respecting weights";
  `WeightedShare` is checked where the gcd divides the weights.
- `dst_ip` is the address the listener is bound to (batch.rs:163), not the destination
  of the packet as README.md:226 of the repository has it. At a wildcard listener,
  which the ":514" of its examples is, the field is a constant while clients send to
  several addresses of the host: `KeyIdentifiesFlow` fails there without the exception
  `Unseen`. `dst_port` (README.md:228) is what it says.
- `sent` of a raw socket counts the headers (raw_socket.rs:97), so the bytes
  counted for raw backends exceed the payloads by 28 or 8 octets per packet.
- A client of the status server that does not read its answer keeps the process
  from ending, and by then a second ctrl-c has no listener. So does a worker in the
  loop of finding 1: it never comes back to its `select!`, the listener that joins it
  waits for ever, and the runtime, dropped at the end of main, waits for its thread.
  `ExitCompletes` and `TasksStop` say that nothing else does. Such a worker keeps a
  thread from all tasks, too; with as many of them as processors not even the health
  checker runs, which alone could end the loop.
- A `proxy_timeout` of one nanosecond is accepted, and the cleanup task then panics
  at its first `interval(0)`; the servers run on and sessions are never taken back.
- Weights below 0.0001 (accepted by config.rs:277) make the step of the WRR wheel
  larger than they are; with only such backends up, `next` does not return.
- Removing a backend from Maglev can move slots of the survivors, in small tables
  all of them; README.md line 217 of the repository promises minimal disruption
  only.
- A backend that is up again is not put back in the Maglev table until a lookup
  meets another owner that is down.

## 4. Fairness

- `WeightedRoundRobin`: weak fairness of the steps of a worker inside `next`
  (a running task keeps running); strong fairness of `Acquire`, because
  parking_lot's mutex hands over to a waiter in the end. No fairness of `Call`
  or `HealthFlip`: packets and failures owe nothing.
- `Maglev`: weak fairness of a worker's steps; locks are held for one step only.
- `Forwarding`: weak fairness of a worker's step (`Step`), among them the timer of
  `proxy_timeout` (`GiveUp`). None for `Choose`: the call of `next` that begins a
  packet need not return (finding 1). `EveryPacketMirrored` therefore has
  `NextReturns`, that no worker stays in it, as its premise. None for the network.
- `Application`: weak fairness of what happens once (`Once`: the steps of main, of a
  listener and its workers after a message, of the status server; and `EndRuntime`):
  tasks that can run are polled. Weak fairness of `Chosen` for the loops whose servers
  use rendezvous hashing or Maglev, whose `next` scans and ends, and none for those of
  `wrr`: `FlagFollows`, `TasksStop` and `ExitCompletes` have as premise that its calls
  return (`NextReturns`), since a thread that spins is one that does not poll. Weak
  fairness of `Handled`, because what handle_packet does once it has a backend ends by
  `proxy_timeout` (`EveryPacketMirrored` of `Forwarding`), and of the interval and
  the steps of a check, because a request has a timeout. Strong fairness of the
  ends of the loops (`StopLoop`, `Stop`): tokio's `select!` polls its branches in
  random order, so a message that is ready again and again is taken although
  packets or intervals are ready too. None for packets, for ctrl-c, for the state
  of a backend, or for the clients of the status server: `ExitCompletes` has them
  as its condition.

When the premise holds: with fewer than two backends of `wrr` up at the filter the loop
is not entered, and `EventualReturn` shows that a call returns while any one backend
stays up. It is broken by an outage of all backends in the middle of a call that does
not end; `wrr_all_down` is such a behaviour.

## 5. Proofs

Eight modules hold proofs; each `X_proofs` is about module `X`, for every value of
its constants.

| Module | Theorem | Statement |
|---|---|---|
| `RendezvousHashing` | `TypeCorrect` | `Spec => []TypeOK` |
| | `SteadyCallFindsOwner` | `Spec => []OwnerWhenSteady` |
| | `FlowsStay` | `Spec => []FlowAffinity` |
| | `Refinement` | `Spec => KeepsPromise`, the abstract specification |
| | `MinimalRedistribution` | removing a backend moves only the keys it owned (README.md:213 of the repository) |
| | `KeysApart` | `HashKey`: two keys are equal iff every field adds the same octets to both |
| | `KeysIdentifyFlows` | `FlowKeys`: `Spec => []KeyIdentifiesFlow`, destinations and wildcard listeners included |
| `WeightedRoundRobin` | `TypeCorrect` | `Spec => []TypeOK` |
| | `StepIsGcd` | `WheelStep`: with epsilon 1 the step divides all weights of a list, and every common divisor divides it |
| | `StepReachesEvery` | `WheelStep`: with an epsilon no larger than the weights the step is no larger than any of them |
| | `StepsReachAll` | `Spec => []StepReachesAll` |
| | `WeightStaysPositive` | the inner return of `None` (wrr.rs:71-75) is never taken |
| | `NearShare` | nobody is served more than once beyond its share between two restarts |
| | `NotOverserved` | `Spec => []NeverOverserved` |
| | `ExactShare` | `Spec /\ []NoCut => WeightedShare` |
| | `Refinement` | `Spec => KeepsPromise` |
| `Maglev` | `TypeCorrect` | `Spec => []TypeOK` |
| | `EmptiedByOutage` | `Spec => EmptiedOnlyByOutage` |
| | `OwnRebuild` | `Spec => OwnRebuildAnswers` |
| | `Refinement` | `Spec => KeepsPromise` |
| `MaglevTable` | `AlwaysRebuilt` | `Spec => []Rebuilt`, the inductive invariant |
| | `TypeCorrect` | `Spec => []TypeOK`: the table is complete |
| | `EverBalanced` | `Spec => []Balanced` |
| `Forwarding` | `TypeCorrect` | `Spec => []TypeOK` |
| | `OneSocket` | `Spec => []OneSocketPerFlow` |
| | `NotShared` | `Spec => []SocketsNotShared` |
| | `Correlated` | `Spec => []NoCrossClient` |
| | `Once` | `Spec => []PassedOnce` |
| `SessionTable` | `TypeCorrect` | `Spec => []TypeOK` |
| | `NeverTaken` | `Spec => []KeptWhileAwaited` |
| | `Reclaimed` | `Spec => []ReclaimedInTime` |
| `SourceAddress` | `TypeCorrect` | `Spec => []TypeOK` |
| | `NeverRefused` | `Spec => []NeverMismatched` |
| | `Documented` | `Spec => []AsDocumented`, for IPv4 targets |
| | `ChecksumsHold` | `Spec => [](Fits => ChecksumsVerify)` |
| `Application` | `CheckerTypes` | `HealthCheck`: `Spec => []TypeOK` |
| | `GaugeSaysFlag` | `HealthCheck`: `Spec => []GaugeAgrees` |
| | `ReturnsLast` | `HealthCheck`: `Spec => []NothingLeftRunning` |
| | `RunsTheChecker` | `AppSpec => Spec`: the program implements the checker |
| | `ProgramTypes` | `AppSpec => []AppTypeOK` |
| | `ProgramGauge` | `AppSpec => []GaugeAgrees` |
| | `TrafficFindsServerReady` | `AppSpec => []ReadyBeforeTraffic` |
| | `NoOrphans` | `AppSpec => []NobodyOrphaned` |

### Assumptions

The constants' assumptions, which TLC evaluates in the runs: there is a backend
(config.rs validates it), weights are positive, `None` is nothing else. Those with
content:
- `MaglevTable`: the size of the table is prime, as 65537 is. `Maglev`: the owner of
  a key in the table of a set is one of the set, which `MaglevTable`'s `TypeCorrect`
  proves of the tables the code fills.
- `WeightedRoundRobin`: the counter has room for two rounds of the whole wheel
  (`UsizeAssumption`); with 64 bits that is 2^62 steps for two backends.
- `HashKey`: payloads and addresses are made of octets, the addresses of the clients of
  one listener have one length (a dual-stack listener reports mapped ones), ports fit a
  u16; what a listener is bound to and what addresses the host has is free. A payload is a message of IPFIX, or of
  any other version, cut off at any length. `KeysApart` is without the last of these:
  its payloads are any sequences. `WheelStep`: lists of weights are not empty, weights
  and epsilons are not zero.
- `SessionTable`: `proxy_timeout` is above one nanosecond; a shorter one panics (see
  section 3). The cleanup task, and a forward between its stamp and the entry API, is
  late by no more than `Lag`, and `Lag` is no more than a timeout; without the last a
  session might be inserted that has already expired. A send and a wait may take any
  time. `SourceAddress`: addresses are a form and a host of two octets, payloads
  are made of octets, ports fit a u16.

Hypotheses that some theorems add:
- `Epsilon = 1` of `NotOverserved` and `ExactShare`, the epsilon 1 in `StepIsGcd`: the
  epsilon of `gcd_f64` is the unit of the weights, so weights are multiples of 0.0001.
  Without it the claims are false (0.9 to 0.3 is served 4 to 1, section 3); `NearShare` and
  `StepReachesEvery` say what is left for any weights.
- `NoCut` of `ExactShare`: the counter does not wrap inside a round. It holds in
  every state when the number of backends divides 2^64; for three backends it fails
  once in 2^64 turns, and the round then ends early.
- `Fits` in `ChecksumsHold`: the lengths of the packet fit the sixteen bits of their
  fields. Behind an IPv4 header these are 65507 octets of payload, behind an IPv6
  header 65527, the most that a UDP datagram of each carries. Above that
  the lengths are cut (raw_socket.rs:171), and the kernel refuses the packet.

### Arguments

The properties speak of calls, packets or sessions that are over, and are not
inductive; each module states the invariant that is.

`RendezvousHashing` (`IInv`), for every worker whose scan has reached position p:
- `best` is None or a scored backend below p that is in `seen`;
- every scored backend of `kept` below p ranks no higher than `best`;
- `kept` is within the backends up now, and the backends up now within `seen`;
- once the call is over, its result satisfies the same with p = N.

A flag that changes only shrinks `kept` and enlarges `seen`, so the conjuncts
survive it; `Examine` extends them by one position; `Return` freezes them. From
the last conjunct: if `seen = kept` the result ranks best of exactly the backends
that were up (`OwnerWhenSteady`); if two calls differ, each result must have been
missing from the other's `kept`, or it would have outranked it
(`FlowAffinity`). `Refinement` uses the invariant for the guard of the abstract
`Answer`.

`HashKey`. A template is only read from a message that is long enough for a domain.
So, field by field, the parts that one of two packets adds to its key are never longer
than those of the other (`OneIsShorter`), and no prefix of its key is longer. Equal
keys have equal lengths, so all parts have the same length, the keys split at the same
places and the parts are equal (`PartsEqual`, `SameKeyShorter`, by induction over the
number of fields); a part then determines the value of its field (`FieldIdentifies`).
Without the first sentence the theorem would be false: a packet with a domain of four
octets and one with two templates could have one key.

`WeightedRoundRobin`. `GcdF64` and the fold of `StepOf` are recursive functions; what they
compute is proved, for any list of weights, by induction over a set of numbers (`SetInduction`, from the well
ordering of the naturals), which needs no operator as a parameter. `IInv` then says
how much each backend has been served since the restart: no more than it was
offered (`Offered`), one pick for each weight the wheel stood at above its floor
(`Floor`). With weights in step with the gcd (`InStep`) this is the share; with no
cut round what stayed up was served all it was offered (`Exact`).

`Maglev` (`WorkerInv`): the scan of a rebuild has found all it passed that stayed up,
and nothing that was not up in the call. An empty table therefore comes from a scan
by a call for which nothing stayed up, and a call whose own table is still there
after a quiet rebuild finds an owner that is up.

`MaglevTable`: a skip and the prime size have no common factor, so the first
`TableSize` preferences of a backend are all slots (`PreferenceOnto`); as long as a
slot is free each turn finds one and none is taken twice, so `TableSize` turns fill
the table. The entries of a backend stand side by side and are as many as its
repetitions (`EntriesFacts`), so the turns that were its own are counted by `Share`,
and so are its slots (`PopulateFacts`).

`Forwarding`. `SocketsInv` adds to what workers hold what they may share: a socket not
yet in the table is known to its worker only, and whoever else has one in use serves the
same flow, or the cleanup has taken it. `ClientInv` follows an answer from the backend
through the queue of the port to the worker: on all of its way either every user of the
port is the client of the request, or the answer is in `overtaken`. A port changes its
client only when it is bound again; what is in flight to it is then overtaken by
definition, and nothing is in its queue, because a socket that is closed loses what it
had received (`ClosedInv`), even one whose connect has failed. `OnceInv` says that a
packet's answer is in one place only: in flight, in one queue, in one hand, or passed.

`SessionTable`: a stamp is never in the future (`StampInv`), and the table's stamp of
the session of a forward is no older than the forward's own, unless that is more than a
timeout ago (`CallInv`): the sweep takes a session only if its stamp is more than a
timeout before an instant that is not in the future, and the stamp of the forward is
then older still. A session that the sweep under way has not looked at was looked at by
the one before, any other expires no earlier than a timeout before the end of the
interval (`AgeInv`); a session inserted with an old stamp is why the lag of the entry
API counts. The cleanup is at most `Lag` behind (`TaskInv`).

`SourceAddress`: the settings do not change, what is built belongs to them, and what was
delivered carries the source they give to its client and that such a packet leaves with
(`Delivered`). The clients of the theorems may have any of the address forms, more than
the run gives to a listener. For the octets, `PacketInv` keeps that the last packet is
the one built for its source and payload. The recursive functions of `RawPacket` are
dealt with as the gcd is, by `SetInduction`: the sum over two sequences of words is the
sum of their sums (`WordSumConcat`), adding the carries back keeps a sum modulo 65535
and keeps it positive (`FoldedFacts`), so a sum and its complement make all ones, also
when a zero is sent as all ones (`ComplementFacts`). What the receiver adds up pair by
pair is the sum of the sender with the checksum in its place (`AllOnesSum`); so the
segment verifies (`SegmentFacts`) and then the packet (`Ipv4Facts`).

`Application`. The checker first: `GaugeAgrees` speaks of tasks that are between
checks; a task reaches that point by the store of the gauge, and the invariant adds
what holds just before it: between the store of the flag and the one of the gauge, flag
and `was_alive` say what the response under way says (`Pending`). `ReturnsLast` needs the
types only: `Join` waits for all tasks, and no task starts again. Then, each step of the
program is a step of `HealthCheck` or leaves its variables alone; the invariant needed
is that the checker's message is one of those told (`ToldAgrees`). So the theorems
about the checker hold in the program. Last, `AppInv` divides the servers at `at`: those
below it are labelled with the bound address and their cleanup task has been spawned
(or has panicked, or has ended after its message), those from it on have no task
(`Built`, `NotYet`), and the loops of a listener that has returned are over
(`Orphans`). A loop that takes packets therefore belongs to a server below `at`, and
`at` goes on only from a server there is (`ProgramTypes`).

### Only model-checked

- Liveness, out of the prover's reach: `EventualReturn`, `Settles`,
  `EveryPacketMirrored`, `FlagFollows`, `TasksStop`, `ExitCompletes`.
- The properties of the violation runs, which are false.

Every other property of a passing run is a theorem.

## 6. Not modelled

- Hash functions (FNV, SipHash): scores and permutations are arbitrary, which
  covers every function.
- NaN and infinite weights; weights are naturals in a common unit.
- Head-of-line blocking (batch.rs:167): how long, not whether; no clock there.
- Packets of the largest sizes: lengths above sixteen bits (raw_socket.rs:171).
- What the kernel makes of a raw packet, but for the source address it leaves with
  (`SentSource`).
- Signals that kill the process, and ctrl-c during the start, which does the same:
  the process has no state that outlives it.
- The handlers of the status server and `metrics.rs`: they read counters and flags
  one after the other and render them; no state depends on it, and no document
  says how the numbers of one answer relate.
- Which socket gets a packet when several share an address (SO_REUSEPORT).
- Parsing of YAML, addresses and durations, logging, the command line,
  `response_forwarder` (session.rs:154-210, never called).

## 7. Plan

Order of work, by importance:
1. Done: the three algorithms with their common promise, forwarding, sessions,
   hash key, health checker, source addresses and raw packets, and the process that
   composes them.
2. Done: proofs about all of them, for every property that the prover can reach.
3. `Redistribution`: an algorithm composed with `HealthCheck` instead of
   `HealthFlip`: a backend that stays unreachable gets no more answers in the end,
   and one that is back is chosen again.
4. A report of the status server read counter by counter while workers count.
