--------------------------- MODULE MCApplication ---------------------------
EXTENDS Application

Balanced(algorithm, key, backends, timeout) ==
  [algorithm |-> algorithm, hashKey |-> key, backends |-> backends, timeout |-> timeout]

Server(mode, workers, balancer, targets) ==
  [mode |-> mode, workers |-> workers, balancer |-> balancer, targets |-> targets]

Plain == Balanced("wrr", 0, 1, 30)

(* Two standard servers, one with a balancer and one with a mirror; a      *)
(* batch listener with a worker for each of the two processors, a balancer *)
(* with the shortest timeout and a mirror; and a file for each rule that   *)
(* one may break.                                                          *)
MCConfigurations == {
  << Server("standard", 0, Plain, 0), Server("standard", 0, None, 1) >>,
  << Server("batch", 0, Balanced("rh", 1, 1, 1), 1) >>,
  << Server("standard", 1025, Plain, 0) >>,
  << Server("standard", 0, None, 0) >>,
  << Server("standard", 0, Balanced("wrr", 0, 0, 30), 0) >>,
  << Server("standard", 0, Balanced("maglev", 0, 1, 30), 0) >>,
  << Server("standard", 0, Balanced("wrr", 0, 1, 0), 0) >> }
=============================================================================
