---------------------------- MODULE MCForwarding ----------------------------
EXTENDS Forwarding

CONSTANTS c1, c2

(* The first two packets are of one client. *)
MCClientOf == [r \in Requests |-> IF r <= 2 THEN c1 ELSE c2]
=============================================================================
