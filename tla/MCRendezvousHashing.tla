------------------------ MODULE MCRendezvousHashing ------------------------
EXTENDS FlowKeys

(* Every key of up to two fields, the default and the longest one.         *)
MCFieldLists ==
  {<<f>> : f \in HashKeyField} \cup (HashKeyField \X HashKeyField)
  \cup {DefaultHashKey, <<"src_ip", "ipfix", "ipfix_template_id">>}

(* A listener of one family; clients that differ in one octet, ports at    *)
(* the border of an octet, messages cut off at every border of a field and *)
(* a domain that differs from another in its highest octets only.          *)
MCSources == {<<10, 0, 0, 1>>, <<10, 0, 0, 2>>}
MCSourcePorts == {1, 256, 257}

(* A wildcard and one of the two addresses of the host. *)
MCAddresses == {<<192, 0, 2, 1>>, <<192, 0, 2, 2>>}
MCBounds == [ip : {<<0, 0, 0, 0>>, <<192, 0, 2, 1>>}, port : {514}]

MCMessages == [version : {9, 10}, unread : {[i \in 1 .. 10 |-> IF i = 10 THEN n ELSE 0] : n \in {0, 1}},
               domain : {1, 256, 65537}, set : {2, 255, 256, 257},
               rest : {<<7>>}, length : 15 .. 19]

(* The keys that calls are made with, of two clients. *)
MCKeys == {BuildHashKey(<<"src_ip">>, [srcIp |-> ip], at) : ip \in MCSources, at \in MCBounds}

(* For one key two backends tie above a third; for the other one backend   *)
(* has no score at all.                                                    *)
MCScore ==
  LET tied == CHOOSE k \in Keys : TRUE IN
  [k \in Keys |-> IF k = tied THEN [b \in Backends |-> IF b = 2 THEN 3 ELSE 5]
                              ELSE [b \in Backends |-> 2 * b]]
=============================================================================
