------------------------------ MODULE HashKey ------------------------------
(***************************************************************************)
(* The key of a packet, Balancer::build_hash_key of src/balancer/core.rs:  *)
(* the octets of the fields that the configuration selects, one after the  *)
(* other and without separators. The IPFIX fields are read from the        *)
(* payload and skipped where it has none, so keys differ in length.        *)
(* A packet is [srcIp, srcPort, payload], address and payload being        *)
(* sequences of octets. Of the address it was sent to the listener knows   *)
(* nothing: Packet::dst_addr is the address the listener is bound to (at), *)
(* of which the IP address may be the wildcard.                            *)
(***************************************************************************)
EXTENDS Naturals, Sequences

CONSTANTS
  FieldLists,   \* hash_key, as configured: lists of fields
  Sources,      \* the addresses of clients, of one family
  SourcePorts,
  Messages,     \* what payloads are made of, see MessageOctets
  Bounds,       \* [ip, port]: the addresses a listener may be bound to
  Addresses     \* the host's own addresses, of the family of the clients

HashKeyField ==
  {"src_ip", "dst_ip", "src_port", "dst_port", "ipfix", "ipfix_template_id"}

(* u16::to_be_bytes and from_be_bytes. *)
Octet == 0 .. 255
Word == 0 .. 65535
Octets(n) == <<n \div 256, n % 256>>
Number(hi, lo) == hi * 256 + lo

IsIpfix(payload) == Number(payload[1], payload[2]) = 10

(* Mutant: the octets before those of the observation domain. *)
DomainIdShifted(payload) ==
  IF Len(payload) < 16 \/ ~IsIpfix(payload) THEN <<>> ELSE SubSeq(payload, 12, 15)

(* extract_ipfix_observation_domain_id, as the octets it adds to the key. *)
DomainId(payload) ==
  IF Len(payload) < 16 \/ ~IsIpfix(payload) THEN <<>> ELSE SubSeq(payload, 13, 16)

(* extract_ipfix_template_id: the id of the first set, if it holds data.   *)
TemplateId(payload) ==
  IF Len(payload) < 18 \/ ~IsIpfix(payload) \/ Number(payload[17], payload[18]) < 256
  THEN <<>> ELSE SubSeq(payload, 17, 18)

(* What one field adds to the key of packet p at a listener bound to at.   *)
FieldOctets(field, p, at) ==
  CASE field = "src_ip"            -> p.srcIp
    [] field = "dst_ip"            -> at.ip
    [] field = "src_port"          -> Octets(p.srcPort)
    [] field = "dst_port"          -> Octets(at.port)
    [] field = "ipfix"             -> DomainId(p.payload)
    [] field = "ipfix_template_id" -> TemplateId(p.payload)

(* prefix[n] is the key after the first n fields. *)
BuildHashKey(fields, p, at) ==
  LET prefix[n \in 0 .. Len(fields)] ==
        IF n = 0 THEN <<>> ELSE prefix[n - 1] \o FieldOctets(fields[n], p, at)
  IN  prefix[Len(fields)]

DefaultHashKey == <<"src_ip", "dst_ip", "src_port", "dst_port">>

-----------------------------------------------------------------------------
(* What a client sends, <<source, source port, destination, message>>, and *)
(* which destinations a listener gets: its own address, or for a wildcard  *)
(* any address of the host. A port of 0 is replaced by the system.         *)
Wildcard(ip) == \A i \in 1 .. Len(ip) : ip[i] = 0

Destinations(at) ==
  [ip : IF Wildcard(at.ip) THEN Addresses ELSE {at.ip}, port : {at.port}]

Sent(at) == Sources \X SourcePorts \X Destinations(at) \X Messages

(* What README "Hash Keys" says of the fields of what was sent: the value  *)
(* of a field, as a set that is empty without one.                         *)
Selected(field, x) ==
  LET m == x[4] IN
  CASE field = "src_ip"   -> {x[1]}
    [] field = "dst_ip"   -> {x[3].ip}
    [] field = "src_port" -> {x[2]}
    [] field = "dst_port" -> {x[3].port}
    [] field = "ipfix"    -> {n \in {m.domain} : m.length >= 16 /\ m.version = 10}
    [] field = "ipfix_template_id" ->
         {n \in {m.set} : m.length >= 18 /\ m.version = 10 /\ n >= 256}

(* The exception. README: "Destination IP address", but a listener bound   *)
(* to the wildcard puts the wildcard into every key (batch.rs:163).        *)
Unseen(field, at) == field = "dst_ip" /\ Wildcard(at.ip)

(* A payload is a message of IPFIX, or of another version, cut off after   *)
(* length octets: the version, what is not read (length, time, sequence    *)
(* number), the domain, the id of the first set, and what follows it.      *)
MessageOctets(m) ==
  SubSeq(Octets(m.version) \o m.unread \o Octets(m.domain \div 65536)
           \o Octets(m.domain % 65536) \o Octets(m.set) \o m.rest,
         1, m.length)

ASSUME HashKeyAssumption ==
  /\ \A fields \in FieldLists : fields \in Seq(HashKeyField)
  /\ \A a, b \in Sources : a \in Seq(Octet) /\ Len(a) = Len(b)
  /\ SourcePorts \subseteq Word
  /\ \A at \in Bounds : at.ip \in Seq(Octet) /\ at.port \in Word
  /\ \A ip \in Addresses : ip \in Seq(Octet)
  /\ \A m \in Messages :
       /\ m.version \in Word /\ m.set \in Word
       /\ m.unread \in Seq(Octet) /\ Len(m.unread) = 10
       /\ m.domain \in Nat /\ m.domain \div 65536 \in Word
       /\ m.rest \in Seq(Octet)
       /\ m.length \in 0 .. (18 + Len(m.rest))

PacketOf(x) == [srcIp |-> x[1], srcPort |-> x[2], payload |-> MessageOctets(x[4])]
KeyOf(fields, x, at) == BuildHashKey(fields, PacketOf(x), at)
FlowOf(fields, x, at) ==
  [i \in 1 .. Len(fields) |->
     IF Unseen(fields[i], at) THEN {} ELSE Selected(fields[i], x)]

(* The fields and listeners for which keys and flows do not correspond. *)
Ambiguous == {c \in FieldLists \X Bounds :
  LET pairs == {<<FlowOf(c[1], x, c[2]), KeyOf(c[1], x, c[2])>> : x \in Sent(c[2])}
  IN  \E a, b \in pairs : (a[1] = b[1]) # (a[2] = b[2])}
=============================================================================
