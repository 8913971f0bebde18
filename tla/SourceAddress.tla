--------------------------- MODULE SourceAddress ---------------------------
(***************************************************************************)
(* The source address of forwarded and mirrored packets. Four places must  *)
(* agree on it: validation refuses settings (src/config.rs), App::run      *)
(* turns them into a SendMode (src/app.rs), UdpBackend::new opens a socket *)
(* of the target's family and send picks the source                        *)
(* (src/balancer/backend.rs), and RawSocket::send_to builds the packet     *)
(* (src/raw_socket.rs) or refuses the pair of families.                    *)
(*                                                                         *)
(* An address is its form and its host: "v4"; "mapped", ::ffff:0:0/96, as  *)
(* a dual-stack listener reports IPv4 clients; "nat64", 64:ff9b::/96; any  *)
(* other "v6". A host is two halves of four octets. Every mode keeps the   *)
(* client's port but standard.                                             *)
(***************************************************************************)
EXTENDS RawPacket

CONSTANTS
  Payloads,     \* payloads, as sequences of octets
  Ports,        \* [src, dst]: the ports of the clients and of the target
  TargetHost,   \* the host of the target
  Clients,      \* the source addresses a listener may report
  Configured,   \* the addresses a configuration may name
  None

Forms == {"v4", "mapped", "nat64", "v6"}
Family(a) == IF a[1] = "v4" THEN "v4" ELSE "v6"
HostOf(a) == a[2]

(* Addresses are a form and a host, and None is no address.                *)
ASSUME AddressAssumption ==
  \A a \in Clients \cup Configured :
    /\ a = <<a[1], a[2]>> /\ a[1] \in Forms
    /\ \A form \in Forms : <<form, a[2]>> # None

(* A host is two octets here, and what is sent is made of octets.          *)
Octets == 0 .. 255
Words == 0 .. 65535

ASSUME OctetsAssumption ==
  /\ \A a \in Clients \cup Configured : HostOf(a) \in Octets \X Octets
  /\ TargetHost \in Octets \X Octets
  /\ \A p \in Payloads : p \in Seq(Octets)
  /\ Ports.src \in Words /\ Ports.dst \in Words

(* How a send may end. *)
Results == {"skipped", "failed", "sent", "no_fallback", "mismatch"}

ASSUME NoneAssumption == None \notin Results

(* The section of a target in the configuration file. *)
Settings ==
  [role : {"balancer", "mirror"}, family : {"v4", "v6"}, preserve : BOOLEAN,
   source : Configured \cup {None}, fallback : Configured \cup {None},
   probability : {"none", "some", "all", "invalid"}]

VARIABLES
  conf,         \* the settings of the target
  stage,        \* "read", "accepted", "rejected", "ready" or "failed"
  mode,         \* SendMode: [kind, address], None before it is built
  raw,          \* the family of the raw socket, None without one
  result,       \* how the last send ended
  delivered,    \* history: [client, source] of the packets sent, the source
                \* None if it is the host's own address
  packet        \* what the last send gave to the raw socket, None if nothing

vars == <<conf, stage, mode, raw, result, delivered, packet>>

Init ==
  /\ conf \in Settings
  /\ conf.role = "balancer" => conf.probability = "all"   \* app.rs passes 1.0
  /\ stage = "read"
  /\ mode = None /\ raw = None /\ result = None
  /\ delivered = {}
  /\ packet = None

(* Mutant: an IPv6 source is let through for an IPv4 target. *)
AcceptsAnySource(c) ==
  /\ c.probability # "invalid"
  /\ ~(c.preserve /\ c.source # None)
  /\ c.fallback # None => c.preserve /\ Family(c.fallback) = "v4"

(* validate_backend and validate_mirror, which agree on addresses. *)
Accepts(c) ==
  /\ c.probability # "invalid"
  /\ ~(c.preserve /\ c.source # None)
  /\ c.fallback # None => c.preserve /\ Family(c.fallback) = "v4"
  /\ c.source # None => ~(Family(c.source) = "v6" /\ c.family = "v4")

Validate ==
  /\ stage = "read"
  /\ stage' = IF Accepts(conf) THEN "accepted" ELSE "rejected"
  /\ UNCHANGED <<conf, mode, raw, result, delivered, packet>>

(* App::run for backends, create_mirror_backends for targets. *)
ModeOf(c) ==
  IF c.preserve THEN [kind |-> "preserve", address |-> c.fallback]
  ELSE IF c.source # None THEN [kind |-> "fake", address |-> c.source]
  ELSE [kind |-> "standard", address |-> None]

(* Mutant: a raw socket is opened for every mode. *)
RawFamilyAlways(c) == c.family

(* RawSocket::new_v4 or new_v6, by the target's address. *)
RawFamily(c) == IF ModeOf(c).kind = "standard" THEN None ELSE c.family

(* UdpBackend::new; opening a socket may fail, and raw ones need rights.   *)
Build ==
  /\ stage = "accepted"
  /\ \/ stage' = "ready" /\ mode' = ModeOf(conf) /\ raw' = RawFamily(conf)
     \/ stage' = "failed" /\ UNCHANGED <<mode, raw>>
  /\ UNCHANGED <<conf, result, delivered, packet>>

(* Mutant: a mapped address is taken for an IPv6 client. *)
AsReported(a) == a

(* to_ipv4_mapped: the IPv4 client behind a mapped address. *)
RealSource(a) == IF a[1] = "mapped" THEN <<"v4", HostOf(a)>> ELSE a

(* effective_src of PreserveSrcAddr; None where send returns an error. *)
EffectiveSource(a) ==
  IF Family(RealSource(a)) = "v6" /\ conf.family = "v4"
  THEN mode.address ELSE RealSource(a)

SourceOf(a) == IF mode.kind = "fake" THEN mode.address ELSE EffectiveSource(a)

(* ipv4_to_ipv6_mapped. *)
Nat64(h) == <<"nat64", h>>

(* RawSocket::send_to refuses these. *)
Mismatch(src) ==
  \/ raw # conf.family
  \/ Family(src) = "v6" /\ conf.family = "v4"

(* The source the packet is built with. *)
BuiltSource(src) ==
  IF Family(src) = "v4" /\ conf.family = "v6" THEN Nat64(HostOf(src)) ELSE src

(* The source it leaves with. Sockets of new_v4 set IP_HDRINCL and packets *)
(* of build_ipv4_udp_packet have an IP header; build_ipv6_udp_packet makes *)
(* a UDP segment only, and new_v6 sets nothing, so that the kernel writes  *)
(* the header, with the host's own address.                                *)
SentSource(src) == IF conf.family = "v4" THEN BuiltSource(src) ELSE None

HostOctets(h) == <<10, h[1], 255, h[2]>>

(* IpAddr::octets: ::ffff:0:0/96, 64:ff9b::/96, and 2001:db8::/32.         *)
AddressOctets(a) ==
  LET zeros(n) == [i \in 1 .. n |-> 0] IN
  CASE a[1] = "v4"     -> HostOctets(a[2])
    [] a[1] = "mapped" -> zeros(10) \o <<255, 255>> \o HostOctets(a[2])
    [] a[1] = "nat64"  -> <<0, 100, 255, 155>> \o zeros(8) \o HostOctets(a[2])
    [] a[1] = "v6"     -> <<32, 1, 13, 184>> \o zeros(8) \o HostOctets(a[2])

Target == AddressOctets(<<conf.family, TargetHost>>)

PacketFor(src, payload) ==
  IF conf.family = "v4"
  THEN Ipv4UdpPacket(AddressOctets(src), Target, Ports, payload)
  ELSE Ipv6UdpPacket(AddressOctets(src), Target, Ports, payload)

(* A balancer sends to a standard backend by its session socket instead    *)
(* (Forwarding).                                                           *)
Sends == stage = "ready" /\ (conf.role = "mirror" \/ mode.kind # "standard")

(* should_send says no: Ok(0), neither sent nor failed. *)
Skip(a) ==
  /\ Sends /\ conf.probability # "all"
  /\ result' = "skipped" /\ packet' = None
  /\ UNCHANGED <<conf, stage, mode, raw, delivered>>

(* Any send may fail; result tells the refusals of the code from it.       *)
SendFails(a) ==
  /\ Sends /\ conf.probability # "none"
  /\ result' = "failed" /\ packet' = None
  /\ UNCHANGED <<conf, stage, mode, raw, delivered>>

(* The host's own address. *)
SendStandard(a) ==
  /\ Sends /\ conf.probability # "none" /\ mode.kind = "standard"
  /\ result' = "sent" /\ packet' = None
  /\ delivered' = delivered \cup {[client |-> a, source |-> None]}
  /\ UNCHANGED <<conf, stage, mode, raw>>

(* The packet leaves, or the socket refuses it (SendFails). *)
SendRaw(a, payload) ==
  /\ Sends /\ conf.probability # "none" /\ mode.kind # "standard"
  /\ LET src == SourceOf(a) IN
     \/ /\ src = None
        /\ result' = "no_fallback" /\ packet' = None
        /\ UNCHANGED delivered
     \/ /\ src # None /\ Mismatch(src)
        /\ result' = "mismatch" /\ packet' = None
        /\ UNCHANGED delivered
     \/ /\ src # None /\ ~Mismatch(src)
        /\ result' = "sent"
        /\ delivered' = delivered \cup {[client |-> a, source |-> SentSource(src)]}
        /\ packet' = [source |-> BuiltSource(src), payload |-> payload,
                      octets |-> PacketFor(BuiltSource(src), payload)]
  /\ UNCHANGED <<conf, stage, mode, raw>>

Next ==
  \/ Validate
  \/ Build
  \/ \E a \in Clients : Skip(a) \/ SendFails(a)
  \/ \E a \in Clients : SendStandard(a)
  \/ \E a \in Clients, payload \in Payloads : SendRaw(a, payload)

Spec == Init /\ [][Next]_vars

-----------------------------------------------------------------------------
(* Types of the variables, and the socket that belongs to each mode: the   *)
(* errors "no socket available" of send cannot occur.                      *)
TypeOK ==
  /\ stage \in {"read", "accepted", "rejected", "ready", "failed"}
  /\ stage = "ready" =>
       /\ mode.kind \in {"standard", "preserve", "fake"}
       /\ mode.address \in Configured \cup {None}
       /\ raw = IF mode.kind = "standard" THEN None ELSE conf.family
  /\ result \in Results \cup {None}
  /\ \A d \in delivered : d.client \in Clients /\ (d.source = None \/ d.source[1] \in Forms)
  /\ packet # None => result = "sent" /\ raw = conf.family

(* raw_socket.rs:130 and config.rs:316-340: what validation accepts, the   *)
(* raw socket never refuses, whoever the client is; and only an IPv6       *)
(* client of an IPv4 target can be left without a source.                  *)
NeverMismatched ==
  /\ result # "mismatch"
  /\ result = "no_fallback" => conf.preserve /\ conf.family = "v4" /\ conf.fallback = None

(* raw_socket.rs:156-323: whatever the length of the payload and the       *)
(* carries of its sums, a receiver that sees the source chosen for the     *)
(* client accepts the packet, and for IPv4 its header too. An IPv6 target  *)
(* does not see that source (SentSource): of its packets this says no more *)
(* than that the checksum is the one the code means to compute.            *)
ChecksumsVerify == packet # None =>
  LET source == AddressOctets(packet.source)
      header == IF conf.family = "v4" THEN 20 ELSE 0
      octets == packet.octets
      segment == SubSeq(octets, header + 1, Len(octets))
  IN  /\ conf.family = "v4" =>
           /\ HeaderVerifies(octets)
           /\ SubSeq(octets, 3, 4) = Bytes(Len(octets))
           /\ SubSeq(octets, 13, 20) = source \o Target
      /\ SegmentVerifies(source, Target, segment)
      /\ SubSeq(segment, 9, Len(segment)) = packet.payload

(* README, "Dual-Stack Support": the rows of the table with an IPv4        *)
(* backend, for a client that reaches a dual-stack listener in either      *)
(* form. Its rows with an IPv6 backend are not what the code does:         *)
(* SentSource is then the host's own address.                              *)
AsDocumented ==
  \A d \in delivered : conf.preserve /\ conf.family = "v4" =>
    IF d.client[1] \in {"v4", "mapped"}
    THEN d.source = <<"v4", HostOf(d.client)>>
    ELSE d.source = conf.fallback /\ d.source # None
=============================================================================
