----------------------------- MODULE RawPacket -----------------------------
(***************************************************************************)
(* The packets of src/raw_socket.rs: the IPv4 header, which the program    *)
(* writes itself, the UDP header and the checksums of both. For IPv6 the   *)
(* packet is the UDP segment and the kernel writes the header.             *)
(* Addresses, packets and payloads are sequences of octets. The sums are   *)
(* u32 in the code and stay below 2^32 for any payload a listener receives *)
(* (65535 octets), so they need no width here.                             *)
(***************************************************************************)
EXTENDS Naturals, Sequences

(* The two octets of a u16, the cast `as u8` dropping what is above.       *)
Bytes(n) == <<(n \div 256) % 256, n % 256>>

(* A loop that adds: its variable after n turns, and in the end. *)
SumUpTo(terms) ==
  LET sum[n \in 0 .. Len(terms)] == IF n = 0 THEN 0 ELSE sum[n - 1] + terms[n]
  IN  sum

SumOf(terms) == SumUpTo(terms)[Len(terms)]

(* Mutant: an odd last octet is added as it is. *)
WordSumUnshifted(s) ==
  SumOf([i \in 1 .. Len(s) |-> IF i % 2 = 1 /\ i < Len(s) THEN s[i] * 256 ELSE s[i]])

(* What each octet adds to the sum of the words of s, an odd last one      *)
(* being the high octet of its word.                                       *)
Terms(s) == [i \in 1 .. Len(s) |-> IF i % 2 = 1 THEN s[i] * 256 ELSE s[i]]

WordSum(s) == SumOf(Terms(s))

(* `while (sum >> 16) != 0`, and the complement. *)
Folded[sum \in Nat] ==
  IF sum < 65536 THEN sum ELSE Folded[(sum % 65536) + (sum \div 65536)]

Complement(sum) == 65535 - Folded[sum]

Checksum(s) == Complement(WordSum(s))

(* A UDP checksum of 0 would mean that there is none. *)
NotZero(c) == IF c = 0 THEN 65535 ELSE c

(* udp_checksum_v4 and udp_checksum_v6: a segment below 65536 octets has   *)
(* no high word of its length.                                             *)
UdpChecksum(src, dst, segment) ==
  NotZero(Complement(WordSum(src) + WordSum(dst) + 17
                       + (Len(segment) \div 65536) + (Len(segment) % 65536)
                       + WordSum(segment)))

UdpSegment(ports, check, payload) ==
  Bytes(ports.src) \o Bytes(ports.dst) \o Bytes(8 + Len(payload)) \o Bytes(check) \o payload

SegmentOf(src, dst, ports, payload) ==
  UdpSegment(ports, UdpChecksum(src, dst, UdpSegment(ports, 0, payload)), payload)

Ipv4Header(src, dst, check, payload) ==
  <<69, 0>> \o Bytes(28 + Len(payload)) \o <<0, 0, 64, 0, 64, 17>>
            \o Bytes(check) \o src \o dst

(* build_ipv4_udp_packet. *)
Ipv4UdpPacket(src, dst, ports, payload) ==
  Ipv4Header(src, dst, Checksum(Ipv4Header(src, dst, 0, payload)), payload)
    \o SegmentOf(src, dst, ports, payload)

(* build_ipv6_udp_packet. *)
Ipv6UdpPacket(src, dst, ports, payload) == SegmentOf(src, dst, ports, payload)

-----------------------------------------------------------------------------
(* What a receiver makes of octets, by RFC 791, 768 and 8200: the ones'    *)
(* complement sum of the words with the checksum among them is all ones,   *)
(* that is, a positive multiple of 65535.                                  *)
Padded(s) == IF Len(s) % 2 = 0 THEN s ELSE Append(s, 0)

AllOnes(s) ==
  LET total == SumOf([i \in 1 .. (Len(Padded(s)) \div 2) |->
                        256 * Padded(s)[2 * i - 1] + Padded(s)[2 * i]])
  IN  total > 0 /\ total % 65535 = 0

HeaderVerifies(packet) == Len(packet) >= 20 /\ AllOnes(SubSeq(packet, 1, 20))

SegmentVerifies(src, dst, segment) ==
  /\ SubSeq(segment, 5, 6) = Bytes(Len(segment))
  /\ SubSeq(segment, 7, 8) # <<0, 0>>
  /\ AllOnes(src \o dst \o <<0, 17>> \o Bytes(Len(segment)) \o segment)
=============================================================================
