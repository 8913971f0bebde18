-------------------------- MODULE MCSourceAddress --------------------------
EXTENDS SourceAddress

(* Two hosts that differ in their last octets, in each form a client's     *)
(* address may be reported in.                                             *)
MCClients == {"v4", "mapped", "v6"} \X {<<1, 1>>, <<1, 2>>}

(* An address of each family, neither of them a client's.                  *)
MCConfigured == {<<"v4", <<2, 1>>>>, <<"v6", <<2, 1>>>>}

(* Ports whose octets all matter. *)
MCPorts == [src |-> 65535, dst |-> 258]
MCTarget == <<3, 1>>

(* The word that makes the sum over the packet of client a all ones, so    *)
(* that its checksum would be 0.                                           *)
Cancelling(a, family) ==
  LET src == AddressOctets(a)
      dst == AddressOctets(<<family, MCTarget>>)
  IN  Bytes(UdpChecksum(src, dst, UdpSegment(MCPorts, 0, <<0, 0>>)))

(* No payload, an odd length, sums that carry twice, and checksums of 0.   *)
MCPayloads == {<<>>, <<255>>, <<255, 255, 255, 255, 1>>,
               Cancelling(<<"v4", <<1, 1>>>>, "v4"), Cancelling(<<"nat64", <<1, 1>>>>, "v6")}
=============================================================================
