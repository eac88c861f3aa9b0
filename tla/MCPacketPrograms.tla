--------------------------- MODULE MCPacketPrograms ---------------------------
(* The frames that the runs of PacketPrograms send.                        *)
EXTENDS PacketPrograms

Rest == Words \ {0}

\* All IPv4 headers with a right checksum, and IPv6 headers.
Ipv4(protocol) ==
  {h \in [protocol : {protocol}, sane : {TRUE}, saddr : {"client"}, daddr : {"server"},
          ttl : Bytes, rest : Rest, check : Words] : Verifies(HeaderSum(h))}
Ipv6(protocol) ==
  [protocol : {protocol}, saddr : {"client"}, daddr : {"server"}, ttl : Bytes]

\* One of them, where the other fields are of interest.
AnyIpv4(protocol) == CHOOSE h \in Ipv4(protocol) : h.ttl = Byte - 1
AnyIpv6(protocol) == CHOOSE h \in Ipv6(protocol) : h.ttl = Byte - 1

\* The same of the transport headers, which cover other words as well.
Ports ==
  {h \in [sane : {TRUE}, source : {1}, dest : Words, rest : Words, check : Words] :
     Verifies(PortsSum(h))}
NoChecksum == {[h EXCEPT !.check = 0] : h \in Ports} \* UDP only
Icmp(rest) == {h \in [type : Bytes, rest : rest, check : Words] : Verifies(IcmpSum(h))}

Untouched(type, ip) == <<"server", "client", type, ip>>

Routed ==
  {Untouched("IP", h) : h \in Ipv4("OTHER")} \union {Untouched("IPV6", h) : h \in Ipv6("OTHER")}
Addressed ==
  {Append(Untouched("IP", AnyIpv4(p)), h) : p \in {"TCP", "UDP"}, h \in Ports}
    \union {Append(Untouched("IPV6", AnyIpv6("UDP")), h) : h \in Ports}
\* An ICMP message may be all zero behind its type; an ICMPv6 checksum covers addresses
\* and a length as well.
Pinged ==
  {Append(Untouched("IP", AnyIpv4("ICMP")), h) : h \in Icmp(Words)}
    \union {Append(Untouched("IPV6", AnyIpv6("ICMPV6")), h) : h \in Icmp(Rest)}

\* A frame with tags, and all its beginnings.
Tagged ==
  LET f == Append(Untouched("IP", AnyIpv4("UDP")), CHOOSE h \in Ports : TRUE)
      tags == {<<>>, <<"8021Q", 42>>, <<"8021AD", 1, "8021Q", 4096 + 42>>,
               <<"8021AD", 5, "8021Q", 42, "8021Q", 7>>}
      whole == {<<f[1], f[2]>> \o t \o SubSeq(f, 3, Len(f)) : t \in tags}
  IN  UNION {{SubSeq(g, 1, n) : n \in 3 .. Len(g)} : g \in whole}

\* Length fields that are not sane.
Broken ==
  LET f == CHOOSE g \in Addressed : TRUE
  IN  {[f EXCEPT ![4].sane = FALSE], [f EXCEPT ![5].sane = FALSE]}

Unsummed == {Append(Untouched("IP", AnyIpv4("UDP")), h) : h \in NoChecksum}

\* Every program gets every frame, only the redirection, which reads the Ethernet
\* header alone, the tagged ones.
AllFrames ==
  LET all == Routed \union Addressed \union Unsummed \union Pinged \union Tagged
               \union Broken
  IN  [p \in Program |-> IF p \in {"xdp_redirect", "xdp_redirect_map"} THEN Tagged ELSE all]
AddressedFrames == [p \in Program |-> Addressed]

\* The source of the frames to two devices, and another source.
TwoDevices ==
  {[dev |-> "veth1", src_mac |-> "client", dest_mac |-> "peer1"],
   [dev |-> "veth2", src_mac |-> "client", dest_mac |-> "peer2"],
   [dev |-> "veth1", src_mac |-> "other", dest_mac |-> "peer1"]}
=============================================================================
