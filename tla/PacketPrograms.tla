---------------------------- MODULE PacketPrograms ----------------------------
(***************************************************************************)
(* The XDP programs of the packet lessons (packet-solutions), on one frame *)
(* that travels from interface to interface.  All interfaces run the same  *)
(* program; what it passes goes to a stack, which bridges it to the next   *)
(* interface, or answers it through the TC program of tc_reply_kern_02.c.  *)
(*                                                                         *)
(* A frame is the sequence of its header fields: two MAC addresses and an  *)
(* EtherType, for each VLAN tag a TCI and the next EtherType, the network  *)
(* header and the transport header.  It may end after any field: data_end  *)
(* is its length.                                                          *)
(***************************************************************************)
EXTENDS Checksums, Sequences, FiniteSets, FiniteSetsExt

CONSTANTS
  Frames,         \* the frames that are sent, for each program
  Address,        \* the IP addresses in them
  VLAN_MAX_DEPTH,
  ICMP_ECHO, ICMP_ECHOREPLY, ICMPV6_ECHO_REQUEST, ICMPV6_ECHO_REPLY,
  Redirections,   \* the command lines of xdp_prog_user: [dev, src_mac, dest_mac]
  MaxBridged      \* bound: how often a frame is bridged

VARIABLES
  program,   \* the program on the interfaces
  frame,
  origin,    \* the frame as it was sent
  place,     \* where it is: arriving at an interface, in a stack, at the client or
             \* the host it was redirected to, gone
  headroom,  \* whether there is room for a tag in front of the frame
  bridged,   \* how often it has been bridged
  tx_port,   \* the device in entry 0 of the map, or NoDevice
  redirect_params, \* the map from source to destination addresses
  writing,   \* the command of xdp_prog_user that is past its update of tx_port, or NoCommand
  unwritten  \* not in the program: an update of tx_port has failed

maps == <<tx_port, redirect_params, writing, unwritten>>
vars == <<program, frame, origin, place, headroom, bridged, maps>>

NoDevice == "none"
NoCommand == [dev |-> NoDevice]

Program == {"xdp_patch_ports", "xdp_vlan_swap", "xdp_icmp_echo", "xdp_router",
            "xdp_redirect", "xdp_redirect_map", "xdp_vlan_01", "xdp_vlan_02"}

Init ==
  /\ program \in Program
  /\ frame \in Frames[program] /\ origin = frame
  /\ place = "wire"
  /\ headroom \in BOOLEAN
  /\ bridged = 0
  /\ tx_port = NoDevice /\ redirect_params = <<>> /\ writing = NoCommand
  /\ unwritten = FALSE

-----------------------------------------------------------------------------
(* parsing_helpers.h: a parser returns the header's position and the type  *)
(* of the next one, or Fail.                                               *)

Fail == [type |-> "-1", pos |-> 0, next |-> 0]

proto_is_vlan(h_proto) == h_proto \in {"8021Q", "8021AD"}

\* Whether the loop of parse_ethhdr() gets over j tags.
Skips(f, j) ==
  \A k \in 0 .. j - 1 : proto_is_vlan(f[3 + 2 * k]) /\ 5 + 2 * k <= Len(f)

\* parse_ethhdr_vlan(): up to VLAN_MAX_DEPTH tags are skipped.
parse_ethhdr(f) ==
  IF Len(f) < 3 THEN Fail
  ELSE LET tags == Max({j \in 0 .. VLAN_MAX_DEPTH : Skips(f, j)})
       IN  [type |-> f[3 + 2 * tags], pos |-> 1, next |-> 4 + 2 * tags]

\* parse_iphdr() and parse_ip6hdr(): the length field of an IPv4 header must be sane.
parse_iphdr(f, pos) ==
  IF pos > Len(f) \/ ~f[pos].sane THEN Fail
  ELSE [type |-> f[pos].protocol, pos |-> pos, next |-> pos + 1]

parse_ip6hdr(f, pos) ==
  IF pos > Len(f) THEN Fail
  ELSE [type |-> f[pos].protocol, pos |-> pos, next |-> pos + 1]

\* The network header behind the tags, or none that these programs look into.
Network(f) ==
  LET eth == parse_ethhdr(f)
  IN  CASE eth.type = "IP" -> parse_iphdr(f, eth.next)
        [] eth.type = "IPV6" -> parse_ip6hdr(f, eth.next)
        [] OTHER -> Fail

\* parse_udphdr() and parse_tcphdr(): their length fields must be sane, too.
HasTransport(f, pos) == pos <= Len(f) /\ f[pos].sane

-----------------------------------------------------------------------------
(* What a frame has behind its tags.                                       *)

\* The fields of the headers that the programs and the receivers look at; rest is the
\* sum of the other words that a checksum covers.
Protocol == {"UDP", "TCP", "ICMP", "ICMPV6", "OTHER"}
Ipv4Header == [protocol : Protocol, sane : BOOLEAN, saddr : Address, daddr : Address,
               ttl : Bytes, rest : Nat, check : Words]
Ipv6Header == [protocol : Protocol, saddr : Address, daddr : Address, ttl : Bytes]
PortsHeader == [sane : BOOLEAN, source : Words, dest : Words, rest : Nat, check : Words]
IcmpHeader == [type : Bytes, rest : Nat, check : Words]

\* There is a network header behind j tags. A receiver gets over any number of them.
Behind(f, j) ==
  4 + 2 * j <= Len(f) /\ Skips(f, j) /\ f[3 + 2 * j] \in {"IP", "IPV6"}

\* The headers are what the EtherType and the protocol say, wherever the frame ends.
IsSequence(f) == Len(f) \in Nat /\ f = [i \in 1 .. Len(f) |-> f[i]]

WellFormed(f) ==
  /\ IsSequence(f) /\ Len(f) >= 3
  /\ \A j \in 0 .. Len(f) :
       Behind(f, j) =>
         /\ f[4 + 2 * j] \in IF f[3 + 2 * j] = "IP" THEN Ipv4Header ELSE Ipv6Header
         /\ 5 + 2 * j <= Len(f) =>
              /\ f[4 + 2 * j].protocol \in {"UDP", "TCP"} => f[5 + 2 * j] \in PortsHeader
              /\ f[4 + 2 * j].protocol \in {"ICMP", "ICMPV6"} => f[5 + 2 * j] \in IcmpHeader

ASSUME PacketAssumption ==
  /\ VLAN_MAX_DEPTH \in Nat /\ MaxBridged \in Nat
  /\ {ICMP_ECHO, ICMP_ECHOREPLY, ICMPV6_ECHO_REQUEST, ICMPV6_ECHO_REPLY} \subseteq Bytes
  /\ ICMP_ECHO # ICMP_ECHOREPLY /\ ICMPV6_ECHO_REQUEST # ICMPV6_ECHO_REPLY
  /\ \A name \in Program : \A f \in Frames[name] : WellFormed(f)
  /\ \A cmd \in Redirections : cmd.dev # NoDevice

-----------------------------------------------------------------------------
(* What becomes of a frame.                                                *)

\* A frame arrives, and the attached program runs to its end.
Runs(name) ==
  /\ place = "wire"
  /\ program = name
  /\ UNCHANGED <<program, origin, bridged, maps>>

\* XDP_TX sends it back to where it came from, a router to the next one; the other
\* redirections reach a host.
Verdict(action) ==
  place' = CASE action = "XDP_PASS" -> "stack"
             [] action = "XDP_REDIRECT" /\ program # "xdp_router" -> "redirected"
             [] action = "XDP_REDIRECT" /\ program = "xdp_router" -> "wire"
             [] action = "XDP_TX" -> "wire"
             [] action \in {"XDP_DROP", "XDP_ABORTED"} -> "gone"

-----------------------------------------------------------------------------
(* xdp_patch_ports and _fix_port_egress.                                   *)

Port(port, n) == (port + n) % WordCount

xdp_patch_ports ==
  LET ip == Network(frame) IN
  /\ Runs("xdp_patch_ports")
  /\ UNCHANGED headroom
  /\ IF ip.type \notin {"UDP", "TCP"}
     THEN Verdict(IF parse_ethhdr(frame) = Fail THEN "XDP_ABORTED" ELSE "XDP_PASS")
          /\ UNCHANGED frame
     ELSE IF ~HasTransport(frame, ip.next)
     THEN Verdict("XDP_ABORTED") /\ UNCHANGED frame
     ELSE /\ Verdict("XDP_PASS")
          /\ frame' = [frame EXCEPT ![ip.next].dest = Port(@, -1),
                                    ![ip.next].check = PatchedChecksum(@, 1)]

\* Mutation: the source port is left as it is.
fix_port_egress_Skipped(f) == f

\* _fix_port_egress(), the opposite for the source port.
fix_port_egress(f) ==
  LET ip == Network(f) IN
  IF ip.type \in {"UDP", "TCP"} /\ HasTransport(f, ip.next)
  THEN [f EXCEPT ![ip.next].source = Port(@, 1),
                 ![ip.next].check = PatchedChecksum(@, -1)]
  ELSE f

-----------------------------------------------------------------------------
(* xdp_vlan_swap                                                           *)

\* vlan_tag_pop(): the head of the frame moves, and the Ethernet header is written
\* again at the new one, with the EtherType of the tag.
vlan_tag_pop(f) ==
  IF Len(f) < 5 THEN f ELSE <<f[1], f[2], f[5]>> \o SubSeq(f, 6, Len(f))

\* Mutation: the EtherType is overwritten before the tag gets it.
vlan_tag_push_LosesProto(f, vlid) ==
  IF headroom THEN <<f[1], f[2], "8021Q", vlid, "8021Q">> \o SubSeq(f, 4, Len(f)) ELSE f

\* vlan_tag_push(): it needs room in front of the frame.
vlan_tag_push(f, vlid) ==
  IF headroom THEN <<f[1], f[2], "8021Q", vlid>> \o SubSeq(f, 3, Len(f)) ELSE f

\* The room that a tag leaves is enough for another one.
xdp_vlan_swap ==
  /\ Runs("xdp_vlan_swap")
  /\ Verdict("XDP_PASS")
  /\ IF parse_ethhdr(frame) = Fail
     THEN UNCHANGED <<frame, headroom>>
     ELSE IF proto_is_vlan(frame[3])
     THEN /\ frame' = vlan_tag_pop(frame)
          /\ headroom' = (headroom \/ frame' # frame)
     ELSE /\ frame' = vlan_tag_push(frame, 1)
          /\ headroom' \in IF frame' # frame THEN BOOLEAN ELSE {headroom}

-----------------------------------------------------------------------------
(* xdp_icmp_echo                                                           *)

swap_src_dst_mac(f) == [f EXCEPT ![1] = f[2], ![2] = f[1]]
swap_src_dst_ip(f, pos) == [f EXCEPT ![pos].saddr = f[pos].daddr, ![pos].daddr = f[pos].saddr]

\* Mutation: the type stays that of a request.
EchoReplyType_Request(eth_type) == IF eth_type = "IP" THEN ICMP_ECHO ELSE ICMPV6_ECHO_REQUEST

EchoRequestType(eth_type) == IF eth_type = "IP" THEN ICMP_ECHO ELSE ICMPV6_ECHO_REQUEST
EchoReplyType(eth_type) == IF eth_type = "IP" THEN ICMP_ECHOREPLY ELSE ICMPV6_ECHO_REPLY

\* The ICMP header that answers an echo request.
EchoReply(icmphdr, eth_type) ==
  [icmphdr EXCEPT !.type = EchoReplyType(eth_type),
                  !.check = EchoChecksum(@, icmphdr.type, EchoReplyType(eth_type))]

\* An ICMP request in an IPv4 packet or an ICMPv6 request in an IPv6 packet.
IsEchoRequest(f) ==
  LET eth == parse_ethhdr(f)
      ip == Network(f)
  IN  /\ ip.type = IF eth.type = "IP" THEN "ICMP" ELSE "ICMPV6"
      /\ ip.next <= Len(f)
      /\ f[ip.next].type = EchoRequestType(eth.type)

xdp_icmp_echo ==
  LET eth == parse_ethhdr(frame)
      ip == Network(frame) IN
  /\ Runs("xdp_icmp_echo")
  /\ UNCHANGED headroom
  /\ IF IsEchoRequest(frame)
     THEN /\ Verdict("XDP_TX")
          /\ frame' = [swap_src_dst_mac(swap_src_dst_ip(frame, ip.pos))
                         EXCEPT ![ip.next] = EchoReply(@, eth.type)]
     ELSE Verdict("XDP_PASS") /\ UNCHANGED frame

-----------------------------------------------------------------------------
(* xdp_router                                                              *)

\* bpf_fib_lookup(): a next hop, or a reason to drop or to pass. External.
FibResult == {"SUCCESS", "BLACKHOLE", "NO_NEIGH"}

\* ip_decrease_ttl(), and --hop_limit for IPv6, which has no checksum.
Hop(iph) ==
  IF "check" \in DOMAIN iph
  THEN [iph EXCEPT !.ttl = @ - 1, !.check = TtlChecksum(@)]
  ELSE [iph EXCEPT !.ttl = @ - 1]

\* The router looks at the outer EtherType only.
xdp_router ==
  /\ Runs("xdp_router")
  /\ UNCHANGED headroom
  /\ IF Len(frame) < 3 \/ (frame[3] \in {"IP", "IPV6"} /\ Len(frame) < 4)
     THEN Verdict("XDP_DROP") /\ UNCHANGED frame
     ELSE IF frame[3] \notin {"IP", "IPV6"} \/ frame[4].ttl <= 1
     THEN Verdict("XDP_PASS") /\ UNCHANGED frame
     ELSE \E rc \in FibResult :
            \/ /\ rc = "SUCCESS"
               /\ Verdict("XDP_REDIRECT")
               /\ frame' = [frame EXCEPT ![1] = "next_hop", ![2] = "router", ![4] = Hop(@)]
            \/ rc = "BLACKHOLE" /\ Verdict("XDP_DROP") /\ UNCHANGED frame
            \/ rc = "NO_NEIGH" /\ Verdict("XDP_PASS") /\ UNCHANGED frame

-----------------------------------------------------------------------------
(* xdp_redirect and xdp_redirect_map, and xdp_prog_user, which fills the   *)
(* maps of the second while frames arrive.                                 *)

xdp_redirect ==
  /\ Runs("xdp_redirect")
  /\ UNCHANGED headroom
  /\ IF parse_ethhdr(frame) = Fail
     THEN Verdict("XDP_PASS") /\ UNCHANGED frame
     ELSE Verdict("XDP_REDIRECT") /\ frame' = [frame EXCEPT ![1] = "peer"]

\* bpf_redirect_map() aborts the frame when the entry is empty.
xdp_redirect_map ==
  /\ Runs("xdp_redirect_map")
  /\ UNCHANGED headroom
  /\ IF parse_ethhdr(frame) = Fail \/ frame[2] \notin DOMAIN redirect_params
     THEN Verdict("XDP_PASS") /\ UNCHANGED frame
     ELSE /\ frame' = [frame EXCEPT ![1] = redirect_params[frame[2]]]
          /\ Verdict(IF tx_port = NoDevice THEN "XDP_ABORTED" ELSE "XDP_REDIRECT")

\* redirect_params has room for one entry.
Entry(cmd) == [src_mac \in {cmd.src_mac} |-> cmd.dest_mac]

\* Mutation: the addresses are written first.
WriteTxPort_Late ==
  \E cmd \in Redirections :
    /\ program = "xdp_redirect_map"
    /\ writing = NoCommand
    /\ writing' = cmd
    /\ redirect_params' = Entry(cmd)
    /\ UNCHANGED <<program, frame, origin, place, headroom, bridged, tx_port, unwritten>>

\* main(): the device, which if_nametoindex() has found, is written. The result of
\* bpf_map_update_elem() is not looked at ...
WriteTxPort ==
  \E cmd \in Redirections :
    /\ program = "xdp_redirect_map"
    /\ writing = NoCommand
    /\ writing' = cmd
    /\ \/ tx_port' = cmd.dev /\ UNCHANGED unwritten
       \/ unwritten' = TRUE /\ UNCHANGED tx_port
    /\ UNCHANGED <<program, frame, origin, place, headroom, bridged, redirect_params>>

\* ... and write_iface_params(): the only entry of redirect_params can be replaced
\* with another destination, but not by an entry for another source (E2BIG).
WriteIfaceParams ==
  /\ writing # NoCommand
  /\ redirect_params' = IF DOMAIN redirect_params \subseteq {writing.src_mac}
                        THEN Entry(writing)
                        ELSE redirect_params
  /\ writing' = NoCommand
  /\ UNCHANGED <<program, frame, origin, place, headroom, bridged, tx_port, unwritten>>

\* It may be killed, not find the second map, or fail to write it.
ProgUserEnds ==
  /\ writing # NoCommand
  /\ writing' = NoCommand
  /\ UNCHANGED <<program, frame, origin, place, headroom, bridged, tx_port, redirect_params,
                unwritten>>

xdp_prog_user == WriteTxPort \/ WriteIfaceParams \/ ProgUserEnds

-----------------------------------------------------------------------------
(* xdp_vlan_01 and xdp_vlan_02                                             *)

xdp_vlan_01 ==
  /\ Runs("xdp_vlan_01")
  /\ Verdict(IF Len(frame) < 3 THEN "XDP_ABORTED"
             ELSE IF proto_is_vlan(frame[3]) THEN "XDP_DROP" ELSE "XDP_PASS")
  /\ UNCHANGED <<frame, headroom>>

\* The id of the second tag is compared; without one it is an uninitialised variable.
xdp_vlan_02 ==
  /\ Runs("xdp_vlan_02")
  /\ \E id \in IF Len(frame) >= 3 /\ Skips(frame, 2) THEN {frame[6] % 4096} ELSE {0, 42} :
       Verdict(IF Len(frame) < 3 \/ id = 42 THEN "XDP_ABORTED" ELSE "XDP_PASS")
  /\ UNCHANGED <<frame, headroom>>

-----------------------------------------------------------------------------
(* What is not the programs': stacks and bridges. External.                *)

\* The sums that a receiver verifies: of an IPv4 header, and of what is behind it.
HeaderSum(iph) == iph.rest + iph.ttl * Byte + iph.check
PortsSum(h) == h.rest + h.source + h.dest + h.check
IcmpSum(h) == h.rest + h.type * Byte + h.check

HeaderVerifies(f) ==
  \A j \in 0 .. Len(f) :
    Behind(f, j) /\ f[3 + 2 * j] = "IP" => Verifies(HeaderSum(f[4 + 2 * j]))

\* A UDP checksum of zero says that there is none.
MessageVerifies(protocol, h) ==
  /\ protocol = "UDP" => h.check = 0 \/ Verifies(PortsSum(h))
  /\ protocol = "TCP" => Verifies(PortsSum(h))
  /\ protocol \in {"ICMP", "ICMPV6"} => Verifies(IcmpSum(h))

TransportVerifies(f) ==
  \A j \in 0 .. Len(f) :
    Behind(f, j) /\ 5 + 2 * j <= Len(f) =>
      MessageVerifies(f[4 + 2 * j].protocol, f[5 + 2 * j])

\* The answer to a packet: its ports are swapped, and it has a right checksum of its own.
Answer(f, check) ==
  LET pos == Network(f).next
      h == f[pos]
  IN  [f EXCEPT ![pos] = [h EXCEPT !.source = h.dest, !.dest = h.source, !.check = check]]

\* The server answers what it has received, through the TC program.
Reply ==
  LET ip == Network(frame) IN
  /\ program = "xdp_patch_ports"
  /\ place = "stack"
  /\ ip.type \in {"UDP", "TCP"} /\ HasTransport(frame, ip.next)
  /\ HeaderVerifies(frame) /\ TransportVerifies(frame)
  /\ \E check \in Words :
       /\ Verifies(PortsSum(Answer(frame, check)[ip.next]))
       /\ frame' = fix_port_egress(Answer(frame, check))
  /\ place' = "client"
  /\ UNCHANGED <<program, origin, headroom, bridged, maps>>

Bridge ==
  /\ program = "xdp_vlan_swap"
  /\ place = "stack"
  /\ bridged < MaxBridged
  /\ bridged' = bridged + 1
  /\ place' = "wire"
  /\ UNCHANGED <<program, frame, origin, headroom, maps>>

-----------------------------------------------------------------------------

Run ==
  \/ xdp_patch_ports \/ xdp_vlan_swap \/ xdp_icmp_echo \/ xdp_router
  \/ xdp_redirect \/ xdp_redirect_map \/ xdp_vlan_01 \/ xdp_vlan_02

Next == Run \/ Reply \/ Bridge \/ xdp_prog_user

Spec == Init /\ [][Next]_vars

\* A program runs for every frame that arrives.
FairSpec == Spec /\ WF_vars(Run)

-----------------------------------------------------------------------------
(* Properties.                                                             *)

TypeOK ==
  /\ program \in Program
  /\ WellFormed(frame) /\ WellFormed(origin)
  /\ place \in {"wire", "stack", "client", "redirected", "gone"}
  /\ headroom \in BOOLEAN /\ bridged \in 0 .. MaxBridged
  /\ tx_port \in {NoDevice} \union {cmd.dev : cmd \in Redirections}
  /\ writing \in {NoCommand} \union Redirections
  /\ Cardinality(DOMAIN redirect_params) <= 1
  /\ unwritten \in BOOLEAN

\* A frame with an ICMP message that is zero but for its type and its checksum.
AllZero(f) ==
  \E j \in 0 .. Len(f) :
    /\ Behind(f, j) /\ 5 + 2 * j <= Len(f)
    /\ f[4 + 2 * j].protocol \in {"ICMP", "ICMPV6"} /\ f[5 + 2 * j].rest = 0

\* The checksums that a router, an echo server or a VLAN program leaves are right when
\* those of the frame that was sent are, after any number of hops. The answer to an
\* echo request that is all zero is left out: icmp_checksum_diff() gives it a checksum
\* of zero, the one representation of zero that does not verify.
ChecksumsKept ==
  /\ HeaderVerifies(origin) => HeaderVerifies(frame)
  /\ /\ program # "xdp_patch_ports"
     /\ ~(program = "xdp_icmp_echo" /\ AllZero(origin))
     /\ TransportVerifies(origin)
     => TransportVerifies(frame)

\* "The program will decrease by one destination port number", and the TC program
\* "will increase by one source port number in reply packet": the client gets its
\* answer from the port that it has asked, from 0 as well.
AnswerFromPort ==
  place = "client" =>
    LET pos == Network(origin).next IN frame[pos].source = origin[pos].dest

\* However often it is popped and pushed, a frame is the one that was sent without
\* some of its outer tags, or without all of them and with one new tag; what is
\* behind the tags stays.
Untagged(f, n) == <<f[1], f[2]>> \o SubSeq(f, 3 + 2 * n, Len(f))

TagsOnly ==
  program = "xdp_vlan_swap" =>
    \E n \in 0 .. (Len(origin) - 3) \div 2 :
      LET rest == Untagged(origin, n) IN
      /\ \A k \in 0 .. n - 1 : proto_is_vlan(origin[3 + 2 * k])
      /\ \/ frame = rest
         \/ /\ ~proto_is_vlan(rest[3])
            /\ frame = <<rest[1], rest[2], "8021Q", 1>> \o SubSeq(rest, 3, Len(rest))

\* xdp_prog_user fills two maps while frames arrive, and may fail or be killed between
\* the two: as long as every update of tx_port has succeeded, no frame is redirected to
\* a device that is not there yet, and aborted. After a failed one, whose result
\* xdp_prog_user does not look at, it may be.
NothingAborted == program = "xdp_redirect_map" /\ ~unwritten => place # "gone"

\* Routers that send a frame in a circle, and two echo servers, come to an end: every
\* frame is passed or dropped.
Settles == place = "wire" ~> place # "wire"

\* "RFC1071 contains an algorithm for in-place updating, which is what we use here":
\* a packet with a rewritten port still has a right checksum.
PortChecksums ==
  TransportVerifies(origin) => TransportVerifies(frame)

=============================================================================
