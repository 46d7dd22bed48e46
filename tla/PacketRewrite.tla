---------------------------- MODULE PacketRewrite ---------------------------
(***************************************************************************)
(* What the handlers do to a packet's headers: a packet that a client sent *)
(* to a VIP and that goes on to the chosen backend, a TCP segment on its   *)
(* way back, and the backend's port unreachable message.  Each handler is  *)
(* taken from the point where it has its mapping; the maps are Dataplane's. *)
(*                                                                         *)
(* A word has W bits instead of 16, and an address is one word instead of  *)
(* two.  Checksums are computed in W-bit one's complement arithmetic; what *)
(* else the headers and the payload hold is one word, `rest` or `data`.    *)
(***************************************************************************)
EXTENDS Naturals

CONSTANTS
    W,           \* the width of a word
    Clients,     \* addresses of clients
    Vips,        \* addresses of VIPs
    Addresses,   \* addresses of backends
    Ports,       \* ports of VIPs
    Dports,      \* the u32 dport fields of backends
    Contents     \* values of rest and data

Modulus == 2^W
Ones == Modulus - 1
Word == 0 .. Ones

\* That a power of two from the second on is more than 3 is said for the proofs: the
\* provers do not know powers.
ASSUME RewriteAssumption ==
    /\ W \in Nat \ {0, 1}
    /\ Modulus \in Nat /\ Modulus > 3
    /\ Clients \cup Vips \cup Addresses \cup Ports \cup Contents \subseteq Word
    /\ Dports \subseteq Nat

VARIABLES
    pc,      \* the next step of the handler
    pkt,     \* the packet
    sent,    \* the packet as it arrived
    mapping  \* the backend and the VIP

vars == <<pc, pkt, sent, mapping>>

\* `as u16` of a u32.
AsWord(x) == x % Modulus

-----------------------------------------------------------------------------
\* Checksums.

Fold(csum) == (csum % Modulus) + (csum \div Modulus)

\* Four rounds; a round does nothing to what already fits a word.
csum_fold_helper(csum) == Ones - AsWord(Fold(Fold(Fold(Fold(csum)))))

\* External: a receiver's check of words that add up to `sum`.
Verifies(sum) == sum > 0 /\ sum % Ones = 0

\* External: the checksum of words that add up to `sum`.
Checksum(sum) == Ones - (IF sum > 0 /\ sum % Ones = 0 THEN Ones ELSE sum % Ones)

\* External: bpf_l3_csum_replace and bpf_l4_csum_replace, which update a checksum
\* for one word that changes.
CsumReplace(check, old, new) == Ones - AsWord(Fold(Fold((Ones - check) + (Ones - old) + new)))

IpWords(ip) == ip.saddr + ip.daddr + ip.rest + ip.check
L4Words(p) == p.saddr + p.daddr + p.sport + p.dport + p.data
InnerWords(ip) == IpWords(ip) + ip.sport + ip.dport

IpVerifies(ip) == Verifies(IpWords(ip))

\* External: a sender gives its IP header a valid checksum.
WithIpCheck(ip) == [ip EXCEPT !.check = Checksum(IpWords(ip))]

\* External: a TCP segment or UDP datagram, its checksum included.
Segment(saddr, daddr, sport, dport, rest, data) ==
    LET p == [saddr |-> saddr, daddr |-> daddr, rest |-> rest, check |-> 0,
              sport |-> sport, dport |-> dport, data |-> data, l4 |-> 0]
    IN  [WithIpCheck(p) EXCEPT !.l4 = Checksum(L4Words(p))]

\* External: the unreachable message that host `from` sends to client `to` about
\* the client's datagram as it reached the host.
Unreachable(from, to, sport, dport, rest, data) ==
    LET inner == WithIpCheck([saddr |-> to, daddr |-> from, rest |-> data, check |-> 0,
                              sport |-> sport, dport |-> dport])
    IN  WithIpCheck([saddr |-> from, daddr |-> to, rest |-> rest, check |-> 0,
                     inner |-> inner, icmp |-> Checksum(InnerWords(inner))])

Mappings == [daddr : Addresses, dport : Dports, vip : Vips, vport : Ports]

\* The rest of an IP header is not 0: it holds the version.
Init ==
    /\ mapping \in Mappings
    /\ \E client \in Clients, port \in Ports, rest \in Contents \ {0}, data \in Contents :
          \/ /\ pc \in {"ip_l4", "udp_dnat"}
             /\ pkt = Segment(client, mapping.vip, port, mapping.vport, rest, data)
          \/ /\ pc = "tcp_snat"
             /\ pkt = Segment(mapping.daddr, client, AsWord(mapping.dport), port, rest, data)
          \/ /\ pc = "icmp_outer" /\ data # 0
             /\ pkt = Unreachable(mapping.daddr, client, port, AsWord(mapping.dport), rest, data)
    /\ sent = pkt

\* A helper's step: it succeeds, or fails and the handler returns early.
Step(from, to, new) ==
    /\ pc = from
    /\ \/ pc' = to /\ pkt' = new
       \/ pc' = "returned" /\ pkt' = pkt
    /\ UNCHANGED <<sent, mapping>>

Return == pc' = "returned" /\ UNCHANGED <<pkt, sent, mapping>>

-----------------------------------------------------------------------------
\* Ingress.  handle_tcp_ingress rewrites with the two functions only.

\* handle_udp_ingress first writes both destination fields, then tracks the
\* client, which fails when LB_CONNECTIONS is full.
udp_dnat ==
    /\ pc = "udp_dnat"
    /\ pkt' = [pkt EXCEPT !.daddr = mapping.daddr, !.dport = AsWord(mapping.dport)]
    /\ pc' \in {"ip_l4", "returned"}
    /\ UNCHANGED <<sent, mapping>>

\* Defect: the old address is taken from the packet, where the UDP handler has
\* already replaced it.
set_ipv4_ip_dst_reread ==
    LET new == mapping.daddr
    IN  \/ Step("ip_l4", "ip_l3", [pkt EXCEPT !.l4 = CsumReplace(@, pkt.daddr, new)])
        \/ Step("ip_l3", "ip_store", [pkt EXCEPT !.check = CsumReplace(@, pkt.daddr, new)])
        \/ Step("ip_store", "port_l4", [pkt EXCEPT !.daddr = new])

set_ipv4_ip_dst ==
    LET old == sent.daddr
        new == mapping.daddr
    IN  \/ Step("ip_l4", "ip_l3", [pkt EXCEPT !.l4 = CsumReplace(@, old, new)])
        \/ Step("ip_l3", "ip_store", [pkt EXCEPT !.check = CsumReplace(@, old, new)])
        \/ Step("ip_store", "port_l4", [pkt EXCEPT !.daddr = new])

\* The port is stored at the offset of the L4 checksum.
set_ipv4_dest_port ==
    LET old == sent.dport
        new == AsWord(mapping.dport)
    IN  \/ Step("port_l4", "port_store", [pkt EXCEPT !.l4 = CsumReplace(@, old, new)])
        \/ Step("port_store", "redirected", [pkt EXCEPT !.l4 = new])

-----------------------------------------------------------------------------
\* Egress.

\* Defect: the old IP checksum is summed up with the header.
tcp_snat_uncleared ==
    LET ip == [pkt EXCEPT !.saddr = mapping.vip, !.sport = AsWord(mapping.vport)]
    IN  /\ pc = "tcp_snat"
        /\ pkt' = [ip EXCEPT !.check = csum_fold_helper(IpWords(ip)), !.l4 = 0]
        /\ pc' = "replied"
        /\ UNCHANGED <<sent, mapping>>

\* handle_tcp_egress: the source becomes the VIP, the IP checksum is computed
\* anew, and the TCP checksum is cleared.
tcp_snat ==
    LET ip == [pkt EXCEPT !.saddr = mapping.vip, !.sport = AsWord(mapping.vport), !.check = 0]
    IN  /\ pc = "tcp_snat"
        /\ pkt' = [ip EXCEPT !.check = csum_fold_helper(IpWords(ip)), !.l4 = 0]
        /\ pc' = "replied"
        /\ UNCHANGED <<sent, mapping>>

\* handle_icmp_egress: the outer header, then the inner one if it is there.
icmp_outer ==
    LET ip == [pkt EXCEPT !.saddr = mapping.vip, !.check = 0]
    IN  /\ pc = "icmp_outer"
        /\ pkt' = [ip EXCEPT !.check = csum_fold_helper(IpWords(ip))]
        /\ pc' = "icmp_inner"
        /\ UNCHANGED <<sent, mapping>>

\* Defect: the inner header keeps its checksum.
icmp_inner_stale ==
    /\ pc = "icmp_inner"
    /\ pkt' = [pkt EXCEPT !.inner.daddr = mapping.vip]
    /\ pc' = "unreachable"
    /\ UNCHANGED <<sent, mapping>>

icmp_inner ==
    LET ip == [pkt.inner EXCEPT !.daddr = mapping.vip, !.check = 0]
    IN  /\ pc = "icmp_inner"
        /\ \/ /\ pkt' = [pkt EXCEPT !.inner = [ip EXCEPT !.check = csum_fold_helper(IpWords(ip))]]
              /\ pc' = "unreachable"
              /\ UNCHANGED <<sent, mapping>>
           \/ Return

-----------------------------------------------------------------------------
Next == udp_dnat \/ set_ipv4_ip_dst \/ set_ipv4_dest_port \/ tcp_snat \/ icmp_outer \/ icmp_inner

Spec == Init /\ [][Next]_vars

\* The packets that a segment or datagram, and an unreachable message, can become.
SegmentType == [saddr : Word, daddr : Word, rest : Word, check : Word,
                sport : Word, dport : Word, data : Word, l4 : Word]
InnerType == [saddr : Word, daddr : Word, rest : Word, check : Word, sport : Word, dport : Word]
UnreachableType == [saddr : Word, daddr : Word, rest : Word, check : Word,
                    inner : InnerType, icmp : Word]

\* The widths of the fields, which in the program the types see to: what the proofs
\* need of them.
TypeOK ==
    /\ pc \in {"udp_dnat", "ip_l4", "ip_l3", "ip_store", "port_l4", "port_store", "redirected",
               "tcp_snat", "replied", "icmp_outer", "icmp_inner", "unreachable", "returned"}
    /\ mapping \in Mappings
    /\ pkt \in SegmentType \cup UnreachableType

\* A packet that is redirected has the backend's address and an IP checksum that
\* the backend accepts, for TCP, where the helpers change everything, as for UDP,
\* where the address was already written when the checksum is updated.
RedirectedHeaderVerifies ==
    pc = "redirected" => IpVerifies(pkt) /\ pkt.daddr = mapping.daddr

\* A reply leaves with the VIP, address and port, as its source, and with an IP
\* checksum that the client accepts.
ReplyHeaderVerifies ==
    pc = "replied" => IpVerifies(pkt) /\ pkt.saddr = mapping.vip /\ pkt.sport = mapping.vport

\* The ICMP checksum, which covers the inner header and which handle_icmp_egress
\* does not touch, still verifies: rewriting the inner header's address together
\* with its checksum leaves the sum of its words as it was.
UnreachableVerifies ==
    pc = "unreachable" =>
        /\ IpVerifies(pkt)
        /\ IpVerifies(pkt.inner)
        /\ Verifies(InnerWords(pkt.inner) + pkt.icmp)

-----------------------------------------------------------------------------
\* What the source says of the rewriting and some packet refutes.

\* "update destination port in the tcp_hdr" (set_ipv4_dest_port).
DestPortUpdated == pc = "redirected" => pkt.dport = AsWord(mapping.dport)

\* "recalculate the checksums" (set_ipv4_dest_port): the L4 checksum of a
\* redirected packet is that of the packet.
ChecksumsRecalculated == pc = "redirected" => Verifies(L4Words(pkt) + pkt.l4)

\* "redirecting port unreachable messages ... so a UDP client can tell when the
\* server is shutdown" (handle_icmp_egress): the message quotes the datagram that
\* the client sent, to the VIP's address and port.
UnreachableQuotesVip ==
    pc = "unreachable" => pkt.inner.daddr = mapping.vip /\ pkt.inner.dport = mapping.vport
=============================================================================
