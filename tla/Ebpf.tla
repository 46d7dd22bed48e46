-------------------------------- MODULE Ebpf --------------------------------
(***************************************************************************)
(* The tc_ingress and tc_egress programs.  Each CPU runs one program at a  *)
(* time, over the packet it was given, and every operation on a shared map *)
(* is a step of its own, so that programs on other CPUs and the API server *)
(* interleave between any two of them.                                     *)
(*                                                                         *)
(* A handler that returns, with any verdict or error, leaves its CPU idle: *)
(* tc_ingress and tc_egress discard the result and answer TC_ACT_OK.  A    *)
(* packet whose handler returns before its first hit in a map (not IPv4, a *)
(* header out of bounds, another protocol) changes nothing and has no      *)
(* step.                                                                   *)
(***************************************************************************)
EXTENDS BpfMaps

CONSTANTS
    Cpus,     \* the CPUs that run the programs
    Headers   \* the TCP headers that packets carry

ASSUME EbpfAssumption == Headers \subseteq SUBSET Flags

VARIABLE cpu  \* the program each CPU is running, and its locals

Program ==
    {"idle",
     "tcp_backends", "tcp_index", "tcp_advance", "tcp_rst", "tcp_update", "tcp_record",
     "udp_index", "udp_track", "udp_advance",
     "egress_rst", "egress_update", "icmp_remove"}

Locals ==
    [pc         : Program,
     client     : ClientKey \cup {None},
     vip        : Vips \cup {None},
     hdr        : SUBSET Flags,
     list       : BackendList \cup {None},
     idx        : Nat \cup {None},
     lb_mapping : LoadBalancerMapping \cup {None},
     new_conn   : BOOLEAN]

Idle ==
    [pc |-> "idle", client |-> None, vip |-> None, hdr |-> {}, list |-> None,
     idx |-> None, lb_mapping |-> None, new_conn |-> FALSE]

EbpfTypeOK == cpu \in [Cpus -> Locals]

EbpfInit == cpu = [p \in Cpus |-> Idle]

At(p, pc) == cpu[p].pc = pc

Goto(p, locals) == cpu' = [cpu EXCEPT ![p] = locals]

Return(p) == Goto(p, Idle)

-----------------------------------------------------------------------------
\* Choosing a backend, the same in the TCP and in the UDP handler.

\* Defect: the list is indexed up to its capacity, not up to its length.
SelectableAnywhere(list, idx) ==
    /\ idx # None
    /\ idx < ArrayCapacity

\* The checks between the lookup of the index and the array access.
Selectable(list, idx) ==
    /\ idx # None
    /\ idx < list.backends_len
    /\ idx < ArrayCapacity

Selected(list, idx) == list.backends[idx]

\* Defect: the mapping does not say which VIP it is of.
NewMappingNoVip(list, idx, k, tcp_state) ==
    [backend |-> Selected(list, idx), backend_key |-> None, tcp_state |-> tcp_state]

NewMapping(list, idx, k, tcp_state) ==
    [backend |-> Selected(list, idx), backend_key |-> k, tcp_state |-> tcp_state]

\* Defect: the wrap is missed by one.
NextIndexLateWrap(list, idx) ==
    IF idx + 1 > list.backends_len THEN 0 ELSE idx + 1

NextIndex(list, idx) ==
    IF idx + 1 >= list.backends_len THEN 0 ELSE idx + 1

-----------------------------------------------------------------------------
\* LB_CONNECTIONS operations: p goes on with `locals` if they succeed.

InsertConn(p, c, m, locals) ==
    \/ /\ CanInsert(LB_CONNECTIONS, c, ConnsCapacity)
       /\ LB_CONNECTIONS' = Insert(LB_CONNECTIONS, c, m)
       /\ Goto(p, locals)
    \/ /\ ~CanInsert(LB_CONNECTIONS, c, ConnsCapacity)
       /\ Return(p)
       /\ UNCHANGED LB_CONNECTIONS

RemoveConn(p, c, locals) ==
    \/ /\ LB_CONNECTIONS[c] # None
       /\ LB_CONNECTIONS' = Remove(LB_CONNECTIONS, c)
       /\ Goto(p, locals)
    \/ /\ LB_CONNECTIONS[c] = None
       /\ Return(p)
       /\ UNCHANGED LB_CONNECTIONS

\* The mapping after the packet's transition; UDP mappings have no state.
Advanced(m, hdr) ==
    IF m.tcp_state = None
    THEN m
    ELSE [m EXCEPT !.tcp_state = process_tcp_state_transition(hdr, m.tcp_state)]

\* Defect: a closed connection is stored like any other state.
update_tcp_conns_keeps_closed(p, c, m, hdr, locals) ==
    LET next == Advanced(m, hdr)
    IN  \/ next # m /\ InsertConn(p, c, next, locals)
        \/ next = m /\ Goto(p, locals) /\ UNCHANGED LB_CONNECTIONS

update_tcp_conns(p, c, m, hdr, locals) ==
    LET next == Advanced(m, hdr)
    IN  \/ /\ next.tcp_state = "Closed"
           /\ RemoveConn(p, c, locals)
        \/ /\ next.tcp_state # "Closed"
           /\ next # m
           /\ InsertConn(p, c, next, locals)
        \/ /\ next.tcp_state # "Closed"
           /\ next = m
           /\ Goto(p, locals)
           /\ UNCHANGED LB_CONNECTIONS

-----------------------------------------------------------------------------
\* handle_tcp_ingress.

\* Where the handler goes once it has a backend.
Chosen(hdr) == IF "RST" \in hdr THEN "tcp_rst" ELSE "tcp_update"

\* Defect: the connection's own backend is not looked up.
TcpIngressAlwaysNew(p, c, k, hdr) ==
    /\ At(p, "idle")
    /\ Goto(p, [Idle EXCEPT !.pc = "tcp_backends", !.client = c, !.vip = k, !.hdr = hdr,
                            !.new_conn = TRUE])
    /\ UNCHANGED mapVars

\* A packet of client c to k: the connection's own backend, if it is tracked.
TcpIngress(p, c, k, hdr) ==
    LET m == LB_CONNECTIONS[c]
        packet == [Idle EXCEPT !.client = c, !.vip = k, !.hdr = hdr]
    IN  /\ At(p, "idle")
        /\ \/ /\ m # None
              /\ Goto(p, [packet EXCEPT !.pc = Chosen(hdr), !.lb_mapping = m])
           \/ /\ m = None
              /\ Goto(p, [packet EXCEPT !.pc = "tcp_backends", !.new_conn = TRUE])
        /\ UNCHANGED mapVars

\* Defect: a missing list is taken for the default one, and remembered.
TcpLookupBackendsDefault(p) ==
    LET list == BACKENDS[cpu[p].vip]
        default == [backends |-> [i \in 0 .. ArrayCapacity - 1 |-> ZeroBackend],
                    backends_len |-> 0]
    IN  /\ At(p, "tcp_backends")
        /\ Goto(p, [cpu[p] EXCEPT !.pc = "tcp_index",
                                  !.list = IF list = None THEN default ELSE list])
        /\ UNCHANGED mapVars

TcpLookupBackends(p) ==
    LET list == BACKENDS[cpu[p].vip]
    IN  /\ At(p, "tcp_backends")
        /\ \/ /\ list = None
              /\ Return(p)
           \/ /\ list # None
              /\ Goto(p, [cpu[p] EXCEPT !.pc = "tcp_index", !.list = list])
        /\ UNCHANGED mapVars

\* The list is read through its pointer only now, after the second lookup.
TcpLookupIndex(p) ==
    LET k == cpu[p].vip
        idx == GATEWAY_INDEXES[k]
    IN  /\ At(p, "tcp_index")
        /\ \E list \in Deref(BACKENDS, k, cpu[p].list) :
              \/ /\ ~Selectable(list, idx)
                 /\ Return(p)
              \/ /\ Selectable(list, idx)
                 /\ Goto(p, [cpu[p] EXCEPT !.pc = "tcp_advance", !.list = list, !.idx = idx,
                                           !.lb_mapping = NewMapping(list, idx, k, "Established")])
        /\ UNCHANGED mapVars

TcpAdvanceIndex(p) ==
    LET k == cpu[p].vip
        next == NextIndex(cpu[p].list, cpu[p].idx)
    IN  /\ At(p, "tcp_advance")
        /\ \/ /\ CanInsert(GATEWAY_INDEXES, k, MapsCapacity)
              /\ GATEWAY_INDEXES' = Insert(GATEWAY_INDEXES, k, next)
              /\ Goto(p, [cpu[p] EXCEPT !.pc = Chosen(cpu[p].hdr), !.list = None, !.idx = None])
           \/ /\ ~CanInsert(GATEWAY_INDEXES, k, MapsCapacity)
              /\ Return(p)
              /\ UNCHANGED GATEWAY_INDEXES
        /\ UNCHANGED <<BACKENDS, LB_CONNECTIONS>>

\* Defect: the packet's RST flag is not acted on.
TcpRstIgnored(p) ==
    /\ At(p, "tcp_rst")
    /\ Goto(p, [cpu[p] EXCEPT !.pc = "tcp_update"])
    /\ UNCHANGED mapVars

TcpRst(p) ==
    /\ At(p, "tcp_rst")
    /\ RemoveConn(p, cpu[p].client, [cpu[p] EXCEPT !.pc = "tcp_update"])
    /\ UNCHANGED <<BACKENDS, GATEWAY_INDEXES>>

\* update_tcp_conns, then the rewriting of the packet, which a failing helper
\* ends early.  A tracked connection's packet has no map operation after it.
TcpUpdateConns(p) ==
    LET l == cpu[p]
        rewritten == [l EXCEPT !.pc = "tcp_record", !.lb_mapping = Advanced(l.lb_mapping, l.hdr)]
    IN  /\ At(p, "tcp_update")
        /\ \E after \in IF l.new_conn THEN {rewritten, Idle} ELSE {Idle} :
              update_tcp_conns(p, l.client, l.lb_mapping, l.hdr, after)
        /\ UNCHANGED <<BACKENDS, GATEWAY_INDEXES>>

TcpRecordConn(p) ==
    /\ At(p, "tcp_record")
    /\ InsertConn(p, cpu[p].client, cpu[p].lb_mapping, Idle)
    /\ UNCHANGED <<BACKENDS, GATEWAY_INDEXES>>

-----------------------------------------------------------------------------
\* handle_udp_ingress: every packet takes the next backend.

UdpIngress(p, c, k) ==
    /\ At(p, "idle")
    /\ BACKENDS[k] # None
    /\ Goto(p, [Idle EXCEPT !.pc = "udp_index", !.client = c, !.vip = k, !.list = BACKENDS[k]])
    /\ UNCHANGED mapVars

UdpLookupIndex(p) ==
    LET k == cpu[p].vip
        idx == GATEWAY_INDEXES[k]
    IN  /\ At(p, "udp_index")
        /\ \E list \in Deref(BACKENDS, k, cpu[p].list) :
              \/ /\ ~Selectable(list, idx)
                 /\ Return(p)
              \/ /\ Selectable(list, idx)
                 /\ Goto(p, [cpu[p] EXCEPT !.pc = "udp_track", !.idx = idx,
                                           !.lb_mapping = NewMapping(list, idx, k, None)])
        /\ UNCHANGED mapVars

\* The destination is rewritten before the insert, the checksums after it; a
\* failing helper ends the handler before it moves the index.
UdpTrack(p) ==
    /\ At(p, "udp_track")
    /\ \E after \in {[cpu[p] EXCEPT !.pc = "udp_advance"], Idle} :
          InsertConn(p, cpu[p].client, cpu[p].lb_mapping, after)
    /\ UNCHANGED <<BACKENDS, GATEWAY_INDEXES>>

\* The index and the list's length are read again through the pointers that
\* the lookups returned.
UdpAdvanceIndex(p) ==
    LET k == cpu[p].vip
    IN  /\ At(p, "udp_advance")
        /\ \/ /\ CanInsert(GATEWAY_INDEXES, k, MapsCapacity)
              /\ \E idx \in Deref(GATEWAY_INDEXES, k, cpu[p].idx),
                    list \in Deref(BACKENDS, k, cpu[p].list) :
                    GATEWAY_INDEXES' = Insert(GATEWAY_INDEXES, k, NextIndex(list, idx))
           \/ /\ ~CanInsert(GATEWAY_INDEXES, k, MapsCapacity)
              /\ UNCHANGED GATEWAY_INDEXES
        /\ Return(p)
        /\ UNCHANGED <<BACKENDS, LB_CONNECTIONS>>

-----------------------------------------------------------------------------
\* handle_tcp_egress: a packet to client c is given its VIP as source.

TcpEgress(p, c, hdr) ==
    /\ At(p, "idle")
    /\ LB_CONNECTIONS[c] # None
    /\ Goto(p, [Idle EXCEPT !.pc = IF "RST" \in hdr THEN "egress_rst" ELSE "egress_update",
                            !.client = c, !.hdr = hdr, !.lb_mapping = LB_CONNECTIONS[c]])
    /\ UNCHANGED mapVars

EgressRst(p) ==
    /\ At(p, "egress_rst")
    /\ RemoveConn(p, cpu[p].client, [cpu[p] EXCEPT !.pc = "egress_update"])
    /\ UNCHANGED <<BACKENDS, GATEWAY_INDEXES>>

\* The mapping is copied out of the map only here, after a possible removal.
EgressUpdateConns(p) ==
    LET c == cpu[p].client
    IN  /\ At(p, "egress_update")
        /\ \E m \in Deref(LB_CONNECTIONS, c, cpu[p].lb_mapping) :
              update_tcp_conns(p, c, m, cpu[p].hdr, Idle)
        /\ UNCHANGED <<BACKENDS, GATEWAY_INDEXES>>

-----------------------------------------------------------------------------
\* handle_icmp_egress: an unreachable message to UDP client c is given the VIP
\* as source, and as the inner header's destination.

IcmpEgress(p, c) ==
    /\ At(p, "idle")
    /\ LB_CONNECTIONS[c] # None
    /\ Goto(p, [Idle EXCEPT !.pc = "icmp_remove", !.client = c])
    /\ UNCHANGED mapVars

\* The handler returns early when the inner header is out of bounds.
IcmpRemove(p) ==
    /\ At(p, "icmp_remove")
    /\ \/ RemoveConn(p, cpu[p].client, Idle)
       \/ Return(p) /\ UNCHANGED LB_CONNECTIONS
    /\ UNCHANGED <<BACKENDS, GATEWAY_INDEXES>>

-----------------------------------------------------------------------------
tc_ingress(p) ==
    \/ \E c \in TcpClients, k \in Vips, hdr \in Headers : TcpIngress(p, c, k, hdr)
    \/ TcpLookupBackends(p)
    \/ TcpLookupIndex(p)
    \/ TcpAdvanceIndex(p)
    \/ TcpRst(p)
    \/ TcpUpdateConns(p)
    \/ TcpRecordConn(p)
    \/ \E c \in UdpClients, k \in Vips : UdpIngress(p, c, k)
    \/ UdpLookupIndex(p)
    \/ UdpTrack(p)
    \/ UdpAdvanceIndex(p)

tc_egress(p) ==
    \/ \E c \in TcpClients, hdr \in Headers : TcpEgress(p, c, hdr)
    \/ EgressRst(p)
    \/ EgressUpdateConns(p)
    \/ \E c \in UdpClients : IcmpEgress(p, c)
    \/ IcmpRemove(p)

EbpfNext == \E p \in Cpus : tc_ingress(p) \/ tc_egress(p)
=============================================================================
