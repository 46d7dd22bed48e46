-------------------------- MODULE DataplaneProofs ---------------------------
(***************************************************************************)
(* Proofs, for every value of the constants, of the invariants that hold   *)
(* of Dataplane however programs and calls interleave.                     *)
(*                                                                         *)
(* The properties are not inductive: what a program writes into a map was  *)
(* read some steps earlier, so the inductive invariant IInv also says what *)
(* the locals of a program hold at each of its steps.  Its parts take the  *)
(* values they are about as arguments, so that a step is proved by showing *)
(* each changed value good.                                                *)
(*                                                                         *)
(* The last part is about the behaviours where packets and calls do not    *)
(* overlap; AInv says how the maps fit together there.                     *)
(***************************************************************************)
EXTENDS Dataplane, TLAPS

\* A list that only update calls filled, as far as its length goes.
GoodList(list, conf) ==
    /\ list \in BackendList
    /\ \A i \in 0 .. ArrayCapacity - 1 : i < list.backends_len => list.backends[i] \in conf

GoodMapping(m, conf) ==
    /\ m \in LoadBalancerMapping
    /\ m.backend \in conf

OpenMapping(m, conf) ==
    GoodMapping(m, conf) /\ m.tcp_state \in TCPState \ {"Closed"}

UdpMapping(m, conf) ==
    GoodMapping(m, conf) /\ m.tcp_state = None

ClientMapping(c, m, conf) ==
    /\ c \in TcpClients => OpenMapping(m, conf)
    /\ c \in UdpClients => UdpMapping(m, conf)

GoodBackends(map, conf) ==
    /\ map \in [Vips -> BackendList \cup {None}]
    /\ \A k \in Vips : map[k] # None => GoodList(map[k], conf)

GoodIndexes(map) ==
    /\ map \in [Vips -> Nat \cup {None}]
    /\ \A k \in Vips : map[k] # None => map[k] \in Nat /\ map[k] < ArrayCapacity

GoodConns(map, conf) ==
    /\ map \in [ClientKey -> LoadBalancerMapping \cup {None}]
    /\ \A c \in ClientKey : map[c] # None => ClientMapping(c, map[c], conf)

\* What each step of a program relies on having in its locals.
GoodLocals(l, conf) ==
    /\ l \in Locals
    /\ l.lb_mapping # None => GoodMapping(l.lb_mapping, conf)
    /\ l.pc \in {"tcp_backends", "tcp_index", "tcp_advance", "tcp_rst", "tcp_update", "tcp_record",
                 "egress_rst", "egress_update"} => l.client \in TcpClients
    /\ l.pc \in {"udp_index", "udp_track", "udp_advance", "icmp_remove"} => l.client \in UdpClients
    /\ l.pc \in {"tcp_backends", "tcp_index", "tcp_advance", "udp_index", "udp_track",
                 "udp_advance"} => l.vip \in Vips
    /\ l.pc \in {"tcp_index", "tcp_advance", "udp_index", "udp_track", "udp_advance"} =>
          GoodList(l.list, conf)
    /\ l.pc \in {"tcp_advance", "udp_track", "udp_advance"} => l.idx \in Nat
    /\ l.pc \in {"tcp_advance", "tcp_rst", "tcp_update", "tcp_record"} =>
          OpenMapping(l.lb_mapping, conf)
    /\ l.new_conn /\ l.pc \in {"tcp_advance", "tcp_rst", "tcp_update"} =>
          l.lb_mapping.tcp_state = "Established"
    /\ l.pc \in {"udp_track", "udp_advance"} => UdpMapping(l.lb_mapping, conf)
    /\ l.pc \in {"egress_rst", "egress_update"} => GoodMapping(l.lb_mapping, conf)
    /\ l.pc \in {"tcp_backends", "tcp_index"} => l.new_conn

GoodCpus(programs, conf) ==
    /\ programs = [p \in Cpus |-> programs[p]]
    /\ \A p \in Cpus : GoodLocals(programs[p], conf)

GoodCall(call) ==
    /\ call \in Calls
    /\ call.pc \notin {"idle", "answer"} => call.key \in Vips
    /\ call.pc = "insert" => /\ call.list \in BackendList
                             /\ \A i \in 0 .. ArrayCapacity - 1 :
                                   i < call.list.backends_len => call.list.backends[i] \in Backends

GoodCalls(calls) ==
    /\ calls = [r \in Rpcs |-> calls[r]]
    /\ \A r \in Rpcs : GoodCall(calls[r])

GoodConf(conf) == conf \subseteq Backends

IInv ==
    /\ GoodConf(configured)
    /\ GoodBackends(BACKENDS, configured)
    /\ GoodIndexes(GATEWAY_INDEXES)
    /\ GoodConns(LB_CONNECTIONS, configured)
    /\ GoodCpus(cpu, configured)
    /\ GoodCalls(rpc)
    /\ lock \in [Mutexes -> Rpcs \cup {None}]
    /\ LockOrder
    /\ NotListedWhileDeleting

-----------------------------------------------------------------------------
\* An idle CPU's locals are good.
LEMMA IdleGood ==
    ASSUME NEW conf
    PROVE  GoodLocals(Idle, conf)
BY DEF GoodLocals, Idle, Locals, Program, GoodMapping, LoadBalancerMapping

\* A program that goes on with good locals leaves all CPUs good.
LEMMA GotoGood ==
    ASSUME NEW conf, NEW p \in Cpus, NEW l,
           GoodCpus(cpu, conf), GoodLocals(l, conf), Goto(p, l)
    PROVE  GoodCpus(cpu', conf)
BY DEF GoodCpus, Goto

\* A handler that returns leaves all CPUs good.
LEMMA ReturnGood ==
    ASSUME NEW conf, NEW p \in Cpus, GoodCpus(cpu, conf), Return(p)
    PROVE  GoodCpus(cpu', conf)
BY IdleGood, GotoGood DEF Return

\* The state after a packet is one of the states, and Established only moves to
\* FinWait1.
LEMMA TransitionGood ==
    ASSUME NEW hdr, NEW state \in TCPState
    PROVE  /\ process_tcp_state_transition(hdr, state) \in TCPState
           /\ state = "Established" =>
                process_tcp_state_transition(hdr, state) \in {"Established", "FinWait1"}
BY DEF process_tcp_state_transition, TCPState

\* Advancing a good mapping gives a good mapping, of the same backend and VIP.
LEMMA AdvancedGood ==
    ASSUME NEW conf, NEW hdr, NEW m, GoodMapping(m, conf)
    PROVE  /\ GoodMapping(Advanced(m, hdr), conf)
           /\ m.tcp_state = None => Advanced(m, hdr) = m
           /\ m.tcp_state # None => Advanced(m, hdr).tcp_state \in TCPState
           /\ m.tcp_state = "Established" =>
                Advanced(m, hdr).tcp_state \in {"Established", "FinWait1"}
<1> USE MapsAssumption
<1>1. CASE m.tcp_state = None
  BY <1>1 DEF Advanced, TCPState
<1>2. CASE m.tcp_state # None
  <2>1. m.tcp_state \in TCPState
    BY <1>2 DEF GoodMapping, LoadBalancerMapping
  <2>2. DEFINE s == process_tcp_state_transition(hdr, m.tcp_state)
  <2>3. /\ s \in TCPState
        /\ m.tcp_state = "Established" => s \in {"Established", "FinWait1"}
    BY <2>1, TransitionGood
  <2> HIDE DEF s
  <2>4. Advanced(m, hdr) = [m EXCEPT !.tcp_state = s]
    BY <1>2 DEF Advanced, s
  <2> QED
    BY <1>2, <2>3, <2>4 DEF GoodMapping, LoadBalancerMapping
<1> QED
  BY <1>1, <1>2

\* Inserting a mapping that suits its client, and going on with good locals.
LEMMA InsertConnGood ==
    ASSUME NEW conf, NEW p \in Cpus, NEW c \in ClientKey, NEW m, NEW l,
           GoodConns(LB_CONNECTIONS, conf), GoodCpus(cpu, conf), GoodLocals(l, conf),
           ClientMapping(c, m, conf),
           InsertConn(p, c, m, l)
    PROVE  GoodConns(LB_CONNECTIONS', conf) /\ GoodCpus(cpu', conf)
<1>1. m \in LoadBalancerMapping
  BY DEF ClientMapping, OpenMapping, UdpMapping, GoodMapping, ClientKey
<1>2. CASE LB_CONNECTIONS' = Insert(LB_CONNECTIONS, c, m) /\ Goto(p, l)
  <2>1. GoodConns(LB_CONNECTIONS', conf)
    BY <1>1, <1>2 DEF GoodConns, Insert
  <2> QED
    BY <1>2, <2>1, GotoGood
<1>3. CASE Return(p) /\ UNCHANGED LB_CONNECTIONS
  BY <1>3, ReturnGood
<1> QED
  BY <1>2, <1>3 DEF InsertConn

\* Removing a connection, and going on with good locals.
LEMMA RemoveConnGood ==
    ASSUME NEW conf, NEW p \in Cpus, NEW c \in ClientKey, NEW l,
           GoodConns(LB_CONNECTIONS, conf), GoodCpus(cpu, conf), GoodLocals(l, conf),
           RemoveConn(p, c, l)
    PROVE  GoodConns(LB_CONNECTIONS', conf) /\ GoodCpus(cpu', conf)
<1>1. CASE LB_CONNECTIONS' = Remove(LB_CONNECTIONS, c) /\ Goto(p, l)
  <2>1. GoodConns(LB_CONNECTIONS', conf)
    BY <1>1 DEF GoodConns, Remove
  <2> QED
    BY <1>1, <2>1, GotoGood
<1>2. CASE Return(p) /\ UNCHANGED LB_CONNECTIONS
  BY <1>2, ReturnGood
<1> QED
  BY <1>1, <1>2 DEF RemoveConn

\* update_tcp_conns stores only open states, and only for mappings with a state.
LEMMA UpdateTcpConnsGood ==
    ASSUME NEW conf, NEW p \in Cpus, NEW c \in TcpClients, NEW m, NEW hdr, NEW l,
           GoodConns(LB_CONNECTIONS, conf), GoodCpus(cpu, conf), GoodLocals(l, conf),
           GoodMapping(m, conf),
           update_tcp_conns(p, c, m, hdr, l)
    PROVE  GoodConns(LB_CONNECTIONS', conf) /\ GoodCpus(cpu', conf)
<1> DEFINE next == Advanced(m, hdr)
<1>1. /\ GoodMapping(next, conf)
      /\ m.tcp_state = None => next = m
      /\ m.tcp_state # None => next.tcp_state \in TCPState
  BY AdvancedGood
<1>2. c \in ClientKey /\ c \notin UdpClients
  BY MapsAssumption DEF ClientKey
<1>3. \/ next.tcp_state = "Closed" /\ RemoveConn(p, c, l)
      \/ next.tcp_state # "Closed" /\ next # m /\ InsertConn(p, c, next, l)
      \/ Goto(p, l) /\ UNCHANGED LB_CONNECTIONS
  BY DEF update_tcp_conns
<1> HIDE DEF next
<1>4. CASE RemoveConn(p, c, l)
  BY <1>2, <1>4, RemoveConnGood
<1>5. CASE next.tcp_state # "Closed" /\ next # m /\ InsertConn(p, c, next, l)
  <2>1. ClientMapping(c, next, conf)
    BY <1>1, <1>2, <1>5 DEF ClientMapping, OpenMapping
  <2> QED
    BY <1>2, <1>5, <2>1, InsertConnGood
<1>6. CASE Goto(p, l) /\ UNCHANGED LB_CONNECTIONS
  BY <1>6, GotoGood
<1> QED
  BY <1>3, <1>4, <1>5, <1>6

-----------------------------------------------------------------------------
\* The steps of the packet programs.  They change neither BACKENDS nor, but for
\* the index, anything but LB_CONNECTIONS and the CPU's locals.

\* The next index lies inside the array.
LEMMA NextIndexGood ==
    ASSUME NEW list \in BackendList, NEW idx \in Nat
    PROVE  NextIndex(list, idx) \in Nat /\ NextIndex(list, idx) < ArrayCapacity
BY MapsAssumption DEF NextIndex, BackendList

\* A selectable position holds a backend that was configured.
LEMMA SelectedGood ==
    ASSUME NEW conf, NEW list, NEW idx \in Nat \cup {None},
           GoodList(list, conf), Selectable(list, idx)
    PROVE  /\ idx \in Nat
           /\ Selected(list, idx) \in Backends \cup {ZeroBackend}
           /\ Selected(list, idx) \in conf
BY MapsAssumption DEF Selectable, Selected, GoodList, BackendList

\* Moving an index to a position inside the array.
LEMMA InsertIndexGood ==
    ASSUME NEW k \in Vips, NEW i \in Nat, i < ArrayCapacity, GoodIndexes(GATEWAY_INDEXES)
    PROVE  GoodIndexes(Insert(GATEWAY_INDEXES, k, i))
BY DEF GoodIndexes, Insert

\* What a stale pointer into BACKENDS reads is a good list.
LEMMA DerefListGood ==
    ASSUME NEW conf, NEW k \in Vips, NEW list, NEW v,
           GoodBackends(BACKENDS, conf), GoodList(v, conf), list \in Deref(BACKENDS, k, v)
    PROVE  GoodList(list, conf)
BY DEF Deref, Keys, GoodBackends

\* What a stale pointer into LB_CONNECTIONS reads is a good mapping.
LEMMA DerefConnGood ==
    ASSUME NEW conf, NEW c \in ClientKey, NEW m, NEW v,
           GoodConns(LB_CONNECTIONS, conf), GoodMapping(v, conf),
           m \in Deref(LB_CONNECTIONS, c, v)
    PROVE  GoodMapping(m, conf)
BY DEF Deref, Keys, GoodConns, ClientMapping, OpenMapping, UdpMapping, ClientKey

\* Each step of the TCP ingress handler preserves the invariant's parts.
LEMMA TcpIngressStep ==
    ASSUME IInv, NEW p \in Cpus,
           \/ \E c \in TcpClients, k \in Vips, hdr \in Headers : TcpIngress(p, c, k, hdr)
           \/ TcpLookupBackends(p) \/ TcpLookupIndex(p) \/ TcpAdvanceIndex(p)
           \/ TcpRst(p) \/ TcpUpdateConns(p) \/ TcpRecordConn(p)
    PROVE  /\ UNCHANGED BACKENDS
           /\ GoodIndexes(GATEWAY_INDEXES')
           /\ GoodConns(LB_CONNECTIONS', configured)
           /\ GoodCpus(cpu', configured)
<1> USE DEF IInv
<1> DEFINE l == cpu[p]
<1>0. GoodLocals(l, configured)
  BY DEF GoodCpus
<1>1. CASE \E c \in TcpClients, k \in Vips, hdr \in Headers : TcpIngress(p, c, k, hdr)
  <2>1. PICK c \in TcpClients, k \in Vips, hdr \in Headers : TcpIngress(p, c, k, hdr)
    BY <1>1
  <2> DEFINE m == LB_CONNECTIONS[c]
             packet == [Idle EXCEPT !.client = c, !.vip = k, !.hdr = hdr]
             tracked == [packet EXCEPT !.pc = Chosen(hdr), !.lb_mapping = m]
             new == [packet EXCEPT !.pc = "tcp_backends", !.new_conn = TRUE]
  <2>2. c \in ClientKey /\ hdr \in SUBSET Flags
    BY EbpfAssumption DEF ClientKey
  <2>3. CASE m # None /\ Goto(p, tracked)
    <3>1. OpenMapping(m, configured)
      BY <2>2, <2>3 DEF GoodConns, ClientMapping
    <3>2. GoodLocals(tracked, configured)
      BY <2>2, <3>1, Zenon
      DEF GoodLocals, Locals, Idle, Program, Chosen, OpenMapping, GoodMapping
    <3> QED
      BY <2>1, <2>3, <3>2, GotoGood, Zenon DEF TcpIngress, mapVars
  <2>4. CASE Goto(p, new)
    <3>1. GoodLocals(new, configured)
      BY <2>2, Zenon DEF GoodLocals, Locals, Idle, Program
    <3> QED
      BY <2>1, <2>4, <3>1, GotoGood, Zenon DEF TcpIngress, mapVars
  <2> QED
    BY <2>1, <2>3, <2>4, Zenon DEF TcpIngress
<1>2. CASE TcpLookupBackends(p)
  <2> DEFINE list == BACKENDS[l.vip]
             found == [l EXCEPT !.pc = "tcp_index", !.list = list]
  <2>1. CASE Return(p)
    BY <1>2, <2>1, ReturnGood DEF TcpLookupBackends, mapVars
  <2>2. CASE list # None /\ Goto(p, found)
    <3>1. l.pc = "tcp_backends" /\ l.vip \in Vips
      BY <1>0, <1>2 DEF TcpLookupBackends, At, GoodLocals
    <3>2. GoodList(list, configured)
      BY <2>2, <3>1 DEF GoodBackends
    <3>3. GoodLocals(found, configured)
      BY <1>0, <3>1, <3>2, ZenonT(30) DEF GoodLocals, Locals, Program, GoodList
    <3> QED
      BY <1>2, <2>2, <3>3, GotoGood DEF TcpLookupBackends, mapVars
  <2> QED
    BY <1>2, <2>1, <2>2 DEF TcpLookupBackends
<1>3. CASE TcpLookupIndex(p)
  <2> DEFINE idx == GATEWAY_INDEXES[l.vip]
  <2>0. /\ l.pc = "tcp_index" /\ l.vip \in Vips /\ GoodList(l.list, configured)
        /\ UNCHANGED mapVars
    BY <1>0, <1>3, Zenon DEF TcpLookupIndex, At, GoodLocals
  <2>1. PICK list \in Deref(BACKENDS, l.vip, l.list) :
           \/ Return(p)
           \/ /\ Selectable(list, idx)
              /\ Goto(p, [l EXCEPT !.pc = "tcp_advance", !.list = list, !.idx = idx,
                                   !.lb_mapping = NewMapping(list, idx, l.vip, "Established")])
    BY <1>3, Zenon DEF TcpLookupIndex
  <2>2. CASE Return(p)
    BY <2>0, <2>2, ReturnGood DEF mapVars
  <2> DEFINE m == NewMapping(list, idx, l.vip, "Established")
             found == [l EXCEPT !.pc = "tcp_advance", !.list = list, !.idx = idx, !.lb_mapping = m]
  <2>3. CASE Selectable(list, idx) /\ Goto(p, found)
    <3>1. GoodList(list, configured)
      BY <2>0, <2>1, DerefListGood
    <3>2. idx \in Nat \cup {None}
      BY <2>0 DEF GoodIndexes
    <3>3. /\ idx \in Nat
          /\ OpenMapping(m, configured)
          /\ m.tcp_state = "Established"
      BY <2>0, <2>3, <3>1, <3>2, SelectedGood
      DEF NewMapping, OpenMapping, GoodMapping, LoadBalancerMapping, TCPState
    <3> HIDE DEF m, idx
    <3>4. GoodLocals(found, configured)
      BY <1>0, <2>0, <3>1, <3>3, Zenon
      DEF GoodLocals, Locals, Program, OpenMapping, GoodMapping, GoodList
    <3> QED
      BY <2>0, <2>3, <3>4, GotoGood DEF mapVars
  <2> QED
    BY <2>1, <2>2, <2>3
<1>4. CASE TcpAdvanceIndex(p)
  <2> DEFINE next == NextIndex(l.list, l.idx)
             after == [l EXCEPT !.pc = Chosen(l.hdr), !.list = None, !.idx = None]
  <2>1. CASE Return(p) /\ UNCHANGED GATEWAY_INDEXES
    BY <1>4, <2>1, ReturnGood DEF TcpAdvanceIndex
  <2>2. CASE GATEWAY_INDEXES' = Insert(GATEWAY_INDEXES, l.vip, next) /\ Goto(p, after)
    <3>1. /\ l.pc = "tcp_advance" /\ l.vip \in Vips /\ l.idx \in Nat
          /\ l.list \in BackendList
          /\ OpenMapping(l.lb_mapping, configured)
      BY <1>0, <1>4 DEF TcpAdvanceIndex, At, GoodLocals, GoodList
    <3>2. GoodIndexes(GATEWAY_INDEXES')
      BY <2>2, <3>1, NextIndexGood, InsertIndexGood
    <3>3. GoodLocals(after, configured)
      BY <1>0, <3>1, Zenon DEF GoodLocals, Locals, Program, Chosen
    <3> QED
      BY <1>4, <2>2, <3>2, <3>3, GotoGood DEF TcpAdvanceIndex
  <2> QED
    BY <1>4, <2>1, <2>2 DEF TcpAdvanceIndex
<1>5. CASE TcpRst(p)
  <2> DEFINE after == [l EXCEPT !.pc = "tcp_update"]
  <2>1. l.pc = "tcp_rst" /\ l.client \in ClientKey
    BY <1>0, <1>5 DEF TcpRst, At, GoodLocals, ClientKey
  <2>2. GoodLocals(after, configured)
    BY <1>0, <2>1 DEF GoodLocals, Locals, Program
  <2> QED
    BY <1>5, <2>1, <2>2, RemoveConnGood DEF TcpRst
<1>6. CASE TcpUpdateConns(p)
  <2> DEFINE next == Advanced(l.lb_mapping, l.hdr)
             rewritten == [l EXCEPT !.pc = "tcp_record", !.lb_mapping = next]
  <2>1. PICK after \in IF l.new_conn THEN {rewritten, Idle} ELSE {Idle} :
           update_tcp_conns(p, l.client, l.lb_mapping, l.hdr, after)
    BY <1>6 DEF TcpUpdateConns
  <2>2. /\ l.pc = "tcp_update" /\ l.client \in TcpClients
        /\ GoodMapping(l.lb_mapping, configured)
    BY <1>0, <1>6 DEF TcpUpdateConns, At, GoodLocals, OpenMapping
  <2>3. l.new_conn => OpenMapping(next, configured)
    BY <1>0, <2>2, AdvancedGood DEF GoodLocals, OpenMapping, TCPState
  <2> HIDE DEF next
  <2>4. l.new_conn => GoodLocals(rewritten, configured)
    BY <1>0, <2>2, <2>3, ZenonT(30) DEF GoodLocals, Locals, Program, OpenMapping, GoodMapping
  <2>5. GoodLocals(after, configured)
    BY <2>1, <2>4, IdleGood
  <2> QED
    BY <1>6, <2>1, <2>2, <2>5, UpdateTcpConnsGood DEF TcpUpdateConns
<1>7. CASE TcpRecordConn(p)
  <2>1. l.client \in ClientKey /\ ClientMapping(l.client, l.lb_mapping, configured)
    BY <1>0, <1>7, MapsAssumption DEF TcpRecordConn, At, GoodLocals, ClientKey, ClientMapping
  <2> QED
    BY <1>7, <2>1, IdleGood, InsertConnGood, Zenon DEF TcpRecordConn
<1> QED
  BY <1>1, <1>2, <1>3, <1>4, <1>5, <1>6, <1>7

\* Each step of the UDP ingress handler preserves the invariant's parts.
LEMMA UdpIngressStep ==
    ASSUME IInv, NEW p \in Cpus,
           \/ \E c \in UdpClients, k \in Vips : UdpIngress(p, c, k)
           \/ UdpLookupIndex(p) \/ UdpTrack(p) \/ UdpAdvanceIndex(p)
    PROVE  /\ UNCHANGED BACKENDS
           /\ GoodIndexes(GATEWAY_INDEXES')
           /\ GoodConns(LB_CONNECTIONS', configured)
           /\ GoodCpus(cpu', configured)
<1> USE DEF IInv
<1> DEFINE l == cpu[p]
<1>0. GoodLocals(l, configured)
  BY DEF GoodCpus
<1>1. CASE \E c \in UdpClients, k \in Vips : UdpIngress(p, c, k)
  <2>1. PICK c \in UdpClients, k \in Vips : UdpIngress(p, c, k)
    BY <1>1
  <2> DEFINE list == BACKENDS[k]
             found == [Idle EXCEPT !.pc = "udp_index", !.client = c, !.vip = k, !.list = list]
  <2>2. GoodList(list, configured)
    BY <2>1, Zenon DEF UdpIngress, GoodBackends
  <2>3. GoodLocals(found, configured)
    BY <2>2, ZenonT(30) DEF GoodLocals, Locals, Idle, Program, GoodList, ClientKey
  <2> QED
    BY <2>1, <2>3, GotoGood, Zenon DEF UdpIngress, mapVars
<1>2. CASE UdpLookupIndex(p)
  <2> DEFINE idx == GATEWAY_INDEXES[l.vip]
  <2>0. /\ l.pc = "udp_index" /\ l.vip \in Vips /\ GoodList(l.list, configured)
        /\ UNCHANGED mapVars
    BY <1>0, <1>2, Zenon DEF UdpLookupIndex, At, GoodLocals
  <2>1. PICK list \in Deref(BACKENDS, l.vip, l.list) :
           \/ Return(p)
           \/ /\ Selectable(list, idx)
              /\ Goto(p, [l EXCEPT !.pc = "udp_track", !.idx = idx,
                                   !.lb_mapping = NewMapping(list, idx, l.vip, None)])
    BY <1>2, Zenon DEF UdpLookupIndex
  <2>2. CASE Return(p)
    BY <2>0, <2>2, ReturnGood DEF mapVars
  <2> DEFINE m == NewMapping(list, idx, l.vip, None)
             found == [l EXCEPT !.pc = "udp_track", !.idx = idx, !.lb_mapping = m]
  <2>3. CASE Selectable(list, idx) /\ Goto(p, found)
    <3>1. GoodList(list, configured)
      BY <2>0, <2>1, DerefListGood
    <3>2. idx \in Nat \cup {None}
      BY <2>0 DEF GoodIndexes
    <3>3. /\ idx \in Nat
          /\ UdpMapping(m, configured)
          /\ m.tcp_state = None
      BY <2>0, <2>3, <3>1, <3>2, SelectedGood
      DEF NewMapping, UdpMapping, GoodMapping, LoadBalancerMapping, TCPState
    <3> HIDE DEF m, idx
    <3>4. GoodLocals(found, configured)
      BY <1>0, <2>0, <3>1, <3>3, Zenon
      DEF GoodLocals, Locals, Program, UdpMapping, GoodMapping, GoodList
    <3> QED
      BY <2>0, <2>3, <3>4, GotoGood DEF mapVars
  <2> QED
    BY <2>1, <2>2, <2>3
<1>3. CASE UdpTrack(p)
  <2> DEFINE tracked == [l EXCEPT !.pc = "udp_advance"]
  <2>1. PICK after \in {tracked, Idle} : InsertConn(p, l.client, l.lb_mapping, after)
    BY <1>3 DEF UdpTrack
  <2>2. /\ l.pc = "udp_track"
        /\ l.client \in ClientKey /\ ClientMapping(l.client, l.lb_mapping, configured)
    BY <1>0, <1>3, MapsAssumption DEF UdpTrack, At, GoodLocals, ClientKey, ClientMapping
  <2>3. GoodLocals(tracked, configured)
    BY <1>0, <2>2 DEF GoodLocals, Locals, Program
  <2>4. GoodLocals(after, configured)
    BY <2>1, <2>3, IdleGood, Zenon
  <2> QED
    BY <1>3, <2>1, <2>2, <2>4, InsertConnGood DEF UdpTrack
<1>4. CASE UdpAdvanceIndex(p)
  <2>1. l.vip \in Vips /\ l.idx \in Nat /\ l.list \in BackendList
    BY <1>0, <1>4, Zenon DEF UdpAdvanceIndex, At, GoodLocals, GoodList
  <2>2. \A idx \in Deref(GATEWAY_INDEXES, l.vip, l.idx) : idx \in Nat
    BY <2>1 DEF Deref, Keys, GoodIndexes
  <2>3. \A list \in Deref(BACKENDS, l.vip, l.list) : list \in BackendList
    BY <2>1, Zenon DEF Deref, Keys, GoodBackends
  <2>4. GoodIndexes(GATEWAY_INDEXES')
    BY <1>4, <2>1, <2>2, <2>3, NextIndexGood, InsertIndexGood DEF UdpAdvanceIndex
  <2> QED
    BY <1>4, <2>4, ReturnGood, Zenon DEF UdpAdvanceIndex
<1> QED
  BY <1>1, <1>2, <1>3, <1>4

\* Each step of the egress handlers preserves the invariant's parts.
LEMMA EgressStep ==
    ASSUME IInv, NEW p \in Cpus, tc_egress(p)
    PROVE  /\ UNCHANGED <<BACKENDS, GATEWAY_INDEXES>>
           /\ GoodConns(LB_CONNECTIONS', configured)
           /\ GoodCpus(cpu', configured)
<1> USE DEF IInv
<1> DEFINE l == cpu[p]
<1>0. GoodLocals(l, configured)
  BY DEF GoodCpus
<1>1. CASE \E c \in TcpClients, hdr \in Headers : TcpEgress(p, c, hdr)
  <2>1. PICK c \in TcpClients, hdr \in Headers : TcpEgress(p, c, hdr)
    BY <1>1
  <2> DEFINE m == LB_CONNECTIONS[c]
             pc == IF "RST" \in hdr THEN "egress_rst" ELSE "egress_update"
             found == [Idle EXCEPT !.pc = pc, !.client = c, !.hdr = hdr, !.lb_mapping = m]
  <2>2. c \in ClientKey /\ hdr \in SUBSET Flags
    BY EbpfAssumption DEF ClientKey
  <2>3. GoodMapping(m, configured)
    BY <2>1, <2>2 DEF TcpEgress, GoodConns, ClientMapping, OpenMapping
  <2>4. GoodLocals(found, configured)
    BY <2>2, <2>3, Zenon DEF GoodLocals, Locals, Idle, Program, GoodMapping
  <2> QED
    BY <2>1, <2>4, GotoGood DEF TcpEgress, mapVars
<1>2. CASE EgressRst(p)
  <2> DEFINE after == [l EXCEPT !.pc = "egress_update"]
  <2>1. l.pc = "egress_rst" /\ l.client \in ClientKey
    BY <1>0, <1>2 DEF EgressRst, At, GoodLocals, ClientKey
  <2>2. GoodLocals(after, configured)
    BY <1>0, <2>1 DEF GoodLocals, Locals, Program
  <2> QED
    BY <1>2, <2>1, <2>2, RemoveConnGood DEF EgressRst
<1>3. CASE EgressUpdateConns(p)
  <2>1. l.client \in TcpClients /\ GoodMapping(l.lb_mapping, configured)
    BY <1>0, <1>3 DEF EgressUpdateConns, At, GoodLocals
  <2>2. PICK m \in Deref(LB_CONNECTIONS, l.client, l.lb_mapping) :
           update_tcp_conns(p, l.client, m, l.hdr, Idle)
    BY <1>3 DEF EgressUpdateConns
  <2>3. GoodMapping(m, configured)
    BY <2>1, <2>2, DerefConnGood DEF ClientKey
  <2> QED
    BY <1>3, <2>1, <2>2, <2>3, IdleGood, UpdateTcpConnsGood, Zenon DEF EgressUpdateConns
<1>4. CASE \E c \in UdpClients : IcmpEgress(p, c)
  <2>1. PICK c \in UdpClients : IcmpEgress(p, c)
    BY <1>4
  <2>2. GoodLocals([Idle EXCEPT !.pc = "icmp_remove", !.client = c], configured)
    BY Zenon DEF GoodLocals, Locals, Idle, Program, ClientKey
  <2> QED
    BY <2>1, <2>2, GotoGood DEF IcmpEgress, mapVars
<1>5. CASE IcmpRemove(p)
  <2>1. l.client \in ClientKey
    BY <1>0, <1>5 DEF IcmpRemove, At, GoodLocals, ClientKey
  <2> QED
    BY <1>5, <2>1, IdleGood, RemoveConnGood, ReturnGood, Zenon DEF IcmpRemove
<1> QED
  BY <1>1, <1>2, <1>3, <1>4, <1>5 DEF tc_egress

-----------------------------------------------------------------------------
\* The steps of the API server.  A call changes no program's locals, and lists
\* backends only by adding to the configured ones.

\* What was good for the backends configured so far is good for more of them.
LEMMA MoreConfigured ==
    ASSUME NEW conf, NEW more, conf \subseteq more
    PROVE  /\ \A list : GoodList(list, conf) => GoodList(list, more)
           /\ \A map : GoodBackends(map, conf) => GoodBackends(map, more)
           /\ \A map : GoodConns(map, conf) => GoodConns(map, more)
           /\ \A programs : GoodCpus(programs, conf) => GoodCpus(programs, more)
<1>1. \A list : GoodList(list, conf) => GoodList(list, more)
  BY DEF GoodList
<1>2. \A map : GoodBackends(map, conf) => GoodBackends(map, more)
  BY <1>1 DEF GoodBackends
<1>3. \A m : GoodMapping(m, conf) => GoodMapping(m, more)
  BY DEF GoodMapping, LoadBalancerMapping
<1>4. /\ \A m : OpenMapping(m, conf) => OpenMapping(m, more)
      /\ \A m : UdpMapping(m, conf) => UdpMapping(m, more)
  BY <1>3 DEF OpenMapping, UdpMapping
<1>5. \A map : GoodConns(map, conf) => GoodConns(map, more)
  BY <1>4, Zenon DEF GoodConns, ClientMapping
<1>6. \A l : GoodLocals(l, conf) => GoodLocals(l, more)
  BY <1>1, <1>3, <1>4 DEF GoodLocals
<1>7. \A programs : GoodCpus(programs, conf) => GoodCpus(programs, more)
  BY <1>6 DEF GoodCpus
<1> QED
  BY <1>1, <1>2, <1>5, <1>7

\* The list built from a target list that is not refused.
LEMMA BackendListGood ==
    ASSUME NEW targets \in TargetLists, Refusal(targets) = None
    PROVE  /\ BackendListOf(targets) \in BackendList
           /\ \A i \in 0 .. ArrayCapacity - 1 :
                 i < BackendListOf(targets).backends_len =>
                     BackendListOf(targets).backends[i] \in Backends
<1>1. targets \in Seq(Backends) /\ Len(targets) \in Nat
  BY ApiAssumption
<1>2. Len(targets) <= ArrayCapacity
  <2>1. None # "internal" /\ None # "resource_exhausted"
    BY ApiAssumption, Zenon DEF Answers
  <2> QED
    BY <1>1, <2>1, MapsAssumption DEF Refusal
<1>3. \A i \in 0 .. ArrayCapacity - 1 : i < Len(targets) => targets[i + 1] \in Backends
  BY <1>1, MapsAssumption
<1> QED
  BY <1>1, <1>2, <1>3, MapsAssumption DEF BackendListOf, BackendList

\* The part of the invariant that is about the calls and their locks.
CallsInv ==
    /\ GoodCalls(rpc)
    /\ lock \in [Mutexes -> Rpcs \cup {None}]
    /\ LockOrder
    /\ NotListedWhileDeleting

\* A call that answers has good locals.
LEMMA AnswerGood ==
    ASSUME NEW r \in Rpcs, NEW answer \in Answers, GoodCalls(rpc), Answer(r, answer)
    PROVE  /\ GoodCalls(rpc')
           /\ rpc'[r].pc = "answer"
           /\ \A s \in Rpcs \ {r} : rpc'[s] = rpc[s]
<1> DEFINE call == [NoCall EXCEPT !.pc = "answer", !.key = rpc[r].key,
                                  !.removed = rpc[r].removed, !.answer = answer]
<1>1. rpc[r] \in Calls
  BY DEF GoodCalls, GoodCall
<1>2. GoodCall(call) /\ call.pc = "answer"
  BY <1>1, Zenon DEF GoodCall, Calls, NoCall
<1>3. rpc' = [rpc EXCEPT ![r] = call]
  BY DEF Answer
<1> HIDE DEF call
<1> QED
  BY <1>2, <1>3 DEF GoodCalls

\* The steps at which a delete owns a lock.
Deleting == {"remove_index", "collect", "sweep"}

\* A call that neither held a lock nor takes one keeps the lock invariants.
LEMMA LocksKept ==
    ASSUME NEW r \in Rpcs, LockOrder, NotListedWhileDeleting,
           rpc[r].pc \notin Deleting, rpc'[r].pc \notin Deleting,
           \A s \in Rpcs \ {r} : rpc'[s] = rpc[s],
           UNCHANGED <<lock, BACKENDS>>
    PROVE  LockOrder' /\ NotListedWhileDeleting'
<1>1. \A s \in Rpcs : s # r => rpc'[s].pc = rpc[s].pc /\ rpc'[s].key = rpc[s].key
  OBVIOUS
<1>2. LockOrder'
  BY <1>1 DEF LockOrder, Deleting
<1>3. NotListedWhileDeleting'
  BY <1>1 DEF NotListedWhileDeleting, Deleting
<1> QED
  BY <1>2, <1>3

\* A call that drops its guards and leaves keeps the lock invariants.
LEMMA LocksReleased ==
    ASSUME NEW r \in Rpcs, LockOrder, NotListedWhileDeleting,
           lock \in [Mutexes -> Rpcs \cup {None}], Unlock(r),
           rpc'[r].pc \notin Deleting,
           \A s \in Rpcs \ {r} : rpc'[s] = rpc[s],
           UNCHANGED BACKENDS
    PROVE  /\ lock' \in [Mutexes -> Rpcs \cup {None}]
           /\ LockOrder' /\ NotListedWhileDeleting'
<1>1. \A s \in Rpcs : s # r => rpc'[s].pc = rpc[s].pc /\ rpc'[s].key = rpc[s].key
  OBVIOUS
<1>2. lock' \in [Mutexes -> Rpcs \cup {None}]
  BY DEF Unlock
<1>3. \A m \in Mutexes : /\ lock'[m] # r
                         /\ \A s \in Rpcs : s # r => (lock'[m] = s <=> lock[m] = s)
  BY ApiAssumption DEF Unlock
<1>4. LockOrder'
  BY <1>1, <1>3 DEF LockOrder, Deleting, Mutexes
<1>5. NotListedWhileDeleting'
  BY <1>1 DEF NotListedWhileDeleting, Deleting
<1> QED
  BY <1>2, <1>4, <1>5

\* A call that takes the free lock m on entering the phase it guards.
LEMMA LockAcquired ==
    ASSUME NEW r \in Rpcs, LockOrder,
           lock \in [Mutexes -> Rpcs \cup {None}],
           NEW m \in Mutexes, Acquire(r, m),
           \A s \in Rpcs \ {r} : rpc'[s] = rpc[s],
           \/ /\ m = "backends_map"
              /\ rpc[r].pc = "remove_backends" /\ rpc'[r].pc = "remove_index"
           \/ /\ m = "gateway_indexes_map"
              /\ rpc[r].pc = "remove_index" /\ rpc'[r].pc = "collect"
           \/ /\ m = "tcp_conns_map"
              /\ rpc[r].pc = "collect" /\ rpc'[r].pc = "sweep"
    PROVE  lock' \in [Mutexes -> Rpcs \cup {None}] /\ LockOrder'
<1>1. \A s \in Rpcs : s # r => rpc'[s].pc = rpc[s].pc
  OBVIOUS
<1>2. lock' \in [Mutexes -> Rpcs \cup {None}]
  BY DEF Acquire
<1>3. /\ lock[m] = None /\ lock'[m] = r
      /\ \A n \in Mutexes \ {m} : lock'[n] = lock[n]
      /\ \A s \in Rpcs : s # None
  BY ApiAssumption DEF Acquire
<1>4. SUFFICES ASSUME NEW s \in Rpcs
               PROVE  /\ lock'["backends_map"] = s <=>
                            rpc'[s].pc \in {"remove_index", "collect", "sweep"}
                      /\ lock'["gateway_indexes_map"] = s <=>
                            rpc'[s].pc \in {"collect", "sweep"}
                      /\ lock'["tcp_conns_map"] = s <=> rpc'[s].pc = "sweep"
  BY <1>2 DEF LockOrder
<1>5. /\ lock["backends_map"] = s <=> rpc[s].pc \in {"remove_index", "collect", "sweep"}
      /\ lock["gateway_indexes_map"] = s <=> rpc[s].pc \in {"collect", "sweep"}
      /\ lock["tcp_conns_map"] = s <=> rpc[s].pc = "sweep"
      /\ lock["backends_map"] = r <=> rpc[r].pc \in {"remove_index", "collect", "sweep"}
      /\ lock["gateway_indexes_map"] = r <=> rpc[r].pc \in {"collect", "sweep"}
      /\ lock["tcp_conns_map"] = r <=> rpc[r].pc = "sweep"
  BY DEF LockOrder
<1>6. CASE m = "backends_map"
  <2>1. /\ lock'["gateway_indexes_map"] = lock["gateway_indexes_map"]
        /\ lock'["tcp_conns_map"] = lock["tcp_conns_map"]
        /\ lock["backends_map"] = None /\ lock'["backends_map"] = r
    BY <1>3, <1>6 DEF Mutexes
  <2> QED
    BY <1>1, <1>3, <1>5, <1>6, <2>1
<1>7. CASE m = "gateway_indexes_map"
  <2>1. /\ lock'["backends_map"] = lock["backends_map"]
        /\ lock'["tcp_conns_map"] = lock["tcp_conns_map"]
        /\ lock["gateway_indexes_map"] = None /\ lock'["gateway_indexes_map"] = r
    BY <1>3, <1>7 DEF Mutexes
  <2> QED
    BY <1>1, <1>3, <1>5, <1>7, <2>1
<1>8. CASE m = "tcp_conns_map"
  <2>1. /\ lock'["backends_map"] = lock["backends_map"]
        /\ lock'["gateway_indexes_map"] = lock["gateway_indexes_map"]
        /\ lock["tcp_conns_map"] = None /\ lock'["tcp_conns_map"] = r
    BY <1>3, <1>8 DEF Mutexes
  <2> QED
    BY <1>1, <1>3, <1>5, <1>8, <2>1
<1> QED
  BY <1>6, <1>7, <1>8 DEF Mutexes

\* Each step of a call keeps the calls' part of the invariant.
LEMMA CallsStep ==
    ASSUME IInv, NEW r \in Rpcs, ApiStep(r)
    PROVE  CallsInv'
<1> USE DEF IInv
<1>0. /\ rpc[r] \in Calls
      /\ rpc[r].pc \notin {"idle", "answer"} => rpc[r].key \in Vips
      /\ GoodCall(NoCall) /\ NoCall.pc = "idle"
  BY DEF GoodCalls, GoodCall, NoCall, Calls
<1>a. ASSUME NEW call, GoodCall(call), rpc' = [rpc EXCEPT ![r] = call]
      PROVE  GoodCalls(rpc') /\ rpc'[r] = call /\ \A s \in Rpcs \ {r} : rpc'[s] = rpc[s]
  BY <1>a DEF GoodCalls
\* Answering, without and with locks held.
<1>b. ASSUME NEW answer \in Answers, Answer(r, answer), rpc[r].pc \notin Deleting,
             UNCHANGED <<lock, BACKENDS>>
      PROVE  CallsInv'
  <2>1. /\ GoodCalls(rpc') /\ rpc'[r].pc = "answer"
        /\ \A s \in Rpcs \ {r} : rpc'[s] = rpc[s]
    BY <1>b, AnswerGood
  <2>2. LockOrder' /\ NotListedWhileDeleting'
    BY <1>b, <2>1, LocksKept DEF Deleting
  <2> QED
    BY <1>b, <2>1, <2>2, Zenon DEF CallsInv
<1>c. ASSUME NEW answer \in Answers, Answer(r, answer), Unlock(r), UNCHANGED BACKENDS
      PROVE  CallsInv'
  <2>1. /\ GoodCalls(rpc') /\ rpc'[r].pc = "answer"
        /\ \A s \in Rpcs \ {r} : rpc'[s] = rpc[s]
    BY <1>c, AnswerGood
  <2>2. /\ lock' \in [Mutexes -> Rpcs \cup {None}]
        /\ LockOrder' /\ NotListedWhileDeleting'
    BY <1>c, <2>1, LocksReleased DEF Deleting
  <2> QED
    BY <2>1, <2>2 DEF CallsInv
\* Starting or ending a call without locks.
<1>d. ASSUME NEW call, GoodCall(call), rpc' = [rpc EXCEPT ![r] = call],
             rpc[r].pc \notin Deleting, call.pc \notin Deleting, UNCHANGED <<lock, BACKENDS>>
      PROVE  CallsInv'
  <2>1. GoodCalls(rpc') /\ rpc'[r] = call /\ \A s \in Rpcs \ {r} : rpc'[s] = rpc[s]
    BY <1>a, <1>d, Zenon
  <2>2. LockOrder' /\ NotListedWhileDeleting'
    BY <1>d, <2>1, LocksKept
  <2> QED
    BY <1>d, <2>1, <2>2 DEF CallsInv
<1>1. ASSUME NEW k \in Vips \cup {None}, NEW targets \in TargetLists, update(r, k, targets)
      PROVE  CallsInv'
  <2>0. rpc[r].pc \notin Deleting /\ UNCHANGED <<lock, BACKENDS>>
    BY <1>1 DEF update, In, Deleting, mapVars
  <2>1. CASE Answer(r, "invalid_argument")
    BY <1>b, <2>0, <2>1, Zenon DEF Answers
  <2>2. CASE Refusal(targets) # None /\ Answer(r, Refusal(targets))
    <3>1. Refusal(targets) \in Answers
      BY <2>2, Zenon DEF Refusal, Answers
    <3> QED
      BY <1>b, <2>0, <2>2, <3>1
  <2>3. CASE /\ k # None /\ Refusal(targets) = None
             /\ rpc' = [rpc EXCEPT ![r] = [NoCall EXCEPT !.pc = "insert", !.key = k,
                                                         !.list = BackendListOf(targets)]]
    <3> DEFINE list == BackendListOf(targets)
               call == [NoCall EXCEPT !.pc = "insert", !.key = k, !.list = list]
    <3>1. /\ list \in BackendList
          /\ \A i \in 0 .. ArrayCapacity - 1 :
                i < list.backends_len => list.backends[i] \in Backends
      BY <2>3, BackendListGood
    <3>2. rpc' = [rpc EXCEPT ![r] = call]
      BY <2>3
    <3> HIDE DEF list
    <3>3. GoodCall(call) /\ call.pc \notin Deleting
      BY <2>3, <3>1, Zenon DEF GoodCall, Calls, NoCall, Deleting
    <3> HIDE DEF call
    <3> QED
      BY <1>d, <2>0, <3>2, <3>3, Zenon
  <2> QED
    BY <1>1, <2>1, <2>2, <2>3 DEF update
<1>2. CASE UpdateInsert(r)
  <2>0. rpc[r].pc = "insert" /\ UNCHANGED lock
    BY <1>2 DEF UpdateInsert, In
  <2>1. CASE Answer(r, "internal") /\ UNCHANGED BACKENDS
    BY <1>b, <2>0, <2>1 DEF Answers, Deleting
  <2>2. CASE /\ BACKENDS' = Insert(BACKENDS, rpc[r].key, rpc[r].list)
             /\ rpc' = [rpc EXCEPT ![r].pc = "reset_index", ![r].list = None]
    <3> DEFINE call == [rpc[r] EXCEPT !.pc = "reset_index", !.list = None]
    <3>1. GoodCall(call) /\ call.pc = "reset_index"
      BY <1>0, <2>0, Zenon DEF GoodCall, Calls
    <3>2. rpc' = [rpc EXCEPT ![r] = call]
      BY <2>2, Zenon
    <3> HIDE DEF call
    <3>3. GoodCalls(rpc') /\ rpc'[r] = call /\ \A s \in Rpcs \ {r} : rpc'[s] = rpc[s]
      BY <1>a, <3>1, <3>2, Zenon
    <3>4. \A s \in Rpcs : rpc'[s].pc \notin Deleting /\ (s # r => rpc[s].pc \notin Deleting)
      BY <1>2, <2>0, <3>1, <3>3, ApiAssumption DEF UpdateInsert, LockOrder, Deleting
    <3>5. NotListedWhileDeleting'
      BY <3>4 DEF NotListedWhileDeleting, Deleting
    <3>6. LockOrder'
      BY <2>0, <3>1, <3>3, <3>4 DEF LockOrder, Deleting
    <3> QED
      BY <2>0, <3>3, <3>5, <3>6 DEF CallsInv
  <2> QED
    BY <1>2, <2>1, <2>2 DEF UpdateInsert
<1>3. CASE UpdateResetIndex(r)
  <2>1. rpc[r].pc \notin Deleting /\ UNCHANGED <<lock, BACKENDS>>
    BY <1>3 DEF UpdateResetIndex, In, Deleting
  <2>2. Answer(r, "updated") \/ Answer(r, "internal")
    BY <1>3 DEF UpdateResetIndex
  <2> QED
    BY <1>b, <2>1, <2>2, Zenon DEF Answers
<1>4. ASSUME NEW k \in Vips, delete(r, k)
      PROVE  CallsInv'
  <2> DEFINE call == [NoCall EXCEPT !.pc = "remove_backends", !.key = k]
  <2>1. GoodCall(call) /\ call.pc \notin Deleting
    BY Zenon DEF GoodCall, Calls, NoCall, Deleting
  <2>2. /\ rpc' = [rpc EXCEPT ![r] = call]
        /\ rpc[r].pc \notin Deleting /\ UNCHANGED <<lock, BACKENDS>>
    BY <1>4 DEF delete, In, Deleting, mapVars
  <2> HIDE DEF call
  <2> QED
    BY <1>d, <2>1, <2>2, Zenon
<1>5. CASE DeleteBackends(r)
  <2>0. rpc[r].pc = "remove_backends"
    BY <1>5, Zenon DEF DeleteBackends, In
  <2>1. CASE AnswerError(r) /\ UNCHANGED <<BACKENDS, lock>>
    BY <1>b, <2>0, <2>1, Zenon DEF AnswerError, Answers, Deleting
  <2>2. CASE /\ Acquire(r, "backends_map")
             /\ BACKENDS' = Remove(BACKENDS, rpc[r].key)
             /\ rpc' = [rpc EXCEPT ![r].pc = "remove_index", ![r].removed = TRUE]
    <3> DEFINE call == [rpc[r] EXCEPT !.pc = "remove_index", !.removed = TRUE]
    <3>1. /\ GoodCall(call) /\ call.pc = "remove_index"
          /\ call.key = rpc[r].key /\ call.key \in Vips
      BY <1>0, <2>0, Zenon DEF GoodCall, Calls
    <3>2. rpc' = [rpc EXCEPT ![r] = call]
      BY <2>2, Zenon
    <3> HIDE DEF call
    <3>3. GoodCalls(rpc') /\ rpc'[r] = call /\ \A s \in Rpcs \ {r} : rpc'[s] = rpc[s]
      BY <1>a, <3>1, <3>2, Zenon
    <3>4. lock' \in [Mutexes -> Rpcs \cup {None}] /\ LockOrder'
      BY <2>0, <2>2, <3>1, <3>3, LockAcquired, Zenon DEF Mutexes
    <3>5. \A s \in Rpcs : s # r => rpc[s].pc \notin Deleting
      BY <2>2, ApiAssumption DEF Acquire, LockOrder, Deleting
    <3>6. BACKENDS'[rpc[r].key] = None
      BY <2>2, <3>1, Zenon DEF GoodBackends, Remove
    <3>7. NotListedWhileDeleting'
      BY <3>1, <3>3, <3>5, <3>6 DEF NotListedWhileDeleting, Deleting
    <3> QED
      BY <3>3, <3>4, <3>7 DEF CallsInv
  <2> QED
    BY <1>5, <2>1, <2>2, Zenon DEF DeleteBackends
\* The steps of a delete that owns the lock of BACKENDS.
<1>e. ASSUME NEW call, GoodCall(call), rpc' = [rpc EXCEPT ![r] = call],
             rpc[r].pc \in Deleting, call.pc \in Deleting, call.key = rpc[r].key,
             lock' \in [Mutexes -> Rpcs \cup {None}], LockOrder', UNCHANGED BACKENDS
      PROVE  CallsInv'
  <2>1. GoodCalls(rpc') /\ rpc'[r] = call /\ \A s \in Rpcs \ {r} : rpc'[s] = rpc[s]
    BY <1>a, <1>e, Zenon
  <2>2. \A s \in Rpcs : rpc'[s].key = rpc[s].key /\
                        (rpc'[s].pc \in Deleting => rpc[s].pc \in Deleting)
    BY <1>e, <2>1, Zenon
  <2>3. NotListedWhileDeleting'
    BY <1>e, <2>2 DEF NotListedWhileDeleting, Deleting
  <2> QED
    BY <1>e, <2>1, <2>3 DEF CallsInv
<1>6. CASE DeleteIndex(r)
  <2>0. rpc[r].pc = "remove_index" /\ UNCHANGED BACKENDS
    BY <1>6, Zenon DEF DeleteIndex, In
  <2>1. CASE AnswerError(r) /\ Unlock(r)
    BY <1>c, <2>0, <2>1, Zenon DEF AnswerError, Answers
  <2>2. CASE /\ Acquire(r, "gateway_indexes_map")
             /\ rpc' = [rpc EXCEPT ![r].pc = "collect"]
    <3> DEFINE call == [rpc[r] EXCEPT !.pc = "collect"]
    <3>1. GoodCall(call) /\ call.pc = "collect" /\ call.key = rpc[r].key
      BY <1>0, <2>0 DEF GoodCall, Calls
    <3>2. rpc' = [rpc EXCEPT ![r] = call]
      BY <2>2
    <3> HIDE DEF call
    <3>3. rpc'[r] = call /\ \A s \in Rpcs \ {r} : rpc'[s] = rpc[s]
      BY <1>a, <3>1, <3>2, Zenon
    <3>4. lock' \in [Mutexes -> Rpcs \cup {None}] /\ LockOrder'
      BY <2>0, <2>2, <3>1, <3>3, LockAcquired DEF Mutexes
    <3> QED
      BY <1>e, <2>0, <3>1, <3>2, <3>4, Zenon DEF Deleting
  <2> QED
    BY <1>6, <2>1, <2>2, Zenon DEF DeleteIndex
<1>7. CASE DeleteCollect(r)
  <2>0. rpc[r].pc = "collect" /\ UNCHANGED BACKENDS /\ Acquire(r, "tcp_conns_map")
    BY <1>7 DEF DeleteCollect, In, mapVars
  <2> DEFINE call == [rpc[r] EXCEPT !.pc = "sweep", !.conns = Tracked(rpc[r].key)]
  <2>1. GoodCall(call) /\ call.pc = "sweep" /\ call.key = rpc[r].key
    BY <1>0, <2>0, Zenon DEF GoodCall, Calls, Tracked, Keys, GoodConns
  <2>2. rpc' = [rpc EXCEPT ![r] = call]
    BY <1>7, Zenon DEF DeleteCollect
  <2> HIDE DEF call
  <2>3. rpc'[r] = call /\ \A s \in Rpcs \ {r} : rpc'[s] = rpc[s]
    BY <1>a, <2>1, <2>2, Zenon
  <2>4. lock' \in [Mutexes -> Rpcs \cup {None}] /\ LockOrder'
    BY <2>0, <2>1, <2>3, LockAcquired DEF Mutexes
  <2> QED
    BY <1>e, <2>0, <2>1, <2>2, <2>4, Zenon DEF Deleting
<1>8. CASE DeleteSweep(r)
  <2>0. rpc[r].pc = "sweep" /\ UNCHANGED BACKENDS
    BY <1>8, Zenon DEF DeleteSweep, In
  <2>1. CASE Unlock(r) /\ (AnswerError(r) \/ Answer(r, "deleted"))
    BY <1>c, <2>0, <2>1, Zenon DEF AnswerError, Answers
  <2>2. ASSUME NEW c \in rpc[r].conns, UNCHANGED lock,
               rpc' = [rpc EXCEPT ![r].conns = @ \ {c}]
        PROVE  CallsInv'
    <3> DEFINE call == [rpc[r] EXCEPT !.conns = @ \ {c}]
    <3>1. GoodCall(call) /\ call.pc = "sweep" /\ call.key = rpc[r].key
      BY <1>0, <2>0 DEF GoodCall, Calls
    <3>2. rpc' = [rpc EXCEPT ![r] = call]
      BY <2>2
    <3> HIDE DEF call
    <3>3. rpc'[r] = call /\ \A s \in Rpcs \ {r} : rpc'[s] = rpc[s]
      BY <1>a, <3>1, <3>2, Zenon
    <3>4. \A s \in Rpcs : rpc'[s].pc = rpc[s].pc
      BY <2>0, <3>1, <3>3
    <3>5. LockOrder'
      BY <2>2, <3>4 DEF LockOrder
    <3> QED
      BY <1>e, <2>0, <2>2, <3>1, <3>2, <3>5, Zenon DEF Deleting
  <2> QED
    BY <1>8, <2>1, <2>2, Zenon DEF DeleteSweep
<1>9. CASE Reply(r)
  <2>1. /\ rpc' = [rpc EXCEPT ![r] = NoCall] /\ rpc[r].pc \notin Deleting
        /\ UNCHANGED <<lock, BACKENDS>>
    BY <1>9 DEF Reply, In, Deleting, mapVars
  <2> QED
    BY <1>0, <1>d, <2>1, Zenon DEF Deleting
<1>10. CASE Cancel(r)
  <2>1. rpc' = [rpc EXCEPT ![r] = NoCall] /\ Unlock(r) /\ UNCHANGED BACKENDS
    BY <1>10 DEF Cancel, mapVars
  <2>2. GoodCalls(rpc') /\ rpc'[r] = NoCall /\ \A s \in Rpcs \ {r} : rpc'[s] = rpc[s]
    BY <1>0, <1>a, <2>1, Zenon
  <2>3. /\ lock' \in [Mutexes -> Rpcs \cup {None}]
        /\ LockOrder' /\ NotListedWhileDeleting'
    BY <1>0, <2>1, <2>2, LocksReleased DEF Deleting
  <2> QED
    BY <2>2, <2>3 DEF CallsInv
<1> QED
  BY <1>1, <1>2, <1>3, <1>4, <1>5, <1>6, <1>7, <1>8, <1>9, <1>10 DEF ApiStep, Progress

\* Each step of a call keeps the maps, and the locals of the programs that run
\* meanwhile, good.
LEMMA CallMapsStep ==
    ASSUME IInv, NEW r \in Rpcs, ApiStep(r), UNCHANGED cpu
    PROVE  /\ GoodConf(configured')
           /\ GoodBackends(BACKENDS', configured')
           /\ GoodIndexes(GATEWAY_INDEXES')
           /\ GoodConns(LB_CONNECTIONS', configured')
           /\ GoodCpus(cpu', configured')
<1> USE DEF IInv
<1>0. /\ rpc[r] \in Calls
      /\ rpc[r].pc \notin {"idle", "answer"} => rpc[r].key \in Vips
      /\ rpc[r].conns \subseteq ClientKey
  BY DEF GoodCalls, GoodCall, Calls
<1>1. CASE UNCHANGED <<mapVars, configured>>
  BY <1>1 DEF mapVars
<1>2. CASE UpdateInsert(r)
  <2> DEFINE k == rpc[r].key
             list == rpc[r].list
  <2>0. /\ k \in Vips /\ list \in BackendList
        /\ \A i \in 0 .. ArrayCapacity - 1 : i < list.backends_len => list.backends[i] \in Backends
        /\ UNCHANGED <<GATEWAY_INDEXES, LB_CONNECTIONS>>
    BY <1>0, <1>2 DEF UpdateInsert, In, GoodCalls, GoodCall
  <2>1. CASE UNCHANGED <<BACKENDS, configured>>
    BY <2>0, <2>1
  <2>2. CASE /\ BACKENDS' = Insert(BACKENDS, k, list)
             /\ configured' = configured \cup Listed(list)
    <3> HIDE DEF k, list
    <3>1. /\ list.backends_len \in 0 .. ArrayCapacity
          /\ \A i \in 0 .. list.backends_len - 1 : i \in 0 .. ArrayCapacity - 1
      BY <2>0, MapsAssumption DEF BackendList
    <3>2. Listed(list) \subseteq Backends
      BY <2>0, <3>1 DEF Listed
    <3>3. /\ configured' \subseteq Backends
          /\ Listed(list) \subseteq configured'
          /\ configured \subseteq configured'
      BY <2>0, <2>2, <3>2 DEF GoodConf
    <3>4. /\ GoodBackends(BACKENDS, configured')
          /\ GoodConns(LB_CONNECTIONS, configured') /\ GoodCpus(cpu, configured')
      BY <3>3, MoreConfigured DEF GoodConf
    <3>5. \A i \in 0 .. ArrayCapacity - 1 :
             i < list.backends_len => i \in 0 .. list.backends_len - 1
      BY <3>1, MapsAssumption
    <3>6. GoodList(list, configured')
      BY <2>0, <3>3, <3>5 DEF GoodList, Listed
    <3>7. GoodBackends(BACKENDS', configured')
      BY <2>0, <2>2, <3>4, <3>6, Zenon DEF GoodBackends, Insert
    <3> QED
      BY <2>0, <3>3, <3>4, <3>7 DEF GoodConf
  <2> QED
    BY <1>2, <2>1, <2>2 DEF UpdateInsert
<1>3. CASE UpdateResetIndex(r)
  <2>1. /\ UNCHANGED <<BACKENDS, LB_CONNECTIONS, configured>>
        /\ \/ UNCHANGED GATEWAY_INDEXES
           \/ GATEWAY_INDEXES' = Insert(GATEWAY_INDEXES, rpc[r].key, 0)
    BY <1>3, Zenon DEF UpdateResetIndex
  <2>2. rpc[r].key \in Vips
    BY <1>0, <1>3 DEF UpdateResetIndex, In
  <2>3. GoodIndexes(GATEWAY_INDEXES')
    BY <2>1, <2>2, MapsAssumption DEF GoodIndexes, Insert
  <2> QED
    BY <2>1, <2>3
<1>4. CASE DeleteBackends(r)
  <2>1. /\ UNCHANGED <<GATEWAY_INDEXES, LB_CONNECTIONS, configured>>
        /\ UNCHANGED BACKENDS \/ BACKENDS' = Remove(BACKENDS, rpc[r].key)
    BY <1>4, Zenon DEF DeleteBackends
  <2>2. GoodBackends(BACKENDS', configured)
    BY <2>1 DEF GoodBackends, Remove
  <2> QED
    BY <2>1, <2>2
<1>5. CASE DeleteIndex(r)
  <2>1. /\ UNCHANGED <<BACKENDS, LB_CONNECTIONS, configured>>
        /\ \/ UNCHANGED GATEWAY_INDEXES
           \/ GATEWAY_INDEXES' = Remove(GATEWAY_INDEXES, rpc[r].key)
    BY <1>5, Zenon DEF DeleteIndex
  <2>2. GoodIndexes(GATEWAY_INDEXES')
    BY <2>1 DEF GoodIndexes, Remove
  <2> QED
    BY <2>1, <2>2
<1>6. CASE DeleteSweep(r)
  <2>1. /\ UNCHANGED <<BACKENDS, GATEWAY_INDEXES, configured>>
        /\ \/ UNCHANGED LB_CONNECTIONS
           \/ \E c \in ClientKey : LB_CONNECTIONS' = Remove(LB_CONNECTIONS, c)
    BY <1>0, <1>6, Zenon DEF DeleteSweep
  <2>2. GoodConns(LB_CONNECTIONS', configured)
    BY <2>1 DEF GoodConns, Remove
  <2> QED
    BY <2>1, <2>2
<1> QED
  BY <1>1, <1>2, <1>3, <1>4, <1>5, <1>6, Zenon
     DEF ApiStep, Progress, update, delete, DeleteCollect, Reply, Cancel

-----------------------------------------------------------------------------
\* The maps start empty, all CPUs and calls idle.
LEMMA InitGood == Init => IInv
<1> SUFFICES ASSUME Init
             PROVE  IInv
  OBVIOUS
<1>1. /\ GoodConf(configured) /\ GoodBackends(BACKENDS, configured)
      /\ GoodIndexes(GATEWAY_INDEXES) /\ GoodConns(LB_CONNECTIONS, configured)
  BY DEF Init, MapsInit, ApiInit, GoodConf, GoodBackends, GoodIndexes, GoodConns
<1>2. GoodCpus(cpu, configured)
  BY IdleGood, Zenon DEF Init, EbpfInit, GoodCpus
<1>3. GoodCalls(rpc)
  BY DEF Init, ApiInit, GoodCalls, GoodCall, NoCall, Calls
<1>4. lock \in [Mutexes -> Rpcs \cup {None}] /\ LockOrder /\ NotListedWhileDeleting
  BY ApiAssumption DEF Init, ApiInit, NoCall, LockOrder, NotListedWhileDeleting, Mutexes
<1> QED
  BY <1>1, <1>2, <1>3, <1>4 DEF IInv

\* Every step keeps the invariant.
LEMMA NextGood == IInv /\ [Next]_vars => IInv'
<1> SUFFICES ASSUME IInv, [Next]_vars
             PROVE  IInv'
  OBVIOUS
<1>1. CASE EbpfNext /\ UNCHANGED apiVars
  <2>1. /\ UNCHANGED BACKENDS
        /\ GoodIndexes(GATEWAY_INDEXES')
        /\ GoodConns(LB_CONNECTIONS', configured)
        /\ GoodCpus(cpu', configured)
    <3>1. PICK p \in Cpus : tc_ingress(p) \/ tc_egress(p)
      BY <1>1 DEF EbpfNext
    <3>2. CASE tc_ingress(p)
      BY <3>2, TcpIngressStep, UdpIngressStep DEF tc_ingress
    <3>3. CASE tc_egress(p)
      BY <3>3, EgressStep DEF IInv
    <3> QED
      BY <3>1, <3>2, <3>3
  <2>2. UNCHANGED <<rpc, lock, configured>>
    BY <1>1, Zenon DEF apiVars
  <2>3. LockOrder' /\ NotListedWhileDeleting'
    BY <2>1, <2>2 DEF IInv, LockOrder, NotListedWhileDeleting
  <2> QED
    BY <2>1, <2>2, <2>3 DEF IInv
<1>2. CASE ApiNext /\ UNCHANGED cpu
  <2>1. PICK r \in Rpcs : ApiStep(r)
    BY <1>2 DEF ApiNext
  <2> QED
    BY <1>2, <2>1, CallsStep, CallMapsStep DEF IInv, CallsInv
<1>3. CASE UNCHANGED vars
  <2>1. UNCHANGED <<BACKENDS, GATEWAY_INDEXES, LB_CONNECTIONS, cpu, rpc, lock, configured>>
    BY <1>3, Zenon DEF vars, mapVars, apiVars
  <2>2. LockOrder' /\ NotListedWhileDeleting'
    BY <2>1 DEF IInv, LockOrder, NotListedWhileDeleting
  <2> QED
    BY <2>1, <2>2 DEF IInv
<1> QED
  BY <1>1, <1>2, <1>3 DEF Next

\* The inductive invariant holds of every reachable state of the dataplane.
THEOREM Invariance == Spec => []IInv
  BY InitGood, NextGood, PTL DEF Spec

\* Whatever the numbers of CPUs, calls, clients and VIPs, every map, local and
\* call record keeps its declared type.
THEOREM TypeCorrect == Spec => []TypeOK
<1>1. IInv => TypeOK
  <2> SUFFICES ASSUME IInv
               PROVE  TypeOK
    OBVIOUS
  <2> USE DEF IInv
  <2>1. MapsTypeOK
    BY Zenon DEF MapsTypeOK, GoodBackends, GoodIndexes, GoodConns
  <2>2. EbpfTypeOK
    BY DEF EbpfTypeOK, GoodCpus, GoodLocals
  <2>3. ApiTypeOK
    BY Zenon DEF ApiTypeOK, GoodCalls, GoodCall, GoodConf
  <2> QED
    BY <2>1, <2>2, <2>3 DEF TypeOK
<1> QED
  BY <1>1, Invariance, PTL

\* No interleaving of handlers and calls tracks a connection to, or sends a
\* packet to, a backend that no update listed.
THEOREM OnlyConfiguredBackends == Spec => []TrackedBackendWasConfigured
<1>1. IInv => TrackedBackendWasConfigured
  <2> SUFFICES ASSUME IInv
               PROVE  TrackedBackendWasConfigured
    OBVIOUS
  <2>1. \A c \in Keys(LB_CONNECTIONS) :
           LB_CONNECTIONS[c].backend \in configured
    BY Zenon DEF IInv, GoodConns, ClientMapping, OpenMapping, UdpMapping, GoodMapping, Keys, ClientKey
  <2>2. \A p \in Cpus : cpu[p].lb_mapping # None =>
           cpu[p].lb_mapping.backend \in configured
    BY DEF IInv, GoodCpus, GoodLocals, GoodMapping
  <2> QED
    BY <2>1, <2>2, Zenon DEF TrackedBackendWasConfigured
<1> QED
  BY <1>1, Invariance, PTL

\* No lost update, stale list or reset takes an index out of the array.
THEOREM IndexesWithinArray == Spec => []IndexWithinArray
<1>1. IInv => IndexWithinArray
  BY Zenon DEF IInv, GoodIndexes, IndexWithinArray, Keys
<1> QED
  BY <1>1, Invariance, PTL

\* No race between the packets of a connection stores a closed state, and no
\* packet gives a UDP entry a state.
THEOREM StatesMatchProtocol == Spec => []TrackedStateMatchesProtocol
<1>1. IInv => TrackedStateMatchesProtocol
  BY DEF IInv, GoodConns, ClientMapping, OpenMapping, UdpMapping, Keys, ClientKey,
         TrackedStateMatchesProtocol
<1> QED
  BY <1>1, Invariance, PTL

\* Any number of calls take the three locks in one order, and a call that is not
\* deleting owns none.
THEOREM LocksOrdered == Spec => []LockOrder
<1>1. IInv => LockOrder
  BY DEF IInv
<1> QED
  BY <1>1, Invariance, PTL

\* No other call lists a VIP again while a delete of it is under way.
THEOREM DeletesIsolated == Spec => []NotListedWhileDeleting
<1>1. IInv => NotListedWhileDeleting
  BY DEF IInv
<1> QED
  BY <1>1, Invariance, PTL

-----------------------------------------------------------------------------
\* A step of a packet program changes the locals of its own CPU only.
LEMMA StepIsOwn ==
    ASSUME NEW p \in Cpus, tc_ingress(p) \/ tc_egress(p)
    PROVE  \E l : Goto(p, l)
BY Zenon DEF tc_ingress, tc_egress, TcpIngress, TcpLookupBackends, TcpLookupIndex, TcpAdvanceIndex,
       TcpRst, TcpUpdateConns, TcpRecordConn, UdpIngress, UdpLookupIndex, UdpTrack,
       UdpAdvanceIndex, TcpEgress, EgressRst, EgressUpdateConns, IcmpEgress, IcmpRemove,
       InsertConn, RemoveConn, update_tcp_conns, Return

\* Locals that neither hold a list of k nor a mapping of k.
Away(l, k) ==
    /\ ~(l.list # None /\ l.vip = k)
    /\ ~(l.lb_mapping # None /\ l.lb_mapping.backend_key = k)

\* A program that goes on away from k, no connection of k having been written,
\* leaves k drained.
LEMMA DrainedGoto ==
    ASSUME NEW k \in Vips, NEW p \in Cpus, NEW l, IInv, Drained(k),
           Goto(p, l), Away(l, k), UNCHANGED BACKENDS,
           \A c \in ClientKey : LB_CONNECTIONS'[c] \in {None, LB_CONNECTIONS[c]} \/
                                LB_CONNECTIONS'[c].backend_key # k,
           DOMAIN LB_CONNECTIONS' = ClientKey
    PROVE  Drained(k)'
<1>1. Tracked(k)' = {}
  BY Zenon DEF Drained, Tracked, Keys, IInv, GoodConns
<1>2. \A q \in Cpus : ~Holds(q, k)'
  BY DEF Drained, Holds, Away, Goto, IInv, GoodCpus
<1> QED
  BY <1>1, <1>2, Zenon DEF Drained

\* So does one that writes a mapping of another VIP.
LEMMA DrainedInsert ==
    ASSUME NEW k \in Vips, NEW p \in Cpus, NEW c \in ClientKey, NEW m, NEW l,
           IInv, Drained(k), InsertConn(p, c, m, l), m.backend_key # k, Away(l, k),
           UNCHANGED BACKENDS
    PROVE  Drained(k)'
<1>0. LB_CONNECTIONS = [d \in ClientKey |-> LB_CONNECTIONS[d]] /\ Away(Idle, k)
  BY Zenon DEF IInv, GoodConns, Away, Idle
<1>1. CASE LB_CONNECTIONS' = Insert(LB_CONNECTIONS, c, m) /\ Goto(p, l)
  <2>1. /\ DOMAIN LB_CONNECTIONS' = ClientKey
        /\ \A d \in ClientKey : LB_CONNECTIONS'[d] = LB_CONNECTIONS[d] \/
                                LB_CONNECTIONS'[d].backend_key # k
    BY <1>0, <1>1 DEF Insert
  <2> QED
    BY <1>1, <2>1, DrainedGoto
<1>2. CASE Return(p) /\ UNCHANGED LB_CONNECTIONS
  BY <1>0, <1>2, DrainedGoto DEF Return
<1> QED
  BY <1>1, <1>2 DEF InsertConn

\* So does one that removes a connection.
LEMMA DrainedRemove ==
    ASSUME NEW k \in Vips, NEW p \in Cpus, NEW c \in ClientKey, NEW l,
           IInv, Drained(k), RemoveConn(p, c, l), Away(l, k), UNCHANGED BACKENDS
    PROVE  Drained(k)'
<1>0. LB_CONNECTIONS = [d \in ClientKey |-> LB_CONNECTIONS[d]] /\ Away(Idle, k)
  BY Zenon DEF IInv, GoodConns, Away, Idle
<1>1. CASE LB_CONNECTIONS' = Remove(LB_CONNECTIONS, c) /\ Goto(p, l)
  <2>1. /\ DOMAIN LB_CONNECTIONS' = ClientKey
        /\ \A d \in ClientKey : LB_CONNECTIONS'[d] \in {None, LB_CONNECTIONS[d]}
    BY <1>0, <1>1 DEF Remove
  <2> QED
    BY <1>1, <2>1, DrainedGoto
<1>2. CASE Return(p) /\ UNCHANGED LB_CONNECTIONS
  BY <1>0, <1>2, DrainedGoto DEF Return
<1> QED
  BY <1>1, <1>2 DEF RemoveConn

\* update_tcp_conns writes back the VIP that the mapping had.
LEMMA DrainedUpdate ==
    ASSUME NEW k \in Vips, NEW p \in Cpus, NEW c \in ClientKey, NEW m, NEW hdr, NEW l,
           IInv, Drained(k), update_tcp_conns(p, c, m, hdr, l),
           GoodMapping(m, configured), m.backend_key # k, Away(l, k), UNCHANGED BACKENDS
    PROVE  Drained(k)'
<1>0. LB_CONNECTIONS = [d \in ClientKey |-> LB_CONNECTIONS[d]]
  BY DEF IInv, GoodConns
<1>1. Advanced(m, hdr).backend_key # k
  BY DEF Advanced, GoodMapping, LoadBalancerMapping
<1>2. CASE Goto(p, l) /\ UNCHANGED LB_CONNECTIONS
  BY <1>0, <1>2, DrainedGoto
<1> QED
  BY <1>1, <1>2, DrainedInsert, DrainedRemove DEF update_tcp_conns

\* No packet brings back what was drained.
LEMMA DrainedPacket ==
    ASSUME NEW k \in Vips, IInv, Drained(k), NEW p \in Cpus, tc_ingress(p) \/ tc_egress(p)
    PROVE  Drained(k)'
<1> DEFINE l == cpu[p]
<1>0. /\ GoodLocals(l, configured) /\ l \in Locals /\ Away(l, k) /\ Away(Idle, k)
      /\ LB_CONNECTIONS = [d \in ClientKey |-> LB_CONNECTIONS[d]]
      /\ \A c \in ClientKey : LB_CONNECTIONS[c] # None => LB_CONNECTIONS[c].backend_key # k
      /\ BACKENDS[k] = None
  BY DEF IInv, GoodCpus, GoodLocals, GoodConns, Drained, Holds, Away, Idle, Tracked, Keys
<1>1. UNCHANGED BACKENDS
  BY TcpIngressStep, UdpIngressStep, EgressStep DEF tc_ingress
<1>2. ASSUME NEW m, Goto(p, m), Away(m, k), UNCHANGED LB_CONNECTIONS
      PROVE  Drained(k)'
  BY <1>0, <1>1, <1>2, DrainedGoto
<1>3. CASE \E c \in TcpClients, v \in Vips, hdr \in Headers : TcpIngress(p, c, v, hdr)
  <2>1. PICK c \in TcpClients, v \in Vips, hdr \in Headers : TcpIngress(p, c, v, hdr)
    BY <1>3
  <2> DEFINE packet == [Idle EXCEPT !.client = c, !.vip = v, !.hdr = hdr]
             tracked == [packet EXCEPT !.pc = Chosen(hdr), !.lb_mapping = LB_CONNECTIONS[c]]
             new == [packet EXCEPT !.pc = "tcp_backends", !.new_conn = TRUE]
  <2>2. Away(tracked, k) /\ Away(new, k)
    BY <1>0 DEF Away, Idle, ClientKey
  <2> QED
    BY <1>2, <2>1, <2>2 DEF TcpIngress, mapVars
<1>4. CASE TcpLookupBackends(p)
  <2> DEFINE found == [l EXCEPT !.pc = "tcp_index", !.list = BACKENDS[l.vip]]
  <2>1. Away(found, k)
    BY <1>0 DEF Away, Locals
  <2> QED
    BY <1>0, <1>2, <1>4, <2>1 DEF TcpLookupBackends, mapVars, Return
\* A handler past its lookup of a list is about another VIP.
<1>5. l.list # None => l.vip # k
  BY <1>0 DEF Away
<1>6. CASE TcpLookupIndex(p)
  <2> DEFINE idx == GATEWAY_INDEXES[l.vip]
             m(list) == NewMapping(list, idx, l.vip, "Established")
             found(list) == [l EXCEPT !.pc = "tcp_advance", !.list = list, !.idx = idx,
                                      !.lb_mapping = m(list)]
  <2>1. l.vip # k
    BY <1>0, <1>5, <1>6, NoneAssumption DEF TcpLookupIndex, At, GoodLocals, GoodList
  <2>2. ASSUME NEW list PROVE Away(found(list), k)
    BY <1>0, <2>1 DEF Away, Locals, NewMapping
  <2>3. PICK list : Return(p) \/ Goto(p, found(list))
    BY <1>6, Zenon DEF TcpLookupIndex
  <2>4. UNCHANGED LB_CONNECTIONS
    BY <1>6 DEF TcpLookupIndex, mapVars
  <2> HIDE DEF found
  <2> QED
    BY <1>0, <1>2, <2>2, <2>3, <2>4 DEF Return
<1>7. CASE TcpAdvanceIndex(p)
  <2> DEFINE after == [l EXCEPT !.pc = Chosen(l.hdr), !.list = None, !.idx = None]
  <2>1. Away(after, k)
    BY <1>0 DEF Away, Locals
  <2> QED
    BY <1>0, <1>2, <1>7, <2>1 DEF TcpAdvanceIndex, Return
\* A handler that holds a mapping holds one of another VIP.
<1>8. l.lb_mapping \in LoadBalancerMapping => l.lb_mapping.backend_key # k
  BY <1>0, NoneAssumption DEF Away
<1>9. CASE TcpRst(p)
  <2> DEFINE after == [l EXCEPT !.pc = "tcp_update"]
  <2>1. Away(after, k) /\ l.client \in ClientKey
    BY <1>0, <1>9 DEF Away, Locals, TcpRst, At, GoodLocals, ClientKey
  <2> QED
    BY <1>1, <1>9, <2>1, DrainedRemove DEF TcpRst
<1>10. CASE TcpUpdateConns(p)
  <2> DEFINE next == Advanced(l.lb_mapping, l.hdr)
             rewritten == [l EXCEPT !.pc = "tcp_record", !.lb_mapping = next]
  <2>1. PICK after \in {rewritten, Idle} :
           update_tcp_conns(p, l.client, l.lb_mapping, l.hdr, after)
    BY <1>10 DEF TcpUpdateConns
  <2>2. /\ l.client \in ClientKey /\ GoodMapping(l.lb_mapping, configured)
        /\ l.lb_mapping.backend_key # k
    BY <1>0, <1>8, <1>10 DEF TcpUpdateConns, At, GoodLocals, OpenMapping, GoodMapping, ClientKey
  <2>3. next.backend_key # k
    BY <2>2 DEF Advanced, GoodMapping, LoadBalancerMapping
  <2> HIDE DEF next
  <2>4. Away(rewritten, k)
    BY <1>0, <2>3 DEF Away, Locals
  <2> QED
    BY <1>0, <1>1, <2>1, <2>2, <2>4, DrainedUpdate
<1>11. CASE TcpRecordConn(p)
  <2>1. l.client \in ClientKey /\ l.lb_mapping.backend_key # k
    BY <1>0, <1>8, <1>11 DEF TcpRecordConn, At, GoodLocals, OpenMapping, GoodMapping, ClientKey
  <2> QED
    BY <1>0, <1>1, <1>11, <2>1, DrainedInsert, Zenon DEF TcpRecordConn
<1>12. CASE \E c \in UdpClients, v \in Vips : UdpIngress(p, c, v)
  <2>1. PICK c \in UdpClients, v \in Vips : UdpIngress(p, c, v)
    BY <1>12
  <2> DEFINE found == [Idle EXCEPT !.pc = "udp_index", !.client = c, !.vip = v, !.list = BACKENDS[v]]
  <2>2. Away(found, k)
    BY <1>0 DEF Away, Idle
  <2> QED
    BY <1>2, <2>1, <2>2 DEF UdpIngress, mapVars
<1>13. CASE UdpLookupIndex(p)
  <2> DEFINE idx == GATEWAY_INDEXES[l.vip]
             found(list) == [l EXCEPT !.pc = "udp_track", !.idx = idx,
                                      !.lb_mapping = NewMapping(list, idx, l.vip, None)]
  <2>1. l.vip # k
    BY <1>0, <1>5, <1>13, NoneAssumption DEF UdpLookupIndex, At, GoodLocals, GoodList
  <2>2. ASSUME NEW list PROVE Away(found(list), k)
    BY <1>0, <2>1 DEF Away, Locals, NewMapping
  <2>3. PICK list : Return(p) \/ Goto(p, found(list))
    BY <1>13, Zenon DEF UdpLookupIndex
  <2>4. UNCHANGED LB_CONNECTIONS
    BY <1>13 DEF UdpLookupIndex, mapVars
  <2> HIDE DEF found
  <2> QED
    BY <1>0, <1>2, <2>2, <2>3, <2>4 DEF Return
<1>14. CASE UdpTrack(p)
  <2> DEFINE tracked == [l EXCEPT !.pc = "udp_advance"]
  <2>1. PICK after \in {tracked, Idle} : InsertConn(p, l.client, l.lb_mapping, after)
    BY <1>14 DEF UdpTrack
  <2>2. l.client \in ClientKey /\ l.lb_mapping.backend_key # k
    BY <1>0, <1>8, <1>14 DEF UdpTrack, At, GoodLocals, UdpMapping, GoodMapping, ClientKey
  <2>3. Away(tracked, k)
    BY <1>0 DEF Away, Locals
  <2> QED
    BY <1>0, <1>1, <2>1, <2>2, <2>3, DrainedInsert
<1>15. CASE UdpAdvanceIndex(p)
  BY <1>0, <1>2, <1>15 DEF UdpAdvanceIndex, Return
<1>16. CASE \E c \in TcpClients, hdr \in Headers : TcpEgress(p, c, hdr)
  <2>1. PICK c \in TcpClients, hdr \in Headers : TcpEgress(p, c, hdr)
    BY <1>16
  <2> DEFINE pc == IF "RST" \in hdr THEN "egress_rst" ELSE "egress_update"
             found == [Idle EXCEPT !.pc = pc, !.client = c, !.hdr = hdr,
                                   !.lb_mapping = LB_CONNECTIONS[c]]
  <2>2. Away(found, k)
    BY <1>0, Zenon DEF Away, Idle, ClientKey
  <2> QED
    BY <1>2, <2>1, <2>2 DEF TcpEgress, mapVars
<1>17. CASE EgressRst(p)
  <2> DEFINE after == [l EXCEPT !.pc = "egress_update"]
  <2>1. Away(after, k) /\ l.client \in ClientKey
    BY <1>0, <1>17 DEF Away, Locals, EgressRst, At, GoodLocals, ClientKey
  <2> QED
    BY <1>1, <1>17, <2>1, DrainedRemove DEF EgressRst
<1>18. CASE EgressUpdateConns(p)
  <2>1. /\ l.client \in ClientKey /\ GoodMapping(l.lb_mapping, configured)
        /\ l.lb_mapping.backend_key # k
    BY <1>0, <1>8, <1>18 DEF EgressUpdateConns, At, GoodLocals, GoodMapping, ClientKey
  <2>2. PICK m \in Deref(LB_CONNECTIONS, l.client, l.lb_mapping) :
           update_tcp_conns(p, l.client, m, l.hdr, Idle)
    BY <1>18 DEF EgressUpdateConns
  <2>3. GoodMapping(m, configured)
    BY <2>1, <2>2, DerefConnGood DEF IInv
  <2>4. m.backend_key # k
    BY <1>0, <2>1, <2>2 DEF Deref, Keys
  <2> QED
    BY <1>0, <1>1, <2>1, <2>2, <2>3, <2>4, DrainedUpdate, Zenon
<1>19. CASE \E c \in UdpClients : IcmpEgress(p, c)
  <2>1. PICK c \in UdpClients : IcmpEgress(p, c)
    BY <1>19
  <2>2. Away([Idle EXCEPT !.pc = "icmp_remove", !.client = c], k)
    BY DEF Away, Idle
  <2> QED
    BY <1>2, <2>1, <2>2 DEF IcmpEgress, mapVars
<1>20. CASE IcmpRemove(p)
  <2>1. l.client \in ClientKey
    BY <1>0, <1>20 DEF IcmpRemove, At, GoodLocals, ClientKey
  <2> QED
    BY <1>0, <1>1, <1>2, <1>20, <2>1, DrainedRemove, Zenon DEF IcmpRemove, Return
<1> QED
  BY <1>3, <1>4, <1>6, <1>7, <1>9, <1>10, <1>11, <1>12, <1>13, <1>14, <1>15, <1>16, <1>17,
     <1>18, <1>19, <1>20, ZenonT(30) DEF tc_ingress, tc_egress

\* Whatever the numbers of CPUs, calls, clients and VIPs, a VIP that is gone with
\* its connections and the handlers that had found it stays gone until an update.
THEOREM DrainedStays == Spec => DrainedUntilUpdate
<1> DEFINE Stays == \A k \in Vips : Drained(k) => Drained(k)' \/ BACKENDS'[k] # None
<1>1. IInv /\ [Next]_vars => [Stays]_vars
  <2> SUFFICES ASSUME IInv, Next, NEW k \in Vips, Drained(k), BACKENDS'[k] = None
               PROVE  Drained(k)'
    BY DEF Stays
  <2>1. CASE EbpfNext
    BY <2>1, DrainedPacket DEF EbpfNext
  <2>2. CASE ApiNext /\ UNCHANGED cpu
    <3>1. PICK r \in Rpcs : ApiStep(r)
      BY <2>2 DEF ApiNext
    <3>2. \/ UNCHANGED LB_CONNECTIONS
          \/ \E c \in ClientKey : LB_CONNECTIONS' = Remove(LB_CONNECTIONS, c)
      BY <3>1, ZenonT(30)
      DEF ApiStep, Progress, update, delete, DeleteCollect, Reply, Cancel, mapVars, UpdateInsert,
          UpdateResetIndex, DeleteBackends, DeleteIndex, DeleteSweep, IInv, GoodCalls, GoodCall,
          Calls
    <3>3. Tracked(k)' = {}
      BY <3>2, Zenon DEF Drained, Tracked, Keys, Remove, IInv, GoodConns
    <3>4. \A p \in Cpus : ~Holds(p, k)'
      BY <2>2 DEF Drained, Holds
    <3> QED
      BY <3>3, <3>4 DEF Drained
  <2> QED
    BY <2>1, <2>2 DEF Next
<1> QED
  BY <1>1, Invariance, PTL DEF Spec, DrainedUntilUpdate

-----------------------------------------------------------------------------
\* Packets and calls apart: what the source says of the index and of a delete
\* holds.

Known(k) == BACKENDS[k] # None /\ GATEWAY_INDEXES[k] # None

\* A program's list is still its VIP's, and its mapping is of a VIP that has a
\* list and an index.
Flight(l) ==
    /\ l.pc = "idle" => l.list = None /\ l.lb_mapping = None
    /\ l.list # None => BACKENDS[l.vip] = l.list
    /\ l.lb_mapping # None => Known(l.lb_mapping.backend_key)

\* A call about k is at one of the steps pcs.
Busy(k, pcs) == \E r \in Rpcs : rpc[r].pc \in pcs /\ rpc[r].key = k

\* A VIP with connections has its list and its index, or loses them to a delete
\* that has yet to sweep.
Swept(k) ==
    Tracked(k) # {} =>
        /\ BACKENDS[k] # None \/ Busy(k, Deleting)
        /\ GATEWAY_INDEXES[k] # None \/ Busy(k, {"collect", "sweep"})

\* An index points into its list, or an update is about to reset it.
Pointed(k) ==
    Known(k) /\ BACKENDS[k].backends_len > 0 =>
        GATEWAY_INDEXES[k] < BACKENDS[k].backends_len \/ Busy(k, {"reset_index"})

AInv ==
    /\ Apart
    /\ \A p \in Cpus : Flight(cpu[p])
    /\ \A k \in Vips : Swept(k) /\ Pointed(k)
    /\ \A r \in Rpcs : In(r, "sweep") => rpc[r].conns = Tracked(rpc[r].key)

\* What a packet does: it goes on with what it found, moves an index inside its
\* list, and tracks a client only at a known VIP.
Flies(p) == \E l : Goto(p, l) /\ Flight(l)

Moves ==
    \/ UNCHANGED GATEWAY_INDEXES
    \/ \E k \in Vips, i \in Nat :
          /\ BACKENDS[k] # None
          /\ GATEWAY_INDEXES' = Insert(GATEWAY_INDEXES, k, NextIndex(BACKENDS[k], i))

Tracks ==
    /\ LB_CONNECTIONS' = [c \in ClientKey |-> LB_CONNECTIONS'[c]]
    /\ \A c \in ClientKey : \/ LB_CONNECTIONS'[c] \in {None, LB_CONNECTIONS[c]}
                            \/ Known(LB_CONNECTIONS'[c].backend_key)

\* The length of a VIP's list is a number.
LEMMA LengthGood ==
    ASSUME IInv, NEW k \in Vips, BACKENDS[k] # None
    PROVE  BACKENDS[k].backends_len \in Nat
BY DEF IInv, GoodBackends, GoodList, BackendList

\* An idle CPU holds nothing.
LEMMA IdleFlies == Flight(Idle)
BY Zenon DEF Flight, Idle

\* The operations on LB_CONNECTIONS, given the mapping of a known VIP.
LEMMA InsertTracks ==
    ASSUME IInv, NEW p \in Cpus, NEW c \in ClientKey, NEW m, NEW l, InsertConn(p, c, m, l),
           Known(m.backend_key), Flight(l)
    PROVE  Flies(p) /\ Tracks
<1>0. LB_CONNECTIONS = [d \in ClientKey |-> LB_CONNECTIONS[d]]
  BY DEF IInv, GoodConns
<1>1. CASE LB_CONNECTIONS' = Insert(LB_CONNECTIONS, c, m) /\ Goto(p, l)
  <2>1. Tracks
    BY <1>0, <1>1 DEF Insert, Tracks
  <2> QED
    BY <1>1, <2>1 DEF Flies
<1>2. CASE Return(p) /\ UNCHANGED LB_CONNECTIONS
  BY <1>0, <1>2, IdleFlies DEF Return, Flies, Tracks
<1> QED
  BY <1>1, <1>2 DEF InsertConn

\* So a removal.
LEMMA RemoveTracks ==
    ASSUME IInv, NEW p \in Cpus, NEW c \in ClientKey, NEW l, RemoveConn(p, c, l), Flight(l)
    PROVE  Flies(p) /\ Tracks
<1>0. LB_CONNECTIONS = [d \in ClientKey |-> LB_CONNECTIONS[d]]
  BY DEF IInv, GoodConns
<1>1. CASE LB_CONNECTIONS' = Remove(LB_CONNECTIONS, c) /\ Goto(p, l)
  <2>1. Tracks
    BY <1>0, <1>1 DEF Remove, Tracks
  <2> QED
    BY <1>1, <2>1 DEF Flies
<1>2. CASE Return(p) /\ UNCHANGED LB_CONNECTIONS
  BY <1>0, <1>2, IdleFlies DEF Return, Flies, Tracks
<1> QED
  BY <1>1, <1>2 DEF RemoveConn

\* So update_tcp_conns, which writes back the VIP that the mapping had.
LEMMA UpdateTracks ==
    ASSUME IInv, NEW p \in Cpus, NEW c \in ClientKey, NEW m, NEW hdr, NEW l,
           update_tcp_conns(p, c, m, hdr, l), GoodMapping(m, configured), Known(m.backend_key),
           Flight(l)
    PROVE  Flies(p) /\ Tracks
<1>0. LB_CONNECTIONS = [d \in ClientKey |-> LB_CONNECTIONS[d]]
  BY DEF IInv, GoodConns
<1>1. Advanced(m, hdr).backend_key = m.backend_key
  BY DEF Advanced, GoodMapping, LoadBalancerMapping
<1>2. CASE Goto(p, l) /\ UNCHANGED LB_CONNECTIONS
  BY <1>0, <1>2, Zenon DEF Flies, Tracks
<1> QED
  BY <1>1, <1>2, InsertTracks, RemoveTracks DEF update_tcp_conns

\* With no call in progress a packet does no more than that.
LEMMA FlightPacket ==
    ASSUME IInv, NEW p \in Cpus, tc_ingress(p) \/ tc_egress(p), Flight(cpu[p]),
           \A k \in Vips : Tracked(k) # {} => Known(k)
    PROVE  UNCHANGED BACKENDS /\ Flies(p) /\ Moves /\ Tracks
<1> DEFINE l == cpu[p]
<1>0. /\ GoodLocals(l, configured) /\ l \in Locals /\ Flight(l) /\ Flight(Idle)
      /\ LB_CONNECTIONS = [d \in ClientKey |-> LB_CONNECTIONS[d]]
  BY IdleFlies DEF IInv, GoodCpus, GoodLocals, GoodConns
<1>1. UNCHANGED BACKENDS
  BY TcpIngressStep, UdpIngressStep, EgressStep DEF tc_ingress
<1>2. ASSUME NEW c \in ClientKey, LB_CONNECTIONS[c] # None
      PROVE  Known(LB_CONNECTIONS[c].backend_key)
  <2>1. LB_CONNECTIONS[c].backend_key \in Vips
    BY <1>2, Zenon DEF IInv, GoodConns, LoadBalancerMapping
  <2> QED
    BY <1>0, <1>2, <2>1 DEF Tracked, Keys
<1>3. ASSUME NEW m, Goto(p, m), Flight(m), UNCHANGED LB_CONNECTIONS
      PROVE  Flies(p) /\ Tracks
  BY <1>0, <1>3 DEF Flies, Tracks
<1>4. CASE \E c \in TcpClients, v \in Vips, hdr \in Headers : TcpIngress(p, c, v, hdr)
  <2>1. PICK c \in TcpClients, v \in Vips, hdr \in Headers : TcpIngress(p, c, v, hdr)
    BY <1>4
  <2> DEFINE packet == [Idle EXCEPT !.client = c, !.vip = v, !.hdr = hdr]
             tracked == [packet EXCEPT !.pc = Chosen(hdr), !.lb_mapping = LB_CONNECTIONS[c]]
             new == [packet EXCEPT !.pc = "tcp_backends", !.new_conn = TRUE]
  <2>2. Flight(tracked) /\ Flight(new)
    BY <1>2 DEF Flight, Idle, ClientKey, Chosen
  <2> QED
    BY <1>1, <1>3, <2>1, <2>2 DEF TcpIngress, mapVars, Moves
<1>5. CASE TcpLookupBackends(p)
  <2> DEFINE found == [l EXCEPT !.pc = "tcp_index", !.list = BACKENDS[l.vip]]
  <2>1. Flight(found)
    BY <1>0, Zenon DEF Flight, Locals
  <2> QED
    BY <1>0, <1>1, <1>3, <1>5, <2>1 DEF TcpLookupBackends, mapVars, Return, Moves
\* A handler past its lookup of a list reads that list.
<1>6. ASSUME l.pc \in {"tcp_index", "tcp_advance", "udp_index", "udp_track", "udp_advance"}
      PROVE  /\ l.vip \in Vips /\ l.list # None /\ BACKENDS[l.vip] = l.list
             /\ \A list \in Deref(BACKENDS, l.vip, l.list) : list = l.list
  BY <1>0, <1>6, NoneAssumption DEF GoodLocals, GoodList, Flight, Deref
<1>7. CASE TcpLookupIndex(p)
  <2> DEFINE idx == GATEWAY_INDEXES[l.vip]
             found == [l EXCEPT !.pc = "tcp_advance", !.list = l.list, !.idx = idx,
                                !.lb_mapping = NewMapping(l.list, idx, l.vip, "Established")]
  <2>1. Return(p) \/ (Goto(p, found) /\ idx # None)
    BY <1>6, <1>7, Zenon DEF TcpLookupIndex, At, Selectable
  <2>2. idx # None => Flight(found)
    BY <1>0, <1>6, <1>7 DEF Flight, Locals, NewMapping, Known, TcpLookupIndex, At
  <2> QED
    BY <1>0, <1>1, <1>3, <1>7, <2>1, <2>2 DEF TcpLookupIndex, mapVars, Return, Moves
<1>8. CASE TcpAdvanceIndex(p)
  <2> DEFINE after == [l EXCEPT !.pc = Chosen(l.hdr), !.list = None, !.idx = None]
  <2>1. Flight(after)
    BY <1>0 DEF Flight, Locals, Chosen
  <2>2. Moves
    BY <1>0, <1>6, <1>8 DEF TcpAdvanceIndex, At, GoodLocals, Moves
  <2> QED
    BY <1>0, <1>1, <1>3, <1>8, <2>1, <2>2, Zenon DEF TcpAdvanceIndex, Return
<1>9. CASE TcpRst(p)
  <2> DEFINE after == [l EXCEPT !.pc = "tcp_update"]
  <2>1. Flight(after) /\ l.client \in ClientKey
    BY <1>0, <1>9, Zenon DEF Flight, Locals, TcpRst, At, GoodLocals, ClientKey
  <2> QED
    BY <1>1, <1>9, <2>1, RemoveTracks, Zenon DEF TcpRst, Moves
\* A handler that holds a mapping holds one of a known VIP.
<1>10. l.lb_mapping \in LoadBalancerMapping => Known(l.lb_mapping.backend_key)
  BY <1>0, NoneAssumption DEF Flight
<1>11. CASE TcpUpdateConns(p)
  <2> DEFINE next == Advanced(l.lb_mapping, l.hdr)
             rewritten == [l EXCEPT !.pc = "tcp_record", !.lb_mapping = next]
  <2>1. PICK after \in {rewritten, Idle} :
           update_tcp_conns(p, l.client, l.lb_mapping, l.hdr, after)
    BY <1>11 DEF TcpUpdateConns
  <2>2. /\ l.client \in ClientKey /\ GoodMapping(l.lb_mapping, configured)
        /\ Known(l.lb_mapping.backend_key)
    BY <1>0, <1>10, <1>11 DEF TcpUpdateConns, At, GoodLocals, OpenMapping, GoodMapping, ClientKey
  <2>3. Known(next.backend_key)
    <3>1. next.backend_key = l.lb_mapping.backend_key
      BY <2>2 DEF Advanced, GoodMapping, LoadBalancerMapping
    <3> QED
      BY <2>2, <3>1
  <2> HIDE DEF next
  <2>4. Flight(rewritten)
    BY <1>0, <2>3 DEF Flight, Locals
  <2>5. UNCHANGED GATEWAY_INDEXES
    BY <1>11 DEF TcpUpdateConns
  <2> QED
    BY <1>0, <1>1, <2>1, <2>2, <2>4, <2>5, UpdateTracks, Zenon DEF Moves
<1>12. CASE TcpRecordConn(p)
  <2>1. l.client \in ClientKey /\ Known(l.lb_mapping.backend_key)
    BY <1>0, <1>10, <1>12 DEF TcpRecordConn, At, GoodLocals, OpenMapping, GoodMapping, ClientKey
  <2> QED
    BY <1>0, <1>1, <1>12, <2>1, InsertTracks, Zenon DEF TcpRecordConn, Moves
<1>13. CASE \E c \in UdpClients, v \in Vips : UdpIngress(p, c, v)
  <2>1. PICK c \in UdpClients, v \in Vips : UdpIngress(p, c, v)
    BY <1>13
  <2> DEFINE found == [Idle EXCEPT !.pc = "udp_index", !.client = c, !.vip = v, !.list = BACKENDS[v]]
  <2>2. Flight(found)
    BY DEF Flight, Idle
  <2> QED
    BY <1>1, <1>3, <2>1, <2>2 DEF UdpIngress, mapVars, Moves
<1>14. CASE UdpLookupIndex(p)
  <2> DEFINE idx == GATEWAY_INDEXES[l.vip]
             found == [l EXCEPT !.pc = "udp_track", !.idx = idx,
                                !.lb_mapping = NewMapping(l.list, idx, l.vip, None)]
  <2>1. Return(p) \/ (Goto(p, found) /\ idx # None)
    BY <1>6, <1>14, Zenon DEF UdpLookupIndex, At, Selectable
  <2>2. idx # None => Flight(found)
    BY <1>0, <1>6, <1>14 DEF Flight, Locals, NewMapping, Known, UdpLookupIndex, At
  <2> QED
    BY <1>0, <1>1, <1>3, <1>14, <2>1, <2>2 DEF UdpLookupIndex, mapVars, Return, Moves
<1>15. CASE UdpTrack(p)
  <2> DEFINE tracked == [l EXCEPT !.pc = "udp_advance"]
  <2>1. PICK after \in {tracked, Idle} : InsertConn(p, l.client, l.lb_mapping, after)
    BY <1>15 DEF UdpTrack
  <2>2. l.client \in ClientKey /\ Known(l.lb_mapping.backend_key)
    BY <1>0, <1>10, <1>15 DEF UdpTrack, At, GoodLocals, UdpMapping, GoodMapping, ClientKey
  <2>3. Flight(tracked)
    BY <1>0 DEF Flight, Locals
  <2>4. UNCHANGED GATEWAY_INDEXES
    BY <1>15 DEF UdpTrack
  <2> QED
    BY <1>0, <1>1, <2>1, <2>2, <2>3, <2>4, InsertTracks DEF Moves
<1>16. CASE UdpAdvanceIndex(p)
  <2>1. l.pc = "udp_advance" /\ l.idx \in Nat
    BY <1>0, <1>16 DEF UdpAdvanceIndex, At, GoodLocals
  <2>2. \A i \in Deref(GATEWAY_INDEXES, l.vip, l.idx) : i \in Nat
    BY <2>1, ZenonT(30) DEF Deref, Keys, IInv, GoodIndexes
  <2>3. Moves
    BY <1>6, <1>16, <2>1, <2>2, Zenon DEF UdpAdvanceIndex, Moves
  <2> QED
    BY <1>0, <1>1, <1>3, <1>16, <2>3, Zenon DEF UdpAdvanceIndex, Return
<1>17. CASE \E c \in TcpClients, hdr \in Headers : TcpEgress(p, c, hdr)
  <2>1. PICK c \in TcpClients, hdr \in Headers : TcpEgress(p, c, hdr)
    BY <1>17
  <2> DEFINE pc == IF "RST" \in hdr THEN "egress_rst" ELSE "egress_update"
             found == [Idle EXCEPT !.pc = pc, !.client = c, !.hdr = hdr,
                                   !.lb_mapping = LB_CONNECTIONS[c]]
  <2>2. Flight(found)
    BY <1>2 DEF Flight, Idle, ClientKey
  <2> QED
    BY <1>1, <1>3, <2>1, <2>2 DEF TcpEgress, mapVars, Moves
<1>18. CASE EgressRst(p)
  <2> DEFINE after == [l EXCEPT !.pc = "egress_update"]
  <2>1. Flight(after) /\ l.client \in ClientKey
    BY <1>0, <1>18 DEF Flight, Locals, EgressRst, At, GoodLocals, ClientKey
  <2> QED
    BY <1>1, <1>18, <2>1, RemoveTracks DEF EgressRst, Moves
<1>19. CASE EgressUpdateConns(p)
  <2>1. /\ l.client \in ClientKey /\ GoodMapping(l.lb_mapping, configured)
        /\ Known(l.lb_mapping.backend_key)
    BY <1>0, <1>10, <1>19, Zenon DEF EgressUpdateConns, At, GoodLocals, GoodMapping, ClientKey
  <2>2. PICK m \in Deref(LB_CONNECTIONS, l.client, l.lb_mapping) :
           update_tcp_conns(p, l.client, m, l.hdr, Idle)
    BY <1>19, Zenon DEF EgressUpdateConns
  <2>3. GoodMapping(m, configured)
    BY <2>1, <2>2, DerefConnGood, Zenon DEF IInv
  <2>4. Known(m.backend_key)
    BY <1>0, <1>2, <2>1, <2>2 DEF Deref, Keys
  <2>5. UNCHANGED GATEWAY_INDEXES
    BY <1>19 DEF EgressUpdateConns
  <2> QED
    BY <1>0, <1>1, <2>1, <2>2, <2>3, <2>4, <2>5, UpdateTracks, Zenon DEF Moves
<1>20. CASE \E c \in UdpClients : IcmpEgress(p, c)
  <2>1. PICK c \in UdpClients : IcmpEgress(p, c)
    BY <1>20
  <2>2. Flight([Idle EXCEPT !.pc = "icmp_remove", !.client = c])
    BY DEF Flight, Idle
  <2> QED
    BY <1>1, <1>3, <2>1, <2>2 DEF IcmpEgress, mapVars, Moves
<1>21. CASE IcmpRemove(p)
  <2>1. l.client \in ClientKey
    BY <1>0, <1>21 DEF IcmpRemove, At, GoodLocals, ClientKey
  <2> QED
    BY <1>0, <1>1, <1>3, <1>21, <2>1, RemoveTracks, Zenon DEF IcmpRemove, Return, Moves
<1> QED
  BY <1>4, <1>5, <1>7, <1>8, <1>9, <1>11, <1>12, <1>13, <1>14, <1>15, <1>16, <1>17, <1>18,
     <1>19, <1>20, <1>21, ZenonT(30) DEF tc_ingress, tc_egress

\* A packet step is taken at, or leaves its CPU at, a step of a handler; so no
\* call is in progress.
LEMMA CalmPacket ==
    ASSUME IInv, NEW p \in Cpus, tc_ingress(p) \/ tc_egress(p), Apart, Apart', UNCHANGED rpc
    PROVE  \A r \in Rpcs : rpc[r].pc \in {"idle", "answer"}
<1>0. cpu = [q \in Cpus |-> cpu[q]]
  BY DEF IInv, GoodCpus
<1>1. CASE \E c \in TcpClients, v \in Vips, hdr \in Headers : TcpIngress(p, c, v, hdr)
  <2>1. cpu'[p].pc # "idle"
    BY <1>0, <1>1, ZenonT(30) DEF TcpIngress, Goto, Idle, Chosen
  <2> QED
    BY <2>1 DEF Apart, At
<1>2. CASE \E c \in UdpClients, v \in Vips : UdpIngress(p, c, v)
  <2>1. cpu'[p].pc # "idle"
    BY <1>0, <1>2, Zenon DEF UdpIngress, Goto, Idle
  <2> QED
    BY <2>1 DEF Apart, At
<1>3. CASE \E c \in TcpClients, hdr \in Headers : TcpEgress(p, c, hdr)
  <2>1. cpu'[p].pc # "idle"
    BY <1>0, <1>3, ZenonT(30) DEF TcpEgress, Goto, Idle
  <2> QED
    BY <2>1 DEF Apart, At
<1>4. CASE \E c \in UdpClients : IcmpEgress(p, c)
  <2>1. cpu'[p].pc # "idle"
    BY <1>0, <1>4, Zenon DEF IcmpEgress, Goto, Idle
  <2> QED
    BY <2>1 DEF Apart, At
<1>5. CASE ~At(p, "idle")
  BY <1>5 DEF Apart
<1> QED
  BY <1>1, <1>2, <1>3, <1>4, <1>5, Zenon
     DEF tc_ingress, tc_egress, At, TcpLookupBackends, TcpLookupIndex, TcpAdvanceIndex, TcpRst,
         TcpUpdateConns, TcpRecordConn, UdpLookupIndex, UdpTrack, UdpAdvanceIndex, EgressRst,
         EgressUpdateConns, IcmpRemove

\* A packet step, taken apart from all calls, keeps the invariant.
LEMMA ApartPacket ==
    ASSUME IInv, AInv, NEW p \in Cpus, tc_ingress(p) \/ tc_egress(p), UNCHANGED rpc, Apart'
    PROVE  AInv'
<1>0. \A r \in Rpcs : rpc[r].pc \in {"idle", "answer"}
  BY CalmPacket, Zenon DEF AInv
<1>1. \A k, pcs : pcs \cap {"idle", "answer"} = {} => ~Busy(k, pcs)
  BY <1>0, Zenon DEF Busy
<1>2. \A k \in Vips : Tracked(k) # {} => Known(k)
  BY <1>1 DEF AInv, Swept, Known, Deleting
<1>3. Flight(cpu[p])
  BY DEF AInv
<1>4. UNCHANGED BACKENDS /\ Flies(p) /\ Moves /\ Tracks
  BY <1>2, <1>3, FlightPacket
<1>5. \A k : Known(k) => Known(k)'
  <2>1. CASE UNCHANGED GATEWAY_INDEXES
    BY <1>4, <2>1 DEF Known
  <2>2. ASSUME NEW v \in Vips, NEW i \in Nat, BACKENDS[v] # None,
               GATEWAY_INDEXES' = Insert(GATEWAY_INDEXES, v, NextIndex(BACKENDS[v], i))
        PROVE  \A k : Known(k) => Known(k)'
    <3>1. NextIndex(BACKENDS[v], i) \in Nat
      BY DEF NextIndex
    <3>2. NextIndex(BACKENDS[v], i) # None
      BY <3>1, NoIndexAssumption, Zenon
    <3> QED
      BY <1>4, <2>2, <3>2 DEF Known, Insert, IInv, GoodIndexes
  <2> QED
    BY <1>4, <2>1, <2>2 DEF Moves
<1>6. \A q \in Cpus : Flight(cpu[q])'
  <2>1. PICK l : Goto(p, l) /\ Flight(l)
    BY <1>4 DEF Flies
  <2>2. \A q \in Cpus : Flight(cpu'[q])
    BY <2>1, Zenon DEF Goto, IInv, GoodCpus, AInv
  <2> QED
    BY <1>4, <1>5, <2>2 DEF Flight
<1>7. \A k \in Vips : Pointed(k)'
  <2> SUFFICES ASSUME NEW k \in Vips, Known(k)', BACKENDS[k].backends_len > 0
               PROVE  GATEWAY_INDEXES'[k] < BACKENDS[k].backends_len
    BY <1>4, Zenon DEF Pointed
  <2>1. CASE GATEWAY_INDEXES'[k] = GATEWAY_INDEXES[k]
    BY <1>1, <1>4, <2>1 DEF AInv, Pointed, Known
  <2>2. CASE \E i \in Nat : GATEWAY_INDEXES'[k] = NextIndex(BACKENDS[k], i)
    <3>1. BACKENDS[k].backends_len \in Nat
      BY <1>4, LengthGood DEF Known
    <3> QED
      BY <2>2, <3>1 DEF NextIndex
  <2> QED
    BY <1>4, <2>1, <2>2 DEF Moves, Insert, IInv, GoodIndexes
<1>8. \A k \in Vips : Swept(k)'
  <2> SUFFICES ASSUME NEW k \in Vips, Tracked(k)' # {}
               PROVE  Known(k)'
    BY DEF Swept, Known
  <2>1. PICK c \in ClientKey : LB_CONNECTIONS'[c] # None /\ LB_CONNECTIONS'[c].backend_key = k
    BY <1>4 DEF Tracked, Keys, Tracks
  <2>2. Known(k) \/ c \in Tracked(k)
    BY <1>4, <2>1 DEF Tracks, Tracked, Keys, IInv, GoodConns
  <2> QED
    BY <1>2, <1>5, <2>2, Zenon
<1>9. \A r \in Rpcs : ~In(r, "sweep")'
  BY <1>0 DEF In
<1> QED
  BY <1>6, <1>7, <1>8, <1>9, ZenonT(30) DEF AInv

\* What a step of a call leaves of the invariant to show: its own maps.
LEMMA ApartRest ==
    ASSUME IInv, AInv, NEW r \in Rpcs, UNCHANGED cpu, Apart',
           \A s \in Rpcs \ {r} : rpc'[s] = rpc[s],
           UNCHANGED mapVars \/ rpc[r].pc \notin {"idle", "answer"},
           \A k \in Vips : Swept(k)' /\ Pointed(k)',
           \A s \in Rpcs : (In(s, "sweep") => rpc[s].conns = Tracked(rpc[s].key))'
    PROVE  AInv'
<1>1. \A p \in Cpus : Flight(cpu[p])'
  <2>1. CASE UNCHANGED mapVars
    BY <2>1, Zenon DEF AInv, Flight, Known, mapVars
  <2>2. CASE rpc[r].pc \notin {"idle", "answer"}
    BY <2>2, Zenon DEF AInv, Flight, Apart, At
  <2> QED
    BY <2>1, <2>2, Zenon
<1> QED
  BY <1>1, ZenonT(30) DEF AInv

\* At most one call deletes at a time.
LEMMA OneDelete ==
    ASSUME IInv, NEW r \in Rpcs, NEW s \in Rpcs, rpc[r].pc \in Deleting, rpc[s].pc \in Deleting
    PROVE  r = s
BY DEF IInv, LockOrder, Deleting

\* A step that leaves the maps alone, by a call that neither was nor is at a step
\* that excuses a gap between them.
LEMMA ApartStart ==
    ASSUME IInv, AInv, NEW r \in Rpcs, UNCHANGED <<cpu, mapVars>>, Apart',
           \A s \in Rpcs \ {r} : rpc'[s] = rpc[s],
           rpc[r].pc \notin Deleting \cup {"reset_index"},
           rpc'[r].pc \notin Deleting \cup {"reset_index"}
    PROVE  AInv'
<1>1. \A k, pcs : pcs \subseteq Deleting \cup {"reset_index"} => (Busy(k, pcs) => Busy(k, pcs)')
  BY Zenon DEF Busy
<1>2. \A k : Busy(k, Deleting) => Busy(k, Deleting)'
  BY <1>1, Zenon
<1>3. \A k : Busy(k, {"collect", "sweep"}) => Busy(k, {"collect", "sweep"})'
  BY <1>1, Zenon DEF Deleting
<1>4. \A k : Busy(k, {"reset_index"}) => Busy(k, {"reset_index"})'
  BY <1>1
<1>5. \A k : UNCHANGED <<Tracked(k), Known(k)>>
  BY DEF mapVars, Tracked, Known
<1>6. \A k \in Vips : Swept(k)' /\ Pointed(k)'
  BY <1>2, <1>3, <1>4, <1>5, ZenonT(30) DEF AInv, Swept, Pointed, mapVars
<1>7. \A s \in Rpcs : (In(s, "sweep") => rpc[s].conns = Tracked(rpc[s].key))'
  BY <1>5, Zenon DEF AInv, In, Deleting
<1> QED
  BY <1>6, <1>7, ApartRest, Zenon

\* Each step of a call that is not abandoned and reads the whole table, taken apart
\* from all packets, keeps the invariant.
LEMMA ApartCall ==
    ASSUME IInv, AInv, ~Cancellable, ~IterFails, NEW r \in Rpcs, ApiStep(r), UNCHANGED cpu,
           Apart'
    PROVE  AInv'
<1>k. PICK k : k = rpc[r].key
  BY Zenon
<1> USE <1>k
<1> DEFINE Others == \A s \in Rpcs \ {r} : rpc'[s] = rpc[s]
<1>0. /\ rpc = [s \in Rpcs |-> rpc[s]] /\ rpc[r] \in Calls
      /\ rpc[r].pc \notin {"idle", "answer"} => k \in Vips
      /\ BACKENDS = [v \in Vips |-> BACKENDS[v]]
      /\ GATEWAY_INDEXES = [v \in Vips |-> GATEWAY_INDEXES[v]]
      /\ LB_CONNECTIONS = [d \in ClientKey |-> LB_CONNECTIONS[d]]
  BY DEF IInv, GoodCalls, GoodCall, GoodBackends, GoodIndexes, GoodConns
<1>a. ASSUME NEW answer, Answer(r, answer)
      PROVE  Others /\ rpc'[r].pc = "answer"
  BY <1>0, <1>a, Zenon DEF Answer, NoCall
<1>b. ASSUME NEW answer, Answer(r, answer), rpc[r].pc \notin Deleting \cup {"reset_index"},
             UNCHANGED mapVars
      PROVE  AInv'
  BY <1>a, <1>b, ApartStart DEF Deleting
\* No other call deletes while this one does.
<1>c. ASSUME rpc[r].pc \in Deleting
      PROVE  \A s \in Rpcs \ {r} : rpc[s].pc \notin Deleting
  BY <1>c, OneDelete
<1>1. ASSUME NEW v \in Vips \cup {None}, NEW targets \in TargetLists, update(r, v, targets)
      PROVE  AInv'
  <2>1. rpc[r].pc \notin Deleting \cup {"reset_index"} /\ UNCHANGED mapVars
    BY <1>1, Zenon DEF update, In, Deleting
  <2>2. CASE \E answer : Answer(r, answer)
    BY <1>b, <2>1, <2>2, Zenon
  <2>3. CASE rpc' = [rpc EXCEPT ![r] = [NoCall EXCEPT !.pc = "insert", !.key = v,
                                                      !.list = BackendListOf(targets)]]
    <3>1. Others /\ rpc'[r].pc = "insert"
      BY <1>0, <2>3, Zenon DEF NoCall
    <3> QED
      BY <2>1, <3>1, ApartStart DEF Deleting
  <2> QED
    BY <1>1, <2>2, <2>3 DEF update
<1>2. ASSUME NEW v \in Vips, delete(r, v)
      PROVE  AInv'
  <2>1. /\ rpc[r].pc \notin Deleting \cup {"reset_index"} /\ UNCHANGED mapVars
        /\ Others /\ rpc'[r].pc = "remove_backends"
    BY <1>0, <1>2, Zenon DEF delete, In, NoCall, Deleting
  <2> QED
    BY <2>1, ApartStart DEF Deleting
<1>3. CASE Reply(r)
  <2>1. /\ rpc[r].pc \notin Deleting \cup {"reset_index"} /\ UNCHANGED mapVars
        /\ Others /\ rpc'[r].pc = "idle"
    BY <1>0, <1>3 DEF Reply, In, NoCall, Deleting
  <2> QED
    BY <2>1, ApartStart, Zenon DEF Deleting
<1>4. CASE UpdateInsert(r)
  <2>0. rpc[r].pc = "insert" /\ k \in Vips /\ UNCHANGED <<GATEWAY_INDEXES, LB_CONNECTIONS>>
    BY <1>0, <1>4 DEF UpdateInsert, In
  <2>1. CASE Answer(r, "internal") /\ UNCHANGED BACKENDS
    BY <1>b, <2>0, <2>1, Zenon DEF Deleting, mapVars
  <2>2. CASE /\ BACKENDS' = Insert(BACKENDS, k, rpc[r].list)
             /\ rpc' = [rpc EXCEPT ![r].pc = "reset_index", ![r].list = None]
    <3>1. Others /\ rpc'[r].pc = "reset_index" /\ rpc'[r].key = k
      BY <1>0, <2>2, Zenon DEF Calls
    <3>2. rpc[r].list # None
      BY <2>0, NoneAssumption, Zenon DEF IInv, GoodCalls, GoodCall
    <3>3. \A v : UNCHANGED Tracked(v)
      BY <2>0 DEF Tracked
    <3>4. \A v, pcs : r \in Rpcs /\ "insert" \notin pcs /\ Busy(v, pcs) => Busy(v, pcs)'
      BY <2>0, <3>1, Zenon DEF Busy
    <3>5. Busy(k, {"reset_index"})'
      BY <3>1 DEF Busy
    <3>6. \A v \in Vips : v # k => BACKENDS'[v] = BACKENDS[v]
      BY <1>0, <2>2 DEF Insert
    <3>7. BACKENDS'[k] # None
      BY <1>0, <2>0, <2>2, <3>2, Zenon DEF Insert
    <3>8. \A v \in Vips : Swept(v)' /\ Pointed(v)'
      <4>1. \A v : /\ Busy(v, Deleting) => Busy(v, Deleting)'
                   /\ Busy(v, {"collect", "sweep"}) => Busy(v, {"collect", "sweep"})'
                   /\ Busy(v, {"reset_index"}) => Busy(v, {"reset_index"})'
        BY <3>4 DEF Deleting
      <4>2. Swept(k)' /\ Pointed(k)'
        BY <2>0, <3>3, <3>5, <3>7, <4>1, ZenonT(30) DEF AInv, Swept, Pointed
      <4>3. ASSUME NEW v \in Vips, v # k
            PROVE  Swept(v)' /\ Pointed(v)'
        BY <2>0, <3>3, <3>6, <4>1, <4>3, ZenonT(30) DEF AInv, Swept, Pointed, Known
      <4> QED
        BY <4>2, <4>3
    <3>9. \A s \in Rpcs : (In(s, "sweep") => rpc[s].conns = Tracked(rpc[s].key))'
      BY <3>1, <3>3, Zenon DEF AInv, In
    <3> QED
      BY <2>0, <3>1, <3>8, <3>9, ApartRest
  <2> QED
    BY <1>4, <2>1, <2>2 DEF UpdateInsert
<1>5. CASE UpdateResetIndex(r)
  <2>0. /\ rpc[r].pc = "reset_index" /\ k \in Vips /\ UNCHANGED <<BACKENDS, LB_CONNECTIONS>>
        /\ Others /\ rpc'[r].pc = "answer"
    BY <1>0, <1>5, <1>a, Zenon DEF UpdateResetIndex, In
  <2>1. /\ \A v \in Vips : v # k => GATEWAY_INDEXES'[v] = GATEWAY_INDEXES[v]
        /\ GATEWAY_INDEXES'[k] = 0 \/ (GATEWAY_INDEXES'[k] = None /\ GATEWAY_INDEXES[k] = None)
    BY <1>0, <1>5, <2>0, Zenon DEF UpdateResetIndex, Insert, CanInsert
  <2>2. \A v : UNCHANGED Tracked(v)
    BY <2>0, Zenon DEF Tracked
  <2>3. \A v : /\ Busy(v, Deleting) => Busy(v, Deleting)'
               /\ Busy(v, {"collect", "sweep"}) => Busy(v, {"collect", "sweep"})'
               /\ v # k /\ Busy(v, {"reset_index"}) => Busy(v, {"reset_index"})'
    BY <2>0 DEF Busy, Deleting
  <2>4. 0 # None
    BY NoIndexAssumption
  <2>5. ASSUME NEW v \in Vips
        PROVE  Swept(v)'
    <3>1. GATEWAY_INDEXES[v] # None => GATEWAY_INDEXES'[v] # None
      BY <2>1, <2>4, Zenon
    <3> QED
      BY <2>0, <2>2, <2>3, <3>1 DEF AInv, Swept
  <2>6. Pointed(k)'
    <3>1. BACKENDS[k] # None => BACKENDS[k].backends_len \in Nat
      BY <2>0, LengthGood, Zenon
    <3>2. UNCHANGED BACKENDS
      BY <2>0, Zenon
    <3>3. ASSUME NEW n \in Nat, n > 0
          PROVE  0 < n
      BY <3>3
    <3> QED
      BY <2>1, <3>1, <3>2, <3>3, Zenon DEF Pointed, Known
  <2>7. \A v \in Vips : v # k => Pointed(v)'
    BY <2>0, <2>1, <2>3, ZenonT(30) DEF AInv, Pointed, Known
  <2>8. \A s \in Rpcs : (In(s, "sweep") => rpc[s].conns = Tracked(rpc[s].key))'
    BY <2>0, <2>2, Zenon DEF AInv, In
  <2>9. \A v \in Vips : Swept(v)' /\ Pointed(v)'
    BY <2>5, <2>6, <2>7, Zenon
  <2> QED
    BY <2>0, <2>8, <2>9, ApartRest, Zenon
<1>6. CASE DeleteBackends(r)
  <2>0. /\ rpc[r].pc = "remove_backends" /\ k \in Vips
        /\ UNCHANGED <<GATEWAY_INDEXES, LB_CONNECTIONS>>
    BY <1>0, <1>6, Zenon DEF DeleteBackends, In
  <2>1. CASE AnswerError(r) /\ UNCHANGED BACKENDS
    BY <1>b, <2>0, <2>1, Zenon DEF AnswerError, Deleting, mapVars
  <2>2. CASE /\ BACKENDS' = Remove(BACKENDS, k)
             /\ rpc' = [rpc EXCEPT ![r].pc = "remove_index", ![r].removed = TRUE]
    <3>1. Others /\ rpc'[r].pc = "remove_index" /\ rpc'[r].key = k
      BY <1>0, <2>2 DEF Calls
    <3>2. \A v : UNCHANGED Tracked(v)
      BY <2>0, Zenon DEF Tracked
    <3>3. \A v : /\ Busy(v, Deleting) => Busy(v, Deleting)'
                 /\ Busy(v, {"collect", "sweep"}) => Busy(v, {"collect", "sweep"})'
                 /\ Busy(v, {"reset_index"}) => Busy(v, {"reset_index"})'
      BY <2>0, <3>1 DEF Busy, Deleting
    <3>4. Busy(k, Deleting)'
      BY <3>1 DEF Busy, Deleting
    <3>5. /\ \A v \in Vips : v # k => BACKENDS'[v] = BACKENDS[v]
          /\ BACKENDS'[k] = None
      BY <1>0, <2>0, <2>2 DEF Remove
    <3>6. \A v \in Vips : Swept(v)' /\ Pointed(v)'
      <4>1. Swept(k)' /\ Pointed(k)'
        BY <2>0, <3>2, <3>3, <3>4, <3>5, ZenonT(30) DEF AInv, Swept, Pointed, Known
      <4>2. ASSUME NEW v \in Vips, v # k
            PROVE  Swept(v)' /\ Pointed(v)'
        BY <2>0, <3>2, <3>3, <3>5, <4>2, ZenonT(30) DEF AInv, Swept, Pointed, Known
      <4> QED
        BY <4>1, <4>2
    <3>7. \A s \in Rpcs : (In(s, "sweep") => rpc[s].conns = Tracked(rpc[s].key))'
      BY <3>1, <3>2 DEF AInv, In
    <3> QED
      BY <2>0, <3>1, <3>6, <3>7, ApartRest, Zenon
  <2> QED
    BY <1>6, <2>1, <2>2, Zenon DEF DeleteBackends
<1>7. CASE DeleteIndex(r)
  <2>0. /\ rpc[r].pc = "remove_index" /\ k \in Vips /\ UNCHANGED <<BACKENDS, LB_CONNECTIONS>>
    BY <1>0, <1>7, ZenonT(30) DEF DeleteIndex, In
  <2>1. /\ BACKENDS[k] = None
        /\ \A s \in Rpcs \ {r} : rpc[s].pc \notin Deleting
    BY <1>c, <2>0 DEF IInv, NotListedWhileDeleting, Deleting
  <2>2. \A v : UNCHANGED Tracked(v)
    BY <2>0, Zenon DEF Tracked
  \* Without an index there is nothing to sweep.
  <2>3. CASE GATEWAY_INDEXES[k] = None /\ AnswerError(r) /\ UNCHANGED GATEWAY_INDEXES
    <3>1. Others /\ rpc'[r].pc = "answer"
      BY <1>a, <2>3, ZenonT(30) DEF AnswerError
    <3>2. Tracked(k) = {}
      BY <2>0, <2>1, <2>3, ZenonT(30) DEF AInv, Swept, Busy, Deleting
    <3>3. \A v : /\ v # k /\ Busy(v, Deleting) => Busy(v, Deleting)'
                 /\ v # k /\ Busy(v, {"collect", "sweep"}) => Busy(v, {"collect", "sweep"})'
                 /\ Busy(v, {"reset_index"}) => Busy(v, {"reset_index"})'
      BY <2>0, <3>1 DEF Busy, Deleting
    <3>4. \A v \in Vips : Swept(v)' /\ Pointed(v)'
      BY <2>0, <2>2, <2>3, <3>2, <3>3, ZenonT(30) DEF AInv, Swept, Pointed, Known
    <3>5. \A s \in Rpcs : (In(s, "sweep") => rpc[s].conns = Tracked(rpc[s].key))'
      BY <2>2, <3>1 DEF AInv, In
    <3> QED
      BY <2>0, <3>1, <3>4, <3>5, ApartRest
  <2>4. CASE /\ GATEWAY_INDEXES' = Remove(GATEWAY_INDEXES, k)
             /\ rpc' = [rpc EXCEPT ![r].pc = "collect"]
    <3>1. Others /\ rpc'[r].pc = "collect" /\ rpc'[r].key = k
      BY <1>0, <2>4, Zenon DEF Calls
    <3>2. \A v : /\ Busy(v, Deleting) => Busy(v, Deleting)'
                 /\ Busy(v, {"collect", "sweep"}) => Busy(v, {"collect", "sweep"})'
                 /\ Busy(v, {"reset_index"}) => Busy(v, {"reset_index"})'
      BY <2>0, <3>1, Zenon DEF Busy, Deleting
    <3>3. Busy(k, {"collect", "sweep"})'
      BY <3>1 DEF Busy
    <3>4. /\ \A v \in Vips : v # k => GATEWAY_INDEXES'[v] = GATEWAY_INDEXES[v]
          /\ GATEWAY_INDEXES'[k] = None
      BY <1>0, <2>0, <2>4 DEF Remove
    <3>5. \A v \in Vips : Swept(v)' /\ Pointed(v)'
      <4>1. Swept(k)' /\ Pointed(k)'
        BY <2>0, <2>2, <3>2, <3>3, <3>4, ZenonT(30) DEF AInv, Swept, Pointed, Known
      <4>2. ASSUME NEW v \in Vips, v # k
            PROVE  Swept(v)' /\ Pointed(v)'
        BY <2>0, <2>2, <3>2, <3>4, <4>2, ZenonT(30) DEF AInv, Swept, Pointed, Known
      <4> QED
        BY <4>1, <4>2
    <3>6. \A s \in Rpcs : (In(s, "sweep") => rpc[s].conns = Tracked(rpc[s].key))'
      BY <2>2, <3>1, Zenon DEF AInv, In
    <3> QED
      BY <2>0, <3>1, <3>5, <3>6, ApartRest, Zenon
  <2> QED
    BY <1>7, <2>3, <2>4, Zenon DEF DeleteIndex
<1>8. CASE DeleteCollect(r)
  <2>0. rpc[r].pc = "collect" /\ UNCHANGED <<BACKENDS, GATEWAY_INDEXES, LB_CONNECTIONS>>
    BY <1>8 DEF DeleteCollect, In, mapVars
  <2>1. /\ Others /\ rpc'[r].pc = "sweep" /\ rpc'[r].key = k /\ rpc'[r].conns = Tracked(k)
    BY <1>0, <1>8, Zenon DEF DeleteCollect, Calls
  <2>2. \A v : UNCHANGED Tracked(v)
    BY <2>0 DEF Tracked
  <2>3. \A v : /\ Busy(v, Deleting) => Busy(v, Deleting)'
               /\ Busy(v, {"collect", "sweep"}) => Busy(v, {"collect", "sweep"})'
               /\ Busy(v, {"reset_index"}) => Busy(v, {"reset_index"})'
    BY <2>0, <2>1, ZenonT(30) DEF Busy, Deleting
  <2>4. \A v \in Vips : Swept(v)' /\ Pointed(v)'
    BY <2>0, <2>2, <2>3, ZenonT(30) DEF AInv, Swept, Pointed, Known
  <2>5. \A s \in Rpcs : (In(s, "sweep") => rpc[s].conns = Tracked(rpc[s].key))'
    BY <2>1, <2>2 DEF AInv, In
  <2> QED
    BY <2>0, <2>1, <2>4, <2>5, ApartRest, Zenon
<1>9. CASE DeleteSweep(r)
  <2>0. /\ rpc[r].pc = "sweep" /\ k \in Vips /\ UNCHANGED <<BACKENDS, GATEWAY_INDEXES>>
        /\ rpc[r].conns = Tracked(k)
    BY <1>0, <1>9, Zenon DEF DeleteSweep, In, AInv
  <2>1. \A s \in Rpcs \ {r} : rpc[s].pc \notin Deleting
    BY <1>c, <2>0, Zenon DEF Deleting
  \* No packet has untracked a client of the copy, so no removal fails.
  <2>2. \A c \in rpc[r].conns : LB_CONNECTIONS[c] # None
    BY <2>0, Zenon DEF Tracked, Keys
  <2>3. ASSUME NEW c \in rpc[r].conns, LB_CONNECTIONS' = Remove(LB_CONNECTIONS, c),
               rpc' = [rpc EXCEPT ![r].conns = @ \ {c}]
        PROVE  AInv'
    <3>1. /\ Others /\ rpc'[r].pc = "sweep" /\ rpc'[r].key = k
          /\ rpc'[r].conns = rpc[r].conns \ {c}
      BY <1>0, <2>0, <2>3 DEF Calls
    <3>2. \A v : Tracked(v)' = Tracked(v) \ {c}
      BY <1>0, <2>3, Zenon DEF Tracked, Keys, Remove
    <3>3. \A v : /\ Busy(v, Deleting) => Busy(v, Deleting)'
                 /\ Busy(v, {"collect", "sweep"}) => Busy(v, {"collect", "sweep"})'
                 /\ Busy(v, {"reset_index"}) => Busy(v, {"reset_index"})'
      BY <2>0, <3>1 DEF Busy, Deleting
    <3>4. \A v \in Vips : Swept(v)' /\ Pointed(v)'
      BY <2>0, <3>2, <3>3, ZenonT(30) DEF AInv, Swept, Pointed, Known
    <3>5. \A s \in Rpcs : (In(s, "sweep") => rpc[s].conns = Tracked(rpc[s].key))'
      BY <2>0, <2>1, <3>1, <3>2, ZenonT(30) DEF In, Deleting
    <3> QED
      BY <2>0, <3>1, <3>4, <3>5, ApartRest, Zenon
  <2>4. CASE rpc[r].conns = {} /\ Answer(r, "deleted") /\ UNCHANGED LB_CONNECTIONS
    <3>1. Others /\ rpc'[r].pc = "answer"
      BY <1>a, <2>4
    <3>2. Tracked(k) = {} /\ \A v : UNCHANGED Tracked(v)
      BY <2>0, <2>4, Zenon DEF Tracked
    <3>3. \A v : /\ v # k /\ Busy(v, Deleting) => Busy(v, Deleting)'
                 /\ v # k /\ Busy(v, {"collect", "sweep"}) => Busy(v, {"collect", "sweep"})'
                 /\ Busy(v, {"reset_index"}) => Busy(v, {"reset_index"})'
      BY <2>0, <3>1, Zenon DEF Busy, Deleting
    <3>4. \A v \in Vips : Swept(v)' /\ Pointed(v)'
      BY <2>0, <3>2, <3>3, ZenonT(30) DEF AInv, Swept, Pointed, Known
    <3>5. \A s \in Rpcs : (In(s, "sweep") => rpc[s].conns = Tracked(rpc[s].key))'
      BY <3>1, <3>2, Zenon DEF AInv, In
    <3> QED
      BY <2>0, <3>1, <3>4, <3>5, ApartRest, Zenon
  <2> QED
    BY <1>9, <2>2, <2>3, <2>4, Zenon DEF DeleteSweep
<1> QED
  BY <1>1, <1>2, <1>3, <1>4, <1>5, <1>6, <1>7, <1>8, <1>9 DEF ApiStep, Progress, Cancel

\* The strengthened invariant holds while packets and calls stay apart, no call is
\* abandoned and no iteration of the table fails.
LEMMA ApartInvariance == ~Cancellable /\ ~IterFails => (ApartSpec => [](IInv /\ AInv))
<1> SUFFICES ASSUME ~Cancellable, ~IterFails
             PROVE  ApartSpec => [](IInv /\ AInv)
  OBVIOUS
<1>1. Init => AInv
  <2> SUFFICES ASSUME Init
               PROVE  AInv
    BY Zenon
  <2>1. /\ \A p \in Cpus : cpu[p] = Idle
        /\ \A r \in Rpcs : rpc[r].pc = "idle"
        /\ \A k : Tracked(k) = {}
        /\ \A k \in Vips : BACKENDS[k] = None
    BY DEF Init, EbpfInit, ApiInit, MapsInit, NoCall, Tracked, Keys
  <2>2. Apart
    BY <2>1, Zenon DEF Apart
  <2> QED
    BY <2>1, <2>2, IdleFlies, Zenon DEF AInv, Swept, Pointed, Known, In
<1>2. IInv /\ AInv /\ [Next /\ Apart']_vars => AInv'
  <2> SUFFICES ASSUME IInv, AInv, [Next /\ Apart']_vars
               PROVE  AInv'
    OBVIOUS
  <2>1. CASE EbpfNext /\ UNCHANGED apiVars /\ Apart'
    BY <2>1, ApartPacket DEF EbpfNext, apiVars
  <2>2. CASE ApiNext /\ UNCHANGED cpu /\ Apart'
    BY <2>2, ApartCall, Zenon DEF ApiNext
  <2>3. CASE UNCHANGED vars
    <3>1. UNCHANGED <<cpu, mapVars, rpc>>
      BY <2>3, Zenon DEF vars, apiVars
    <3>2. \A k, pcs : UNCHANGED <<Busy(k, pcs), Tracked(k), Known(k)>>
      BY <3>1 DEF Busy, Tracked, Known, mapVars
    <3>3. \A k \in Vips : Swept(k)' /\ Pointed(k)'
      BY <3>1, <3>2, ZenonT(30) DEF AInv, Swept, Pointed, mapVars
    <3>4. \A p \in Cpus : Flight(cpu[p])'
      BY <3>1, <3>2, Zenon DEF AInv, Flight, mapVars
    <3> QED
      BY <3>1, <3>2, <3>3, <3>4, Zenon DEF AInv, Apart, At, In
  <2> QED
    BY <2>1, <2>2, <2>3 DEF Next
<1>3. [Next /\ Apart']_vars => [Next]_vars
  OBVIOUS
<1> QED
  BY <1>1, <1>2, <1>3, InitGood, NextGood, PTL DEF ApartSpec

\* A delete that no packet overlaps and no client abandons leaves no connection
\* of its VIP behind, whatever other calls run with it: what the source says of
\* BackendService::remove fails only when packets run during the call, when the
\* call is dropped between two of its steps, or when the table cannot be read.
THEOREM ApartDeletesUntrack ==
    ASSUME ~Cancellable, ~IterFails
    PROVE  ApartSpec => []DeletedVipIsUntracked
<1>1. IInv /\ AInv => DeletedVipIsUntracked
  <2> SUFFICES ASSUME AInv, Quiescent, NEW k \in Vips, BACKENDS[k] = None
               PROVE  Tracked(k) = {}
    BY DEF DeletedVipIsUntracked
  <2>1. ~Busy(k, Deleting)
    BY Zenon DEF Busy, Quiescent, In, Deleting
  <2> QED
    BY <2>1, Zenon DEF AInv, Swept
<1> QED
  BY <1>1, ApartInvariance, PTL

\* When packets and calls stay apart, no update is abandoned between writing its
\* list and resetting the index, and every delete reads the whole table, the index of a VIP that has backends is the
\* position of one of them, whatever handlers on other CPUs do to it between a
\* handler's lookup and its write.
THEOREM ApartIndexPoints ==
    ASSUME ~Cancellable, ~IterFails
    PROVE  ApartSpec => []IndexPointsIntoList
<1>1. IInv /\ AInv => IndexPointsIntoList
  <2> SUFFICES ASSUME IInv, AInv, Quiescent,
                      NEW k \in Keys(BACKENDS) \cap Keys(GATEWAY_INDEXES),
                      BACKENDS[k].backends_len > 0
               PROVE  GATEWAY_INDEXES[k] < BACKENDS[k].backends_len
    BY DEF IndexPointsIntoList
  <2>1. k \in Vips /\ Known(k)
    BY Zenon DEF Keys, Known, IInv, GoodBackends
  <2>2. ~Busy(k, {"reset_index"})
    BY DEF Busy, Quiescent, In
  <2> QED
    BY <2>1, <2>2, Zenon DEF AInv, Pointed
<1> QED
  BY <1>1, ApartInvariance, PTL

=============================================================================
