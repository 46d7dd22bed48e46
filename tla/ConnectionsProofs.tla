-------------------------- MODULE ConnectionsProofs -------------------------
(***************************************************************************)
(* Proofs, for any number of CPUs, calls, clients and VIPs and with the    *)
(* packets of both directions on any of the CPUs, that the dataplane       *)
(* implements the table of Connections, where a client that has two        *)
(* packets in hand counts as forgotten, and that a client's RST ends the   *)
(* tracking of an established connection when it is alone.                 *)
(*                                                                         *)
(* To the invariant of DataplaneProofs comes that overlapped has the       *)
(* clients with two handlers, and none without a handler, and that the     *)
(* copy of its client's entry that a handler has is current unless the     *)
(* client is in it: the entry is what was read, or gone.                   *)
(***************************************************************************)
EXTENDS DataplaneProofs, OverlapHistory

\* What a handler of a TCP client's packet may assume of the client's entry.
Current(l, map) ==
    l.client \in TcpClients =>
        /\ map[l.client] # None =>
              /\ l.new_conn => l.pc = "tcp_record"
              /\ map[l.client] = l.lb_mapping
        /\ l.pc = "tcp_update" /\ "RST" \in l.hdr => map[l.client] = None

\* A CPU that handles no packet has no client.
Resting(l) == l.pc = "idle" => l.client = None

SInv ==
    /\ IInv
    /\ overlapped \subseteq TcpClients
    /\ \A c \in overlapped : Handlers(c) # {}
    /\ \A p, q \in Cpus : cpu[p].client = cpu[q].client /\ cpu[p].client \in TcpClients
                          => p = q \/ cpu[p].client \in overlapped
    /\ \A p \in Cpus : Resting(cpu[p])
    /\ \A p \in Cpus : cpu[p].client \notin overlapped => Current(cpu[p], LB_CONNECTIONS)

TableStep == Conn!Next \/ UNCHANGED Conn!connVars

\* The entry of a client in the abstract table.
Entry(c) == IF c \in overlapped THEN None ELSE LB_CONNECTIONS[c]

\* What may become of an entry: it stays, it goes, it comes, or it advances.
EntryStep(old, new) ==
    \/ new \in {old, None}
    \/ old = None /\ OpenMapping(new, configured)
    \/ old # None /\ \E s \in Conn!Follows[old.tcp_state] : new = [old EXCEPT !.tcp_state = s]

\* A step of a packet program: it changes the entry of its client only, and, if its
\* copy of that was current, as the table may, and goes on with a current one.
PacketStep(p) ==
    \E c, l :
        /\ Goto(p, l) /\ Resting(l)
        /\ cpu[p].client \in {c, None} /\ l.client \in {c, None}
        /\ \A d \in TcpClients : d # cpu[p].client => LB_CONNECTIONS'[d] = LB_CONNECTIONS[d]
        /\ Current(cpu[p], LB_CONNECTIONS) =>
              /\ Current(l, LB_CONNECTIONS')
              /\ c \in TcpClients => EntryStep(LB_CONNECTIONS[c], LB_CONNECTIONS'[c])

-----------------------------------------------------------------------------
\* A step that changes one entry of the abstract table, as it may, is a step of it.
LEMMA EntryIsStep ==
    ASSUME UNCHANGED configured, NEW c \in TcpClients,
           \A d \in TcpClients \ {c} : Entry(d)' = Entry(d), EntryStep(Entry(c), Entry(c)')
    PROVE  TableStep
<1> DEFINE table == [d \in TcpClients |-> IF d \in overlapped THEN None ELSE LB_CONNECTIONS[d]]
<1>1. table[c] = Entry(c) /\ table' = [table EXCEPT ![c] = Entry(c)']
  BY Zenon DEF Entry
<1> HIDE DEF table
<1>2. CASE Entry(c)' = Entry(c)
  <2>1. table' = table
    BY <1>1, <1>2, Zenon DEF table
  <2> QED
    BY <2>1 DEF TableStep, Conn!connVars, table
<1>3. CASE Entry(c)' = None
  BY <1>1, <1>3, Zenon DEF TableStep, Conn!Next, Conn!Untrack, table
<1>4. ASSUME NEW m, m = Entry(c)', Entry(c) = None, OpenMapping(m, configured)
      PROVE  TableStep
  <2>1. /\ m = [backend |-> m.backend, backend_key |-> m.backend_key, tcp_state |-> m.tcp_state]
        /\ m.backend \in configured /\ m.backend_key \in Vips /\ m.tcp_state \in Conn!Open
    BY <1>4 DEF OpenMapping, GoodMapping, LoadBalancerMapping, Conn!Open, Conn!TCPState, TCPState
  <2>2. Conn!Track(c)
    BY <1>1, <1>4, <2>1, Zenon DEF Conn!Track, table
  <2> QED
    BY <2>2 DEF TableStep, Conn!Next
<1>5. ASSUME Entry(c) # None,
             NEW s \in Conn!Follows[Entry(c).tcp_state], Entry(c)' = [Entry(c) EXCEPT !.tcp_state = s]
      PROVE  TableStep
  <2>1. table' = [table EXCEPT ![c] = [@ EXCEPT !.tcp_state = s]]
    BY <1>1, <1>5, Zenon DEF table
  <2>2. Conn!Advance(c)
    BY <1>1, <1>5, <2>1, Zenon DEF Conn!Advance, table
  <2> QED
    BY <2>2 DEF TableStep, Conn!Next
<1> QED
  BY <1>2, <1>3, <1>4, <1>5 DEF EntryStep

\* A step that leaves the abstract entries alone is no step of the table.
LEMMA TableUnchanged ==
    ASSUME UNCHANGED configured, \A c \in TcpClients : Entry(c)' = Entry(c)
    PROVE  TableStep
BY DEF TableStep, Conn!connVars, Entry

\* The history follows a step that changes no handler's client but p's, from c or to
\* it: only c can come into overlapped or leave it, and if c was in it, it is while
\* there is a handler of it.
LEMMA HistoryStep ==
    ASSUME SInv, OverlapNext, NEW p \in Cpus, NEW c, NEW l, Goto(p, l),
           cpu[p].client \in {c, None}, l.client \in {c, None}
    PROVE  /\ overlapped' \subseteq TcpClients
           /\ \A d \in overlapped' : Handlers(d)' # {}
           /\ \A q, i \in Cpus : cpu'[q].client = cpu'[i].client /\ cpu'[q].client \in TcpClients
                                 => q = i \/ cpu'[q].client \in overlapped'
           /\ \A d \in TcpClients \ {c} : d \in overlapped' <=> d \in overlapped
           /\ \A q \in Cpus : cpu'[q].client \in overlapped => cpu'[q].client \in overlapped'
<1>0. /\ \A q \in Cpus \ {p} : cpu'[q] = cpu[q]
      /\ cpu'[p] = l
  BY DEF Goto, SInv, IInv, GoodCpus
<1>1. /\ overlapped' \subseteq TcpClients
      /\ \A d \in TcpClients : d \in overlapped' <=>
            \/ \E q, i \in Handlers(d)' : q # i
            \/ d \in overlapped /\ Handlers(d)' # {}
  BY DEF OverlapNext
<1>2. \A d \in TcpClients \ {c} : Handlers(d)' = Handlers(d)
  BY <1>0, MapsAssumption DEF Handlers
<1>3. \A d \in TcpClients : (\E q, i \in Handlers(d) : q # i) => d \in overlapped
  BY DEF SInv, Handlers
<1>4. \A d \in TcpClients \ {c} : d \in overlapped' <=> d \in overlapped
  BY <1>1, <1>2, <1>3 DEF SInv
<1>5. \A d \in overlapped' : Handlers(d)' # {}
  BY <1>1
<1>6. \A d, q : q \in Handlers(d)' <=> q \in Cpus /\ cpu'[q].client = d
  BY DEF Handlers
<1>7. \A q, i \in Cpus : cpu'[q].client = cpu'[i].client /\ cpu'[q].client \in TcpClients
                        => q = i \/ cpu'[q].client \in overlapped'
  BY <1>1, <1>6
<1>8. \A q \in Cpus : cpu'[q].client \in overlapped => cpu'[q].client \in overlapped'
  BY <1>1, <1>6, Zenon DEF SInv
<1> QED
  BY <1>1, <1>4, <1>5, <1>7, <1>8

\* A step of a packet program is a step of the abstract table, and keeps the copies
\* current.
LEMMA PacketRefines ==
    ASSUME SInv, IInv', OverlapNext, UNCHANGED configured, NEW p \in Cpus, PacketStep(p)
    PROVE  SInv' /\ TableStep
<1>1. PICK c, l :
        /\ Goto(p, l) /\ Resting(l)
        /\ cpu[p].client \in {c, None} /\ l.client \in {c, None}
        /\ \A d \in TcpClients : d # cpu[p].client => LB_CONNECTIONS'[d] = LB_CONNECTIONS[d]
        /\ Current(cpu[p], LB_CONNECTIONS) =>
              /\ Current(l, LB_CONNECTIONS')
              /\ c \in TcpClients => EntryStep(LB_CONNECTIONS[c], LB_CONNECTIONS'[c])
  BY Zenon DEF PacketStep
<1>2. /\ overlapped' \subseteq TcpClients
      /\ \A d \in overlapped' : Handlers(d)' # {}
      /\ \A q, i \in Cpus : cpu'[q].client = cpu'[i].client /\ cpu'[q].client \in TcpClients
                            => q = i \/ cpu'[q].client \in overlapped'
      /\ \A d \in TcpClients \ {c} : d \in overlapped' <=> d \in overlapped
      /\ \A q \in Cpus : cpu'[q].client \in overlapped => cpu'[q].client \in overlapped'
  BY <1>1, HistoryStep
<1>3. /\ \A q \in Cpus \ {p} : cpu'[q] = cpu[q]
      /\ cpu'[p] = l
  BY <1>1 DEF Goto, SInv, IInv, GoodCpus
<1>4. \A q \in Cpus : Resting(cpu'[q])
  BY <1>1, <1>3 DEF SInv
<1>5. None \notin TcpClients /\ TcpClients \subseteq ClientKey
  BY MapsAssumption DEF ClientKey
\* If p's copy may be stale, its client is in overlapped.
<1>6. cpu[p].client \notin overlapped => Current(cpu[p], LB_CONNECTIONS)
  BY DEF SInv
<1>7. ASSUME NEW q \in Cpus, cpu'[q].client \notin overlapped'
      PROVE  Current(cpu'[q], LB_CONNECTIONS')
  <2>1. CASE q = p
    <3>1. CASE l.client = None
      BY <1>3, <1>5, <2>1, <3>1 DEF Current
    <3>2. CASE l.client = c /\ c \notin overlapped
      <4>1. cpu[p].client \notin overlapped
        BY <1>1, <1>5, <3>2 DEF SInv
      <4> QED
        BY <1>1, <1>3, <1>6, <2>1, <4>1
    <3> QED
      BY <1>1, <1>2, <1>3, <1>7, <2>1, <3>1, <3>2
  <2>2. CASE q # p
    <3>1. cpu'[q] = cpu[q] /\ cpu[q].client \notin overlapped
      BY <1>2, <1>3, <1>7, <2>2
    <3>2. Current(cpu[q], LB_CONNECTIONS)
      BY <3>1 DEF SInv
    <3>3. CASE cpu[q].client \in TcpClients /\ cpu[q].client = c
      \* p had no packet of c yet, so it does not touch c's entry.
      <4>1. cpu[p].client = None
        BY <1>1, <2>2, <3>1, <3>3 DEF SInv
      <4> QED
        BY <1>1, <1>5, <3>1, <3>2, <3>3, <4>1 DEF Current
    <3>4. CASE cpu[q].client \in TcpClients /\ cpu[q].client # c
      BY <1>1, <1>5, <3>1, <3>2, <3>4 DEF Current
    <3>5. CASE cpu[q].client \notin TcpClients
      BY <3>1, <3>5 DEF Current
    <3> QED
      BY <3>3, <3>4, <3>5
  <2> QED
    BY <2>1, <2>2
<1>8. TableStep
  <2>1. \A d \in TcpClients \ {c} : Entry(d)' = Entry(d)
    BY <1>1, <1>2, <1>5 DEF Entry
  <2>2. CASE c \in TcpClients
    <3>1. CASE c \in overlapped
      <4>1. Entry(c) = None /\ Entry(c)' \in {None, LB_CONNECTIONS'[c]}
        BY <3>1 DEF Entry
      <4>2. LB_CONNECTIONS'[c] # None => OpenMapping(LB_CONNECTIONS'[c], configured)
        BY <1>5, <2>2 DEF IInv, GoodConns, ClientMapping
      <4> QED
        BY <2>1, <2>2, <4>1, <4>2, EntryIsStep DEF EntryStep
    <3>2. CASE c \notin overlapped
      <4>1. EntryStep(LB_CONNECTIONS[c], LB_CONNECTIONS'[c])
        BY <1>1, <1>5, <1>6, <2>2, <3>2 DEF SInv
      <4>2. Entry(c) = LB_CONNECTIONS[c] /\ Entry(c)' \in {None, LB_CONNECTIONS'[c]}
        BY <3>2 DEF Entry
      <4>3. EntryStep(Entry(c), Entry(c)')
        BY <4>1, <4>2, Zenon DEF EntryStep
      <4> QED
        BY <2>1, <2>2, <4>3, EntryIsStep
    <3> QED
      BY <3>1, <3>2
  <2>3. CASE c \notin TcpClients
    BY <2>1, <2>3, TableUnchanged
  <2> QED
    BY <2>2, <2>3
<1> QED
  BY <1>2, <1>4, <1>7, <1>8 DEF SInv

-----------------------------------------------------------------------------
\* An idle CPU has no copy.
LEMMA IdleCurrent ==
    ASSUME NEW map
    PROVE  Current(Idle, map) /\ Resting(Idle)
BY MapsAssumption DEF Current, Resting, Idle

\* A transition that neither stays nor closes goes to a state that follows.
LEMMA TransitionFollows ==
    ASSUME NEW hdr, NEW state \in TCPState,
           process_tcp_state_transition(hdr, state) \notin {state, "Closed"}
    PROVE  /\ state \in Conn!Open
           /\ process_tcp_state_transition(hdr, state) \in Conn!Follows[state]
<1>1. state \in Conn!Open
  BY DEF process_tcp_state_transition, TCPState, Conn!Open, Conn!TCPState
<1> QED
  BY <1>1 DEF process_tcp_state_transition, TCPState, Conn!Follows, Conn!Open, Conn!TCPState

\* The advanced mapping in the place of the one it was computed from.
LEMMA AdvanceIsStep ==
    ASSUME IInv, NEW c \in TcpClients, NEW m, NEW hdr, LB_CONNECTIONS[c] = m, m # None,
           Advanced(m, hdr) # m, Advanced(m, hdr).tcp_state # "Closed"
    PROVE  EntryStep(m, Advanced(m, hdr))
<1>0. m \in LoadBalancerMapping /\ m.tcp_state \in TCPState /\ m.tcp_state # None
  BY MapsAssumption DEF IInv, GoodConns, ClientKey, ClientMapping, OpenMapping, GoodMapping
<1> DEFINE s == process_tcp_state_transition(hdr, m.tcp_state)
<1>1. Advanced(m, hdr) = [m EXCEPT !.tcp_state = s]
  BY <1>0 DEF Advanced
<1> HIDE DEF s
<1>2. s # m.tcp_state /\ s # "Closed"
  BY <1>0, <1>1 DEF LoadBalancerMapping
<1>3. s \in Conn!Follows[m.tcp_state]
  BY <1>0, <1>2, TransitionFollows, Zenon DEF s
<1> QED
  BY <1>1, <1>3, Zenon DEF EntryStep

\* update_tcp_conns goes on or returns and touches the client's entry only; on a
\* mapping that is the entry, or with the client having none, it steps the entry,
\* which is then gone, or as it was, or the advanced mapping.
LEMMA UpdateTcpConnsSteps ==
    ASSUME IInv, NEW p \in Cpus, NEW c \in TcpClients, NEW m, NEW hdr, NEW l,
           GoodMapping(m, configured), update_tcp_conns(p, c, m, hdr, l)
    PROVE  LET current == LB_CONNECTIONS[c] \in {None, m}
           IN  /\ \A d \in TcpClients : d # c => LB_CONNECTIONS'[d] = LB_CONNECTIONS[d]
               /\ current => EntryStep(LB_CONNECTIONS[c], LB_CONNECTIONS'[c])
               /\ \/ Return(p)
                  \/ /\ Goto(p, l)
                     /\ current => LB_CONNECTIONS'[c] \in {None, Advanced(m, hdr)}
               /\ Advanced(m, hdr) = m => LB_CONNECTIONS'[c] \in {None, LB_CONNECTIONS[c]}
<1> DEFINE next == Advanced(m, hdr)
<1>0. /\ LB_CONNECTIONS = [d \in ClientKey |-> LB_CONNECTIONS[d]]
      /\ TcpClients \subseteq ClientKey
  BY DEF IInv, GoodConns, ClientKey
<1>1. /\ GoodMapping(next, configured)
      /\ m.tcp_state = None => next = m
      /\ m.tcp_state # None => next.tcp_state \in TCPState
  BY AdvancedGood
<1>2. \/ next.tcp_state = "Closed" /\ RemoveConn(p, c, l)
      \/ next.tcp_state # "Closed" /\ next # m /\ InsertConn(p, c, next, l)
      \/ next = m /\ Goto(p, l) /\ UNCHANGED LB_CONNECTIONS
  BY DEF update_tcp_conns
<1> HIDE DEF next
<1>3. CASE LB_CONNECTIONS' = Remove(LB_CONNECTIONS, c) /\ Goto(p, l)
  <2>1. LB_CONNECTIONS'[c] = None
    BY <1>0, <1>3, Zenon DEF Remove
  <2> QED
    BY <1>0, <1>3, <2>1 DEF Remove, EntryStep
<1>4. CASE /\ next.tcp_state # "Closed" /\ next # m
           /\ LB_CONNECTIONS' = Insert(LB_CONNECTIONS, c, next) /\ Goto(p, l)
  <2>1. LB_CONNECTIONS'[c] = next
    BY <1>0, <1>4 DEF Insert
  <2>2. CASE LB_CONNECTIONS[c] = None
    <3>1. OpenMapping(next, configured)
      BY <1>1, <1>4 DEF OpenMapping
    <3> QED
      BY <1>0, <1>4, <2>1, <2>2, <3>1 DEF Insert, next, EntryStep
  <2>3. CASE LB_CONNECTIONS[c] = m /\ m # None
    <3>1. EntryStep(m, next)
      BY <1>4, <2>3, AdvanceIsStep DEF next
    <3> QED
      BY <1>0, <1>4, <2>1, <2>3, <3>1 DEF Insert, next
  <2>4. CASE LB_CONNECTIONS[c] \notin {None, m}
    BY <1>0, <1>4, <2>1, <2>4 DEF Insert, next
  <2> QED
    BY <2>2, <2>3, <2>4
<1>5. CASE Return(p) /\ UNCHANGED LB_CONNECTIONS
  BY <1>5 DEF EntryStep
<1>6. CASE next = m /\ Goto(p, l) /\ UNCHANGED LB_CONNECTIONS
  BY <1>6 DEF next, EntryStep
<1> QED
  BY <1>2, <1>3, <1>4, <1>5, <1>6 DEF RemoveConn, InsertConn

\* A packet that leaves the state as it is adds no entry.
LEMMA UpdateStays ==
    ASSUME IInv, NEW p \in Cpus, NEW c \in TcpClients, NEW m, NEW hdr, NEW l,
           GoodMapping(m, configured), update_tcp_conns(p, c, m, hdr, l), Advanced(m, hdr) = m
    PROVE  LB_CONNECTIONS'[c] \in {None, LB_CONNECTIONS[c]}
BY UpdateTcpConnsSteps

\* A step that changes no entry of a TCP client and goes on with a current copy.
LEMMA QuietStep ==
    ASSUME NEW p \in Cpus, NEW c, NEW l, Goto(p, l), Resting(l),
           cpu[p].client \in {c, None}, l.client \in {c, None},
           \A d \in TcpClients : LB_CONNECTIONS'[d] = LB_CONNECTIONS[d],
           Current(cpu[p], LB_CONNECTIONS) => Current(l, LB_CONNECTIONS')
    PROVE  PacketStep(p)
<1>1. c \in TcpClients => EntryStep(LB_CONNECTIONS[c], LB_CONNECTIONS'[c])
  BY DEF EntryStep
<1> QED
  BY <1>1, Zenon DEF PacketStep

\* A handler that returns without having changed an entry of a TCP client.
LEMMA ReturnStep ==
    ASSUME NEW p \in Cpus, Return(p),
           \A d \in TcpClients : LB_CONNECTIONS'[d] = LB_CONNECTIONS[d]
    PROVE  PacketStep(p)
<1>1. Goto(p, Idle) /\ Idle.client = None
  BY DEF Return, Idle
<1> QED
  BY <1>1, IdleCurrent, QuietStep

\* A handler that removes its client's entry and goes on.
LEMMA RemoveStep ==
    ASSUME IInv, NEW p \in Cpus, NEW l, Resting(l),
           cpu[p].client \in ClientKey, l.client \in {cpu[p].client, None},
           RemoveConn(p, cpu[p].client, l)
    PROVE  PacketStep(p)
<1>c. PICK c : c = cpu[p].client
  BY Zenon
<1>0. /\ LB_CONNECTIONS = [d \in ClientKey |-> LB_CONNECTIONS[d]]
      /\ TcpClients \subseteq ClientKey
  BY DEF IInv, GoodConns, ClientKey
<1>1. CASE LB_CONNECTIONS' = Remove(LB_CONNECTIONS, c) /\ Goto(p, l)
  <2>1. Current(l, LB_CONNECTIONS')
    BY <1>c, <1>0, <1>1, MapsAssumption DEF Current, Remove
  <2>2. /\ \A d \in TcpClients : d # c => LB_CONNECTIONS'[d] = LB_CONNECTIONS[d]
        /\ LB_CONNECTIONS'[c] = None
    BY <1>c, <1>0, <1>1 DEF Remove
  <2>3. EntryStep(LB_CONNECTIONS[c], LB_CONNECTIONS'[c])
    BY <2>2 DEF EntryStep
  <2> QED
    BY <1>c, <1>1, <2>1, <2>2, <2>3, Zenon DEF PacketStep
<1>2. CASE Return(p) /\ UNCHANGED LB_CONNECTIONS
  BY <1>2, ReturnStep
<1> QED
  BY <1>c, <1>1, <1>2 DEF RemoveConn

-----------------------------------------------------------------------------
\* Each step of the TCP ingress handler steps its client's entry or leaves it alone.
LEMMA TcpIngressSteps ==
    ASSUME SInv, NEW p \in Cpus,
           \/ \E c \in TcpClients, k \in Vips, hdr \in Headers : TcpIngress(p, c, k, hdr)
           \/ TcpLookupBackends(p) \/ TcpLookupIndex(p) \/ TcpAdvanceIndex(p)
           \/ TcpRst(p) \/ TcpUpdateConns(p) \/ TcpRecordConn(p)
    PROVE  PacketStep(p)
<1> DEFINE l == cpu[p]
<1>0. /\ GoodLocals(l, configured) /\ l \in Locals /\ Resting(l)
      /\ LB_CONNECTIONS = [d \in ClientKey |-> LB_CONNECTIONS[d]]
      /\ TcpClients \subseteq ClientKey
  BY Zenon DEF SInv, IInv, GoodCpus, GoodLocals, GoodConns, ClientKey
<1>1. CASE \E c \in TcpClients, k \in Vips, hdr \in Headers : TcpIngress(p, c, k, hdr)
  <2>1. PICK c \in TcpClients, k \in Vips, hdr \in Headers : TcpIngress(p, c, k, hdr)
    BY <1>1
  <2> DEFINE m == LB_CONNECTIONS[c]
             packet == [Idle EXCEPT !.client = c, !.vip = k, !.hdr = hdr]
             tracked == [packet EXCEPT !.pc = Chosen(hdr), !.lb_mapping = m]
             new == [packet EXCEPT !.pc = "tcp_backends", !.new_conn = TRUE]
  <2>2. UNCHANGED LB_CONNECTIONS /\ l.client = None
    BY <1>0, <2>1, Zenon DEF TcpIngress, mapVars, At, Resting
  <2>3. Current(tracked, LB_CONNECTIONS) /\ Resting(tracked) /\ tracked.client = c
    BY DEF Current, Resting, Idle, Chosen
  <2>4. /\ m = None => Current(new, LB_CONNECTIONS)
        /\ Resting(new) /\ new.client = c
    BY DEF Current, Resting, Idle
  <2> HIDE DEF tracked, new
  <2>5. Goto(p, tracked) \/ (m = None /\ Goto(p, new))
    BY <2>1, Zenon DEF TcpIngress, tracked, new
  <2> QED
    BY <2>2, <2>3, <2>4, <2>5, QuietStep
<1>2. CASE TcpLookupBackends(p)
  <2> DEFINE found == [l EXCEPT !.pc = "tcp_index", !.list = BACKENDS[l.vip]]
  <2>1. UNCHANGED LB_CONNECTIONS /\ l.pc = "tcp_backends" /\ l.new_conn
    BY <1>0, <1>2 DEF TcpLookupBackends, mapVars, At, GoodLocals
  <2>2. /\ Current(l, LB_CONNECTIONS) => Current(found, LB_CONNECTIONS)
        /\ Resting(found) /\ found.client = l.client
    BY <1>0, <2>1 DEF Current, Resting, Locals
  <2> QED
    BY <1>2, <2>1, <2>2, QuietStep, ReturnStep, Zenon DEF TcpLookupBackends
<1>3. CASE TcpLookupIndex(p)
  <2> DEFINE idx == GATEWAY_INDEXES[l.vip]
             found(list) == [l EXCEPT !.pc = "tcp_advance", !.list = list, !.idx = idx,
                                      !.lb_mapping = NewMapping(list, idx, l.vip, "Established")]
  <2>1. UNCHANGED LB_CONNECTIONS /\ l.pc = "tcp_index" /\ l.new_conn
    BY <1>0, <1>3, Zenon DEF TcpLookupIndex, mapVars, At, GoodLocals
  <2>2. ASSUME NEW list
        PROVE  /\ Current(l, LB_CONNECTIONS) => Current(found(list), LB_CONNECTIONS)
               /\ Resting(found(list)) /\ found(list).client = l.client
    BY <1>0, <2>1 DEF Current, Resting, Locals
  <2>3. PICK list : Return(p) \/ Goto(p, found(list))
    BY <1>3, Zenon DEF TcpLookupIndex
  <2> HIDE DEF found
  <2> QED
    BY <2>1, <2>2, <2>3, QuietStep, ReturnStep
<1>4. CASE TcpAdvanceIndex(p)
  <2> DEFINE after == [l EXCEPT !.pc = Chosen(l.hdr), !.list = None, !.idx = None]
  <2>1. UNCHANGED LB_CONNECTIONS /\ l.pc = "tcp_advance"
    BY <1>0, <1>4 DEF TcpAdvanceIndex, At
  <2>2. /\ Current(l, LB_CONNECTIONS) => Current(after, LB_CONNECTIONS)
        /\ Resting(after) /\ after.client = l.client
    BY <1>0, <2>1 DEF Current, Resting, Locals, Chosen
  <2> QED
    BY <1>4, <2>1, <2>2, QuietStep, ReturnStep, Zenon DEF TcpAdvanceIndex
<1>5. CASE TcpRst(p)
  <2> DEFINE after == [l EXCEPT !.pc = "tcp_update"]
  <2>1. l.client \in ClientKey /\ after.client = l.client /\ Resting(after)
    BY <1>0, <1>5 DEF TcpRst, At, GoodLocals, Locals, Resting
  <2> QED
    BY <1>5, <2>1, RemoveStep, Zenon DEF TcpRst, SInv
<1>6. CASE TcpUpdateConns(p)
  <2>c. PICK c : c = l.client
    BY Zenon
  <2>n. PICK next : next = Advanced(l.lb_mapping, l.hdr)
    BY Zenon
  <2> DEFINE rewritten == [l EXCEPT !.pc = "tcp_record", !.lb_mapping = next]
  <2>1. PICK after \in {rewritten, Idle} : update_tcp_conns(p, c, l.lb_mapping, l.hdr, after)
    BY <1>6, <2>c, <2>n DEF TcpUpdateConns
  <2>2. c \in TcpClients /\ GoodMapping(l.lb_mapping, configured)
    BY <1>0, <1>6, <2>c DEF TcpUpdateConns, At, GoodLocals, OpenMapping
  <2>3. Current(l, LB_CONNECTIONS) => LB_CONNECTIONS[c] \in {None, l.lb_mapping}
    BY <2>c, <2>2 DEF Current
  <2>4. /\ \A d \in TcpClients : d # c => LB_CONNECTIONS'[d] = LB_CONNECTIONS[d]
        /\ Current(l, LB_CONNECTIONS) => EntryStep(LB_CONNECTIONS[c], LB_CONNECTIONS'[c])
        /\ \/ Return(p)
           \/ /\ Goto(p, after)
              /\ Current(l, LB_CONNECTIONS) => LB_CONNECTIONS'[c] \in {None, next}
    BY <2>n, <2>1, <2>2, <2>3, UpdateTcpConnsSteps DEF SInv
  <2>5. /\ LB_CONNECTIONS'[c] \in {None, next} => Current(rewritten, LB_CONNECTIONS')
        /\ Resting(rewritten) /\ rewritten.client = c
    BY <1>0, <2>c DEF Current, Resting, Locals
  <2>6. Idle.client = None /\ Resting(Idle) /\ Current(Idle, LB_CONNECTIONS')
    BY IdleCurrent, Zenon DEF Idle
  <2> HIDE DEF rewritten
  <2>7. PICK to : /\ Goto(p, to) /\ Resting(to) /\ to.client \in {c, None}
                  /\ Current(l, LB_CONNECTIONS) => Current(to, LB_CONNECTIONS')
    BY <2>1, <2>4, <2>5, <2>6 DEF Return
  <2> QED
    BY <2>c, <2>4, <2>7, Zenon DEF PacketStep
<1>7. CASE TcpRecordConn(p)
  <2>c. PICK c, m : c = l.client /\ m = l.lb_mapping
    BY Zenon
  <2>1. c \in TcpClients /\ OpenMapping(m, configured)
    BY <1>0, <1>7, <2>c, Zenon DEF TcpRecordConn, At, GoodLocals
  <2>2. Current(l, LB_CONNECTIONS) => LB_CONNECTIONS[c] \in {None, m}
    BY <2>c, <2>1 DEF Current
  <2>3. CASE Return(p) /\ UNCHANGED LB_CONNECTIONS
    BY <2>3, ReturnStep
  <2>4. CASE Return(p) /\ LB_CONNECTIONS' = Insert(LB_CONNECTIONS, c, m)
    <3>1. /\ \A d \in TcpClients : d # c => LB_CONNECTIONS'[d] = LB_CONNECTIONS[d]
          /\ LB_CONNECTIONS'[c] = m
      BY <1>0, <2>1, <2>4 DEF Insert
    <3>2. Current(l, LB_CONNECTIONS) => EntryStep(LB_CONNECTIONS[c], LB_CONNECTIONS'[c])
      BY <2>1, <2>2, <3>1 DEF EntryStep
    <3>3. /\ Goto(p, Idle) /\ Idle.client = None /\ Resting(Idle)
          /\ Current(Idle, LB_CONNECTIONS')
      BY <2>4, IdleCurrent, Zenon DEF Idle, Return
    <3> QED
      BY <2>c, <3>1, <3>2, <3>3, Zenon DEF PacketStep
  <2> QED
    BY <1>7, <2>c, <2>3, <2>4 DEF TcpRecordConn, InsertConn, Return
<1> QED
  BY <1>1, <1>2, <1>3, <1>4, <1>5, <1>6, <1>7, Zenon

\* The UDP ingress handler touches no entry of a TCP client.
LEMMA UdpIngressSteps ==
    ASSUME SInv, NEW p \in Cpus,
           \/ \E c \in UdpClients, k \in Vips : UdpIngress(p, c, k)
           \/ UdpLookupIndex(p) \/ UdpTrack(p) \/ UdpAdvanceIndex(p)
    PROVE  PacketStep(p)
<1>0. /\ GoodLocals(cpu[p], configured) /\ cpu[p] \in Locals /\ Resting(cpu[p])
      /\ LB_CONNECTIONS = [d \in ClientKey |-> LB_CONNECTIONS[d]]
      /\ TcpClients \subseteq ClientKey
  BY DEF SInv, IInv, GoodCpus, GoodLocals, GoodConns, ClientKey
<1>1. ASSUME NEW l, l.client \in UdpClients
      PROVE  Current(l, LB_CONNECTIONS')
  BY <1>1, MapsAssumption DEF Current
<1>2. CASE \E c \in UdpClients, k \in Vips : UdpIngress(p, c, k)
  <2>1. PICK c \in UdpClients, k \in Vips : UdpIngress(p, c, k)
    BY <1>2
  <2> DEFINE found == [Idle EXCEPT !.pc = "udp_index", !.client = c, !.vip = k, !.list = BACKENDS[k]]
  <2>2. /\ Goto(p, found) /\ UNCHANGED LB_CONNECTIONS
        /\ cpu[p].client = None
    BY <1>0, <2>1, Zenon DEF UdpIngress, mapVars, At, Resting
  <2>3. found.client = c /\ Resting(found)
    BY DEF Idle, Resting
  <2> HIDE DEF found
  <2> QED
    BY <1>1, <2>2, <2>3, QuietStep
<1>3. CASE UdpLookupIndex(p)
  <2> DEFINE idx == GATEWAY_INDEXES[cpu[p].vip]
             found(list) == [cpu[p] EXCEPT !.pc = "udp_track", !.idx = idx,
                                !.lb_mapping = NewMapping(list, idx, cpu[p].vip, None)]
  <2>1. UNCHANGED LB_CONNECTIONS /\ cpu[p].client \in UdpClients
    BY <1>0, <1>3, ZenonT(30) DEF UdpLookupIndex, At, GoodLocals, mapVars
  <2>2. PICK list : Return(p) \/ Goto(p, found(list))
    BY <1>3, Zenon DEF UdpLookupIndex
  <2>3. found(list).client = cpu[p].client /\ Resting(found(list))
    BY <1>0 DEF Locals, Resting
  <2> HIDE DEF found
  <2> QED
    BY <1>1, <2>1, <2>2, <2>3, QuietStep, ReturnStep
<1>4. CASE UdpTrack(p)
  <2> DEFINE tracked == [cpu[p] EXCEPT !.pc = "udp_advance"]
  <2>1. PICK after \in {tracked, Idle} : InsertConn(p, cpu[p].client, cpu[p].lb_mapping, after)
    BY <1>4 DEF UdpTrack
  <2>2. cpu[p].client \in UdpClients /\ tracked.client = cpu[p].client /\ Resting(tracked)
    BY <1>0, <1>4 DEF UdpTrack, At, GoodLocals, Locals, Resting
  <2>3. Idle.client = None
    BY DEF Idle
  <2> HIDE DEF tracked
  <2>4. /\ Current(after, LB_CONNECTIONS') /\ Resting(after)
        /\ after.client \in {cpu[p].client, None}
    BY <1>1, <2>1, <2>2, <2>3, IdleCurrent, Zenon
  <2>5. Goto(p, after) \/ Return(p)
    BY <2>1 DEF InsertConn
  <2>6. \A c \in TcpClients : LB_CONNECTIONS'[c] = LB_CONNECTIONS[c]
    BY <1>0, <2>1, <2>2, MapsAssumption, ZenonT(30) DEF InsertConn, Insert
  <2> QED
    BY <2>4, <2>5, <2>6, QuietStep, ReturnStep
<1>5. CASE UdpAdvanceIndex(p)
  BY <1>5, ReturnStep DEF UdpAdvanceIndex
<1> QED
  BY <1>2, <1>3, <1>4, <1>5, Zenon

\* Each step of the egress handlers steps its client's entry or leaves it alone.
\* Where a pointer reads another client's mapping, and the copy was current, the
\* client itself has no entry left.
LEMMA EgressSteps ==
    ASSUME SInv, NEW p \in Cpus, tc_egress(p)
    PROVE  PacketStep(p)
<1> DEFINE l == cpu[p]
<1>0. /\ GoodLocals(l, configured) /\ l \in Locals /\ Resting(l)
      /\ TcpClients \subseteq ClientKey /\ UdpClients \subseteq ClientKey
  BY Zenon DEF SInv, IInv, GoodCpus, GoodLocals, ClientKey
<1>1. CASE \E c \in TcpClients, hdr \in Headers : TcpEgress(p, c, hdr)
  <2>1. PICK c \in TcpClients, hdr \in Headers : TcpEgress(p, c, hdr)
    BY <1>1
  <2> DEFINE pc == IF "RST" \in hdr THEN "egress_rst" ELSE "egress_update"
             found == [Idle EXCEPT !.pc = pc, !.client = c, !.hdr = hdr,
                                   !.lb_mapping = LB_CONNECTIONS[c]]
  <2>2. UNCHANGED LB_CONNECTIONS /\ Goto(p, found) /\ l.client = None
    BY <1>0, <2>1 DEF TcpEgress, mapVars, At, Resting
  <2>3. Current(found, LB_CONNECTIONS) /\ Resting(found) /\ found.client = c
    BY DEF Current, Resting, Idle
  <2> HIDE DEF found
  <2> QED
    BY <2>2, <2>3, QuietStep
<1>2. CASE EgressRst(p)
  <2> DEFINE after == [l EXCEPT !.pc = "egress_update"]
  <2>1. l.client \in ClientKey /\ after.client = l.client /\ Resting(after)
    BY <1>0, <1>2 DEF EgressRst, At, GoodLocals, Locals, Resting
  <2> QED
    BY <1>2, <2>1, RemoveStep, Zenon DEF EgressRst, SInv
<1>3. CASE EgressUpdateConns(p)
  <2>c. PICK c : c = l.client
    BY Zenon
  <2>1. c \in TcpClients /\ GoodMapping(l.lb_mapping, configured)
    BY <1>0, <1>3, <2>c DEF EgressUpdateConns, At, GoodLocals
  <2>2. PICK m \in Deref(LB_CONNECTIONS, c, l.lb_mapping) :
           update_tcp_conns(p, c, m, l.hdr, Idle)
    BY <1>3, <2>c DEF EgressUpdateConns
  <2>3. GoodMapping(m, configured)
    BY <1>0, <2>1, <2>2, DerefConnGood, Zenon DEF SInv, IInv
  <2>4. Current(l, LB_CONNECTIONS) => LB_CONNECTIONS[c] \in {None, m}
    BY <2>c, <2>1, <2>2, ZenonT(30) DEF Current, Deref
  <2>5. /\ \A d \in TcpClients : d # c => LB_CONNECTIONS'[d] = LB_CONNECTIONS[d]
        /\ Current(l, LB_CONNECTIONS) => EntryStep(LB_CONNECTIONS[c], LB_CONNECTIONS'[c])
        /\ Goto(p, Idle)
    BY <2>1, <2>2, <2>3, <2>4, UpdateTcpConnsSteps DEF SInv, Return
  <2>6. Idle.client = None /\ Resting(Idle) /\ Current(Idle, LB_CONNECTIONS')
    BY IdleCurrent, ZenonT(30) DEF Idle
  <2> QED
    BY <2>c, <2>5, <2>6, Zenon DEF PacketStep
<1>4. CASE \E c \in UdpClients : IcmpEgress(p, c)
  <2>1. PICK c \in UdpClients : IcmpEgress(p, c)
    BY <1>4
  <2> DEFINE found == [Idle EXCEPT !.pc = "icmp_remove", !.client = c]
  <2>2. UNCHANGED LB_CONNECTIONS /\ Goto(p, found) /\ l.client = None
    BY <1>0, <2>1 DEF IcmpEgress, mapVars, At, Resting
  <2>3. Current(found, LB_CONNECTIONS) /\ Resting(found) /\ found.client = c
    BY MapsAssumption DEF Current, Resting, Idle
  <2> HIDE DEF found
  <2> QED
    BY <2>2, <2>3, QuietStep
<1>5. CASE IcmpRemove(p)
  <2>1. l.client \in ClientKey /\ Idle.client = None /\ Resting(Idle)
    BY <1>0, <1>5 DEF IcmpRemove, At, GoodLocals, Idle, Resting
  <2> QED
    BY <1>5, <2>1, RemoveStep, ReturnStep, ZenonT(30) DEF IcmpRemove, SInv
<1> QED
  BY <1>1, <1>2, <1>3, <1>4, <1>5, Zenon DEF tc_egress

\* A step that leaves the handlers alone leaves the history alone.
LEMMA HistoryKept ==
    ASSUME SInv, OverlapNext, UNCHANGED cpu
    PROVE  UNCHANGED overlapped /\ \A c : Handlers(c)' = Handlers(c)
<1>1. \A c : Handlers(c)' = Handlers(c)
  BY DEF Handlers
<1>2. \A c \in TcpClients : (\E p, q \in Handlers(c) : p # q) => c \in overlapped
  BY DEF SInv, Handlers
<1>3. /\ overlapped' \subseteq TcpClients
      /\ \A c \in TcpClients : c \in overlapped' <=>
            \/ \E p, q \in Handlers(c)' : p # q
            \/ c \in overlapped /\ Handlers(c)' # {}
  BY DEF OverlapNext
<1>4. \A c \in TcpClients : c \in overlapped' <=> c \in overlapped
  BY <1>1, <1>2, <1>3 DEF SInv
<1> QED
  BY <1>1, <1>3, <1>4 DEF SInv

\* A call configures backends or removes entries; no handler's copy goes stale
\* by more than the entry's removal.
LEMMA CallRefines ==
    ASSUME SInv, IInv', OverlapNext, NEW r \in Rpcs, ApiStep(r), UNCHANGED cpu
    PROVE  SInv' /\ TableStep
<1>0. /\ LB_CONNECTIONS = [d \in ClientKey |-> LB_CONNECTIONS[d]]
      /\ TcpClients \subseteq ClientKey
      /\ rpc[r].conns \subseteq ClientKey
      /\ UNCHANGED overlapped /\ \A c : Handlers(c)' = Handlers(c)
  BY HistoryKept DEF SInv, IInv, GoodConns, ClientKey, GoodCalls, GoodCall, Calls
<1>1. ASSUME \A c \in TcpClients : LB_CONNECTIONS'[c] \in {None, LB_CONNECTIONS[c]}
      PROVE  SInv'
  <2>1. \A q \in Cpus : cpu'[q].client \notin overlapped' => Current(cpu'[q], LB_CONNECTIONS')
    BY <1>0, <1>1 DEF SInv, Current
  <2> QED
    BY <1>0, <2>1 DEF SInv
<1>2. CASE UNCHANGED <<LB_CONNECTIONS, configured>>
  BY <1>0, <1>1, <1>2, TableUnchanged DEF Entry
<1>3. CASE UpdateInsert(r)
  <2>1. /\ UNCHANGED LB_CONNECTIONS
        /\ \/ UNCHANGED configured
           \/ configured' = configured \cup Listed(rpc[r].list)
    BY <1>3 DEF UpdateInsert
  <2>2. configured' \subseteq Backends
    BY DEF IInv, GoodConf
  <2>3. CASE configured' = configured \cup Listed(rpc[r].list)
    <3>1. Conn!Configure
      BY <1>0, <2>1, <2>2, <2>3 DEF Conn!Configure
    <3> QED
      BY <1>1, <2>1, <3>1 DEF TableStep, Conn!Next
  <2> QED
    BY <1>2, <2>1, <2>3
<1>4. CASE DeleteSweep(r)
  <2>1. /\ UNCHANGED configured
        /\ \/ UNCHANGED LB_CONNECTIONS
           \/ \E c \in ClientKey : LB_CONNECTIONS' = Remove(LB_CONNECTIONS, c)
    BY <1>0, <1>4, Zenon DEF DeleteSweep
  <2>2. ASSUME NEW c \in ClientKey, LB_CONNECTIONS' = Remove(LB_CONNECTIONS, c)
        PROVE  SInv' /\ TableStep
    <3>1. /\ \A d \in TcpClients : LB_CONNECTIONS'[d] \in {None, LB_CONNECTIONS[d]}
          /\ \A d \in TcpClients \ {c} : Entry(d)' = Entry(d)
          /\ Entry(c)' = None
      BY <1>0, <2>2 DEF Remove, Entry
    <3>2. CASE c \in TcpClients
      BY <1>1, <2>1, <3>1, <3>2, EntryIsStep DEF EntryStep
    <3>3. CASE c \notin TcpClients
      BY <1>1, <2>1, <3>1, <3>3, TableUnchanged
    <3> QED
      BY <3>2, <3>3
  <2> QED
    BY <1>2, <2>1, <2>2
<1> QED
  BY <1>2, <1>3, <1>4, ZenonT(30)
     DEF ApiStep, Progress, update, delete, DeleteCollect, Reply, Cancel, mapVars,
         UpdateResetIndex, DeleteBackends, DeleteIndex

-----------------------------------------------------------------------------
\* Every step of the dataplane keeps the invariant and is a step of the table.
LEMMA OverlapStep == SInv /\ [OverlapNext]_historyVars => SInv' /\ TableStep
<1> SUFFICES ASSUME SInv, [OverlapNext]_historyVars
             PROVE  SInv' /\ TableStep
  OBVIOUS
<1>1. [Next]_vars
  BY DEF OverlapNext, historyVars
<1>2. IInv'
  BY <1>1, NextGood DEF SInv
<1>3. CASE OverlapNext /\ EbpfNext /\ UNCHANGED apiVars
  <2>1. PICK p \in Cpus : tc_ingress(p) \/ tc_egress(p)
    BY <1>3 DEF EbpfNext
  <2>2. UNCHANGED configured
    BY <1>3 DEF apiVars
  <2>3. PacketStep(p)
    BY <2>1, TcpIngressSteps, UdpIngressSteps, EgressSteps DEF tc_ingress
  <2> QED
    BY <1>2, <1>3, <2>2, <2>3, PacketRefines
<1>4. CASE OverlapNext /\ ApiNext /\ UNCHANGED cpu
  BY <1>2, <1>4, CallRefines DEF ApiNext
<1>5. CASE UNCHANGED historyVars
  <2>1. UNCHANGED <<LB_CONNECTIONS, cpu, configured, overlapped>>
    BY <1>5 DEF historyVars, vars, mapVars, apiVars
  <2>2. \A c : Handlers(c)' = Handlers(c)
    BY <2>1 DEF Handlers
  <2>3. TableStep
    BY <2>1, TableUnchanged DEF Entry
  <2> QED
    BY <1>2, <2>1, <2>2, <2>3 DEF SInv
<1> QED
  BY <1>3, <1>4, <1>5 DEF OverlapNext, Next

\* The invariant holds at first, and the table is empty.
LEMMA OverlapStart == OverlapInit => SInv /\ Conn!Init
<1> SUFFICES ASSUME OverlapInit
             PROVE  SInv /\ Conn!Init
  OBVIOUS
<1>1. \A p \in Cpus : cpu[p] = Idle
  BY DEF OverlapInit, Init, EbpfInit
<1>2. SInv
  <2>1. IInv /\ overlapped = {}
    BY InitGood DEF OverlapInit
  <2>2. \A p \in Cpus : cpu[p].client \notin TcpClients
    BY <1>1, MapsAssumption DEF Idle
  <2> QED
    BY <1>1, <2>1, <2>2, IdleCurrent DEF SInv
<1>3. Conn!Init
  BY DEF OverlapInit, Init, MapsInit, ApiInit, Conn!Init, ClientKey
<1> QED
  BY <1>2, <1>3

\* LB_CONNECTIONS is the table of Connections, however many handlers, calls and
\* clients there are and whichever CPUs the packets of both directions are on: a
\* tracked TCP client keeps its backend and VIP and moves forward by single
\* transitions, but while two packets of its own are in hand.
THEOREM ConnectionsImplemented == OverlapSpec => ImplementsConnections
<1>1. TableStep => [Conn!Next]_(Conn!connVars)
  BY DEF TableStep
<1> QED
  BY <1>1, OverlapStart, OverlapStep, PTL DEF OverlapSpec, ImplementsConnections, Conn!Spec

\* A handler that is to update the connection does that next.
LEMMA AtUpdate ==
    ASSUME NEW p \in Cpus, tc_ingress(p) \/ tc_egress(p), cpu[p].pc = "tcp_update"
    PROVE  TcpUpdateConns(p)
BY DEF tc_ingress, tc_egress, TcpIngress, TcpLookupBackends, TcpLookupIndex, TcpAdvanceIndex,
       TcpRst, TcpRecordConn, UdpIngress, UdpLookupIndex, UdpTrack, UdpAdvanceIndex,
       TcpEgress, EgressRst, EgressUpdateConns, IcmpEgress, IcmpRemove, At

\* A client's RST on an established connection of which no other packet is in hand
\* leaves it untracked, whatever other clients' handlers and the calls do.
THEOREM RstEndsTracking == OverlapSpec => RstUntracksEstablished
<1> DEFINE Ends == \A p \in Cpus :
                      /\ At(p, "tcp_update")
                      /\ cpu[p].client \notin overlapped
                      /\ EndsRst(p, {"Established"})
                      /\ "FIN" \notin cpu[p].hdr
                      => LB_CONNECTIONS'[cpu[p].client] = None
<1>1. SInv /\ [OverlapNext]_historyVars => [Ends]_vars
  <2> SUFFICES ASSUME SInv, Next, NEW p \in Cpus, At(p, "tcp_update"),
                      cpu[p].client \notin overlapped,
                      EndsRst(p, {"Established"}), "FIN" \notin cpu[p].hdr
               PROVE  LB_CONNECTIONS'[cpu[p].client] = None
    BY DEF OverlapNext, historyVars
  <2> DEFINE c == cpu[p].client
             m == cpu[p].lb_mapping
  <2>1. /\ cpu[p].pc = "tcp_update" /\ cpu'[p].pc = "idle"
        /\ m.tcp_state = "Established" /\ "RST" \in cpu[p].hdr
    BY Zenon DEF At, EndsRst
  <2>2. c \in TcpClients /\ GoodMapping(m, configured) /\ LB_CONNECTIONS[c] = None
    BY <2>1 DEF SInv, IInv, GoodCpus, GoodLocals, OpenMapping, Current
  <2>3. CASE UNCHANGED cpu
    BY <2>1, <2>3
  <2>4. ASSUME NEW q \in Cpus, tc_ingress(q) \/ tc_egress(q), UNCHANGED apiVars
        PROVE  LB_CONNECTIONS'[c] = None
    <3>1. \E l : Goto(q, l)
      BY <2>4, StepIsOwn
    <3>2. q = p
      BY <2>1, <3>1 DEF Goto, SInv, IInv, GoodCpus
    <3>3. TcpUpdateConns(p)
      BY <2>1, <2>4, <3>2, AtUpdate
    <3>4. PICK after : update_tcp_conns(p, c, m, cpu[p].hdr, after)
      BY <3>3 DEF TcpUpdateConns
    <3>5. Advanced(m, cpu[p].hdr) = m
      <4>1. process_tcp_state_transition(cpu[p].hdr, "Established") = "Established"
        BY DEF process_tcp_state_transition
      <4>2. m \in LoadBalancerMapping
        BY <2>2 DEF GoodMapping
      <4> QED
        BY <2>1, <4>1, <4>2 DEF Advanced, LoadBalancerMapping
    <3>6. IInv
      BY Zenon DEF SInv
    <3> HIDE DEF c, m
    <3>7. LB_CONNECTIONS'[c] \in {None, LB_CONNECTIONS[c]}
      BY <2>2, <3>4, <3>5, <3>6, UpdateStays, Zenon
    <3> QED
      BY <2>2, <3>7, Zenon
  <2> QED
    BY <2>3, <2>4 DEF Next, EbpfNext
<1> QED
  BY <1>1, OverlapStart, OverlapStep, PTL DEF OverlapSpec, RstUntracksEstablished
=============================================================================
