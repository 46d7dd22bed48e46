----------------------------- MODULE Dataplane ------------------------------
(***************************************************************************)
(* The dataplane: the packet programs of Ebpf and the calls of ApiServer   *)
(* interleaved over the shared maps of BpfMaps, and what is to hold of it. *)
(***************************************************************************)
EXTENDS Ebpf, ApiServer

vars == <<mapVars, cpu, apiVars>>

Init == MapsInit /\ EbpfInit /\ ApiInit

Next ==
    \/ EbpfNext /\ UNCHANGED apiVars
    \/ ApiNext /\ UNCHANGED cpu

Spec == Init /\ [][Next]_vars

\* A task that can run is polled, and a tokio Mutex serves its waiters in
\* order, so a call that is again and again able to go on does go on.
Fairness == \A r \in Rpcs : SF_vars(Progress(r) /\ UNCHANGED cpu)

FairSpec == Spec /\ Fairness

\* Every map, program and call has values of its declared types.
TypeOK == MapsTypeOK /\ EbpfTypeOK /\ ApiTypeOK

-----------------------------------------------------------------------------
\* What holds however programs and calls interleave.

\* A connection is tracked to, and a packet is sent to, only a backend that some
\* update listed.  In particular the zero-value Backend that pads the arrays is
\* never used, although the list and the index are found by separate lookups
\* that an update can fall between, and the list is read only after the second,
\* when its element may hold another list: it is the length check of the ingress
\* handlers that prevents it.
TrackedBackendWasConfigured ==
    /\ \A c \in Keys(LB_CONNECTIONS) : LB_CONNECTIONS[c].backend \in configured
    /\ \A p \in Cpus : cpu[p].lb_mapping # None => cpu[p].lb_mapping.backend \in configured

\* An index always lies inside a backends array, whatever list it was computed
\* from and whoever wrote it last, so the array bound checks that the verifier
\* asks of the ingress handlers never turn a packet away.
IndexWithinArray ==
    \A k \in Keys(GATEWAY_INDEXES) : GATEWAY_INDEXES[k] < ArrayCapacity

\* A tracked TCP client has a state, never Closed: update_tcp_conns removes a
\* closed connection and no later write brings it back as closed.  A tracked UDP
\* client (port 0) has none, so no packet can drive its entry through the states.
TrackedStateMatchesProtocol ==
    \A c \in Keys(LB_CONNECTIONS) :
        LB_CONNECTIONS[c].tcp_state \in
            IF c \in TcpClients THEN TCPState \ {"Closed"} ELSE {None}

\* A delete is isolated from every other call: from the removal of the list to
\* the end of the sweep no update can list the VIP again.
NotListedWhileDeleting ==
    \A r \in Rpcs : rpc[r].pc \in {"remove_index", "collect", "sweep"} =>
        BACKENDS[rpc[r].key] = None

\* Locks are held only by a delete in progress, and in one order: who owns the
\* connections lock owns the indexes lock, and who owns that owns the backends
\* lock.  So calls never wait for each other in a circle, and a call that has
\* answered or was dropped leaves no lock behind.
LockOrder ==
    \A r \in Rpcs :
        /\ lock["backends_map"] = r <=> rpc[r].pc \in {"remove_index", "collect", "sweep"}
        /\ lock["gateway_indexes_map"] = r <=> rpc[r].pc \in {"collect", "sweep"}
        /\ lock["tcp_conns_map"] = r <=> rpc[r].pc = "sweep"

\* p is past its lookup of k's list, or holds a mapping of k.
Holds(p, k) ==
    \/ cpu[p].list # None /\ cpu[p].vip = k
    \/ cpu[p].lb_mapping # None /\ cpu[p].lb_mapping.backend_key = k

Drained(k) ==
    /\ BACKENDS[k] = None
    /\ Tracked(k) = {}
    /\ \A p \in Cpus : ~Holds(p, k)

\* Once a VIP is gone, with its connections and the handlers that had found it,
\* no packet brings any of it back: only an update does.
DrainedUntilUpdate ==
    [][\A k \in Vips : Drained(k) => Drained(k)' \/ BACKENDS'[k] # None]_vars

\* Every call that a client does not abandon is answered: awaiting the locks
\* never blocks a call forever.
CallsComplete ==
    \A r \in Rpcs : ~In(r, "idle") ~> In(r, "idle")

-----------------------------------------------------------------------------
\* p's step ends the handling of a packet with the RST flag that was tracked in
\* one of `states`.
EndsRst(p, states) ==
    /\ cpu[p].pc \in {"tcp_update", "egress_update"}
    /\ "RST" \in cpu[p].hdr
    /\ cpu[p].lb_mapping.tcp_state \in states
    /\ cpu'[p].pc = "idle"

-----------------------------------------------------------------------------
\* The behaviours in which no packet is handled while a call is in progress.

Apart ==
    \/ \A p \in Cpus : At(p, "idle")
    \/ \A r \in Rpcs : rpc[r].pc \in {"idle", "answer"}

ApartSpec == Init /\ [][Next /\ Apart']_vars

-----------------------------------------------------------------------------
\* What the source says of the dataplane and some interleaving, or some
\* sequence of packets, refutes.

Quiescent ==
    /\ \A p \in Cpus : At(p, "idle")
    /\ \A r \in Rpcs : In(r, "idle")

\* "If the packet has the RST flag set, it means the connection is being
\* terminated, so remove it from our map" (both TCP handlers).
RstUntracks ==
    [][\A p \in Cpus : EndsRst(p, TCPState) => LB_CONNECTIONS'[cpu[p].client] = None]_vars

\* "Delete all entries in our tcp connection tracking map that this backend key
\* was related to", lest "they'll hang around forever" (BackendService::remove).
DeletedVipIsUntracked ==
    Quiescent => \A k \in Vips : BACKENDS[k] = None => Tracked(k) = {}

\* "move the index to the next backend in our list" (both ingress handlers): at
\* rest, the index of a VIP that has backends is the position of one of them.
IndexPointsIntoList ==
    Quiescent => \A k \in Keys(BACKENDS) \cap Keys(GATEWAY_INDEXES) :
        BACKENDS[k].backends_len > 0 => GATEWAY_INDEXES[k] < BACKENDS[k].backends_len

\* "Try to find the backend previously used for this connection. If not found,
\* it means that this is a new connection, so assign it the next backend in
\* line" (handle_tcp_ingress): a packet goes to a backend of the VIP it is
\* addressed to.
ForwardedToOwnVip ==
    \A p \in Cpus : At(p, "tcp_update") => cpu[p].lb_mapping.backend_key = cpu[p].vip

\* "If the connection is new, then record it in our map for future tracking"
\* (handle_tcp_ingress): a new connection's packet that was rewritten to a backend
\* leaves the connection tracked.
ForwardedIsTracked ==
    [][\A p \in Cpus : At(p, "tcp_record") /\ cpu'[p].pc = "idle" =>
          LB_CONNECTIONS'[cpu[p].client] # None]_vars

\* "Modifies the map tracking TCP connections based on the current state of the TCP
\* connection and the incoming TCP packet's header" (update_tcp_conns): a tracked
\* client's mapping moves by one transition of the state that it has.
ModifiedFromCurrent ==
    [][\A c \in TcpClients :
          /\ LB_CONNECTIONS[c] # None
          /\ LB_CONNECTIONS'[c] \notin {None, LB_CONNECTIONS[c]}
          => \E hdr \in Headers : LB_CONNECTIONS'[c] = Advanced(LB_CONNECTIONS[c], hdr)]_vars

\* "success, vip did not exist" (BackendsServer delete): the call found nothing
\* and changed nothing.
DidNotExistIsTrue ==
    \A r \in Rpcs : rpc[r].answer = "did not exist" => ~rpc[r].removed
=============================================================================
