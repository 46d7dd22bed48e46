------------------------------ MODULE ApiServer -----------------------------
(***************************************************************************)
(* The gRPC Backends service, the only writer of BACKENDS.  Calls run      *)
(* concurrently; each map is behind a tokio Mutex of its own, and awaiting *)
(* a lock is where one call can be overtaken by another.  The locks order  *)
(* the calls among themselves only: the packet programs never take them.   *)
(***************************************************************************)
EXTENDS BpfMaps, Sequences

CONSTANTS
    Rpcs,         \* calls that can be in progress at once
    TargetLists,  \* the target lists that update calls carry
    Unroutable,   \* targets without an ifindex and without a route
    Cancellable,  \* whether clients may abandon calls
    IterFails     \* whether iterating over a map may fail

Answers == {"updated", "deleted", "did not exist",
            "invalid_argument", "resource_exhausted", "internal"}

ASSUME ApiAssumption ==
    /\ TargetLists \subseteq Seq(Backends)
    /\ Cancellable \in BOOLEAN /\ IterFails \in BOOLEAN
    /\ None \notin Rpcs \cup Answers \cup {"ifindex"}

VARIABLES
    rpc,        \* each call's progress and locals
    lock,       \* the call that owns each map's Mutex, or None
    configured  \* history: the backends that BACKENDS has ever listed

apiVars == <<rpc, lock, configured>>

Mutexes == {"backends_map", "gateway_indexes_map", "tcp_conns_map"}

Calls ==
    [pc      : {"idle", "insert", "reset_index", "remove_backends", "remove_index",
                "collect", "sweep", "answer"},
     key     : Vips \cup {None},
     list    : BackendList \cup {None},
     conns   : SUBSET ClientKey,
     removed : BOOLEAN,
     answer  : Answers \cup {None}]

NoCall ==
    [pc |-> "idle", key |-> None, list |-> None, conns |-> {}, removed |-> FALSE,
     answer |-> None]

ApiTypeOK ==
    /\ rpc \in [Rpcs -> Calls]
    /\ lock \in [Mutexes -> Rpcs \cup {None}]
    /\ configured \subseteq Backends

ApiInit ==
    /\ rpc = [r \in Rpcs |-> NoCall]
    /\ lock = [m \in Mutexes |-> None]
    /\ configured = {}

In(r, pc) == rpc[r].pc = pc

Acquire(r, m) ==
    /\ lock[m] = None
    /\ lock' = [lock EXCEPT ![m] = r]

\* Returning drops the guards of every lock that the call holds.
Unlock(r) == lock' = [m \in Mutexes |-> IF lock[m] = r THEN None ELSE lock[m]]

Answer(r, answer) ==
    rpc' = [rpc EXCEPT ![r] = [NoCall EXCEPT !.pc = "answer", !.key = rpc[r].key,
                                             !.removed = rpc[r].removed, !.answer = answer]]

-----------------------------------------------------------------------------
\* The loop of `update` over the targets.

\* Defect: the count is one ahead of the targets copied.
BackendListOneMore(targets) ==
    [backends     |-> [i \in 0 .. ArrayCapacity - 1 |->
                          IF i < Len(targets) THEN targets[i + 1] ELSE ZeroBackend],
     backends_len |-> Len(targets) + 1]

BackendListOf(targets) ==
    [backends     |-> [i \in 0 .. ArrayCapacity - 1 |->
                          IF i < Len(targets) THEN targets[i + 1] ELSE ZeroBackend],
     backends_len |-> Len(targets)]

\* The interface index of the answer, or None for any error: the request is not
\* sent, the answer is no route, or it names no interface.  Which targets these
\* are is up to the kernel's routing table.
if_index_for_routing_ip(target) == IF target \in Unroutable THEN None ELSE "ifindex"

\* It stops at the first target whose ifindex cannot be found, or at the first
\* that exceeds the array.
Refusal(targets) ==
    IF \E i \in 1 .. Len(targets) :
           i <= ArrayCapacity + 1 /\ if_index_for_routing_ip(targets[i]) = None
    THEN "internal"
    ELSE IF Len(targets) > ArrayCapacity THEN "resource_exhausted" ELSE None

\* k is None when the request has no vip.
update(r, k, targets) ==
    /\ In(r, "idle")
    /\ \/ /\ k = None
          /\ Answer(r, "invalid_argument")
       \/ /\ k # None
          /\ Refusal(targets) # None
          /\ Answer(r, Refusal(targets))
       \/ /\ k # None
          /\ Refusal(targets) = None
          /\ rpc' = [rpc EXCEPT ![r] = [NoCall EXCEPT !.pc = "insert", !.key = k,
                                                      !.list = BackendListOf(targets)]]
    /\ UNCHANGED <<mapVars, lock, configured>>

Listed(list) == {list.backends[i] : i \in 0 .. list.backends_len - 1}

\* Defect: the list is written without the lock.
UpdateInsertUnlocked(r) ==
    LET k == rpc[r].key
        list == rpc[r].list
    IN  /\ In(r, "insert")
        /\ CanInsert(BACKENDS, k, MapsCapacity)
        /\ BACKENDS' = Insert(BACKENDS, k, list)
        /\ configured' = configured \cup Listed(list)
        /\ rpc' = [rpc EXCEPT ![r].pc = "reset_index", ![r].list = None]
        /\ UNCHANGED <<GATEWAY_INDEXES, LB_CONNECTIONS, lock>>

\* insert: the lock is released before insert_and_reset_index takes the next.
UpdateInsert(r) ==
    LET k == rpc[r].key
        list == rpc[r].list
    IN  /\ In(r, "insert")
        /\ lock["backends_map"] = None
        /\ \/ /\ CanInsert(BACKENDS, k, MapsCapacity)
              /\ BACKENDS' = Insert(BACKENDS, k, list)
              /\ configured' = configured \cup Listed(list)
              /\ rpc' = [rpc EXCEPT ![r].pc = "reset_index", ![r].list = None]
           \/ /\ ~CanInsert(BACKENDS, k, MapsCapacity)
              /\ Answer(r, "internal")
              /\ UNCHANGED <<BACKENDS, configured>>
        /\ UNCHANGED <<GATEWAY_INDEXES, LB_CONNECTIONS, lock>>

UpdateResetIndex(r) ==
    LET k == rpc[r].key
    IN  /\ In(r, "reset_index")
        /\ lock["gateway_indexes_map"] = None
        /\ \/ /\ CanInsert(GATEWAY_INDEXES, k, MapsCapacity)
              /\ GATEWAY_INDEXES' = Insert(GATEWAY_INDEXES, k, 0)
              /\ Answer(r, "updated")
           \/ /\ ~CanInsert(GATEWAY_INDEXES, k, MapsCapacity)
              /\ Answer(r, "internal")
              /\ UNCHANGED GATEWAY_INDEXES
        /\ UNCHANGED <<BACKENDS, LB_CONNECTIONS, lock, configured>>

-----------------------------------------------------------------------------
\* delete and remove: the three locks are kept until the call returns.

\* A failing removal, of whichever entry, is answered as a success, "did not
\* exist", or as a failure: that is up to the wording of aya's error.
AnswerError(r) == \E answer \in {"did not exist", "internal"} : Answer(r, answer)

delete(r, k) ==
    /\ In(r, "idle")
    /\ rpc' = [rpc EXCEPT ![r] = [NoCall EXCEPT !.pc = "remove_backends", !.key = k]]
    /\ UNCHANGED <<mapVars, lock, configured>>

\* Defect: the guard is not bound to a name, so it is dropped at once.
DeleteBackendsDropsGuard(r) ==
    LET k == rpc[r].key
    IN  /\ In(r, "remove_backends")
        /\ lock["backends_map"] = None
        /\ \/ /\ BACKENDS[k] # None
              /\ BACKENDS' = Remove(BACKENDS, k)
              /\ rpc' = [rpc EXCEPT ![r].pc = "remove_index", ![r].removed = TRUE]
           \/ /\ BACKENDS[k] = None
              /\ AnswerError(r)
              /\ UNCHANGED BACKENDS
        /\ UNCHANGED <<GATEWAY_INDEXES, LB_CONNECTIONS, lock, configured>>

DeleteBackends(r) ==
    LET k == rpc[r].key
    IN  /\ In(r, "remove_backends")
        /\ lock["backends_map"] = None
        /\ \/ /\ BACKENDS[k] # None
              /\ Acquire(r, "backends_map")
              /\ BACKENDS' = Remove(BACKENDS, k)
              /\ rpc' = [rpc EXCEPT ![r].pc = "remove_index", ![r].removed = TRUE]
           \/ /\ BACKENDS[k] = None
              /\ AnswerError(r)
              /\ UNCHANGED <<BACKENDS, lock>>
        /\ UNCHANGED <<GATEWAY_INDEXES, LB_CONNECTIONS, configured>>

\* Defect: the error path would restore the list with `insert`, which waits for
\* the lock that this call itself owns.
DeleteIndexRestores(r) ==
    LET k == rpc[r].key
    IN  /\ In(r, "remove_index")
        /\ lock["gateway_indexes_map"] = None
        /\ \/ /\ GATEWAY_INDEXES[k] # None
              /\ Acquire(r, "gateway_indexes_map")
              /\ GATEWAY_INDEXES' = Remove(GATEWAY_INDEXES, k)
              /\ rpc' = [rpc EXCEPT ![r].pc = "collect"]
           \/ /\ GATEWAY_INDEXES[k] = None
              /\ lock["backends_map"] = None
              /\ AnswerError(r)
              /\ UNCHANGED <<GATEWAY_INDEXES, lock>>
        /\ UNCHANGED <<BACKENDS, LB_CONNECTIONS, configured>>

DeleteIndex(r) ==
    LET k == rpc[r].key
    IN  /\ In(r, "remove_index")
        /\ lock["gateway_indexes_map"] = None
        /\ \/ /\ GATEWAY_INDEXES[k] # None
              /\ Acquire(r, "gateway_indexes_map")
              /\ GATEWAY_INDEXES' = Remove(GATEWAY_INDEXES, k)
              /\ rpc' = [rpc EXCEPT ![r].pc = "collect"]
           \/ /\ GATEWAY_INDEXES[k] = None
              /\ Unlock(r)
              /\ AnswerError(r)
              /\ UNCHANGED GATEWAY_INDEXES
        /\ UNCHANGED <<BACKENDS, LB_CONNECTIONS, configured>>

\* The whole connection map is copied before the first removal.
DeleteCollect(r) ==
    /\ In(r, "collect")
    /\ Acquire(r, "tcp_conns_map")
    /\ rpc' = [rpc EXCEPT ![r].pc = "sweep", ![r].conns = Tracked(rpc[r].key)]
    /\ UNCHANGED <<mapVars, configured>>

\* The copied entries in turn, one of which may be the error that ended the
\* iteration.
DeleteSweep(r) ==
    /\ In(r, "sweep")
    /\ \/ \E c \in rpc[r].conns :
             \/ /\ LB_CONNECTIONS[c] # None
                /\ LB_CONNECTIONS' = Remove(LB_CONNECTIONS, c)
                /\ rpc' = [rpc EXCEPT ![r].conns = @ \ {c}]
                /\ UNCHANGED lock
             \/ /\ LB_CONNECTIONS[c] = None
                /\ Unlock(r)
                /\ AnswerError(r)
                /\ UNCHANGED LB_CONNECTIONS
       \/ /\ IterFails
          /\ Unlock(r)
          /\ AnswerError(r)
          /\ UNCHANGED LB_CONNECTIONS
       \/ /\ rpc[r].conns = {}
          /\ Unlock(r)
          /\ Answer(r, "deleted")
          /\ UNCHANGED LB_CONNECTIONS
    /\ UNCHANGED <<BACKENDS, GATEWAY_INDEXES, configured>>

-----------------------------------------------------------------------------
Reply(r) ==
    /\ In(r, "answer")
    /\ rpc' = [rpc EXCEPT ![r] = NoCall]
    /\ UNCHANGED <<mapVars, lock, configured>>

\* A client that goes away has its call's future dropped at the await where
\* it is suspended, and with the future the guards it holds.
Cancel(r) ==
    /\ Cancellable
    /\ rpc[r].pc \in {"insert", "reset_index", "remove_backends", "remove_index", "collect"}
    /\ rpc' = [rpc EXCEPT ![r] = NoCall]
    /\ Unlock(r)
    /\ UNCHANGED <<mapVars, configured>>

Progress(r) ==
    \/ UpdateInsert(r)
    \/ UpdateResetIndex(r)
    \/ DeleteBackends(r)
    \/ DeleteIndex(r)
    \/ DeleteCollect(r)
    \/ DeleteSweep(r)
    \/ Reply(r)

ApiStep(r) ==
    \/ \E k \in Vips \cup {None}, targets \in TargetLists : update(r, k, targets)
    \/ \E k \in Vips : delete(r, k)
    \/ Progress(r)
    \/ Cancel(r)

ApiNext == \E r \in Rpcs : ApiStep(r)
=============================================================================
