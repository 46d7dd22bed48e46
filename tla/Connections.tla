----------------------------- MODULE Connections ----------------------------
(***************************************************************************)
(* What the dataplane promises of TCP connections: a table in which each   *)
(* client is tracked or not, to one backend of one VIP for as long as it   *)
(* is, and whose state moves by one packet at a time.  A client may be     *)
(* forgotten at any moment, and tracked again in any state that is open:   *)
(* what a delete or an RST removes, a packet in progress may still write.  *)
(***************************************************************************)
EXTENDS TcpState

CONSTANTS Clients, Vips, Backends, None

VARIABLES
    table,      \* the mapping of each client, None when it is not tracked
    configured  \* the backends that were ever configured

connVars == <<table, configured>>

Open == TCPState \ {"Closed"}

\* Where the termination of a connection may go from each open state; from the
\* last, the connection is only forgotten.
Follows ==
    [state \in Open |->
        CASE state = "Established"             -> {"FinWait1"}
          [] state = "FinWait1"                -> {"FinWait2", "Closing", "TimeWait"}
          [] state \in {"FinWait2", "Closing"} -> {"TimeWait"}
          [] OTHER                             -> {}]

Init ==
    /\ table = [c \in Clients |-> None]
    /\ configured = {}

Configure ==
    /\ \E new \in SUBSET Backends : configured' = configured \cup new
    /\ UNCHANGED table

Track(c) ==
    /\ table[c] = None
    /\ \E b \in configured, k \in Vips, state \in Open :
          table' = [table EXCEPT ![c] = [backend |-> b, backend_key |-> k, tcp_state |-> state]]
    /\ UNCHANGED configured

Advance(c) ==
    /\ table[c] # None
    /\ \E next \in Follows[table[c].tcp_state] :
          table' = [table EXCEPT ![c] = [@ EXCEPT !.tcp_state = next]]
    /\ UNCHANGED configured

Untrack(c) ==
    /\ table' = [table EXCEPT ![c] = None]
    /\ UNCHANGED configured

Next == Configure \/ \E c \in Clients : Track(c) \/ Advance(c) \/ Untrack(c)

Spec == Init /\ [][Next]_connVars
=============================================================================
