--------------------------- MODULE OverlapHistory ---------------------------
(***************************************************************************)
(* The dataplane as a table of connections, whichever CPUs a client's      *)
(* packets are on.  Nothing in the programs keeps two packets of a client, *)
(* of one direction or of both, from being handled at once, and two        *)
(* handlers that both copy an entry and write it back undo each other's    *)
(* work.  A history variable tells when that may be: it changes no step of *)
(* Dataplane.                                                              *)
(***************************************************************************)
EXTENDS Dataplane

VARIABLE
    overlapped  \* history: the TCP clients of which two packets have been in
                \* hand at once, until none of them is

historyVars == <<vars, overlapped>>

Handlers(c) == {p \in Cpus : cpu[p].client = c}

OverlapInit == Init /\ overlapped = {}

OverlapNext ==
    /\ Next
    /\ overlapped' = {c \in TcpClients :
                         \/ \E p, q \in Handlers(c)' : p # q
                         \/ c \in overlapped /\ Handlers(c)' # {}}

OverlapSpec == OverlapInit /\ [][OverlapNext]_historyVars

-----------------------------------------------------------------------------
Conn == INSTANCE Connections WITH
    Clients <- TcpClients,
    table <- [c \in TcpClients |-> IF c \in overlapped THEN None ELSE LB_CONNECTIONS[c]]

\* LB_CONNECTIONS implements the connection table, but for the clients whose
\* packets overlap, which count as forgotten for as long as they do: while a TCP
\* client stays tracked it keeps its backend and its VIP and its termination goes
\* forward by single transitions, each step changing one client's entry.  A
\* handler reads the entry, and writes it back, in separate map operations, the
\* egress one through a pointer into an element that may already hold another
\* client's mapping; neither an update that drops the backend, nor the sweep of a
\* delete, nor a reused element, nor the overlapping packets of other clients move
\* a connection while it is tracked, nor does anything linger of an overlap that
\* is over but the entry that it left.
ImplementsConnections == Conn!Spec

\* A client's RST, without FIN, on a connection that no FIN has touched and that no
\* other packet in hand is of, ends its tracking, whatever other clients and calls
\* do meanwhile.  The egress handler gives no such promise: it reads the mapping
\* after it removed the entry, when the element may be another connection's that
\* is closing.
RstUntracksEstablished ==
    [][\A p \in Cpus :
          /\ At(p, "tcp_update")
          /\ cpu[p].client \notin overlapped
          /\ EndsRst(p, {"Established"})
          /\ "FIN" \notin cpu[p].hdr
          => LB_CONNECTIONS'[cpu[p].client] = None]_vars
=============================================================================
