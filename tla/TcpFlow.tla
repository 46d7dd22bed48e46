------------------------------ MODULE TcpFlow -------------------------------
(***************************************************************************)
(* A client's TCP connection through the packet programs: the client, the  *)
(* backends, the segments between them and, in the middle, the handlers of *)
(* Ebpf, which see the flags of both directions and nothing else.  The     *)
(* backend list stays as it is; API calls are Dataplane's.                 *)
(*                                                                         *)
(* The two ends are external: the part of TCP that decides which segments  *)
(* are sent, without sequence numbers.  A segment is its kind and whether  *)
(* it acknowledges the receiver's FIN.  Each direction of a path is FIFO   *)
(* and one CPU has at most one packet of it in hand, as receive queues     *)
(* steer a flow; the two directions can be on two CPUs.                    *)
(***************************************************************************)
EXTENDS Ebpf, Sequences, Functions

CONSTANTS
    Client,      \* the client's key
    Vip,         \* the VIP that it connects to
    MaxEvents    \* bound on data segments, losses and early retransmissions together

VARIABLES
    end,        \* the state of the client's and of each backend's end
    wire,       \* the segments that each of them has sent, not yet at the node
    segment,    \* the segment each CPU has in hand, with its sender
    events,     \* how many of MaxEvents have happened
    history     \* what the ends have done, and what has befallen the segments

flowVars == <<end, wire, segment, events, history>>
vars == <<mapVars, cpu, flowVars>>

Ends == Backends \cup {Client}

Kinds == {"SYN", "SYNACK", "ACK", "DATA", "FIN", "RST", "RSTACK"}

EndType == [phase : {"closed", "opening", "open", "reset"}, finSent : BOOLEAN,
            finAcked : BOOLEAN, finRcvd : BOOLEAN]
SegmentType == [kind : Kinds, acksFin : BOOLEAN]
PacketType == [from : Ends, seg : SegmentType]

\* A client is not a backend, and an absent value is none of the others.
ASSUME FlowAssumption ==
    /\ TcpClients = {Client} /\ Vip \in Vips /\ Client \notin Backends
    /\ Bijection(0 .. ArrayCapacity - 1, Backends) # {}
    /\ None \notin Backends \cup Kinds /\ None \notin PacketType
    /\ MaxEvents \in Nat

Header(kind) ==
    CASE kind = "SYN"    -> {}
      [] kind = "FIN"    -> {"FIN", "ACK"}
      [] kind = "RST"    -> {"RST"}
      [] kind = "RSTACK" -> {"RST", "ACK"}
      [] OTHER           -> {"ACK"}

Closed == [phase |-> "closed", finSent |-> FALSE, finAcked |-> FALSE, finRcvd |-> FALSE]

Segment(e, kind) == [kind |-> kind, acksFin |-> e.finRcvd]

Done(e) == e.finSent /\ e.finAcked /\ e.finRcvd

FlowInit ==
    /\ BACKENDS = [k \in Vips |-> [backends     |-> CHOOSE f \in Bijection(0 .. ArrayCapacity - 1, Backends) : TRUE,
                                   backends_len |-> ArrayCapacity]]
    /\ GATEWAY_INDEXES = [k \in Vips |-> 0]
    /\ LB_CONNECTIONS = [c \in ClientKey |-> None]
    /\ EbpfInit
    /\ end = [x \in Ends |-> Closed]
    /\ wire = [x \in Ends |-> <<>>]
    /\ segment = [p \in Cpus |-> None]
    /\ events = 0
    /\ history = {}

-----------------------------------------------------------------------------
\* External: an end.

\* An end without a connection.
Fresh(e) == e.phase \in {"closed", "reset"} \/ Done(e)

\* What a segment of the connection makes of an end.
Accepted(e, seg) ==
    [e EXCEPT !.phase = "open", !.finAcked = @ \/ (e.finSent /\ seg.acksFin),
              !.finRcvd = @ \/ seg.kind = "FIN"]

\* What x does on a segment: its state after it, and the kind of its reply, if any.
Received(x, seg) ==
    LET e == end[x]
    IN  IF seg.kind \in {"RST", "RSTACK"}
        THEN <<IF Fresh(e) THEN e ELSE [e EXCEPT !.phase = "reset"], None>>
        ELSE IF seg.kind = "SYN" /\ x # Client /\ (Fresh(e) \/ e.phase = "opening")
        THEN <<[Closed EXCEPT !.phase = "opening"], "SYNACK">>
        ELSE IF Done(e) THEN <<e, IF seg.kind = "FIN" THEN "ACK" ELSE None>>
        ELSE IF Fresh(e) THEN <<e, IF seg.kind = "SYN" THEN "RSTACK" ELSE "RST">>
        ELSE IF x = Client /\ e.phase = "opening" /\ seg.kind # "SYNACK" THEN <<e, "RST">>
        ELSE <<Accepted(e, seg), IF seg.kind = "ACK" THEN None ELSE "ACK">>

\* x sends a segment of this kind after moving to state e.
Sends(x, e, kind) ==
    /\ end' = [end EXCEPT ![x] = e]
    /\ wire' = [wire EXCEPT ![x] = Append(@, Segment(e, kind))]

Spend ==
    /\ events < MaxEvents
    /\ events' = events + 1

Note(what) == history' = history \cup what

Quiet ==
    /\ \A x \in Ends : wire[x] = <<>>
    /\ \A p \in Cpus : At(p, "idle")

Connect ==
    /\ end[Client].phase = "closed"
    /\ Sends(Client, [Closed EXCEPT !.phase = "opening"], "SYN")
    /\ UNCHANGED <<segment, events, history>>

Send(x) ==
    /\ end[x].phase = "open" /\ ~end[x].finSent
    /\ Spend
    /\ Sends(x, end[x], "DATA")
    /\ Note(IF "fin" \in history THEN {"disorder"} ELSE {})
    /\ UNCHANGED segment

\* Orderly: the first FIN with nothing under way, the second in reply to it.
Close(x) ==
    /\ end[x].phase = "open" /\ ~end[x].finSent
    /\ Sends(x, [end[x] EXCEPT !.finSent = TRUE], "FIN")
    /\ Note({"fin"} \cup IF end[x].finRcvd \/ Quiet THEN {} ELSE {"disorder"})
    /\ UNCHANGED <<segment, events>>

Abort(x) ==
    /\ end[x].phase = "open" /\ ~Done(end[x])
    /\ Sends(x, [end[x] EXCEPT !.phase = "reset"], "RSTACK")
    /\ Note({"abort"})
    /\ UNCHANGED <<segment, events>>

\* A timeout when nothing is under way, or too early.
Retransmit(x) ==
    LET e == end[x]
    IN  /\ (Quiet /\ UNCHANGED events) \/ (~Quiet /\ Spend)
        /\ \/ e.phase = "opening" /\ Sends(x, e, IF x = Client THEN "SYN" ELSE "SYNACK")
           \/ e.phase = "open" /\ e.finSent /\ ~e.finAcked /\ Sends(x, e, "FIN")
        /\ Note({"repeat"})
        /\ UNCHANGED segment

\* The end of TIME_WAIT; the client's outlasts the behaviours of interest.
Forget(x) ==
    /\ x # Client
    /\ Done(end[x])
    /\ end' = [end EXCEPT ![x] = Closed]
    /\ UNCHANGED <<wire, segment, events, history>>

Lose(x) ==
    /\ wire[x] # <<>>
    /\ Spend
    /\ wire' = [wire EXCEPT ![x] = Tail(@)]
    /\ Note({"loss"})
    /\ UNCHANGED <<end, segment>>

EndsNext ==
    \/ Connect
    \/ \E x \in Ends : Send(x) \/ Close(x) \/ Abort(x) \/ Retransmit(x) \/ Forget(x) \/ Lose(x)

\* External: another client takes the VIP's next backend.  Only a segment of an
\* untracked client reads the index, so it is enough that others move it before
\* such a segment arrives.
OthersConnect ==
    /\ LB_CONNECTIONS[Client] = None
    /\ wire[Client] # <<>>
    /\ \A p \in Cpus : ~cpu[p].new_conn
    /\ GATEWAY_INDEXES' = [GATEWAY_INDEXES EXCEPT ![Vip] = NextIndex(BACKENDS[Vip], @)]
    /\ UNCHANGED <<BACKENDS, LB_CONNECTIONS, cpu, flowVars>>

-----------------------------------------------------------------------------
\* The node.

InHand(x) == \E p \in Cpus : segment[p] # None /\ segment[p].from = x

\* A CPU takes up the next segment that x sent, unless one of x's is in hand.
Arrive(p, x) ==
    /\ wire[x] # <<>>
    /\ ~InHand(x)
    /\ segment' = [segment EXCEPT ![p] = [from |-> x, seg |-> Head(wire[x])]]
    /\ wire' = [wire EXCEPT ![x] = Tail(@)]
    /\ UNCHANGED <<end, events, history>>

FromClient(p) ==
    /\ Arrive(p, Client)
    /\ TcpIngress(p, Client, Vip, Header(Head(wire[Client]).kind))

FromBackend(p, b) ==
    /\ Arrive(p, b)
    /\ TcpEgress(p, Client, Header(Head(wire[b]).kind))

\* Without an entry for the client, a backend's segment leaves with the backend's
\* own address, and is none of the client's connection.
FromUntracked(p, b) ==
    /\ At(p, "idle")
    /\ LB_CONNECTIONS[Client] = None
    /\ wire[b] # <<>>
    /\ ~InHand(b)
    /\ wire' = [wire EXCEPT ![b] = Tail(@)]
    /\ UNCHANGED <<mapVars, cpu, end, segment, events, history>>

\* Where a segment goes whose handler returns: to the client once the source is
\* rewritten; to the backend if update_tcp_conns succeeds and, for a new
\* connection, the rewriting does too; otherwise to no end of the connection.
Destination(p) ==
    LET l == cpu[p]
        closes == Advanced(l.lb_mapping, l.hdr).tcp_state = "Closed"
    IN  CASE segment[p].from # Client -> Client
          [] l.pc = "tcp_record" -> l.lb_mapping.backend
          [] l.pc = "tcp_update" /\ ~l.new_conn /\ ~(closes /\ LB_CONNECTIONS[Client] = None) ->
                l.lb_mapping.backend
          [] OTHER -> None

Deliver(p, x) ==
    \E r \in {Received(x, segment[p].seg)} :
        /\ end' = [end EXCEPT ![x] = r[1]]
        /\ wire' = IF r[2] = None THEN wire
                   ELSE [wire EXCEPT ![x] = Append(@, Segment(r[1], r[2]))]

Handle(p) ==
    /\ \/ TcpLookupBackends(p)
       \/ TcpLookupIndex(p)
       \/ TcpAdvanceIndex(p)
       \/ TcpRst(p)
       \/ TcpUpdateConns(p)
       \/ TcpRecordConn(p)
       \/ EgressRst(p)
       \/ EgressUpdateConns(p)
    /\ IF cpu'[p].pc # "idle" THEN UNCHANGED <<end, wire, segment>>
       ELSE /\ segment' = [segment EXCEPT ![p] = None]
            /\ IF Destination(p) = None THEN UNCHANGED <<end, wire>>
               ELSE Deliver(p, Destination(p))
    /\ UNCHANGED <<events, history>>

NodeNext(p) ==
    \/ FromClient(p)
    \/ \E b \in Backends : FromBackend(p, b) \/ FromUntracked(p, b)
    \/ Handle(p)

FlowNext ==
    \/ EndsNext /\ UNCHANGED <<mapVars, cpu>>
    \/ OthersConnect
    \/ \E p \in Cpus : NodeNext(p)

FlowSpec == FlowInit /\ [][FlowNext]_vars

-----------------------------------------------------------------------------
\* Maps, programs, segments and ends have values of their types.
FlowTypeOK ==
    /\ MapsTypeOK /\ EbpfTypeOK
    /\ end \in [Ends -> EndType]
    /\ wire \in [Ends -> Seq(SegmentType)]
    /\ segment \in [Cpus -> PacketType \cup {None}]
    /\ \A p \in Cpus : segment[p] = None <=> At(p, "idle")

\* While neither end has sent a FIN or an RST, a connection that is open at the
\* client is tracked to the backend that has its other end, whatever was lost or
\* sent again, and whichever backend is next in line.
OpenIsTracked ==
    LET m == LB_CONNECTIONS[Client]
    IN  end[Client].phase = "open" /\ history \cap {"fin", "abort"} = {}
        => m # None /\ end[m.backend].phase \in {"opening", "open"}

\* A connection that an end aborts before any FIN leaves no entry behind once
\* its segments are through: those that were on their way, and that were taken
\* for new connections, draw an RST from wherever they are sent.
AbortedIsForgotten ==
    Quiet /\ "abort" \in history /\ history \cap {"fin", "loss"} = {}
        => LB_CONNECTIONS[Client] = None

Over(x) == Done(end[x]) \/ end[x].phase = "closed"

\* A connection whose ends close one after the other, with nothing else under
\* way, is closed at both ends and no longer tracked once its segments are
\* through: process_tcp_state_transition ends the tracking with the last ACK, not
\* before it and not never.
OrderlyCloseCompletes ==
    \A b \in Backends :
        Quiet /\ end[Client].finSent /\ end[b].finSent /\ history = {"fin"}
            => Over(Client) /\ Over(b) /\ LB_CONNECTIONS[Client] = None

-----------------------------------------------------------------------------
\* "Try to find the backend previously used for this connection. If not found,
\* it means that this is a new connection" (handle_tcp_ingress): unless segments
\* were lost or sent again, none of a connection that both ends still have is
\* taken for a new connection's.
NotFoundMeansNew ==
    (\E p \in Cpus : cpu[p].new_conn) /\ history \cap {"loss", "repeat"} = {} =>
        \A b \in Backends : ~(end[Client].phase = "open" /\ end[b].phase = "open"
                                /\ ~Done(end[Client]) /\ ~Done(end[b]))
=============================================================================
