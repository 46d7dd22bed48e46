-------------------------- MODULE TcpFlowInvariant --------------------------
(***************************************************************************)
(* The inductive invariant of TcpFlow, for every set of backends and CPUs, *)
(* however many segments are sent, lost or sent again, and the lemmas that *)
(* every step keeps its parts Shape and Live.                              *)
(*                                                                         *)
(* The invariant has a part for every step (Shape), one for the time       *)
(* before a FIN (Live), two for the time before and after an abort (Calm,  *)
(* Aborted), and one that follows an orderly close stage by stage          *)
(* (Orderly).                                                              *)
(***************************************************************************)
EXTENDS TcpFlow, TLAPS

-----------------------------------------------------------------------------
\* The inductive invariant.

\* The client's entry.
Conn == LB_CONNECTIONS[Client]

\* CPU p has a segment of x in hand.
From(p, x) == segment[p] # None /\ segment[p].from = x

\* The lists and mappings of a flow: no padding, and a state.
FullList == [backends : [0 .. ArrayCapacity - 1 -> Backends], backends_len : {ArrayCapacity}]
Mapping == [backend : Backends, backend_key : Vips, tcp_state : TCPState]

\* A handler that has a client's segment in hand, and one that has a backend's.
IngressOK(l) ==
    /\ l.vip = Vip
    /\ \/ l.pc = "tcp_backends" /\ l.new_conn /\ l.lb_mapping = None
       \/ l.pc = "tcp_index" /\ l.new_conn /\ l.list \in FullList /\ l.lb_mapping = None
       \/ l.pc = "tcp_advance" /\ l.new_conn /\ l.list \in FullList /\ l.idx \in Nat /\ l.lb_mapping \in Mapping
       \/ l.pc = "tcp_rst" /\ "RST" \in l.hdr /\ l.lb_mapping \in Mapping
       \/ l.pc = "tcp_update" /\ l.lb_mapping \in Mapping
       \/ l.pc = "tcp_record" /\ l.new_conn /\ l.lb_mapping \in Mapping

EgressOK(l) ==
    /\ l.pc = "egress_update" \/ (l.pc = "egress_rst" /\ "RST" \in l.hdr)
    /\ ~l.new_conn /\ l.lb_mapping \in Mapping

HandlerOK(l, packet) ==
    IF packet = None THEN l = Idle
    ELSE /\ l.client = Client /\ l.hdr = Header(packet.seg.kind)
         /\ IF packet.from = Client THEN IngressOK(l) ELSE EgressOK(l)

\* What holds at every step: the types, what the handlers' locals are, that only
\* the client is tracked, and that an end has one segment in hand at most.
Shape ==
    /\ FlowTypeOK
    /\ BACKENDS \in [Vips -> FullList]
    /\ GATEWAY_INDEXES \in [Vips -> Nat]
    /\ LB_CONNECTIONS \in [ClientKey -> Mapping \cup {None}]
    /\ \A c \in ClientKey \ {Client} : LB_CONNECTIONS[c] = None
    /\ \A p \in Cpus : HandlerOK(cpu[p], segment[p])
    /\ \A p, q \in Cpus : \A x \in Ends : From(p, x) /\ From(q, x) => p = q

-----------------------------------------------------------------------------
\* Before a FIN.

Unused == {"closed", "reset"}
IsRst(seg) == seg.kind \in {"RST", "RSTACK"}

\* A segment of x in a connection without a FIN.
Plain(x, seg) ==
    /\ seg.kind # "FIN" /\ seg.acksFin = FALSE
    /\ IF x = Client THEN seg.kind # "SYNACK" ELSE seg.kind # "SYN"

\* SYNs are in front of the other segments.
SynFirst(q) == \A i, j \in 1 .. Len(q) : i < j /\ q[j].kind = "SYN" => q[i].kind = "SYN"

\* A backend's RST is under way, and so is a client's SYN.
BackendRst ==
    \/ \E b \in Backends : \E seg \in Range(wire[b]) : IsRst(seg)
    \/ \E p \in Cpus : segment[p] # None /\ segment[p].from # Client /\ IsRst(segment[p].seg)
ClientSyn ==
    \/ \E seg \in Range(wire[Client]) : seg.kind = "SYN"
    \/ \E p \in Cpus : From(p, Client) /\ segment[p].seg.kind = "SYN"

\* CPU p forwards the client's RST, having removed the entry, to b.
Resetting(p, b) ==
    /\ From(p, Client) /\ IsRst(segment[p].seg)
    /\ cpu[p].pc = "tcp_update" /\ ~cpu[p].new_conn /\ cpu[p].lb_mapping.backend = b

\* The client's handler: new_conn means that there is still no entry, and a mapping
\* that was found is still the entry, or the entry is gone.  An RST is forwarded
\* only after the entry is removed, and is never recorded.
Tracking(p) ==
    From(p, Client) =>
        /\ cpu[p].new_conn => Conn = None
        /\ ~cpu[p].new_conn => Conn \in {None, cpu[p].lb_mapping}
        /\ IsRst(segment[p].seg) =>
              /\ cpu[p].pc # "tcp_record"
              /\ cpu[p].pc = "tcp_update" => Conn = None /\ ~cpu[p].new_conn

\* No end has sent or seen a FIN, nor has the node.
NoFin ==
    /\ \A x \in Ends : ~end[x].finSent /\ ~end[x].finAcked /\ ~end[x].finRcvd
    /\ \A x \in Ends : \A seg \in Range(wire[x]) : Plain(x, seg)
    /\ \A p \in Cpus : segment[p] # None => Plain(segment[p].from, segment[p].seg)
    /\ Conn # None => Conn.tcp_state = "Established"
    /\ \A p \in Cpus : cpu[p].lb_mapping # None => cpu[p].lb_mapping.tcp_state = "Established"

\* Only the backend of the entry has an end of the connection.
OneEnd ==
    \A b \in Backends : \/ end[b].phase \in Unused
                        \/ Conn # None /\ Conn.backend = b
                        \/ \E p \in Cpus : Resetting(p, b)

RstFromUnused == BackendRst /\ Conn # None => end[Conn.backend].phase \in Unused

SynsFirst ==
    /\ SynFirst(wire[Client])
    /\ \A p \in Cpus : From(p, Client) /\ segment[p].seg.kind # "SYN" =>
          \A seg \in Range(wire[Client]) : seg.kind # "SYN"

\* A SYN sent twice is with the backend before the backend can abort.
SynIsAhead ==
    ClientSyn /\ end[Client].phase \in {"open", "reset"} =>
        Conn # None /\ end[Conn.backend].phase = "opening" /\ ~BackendRst

Live ==
    /\ NoFin
    /\ \A p \in Cpus : Tracking(p)
    /\ OneEnd /\ RstFromUnused /\ SynsFirst /\ SynIsAhead

LiveInv == "fin" \notin history /\ ~({"abort", "loss"} \subseteq history) => Live

\* Before an abort too: no RST, and an entry from the first SYN on.
NoRst ==
    /\ \A x \in Ends : end[x].phase # "reset"
    /\ \A x \in Ends : \A seg \in Range(wire[x]) : ~IsRst(seg)
    /\ \A p \in Cpus : segment[p] # None => ~IsRst(segment[p].seg)

ClientClosed ==
    end[Client].phase = "closed" =>
        Conn = None /\ wire[Client] = <<>> /\ (\A p \in Cpus : ~From(p, Client))

EntryStays ==
    /\ end[Client].phase = "open" => Conn # None
    /\ Conn # None => end[Conn.backend].phase \in {"opening", "open"}
    /\ \A p \in Cpus : From(p, Client) /\ ~cpu[p].new_conn => Conn # None

OthersUnused ==
    \A b \in Backends : Conn = None \/ Conn.backend # b =>
        end[b].phase = "closed" /\ wire[b] = <<>> /\ (\A p \in Cpus : ~From(p, b))

ClientOpening ==
    end[Client].phase = "opening" =>
        /\ \A b \in Backends : end[b].phase # "open"
        /\ \A seg \in Range(wire[Client]) : seg.kind = "SYN"
        /\ \A b \in Backends : \A seg \in Range(wire[b]) : seg.kind = "SYNACK"
        /\ \A p \in Cpus : segment[p] # None =>
              segment[p].seg.kind = IF segment[p].from = Client THEN "SYN" ELSE "SYNACK"

\* The ACK that opens the backend's end is lost, or under way.
AckUnderWay ==
    end[Client].phase = "open" /\ end[Conn.backend].phase = "opening" /\ history = {} =>
        \/ \E seg \in Range(wire[Client]) : seg.kind # "SYN"
        \/ \E p \in Cpus : From(p, Client) /\ segment[p].seg.kind # "SYN"

Calm == NoRst /\ ClientClosed /\ EntryStays /\ OthersUnused /\ ClientOpening /\ AckUnderWay

CalmInv == history \cap {"fin", "abort"} = {} => Calm

\* An RST that will remove the entry is under way.
Pending ==
    \/ \E x \in Ends : \E seg \in Range(wire[x]) : IsRst(seg)
    \/ \E p \in Cpus : segment[p] # None /\ IsRst(segment[p].seg) /\ cpu[p].pc \notin {"tcp_update", "egress_update"}

Aborted == end[Client].phase \in {"open", "reset"} /\ (Conn # None => Pending)

AbortedInv == "abort" \in history /\ history \cap {"fin", "loss"} = {} => Aborted

-----------------------------------------------------------------------------
\* An orderly close.

FirstFin == [kind |-> "FIN", acksFin |-> FALSE]
LastAck == [kind |-> "ACK", acksFin |-> TRUE]
SecondFin == [kind |-> "FIN", acksFin |-> TRUE]

\* The segments under way are those of q, from x; the first may be in hand.
UnderWay(x, q) ==
    /\ \A y \in Ends \ {x} : wire[y] = <<>> /\ (\A p \in Cpus : ~From(p, y))
    /\ \/ wire[x] = q /\ (\A p \in Cpus : ~From(p, x))
       \/ \E p \in Cpus :
             /\ From(p, x) /\ q # <<>> /\ segment[p].seg = Head(q) /\ wire[x] = Tail(q)
             /\ cpu[p].pc = IF x = Client THEN "tcp_update" ELSE "egress_update"
             /\ ~cpu[p].new_conn /\ cpu[p].lb_mapping = Conn

OpenEnd(finSent, finAcked, finRcvd) ==
    [phase |-> "open", finSent |-> finSent, finAcked |-> finAcked, finRcvd |-> finRcvd]

EndIs(x, finSent, finAcked, finRcvd) == end[x] = OpenEnd(finSent, finAcked, finRcvd)

Finished(x) == EndIs(x, TRUE, TRUE, TRUE) \/ (x # Client /\ end[x] = Closed)

TrackedAs(b, state) == Conn # None /\ Conn.backend = b /\ Conn.tcp_state = state

\* x closes first, y in reply.
Stages(b, x, y) ==
    \/ UnderWay(x, <<FirstFin>>) /\ TrackedAs(b, "Established")
          /\ EndIs(x, TRUE, FALSE, FALSE) /\ EndIs(y, FALSE, FALSE, FALSE)
    \/ UnderWay(y, <<LastAck>>) /\ TrackedAs(b, "FinWait1")
          /\ EndIs(x, TRUE, FALSE, FALSE) /\ EndIs(y, FALSE, FALSE, TRUE)
    \/ UnderWay(y, <<LastAck, SecondFin>>) /\ TrackedAs(b, "FinWait1")
          /\ EndIs(x, TRUE, FALSE, FALSE) /\ EndIs(y, TRUE, FALSE, TRUE)
    \/ UnderWay(y, <<>>) /\ TrackedAs(b, "FinWait2")
          /\ EndIs(x, TRUE, TRUE, FALSE) /\ EndIs(y, FALSE, FALSE, TRUE)
    \/ UnderWay(y, <<SecondFin>>) /\ TrackedAs(b, "FinWait2")
          /\ EndIs(x, TRUE, TRUE, FALSE) /\ EndIs(y, TRUE, FALSE, TRUE)
    \/ UnderWay(x, <<LastAck>>) /\ TrackedAs(b, "TimeWait")
          /\ Finished(x) /\ EndIs(y, TRUE, FALSE, TRUE)
    \/ UnderWay(x, <<>>) /\ Conn = None /\ Finished(x) /\ Finished(y)

Orderly(b) ==
    /\ \A c \in Backends \ {b} : end[c] = Closed
    /\ Stages(b, Client, b) \/ Stages(b, b, Client)

OrderlyInv == history = {"fin"} => \E b \in Backends : Orderly(b)

IInv == Shape /\ LiveInv /\ CalmInv /\ AbortedInv /\ OrderlyInv

-----------------------------------------------------------------------------
\* Wires.

\* An empty wire carries nothing.
LEMMA EmptyRange == Range(<<>>) = {}
  BY DEF Range

\* A segment sent joins those on the wire, which keeps its type.
LEMMA AppendRange ==
    ASSUME NEW S, NEW q \in Seq(S), NEW e \in S
    PROVE  /\ Append(q, e) \in Seq(S) /\ Append(q, e) # <<>>
           /\ Range(Append(q, e)) = Range(q) \cup {e}
<1>1. Append(q, e) \in Seq(S) /\ Append(q, e) # <<>>
  <2>1. Append(q, e) \in Seq(S) /\ Len(Append(q, e)) = Len(q) + 1 /\ Len(q) \in Nat
    OBVIOUS
  <2>2. Len(<<>>) = 0
    OBVIOUS
  <2> QED
    BY <2>1, <2>2
<1>2. /\ DOMAIN Append(q, e) = 1 .. Len(q) + 1 /\ Append(q, e)[Len(q) + 1] = e
      /\ DOMAIN q = 1 .. Len(q) /\ Len(q) \in Nat
      /\ \A i \in 1 .. Len(q) : Append(q, e)[i] = q[i]
  OBVIOUS
<1>3. /\ Len(q) + 1 \in 1 .. Len(q) + 1
      /\ \A i \in 1 .. Len(q) + 1 : i \in 1 .. Len(q) \/ i = Len(q) + 1
      /\ \A i \in 1 .. Len(q) : i \in 1 .. Len(q) + 1
  BY <1>2
<1>4. Range(Append(q, e)) = Range(q) \cup {e}
  BY <1>2, <1>3, Zenon DEF Range
<1> QED
  BY <1>1, <1>4

\* A segment taken from a wire was its first.
LEMMA TailRange ==
    ASSUME NEW S, NEW q \in Seq(S), q # <<>>
    PROVE  /\ Head(q) \in S /\ Tail(q) \in Seq(S)
           /\ Range(q) = Range(Tail(q)) \cup {Head(q)}
<1>1. Head(q) \in S /\ Tail(q) \in Seq(S) /\ Len(q) \in Nat /\ Len(q) > 0
  OBVIOUS
<1>2. /\ DOMAIN q = 1 .. Len(q) /\ DOMAIN Tail(q) = 1 .. Len(q) - 1
      /\ q[1] = Head(q) /\ \A i \in 1 .. Len(q) - 1 : Tail(q)[i] = q[i + 1]
  OBVIOUS
<1>3. Range(q) \subseteq Range(Tail(q)) \cup {Head(q)}
  <2> SUFFICES ASSUME NEW i \in 1 .. Len(q)
               PROVE  q[i] = Head(q) \/ q[i] \in Range(Tail(q))
    BY <1>2 DEF Range
  <2>1. CASE i = 1
    BY <2>1, <1>2
  <2>2. CASE i # 1
    <3>1. i - 1 \in 1 .. Len(q) - 1 /\ Tail(q)[i - 1] = q[i]
      BY <2>2, <1>1, <1>2
    <3> QED
      BY <3>1, <1>2, Zenon DEF Range
  <2> QED
    BY <2>1, <2>2
<1>4. Range(Tail(q)) \cup {Head(q)} \subseteq Range(q)
  <2>1. 1 \in DOMAIN q /\ \A i \in 1 .. Len(q) - 1 : i + 1 \in DOMAIN q
    BY <1>1, <1>2
  <2> QED
    BY <2>1, <1>2 DEF Range
<1> QED
  BY <1>1, <1>3, <1>4

\* On a wire with the SYNs in front, any other segment may follow, and a SYN if there
\* is nothing else.
LEMMA SynFirstAppend ==
    ASSUME NEW S, NEW q \in Seq(S), NEW e \in S, SynFirst(q),
           e.kind = "SYN" => \A seg \in Range(q) : seg.kind = "SYN"
    PROVE  SynFirst(Append(q, e))
<1> DEFINE r == Append(q, e)
<1> SUFFICES ASSUME NEW i \in 1 .. Len(r), NEW j \in 1 .. Len(r), i < j, r[j].kind = "SYN"
             PROVE  r[i].kind = "SYN"
  BY DEF SynFirst
<1>1. Len(r) = Len(q) + 1 /\ Len(q) \in Nat /\ r[Len(q) + 1] = e
  OBVIOUS
<1>2. i \in 1 .. Len(q) /\ r[i] = q[i] /\ r[i] \in Range(q)
  BY <1>1 DEF Range
<1>3. CASE j = Len(q) + 1
  BY <1>1, <1>2, <1>3
<1>4. CASE j # Len(q) + 1
  <2>1. j \in 1 .. Len(q) /\ r[j] = q[j]
    BY <1>1, <1>4
  <2> QED
    BY <1>2, <2>1 DEF SynFirst
<1> QED
  BY <1>3, <1>4

\* The first segment taken, the SYNs are still in front; if it was none, there are no
\* more of them.
LEMMA SynFirstTail ==
    ASSUME NEW S, NEW q \in Seq(S), q # <<>>, SynFirst(q)
    PROVE  /\ SynFirst(Tail(q))
           /\ Head(q).kind # "SYN" => \A seg \in Range(Tail(q)) : seg.kind # "SYN"
<1>1. /\ Len(q) \in Nat /\ Len(q) > 0 /\ Len(Tail(q)) = Len(q) - 1 /\ q[1] = Head(q)
      /\ DOMAIN Tail(q) = 1 .. Len(q) - 1
      /\ \A i \in 1 .. Len(q) - 1 : Tail(q)[i] = q[i + 1]
  OBVIOUS
<1>2. SynFirst(Tail(q))
  <2> SUFFICES ASSUME NEW i \in 1 .. Len(q) - 1, NEW j \in 1 .. Len(q) - 1, i < j,
                      q[j + 1].kind = "SYN"
               PROVE  q[i + 1].kind = "SYN"
    BY <1>1 DEF SynFirst
  <2>1. i + 1 \in 1 .. Len(q) /\ j + 1 \in 1 .. Len(q) /\ i + 1 < j + 1
    BY <1>1
  <2> QED
    BY <2>1 DEF SynFirst
<1>3. ASSUME Head(q).kind # "SYN", NEW i \in 1 .. Len(q) - 1
      PROVE  Tail(q)[i].kind # "SYN"
  <2>1. 1 \in 1 .. Len(q) /\ i + 1 \in 1 .. Len(q) /\ 1 < i + 1
    BY <1>1
  <2> QED
    BY <1>1, <1>3, <2>1 DEF SynFirst
<1> QED
  BY <1>1, <1>2, <1>3 DEF Range

-----------------------------------------------------------------------------
\* What follows from the assumptions on the constants.

\* The ends and the client's key, and the values that an absent one is told from.
LEMMA Basics ==
    /\ Client \in ClientKey /\ Client \in Ends /\ Client \notin Backends /\ Vip \in Vips
    /\ \A x : x \in Ends <=> x \in Backends \/ x = Client
    /\ None \notin Ends /\ None # Client
    /\ FullList \subseteq BackendList /\ None \notin FullList
    /\ Mapping \subseteq LoadBalancerMapping /\ None \notin Mapping
    /\ None \notin PacketType /\ None \notin Kinds /\ None \notin TCPState
<1>1. FullList \subseteq BackendList
  <2> SUFFICES ASSUME NEW list \in FullList PROVE list \in BackendList
    OBVIOUS
  <2>1. ArrayCapacity \in 0 .. ArrayCapacity
    BY MapsAssumption
  <2>2. list.backends \in [0 .. ArrayCapacity - 1 -> Backends \cup {ZeroBackend}]
    BY DEF FullList
  <2> QED
    BY <2>1, <2>2 DEF FullList, BackendList
<1>2. Mapping \subseteq LoadBalancerMapping
  BY DEF Mapping, LoadBalancerMapping
<1> QED
  BY <1>1, <1>2, MapsAssumption, NoneAssumption, FlowAssumption DEF Ends, ClientKey

\* There is a list of all backends, which is what FlowInit chooses.
LEMMA BackendsListed ==
    (CHOOSE f \in Bijection(0 .. ArrayCapacity - 1, Backends) : TRUE)
        \in [0 .. ArrayCapacity - 1 -> Backends]
<1>1. (CHOOSE f \in Bijection(0 .. ArrayCapacity - 1, Backends) : TRUE)
          \in Bijection(0 .. ArrayCapacity - 1, Backends)
  BY FlowAssumption
<1> QED
  BY <1>1 DEF Bijection, Injection

\* The invariant holds before the client connects.
LEMMA InitInv == FlowInit => IInv
<1> SUFFICES ASSUME FlowInit PROVE IInv
  OBVIOUS
<1> USE Basics
<1>1. /\ \A p \in Cpus : segment[p] = None /\ cpu[p] = Idle
      /\ \A x \in Ends : end[x] = Closed /\ wire[x] = <<>>
      /\ Conn = None /\ history = {}
  BY DEF FlowInit, EbpfInit, Conn
<1>2. Idle \in Locals
  BY DEF Idle, Locals, Program
<1>3. Closed \in EndType
  BY DEF Closed, EndType
<1>4. Shape
  <2>1. BACKENDS \in [Vips -> FullList]
    BY BackendsListed, Zenon DEF FlowInit, FullList
  <2>2. GATEWAY_INDEXES \in [Vips -> Nat] /\ LB_CONNECTIONS \in [ClientKey -> Mapping \cup {None}]
    BY DEF FlowInit
  <2>3. MapsTypeOK
    BY <2>1, <2>2 DEF MapsTypeOK
  <2>4. end \in [Ends -> EndType] /\ wire \in [Ends -> Seq(SegmentType)]
    BY <1>3 DEF FlowInit
  <2>5. segment \in [Cpus -> PacketType \cup {None}] /\ cpu \in [Cpus -> Locals]
    BY <1>2 DEF FlowInit, EbpfInit
  <2>6. \A p \in Cpus : HandlerOK(cpu[p], segment[p]) /\ At(p, "idle")
    <3>1. Idle.pc = "idle"
      BY DEF Idle
    <3> QED
      BY <1>1, <3>1 DEF HandlerOK, At
  <2>7. \A c \in ClientKey : LB_CONNECTIONS[c] = None
    BY Zenon DEF FlowInit
  <2> QED
    BY <1>1, <2>1, <2>2, <2>3, <2>4, <2>5, <2>6, <2>7, Zenon DEF Shape, FlowTypeOK, EbpfTypeOK, From
<1>5. LiveInv
  <2>1. SynFirst(<<>>)
    BY DEF SynFirst
  <2> QED
    BY <1>1, <2>1, EmptyRange DEF LiveInv, Live, NoFin, OneEnd, RstFromUnused, SynsFirst, SynIsAhead,
                                  Closed, Idle, Tracking, From, Unused, ClientSyn
<1>6. CalmInv
  BY <1>1, EmptyRange DEF CalmInv, Calm, NoRst, ClientClosed, EntryStays, OthersUnused, ClientOpening,
                          AckUnderWay, Closed, From
<1>7. AbortedInv /\ OrderlyInv
  BY <1>1, Zenon DEF AbortedInv, OrderlyInv
<1> QED
  BY <1>4, <1>5, <1>6, <1>7 DEF IInv

-----------------------------------------------------------------------------
\* Shape.

\* An end's step: the node and what it has in hand stay as they are.
LEMMA ShapeOfEnds ==
    ASSUME Shape, UNCHANGED <<mapVars, cpu, segment>>,
           end' \in [Ends -> EndType], wire' \in [Ends -> Seq(SegmentType)]
    PROVE  Shape'
  BY DEF Shape, FlowTypeOK, MapsTypeOK, EbpfTypeOK, At, From, mapVars

\* A CPU without a segment is idle, and one with a segment is not.
LEMMA HandlerIdle ==
    ASSUME NEW l, NEW packet, HandlerOK(l, packet)
    PROVE  packet = None <=> l.pc = "idle"
<1>1. CASE packet = None
  BY <1>1 DEF HandlerOK, Idle
<1>2. CASE packet # None /\ packet.from = Client
  BY <1>2 DEF HandlerOK, IngressOK
<1>3. CASE packet # None /\ packet.from # Client
  BY <1>3, Zenon DEF HandlerOK, EgressOK
<1> QED
  BY <1>1, <1>2, <1>3

\* The node's step on CPU p: it is enough that the CPU's new locals go with the
\* segment it has in hand, and that no other CPU has one of the same sender.
LEMMA ShapeOfNode ==
    ASSUME Shape, NEW p \in Cpus, NEW l \in Locals, NEW packet \in PacketType \cup {None},
           HandlerOK(l, packet),
           packet # None => \A q \in Cpus \ {p} : ~From(q, packet.from),
           cpu' = [cpu EXCEPT ![p] = l], segment' = [segment EXCEPT ![p] = packet],
           end' \in [Ends -> EndType], wire' \in [Ends -> Seq(SegmentType)],
           BACKENDS' = BACKENDS, GATEWAY_INDEXES' \in [Vips -> Nat],
           NEW conn \in Mapping \cup {None},
           LB_CONNECTIONS' = [LB_CONNECTIONS EXCEPT ![Client] = conn]
    PROVE  Shape' /\ Conn' = conn /\ cpu'[p] = l /\ segment'[p] = packet
<1> USE Basics
<1>1. /\ cpu \in [Cpus -> Locals] /\ segment \in [Cpus -> PacketType \cup {None}]
      /\ LB_CONNECTIONS \in [ClientKey -> Mapping \cup {None}]
      /\ \A c \in ClientKey \ {Client} : LB_CONNECTIONS[c] = None
  BY Zenon DEF Shape, FlowTypeOK, EbpfTypeOK
<1>2. /\ cpu' \in [Cpus -> Locals] /\ segment' \in [Cpus -> PacketType \cup {None}]
      /\ cpu'[p] = l /\ segment'[p] = packet
      /\ \A q \in Cpus \ {p} : cpu'[q] = cpu[q] /\ segment'[q] = segment[q]
  BY <1>1, Zenon
<1>3. /\ LB_CONNECTIONS' \in [ClientKey -> Mapping \cup {None}] /\ Conn' = conn
      /\ \A c \in ClientKey \ {Client} : LB_CONNECTIONS'[c] = None
  BY <1>1, Zenon DEF Conn
<1>4. BACKENDS' \in [Vips -> FullList] /\ MapsTypeOK'
  BY <1>3 DEF Shape, MapsTypeOK
<1>5. \A q \in Cpus : HandlerOK(cpu'[q], segment'[q])
  BY <1>2 DEF Shape
<1>6. \A q \in Cpus : segment'[q] = None <=> cpu'[q].pc = "idle"
  BY <1>5, HandlerIdle, Zenon
<1>7. \A q, r \in Cpus : \A x \in Ends :
          (segment'[q] # None /\ segment'[q].from = x) /\ (segment'[r] # None /\ segment'[r].from = x) => q = r
  BY <1>2 DEF Shape, From
<1> QED
  BY <1>2, <1>3, <1>4, <1>5, <1>6, <1>7, Zenon DEF Shape, FlowTypeOK, EbpfTypeOK, At, From

\* A segment has its type, and tells whether the sender has seen a FIN.
LEMMA SegmentIsOne ==
    ASSUME NEW e \in EndType, NEW kind \in Kinds
    PROVE  /\ Segment(e, kind) \in SegmentType
           /\ Segment(e, kind).kind = kind /\ Segment(e, kind).acksFin = e.finRcvd
  BY DEF Segment, SegmentType, EndType

\* An end stays one when it accepts a segment.
LEMMA AcceptedType ==
    ASSUME NEW e \in EndType, NEW seg \in SegmentType
    PROVE  Accepted(e, seg) \in EndType
<1> DEFINE acked == e.finAcked \/ (e.finSent /\ seg.acksFin)
           rcvd == e.finRcvd \/ seg.kind = "FIN"
<1>1. Accepted(e, seg) = [e EXCEPT !.phase = "open", !.finAcked = acked, !.finRcvd = rcvd]
  BY DEF Accepted
<1>2. acked \in BOOLEAN /\ rcvd \in BOOLEAN
  BY Zenon
<1> HIDE DEF acked, rcvd
<1> QED
  BY <1>1, <1>2, Zenon DEF EndType

\* What an end becomes and answers.
LEMMA ReceivedType ==
    ASSUME Shape, NEW x \in Ends, NEW seg \in SegmentType
    PROVE  Received(x, seg)[1] \in EndType /\ Received(x, seg)[2] \in Kinds \cup {None}
<1> DEFINE e == end[x]
<1>1. e \in EndType
  BY DEF Shape, FlowTypeOK
<1>2. Accepted(e, seg) \in EndType
  BY <1>1, AcceptedType
<1>3. [e EXCEPT !.phase = "reset"] \in EndType /\ [Closed EXCEPT !.phase = "opening"] \in EndType
  BY <1>1, Zenon DEF EndType, Closed
<1>4. \/ Received(x, seg) = <<IF Fresh(e) THEN e ELSE [e EXCEPT !.phase = "reset"], None>>
      \/ Received(x, seg) = <<[Closed EXCEPT !.phase = "opening"], "SYNACK">>
      \/ Received(x, seg) = <<e, IF seg.kind = "FIN" THEN "ACK" ELSE None>>
      \/ Received(x, seg) = <<e, IF seg.kind = "SYN" THEN "RSTACK" ELSE "RST">>
      \/ Received(x, seg) = <<e, "RST">>
      \/ Received(x, seg) = <<Accepted(e, seg), IF seg.kind = "ACK" THEN None ELSE "ACK">>
  BY DEF Received
<1> HIDE DEF e
<1> QED
  BY <1>1, <1>2, <1>3, <1>4 DEF Kinds

\* What a send does to the ends and the wires.
LEMMA SendsOne ==
    ASSUME Shape, NEW x \in Ends, NEW e \in EndType, NEW kind \in Kinds, Sends(x, e, kind)
    PROVE  /\ end' \in [Ends -> EndType] /\ wire' \in [Ends -> Seq(SegmentType)]
           /\ end'[x] = e /\ wire'[x] = Append(wire[x], Segment(e, kind))
           /\ wire'[x] # <<>> /\ Range(wire'[x]) = Range(wire[x]) \cup {Segment(e, kind)}
           /\ \A y \in Ends \ {x} : end'[y] = end[y] /\ wire'[y] = wire[y]
<1>1. end \in [Ends -> EndType] /\ wire \in [Ends -> Seq(SegmentType)]
  BY DEF Shape, FlowTypeOK
<1>2. Segment(e, kind) \in SegmentType
  BY SegmentIsOne
<1>3. /\ Append(wire[x], Segment(e, kind)) \in Seq(SegmentType)
      /\ Append(wire[x], Segment(e, kind)) # <<>>
      /\ Range(Append(wire[x], Segment(e, kind))) = Range(wire[x]) \cup {Segment(e, kind)}
  BY <1>1, <1>2, AppendRange
<1> QED
  BY <1>1, <1>3 DEF Sends

\* What a delivery does.
LEMMA DeliversOne ==
    ASSUME Shape, NEW p \in Cpus, segment[p] # None, NEW x \in Ends, Deliver(p, x)
    PROVE  LET r == Received(x, segment[p].seg)
           IN  /\ end' \in [Ends -> EndType] /\ wire' \in [Ends -> Seq(SegmentType)]
               /\ end'[x] = r[1]
               /\ r[2] = None => wire' = wire
               /\ r[2] # None => /\ r[2] \in Kinds
                                 /\ wire'[x] = Append(wire[x], Segment(r[1], r[2]))
                                 /\ Range(wire'[x]) = Range(wire[x]) \cup {Segment(r[1], r[2])}
               /\ \A y \in Ends \ {x} : end'[y] = end[y] /\ wire'[y] = wire[y]
<1> DEFINE r == Received(x, segment[p].seg)
<1>1. end \in [Ends -> EndType] /\ wire \in [Ends -> Seq(SegmentType)]
  BY Zenon DEF Shape, FlowTypeOK
<1>2. segment[p].seg \in SegmentType
  BY DEF Shape, FlowTypeOK, PacketType
<1>3. r[1] \in EndType /\ r[2] \in Kinds \cup {None}
  BY <1>2, ReceivedType, Zenon
<1>4. /\ end' = [end EXCEPT ![x] = r[1]]
      /\ wire' = IF r[2] = None THEN wire ELSE [wire EXCEPT ![x] = Append(@, Segment(r[1], r[2]))]
  BY DEF Deliver
<1> HIDE DEF r
<1>5. r[2] # None => /\ Append(wire[x], Segment(r[1], r[2])) \in Seq(SegmentType)
                     /\ Range(Append(wire[x], Segment(r[1], r[2]))) = Range(wire[x]) \cup {Segment(r[1], r[2])}
  BY <1>1, <1>3, SegmentIsOne, AppendRange
<1>6. /\ end' \in [Ends -> EndType] /\ end'[x] = r[1]
      /\ \A y \in Ends \ {x} : end'[y] = end[y]
  BY <1>1, <1>3, <1>4, Zenon
<1>7. CASE r[2] = None
  BY <1>1, <1>4, <1>6, <1>7, Zenon DEF r
<1>8. CASE r[2] # None
  BY <1>1, <1>3, <1>4, <1>5, <1>6, <1>8, Zenon DEF r
<1> QED
  BY <1>7, <1>8

-----------------------------------------------------------------------------
\* What the handlers do, seen from the connection.

\* The entry after update_tcp_conns has taken mapping m through a packet, when it was
\* conn before.
Updated(m, hdr, conn) ==
    LET next == Advanced(m, hdr)
    IN  IF next.tcp_state = "Closed" THEN None ELSE IF next = m THEN conn ELSE next

Finishes(p) == cpu'[p] = Idle /\ segment'[p] = None

\* A new connection's segment goes on to get a backend.
ChooseStep(p) ==
    /\ From(p, Client) /\ cpu[p].new_conn /\ cpu'[p].new_conn
    /\ UNCHANGED <<end, wire, segment>>
    /\ \/ cpu[p].pc = "tcp_backends" /\ cpu'[p].pc = "tcp_index"
          /\ cpu'[p].lb_mapping = None /\ Conn' = Conn
       \/ cpu[p].pc = "tcp_index" /\ cpu'[p].pc = "tcp_advance"
          /\ cpu'[p].lb_mapping \in Mapping /\ cpu'[p].lb_mapping.tcp_state = "Established"
          /\ Conn' = Conn
       \/ cpu[p].pc = "tcp_advance" /\ cpu'[p].pc = Chosen(cpu[p].hdr)
          /\ cpu'[p].lb_mapping = cpu[p].lb_mapping /\ Conn' = Conn
       \/ cpu[p].pc = "tcp_update" /\ cpu'[p].pc = "tcp_record"
          /\ cpu'[p].lb_mapping = Advanced(cpu[p].lb_mapping, cpu[p].hdr)
          /\ Conn' = Updated(cpu[p].lb_mapping, cpu[p].hdr, Conn)

\* A client's segment goes no further.
DropStep(p) ==
    /\ From(p, Client) /\ Finishes(p) /\ UNCHANGED <<end, wire>>
    /\ \/ cpu[p].pc \in {"tcp_backends", "tcp_index", "tcp_advance"} /\ cpu[p].new_conn /\ Conn' = Conn
       \/ cpu[p].pc = "tcp_rst" /\ Conn = None /\ Conn' = None
       \/ cpu[p].pc = "tcp_update" /\ cpu[p].new_conn
          /\ Conn' = Updated(cpu[p].lb_mapping, cpu[p].hdr, Conn)
       \/ cpu[p].pc = "tcp_update" /\ ~cpu[p].new_conn /\ Conn = None /\ Conn' = None
          /\ Advanced(cpu[p].lb_mapping, cpu[p].hdr).tcp_state = "Closed"

\* An RST removes the entry.
UnlinkStep(p) ==
    /\ Conn # None /\ Conn' = None /\ UNCHANGED <<end, wire, segment>>
    /\ \/ From(p, Client) /\ cpu[p].pc = "tcp_rst" /\ cpu'[p] = [cpu[p] EXCEPT !.pc = "tcp_update"]
       \/ ~From(p, Client) /\ cpu[p].pc = "egress_rst" /\ cpu'[p] = [cpu[p] EXCEPT !.pc = "egress_update"]

\* A tracked client's segment reaches its backend, and a new one's the chosen one.
ForwardStep(p) ==
    /\ From(p, Client) /\ Finishes(p) /\ cpu[p].pc = "tcp_update" /\ ~cpu[p].new_conn
    /\ Conn' = Updated(cpu[p].lb_mapping, cpu[p].hdr, Conn)
    /\ Deliver(p, cpu[p].lb_mapping.backend)

RecordStep(p) ==
    /\ From(p, Client) /\ Finishes(p) /\ cpu[p].pc = "tcp_record" /\ cpu[p].new_conn
    /\ Conn' = cpu[p].lb_mapping
    /\ Deliver(p, cpu[p].lb_mapping.backend)

\* A backend's segment reaches the client.
ReplyStep(p) ==
    /\ segment[p] # None /\ segment[p].from \in Backends /\ Finishes(p) /\ Deliver(p, Client)
    /\ \/ cpu[p].pc = "egress_rst" /\ Conn = None /\ Conn' = None
       \/ /\ cpu[p].pc = "egress_update"
          /\ \E m \in {cpu[p].lb_mapping, Conn} : m # None /\ Conn' = Updated(m, cpu[p].hdr, Conn)

\* A map without entries counts none.
LEMMA NoneCounted == Cardinality({}) = 0
<1> DEFINE Counts(cs) ==
             cs = [T \in SUBSET {} |-> IF T = {} THEN 0 ELSE 1 + cs[T \ {CHOOSE x : x \in T}]]
<1>1. Counts([T \in SUBSET {} |-> 0])
  OBVIOUS
<1>2. Counts(CHOOSE cs : Counts(cs))
  <2> HIDE DEF Counts
  <2> QED
    BY <1>1
<1>3. (CHOOSE cs : Counts(cs))[{}] = 0
  BY <1>2, Zenon
<1> QED
  BY <1>3 DEF Cardinality

\* LB_CONNECTIONS always has room for the only client.
LEMMA RoomForClient ==
    ASSUME Shape
    PROVE  CanInsert(LB_CONNECTIONS, Client, ConnsCapacity)
<1>1. CASE Conn = None
  <2>1. Keys(LB_CONNECTIONS) = {}
    BY <1>1 DEF Keys, Shape, Conn
  <2> QED
    BY <2>1, NoneCounted, MapsAssumption DEF CanInsert
<1>2. CASE Conn # None
  BY <1>2 DEF CanInsert, Conn
<1> QED
  BY <1>1, <1>2

\* A packet's transition leaves a mapping one.
LEMMA AdvancedType ==
    ASSUME NEW m \in Mapping, NEW hdr
    PROVE  /\ Advanced(m, hdr) \in Mapping /\ Advanced(m, hdr).backend = m.backend
           /\ Advanced(m, hdr).tcp_state = process_tcp_state_transition(hdr, m.tcp_state)
<1>1. m.tcp_state \in TCPState /\ m.tcp_state # None
  BY Basics DEF Mapping
<1>2. process_tcp_state_transition(hdr, m.tcp_state) \in TCPState
  BY <1>1 DEF process_tcp_state_transition, TCPState
<1>3. Advanced(m, hdr) = [m EXCEPT !.tcp_state = process_tcp_state_transition(hdr, m.tcp_state)]
  BY <1>1, Zenon DEF Advanced
<1> QED
  BY <1>2, <1>3 DEF Mapping

\* update_tcp_conns: what becomes of the entry, and where the handler goes.
LEMMA UpdateOutcome ==
    ASSUME Shape, NEW p \in Cpus, NEW m \in Mapping, NEW hdr, NEW locals,
           update_tcp_conns(p, Client, m, hdr, locals)
    PROVE  /\ Updated(m, hdr, Conn) \in Mapping \cup {None}
           /\ LB_CONNECTIONS' = [LB_CONNECTIONS EXCEPT ![Client] = Updated(m, hdr, Conn)]
           /\ \/ Goto(p, locals) /\ ~(Advanced(m, hdr).tcp_state = "Closed" /\ Conn = None)
              \/ Goto(p, Idle) /\ Advanced(m, hdr).tcp_state = "Closed" /\ Conn = None
<1> DEFINE next == Advanced(m, hdr)
<1>1. next \in Mapping /\ next # None
  BY AdvancedType, Basics, Zenon
<1>2. /\ Conn \in Mapping \cup {None} /\ Client \in ClientKey
      /\ LB_CONNECTIONS \in [ClientKey -> Mapping \cup {None}]
  BY Basics DEF Shape, Conn
<1>3. LB_CONNECTIONS = [LB_CONNECTIONS EXCEPT ![Client] = Conn]
  BY <1>2 DEF Conn
<1>4. \/ next.tcp_state = "Closed" /\ RemoveConn(p, Client, locals)
      \/ next.tcp_state # "Closed" /\ next # m /\ InsertConn(p, Client, next, locals)
      \/ next.tcp_state # "Closed" /\ next = m /\ Goto(p, locals) /\ UNCHANGED LB_CONNECTIONS
  BY DEF update_tcp_conns
<1>5. CASE next.tcp_state = "Closed" /\ RemoveConn(p, Client, locals)
  <2>1. Updated(m, hdr, Conn) = None
    BY <1>5 DEF Updated
  <2>2. \/ Conn # None /\ LB_CONNECTIONS' = [LB_CONNECTIONS EXCEPT ![Client] = None] /\ Goto(p, locals)
        \/ Conn = None /\ LB_CONNECTIONS' = LB_CONNECTIONS /\ Goto(p, Idle)
    BY <1>5, Zenon DEF RemoveConn, Remove, Return, Conn
  <2> QED
    BY <1>3, <1>5, <2>1, <2>2, Zenon
<1>6. CASE next.tcp_state # "Closed" /\ next # m /\ InsertConn(p, Client, next, locals)
  <2>1. Updated(m, hdr, Conn) = next
    BY <1>6 DEF Updated
  <2>2. LB_CONNECTIONS' = [LB_CONNECTIONS EXCEPT ![Client] = next] /\ Goto(p, locals)
    BY <1>6, RoomForClient, Zenon DEF InsertConn, Insert
  <2> QED
    BY <1>1, <1>6, <2>1, <2>2, Zenon
<1>7. CASE next.tcp_state # "Closed" /\ next = m /\ Goto(p, locals) /\ UNCHANGED LB_CONNECTIONS
  <2>1. Updated(m, hdr, Conn) = Conn
    BY <1>7 DEF Updated
  <2> QED
    BY <1>2, <1>3, <1>7, <2>1, Zenon
<1> QED
  BY <1>4, <1>5, <1>6, <1>7, Zenon

\* A handler that goes on keeps the segment; one that returns gives it up.
LEMMA ShapeOnward ==
    ASSUME Shape, NEW p \in Cpus, segment[p] # None, NEW l \in Locals, HandlerOK(l, segment[p]),
           cpu' = [cpu EXCEPT ![p] = l], UNCHANGED <<end, wire, segment>>,
           BACKENDS' = BACKENDS, GATEWAY_INDEXES' \in [Vips -> Nat],
           NEW conn \in Mapping \cup {None},
           LB_CONNECTIONS' = [LB_CONNECTIONS EXCEPT ![Client] = conn]
    PROVE  Shape' /\ Conn' = conn /\ cpu'[p] = l
<1>1. segment \in [Cpus -> PacketType \cup {None}]
  BY DEF Shape, FlowTypeOK
<1>2. segment[p] \in PacketType \cup {None} /\ segment' = [segment EXCEPT ![p] = segment[p]]
  BY <1>1, Zenon
<1>3. end' \in [Ends -> EndType] /\ wire' \in [Ends -> Seq(SegmentType)]
  BY Zenon DEF Shape, FlowTypeOK
<1>4. \A q \in Cpus \ {p} : ~From(q, segment[p].from)
  <2>1. segment[p].from \in Ends
    BY <1>2 DEF PacketType
  <2> QED
    BY <2>1 DEF Shape, From
<1> QED
  BY <1>2, <1>3, <1>4, ShapeOfNode, Zenon

\* A handler that returns, its segment dropped or delivered, keeps the shape.
LEMMA ShapeDone ==
    ASSUME Shape, NEW p \in Cpus, cpu' = [cpu EXCEPT ![p] = Idle],
           segment' = [segment EXCEPT ![p] = None],
           end' \in [Ends -> EndType], wire' \in [Ends -> Seq(SegmentType)],
           BACKENDS' = BACKENDS, GATEWAY_INDEXES' = GATEWAY_INDEXES,
           NEW conn \in Mapping \cup {None},
           LB_CONNECTIONS' = [LB_CONNECTIONS EXCEPT ![Client] = conn]
    PROVE  Shape' /\ Conn' = conn /\ Finishes(p)
<1>1. Idle \in Locals
  BY DEF Idle, Locals, Program
<1>2. HandlerOK(Idle, None)
  BY DEF HandlerOK
<1>3. GATEWAY_INDEXES' \in [Vips -> Nat]
  BY Zenon DEF Shape
<1> QED
  BY <1>1, <1>2, <1>3, ShapeOfNode, Zenon DEF Finishes

\* The handlers whose turn it can be, by where they are.
LEMMA HandleAt ==
    ASSUME NEW p \in Cpus, Handle(p)
    PROVE  /\ \/ cpu[p].pc = "tcp_backends" /\ TcpLookupBackends(p)
              \/ cpu[p].pc = "tcp_index" /\ TcpLookupIndex(p)
              \/ cpu[p].pc = "tcp_advance" /\ TcpAdvanceIndex(p)
              \/ cpu[p].pc = "tcp_rst" /\ TcpRst(p)
              \/ cpu[p].pc = "tcp_update" /\ TcpUpdateConns(p)
              \/ cpu[p].pc = "tcp_record" /\ TcpRecordConn(p)
              \/ cpu[p].pc = "egress_rst" /\ EgressRst(p)
              \/ cpu[p].pc = "egress_update" /\ EgressUpdateConns(p)
           /\ cpu'[p].pc # "idle" => UNCHANGED <<end, wire, segment>>
           /\ cpu'[p].pc = "idle" =>
                 /\ segment' = [segment EXCEPT ![p] = None]
                 /\ Destination(p) = None => UNCHANGED <<end, wire>>
                 /\ Destination(p) # None => Deliver(p, Destination(p))
           /\ UNCHANGED <<events, history>>
<1>1. /\ TcpLookupBackends(p) => cpu[p].pc = "tcp_backends"
      /\ TcpLookupIndex(p) => cpu[p].pc = "tcp_index"
      /\ TcpAdvanceIndex(p) => cpu[p].pc = "tcp_advance"
      /\ TcpRst(p) => cpu[p].pc = "tcp_rst"
      /\ TcpUpdateConns(p) => cpu[p].pc = "tcp_update"
      /\ TcpRecordConn(p) => cpu[p].pc = "tcp_record"
      /\ EgressRst(p) => cpu[p].pc = "egress_rst"
      /\ EgressUpdateConns(p) => cpu[p].pc = "egress_update"
  BY Zenon DEF TcpLookupBackends, TcpLookupIndex, TcpAdvanceIndex, TcpRst, TcpUpdateConns, TcpRecordConn,
         EgressRst, EgressUpdateConns, At
<1> QED
  BY <1>1 DEF Handle

\* A busy CPU has a segment, and its locals are as HandlerOK says.
LEMMA Busy ==
    ASSUME Shape, NEW p \in Cpus, cpu[p].pc # "idle"
    PROVE  /\ segment[p] # None /\ segment[p] \in PacketType /\ segment[p].seg \in SegmentType
           /\ segment[p].from \in Ends /\ cpu[p] \in Locals
           /\ cpu[p].client = Client /\ cpu[p].hdr = Header(segment[p].seg.kind)
           /\ segment[p].from = Client => IngressOK(cpu[p]) /\ From(p, Client)
           /\ segment[p].from # Client => EgressOK(cpu[p]) /\ segment[p].from \in Backends /\ ~From(p, Client)
<1>1. HandlerOK(cpu[p], segment[p]) /\ segment[p] \in PacketType \cup {None} /\ cpu[p] \in Locals
  BY Zenon DEF Shape, FlowTypeOK, EbpfTypeOK
<1>2. segment[p] # None
  BY <1>1, HandlerIdle, Zenon
<1>3. segment[p].seg \in SegmentType /\ segment[p].from \in Ends
  BY <1>1, <1>2, Zenon DEF PacketType
<1> QED
  BY <1>1, <1>2, <1>3, Basics, Zenon DEF HandlerOK, From

\* The handler of a client's segment is one of handle_tcp_ingress's steps, and the
\* other way round.
LEMMA BusyWhere ==
    ASSUME Shape, NEW p \in Cpus, cpu[p].pc # "idle"
    PROVE  /\ cpu[p].pc \in {"tcp_backends", "tcp_index", "tcp_advance", "tcp_rst", "tcp_update", "tcp_record"}
              <=> segment[p].from = Client
           /\ cpu[p].pc \in {"egress_rst", "egress_update"} <=> segment[p].from # Client
  BY Busy, Zenon DEF IngressOK, EgressOK

\* The lookup of the list finds it.
LEMMA HandleBackends ==
    ASSUME Shape, NEW p \in Cpus, Handle(p), cpu[p].pc = "tcp_backends"
    PROVE  Shape' /\ ChooseStep(p)
<1> DEFINE l == cpu[p]
           list == BACKENDS[Vip]
           l2 == [l EXCEPT !.pc = "tcp_index", !.list = list]
<1>1. /\ segment[p] # None /\ l \in Locals /\ l.client = Client /\ l.hdr = Header(segment[p].seg.kind)
      /\ segment[p].from = Client /\ From(p, Client)
      /\ l.vip = Vip /\ l.new_conn /\ l.lb_mapping = None
  BY Busy, BusyWhere, Zenon DEF IngressOK
<1>2. list \in FullList /\ list # None /\ list \in BackendList
  BY Basics DEF Shape
<1>3. cpu' = [cpu EXCEPT ![p] = l2] /\ UNCHANGED mapVars
  BY HandleAt, <1>1, <1>2, Zenon DEF TcpLookupBackends, Goto
<1>4. /\ l2 \in Locals /\ l2.pc = "tcp_index" /\ l2.list = list /\ l2.client = Client /\ l2.vip = Vip
      /\ l2.hdr = l.hdr /\ l2.new_conn /\ l2.lb_mapping = None
  BY <1>1, <1>2, Zenon DEF Locals, Program
<1> HIDE DEF l2
<1>5. HandlerOK(l2, segment[p])
  BY <1>1, <1>2, <1>4 DEF HandlerOK, IngressOK
<1>6. cpu'[p] = l2
  BY <1>3, Zenon DEF Shape, FlowTypeOK, EbpfTypeOK
<1>7. UNCHANGED <<end, wire, segment>>
  BY HandleAt, <1>4, <1>6, Zenon
<1>8. /\ Conn \in Mapping \cup {None} /\ LB_CONNECTIONS' = [LB_CONNECTIONS EXCEPT ![Client] = Conn]
      /\ BACKENDS' = BACKENDS /\ GATEWAY_INDEXES' \in [Vips -> Nat]
  BY <1>3, Basics DEF mapVars, Shape, Conn
<1>9. Shape' /\ Conn' = Conn
  BY <1>1, <1>3, <1>4, <1>5, <1>7, <1>8, ShapeOnward, Zenon
<1> QED
  BY <1>1, <1>4, <1>6, <1>7, <1>9, Zenon DEF ChooseStep

\* The lookup of the index: the list is the one of now, and its backend at the index
\* is the new connection's, if there is one.
LEMMA HandleIndex ==
    ASSUME Shape, NEW p \in Cpus, Handle(p), cpu[p].pc = "tcp_index"
    PROVE  Shape' /\ (ChooseStep(p) \/ DropStep(p))
<1> DEFINE l == cpu[p]
           idx == GATEWAY_INDEXES[Vip]
<1>1. /\ segment[p] # None /\ l \in Locals /\ l.client = Client /\ l.hdr = Header(segment[p].seg.kind)
      /\ segment[p].from = Client /\ From(p, Client)
      /\ l.vip = Vip /\ l.new_conn /\ l.list \in FullList /\ l.lb_mapping = None
  BY Busy, BusyWhere, Zenon DEF IngressOK
<1>2. idx \in Nat /\ idx # None => idx \in Nat
  BY Basics, Zenon DEF Shape
<1>3. Deref(BACKENDS, Vip, l.list) \subseteq FullList
  <2>1. BACKENDS \in [Vips -> FullList]
    BY DEF Shape
  <2> QED
    BY <1>1, <2>1, Zenon DEF Deref, Keys
<1>4. PICK list \in FullList :
         \/ ~Selectable(list, idx) /\ Return(p)
         \/ /\ Selectable(list, idx)
            /\ Goto(p, [l EXCEPT !.pc = "tcp_advance", !.list = list, !.idx = idx,
                                 !.lb_mapping = NewMapping(list, idx, Vip, "Established")])
  BY HandleAt, <1>1, <1>3, Zenon DEF TcpLookupIndex
<1>5. UNCHANGED mapVars
  BY HandleAt, Zenon DEF TcpLookupIndex
<1>6. /\ Conn \in Mapping \cup {None} /\ LB_CONNECTIONS' = [LB_CONNECTIONS EXCEPT ![Client] = Conn]
      /\ BACKENDS' = BACKENDS /\ GATEWAY_INDEXES' = GATEWAY_INDEXES /\ GATEWAY_INDEXES' \in [Vips -> Nat]
  BY <1>5, Basics, Zenon DEF mapVars, Shape, Conn
<1>7. cpu \in [Cpus -> Locals] /\ idx \in Nat
  BY Basics, Zenon DEF Shape, FlowTypeOK, EbpfTypeOK
<1>8. CASE Return(p)
  <2>1. cpu' = [cpu EXCEPT ![p] = Idle] /\ cpu'[p] = Idle /\ cpu'[p].pc = "idle"
    BY <1>7, <1>8 DEF Return, Goto, Idle
  <2>2. Destination(p) = None
    BY <1>1, Zenon DEF Destination
  <2>3. segment' = [segment EXCEPT ![p] = None] /\ UNCHANGED <<end, wire>>
    BY HandleAt, <2>1, <2>2, Zenon
  <2>4. end' \in [Ends -> EndType] /\ wire' \in [Ends -> Seq(SegmentType)]
    BY <2>3 DEF Shape, FlowTypeOK
  <2>5. Shape' /\ Conn' = Conn /\ Finishes(p)
    BY <1>6, <2>1, <2>3, <2>4, ShapeDone, Zenon
  <2> QED
    BY <1>1, <2>3, <2>5, Zenon DEF DropStep
<1>9. CASE /\ Selectable(list, idx)
           /\ Goto(p, [l EXCEPT !.pc = "tcp_advance", !.list = list, !.idx = idx,
                                !.lb_mapping = NewMapping(list, idx, Vip, "Established")])
  <2> DEFINE m == NewMapping(list, idx, Vip, "Established")
             l2 == [l EXCEPT !.pc = "tcp_advance", !.list = list, !.idx = idx, !.lb_mapping = m]
  <2>1. m \in Mapping /\ m.tcp_state = "Established"
    <3>1. idx \in 0 .. ArrayCapacity - 1
      BY <1>7, <1>9, MapsAssumption DEF Selectable
    <3>2. list.backends[idx] \in Backends
      BY <3>1, Zenon DEF FullList
    <3> QED
      BY <3>2, Basics DEF NewMapping, Selected, Mapping, TCPState
  <2> HIDE DEF m
  <2>2. list \in BackendList /\ m \in LoadBalancerMapping
    BY <2>1, Basics
  <2>3. /\ l2 \in Locals /\ l2.pc = "tcp_advance" /\ l2.list = list /\ l2.client = Client /\ l2.vip = Vip
        /\ l2.idx = idx /\ l2.hdr = l.hdr /\ l2.new_conn /\ l2.lb_mapping = m
    BY <1>1, <1>7, <2>2, ZenonT(30) DEF Locals, Program
  <2>4. cpu' = [cpu EXCEPT ![p] = l2] /\ cpu'[p] = l2
    BY <1>7, <1>9 DEF Goto, m
  <2> HIDE DEF l2
  <2>5. HandlerOK(l2, segment[p])
    BY <1>1, <1>7, <2>1, <2>3 DEF HandlerOK, IngressOK
  <2>6. UNCHANGED <<end, wire, segment>>
    BY HandleAt, <2>3, <2>4, Zenon
  <2>7. Shape' /\ Conn' = Conn
    BY <1>1, <1>6, <2>3, <2>4, <2>5, <2>6, ShapeOnward, Zenon
  <2> QED
    BY <1>1, <2>1, <2>3, <2>4, <2>6, <2>7, Zenon DEF ChooseStep
<1> QED
  BY <1>4, <1>8, <1>9, Zenon

\* The new index is stored: it is there, so there is room for it.
LEMMA HandleAdvance ==
    ASSUME Shape, NEW p \in Cpus, Handle(p), cpu[p].pc = "tcp_advance"
    PROVE  Shape' /\ (ChooseStep(p) \/ DropStep(p))
<1> DEFINE l == cpu[p]
           next == NextIndex(l.list, l.idx)
           l2 == [l EXCEPT !.pc = Chosen(l.hdr), !.list = None, !.idx = None]
<1>1. /\ segment[p] # None /\ l \in Locals /\ l.client = Client /\ l.hdr = Header(segment[p].seg.kind)
      /\ segment[p].from = Client /\ From(p, Client)
      /\ l.vip = Vip /\ l.new_conn /\ l.list \in FullList /\ l.idx \in Nat /\ l.lb_mapping \in Mapping
  BY Busy, BusyWhere, Zenon DEF IngressOK
<1>2. next \in Nat
  BY <1>1 DEF NextIndex
<1>3. cpu \in [Cpus -> Locals] /\ GATEWAY_INDEXES \in [Vips -> Nat]
  BY DEF Shape, FlowTypeOK, EbpfTypeOK
<1>4. /\ Conn \in Mapping \cup {None} /\ LB_CONNECTIONS' = [LB_CONNECTIONS EXCEPT ![Client] = Conn]
      /\ BACKENDS' = BACKENDS
  BY HandleAt, Basics, Zenon DEF TcpAdvanceIndex, Shape, Conn
<1>5. \/ GATEWAY_INDEXES' = [GATEWAY_INDEXES EXCEPT ![Vip] = next] /\ cpu' = [cpu EXCEPT ![p] = l2]
      \/ GATEWAY_INDEXES' = GATEWAY_INDEXES /\ cpu' = [cpu EXCEPT ![p] = Idle]
  BY HandleAt, <1>1, Zenon DEF TcpAdvanceIndex, Insert, Goto, Return
<1>6. CASE GATEWAY_INDEXES' = GATEWAY_INDEXES /\ cpu' = [cpu EXCEPT ![p] = Idle]
  <2>1. cpu'[p] = Idle /\ cpu'[p].pc = "idle"
    BY <1>3, <1>6, Zenon DEF Idle
  <2>2. Destination(p) = None
    BY <1>1 DEF Destination
  <2>3. segment' = [segment EXCEPT ![p] = None] /\ UNCHANGED <<end, wire>>
    BY HandleAt, <2>1, <2>2, Zenon
  <2>4. end' \in [Ends -> EndType] /\ wire' \in [Ends -> Seq(SegmentType)]
    BY <2>3, Zenon DEF Shape, FlowTypeOK
  <2>5. Shape' /\ Conn' = Conn /\ Finishes(p)
    BY <1>4, <1>6, <2>3, <2>4, ShapeDone, Zenon
  <2> QED
    BY <1>1, <2>3, <2>5, Zenon DEF DropStep
<1>7. CASE GATEWAY_INDEXES' = [GATEWAY_INDEXES EXCEPT ![Vip] = next] /\ cpu' = [cpu EXCEPT ![p] = l2]
  <2>1. GATEWAY_INDEXES' \in [Vips -> Nat]
    BY <1>2, <1>3, <1>7, Zenon
  <2>2. /\ l2 \in Locals /\ l2.pc = Chosen(l.hdr) /\ l2.client = Client /\ l2.vip = Vip
        /\ l2.hdr = l.hdr /\ l2.new_conn /\ l2.lb_mapping = l.lb_mapping
    BY <1>1, Zenon DEF Locals, Program, Chosen
  <2>3. cpu'[p] = l2
    BY <1>3, <1>7
  <2>4. Chosen(l.hdr) # "idle"
    BY Zenon DEF Chosen
  <2> HIDE DEF l2, next
  <2>5. HandlerOK(l2, segment[p])
    BY <1>1, <2>2, Zenon DEF HandlerOK, IngressOK, Chosen
  <2>6. UNCHANGED <<end, wire, segment>>
    BY HandleAt, <2>2, <2>3, <2>4, Zenon
  <2>7. Shape' /\ Conn' = Conn
    BY <1>1, <1>4, <1>7, <2>1, <2>2, <2>5, <2>6, ShapeOnward, Zenon
  <2> QED
    BY <1>1, <2>2, <2>3, <2>6, <2>7, Zenon DEF ChooseStep
<1> QED
  BY <1>5, <1>6, <1>7, Zenon

\* The client's RST removes the entry, or goes no further when it is gone.
LEMMA HandleRst ==
    ASSUME Shape, NEW p \in Cpus, Handle(p), cpu[p].pc = "tcp_rst"
    PROVE  Shape' /\ (UnlinkStep(p) \/ DropStep(p))
<1> DEFINE l == cpu[p]
           l2 == [l EXCEPT !.pc = "tcp_update"]
<1>1. /\ segment[p] # None /\ l \in Locals /\ l.client = Client /\ l.hdr = Header(segment[p].seg.kind)
      /\ segment[p].from = Client /\ From(p, Client)
      /\ l.vip = Vip /\ l.lb_mapping \in Mapping
  BY Busy, BusyWhere, Zenon DEF IngressOK
<1>2. cpu \in [Cpus -> Locals] /\ GATEWAY_INDEXES \in [Vips -> Nat]
  BY Zenon DEF Shape, FlowTypeOK, EbpfTypeOK
<1>3. TcpRst(p)
  BY HandleAt, Zenon
<1>4. BACKENDS' = BACKENDS /\ GATEWAY_INDEXES' = GATEWAY_INDEXES /\ GATEWAY_INDEXES' \in [Vips -> Nat]
  BY <1>2, <1>3, Zenon DEF TcpRst
<1>5. \/ Conn # None /\ LB_CONNECTIONS' = [LB_CONNECTIONS EXCEPT ![Client] = None] /\ Goto(p, l2)
      \/ Conn = None /\ LB_CONNECTIONS' = LB_CONNECTIONS /\ Goto(p, Idle)
  BY <1>1, <1>3, Zenon DEF TcpRst, RemoveConn, Remove, Return, Conn
<1>6. CASE Conn # None /\ LB_CONNECTIONS' = [LB_CONNECTIONS EXCEPT ![Client] = None] /\ Goto(p, l2)
  <2>1. /\ l2 \in Locals /\ l2.pc = "tcp_update" /\ l2.client = Client /\ l2.vip = Vip
        /\ l2.hdr = l.hdr /\ l2.lb_mapping = l.lb_mapping
    BY <1>1 DEF Locals, Program
  <2>2. cpu' = [cpu EXCEPT ![p] = l2] /\ cpu'[p] = l2
    BY <1>2, <1>6 DEF Goto
  <2>3. cpu'[p] = [cpu[p] EXCEPT !.pc = "tcp_update"]
    BY <2>2, Zenon
  <2> HIDE DEF l2
  <2>4. HandlerOK(l2, segment[p])
    BY <1>1, <2>1, Zenon DEF HandlerOK, IngressOK
  <2>5. UNCHANGED <<end, wire, segment>>
    BY HandleAt, <2>1, <2>2, Zenon
  <2>6. Shape' /\ Conn' = None
    BY <1>1, <1>4, <1>6, <2>1, <2>2, <2>4, <2>5, ShapeOnward, Zenon
  <2> QED
    BY <1>1, <1>6, <2>3, <2>5, <2>6, Zenon DEF UnlinkStep
<1>7. CASE Conn = None /\ LB_CONNECTIONS' = LB_CONNECTIONS /\ Goto(p, Idle)
  <2>1. cpu' = [cpu EXCEPT ![p] = Idle] /\ cpu'[p] = Idle /\ cpu'[p].pc = "idle"
    BY <1>2, <1>7, Zenon DEF Goto, Idle
  <2>2. Destination(p) = None
    BY <1>1, Zenon DEF Destination
  <2>3. segment' = [segment EXCEPT ![p] = None] /\ UNCHANGED <<end, wire>>
    BY HandleAt, <2>1, <2>2, Zenon
  <2>4. end' \in [Ends -> EndType] /\ wire' \in [Ends -> Seq(SegmentType)]
    BY <2>3, Zenon DEF Shape, FlowTypeOK
  <2>5. LB_CONNECTIONS' = [LB_CONNECTIONS EXCEPT ![Client] = Conn]
    BY <1>7, Basics, Zenon DEF Shape, Conn
  <2>6. Shape' /\ Conn' = Conn /\ Finishes(p)
    BY <1>4, <1>7, <2>1, <2>3, <2>4, <2>5, ShapeDone, Zenon
  <2> QED
    BY <1>1, <1>7, <2>3, <2>6, Zenon DEF DropStep
<1> QED
  BY <1>5, <1>6, <1>7, Zenon

\* update_tcp_conns for the client's segment.
LEMMA HandleUpdate ==
    ASSUME Shape, NEW p \in Cpus, Handle(p), cpu[p].pc = "tcp_update"
    PROVE  Shape' /\ (ChooseStep(p) \/ DropStep(p) \/ ForwardStep(p))
<1> DEFINE l == cpu[p]
           m == l.lb_mapping
           next == Advanced(m, l.hdr)
           conn == Updated(m, l.hdr, Conn)
           l2 == [l EXCEPT !.pc = "tcp_record", !.lb_mapping = next]
<1>1. /\ segment[p] # None /\ l \in Locals /\ l.client = Client /\ l.hdr = Header(segment[p].seg.kind)
      /\ segment[p].from = Client /\ From(p, Client)
      /\ l.vip = Vip /\ m \in Mapping
  BY Busy, BusyWhere, Zenon DEF IngressOK
<1>2. cpu \in [Cpus -> Locals] /\ GATEWAY_INDEXES \in [Vips -> Nat]
  BY Zenon DEF Shape, FlowTypeOK, EbpfTypeOK
<1>3. TcpUpdateConns(p)
  BY HandleAt
<1>4. BACKENDS' = BACKENDS /\ GATEWAY_INDEXES' = GATEWAY_INDEXES /\ GATEWAY_INDEXES' \in [Vips -> Nat]
  BY <1>2, <1>3, Zenon DEF TcpUpdateConns
<1>5. PICK after \in IF l.new_conn THEN {l2, Idle} ELSE {Idle} :
        update_tcp_conns(p, Client, m, l.hdr, after)
  BY <1>1, <1>3, Zenon DEF TcpUpdateConns
<1>6. /\ conn \in Mapping \cup {None}
      /\ LB_CONNECTIONS' = [LB_CONNECTIONS EXCEPT ![Client] = conn]
      /\ \/ Goto(p, after) /\ ~(next.tcp_state = "Closed" /\ Conn = None)
         \/ Goto(p, Idle) /\ next.tcp_state = "Closed" /\ Conn = None
  BY <1>1, <1>5, UpdateOutcome, Zenon
<1>7. next \in Mapping
  BY <1>1, AdvancedType, Zenon
<1>8. \/ l.new_conn /\ Goto(p, l2)
      \/ l.new_conn /\ Goto(p, Idle)
      \/ ~l.new_conn /\ Goto(p, Idle) /\ next.tcp_state = "Closed" /\ Conn = None
      \/ ~l.new_conn /\ Goto(p, Idle) /\ ~(next.tcp_state = "Closed" /\ Conn = None)
  BY <1>5, <1>6, Zenon
<1> HIDE DEF next, conn
<1>9. CASE l.new_conn /\ Goto(p, l2)
  <2>1. next \in LoadBalancerMapping
    BY <1>7, Basics, Zenon
  <2>2. /\ l2 \in Locals /\ l2.pc = "tcp_record" /\ l2.client = Client /\ l2.vip = Vip
        /\ l2.hdr = l.hdr /\ l2.lb_mapping = next /\ l2.new_conn
    BY <1>1, <1>9, <2>1, Zenon DEF Locals, Program
  <2>3. cpu' = [cpu EXCEPT ![p] = l2] /\ cpu'[p] = l2
    BY <1>2, <1>9, Zenon DEF Goto
  <2> HIDE DEF l2
  <2>4. HandlerOK(l2, segment[p])
    BY <1>1, <1>7, <2>2, Zenon DEF HandlerOK, IngressOK
  <2>5. UNCHANGED <<end, wire, segment>>
    BY HandleAt, <2>2, <2>3, Zenon
  <2>6. Shape' /\ Conn' = conn
    BY <1>1, <1>4, <1>6, <2>2, <2>3, <2>4, <2>5, ShapeOnward, Zenon
  <2> QED
    BY <1>1, <1>9, <2>2, <2>3, <2>5, <2>6, Zenon DEF ChooseStep, next, conn
<1>10. CASE Goto(p, Idle) /\ (l.new_conn \/ (next.tcp_state = "Closed" /\ Conn = None))
  <2>1. cpu' = [cpu EXCEPT ![p] = Idle] /\ cpu'[p] = Idle /\ cpu'[p].pc = "idle"
    BY <1>2, <1>10, Zenon DEF Goto, Idle
  <2>2. Destination(p) = None
    BY <1>1, <1>10, Zenon DEF Destination, Conn, next
  <2>3. segment' = [segment EXCEPT ![p] = None] /\ UNCHANGED <<end, wire>>
    BY HandleAt, <2>1, <2>2, Zenon
  <2>4. end' \in [Ends -> EndType] /\ wire' \in [Ends -> Seq(SegmentType)]
    BY <2>3 DEF Shape, FlowTypeOK
  <2>5. Shape' /\ Conn' = conn /\ Finishes(p)
    BY <1>4, <1>6, <2>1, <2>3, <2>4, ShapeDone, Zenon
  <2>6. ~l.new_conn => conn = None
    BY <1>10, Zenon DEF conn, next, Updated
  <2> QED
    BY <1>1, <1>10, <2>3, <2>5, <2>6, Zenon DEF DropStep, next, conn
<1>11. CASE ~l.new_conn /\ Goto(p, Idle) /\ ~(next.tcp_state = "Closed" /\ Conn = None)
  <2>1. cpu' = [cpu EXCEPT ![p] = Idle] /\ cpu'[p] = Idle /\ cpu'[p].pc = "idle"
    BY <1>2, <1>11, Zenon DEF Goto, Idle
  <2>2. Destination(p) = m.backend
    BY <1>1, <1>11, Zenon DEF Destination, Conn, next
  <2>3. m.backend \in Ends /\ m.backend # None
    BY <1>1, Basics, Zenon DEF Mapping
  <2>4. segment' = [segment EXCEPT ![p] = None] /\ Deliver(p, m.backend)
    BY HandleAt, <2>1, <2>2, <2>3, Zenon
  <2>5. end' \in [Ends -> EndType] /\ wire' \in [Ends -> Seq(SegmentType)]
    BY <1>1, <2>3, <2>4, DeliversOne, Zenon
  <2>6. Shape' /\ Conn' = conn /\ Finishes(p)
    BY <1>4, <1>6, <2>1, <2>4, <2>5, ShapeDone, Zenon
  <2> QED
    BY <1>1, <1>11, <2>4, <2>6, Zenon DEF ForwardStep, next, conn
<1> QED
  BY <1>8, <1>9, <1>10, <1>11, Zenon

\* The new connection is recorded, and its segment is on its way.
LEMMA HandleRecord ==
    ASSUME Shape, NEW p \in Cpus, Handle(p), cpu[p].pc = "tcp_record"
    PROVE  Shape' /\ RecordStep(p)
<1> DEFINE l == cpu[p]
           m == l.lb_mapping
<1>1. /\ segment[p] # None /\ l \in Locals /\ l.client = Client
      /\ segment[p].from = Client /\ From(p, Client) /\ l.new_conn /\ m \in Mapping
  BY Busy, BusyWhere, Zenon DEF IngressOK
<1>2. cpu \in [Cpus -> Locals]
  BY Zenon DEF Shape, FlowTypeOK, EbpfTypeOK
<1>3. TcpRecordConn(p)
  BY HandleAt, Zenon
<1>4. BACKENDS' = BACKENDS /\ GATEWAY_INDEXES' = GATEWAY_INDEXES
  BY <1>3, Zenon DEF TcpRecordConn
<1>5. LB_CONNECTIONS' = [LB_CONNECTIONS EXCEPT ![Client] = m] /\ Goto(p, Idle)
  BY <1>1, <1>3, RoomForClient, Zenon DEF TcpRecordConn, InsertConn, Insert
<1>6. cpu' = [cpu EXCEPT ![p] = Idle] /\ cpu'[p] = Idle /\ cpu'[p].pc = "idle"
  BY <1>2, <1>5, Zenon DEF Goto, Idle
<1>7. Destination(p) = m.backend
  BY <1>1, Zenon DEF Destination
<1>8. m.backend \in Ends /\ m.backend # None
  BY <1>1, Basics, Zenon DEF Mapping
<1>9. segment' = [segment EXCEPT ![p] = None] /\ Deliver(p, m.backend)
  BY HandleAt, <1>6, <1>7, <1>8, Zenon
<1>10. end' \in [Ends -> EndType] /\ wire' \in [Ends -> Seq(SegmentType)]
  BY <1>1, <1>8, <1>9, DeliversOne, Zenon
<1>11. Shape' /\ Conn' = m /\ Finishes(p)
  BY <1>1, <1>4, <1>5, <1>6, <1>9, <1>10, ShapeDone, Zenon
<1> QED
  BY <1>1, <1>9, <1>11, Zenon DEF RecordStep

\* A backend's RST removes the entry, and reaches the client if it is gone.
LEMMA HandleEgressRst ==
    ASSUME Shape, NEW p \in Cpus, Handle(p), cpu[p].pc = "egress_rst"
    PROVE  Shape' /\ (UnlinkStep(p) \/ ReplyStep(p))
<1> DEFINE l == cpu[p]
           l2 == [l EXCEPT !.pc = "egress_update"]
<1>1. /\ segment[p] # None /\ l \in Locals /\ l.client = Client /\ l.hdr = Header(segment[p].seg.kind)
      /\ segment[p].from # Client /\ ~From(p, Client) /\ segment[p].from \in Backends
      /\ ~l.new_conn /\ l.lb_mapping \in Mapping
  BY Busy, BusyWhere, Zenon DEF EgressOK
<1>2. cpu \in [Cpus -> Locals] /\ GATEWAY_INDEXES \in [Vips -> Nat]
  BY DEF Shape, FlowTypeOK, EbpfTypeOK
<1>3. EgressRst(p)
  BY HandleAt, Zenon
<1>4. BACKENDS' = BACKENDS /\ GATEWAY_INDEXES' = GATEWAY_INDEXES /\ GATEWAY_INDEXES' \in [Vips -> Nat]
  BY <1>2, <1>3, Zenon DEF EgressRst
<1>5. \/ Conn # None /\ LB_CONNECTIONS' = [LB_CONNECTIONS EXCEPT ![Client] = None] /\ Goto(p, l2)
      \/ Conn = None /\ LB_CONNECTIONS' = LB_CONNECTIONS /\ Goto(p, Idle)
  BY <1>1, <1>3, Zenon DEF EgressRst, RemoveConn, Remove, Return, Conn
<1>6. CASE Conn # None /\ LB_CONNECTIONS' = [LB_CONNECTIONS EXCEPT ![Client] = None] /\ Goto(p, l2)
  <2>1. /\ l2 \in Locals /\ l2.pc = "egress_update" /\ l2.client = Client /\ ~l2.new_conn
        /\ l2.hdr = l.hdr /\ l2.lb_mapping = l.lb_mapping
    BY <1>1 DEF Locals, Program
  <2>2. cpu' = [cpu EXCEPT ![p] = l2] /\ cpu'[p] = l2
    BY <1>2, <1>6, Zenon DEF Goto
  <2>3. cpu'[p] = [cpu[p] EXCEPT !.pc = "egress_update"]
    BY <2>2, Zenon
  <2> HIDE DEF l2
  <2>4. HandlerOK(l2, segment[p])
    BY <1>1, <2>1, Zenon DEF HandlerOK, EgressOK
  <2>5. UNCHANGED <<end, wire, segment>>
    BY HandleAt, <2>1, <2>2, Zenon
  <2>6. Shape' /\ Conn' = None
    BY <1>1, <1>4, <1>6, <2>1, <2>2, <2>4, <2>5, ShapeOnward, Zenon
  <2> QED
    BY <1>1, <1>6, <2>3, <2>5, <2>6, Zenon DEF UnlinkStep
<1>7. CASE Conn = None /\ LB_CONNECTIONS' = LB_CONNECTIONS /\ Goto(p, Idle)
  <2>1. cpu' = [cpu EXCEPT ![p] = Idle] /\ cpu'[p] = Idle /\ cpu'[p].pc = "idle"
    BY <1>2, <1>7, Zenon DEF Goto, Idle
  <2>2. Destination(p) = Client /\ Client # None /\ Client \in Ends
    BY <1>1, Basics, Zenon DEF Destination
  <2>3. segment' = [segment EXCEPT ![p] = None] /\ Deliver(p, Client)
    BY HandleAt, <2>1, <2>2
  <2>4. end' \in [Ends -> EndType] /\ wire' \in [Ends -> Seq(SegmentType)]
    BY <1>1, <2>2, <2>3, DeliversOne, Zenon
  <2>5. LB_CONNECTIONS' = [LB_CONNECTIONS EXCEPT ![Client] = Conn]
    BY <1>7, Basics, Zenon DEF Shape, Conn
  <2>6. Shape' /\ Conn' = Conn /\ Finishes(p)
    BY <1>4, <1>7, <2>1, <2>3, <2>4, <2>5, ShapeDone, Zenon
  <2> QED
    BY <1>1, <1>7, <2>3, <2>6, Zenon DEF ReplyStep
<1> QED
  BY <1>5, <1>6, <1>7, Zenon

\* update_tcp_conns for a backend's segment, with the mapping that the pointer reads.
LEMMA HandleEgressUpdate ==
    ASSUME Shape, NEW p \in Cpus, Handle(p), cpu[p].pc = "egress_update"
    PROVE  Shape' /\ ReplyStep(p)
<1> DEFINE l == cpu[p]
<1>1. /\ segment[p] # None /\ l \in Locals /\ l.client = Client
      /\ segment[p].from # Client /\ segment[p].from \in Backends
      /\ l.lb_mapping \in Mapping
  BY Busy, BusyWhere, Zenon DEF EgressOK
<1>2. cpu \in [Cpus -> Locals] /\ LB_CONNECTIONS \in [ClientKey -> Mapping \cup {None}]
  BY DEF Shape, FlowTypeOK, EbpfTypeOK
<1>3. EgressUpdateConns(p)
  BY HandleAt, Zenon
<1>4. BACKENDS' = BACKENDS /\ GATEWAY_INDEXES' = GATEWAY_INDEXES
  BY <1>3 DEF EgressUpdateConns
<1>5. PICK m \in Deref(LB_CONNECTIONS, Client, l.lb_mapping) : update_tcp_conns(p, Client, m, l.hdr, Idle)
  BY <1>1, <1>3, Zenon DEF EgressUpdateConns
<1>6. Keys(LB_CONNECTIONS) \subseteq {Client}
  BY <1>2, Zenon DEF Shape, Keys
<1>7. m \in Mapping /\ m \in {l.lb_mapping, Conn}
  BY <1>1, <1>2, <1>5, <1>6, Zenon DEF Deref, Conn, Keys
<1> DEFINE conn == Updated(m, l.hdr, Conn)
<1>8. /\ conn \in Mapping \cup {None} /\ LB_CONNECTIONS' = [LB_CONNECTIONS EXCEPT ![Client] = conn]
      /\ Goto(p, Idle)
  BY <1>5, <1>7, UpdateOutcome, Zenon
<1> HIDE DEF conn
<1>9. cpu' = [cpu EXCEPT ![p] = Idle] /\ cpu'[p] = Idle /\ cpu'[p].pc = "idle"
  BY <1>2, <1>8, Zenon DEF Goto, Idle
<1>10. Destination(p) = Client /\ Client # None /\ Client \in Ends
  BY <1>1, Basics, Zenon DEF Destination
<1>11. segment' = [segment EXCEPT ![p] = None] /\ Deliver(p, Client)
  BY HandleAt, <1>9, <1>10, Zenon
<1>12. end' \in [Ends -> EndType] /\ wire' \in [Ends -> Seq(SegmentType)]
  BY <1>1, <1>10, <1>11, DeliversOne, Zenon
<1>13. Shape' /\ Conn' = conn /\ Finishes(p)
  BY <1>4, <1>8, <1>9, <1>11, <1>12, ShapeDone, Zenon
<1>14. m # None
  BY <1>7, Basics, Zenon
<1> QED
  BY <1>1, <1>7, <1>11, <1>13, <1>14, Zenon DEF ReplyStep, conn

\* Every step of a handler is one of these, and concerns its CPU only.
LEMMA HandleOutcome ==
    ASSUME Shape, NEW p \in Cpus, Handle(p)
    PROVE  /\ Shape' /\ UNCHANGED <<events, history>> /\ cpu[p].pc # "idle"
           /\ \A q \in Cpus \ {p} : cpu'[q] = cpu[q] /\ segment'[q] = segment[q]
           /\ \/ ChooseStep(p) \/ DropStep(p) \/ UnlinkStep(p)
              \/ ForwardStep(p) \/ RecordStep(p) \/ ReplyStep(p)
<1>1. cpu[p].pc # "idle" /\ UNCHANGED <<events, history>>
  BY HandleAt, Zenon
<1>2. \E l : cpu' = [cpu EXCEPT ![p] = l]
  BY HandleAt, Zenon DEF TcpLookupBackends, TcpLookupIndex, TcpAdvanceIndex, TcpRst, TcpUpdateConns,
                  TcpRecordConn, EgressRst, EgressUpdateConns, update_tcp_conns, InsertConn,
                  RemoveConn, Return, Goto
<1>3. segment' = [segment EXCEPT ![p] = None] \/ segment' = segment
  BY HandleAt, Zenon
<1>4. \A q \in Cpus \ {p} : cpu'[q] = cpu[q] /\ segment'[q] = segment[q]
  BY <1>2, <1>3, Zenon DEF Shape, FlowTypeOK, EbpfTypeOK
<1>5. /\ cpu[p].pc = "tcp_backends" \/ cpu[p].pc = "tcp_index" \/ cpu[p].pc = "tcp_advance"
         \/ cpu[p].pc = "tcp_rst" \/ cpu[p].pc = "tcp_update" \/ cpu[p].pc = "tcp_record"
         \/ cpu[p].pc = "egress_rst" \/ cpu[p].pc = "egress_update"
  BY HandleAt, Zenon
<1> QED
  BY <1>1, <1>4, <1>5, HandleBackends, HandleIndex, HandleAdvance, HandleRst, HandleUpdate,
     HandleRecord, HandleEgressRst, HandleEgressUpdate, Zenon

-----------------------------------------------------------------------------
\* What an arrival does.

\* Of the kinds, RST and RSTACK carry the RST flag, and FIN the FIN flag; only SYN
\* is without an ACK otherwise.
LEMMA HeaderFlags ==
    ASSUME NEW seg \in SegmentType
    PROVE  /\ Header(seg.kind) \in SUBSET Flags
           /\ "RST" \in Header(seg.kind) <=> IsRst(seg)
           /\ "FIN" \in Header(seg.kind) <=> seg.kind = "FIN"
           /\ seg.kind \in {"ACK", "FIN"} => "ACK" \in Header(seg.kind)
  BY DEF SegmentType, Kinds, Header, IsRst, Flags

\* CPU p takes up the first segment of x.
Takes(p, x) ==
    /\ wire[x] # <<>> /\ wire' = [wire EXCEPT ![x] = Tail(@)]
    /\ segment[p] = None /\ cpu[p] = Idle
    /\ \A q \in Cpus : ~From(q, x)
    /\ segment'[p] = [from |-> x, seg |-> Head(wire[x])]
    /\ UNCHANGED <<end, events, history>> /\ Conn' = Conn

\* The client's segment finds the client's entry, or is a new connection's.
TakesClient(p) ==
    /\ Takes(p, Client)
    /\ \/ /\ Conn # None /\ cpu'[p].lb_mapping = Conn /\ ~cpu'[p].new_conn
          /\ cpu'[p].pc = IF IsRst(Head(wire[Client])) THEN "tcp_rst" ELSE "tcp_update"
       \/ /\ Conn = None /\ cpu'[p].lb_mapping = None /\ cpu'[p].new_conn
          /\ cpu'[p].pc = "tcp_backends"

\* The client's segment arrives.
LEMMA ClientTaken ==
    ASSUME Shape, NEW p \in Cpus, FromClient(p)
    PROVE  /\ Shape' /\ TakesClient(p)
           /\ \A q \in Cpus \ {p} : cpu'[q] = cpu[q] /\ segment'[q] = segment[q]
<1> DEFINE seg == Head(wire[Client])
           hdr == Header(seg.kind)
           packet == [from |-> Client, seg |-> seg]
           found == [[Idle EXCEPT !.client = Client, !.vip = Vip, !.hdr = hdr]
                        EXCEPT !.pc = Chosen(hdr), !.lb_mapping = Conn]
           absent == [[Idle EXCEPT !.client = Client, !.vip = Vip, !.hdr = hdr]
                        EXCEPT !.pc = "tcp_backends", !.new_conn = TRUE]
<1>1. /\ cpu \in [Cpus -> Locals] /\ segment \in [Cpus -> PacketType \cup {None}]
      /\ end \in [Ends -> EndType] /\ wire \in [Ends -> Seq(SegmentType)]
      /\ GATEWAY_INDEXES \in [Vips -> Nat] /\ LB_CONNECTIONS \in [ClientKey -> Mapping \cup {None}]
      /\ Client \in Ends /\ Client \in ClientKey /\ Conn \in Mapping \cup {None}
  BY Basics, Zenon DEF Shape, FlowTypeOK, EbpfTypeOK, Conn
<1>2. wire[Client] # <<>> /\ wire[Client] \in Seq(SegmentType)
  BY <1>1, Zenon DEF FromClient, Arrive
<1>3. seg \in SegmentType /\ Tail(wire[Client]) \in Seq(SegmentType)
  BY <1>2, TailRange, Zenon
<1>4. cpu[p].pc = "idle" /\ segment[p] = None /\ cpu[p] = Idle
  <2>1. cpu[p].pc = "idle"
    BY Zenon DEF FromClient, TcpIngress, At
  <2> QED
    BY <2>1 DEF Shape, FlowTypeOK, At, HandlerOK
<1>5. \A q \in Cpus : ~From(q, Client)
  BY Zenon DEF FromClient, Arrive, InHand, From
<1>6. packet \in PacketType /\ packet # None /\ packet.from = Client /\ packet.seg = seg
  BY <1>1, <1>3, Basics DEF PacketType
<1>7. segment' = [segment EXCEPT ![p] = packet] /\ wire' = [wire EXCEPT ![Client] = Tail(@)]
      /\ UNCHANGED <<end, events, history>>
  BY Zenon DEF FromClient, Arrive
<1>8. end' \in [Ends -> EndType] /\ wire' \in [Ends -> Seq(SegmentType)]
  BY <1>1, <1>3, <1>7, Zenon
<1>9. /\ BACKENDS' = BACKENDS /\ GATEWAY_INDEXES' \in [Vips -> Nat]
      /\ LB_CONNECTIONS' = [LB_CONNECTIONS EXCEPT ![Client] = Conn]
  BY <1>1, Zenon DEF FromClient, TcpIngress, mapVars, Conn
<1>10. \/ Conn # None /\ cpu' = [cpu EXCEPT ![p] = found]
       \/ Conn = None /\ cpu' = [cpu EXCEPT ![p] = absent]
  BY Zenon DEF FromClient, TcpIngress, Goto, Conn
<1>11. hdr \in SUBSET Flags /\ ("RST" \in hdr <=> IsRst(seg))
  BY <1>3, HeaderFlags, Zenon
<1>12. Chosen(hdr) = IF IsRst(seg) THEN "tcp_rst" ELSE "tcp_update"
  BY <1>11 DEF Chosen
<1> HIDE DEF seg, hdr, packet
<1>13. CASE Conn # None /\ cpu' = [cpu EXCEPT ![p] = found]
  <2>1. Conn \in Mapping /\ Conn \in LoadBalancerMapping
    BY <1>1, <1>13, Basics, Zenon
  <2>2. /\ found \in Locals /\ found.pc = Chosen(hdr) /\ found.client = Client /\ found.vip = Vip
        /\ found.hdr = hdr /\ found.lb_mapping = Conn /\ ~found.new_conn
    BY <1>1, <1>11, <1>12, <2>1, Basics, Zenon DEF Idle, Locals, Program
  <2> HIDE DEF found
  <2>3. HandlerOK(found, packet)
    BY <1>6, <1>11, <1>12, <2>1, <2>2, Zenon DEF HandlerOK, IngressOK, hdr
  <2>4. Shape' /\ Conn' = Conn /\ cpu'[p] = found /\ segment'[p] = packet
    BY <1>1, <1>5, <1>6, <1>7, <1>8, <1>9, <1>13, <2>2, <2>3, ShapeOfNode, ZenonT(30)
  <2> QED
    BY <1>1, <1>2, <1>4, <1>5, <1>7, <1>12, <1>13, <2>2, <2>4, Zenon DEF TakesClient, Takes, packet, seg
<1>14. CASE Conn = None /\ cpu' = [cpu EXCEPT ![p] = absent]
  <2>1. cpu' = [cpu EXCEPT ![p] = absent]
    BY <1>14
  <2>2. /\ absent \in Locals /\ absent.pc = "tcp_backends" /\ absent.client = Client /\ absent.vip = Vip
        /\ absent.hdr = hdr /\ absent.lb_mapping = None /\ absent.new_conn
    BY <1>1, <1>11, Basics, Zenon DEF Idle, Locals, Program
  <2> HIDE DEF absent
  <2>3. HandlerOK(absent, packet)
    BY <1>6, <2>2, Zenon DEF HandlerOK, IngressOK, hdr
  <2>4. Shape' /\ Conn' = Conn /\ cpu'[p] = absent /\ segment'[p] = packet
    <3>1. absent \in Locals /\ packet \in PacketType \cup {None} /\ Conn \in Mapping \cup {None}
      BY <1>1, <1>6, <2>2, Zenon
    <3>2. packet # None => \A q \in Cpus \ {p} : ~From(q, packet.from)
      BY <1>5, <1>6, Zenon
    <3>3. segment' = [segment EXCEPT ![p] = packet]
      BY <1>7
    <3> QED
      BY <1>8, <1>9, <2>1, <2>3, <3>1, <3>2, <3>3, ShapeOfNode, Zenon
  <2> QED
    BY <1>1, <1>2, <1>4, <1>5, <1>7, <1>14, <2>2, <2>4, Zenon DEF TakesClient, Takes, packet, seg
<1> QED
  BY <1>10, <1>13, <1>14, Zenon

\* A backend's segment finds the client's entry.
TakesBackend(p, b) ==
    /\ Takes(p, b)
    /\ Conn # None /\ cpu'[p].lb_mapping = Conn /\ ~cpu'[p].new_conn
    /\ cpu'[p].pc = IF IsRst(Head(wire[b])) THEN "egress_rst" ELSE "egress_update"

\* A backend's segment arrives.
LEMMA BackendTaken ==
    ASSUME Shape, NEW p \in Cpus, NEW b \in Backends, FromBackend(p, b)
    PROVE  /\ Shape' /\ TakesBackend(p, b)
           /\ \A q \in Cpus \ {p} : cpu'[q] = cpu[q] /\ segment'[q] = segment[q]
<1> DEFINE seg == Head(wire[b])
           hdr == Header(seg.kind)
           packet == [from |-> b, seg |-> seg]
           at == IF "RST" \in hdr THEN "egress_rst" ELSE "egress_update"
           found == [Idle EXCEPT !.pc = at, !.client = Client, !.hdr = hdr, !.lb_mapping = Conn]
<1>1. /\ cpu \in [Cpus -> Locals] /\ segment \in [Cpus -> PacketType \cup {None}]
      /\ end \in [Ends -> EndType] /\ wire \in [Ends -> Seq(SegmentType)]
      /\ GATEWAY_INDEXES \in [Vips -> Nat] /\ LB_CONNECTIONS \in [ClientKey -> Mapping \cup {None}]
      /\ b \in Ends /\ Client \in ClientKey /\ Conn \in Mapping \cup {None} /\ b # Client
  BY Basics, Zenon DEF Shape, FlowTypeOK, EbpfTypeOK, Conn
<1>2. wire[b] # <<>> /\ wire[b] \in Seq(SegmentType)
  BY <1>1, Zenon DEF FromBackend, Arrive
<1>3. seg \in SegmentType /\ Tail(wire[b]) \in Seq(SegmentType)
  BY <1>2, TailRange, Zenon
<1>4. cpu[p].pc = "idle" /\ segment[p] = None /\ cpu[p] = Idle
  <2>1. cpu[p].pc = "idle"
    BY Zenon DEF FromBackend, TcpEgress, At
  <2> QED
    BY <2>1, Zenon DEF Shape, FlowTypeOK, At, HandlerOK
<1>5. \A q \in Cpus : ~From(q, b)
  BY Zenon DEF FromBackend, Arrive, InHand, From
<1>6. packet \in PacketType /\ packet # None /\ packet.from = b /\ packet.seg = seg
  BY <1>1, <1>3, Basics DEF PacketType
<1>7. segment' = [segment EXCEPT ![p] = packet] /\ wire' = [wire EXCEPT ![b] = Tail(@)]
      /\ UNCHANGED <<end, events, history>>
  BY Zenon DEF FromBackend, Arrive
<1>8. end' \in [Ends -> EndType] /\ wire' \in [Ends -> Seq(SegmentType)]
  BY <1>1, <1>3, <1>7, Zenon
<1>9. /\ BACKENDS' = BACKENDS /\ GATEWAY_INDEXES' \in [Vips -> Nat]
      /\ LB_CONNECTIONS' = [LB_CONNECTIONS EXCEPT ![Client] = Conn]
  BY <1>1, Zenon DEF FromBackend, TcpEgress, mapVars, Conn
<1>10. Conn # None /\ cpu' = [cpu EXCEPT ![p] = found]
  BY Zenon DEF FromBackend, TcpEgress, Goto, Conn
<1>11. hdr \in SUBSET Flags /\ ("RST" \in hdr <=> IsRst(seg))
  BY <1>3, HeaderFlags, Zenon
<1>12. at = IF IsRst(seg) THEN "egress_rst" ELSE "egress_update"
  BY <1>11, Zenon
<1> HIDE DEF seg, hdr, packet, at
<1>13. Conn \in Mapping /\ Conn \in LoadBalancerMapping
  BY <1>1, <1>10, Basics, Zenon
<1>14. /\ found \in Locals /\ found.pc = at /\ found.client = Client
       /\ found.hdr = hdr /\ found.lb_mapping = Conn /\ ~found.new_conn
  BY <1>1, <1>11, <1>12, <1>13, Basics, Zenon DEF Idle, Locals, Program
<1> HIDE DEF found
<1>15. HandlerOK(found, packet)
  BY <1>1, <1>6, <1>11, <1>12, <1>13, <1>14, Zenon DEF HandlerOK, EgressOK, hdr
<1>16. Shape' /\ Conn' = Conn /\ cpu'[p] = found /\ segment'[p] = packet
  <2>1. found \in Locals /\ packet \in PacketType \cup {None} /\ Conn \in Mapping \cup {None}
    BY <1>1, <1>6, <1>14, Zenon
  <2>2. packet # None => \A q \in Cpus \ {p} : ~From(q, packet.from)
    BY <1>5, <1>6, Zenon
  <2>3. segment' = [segment EXCEPT ![p] = packet] /\ cpu' = [cpu EXCEPT ![p] = found]
    BY <1>7, <1>10, Zenon
  <2> QED
    BY <1>8, <1>9, <1>15, <2>1, <2>2, <2>3, ShapeOfNode, Zenon
<1> QED
  BY <1>1, <1>2, <1>4, <1>5, <1>7, <1>10, <1>12, <1>14, <1>16, Zenon DEF TakesBackend, Takes, packet, seg

\* What taking the first segment does to the wires.
LEMMA TailOne ==
    ASSUME Shape, NEW x \in Ends, wire[x] # <<>>, wire' = [wire EXCEPT ![x] = Tail(@)]
    PROVE  /\ wire' \in [Ends -> Seq(SegmentType)] /\ Head(wire[x]) \in SegmentType
           /\ wire[x] \in Seq(SegmentType) /\ wire'[x] = Tail(wire[x])
           /\ Range(wire[x]) = Range(wire'[x]) \cup {Head(wire[x])}
           /\ \A y \in Ends \ {x} : wire'[y] = wire[y]
           /\ \A y \in Ends : Range(wire'[y]) \subseteq Range(wire[y])
<1>1. wire \in [Ends -> Seq(SegmentType)]
  BY Zenon DEF Shape, FlowTypeOK
<1>2. /\ Head(wire[x]) \in SegmentType /\ Tail(wire[x]) \in Seq(SegmentType)
      /\ Range(wire[x]) = Range(Tail(wire[x])) \cup {Head(wire[x])}
  BY <1>1, TailRange, Zenon
<1>3. /\ wire' \in [Ends -> Seq(SegmentType)] /\ wire'[x] = Tail(wire[x])
      /\ \A y \in Ends \ {x} : wire'[y] = wire[y]
  BY <1>1, <1>2, Zenon
<1> QED
  BY <1>1, <1>2, <1>3, Zenon

\* The segment of a backend leaves without an entry.
LEMMA UntrackedTaken ==
    ASSUME Shape, NEW p \in Cpus, NEW b \in Backends, FromUntracked(p, b)
    PROVE  /\ Shape' /\ Conn = None /\ Conn' = None /\ UNCHANGED <<cpu, segment, end, events, history>>
           /\ b \in Ends /\ wire[b] # <<>> /\ wire' = [wire EXCEPT ![b] = Tail(@)]
<1>1. /\ UNCHANGED <<mapVars, cpu, segment, end, events, history>>
      /\ b \in Ends /\ wire[b] # <<>> /\ wire' = [wire EXCEPT ![b] = Tail(@)] /\ Conn = None
  BY Basics, Zenon DEF FromUntracked, Conn
<1>2. wire' \in [Ends -> Seq(SegmentType)] /\ end' \in [Ends -> EndType]
  BY <1>1, TailOne, Zenon DEF Shape, FlowTypeOK
<1> QED
  BY <1>1, <1>2, ShapeOfEnds, Zenon DEF mapVars, Conn

-----------------------------------------------------------------------------
\* The steps before a FIN.

\* What an end does on a segment when there has been no FIN.
LEMMA LiveReceived ==
    ASSUME Shape, NoFin, NEW x \in Ends, NEW seg \in SegmentType, seg.kind # "FIN"
    PROVE  LET e == end[x]
               r == Received(x, seg)
           IN  /\ r[1] \in EndType /\ ~r[1].finSent /\ ~r[1].finAcked /\ ~r[1].finRcvd
               /\ \/ /\ IsRst(seg) /\ r[2] = None
                     /\ r[1].phase = IF e.phase \in Unused THEN e.phase ELSE "reset"
                  \/ /\ seg.kind = "SYN" /\ x # Client /\ e.phase # "open"
                     /\ r[1].phase = "opening" /\ r[2] = "SYNACK"
                  \/ /\ e.phase \in Unused /\ ~IsRst(seg) /\ ~(seg.kind = "SYN" /\ x # Client)
                     /\ r[1].phase = e.phase /\ r[2] \in {"RST", "RSTACK"}
                  \/ /\ x = Client /\ e.phase = "opening" /\ ~IsRst(seg) /\ seg.kind # "SYNACK"
                     /\ r[1].phase = e.phase /\ r[2] = "RST"
                  \/ /\ e.phase \in {"opening", "open"} /\ ~IsRst(seg)
                     /\ x = Client /\ e.phase = "opening" => seg.kind = "SYNACK"
                     /\ x # Client /\ e.phase = "opening" => seg.kind # "SYN"
                     /\ r[1].phase = "open" /\ r[2] \in {"ACK", None}
                     /\ seg.kind # "ACK" => r[2] = "ACK"
<1> DEFINE e == end[x]
           r == Received(x, seg)
<1>1. /\ e \in EndType /\ e.finSent = FALSE /\ e.finAcked = FALSE /\ e.finRcvd = FALSE
      /\ e.phase \in {"closed", "opening", "open", "reset"}
  <2>1. e \in EndType
    BY DEF Shape, FlowTypeOK
  <2>2. ~e.finSent /\ ~e.finAcked /\ ~e.finRcvd
    BY Zenon DEF NoFin
  <2> QED
    BY <2>1, <2>2, Zenon DEF EndType
<1>2. ~Done(e) /\ (Fresh(e) <=> e.phase \in Unused)
  BY <1>1, Zenon DEF Done, Fresh, Unused
<1>3. r[1] \in EndType
  BY ReceivedType
<1>4. Accepted(e, seg) = [e EXCEPT !.phase = "open", !.finAcked = FALSE, !.finRcvd = FALSE]
  BY <1>1, Zenon DEF Accepted
<1>5. /\ Accepted(e, seg).phase = "open" /\ Accepted(e, seg).finSent = FALSE
      /\ Accepted(e, seg).finAcked = FALSE /\ Accepted(e, seg).finRcvd = FALSE
  BY <1>1, <1>4, Zenon DEF EndType
<1> DEFINE opening == [Closed EXCEPT !.phase = "opening"]
           gone == [e EXCEPT !.phase = "reset"]
<1>6. opening.phase = "opening" /\ ~opening.finSent /\ ~opening.finAcked /\ ~opening.finRcvd
  BY DEF Closed
<1>7. gone.phase = "reset" /\ ~gone.finSent /\ ~gone.finAcked /\ ~gone.finRcvd
  BY <1>1, Zenon DEF EndType
<1>8. CASE IsRst(seg)
  <2>1. r = <<IF Fresh(e) THEN e ELSE gone, None>>
    BY <1>8, Zenon DEF Received, IsRst
  <2> HIDE DEF r, e, gone
  <2>2. r[1] = (IF Fresh(e) THEN e ELSE gone) /\ r[2] = None
    BY <2>1, Zenon
  <2>3. /\ ~r[1].finSent /\ ~r[1].finAcked /\ ~r[1].finRcvd
        /\ r[1].phase = IF e.phase \in Unused THEN e.phase ELSE "reset"
    BY <1>1, <1>2, <1>7, <2>2, Zenon
  <2> QED
    BY <1>3, <1>8, <2>2, <2>3, Zenon DEF r, e
<1>9. CASE seg.kind = "SYN" /\ x # Client /\ e.phase # "open"
  <2>1. Fresh(e) \/ e.phase = "opening"
    BY <1>1, <1>2, <1>9, Zenon DEF Unused
  <2>2. r = <<opening, "SYNACK">>
    BY <1>9, <2>1, Zenon DEF Received
  <2> HIDE DEF r, e, opening
  <2>3. r[1] = opening /\ r[2] = "SYNACK"
    BY <2>2, Zenon
  <2> QED
    BY <1>3, <1>6, <1>9, <2>3, Zenon DEF r, e
<1>10. CASE e.phase \in Unused /\ ~IsRst(seg) /\ ~(seg.kind = "SYN" /\ x # Client)
  <2>1. r = <<e, IF seg.kind = "SYN" THEN "RSTACK" ELSE "RST">>
    BY <1>2, <1>10, Zenon DEF Received, IsRst
  <2> HIDE DEF r, e
  <2>2. r[1] = e /\ r[2] \in {"RST", "RSTACK"}
    BY <2>1, Zenon
  <2> QED
    BY <1>1, <1>3, <1>10, <2>2, Zenon DEF r, e
<1>11. CASE x = Client /\ e.phase = "opening" /\ ~IsRst(seg) /\ seg.kind # "SYNACK"
  <2>1. r = <<e, "RST">>
    BY <1>1, <1>2, <1>11, Zenon DEF Received, IsRst, Unused
  <2> HIDE DEF r, e
  <2>2. r[1] = e /\ r[2] = "RST"
    BY <2>1, Zenon
  <2> QED
    BY <1>1, <1>3, <1>11, <2>2, Zenon DEF r, e
<1>12. CASE /\ e.phase \in {"opening", "open"} /\ ~IsRst(seg)
            /\ x = Client /\ e.phase = "opening" => seg.kind = "SYNACK"
            /\ x # Client /\ e.phase = "opening" => seg.kind # "SYN"
  <2>1. r = <<Accepted(e, seg), IF seg.kind = "ACK" THEN None ELSE "ACK">>
    BY <1>1, <1>2, <1>12, Zenon DEF Received, IsRst, Unused
  <2> HIDE DEF r, e
  <2>2. r[1] = Accepted(e, seg) /\ r[2] = IF seg.kind = "ACK" THEN None ELSE "ACK"
    BY <2>1, Zenon
  <2>3. r[1].phase = "open" /\ r[2] \in {"ACK", None} /\ (seg.kind # "ACK" => r[2] = "ACK")
    BY <1>5, <2>2, Zenon
  <2>4. ~r[1].finSent /\ ~r[1].finAcked /\ ~r[1].finRcvd
    BY <1>5, <2>2, Zenon
  <2> QED
    BY <1>3, <1>12, <2>3, <2>4, Zenon DEF r, e
<1> QED
  BY <1>1, <1>8, <1>9, <1>10, <1>11, <1>12, Zenon DEF Unused

\* Without a FIN, an established mapping stays as it is.
LEMMA LiveUpdated ==
    ASSUME NEW m \in Mapping, m.tcp_state = "Established", NEW hdr, "FIN" \notin hdr, NEW conn
    PROVE  Advanced(m, hdr) = m /\ Updated(m, hdr, conn) = conn
<1>1. m.tcp_state # None
  BY Basics DEF Mapping
<1>2. process_tcp_state_transition(hdr, m.tcp_state) = m.tcp_state
  BY DEF process_tcp_state_transition
<1>3. Advanced(m, hdr) = [m EXCEPT !.tcp_state = m.tcp_state]
  BY <1>1, <1>2, Zenon DEF Advanced
<1>4. Advanced(m, hdr) = m
  BY <1>3, Zenon DEF Mapping
<1> QED
  BY <1>4, Zenon DEF Updated

\* What a busy CPU has in hand before a FIN.
LEMMA LiveBusy ==
    ASSUME Shape, NoFin, NEW p \in Cpus, cpu[p].pc # "idle"
    PROVE  /\ segment[p] # None /\ segment[p].seg \in SegmentType /\ segment[p].from \in Ends
           /\ Plain(segment[p].from, segment[p].seg)
           /\ segment[p].seg.kind # "FIN" /\ "FIN" \notin cpu[p].hdr
           /\ "RST" \in cpu[p].hdr <=> IsRst(segment[p].seg)
<1>1. /\ segment[p] # None /\ segment[p].seg \in SegmentType /\ segment[p].from \in Ends
      /\ cpu[p].hdr = Header(segment[p].seg.kind)
  BY Busy, Zenon
<1>2. Plain(segment[p].from, segment[p].seg)
  BY <1>1, Zenon DEF NoFin
<1>3. segment[p].seg.kind # "FIN"
  BY <1>2 DEF Plain
<1> QED
  BY <1>1, <1>2, <1>3, HeaderFlags, Zenon

\* The handlers' steps before a FIN: only a record and an RST change the entry.
LEMMA LiveSteps ==
    ASSUME Shape, NoFin, NEW p \in Cpus, Tracking(p), cpu[p].pc # "idle"
    PROVE  /\ ChooseStep(p) => /\ Conn = None /\ Conn' = None
                               /\ cpu'[p].lb_mapping # None => cpu'[p].lb_mapping.tcp_state = "Established"
                               /\ IsRst(segment[p].seg) => cpu'[p].pc \notin {"tcp_update", "tcp_record"}
           /\ DropStep(p) => Conn = None /\ Conn' = None /\ (cpu[p].new_conn \/ cpu[p].pc = "tcp_rst")
           /\ UnlinkStep(p) => IsRst(segment[p].seg) /\ (From(p, Client) => ~cpu[p].new_conn /\ cpu[p].lb_mapping = Conn)
           /\ ForwardStep(p) => Conn' = Conn
           /\ RecordStep(p) => Conn = None /\ ~IsRst(segment[p].seg) /\ Conn' # None /\ Conn'.tcp_state = "Established"
           /\ ReplyStep(p) => Conn' = Conn
<1> DEFINE l == cpu[p]
           m == l.lb_mapping
<1>1. /\ segment[p] # None /\ segment[p].seg \in SegmentType /\ "FIN" \notin l.hdr
      /\ "RST" \in l.hdr <=> IsRst(segment[p].seg)
      /\ l.hdr = Header(segment[p].seg.kind)
      /\ segment[p].from = Client => IngressOK(l) /\ From(p, Client)
      /\ segment[p].from # Client => EgressOK(l) /\ ~From(p, Client)
  BY Busy, LiveBusy, Zenon
<1>2. m \in Mapping => m.tcp_state = "Established" /\ Advanced(m, l.hdr) = m /\ Updated(m, l.hdr, Conn) = Conn
  <2>1. m \in Mapping => m.tcp_state = "Established"
    BY Basics, Zenon DEF NoFin
  <2> QED
    BY <1>1, <2>1, LiveUpdated, Zenon
<1>3. Conn # None => Conn \in Mapping /\ Updated(Conn, l.hdr, Conn) = Conn
  <2>1. Conn # None => Conn \in Mapping /\ Conn.tcp_state = "Established"
    BY Basics, Zenon DEF NoFin, Shape, Conn
  <2> QED
    BY <1>1, <2>1, LiveUpdated, Zenon
<1>4. m \in Mapping \/ m = None
  BY <1>1, BusyWhere, Zenon DEF IngressOK, EgressOK
<1> HIDE DEF m
<1>5. ASSUME ChooseStep(p)
      PROVE  /\ Conn = None /\ Conn' = None
             /\ cpu'[p].lb_mapping # None => cpu'[p].lb_mapping.tcp_state = "Established"
             /\ IsRst(segment[p].seg) => cpu'[p].pc \notin {"tcp_update", "tcp_record"}
  <2>1. Conn = None /\ From(p, Client) /\ l.new_conn
    BY <1>5, Zenon DEF ChooseStep, Tracking
  <2>2. IngressOK(l)
    BY <1>1, <2>1, Zenon DEF From
  <2>3. CASE l.pc = "tcp_backends" /\ cpu'[p].pc = "tcp_index" /\ cpu'[p].lb_mapping = None /\ Conn' = Conn
    BY <2>1, <2>3, Zenon
  <2>4. CASE /\ l.pc = "tcp_index" /\ cpu'[p].pc = "tcp_advance" /\ Conn' = Conn
             /\ cpu'[p].lb_mapping \in Mapping /\ cpu'[p].lb_mapping.tcp_state = "Established"
    BY <2>1, <2>4, Zenon
  <2>5. CASE l.pc = "tcp_advance" /\ cpu'[p].pc = Chosen(l.hdr) /\ cpu'[p].lb_mapping = l.lb_mapping /\ Conn' = Conn
    <3>1. m \in Mapping
      BY <2>2, <2>5, Zenon DEF IngressOK, m
    <3> QED
      BY <1>1, <1>2, <2>1, <2>5, <3>1, Zenon DEF Chosen, m
  <2>6. CASE /\ l.pc = "tcp_update" /\ cpu'[p].pc = "tcp_record" /\ cpu'[p].lb_mapping = Advanced(l.lb_mapping, l.hdr)
             /\ Conn' = Updated(l.lb_mapping, l.hdr, Conn)
    <3>1. m \in Mapping
      BY <2>2, <2>6, Zenon DEF IngressOK, m
    <3>2. ~IsRst(segment[p].seg)
      BY <2>1, <2>6, Zenon DEF Tracking
    <3> QED
      BY <1>2, <2>1, <2>6, <3>1, <3>2, Zenon DEF m
  <2> QED
    BY <1>5, <2>3, <2>4, <2>5, <2>6, Zenon DEF ChooseStep
<1>6. ASSUME DropStep(p)
      PROVE  Conn = None /\ Conn' = None /\ (l.new_conn \/ l.pc = "tcp_rst")
  <2>1. IngressOK(l) /\ From(p, Client)
    BY <1>1, <1>6, Zenon DEF DropStep, From
  <2>2. l.pc = "tcp_update" => m \in Mapping
    BY <2>1, Zenon DEF IngressOK, m
  <2>3. l.pc = "tcp_update" => Advanced(m, l.hdr).tcp_state # "Closed"
    BY <1>2, <2>2, Zenon
  <2>4. l.new_conn => Conn = None
    BY <2>1, Zenon DEF Tracking
  <2> QED
    BY <1>2, <1>6, <2>2, <2>3, <2>4, Zenon DEF DropStep, m
<1>7. ASSUME UnlinkStep(p)
      PROVE  IsRst(segment[p].seg) /\ (From(p, Client) => ~l.new_conn /\ l.lb_mapping = Conn)
  <2>1. IsRst(segment[p].seg)
    BY <1>1, <1>7, Zenon DEF UnlinkStep, IngressOK, EgressOK
  <2>2. From(p, Client) => ~l.new_conn /\ l.lb_mapping = Conn
    BY <1>7, Zenon DEF UnlinkStep, Tracking
  <2> QED
    BY <2>1, <2>2, Zenon
<1>8. ASSUME ForwardStep(p) PROVE Conn' = Conn
  <2>1. m \in Mapping
    BY <1>1, <1>8, Zenon DEF ForwardStep, From, IngressOK, m
  <2> QED
    BY <1>2, <1>8, <2>1, Zenon DEF ForwardStep, m
<1>9. ASSUME RecordStep(p)
      PROVE  Conn = None /\ ~IsRst(segment[p].seg) /\ Conn' # None /\ Conn'.tcp_state = "Established"
  <2>1. m \in Mapping
    BY <1>1, <1>9, Zenon DEF RecordStep, From, IngressOK, m
  <2>2. Conn = None /\ ~IsRst(segment[p].seg) /\ Conn' = m
    BY <1>9, Zenon DEF RecordStep, Tracking, m
  <2> QED
    BY <1>2, <2>1, <2>2, Basics, Zenon
<1>10. ASSUME ReplyStep(p) PROVE Conn' = Conn
  <2>1. CASE l.pc = "egress_rst" /\ Conn = None /\ Conn' = None
    BY <2>1, Zenon
  <2>2. CASE \E m2 \in {m, Conn} : m2 # None /\ Conn' = Updated(m2, l.hdr, Conn)
    BY <1>2, <1>3, <1>4, <2>2
  <2> QED
    BY <1>10, <2>1, <2>2, Zenon DEF ReplyStep, m
<1> QED
  BY <1>5, <1>6, <1>7, <1>8, <1>9, <1>10, Zenon

-----------------------------------------------------------------------------
\* Live, Calm and Aborted are kept by the handlers' steps.

\* The other CPUs keep what they have.
Alone(p) == \A q \in Cpus \ {p} : cpu'[q] = cpu[q] /\ segment'[q] = segment[q]

\* A new connection's lookups change nothing that Live is about.
LEMMA LiveChoose ==
    ASSUME Shape, Live, NEW p \in Cpus, cpu[p].pc # "idle", Alone(p), ChooseStep(p)
    PROVE  Live'
<1>1. /\ end' = end /\ wire' = wire /\ segment' = segment /\ Conn = None /\ Conn' = None
      /\ cpu'[p].lb_mapping # None => cpu'[p].lb_mapping.tcp_state = "Established"
      /\ IsRst(segment[p].seg) => cpu'[p].pc \notin {"tcp_update", "tcp_record"}
      /\ From(p, Client) /\ cpu[p].new_conn /\ cpu'[p].new_conn
  BY LiveSteps, Zenon DEF Live, ChooseStep
<1>2. NoFin'
  BY <1>1, Zenon DEF Live, NoFin, Alone
<1>3. \A q \in Cpus : Tracking(q)'
  BY <1>1, Zenon DEF Live, Tracking, Alone, From
<1>4. \A q \in Cpus, b \in Backends : Resetting(q, b) => Resetting(q, b)'
  BY <1>1, Zenon DEF Resetting, Alone, From
<1>5. OneEnd'
  BY <1>1, <1>4, Zenon DEF Live, OneEnd
<1>6. RstFromUnused' /\ SynsFirst' /\ SynIsAhead'
  BY <1>1, Zenon DEF Live, RstFromUnused, SynsFirst, SynIsAhead, ClientSyn, From
<1> QED
  BY <1>2, <1>3, <1>5, <1>6, Zenon DEF Live

\* NoFin is kept by a step that leaves p idle, if the ends, the wires and the entry
\* are as it asks.
LEMMA NoFinIdle ==
    ASSUME NoFin, NEW p \in Cpus, Alone(p), segment'[p] = None, cpu'[p] = Idle,
           \A x \in Ends : ~end'[x].finSent /\ ~end'[x].finAcked /\ ~end'[x].finRcvd,
           \A x \in Ends : \A seg \in Range(wire'[x]) : Plain(x, seg),
           Conn' # None => Conn'.tcp_state = "Established"
    PROVE  NoFin'
<1>1. Idle.lb_mapping = None
  BY DEF Idle
<1>2. \A q \in Cpus : segment'[q] # None => Plain(segment'[q].from, segment'[q].seg)
  BY Zenon DEF NoFin, Alone
<1>3. \A q \in Cpus : cpu'[q].lb_mapping # None => cpu'[q].lb_mapping.tcp_state = "Established"
  BY <1>1, Zenon DEF NoFin, Alone
<1> QED
  BY <1>2, <1>3, Zenon DEF NoFin

\* A segment that is dropped changes nothing either.
LEMMA LiveDrop ==
    ASSUME Shape, Live, NEW p \in Cpus, cpu[p].pc # "idle", Alone(p), DropStep(p)
    PROVE  Live'
<1>1. /\ end' = end /\ wire' = wire /\ segment'[p] = None /\ cpu'[p] = Idle /\ Conn = None /\ Conn' = None
      /\ From(p, Client) /\ (cpu[p].new_conn \/ cpu[p].pc = "tcp_rst")
  BY LiveSteps, Zenon DEF Live, DropStep, Finishes
<1>2. NoFin'
  <2>1. /\ \A x \in Ends : ~end'[x].finSent /\ ~end'[x].finAcked /\ ~end'[x].finRcvd
        /\ \A x \in Ends : \A seg \in Range(wire'[x]) : Plain(x, seg)
    BY <1>1, Zenon DEF Live, NoFin
  <2> QED
    BY <1>1, <2>1, NoFinIdle, Zenon DEF Live
<1>3. \A q \in Cpus : Tracking(q)'
  BY <1>1, Zenon DEF Live, Tracking, Alone, From
<1>4. \A q \in Cpus, b \in Backends : Resetting(q, b) => Resetting(q, b)'
  BY <1>1, Zenon DEF Resetting, Alone, From
<1>5. OneEnd'
  BY <1>1, <1>4, Zenon DEF Live, OneEnd
<1>6. RstFromUnused' /\ SynsFirst'
  BY <1>1, Zenon DEF Live, RstFromUnused, SynsFirst, From, Alone
<1>7. ClientSyn' => ClientSyn
  BY <1>1, Zenon DEF ClientSyn, From, Alone
<1>8. SynIsAhead'
  BY <1>1, <1>7, Zenon DEF Live, SynIsAhead
<1> QED
  BY <1>2, <1>3, <1>5, <1>6, <1>8, Zenon DEF Live

\* An RST that removes the entry is the one that ends the connection.
LEMMA LiveUnlink ==
    ASSUME Shape, Live, NEW p \in Cpus, cpu[p].pc # "idle", Alone(p), UnlinkStep(p)
    PROVE  Live'
<1>1. /\ end' = end /\ wire' = wire /\ segment' = segment /\ Conn # None /\ Conn' = None
      /\ IsRst(segment[p].seg) /\ (From(p, Client) => ~cpu[p].new_conn /\ cpu[p].lb_mapping = Conn)
      /\ segment[p] # None
  BY LiveSteps, LiveBusy, Zenon DEF Live, UnlinkStep
<1>2. /\ cpu'[p].lb_mapping = cpu[p].lb_mapping /\ cpu'[p].new_conn = cpu[p].new_conn
      /\ From(p, Client) => cpu[p].pc = "tcp_rst" /\ cpu'[p].pc = "tcp_update"
  <2>1. cpu[p] \in Locals
    BY DEF Shape, FlowTypeOK, EbpfTypeOK
  <2> QED
    BY <2>1, Zenon DEF UnlinkStep, Locals
<1>3. NoFin'
  BY <1>1, <1>2, Zenon DEF Live, NoFin, Alone
<1>4. \A q \in Cpus : Tracking(q)'
  BY <1>1, <1>2, Zenon DEF Live, Tracking, Alone, From
<1>5. \A q \in Cpus, b \in Backends : Resetting(q, b) => Resetting(q, b)'
  BY <1>1, <1>2, Zenon DEF Resetting, Alone, From
<1>6. ~From(p, Client) => BackendRst
  BY <1>1, Zenon DEF From, BackendRst
<1>7. \A b \in Backends : From(p, Client) /\ Conn.backend = b => Resetting(p, b)'
  BY <1>1, <1>2, Zenon DEF Resetting, From
<1>8. OneEnd'
  BY <1>1, <1>5, <1>6, <1>7, Zenon DEF Live, OneEnd, RstFromUnused
<1>9. RstFromUnused' /\ SynsFirst'
  BY <1>1, Zenon DEF Live, RstFromUnused, SynsFirst, From
<1>10. From(p, Client) => ~ClientSyn
  <2> SUFFICES ASSUME From(p, Client), ClientSyn PROVE FALSE
    BY Zenon
  <2>1. segment[p].seg.kind # "SYN" /\ segment[p].from = Client
    BY <1>1, Zenon DEF IsRst, From
  <2>2. \A seg \in Range(wire[Client]) : seg.kind # "SYN"
    BY <2>1, Zenon DEF Live, SynsFirst
  <2>3. \A q \in Cpus : From(q, Client) => q = p
    BY Basics, Zenon DEF Shape
  <2> QED
    BY <2>1, <2>2, <2>3, Zenon DEF ClientSyn
<1>11. SynIsAhead'
  BY <1>1, <1>6, <1>10, Zenon DEF Live, SynIsAhead, ClientSyn, From
<1> QED
  BY <1>3, <1>4, <1>8, <1>9, <1>11 DEF Live

\* x answers with a segment of this kind, or not at all.
Answers(x, kinds) ==
    \E seg \in SegmentType :
        /\ seg.kind \in kinds /\ seg.acksFin = FALSE
        /\ wire'[x] = Append(wire[x], seg) /\ Range(wire'[x]) = Range(wire[x]) \cup {seg}

\* What becomes of x on a segment, before a FIN.
Reacts(x, seg) ==
    LET now == end[x].phase
        next == end'[x].phase
    IN  \/ IsRst(seg) /\ next = (IF now \in Unused THEN now ELSE "reset") /\ wire' = wire
        \/ seg.kind = "SYN" /\ x # Client /\ now # "open" /\ next = "opening" /\ Answers(x, {"SYNACK"})
        \/ /\ now \in Unused /\ ~IsRst(seg) /\ ~(seg.kind = "SYN" /\ x # Client)
           /\ next = now /\ Answers(x, {"RST", "RSTACK"})
        \/ /\ x = Client /\ now = "opening" /\ ~IsRst(seg) /\ seg.kind # "SYNACK"
           /\ next = now /\ Answers(x, {"RST"})
        \/ /\ now \in {"opening", "open"} /\ ~IsRst(seg)
           /\ x = Client /\ now = "opening" => seg.kind = "SYNACK"
           /\ x # Client /\ now = "opening" => seg.kind # "SYN"
           /\ next = "open" /\ (Answers(x, {"ACK"}) \/ (seg.kind = "ACK" /\ wire' = wire))

\* A delivery before a FIN.
LEMMA LiveDeliver ==
    ASSUME Shape, NoFin, NEW p \in Cpus, cpu[p].pc # "idle", NEW x \in Ends, Deliver(p, x)
    PROVE  /\ Reacts(x, segment[p].seg)
           /\ \A y \in Ends : ~end'[y].finSent /\ ~end'[y].finAcked /\ ~end'[y].finRcvd
           /\ \A y \in Ends \ {x} : end'[y] = end[y] /\ wire'[y] = wire[y]
           /\ \A y \in Ends : Range(wire[y]) \subseteq Range(wire'[y])
<1> DEFINE seg == segment[p].seg
           e == end[x]
           r == Received(x, seg)
<1>1. segment[p] # None /\ seg \in SegmentType /\ seg.kind # "FIN"
  BY LiveBusy, Zenon
<1>2. /\ end'[x] = r[1]
      /\ r[2] = None => wire' = wire
      /\ r[2] # None => /\ r[2] \in Kinds
                        /\ wire'[x] = Append(wire[x], Segment(r[1], r[2]))
                        /\ Range(wire'[x]) = Range(wire[x]) \cup {Segment(r[1], r[2])}
      /\ \A y \in Ends \ {x} : end'[y] = end[y] /\ wire'[y] = wire[y]
  BY <1>1, DeliversOne, Zenon
<1>3. /\ r[1] \in EndType /\ ~r[1].finSent /\ ~r[1].finAcked /\ ~r[1].finRcvd
      /\ \/ /\ IsRst(seg) /\ r[2] = None
            /\ r[1].phase = IF e.phase \in Unused THEN e.phase ELSE "reset"
         \/ /\ seg.kind = "SYN" /\ x # Client /\ e.phase # "open"
            /\ r[1].phase = "opening" /\ r[2] = "SYNACK"
         \/ /\ e.phase \in Unused /\ ~IsRst(seg) /\ ~(seg.kind = "SYN" /\ x # Client)
            /\ r[1].phase = e.phase /\ r[2] \in {"RST", "RSTACK"}
         \/ /\ x = Client /\ e.phase = "opening" /\ ~IsRst(seg) /\ seg.kind # "SYNACK"
            /\ r[1].phase = e.phase /\ r[2] = "RST"
         \/ /\ e.phase \in {"opening", "open"} /\ ~IsRst(seg)
            /\ x = Client /\ e.phase = "opening" => seg.kind = "SYNACK"
            /\ x # Client /\ e.phase = "opening" => seg.kind # "SYN"
            /\ r[1].phase = "open" /\ r[2] \in {"ACK", None}
            /\ seg.kind # "ACK" => r[2] = "ACK"
  BY <1>1, LiveReceived, Zenon
<1> HIDE DEF r, seg, e
<1>4. r[2] # None => Answers(x, {r[2]})
  <2> DEFINE s == Segment(r[1], r[2])
  <2> SUFFICES ASSUME r[2] # None PROVE Answers(x, {r[2]})
    OBVIOUS
  <2>1. s \in SegmentType /\ s.kind = r[2] /\ s.acksFin = r[1].finRcvd
    BY <1>2, <1>3, SegmentIsOne, Zenon
  <2>2. s.acksFin = FALSE
    BY <1>3, <2>1, Zenon DEF EndType
  <2> HIDE DEF s
  <2> QED
    BY <1>2, <2>1, <2>2, Zenon DEF Answers, s
<1>5. \A k, S : Answers(x, {k}) /\ k \in S => Answers(x, S)
  BY Zenon DEF Answers
<1>6. /\ "SYNACK" # None /\ "RST" # None /\ "RSTACK" # None /\ "ACK" # None
  BY Basics, Zenon DEF Kinds
<1>7. Reacts(x, seg)
  BY <1>2, <1>3, <1>4, <1>5, <1>6, Zenon DEF Reacts, e
<1>8. \A y \in Ends : ~end'[y].finSent /\ ~end'[y].finAcked /\ ~end'[y].finRcvd
  BY <1>2, <1>3, Zenon DEF NoFin
<1>9. \A y \in Ends : Range(wire[y]) \subseteq Range(wire'[y])
  BY <1>2, Zenon
<1> QED
  BY <1>2, <1>7, <1>8, <1>9, Zenon DEF seg

\* Before an abort, or with the client past its opening.
Known == Calm \/ end[Client].phase \in {"open", "reset"}

\* A SYN in hand meets no RST of a backend, and the entry that its handler found.
LEMMA SynInHand ==
    ASSUME Live, Known, NEW p \in Cpus, From(p, Client), segment[p].seg.kind = "SYN"
    PROVE  /\ ~BackendRst
           /\ ~cpu[p].new_conn => Conn # None
           /\ Conn = None => Calm /\ end[Client].phase \notin {"open", "reset"}
<1>1. ClientSyn
  BY Zenon DEF ClientSyn
<1>2. CASE end[Client].phase \in {"open", "reset"}
  BY <1>1, <1>2, Zenon DEF Live, SynIsAhead
<1>3. CASE Calm /\ end[Client].phase \notin {"open", "reset"}
  <2>1. ~BackendRst
    BY <1>3, Basics, Zenon DEF Calm, NoRst, BackendRst
  <2> QED
    BY <1>3, <2>1, Zenon DEF Calm, EntryStays
<1> QED
  BY <1>2, <1>3, Zenon DEF Known

\* A delivery to a backend leaves no new FIN, and the client's wire as it is.
LEMMA LiveToBackend ==
    ASSUME Shape, Live, NEW p \in Cpus, cpu[p].pc # "idle", Alone(p), Finishes(p), From(p, Client),
           NEW b \in Backends, Deliver(p, b),
           Conn' # None => Conn'.tcp_state = "Established"
    PROVE  /\ NoFin' /\ (\A q \in Cpus : Tracking(q)') /\ SynsFirst'
           /\ \A q \in Cpus : ~From(q, Client)'
           /\ end'[Client] = end[Client] /\ wire'[Client] = wire[Client]
           /\ ClientSyn' => segment[p].seg.kind = "SYN"
           /\ BackendRst' => BackendRst \/ end'[b].phase \in Unused
<1>1. b \in Ends /\ Client \in Ends /\ b # Client /\ Backends \subseteq Ends
  BY Basics, Zenon
<1>2. segment[p] # None /\ segment'[p] = None /\ cpu'[p] = Idle /\ segment[p].from = Client
  BY DEF Finishes, From
<1>3. /\ Reacts(b, segment[p].seg)
      /\ \A y \in Ends : ~end'[y].finSent /\ ~end'[y].finAcked /\ ~end'[y].finRcvd
      /\ \A y \in Ends \ {b} : end'[y] = end[y] /\ wire'[y] = wire[y]
      /\ \A y \in Ends : Range(wire[y]) \subseteq Range(wire'[y])
  BY <1>1, LiveDeliver, Zenon DEF Live
<1>4. \/ wire' = wire
      \/ Answers(b, {"RST", "RSTACK"}) /\ end'[b].phase \in Unused
      \/ Answers(b, {"SYNACK", "ACK"})
  <2>1. \A k \in {"SYNACK", "ACK"} : Answers(b, {k}) => Answers(b, {"SYNACK", "ACK"})
    BY Zenon DEF Answers
  <2> QED
    BY <1>1, <1>3, <2>1, Zenon DEF Reacts
<1>5. \A y \in Ends : \A seg \in Range(wire'[y]) : Plain(y, seg)
  <2>1. \A y \in Ends : \A seg \in Range(wire[y]) : Plain(y, seg)
    BY DEF Live, NoFin
  <2>2. \A S \in {{"RST", "RSTACK"}, {"SYNACK", "ACK"}} : Answers(b, S) =>
            \A seg \in Range(wire'[b]) : Plain(b, seg)
    BY <1>1, <2>1, Zenon DEF Answers, Plain
  <2> QED
    BY <1>3, <1>4, <2>1, <2>2, Zenon
<1>6. NoFin'
  BY <1>2, <1>3, <1>5, NoFinIdle, Zenon DEF Live
<1>7. \A q \in Cpus : ~From(q, Client)'
  BY <1>1, <1>2, Zenon DEF Shape, Alone, From
<1>8. (\A q \in Cpus : Tracking(q)') /\ SynsFirst'
  BY <1>1, <1>3, <1>7, Zenon DEF Live, Tracking, SynsFirst
<1>9. ClientSyn' => segment[p].seg.kind = "SYN"
  BY <1>1, <1>3, <1>7, Zenon DEF ClientSyn, Live, SynsFirst
<1>10. BackendRst' => BackendRst \/ end'[b].phase \in Unused
  <2>1. Answers(b, {"SYNACK", "ACK"}) => \A seg \in Range(wire'[b]) : IsRst(seg) => seg \in Range(wire[b])
    BY Zenon DEF Answers, IsRst
  <2>2. CASE wire' = wire \/ Answers(b, {"SYNACK", "ACK"})
    <3>1. \A c \in Backends : \A seg \in Range(wire'[c]) : IsRst(seg) => seg \in Range(wire[c])
      BY <1>1, <1>3, <2>1, <2>2, Zenon
    <3>2. \A q \in Cpus : segment'[q] # None => segment'[q] = segment[q]
      BY <1>2, Zenon DEF Alone
    <3> QED
      BY <3>1, <3>2, Zenon DEF BackendRst
  <2> QED
    BY <1>4, <2>2, Zenon
<1> QED
  BY <1>1, <1>3, <1>6, <1>7, <1>8, <1>9, <1>10, Zenon

\* The client's segment reaches the backend that its handler found.
LEMMA LiveForward ==
    ASSUME Shape, Live, Known, NEW p \in Cpus, cpu[p].pc # "idle", Alone(p), ForwardStep(p)
    PROVE  Live'
<1> DEFINE b == cpu[p].lb_mapping.backend
           seg == segment[p].seg
<1>1. /\ From(p, Client) /\ Finishes(p) /\ cpu[p].pc = "tcp_update" /\ ~cpu[p].new_conn
      /\ Conn' = Conn /\ Deliver(p, b)
  BY LiveSteps, Zenon DEF Live, ForwardStep
<1>2. b \in Backends /\ b \in Ends /\ b # Client
  BY <1>1, Busy, Basics, Zenon DEF From, IngressOK, Mapping
<1>3. Conn # None => Conn = cpu[p].lb_mapping /\ Conn.backend = b /\ ~IsRst(seg)
  BY <1>1, Zenon DEF Live, Tracking
<1>4. seg.kind = "SYN" => ~BackendRst /\ Conn # None
  BY <1>1, SynInHand, Zenon
<1> HIDE DEF b, seg
<1>5. /\ NoFin' /\ (\A q \in Cpus : Tracking(q)') /\ SynsFirst'
      /\ \A q \in Cpus : ~From(q, Client)'
      /\ end'[Client] = end[Client] /\ wire'[Client] = wire[Client]
      /\ ClientSyn' => seg.kind = "SYN"
      /\ BackendRst' => BackendRst \/ end'[b].phase \in Unused
  <2>1. Conn' # None => Conn'.tcp_state = "Established"
    BY <1>1, Zenon DEF Live, NoFin
  <2> QED
    BY <1>1, <1>2, <2>1, LiveToBackend, Zenon DEF seg
<1>6. Reacts(b, seg) /\ \A y \in Ends \ {b} : end'[y] = end[y]
  BY <1>1, <1>2, LiveDeliver, Zenon DEF Live, seg
<1>7. \A c \in Backends, q \in Cpus : Resetting(q, c) => q = p /\ c = b /\ IsRst(seg)
  BY <1>1, Basics, Zenon DEF Resetting, Shape, seg, b
<1>8. Conn = None /\ end[b].phase \notin Unused => IsRst(seg)
  BY <1>2, <1>7, Zenon DEF Live, OneEnd
<1>9. Conn = None => end'[b].phase \in Unused
  <2> SUFFICES ASSUME Conn = None PROVE end'[b].phase \in Unused
    OBVIOUS
  <2>1. seg.kind # "SYN"
    BY <1>4, Zenon
  <2>2. IsRst(seg) => end'[b].phase \in Unused
    BY <1>6, Zenon DEF Reacts, Unused, IsRst
  <2>3. end[b].phase \in Unused => end'[b].phase \in Unused
    BY <1>6, <2>1, <2>2, Zenon DEF Reacts, Unused
  <2> QED
    BY <1>8, <2>2, <2>3, Zenon
<1>10. OneEnd'
  <2> SUFFICES ASSUME NEW c \in Backends
               PROVE  end'[c].phase \in Unused \/ (Conn' # None /\ Conn'.backend = c)
    BY DEF OneEnd
  <2>1. CASE c = b
    BY <1>1, <1>3, <1>9, <2>1, Zenon
  <2>2. CASE c # b
    BY <1>1, <1>6, <1>7, <2>2, Basics, Zenon DEF Live, OneEnd
  <2> QED
    BY <2>1, <2>2, Zenon
<1>11. RstFromUnused'
  <2> SUFFICES ASSUME BackendRst', Conn # None PROVE end'[b].phase \in Unused
    BY <1>1, <1>3, Zenon DEF RstFromUnused
  <2>1. seg.kind # "SYN" \/ ~BackendRst
    BY <1>4, Zenon
  <2>2. BackendRst => end[b].phase \in Unused
    BY <1>3, Zenon DEF Live, RstFromUnused
  <2>3. CASE BackendRst
    BY <1>6, <2>1, <2>2, <2>3, Zenon DEF Reacts, Unused
  <2> QED
    BY <1>5, <2>3, Zenon
<1>12. SynIsAhead'
  <2> SUFFICES ASSUME ClientSyn', end[Client].phase \in {"open", "reset"}
               PROVE  Conn # None /\ end'[b].phase = "opening" /\ ~BackendRst'
    BY <1>1, <1>3, <1>5, Zenon DEF SynIsAhead
  <2>1. seg.kind = "SYN" /\ ClientSyn
    BY <1>1, <1>5, Zenon DEF ClientSyn, seg
  <2>2. Conn # None /\ end[b].phase = "opening" /\ ~BackendRst
    BY <1>3, <2>1, Zenon DEF Live, SynIsAhead
  <2> QED
    BY <1>5, <1>6, <2>1, <2>2, Zenon DEF Reacts, IsRst, Unused
<1> QED
  BY <1>5, <1>10, <1>11, <1>12, Zenon DEF Live

\* The first segment of a new connection reaches its backend as it is recorded.
LEMMA LiveRecord ==
    ASSUME Shape, Live, Known, NEW p \in Cpus, cpu[p].pc # "idle", Alone(p), RecordStep(p)
    PROVE  Live'
<1> DEFINE b == cpu[p].lb_mapping.backend
           seg == segment[p].seg
<1>1. /\ From(p, Client) /\ Finishes(p) /\ cpu[p].pc = "tcp_record" /\ cpu[p].new_conn
      /\ Conn = None /\ Conn' = cpu[p].lb_mapping /\ Conn' # None /\ Conn'.tcp_state = "Established"
      /\ Deliver(p, b) /\ ~IsRst(seg)
  BY LiveSteps, Zenon DEF Live, RecordStep
<1>2. b \in Backends /\ b \in Ends /\ b # Client /\ Conn'.backend = b
  BY <1>1, Busy, Basics, Zenon DEF From, IngressOK, Mapping
<1>3. seg.kind = "SYN" => ~BackendRst /\ end[Client].phase \notin {"open", "reset"}
  BY <1>1, SynInHand, Zenon
<1> HIDE DEF b, seg
<1>4. /\ NoFin' /\ (\A q \in Cpus : Tracking(q)') /\ SynsFirst'
      /\ \A q \in Cpus : ~From(q, Client)'
      /\ end'[Client] = end[Client] /\ wire'[Client] = wire[Client]
      /\ ClientSyn' => seg.kind = "SYN"
      /\ BackendRst' => BackendRst \/ end'[b].phase \in Unused
  BY <1>1, <1>2, LiveToBackend, Zenon DEF seg
<1>5. Reacts(b, seg) /\ \A y \in Ends \ {b} : end'[y] = end[y]
  BY <1>1, <1>2, LiveDeliver, Zenon DEF Live, seg, b
<1>6. \A c \in Backends, q \in Cpus : ~Resetting(q, c)
  BY <1>1, Basics, Zenon DEF Resetting, Shape
<1>7. \A c \in Backends : end[c].phase \in Unused
  BY <1>1, <1>6, Zenon DEF Live, OneEnd
<1>8. OneEnd'
  <2> SUFFICES ASSUME NEW c \in Backends
               PROVE  end'[c].phase \in Unused \/ (Conn' # None /\ Conn'.backend = c)
    BY DEF OneEnd
  <2> QED
    BY <1>1, <1>2, <1>5, <1>7, Basics, Zenon
<1>9. RstFromUnused'
  <2> SUFFICES ASSUME BackendRst, seg.kind # "SYN" PROVE end'[b].phase \in Unused
    BY <1>2, <1>3, <1>4, Zenon DEF RstFromUnused
  <2> QED
    BY <1>1, <1>2, <1>5, <1>7, Zenon DEF Reacts, Unused
<1>10. SynIsAhead'
  BY <1>3, <1>4, Zenon DEF SynIsAhead
<1> QED
  BY <1>4, <1>8, <1>9, <1>10, Zenon DEF Live

\* A backend's segment reaches the client.
LEMMA LiveReply ==
    ASSUME Shape, Live, Known, NEW p \in Cpus, cpu[p].pc # "idle", Alone(p), ReplyStep(p)
    PROVE  Live'
<1> DEFINE c == segment[p].from
           seg == segment[p].seg
<1>1. /\ segment[p] # None /\ c \in Backends /\ segment'[p] = None /\ cpu'[p] = Idle
      /\ Deliver(p, Client) /\ Conn' = Conn /\ From(p, c)
  BY LiveSteps, Zenon DEF Live, ReplyStep, Finishes, From
<1>2. Client \in Ends /\ c # Client /\ Backends \subseteq Ends /\ Client \notin Backends
  BY <1>1, Basics, Zenon
<1>3. seg.kind # "SYN" /\ seg \in SegmentType
  BY <1>2, LiveBusy, Zenon DEF Live, Plain
<1>4. /\ Reacts(Client, seg)
      /\ \A y \in Ends : ~end'[y].finSent /\ ~end'[y].finAcked /\ ~end'[y].finRcvd
      /\ \A y \in Ends \ {Client} : end'[y] = end[y] /\ wire'[y] = wire[y]
      /\ \A y \in Ends : Range(wire[y]) \subseteq Range(wire'[y])
  BY <1>1, <1>2, LiveDeliver, Zenon DEF Live
<1> HIDE DEF seg
<1>5. wire' = wire \/ Answers(Client, {"RST", "RSTACK", "ACK"})
  <2>1. \A S \in {{"RST", "RSTACK"}, {"RST"}, {"ACK"}} : Answers(Client, S) => Answers(Client, {"RST", "RSTACK", "ACK"})
    BY DEF Answers
  <2> QED
    BY <1>4, <2>1, Zenon DEF Reacts
<1>6. /\ SynFirst(wire'[Client])
      /\ \A s \in Range(wire'[Client]) : s \in Range(wire[Client]) \/ (s.kind # "SYN" /\ Plain(Client, s))
  <2>1. CASE wire' = wire
    BY <2>1, Zenon DEF Live, SynsFirst
  <2>2. CASE Answers(Client, {"RST", "RSTACK", "ACK"})
    <3>1. PICK s \in SegmentType :
             /\ s.kind \in {"RST", "RSTACK", "ACK"} /\ s.acksFin = FALSE
             /\ wire'[Client] = Append(wire[Client], s) /\ Range(wire'[Client]) = Range(wire[Client]) \cup {s}
      BY <2>2, Zenon DEF Answers
    <3>2. wire[Client] \in Seq(SegmentType)
      BY <1>2, Zenon DEF Shape, FlowTypeOK
    <3>3. SynFirst(Append(wire[Client], s))
      BY <3>1, <3>2, SynFirstAppend, Zenon DEF Live, SynsFirst
    <3> QED
      BY <3>1, <3>3, Zenon DEF Plain
  <2> QED
    BY <1>5, <2>1, <2>2, Zenon
<1>7. \A y \in Ends : \A s \in Range(wire'[y]) : Plain(y, s)
  BY <1>4, <1>6, Zenon DEF Live, NoFin
<1>8. NoFin'
  <2>1. Conn' # None => Conn'.tcp_state = "Established"
    BY <1>1, Zenon DEF Live, NoFin
  <2> QED
    BY <1>1, <1>4, <1>7, <2>1, NoFinIdle, Zenon DEF Live
<1>9. /\ \A q \in Cpus : q # p => cpu'[q] = cpu[q] /\ segment'[q] = segment[q]
      /\ ~From(p, Client) /\ ~From(p, Client)'
  BY <1>1, <1>2, Zenon DEF Alone, From
<1>10. \A q \in Cpus : Tracking(q)'
  BY <1>1, <1>9, Zenon DEF Live, Tracking, From
<1>11. \A q \in Cpus, b \in Backends : Resetting(q, b) => Resetting(q, b)'
  BY <1>9, Zenon DEF Resetting, From
<1>12. OneEnd'
  BY <1>1, <1>2, <1>4, <1>11, Zenon DEF Live, OneEnd
<1>13. BackendRst' => BackendRst
  BY <1>1, <1>2, <1>4, <1>9, Zenon DEF BackendRst
<1>14. Conn # None => Conn.backend \in Backends
  BY Basics, Zenon DEF Shape, Conn, Mapping
<1>15. RstFromUnused'
  BY <1>1, <1>2, <1>4, <1>13, <1>14, Zenon DEF Live, RstFromUnused
<1>16. SynsFirst'
  BY <1>6, <1>9, Zenon DEF Live, SynsFirst, From
<1>17. ClientSyn' => ClientSyn
  BY <1>6, <1>9, Zenon DEF ClientSyn, From
<1>18. SynIsAhead'
  <2> SUFFICES ASSUME ClientSyn, end'[Client].phase \in {"open", "reset"}
               PROVE  Conn # None /\ end[Conn.backend].phase = "opening" /\ ~BackendRst
    BY <1>1, <1>2, <1>4, <1>13, <1>14, <1>17, Zenon DEF SynIsAhead
  <2>1. CASE end[Client].phase \in {"open", "reset"}
    BY <2>1, Zenon DEF Live, SynIsAhead
  <2>2. CASE Calm /\ end[Client].phase \notin {"open", "reset"}
    <3>1. Conn # None /\ Conn.backend = c
      BY <1>1, <2>2, Zenon DEF Calm, OthersUnused
    <3>2. ~BackendRst /\ ~IsRst(seg)
      BY <1>1, <1>2, <2>2, Zenon DEF Calm, NoRst, BackendRst, seg
    <3>3. end[Client].phase = "opening"
      <4>1. end[Client] \in EndType
        BY <1>2, Zenon DEF Shape, FlowTypeOK
      <4> QED
        BY <2>2, <3>1, <4>1, Zenon DEF Calm, ClientClosed, EndType
    <3>4. end[c].phase = "opening"
      BY <1>1, <2>2, <3>1, <3>3, Zenon DEF Calm, EntryStays, ClientOpening
    <3> QED
      BY <3>1, <3>2, <3>4, Zenon
  <2> QED
    BY <2>1, <2>2, Zenon DEF Known
<1> QED
  BY <1>8, <1>10, <1>12, <1>15, <1>16, <1>18, Zenon DEF Live

-----------------------------------------------------------------------------
\* Live is kept by the other steps.

\* A segment of x that a CPU takes up.
LEMMA TakesOne ==
    ASSUME Shape, NEW p \in Cpus, NEW x \in Ends, Takes(p, x), Alone(p)
    PROVE  /\ Head(wire[x]) \in Range(wire[x]) /\ Head(wire[x]) \in SegmentType
           /\ segment'[p] # None /\ segment'[p].from = x /\ segment'[p].seg = Head(wire[x])
           /\ \A y \in Ends : Range(wire'[y]) \subseteq Range(wire[y])
           /\ Range(wire[x]) = Range(wire'[x]) \cup {Head(wire[x])}
           /\ \A y \in Ends \ {x} : wire'[y] = wire[y]
           /\ wire[x] \in Seq(SegmentType) /\ wire'[x] = Tail(wire[x])
           /\ \A q \in Cpus : segment[q] # None => q # p /\ cpu'[q] = cpu[q] /\ segment'[q] = segment[q]
           /\ \A q \in Cpus \ {p} : cpu'[q] = cpu[q] /\ segment'[q] = segment[q]
<1>1. wire[x] # <<>> /\ wire' = [wire EXCEPT ![x] = Tail(@)] /\ segment[p] = None
      /\ segment'[p] = [from |-> x, seg |-> Head(wire[x])]
  BY Zenon DEF Takes
<1>2. /\ Head(wire[x]) \in SegmentType
      /\ wire[x] \in Seq(SegmentType) /\ wire'[x] = Tail(wire[x])
      /\ Range(wire[x]) = Range(wire'[x]) \cup {Head(wire[x])}
      /\ \A y \in Ends \ {x} : wire'[y] = wire[y]
      /\ \A y \in Ends : Range(wire'[y]) \subseteq Range(wire[y])
  BY <1>1, TailOne, Zenon
<1>3. [from |-> x, seg |-> Head(wire[x])] \in PacketType
  BY <1>2, Zenon DEF PacketType
<1> QED
  BY <1>1, <1>2, <1>3, Basics DEF Alone

\* Taking a segment off the wire leaves only plain ones on the wires and in hand.
LEMMA PlainTakes ==
    ASSUME NoFin, NEW p \in Cpus, NEW x, Plain(x, segment'[p].seg), segment'[p].from = x,
           \A y \in Ends : Range(wire'[y]) \subseteq Range(wire[y]),
           \A q \in Cpus \ {p} : segment'[q] = segment[q]
    PROVE  /\ \A y \in Ends : \A s \in Range(wire'[y]) : Plain(y, s)
           /\ \A q \in Cpus : segment'[q] # None => Plain(segment'[q].from, segment'[q].seg)
<1>1. \A y \in Ends : \A s \in Range(wire'[y]) : Plain(y, s)
  <2> SUFFICES ASSUME NEW y \in Ends, NEW s \in Range(wire'[y]) PROVE Plain(y, s)
    BY Zenon
  <2>1. s \in Range(wire[y])
    BY Zenon
  <2> QED
    BY <2>1, Zenon DEF NoFin
<1>2. \A q \in Cpus : segment'[q] # None => Plain(segment'[q].from, segment'[q].seg)
  <2> SUFFICES ASSUME NEW q \in Cpus, segment'[q] # None
               PROVE  Plain(segment'[q].from, segment'[q].seg)
    BY Zenon
  <2>1. CASE q = p
    BY <2>1, Zenon
  <2>2. CASE q # p
    BY <2>2, Zenon DEF NoFin
  <2> QED
    BY <2>1, <2>2, Zenon
<1> QED
  BY <1>1, <1>2, Zenon

\* The client's segment arrives.
LEMMA LiveTakesClient ==
    ASSUME Shape, Live, NEW p \in Cpus, TakesClient(p), Alone(p)
    PROVE  Live'
<1> DEFINE seg == Head(wire[Client])
<1>1. Client \in Ends /\ Client \notin Backends /\ Backends \subseteq Ends
  BY Basics, Zenon
<1>2. /\ end' = end /\ Conn' = Conn /\ segment[p] = None /\ wire[Client] # <<>>
      /\ \A q \in Cpus : ~From(q, Client)
  BY Zenon DEF TakesClient, Takes
<1>3. /\ seg \in Range(wire[Client]) /\ seg \in SegmentType
      /\ segment'[p] # None /\ segment'[p].from = Client /\ segment'[p].seg = seg
      /\ \A y \in Ends : Range(wire'[y]) \subseteq Range(wire[y])
      /\ Range(wire[Client]) = Range(wire'[Client]) \cup {seg}
      /\ \A y \in Ends \ {Client} : wire'[y] = wire[y]
      /\ wire[Client] \in Seq(SegmentType) /\ wire'[Client] = Tail(wire[Client])
      /\ \A q \in Cpus : segment[q] # None => q # p /\ cpu'[q] = cpu[q] /\ segment'[q] = segment[q]
      /\ \A q \in Cpus \ {p} : cpu'[q] = cpu[q] /\ segment'[q] = segment[q]
  BY <1>1, TakesOne, Zenon DEF TakesClient
<1>4. \/ /\ Conn # None /\ cpu'[p].lb_mapping = Conn /\ ~cpu'[p].new_conn
         /\ cpu'[p].pc = IF IsRst(seg) THEN "tcp_rst" ELSE "tcp_update"
      \/ /\ Conn = None /\ cpu'[p].lb_mapping = None /\ cpu'[p].new_conn
         /\ cpu'[p].pc = "tcp_backends"
  BY DEF TakesClient
<1> HIDE DEF seg
<1>5. NoFin'
  <2>1. Plain(Client, seg)
    BY <1>1, <1>3, Zenon DEF Live, NoFin
  <2>2. /\ \A y \in Ends : \A s \in Range(wire'[y]) : Plain(y, s)
        /\ \A q \in Cpus : segment'[q] # None => Plain(segment'[q].from, segment'[q].seg)
    <3>1. NoFin
      BY Zenon DEF Live
    <3> QED
      BY <1>3, <2>1, <3>1, PlainTakes, Zenon
  <2>3. \A q \in Cpus : cpu'[q].lb_mapping # None => cpu'[q].lb_mapping.tcp_state = "Established"
    <3>1. Conn # None => Conn.tcp_state = "Established"
      BY Zenon DEF Live, NoFin
    <3>2. \A q \in Cpus : cpu[q].lb_mapping # None => cpu[q].lb_mapping.tcp_state = "Established"
      BY Zenon DEF Live, NoFin
    <3>3. cpu'[p].lb_mapping # None => cpu'[p].lb_mapping.tcp_state = "Established"
      BY <1>4, <3>1, Zenon
    <3> QED
      BY <1>3, <3>2, <3>3, Zenon
  <2> QED
    BY <1>2, <2>2, <2>3, Zenon DEF Live, NoFin
<1>6. \A q \in Cpus : Tracking(q)'
  <2> SUFFICES ASSUME NEW q \in Cpus PROVE Tracking(q)'
    OBVIOUS
  <2>1. CASE q = p
    BY <1>2, <1>3, <1>4, <2>1, Zenon DEF Tracking
  <2>2. CASE q # p
    BY <1>2, <1>3, <2>2 DEF Tracking, From
  <2> QED
    BY <2>1, <2>2, Zenon
<1>7. OneEnd'
  BY <1>2, Zenon DEF Live, OneEnd, Resetting
<1>8. BackendRst' => BackendRst
  BY <1>1, <1>3, Zenon DEF BackendRst
<1>9. RstFromUnused'
  BY <1>2, <1>8, Zenon DEF Live, RstFromUnused
<1>10. SynsFirst'
  <2>1. SynFirst(Tail(wire[Client])) /\ (seg.kind # "SYN" => \A s \in Range(Tail(wire[Client])) : s.kind # "SYN")
    BY <1>2, <1>3, SynFirstTail, ZenonT(30) DEF Live, SynsFirst, seg
  <2> QED
    BY <1>2, <1>3, <2>1, ZenonT(30) DEF SynsFirst, From
<1>11. ClientSyn' => ClientSyn
  BY <1>2, <1>3 DEF ClientSyn, From
<1>12. SynIsAhead'
  BY <1>2, <1>8, <1>11, Zenon DEF Live, SynIsAhead
<1> QED
  BY <1>5, <1>6, <1>7, <1>9, <1>10, <1>12, Zenon DEF Live

\* A backend's segment arrives.
LEMMA LiveTakesBackend ==
    ASSUME Shape, Live, NEW p \in Cpus, NEW b \in Backends, TakesBackend(p, b), Alone(p)
    PROVE  Live'
<1> DEFINE seg == Head(wire[b])
<1>1. Client \in Ends /\ Client \notin Backends /\ Backends \subseteq Ends /\ b # Client /\ b \in Ends
  BY Basics, Zenon
<1>2. end' = end /\ Conn' = Conn /\ segment[p] = None
  BY Zenon DEF TakesBackend, Takes
<1>3. /\ seg \in Range(wire[b]) /\ seg \in SegmentType
      /\ segment'[p] # None /\ segment'[p].from = b /\ segment'[p].seg = seg
      /\ \A y \in Ends : Range(wire'[y]) \subseteq Range(wire[y])
      /\ \A y \in Ends \ {b} : wire'[y] = wire[y]
      /\ \A q \in Cpus : segment[q] # None => q # p /\ cpu'[q] = cpu[q] /\ segment'[q] = segment[q]
      /\ \A q \in Cpus \ {p} : cpu'[q] = cpu[q] /\ segment'[q] = segment[q]
  BY <1>1, TakesOne, Zenon DEF TakesBackend
<1>4. Conn # None /\ cpu'[p].lb_mapping = Conn
  BY Zenon DEF TakesBackend
<1> HIDE DEF seg
<1>5. NoFin'
  <2>1. Plain(b, seg)
    BY <1>1, <1>3, Zenon DEF Live, NoFin
  <2>2. /\ \A y \in Ends : \A s \in Range(wire'[y]) : Plain(y, s)
        /\ \A q \in Cpus : segment'[q] # None => Plain(segment'[q].from, segment'[q].seg)
    <3>1. NoFin
      BY Zenon DEF Live
    <3> QED
      BY <1>3, <2>1, <3>1, PlainTakes, Zenon
  <2>3. \A q \in Cpus : cpu'[q].lb_mapping # None => cpu'[q].lb_mapping.tcp_state = "Established"
    <3>1. Conn.tcp_state = "Established"
      BY <1>4, Zenon DEF Live, NoFin
    <3>2. \A q \in Cpus : cpu[q].lb_mapping # None => cpu[q].lb_mapping.tcp_state = "Established"
      BY Zenon DEF Live, NoFin
    <3> QED
      BY <1>3, <1>4, <3>1, <3>2, Zenon
  <2> QED
    BY <1>2, <2>2, <2>3, Zenon DEF Live, NoFin
<1>6. \A q \in Cpus : From(q, Client)' => q # p /\ From(q, Client)
  BY <1>1, <1>3, Zenon DEF From
<1>7. \A q \in Cpus : Tracking(q)'
  BY <1>2, <1>3, <1>6, Zenon DEF Live, Tracking
<1>8. OneEnd'
  BY <1>2, <1>3 DEF Live, OneEnd, Resetting, From
<1>9. BackendRst' => BackendRst
  BY <1>1, <1>3, Zenon DEF BackendRst
<1>10. RstFromUnused'
  BY <1>2, <1>9, Zenon DEF Live, RstFromUnused
<1>11. SynsFirst' /\ (ClientSyn' => ClientSyn)
  BY <1>1, <1>3, <1>6, Zenon DEF Live, SynsFirst, ClientSyn
<1>12. SynIsAhead'
  BY <1>2, <1>9, <1>11, Zenon DEF Live, SynIsAhead
<1> QED
  BY <1>5, <1>7, <1>8, <1>10, <1>11, <1>12, Zenon DEF Live

\* A wire loses its first segment.
LEMMA LiveLosesOne ==
    ASSUME Shape, Live, NEW x \in Ends, wire[x] # <<>>, wire' = [wire EXCEPT ![x] = Tail(@)],
           UNCHANGED <<end, segment, cpu>>, Conn' = Conn
    PROVE  Live'
<1>1. Client \in Ends /\ Backends \subseteq Ends
  BY Basics, Zenon
<1>2. /\ wire[x] \in Seq(SegmentType) /\ wire'[x] = Tail(wire[x])
      /\ \A y \in Ends \ {x} : wire'[y] = wire[y]
      /\ \A y \in Ends : Range(wire'[y]) \subseteq Range(wire[y])
  BY TailOne, Zenon
<1>3. NoFin' /\ \A p \in Cpus : Tracking(p)'
  BY <1>2, Zenon DEF Live, NoFin, Tracking, From
<1>4. OneEnd'
  BY DEF Live, OneEnd, Resetting, From
<1>5. (BackendRst' => BackendRst) /\ (ClientSyn' => ClientSyn)
  BY <1>1, <1>2, Zenon DEF BackendRst, ClientSyn, From
<1>6. RstFromUnused' /\ SynIsAhead'
  BY <1>5, Zenon DEF Live, RstFromUnused, SynIsAhead
<1>7. SynFirst(wire'[Client])
  <2>1. CASE x = Client
    BY <1>2, <2>1, SynFirstTail, Zenon DEF Live, SynsFirst
  <2>2. CASE x # Client
    BY <1>1, <1>2, <2>2, Zenon DEF Live, SynsFirst
  <2> QED
    BY <2>1, <2>2, Zenon
<1>8. SynsFirst'
  BY <1>1, <1>2, <1>7, Zenon DEF Live, SynsFirst, From
<1> QED
  BY <1>3, <1>4, <1>6, <1>8, Zenon DEF Live

\* A segment of an open or opening end: its kind, and the end's next phase.
Sendable(x, e, kind) ==
    /\ ~e.finSent /\ ~e.finAcked /\ ~e.finRcvd
    /\ kind # "FIN" /\ (IF x = Client THEN kind # "SYNACK" ELSE kind # "SYN")
    /\ kind = "SYN" => /\ e.phase = "opening"
                       /\ \A seg \in Range(wire[Client]) : seg.kind = "SYN"
                       /\ \A p \in Cpus : From(p, Client) => segment[p].seg.kind = "SYN"
    /\ kind # "SYN" => \/ kind \notin {"RST", "RSTACK"} /\ e.phase = end[x].phase
                       \/ end[x].phase = "open" /\ e.phase = "reset"

\* An end sends.
LEMMA LiveSends ==
    ASSUME Shape, Live, NEW x \in Ends, NEW e \in EndType, NEW kind \in Kinds,
           Sends(x, e, kind), Sendable(x, e, kind), UNCHANGED <<segment, cpu>>, Conn' = Conn
    PROVE  Live'
<1> DEFINE s == Segment(e, kind)
<1>1. /\ Client \in Ends /\ Backends \subseteq Ends /\ Client \notin Backends
      /\ x # Client => x \in Backends
  BY Basics
<1>2. /\ end'[x] = e /\ wire'[x] = Append(wire[x], s)
      /\ Range(wire'[x]) = Range(wire[x]) \cup {s}
      /\ \A y \in Ends \ {x} : end'[y] = end[y] /\ wire'[y] = wire[y]
  BY SendsOne, Zenon
<1>3. /\ s \in SegmentType /\ s.kind = kind /\ s.acksFin = e.finRcvd /\ e.finRcvd \in BOOLEAN
      /\ wire[x] \in Seq(SegmentType)
  BY SegmentIsOne, Zenon DEF EndType, Shape, FlowTypeOK
<1> HIDE DEF s
<1>4. Plain(x, s)
  BY <1>3, Zenon DEF Plain, Sendable
<1>5. NoFin'
  <2>1. \A y \in Ends : ~end'[y].finSent /\ ~end'[y].finAcked /\ ~end'[y].finRcvd
    BY <1>2, Zenon DEF Live, NoFin, Sendable
  <2>2. \A y \in Ends : \A seg \in Range(wire'[y]) : Plain(y, seg)
    BY <1>2, <1>4, Zenon DEF Live, NoFin
  <2> QED
    BY <2>1, <2>2, Zenon DEF Live, NoFin
<1>6. \A p \in Cpus : Tracking(p)'
  BY Zenon DEF Live, Tracking, From
<1>7. Conn # None => \A p \in Cpus, b \in Backends : ~Resetting(p, b)
  BY Zenon DEF Live, Tracking, Resetting
<1>8. x \in Backends => \/ end'[x].phase = end[x].phase
                        \/ end[x].phase = "open" /\ end'[x].phase = "reset"
  BY <1>1, <1>2, Zenon DEF Sendable
<1>9. OneEnd'
  BY <1>1, <1>2, <1>8 DEF Live, OneEnd, Resetting, From, Unused
<1>10. BackendRst' => BackendRst \/ (x \in Backends /\ IsRst(s))
  BY <1>1, <1>2, Zenon DEF BackendRst
<1>11. x \in Backends /\ IsRst(s) => end[x].phase = "open" /\ end'[x].phase = "reset"
  BY <1>1, <1>2, <1>3, Zenon DEF Sendable, IsRst
<1>12. x \in Backends /\ IsRst(s) /\ Conn # None => Conn.backend = x
  BY <1>7, <1>11, Zenon DEF Live, OneEnd, Unused
<1>13. Conn # None => Conn.backend \in Backends
  BY Basics, Zenon DEF Shape, Conn, Mapping
<1>14. RstFromUnused'
  <2> SUFFICES ASSUME BackendRst', Conn # None PROVE end'[Conn.backend].phase \in Unused
    BY Zenon DEF RstFromUnused
  <2>1. CASE BackendRst
    BY <1>1, <1>2, <1>8, <1>13, <2>1, Zenon DEF Live, RstFromUnused, Unused
  <2>2. CASE x \in Backends /\ IsRst(s)
    BY <1>11, <1>12, <2>2, Zenon DEF Unused
  <2> QED
    BY <1>10, <2>1, <2>2, Zenon
<1>15. SynFirst(wire'[Client])
  <2>1. CASE x = Client
    <3>1. SynFirst(wire[x]) /\ (s.kind = "SYN" => \A seg \in Range(wire[x]) : seg.kind = "SYN")
      BY <1>3, <2>1, Zenon DEF Live, SynsFirst, Sendable
    <3>2. SynFirst(Append(wire[x], s))
      BY <1>3, <3>1, SynFirstAppend, Zenon
    <3> QED
      BY <1>2, <2>1, <3>2, Zenon
  <2>2. CASE x # Client
    BY <1>1, <1>2, <2>2, Zenon DEF Live, SynsFirst
  <2> QED
    BY <2>1, <2>2, Zenon
<1>16. SynsFirst'
  BY <1>1, <1>2, <1>3, <1>15, Zenon DEF Live, SynsFirst, Sendable, From
<1>17. SynIsAhead'
  <2> SUFFICES ASSUME ClientSyn', end'[Client].phase \in {"open", "reset"}
               PROVE  Conn # None /\ end'[Conn.backend].phase = "opening" /\ ~BackendRst'
    BY Zenon DEF SynIsAhead
  <2>1. kind # "SYN"
    BY <1>1, <1>2, Zenon DEF Sendable
  <2>2. ClientSyn
    BY <1>1, <1>2, <1>3, <2>1, Zenon DEF ClientSyn, From
  <2>3. end[Client].phase \in {"open", "reset"}
    BY <1>1, <1>2, <2>1, Zenon DEF Sendable
  <2>4. Conn # None /\ end[Conn.backend].phase = "opening" /\ ~BackendRst
    BY <2>2, <2>3, Zenon DEF Live, SynIsAhead
  <2> QED
    BY <1>1, <1>2, <1>8, <1>10, <1>11, <1>12, <1>13, <2>4, Zenon
<1> QED
  BY <1>5, <1>6, <1>9, <1>14, <1>16, <1>17, Zenon DEF Live

\* The state that an end has after it sends is one.
LEMMA EndStates ==
    ASSUME Shape, NEW x \in Ends
    PROVE  /\ end[x] \in EndType /\ [Closed EXCEPT !.phase = "opening"] \in EndType
           /\ [end[x] EXCEPT !.finSent = TRUE] \in EndType
           /\ [end[x] EXCEPT !.phase = "reset"] \in EndType
  BY Zenon DEF Shape, FlowTypeOK, EndType, Closed

\* The ends' steps keep the shape.
LEMMA EndsShape ==
    ASSUME Shape, EndsNext, UNCHANGED <<mapVars, cpu>>
    PROVE  Shape' /\ segment' = segment /\ Conn' = Conn
<1>1. Client \in Ends
  BY Basics, Zenon
<1>2. segment' = segment
  BY Zenon DEF EndsNext, Connect, Send, Close, Abort, Retransmit, Forget, Lose
<1>3. end' \in [Ends -> EndType] /\ wire' \in [Ends -> Seq(SegmentType)]
  <2>1. ASSUME Connect
        PROVE  end' \in [Ends -> EndType] /\ wire' \in [Ends -> Seq(SegmentType)]
    <3>1. Sends(Client, [Closed EXCEPT !.phase = "opening"], "SYN") /\ "SYN" \in Kinds
      BY <2>1, Zenon DEF Connect, Kinds
    <3> QED
      BY <1>1, <3>1, EndStates, SendsOne, Zenon
  <2>2. ASSUME NEW x \in Ends, Send(x) \/ Close(x) \/ Abort(x) \/ Retransmit(x)
        PROVE  end' \in [Ends -> EndType] /\ wire' \in [Ends -> Seq(SegmentType)]
    <3>1. \E e \in EndType, kind \in Kinds : Sends(x, e, kind)
      <4>1. "DATA" \in Kinds /\ "FIN" \in Kinds /\ "RSTACK" \in Kinds /\ "SYN" \in Kinds /\ "SYNACK" \in Kinds
        BY Zenon DEF Kinds
      <4> QED
        BY <2>2, <4>1, EndStates, Zenon DEF Send, Close, Abort, Retransmit
    <3> QED
      BY <3>1, SendsOne, Zenon
  <2>3. ASSUME NEW x \in Ends, Forget(x)
        PROVE  end' \in [Ends -> EndType] /\ wire' \in [Ends -> Seq(SegmentType)]
    <3>1. Closed \in EndType
      BY Zenon DEF Closed, EndType
    <3> QED
      BY <2>3, <3>1, Zenon DEF Forget, Shape, FlowTypeOK
  <2>4. ASSUME NEW x \in Ends, Lose(x)
        PROVE  end' \in [Ends -> EndType] /\ wire' \in [Ends -> Seq(SegmentType)]
    <3>1. wire[x] # <<>> /\ wire' = [wire EXCEPT ![x] = Tail(@)] /\ end' = end
      BY <2>4, Zenon DEF Lose
    <3> QED
      BY <3>1, TailOne, Zenon DEF Shape, FlowTypeOK
  <2> QED
    BY <2>1, <2>2, <2>3, <2>4, Zenon DEF EndsNext
<1> QED
  BY <1>2, <1>3, ShapeOfEnds, Zenon DEF mapVars, Conn

\* The ends' steps before a FIN.
LEMMA LiveEnds ==
    ASSUME Shape, Live, Known, EndsNext, UNCHANGED <<mapVars, cpu>>, "fin" \notin history'
    PROVE  Live'
<1>1. Client \in Ends
  BY Basics, Zenon
<1>2. UNCHANGED <<segment, cpu>> /\ Conn' = Conn
  BY EndsShape, Zenon
<1>3. \A x \in Ends : end[x] \in EndType /\ ~end[x].finSent /\ ~end[x].finAcked /\ ~end[x].finRcvd
  BY EndStates, Zenon DEF Live, NoFin
<1>4. CASE Connect
  <2> DEFINE e == [Closed EXCEPT !.phase = "opening"]
  <2>1. Sends(Client, e, "SYN") /\ "SYN" \in Kinds /\ end[Client].phase = "closed"
    BY <1>4, Zenon DEF Connect, Kinds
  <2>2. wire[Client] = <<>> /\ \A p \in Cpus : ~From(p, Client)
    BY <2>1 DEF Known, Calm, ClientClosed
  <2>3. e.phase = "opening" /\ ~e.finSent /\ ~e.finAcked /\ ~e.finRcvd /\ e \in EndType
    BY Zenon DEF Closed, EndType
  <2> HIDE DEF e
  <2>4. Sendable(Client, e, "SYN")
    BY <2>2, <2>3, EmptyRange, Zenon DEF Sendable
  <2> QED
    BY <1>1, <1>2, <2>1, <2>3, <2>4, LiveSends, Zenon
<1>5. CASE \E x \in Ends : Send(x)
  <2>1. PICK x \in Ends : Send(x)
    BY <1>5, Zenon
  <2>2. Sends(x, end[x], "DATA") /\ "DATA" \in Kinds
    BY <2>1, Zenon DEF Send, Kinds
  <2>3. Sendable(x, end[x], "DATA")
    BY <1>3, Zenon DEF Sendable
  <2> QED
    BY <1>2, <1>3, <2>2, <2>3, LiveSends, Zenon
<1>6. CASE \E x \in Ends : Abort(x)
  <2>1. PICK x \in Ends : Abort(x)
    BY <1>6
  <2> DEFINE e == [end[x] EXCEPT !.phase = "reset"]
  <2>2. Sends(x, e, "RSTACK") /\ "RSTACK" \in Kinds /\ end[x].phase = "open"
    BY <2>1, Zenon DEF Abort, Kinds
  <2>3. e \in EndType /\ e.phase = "reset" /\ ~e.finSent /\ ~e.finAcked /\ ~e.finRcvd
    BY <1>3, Zenon DEF EndType
  <2> HIDE DEF e
  <2>4. Sendable(x, e, "RSTACK")
    BY <2>2, <2>3, Zenon DEF Sendable
  <2> QED
    BY <1>2, <2>2, <2>3, <2>4, LiveSends, Zenon
<1>7. CASE \E x \in Ends : Retransmit(x)
  <2>1. PICK x \in Ends : Retransmit(x)
    BY <1>7
  <2> DEFINE kind == IF x = Client THEN "SYN" ELSE "SYNACK"
  <2>2. end[x].phase = "opening" /\ Sends(x, end[x], kind)
    BY <1>3, <2>1, Zenon DEF Retransmit
  <2>3. kind \in Kinds
    BY Zenon DEF Kinds
  <2>4. x = Client => /\ \A seg \in Range(wire[Client]) : seg.kind = "SYN"
                      /\ \A p \in Cpus : From(p, Client) => segment[p].seg.kind = "SYN"
    BY <2>2, Zenon DEF Known, Calm, ClientOpening, From
  <2>5. Sendable(x, end[x], kind)
    BY <1>3, <2>2, <2>4, Zenon DEF Sendable
  <2> QED
    BY <1>2, <1>3, <2>2, <2>3, <2>5, LiveSends, Zenon
<1>8. CASE \E x \in Ends : Lose(x)
  <2>1. PICK x \in Ends : Lose(x)
    BY <1>8
  <2>2. wire[x] # <<>> /\ wire' = [wire EXCEPT ![x] = Tail(@)] /\ UNCHANGED end
    BY <2>1, Zenon DEF Lose
  <2> QED
    BY <1>2, <2>2, LiveLosesOne, Zenon
<1>9. ASSUME NEW x \in Ends PROVE ~Close(x) /\ ~Forget(x)
  BY <1>3 DEF Close, Note, Forget, Done
<1> QED
  BY <1>4, <1>5, <1>6, <1>7, <1>8, <1>9, Zenon DEF EndsNext

=============================================================================
