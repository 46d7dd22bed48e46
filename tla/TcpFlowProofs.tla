--------------------------- MODULE TcpFlowProofs ----------------------------
(***************************************************************************)
(* The invariants of TcpFlow.  TcpFlowInvariant has the inductive          *)
(* invariant and shows Shape and Live kept; the other three parts follow   *)
(* here, and the theorems.                                                 *)
(***************************************************************************)
EXTENDS TcpFlowInvariant

-----------------------------------------------------------------------------
\* Calm is kept.

\* A CPU that has nothing in hand afterwards has no segment of anyone.
LEMMA Gone ==
    ASSUME Shape, NEW p \in Cpus, Alone(p), segment'[p] = None
    PROVE  /\ \A q \in Cpus : segment'[q] # None => q # p /\ segment'[q] = segment[q] /\ cpu'[q] = cpu[q]
           /\ \A q \in Cpus : \A x : From(q, x)' => q # p /\ From(q, x)
           /\ \A x \in Ends : From(p, x) => \A q \in Cpus : ~From(q, x)'
<1>1. \A q \in Cpus : segment'[q] # None => q # p /\ segment'[q] = segment[q] /\ cpu'[q] = cpu[q]
  BY DEF Alone
<1>2. \A q \in Cpus : \A x : From(q, x)' => q # p /\ From(q, x)
  BY <1>1 DEF From
<1> QED
  BY <1>1, <1>2, Zenon DEF Shape

\* A new connection's segment gets a backend, or goes no further.
LEMMA CalmChoose ==
    ASSUME Shape, Live, Calm, NEW p \in Cpus, cpu[p].pc # "idle", Alone(p), history' = history,
           ChooseStep(p) \/ DropStep(p)
    PROVE  Calm'
<1>1. end' = end /\ wire' = wire /\ Conn = None /\ Conn' = None /\ From(p, Client)
  BY LiveSteps, Zenon DEF Live, ChooseStep, DropStep
<1>2. end[Client].phase # "open"
  BY <1>1 DEF Calm, EntryStays
<1>3. \A q \in Cpus : segment'[q] = segment[q] \/ segment'[q] = None
  BY Zenon DEF Alone, ChooseStep, DropStep, Finishes
<1>4. \A q \in Cpus, x \in Ends : From(q, x)' => From(q, x)
  BY <1>3 DEF From
<1>5. \A q \in Cpus : From(q, Client)' => cpu'[q].new_conn
  <2>1. \A q \in Cpus : From(q, Client) => q = p
    BY <1>1, Basics, Zenon DEF Shape
  <2>2. ChooseStep(p) => cpu'[p].new_conn
    BY Zenon DEF ChooseStep
  <2>3. DropStep(p) => ~From(p, Client)'
    BY DEF DropStep, Finishes, From
  <2> QED
    BY <1>4, <2>1, <2>2, <2>3, Basics, Zenon
<1>6. NoRst' /\ ClientOpening'
  BY <1>1, <1>3, Zenon DEF Calm, NoRst, ClientOpening
<1>7. ClientClosed' /\ OthersUnused'
  BY <1>1, <1>4, Basics, Zenon DEF Calm, ClientClosed, OthersUnused
<1>8. EntryStays' /\ AckUnderWay'
  BY <1>1, <1>2, <1>5, Zenon DEF Calm, EntryStays, AckUnderWay
<1> QED
  BY <1>6, <1>7, <1>8, Zenon DEF Calm

\* The client's segment reaches the entry's backend.
LEMMA CalmForward ==
    ASSUME Shape, Live, Calm, NEW p \in Cpus, cpu[p].pc # "idle", Alone(p), history' = history,
           ForwardStep(p)
    PROVE  Calm'
<1> DEFINE b == cpu[p].lb_mapping.backend
           seg == segment[p].seg
<1>1. /\ From(p, Client) /\ segment'[p] = None /\ ~cpu[p].new_conn
      /\ Conn' = Conn /\ Deliver(p, b) /\ segment[p] # None /\ segment[p].from = Client
  BY LiveSteps, Zenon DEF Live, ForwardStep, Finishes, From
<1>2. Conn # None /\ Conn.backend = b /\ ~IsRst(seg)
  BY <1>1, Zenon DEF Calm, EntryStays, Live, Tracking, NoRst
<1>3. b \in Backends /\ b \in Ends /\ b # Client /\ Client \in Ends /\ Backends \subseteq Ends
  BY <1>2, Basics, Zenon DEF Shape, Conn, Mapping
<1>4. /\ Reacts(b, seg)
      /\ \A y \in Ends \ {b} : end'[y] = end[y] /\ wire'[y] = wire[y]
      /\ \A y \in Ends : Range(wire[y]) \subseteq Range(wire'[y])
  BY <1>1, <1>3, LiveDeliver, Zenon DEF Live
<1>5. end[b].phase \in {"opening", "open"}
  BY <1>2, Zenon DEF Calm, EntryStays
<1>6. end[Client].phase = "opening" => seg.kind = "SYN" /\ end[b].phase = "opening"
  BY <1>1, <1>3, <1>5, Zenon DEF Calm, ClientOpening
<1>7. end[Client].phase # "closed"
  BY <1>1, Zenon DEF Calm, ClientClosed
<1> HIDE DEF b, seg
<1>8. \/ seg.kind = "SYN" /\ end[b].phase = "opening" /\ end'[b].phase = "opening" /\ Answers(b, {"SYNACK"})
      \/ /\ ~(seg.kind = "SYN" /\ end[b].phase = "opening")
         /\ end'[b].phase = "open" /\ (Answers(b, {"ACK"}) \/ wire' = wire)
  BY <1>2, <1>3, <1>4, <1>5, Zenon DEF Reacts, Unused
<1>9. /\ \A q \in Cpus : segment'[q] # None => q # p /\ segment'[q] = segment[q] /\ cpu'[q] = cpu[q]
      /\ \A q \in Cpus : \A x : From(q, x)' => q # p /\ From(q, x)
      /\ \A q \in Cpus : ~From(q, Client)'
  BY <1>1, <1>3, Gone, Zenon
<1>10. NoRst'
  <2>1. \A s \in Range(wire'[b]) : ~IsRst(s)
    BY <1>3, <1>8, Zenon DEF Calm, NoRst, Answers, IsRst
  <2> QED
    BY <1>3, <1>4, <1>8, <1>9, <2>1, Zenon DEF Calm, NoRst
<1>11. ClientClosed' /\ EntryStays'
  BY <1>1, <1>2, <1>3, <1>4, <1>7, <1>8, <1>9, Zenon DEF ClientClosed, EntryStays
<1>12. OthersUnused'
  BY <1>1, <1>2, <1>3, <1>4, <1>9 DEF Calm, OthersUnused
<1>13. ClientOpening'
  <2> SUFFICES ASSUME end[Client].phase = "opening" PROVE ClientOpening'
    BY <1>3, <1>4, Zenon DEF ClientOpening
  <2>1. end'[b].phase = "opening" /\ Answers(b, {"SYNACK"})
    BY <1>6, <1>8, Zenon
  <2>2. \A s \in Range(wire'[b]) : s.kind = "SYNACK"
    BY <1>3, <2>1, Zenon DEF Answers, Calm, ClientOpening
  <2> QED
    BY <1>3, <1>4, <1>9, <2>1, <2>2 DEF Calm, ClientOpening
<1>14. AckUnderWay'
  <2> SUFFICES ASSUME end[Client].phase = "open", end'[b].phase = "opening", history = {}
               PROVE  \E s \in Range(wire'[Client]) : s.kind # "SYN"
    BY <1>1, <1>2, <1>3, <1>4, Zenon DEF AckUnderWay
  <2>1. seg.kind = "SYN" /\ end[b].phase = "opening"
    BY <1>8, Zenon
  <2>2. \A q \in Cpus : From(q, Client) => q = p
    BY <1>1, <1>3, Zenon DEF Shape
  <2> QED
    BY <1>2, <1>3, <1>4, <2>1, <2>2, Zenon DEF Calm, AckUnderWay, seg
<1> QED
  BY <1>10, <1>11, <1>12, <1>13, <1>14, Zenon DEF Calm

\* The first SYN to get through creates the entry, and opens the backend's end.
LEMMA CalmRecord ==
    ASSUME Shape, Live, Calm, NEW p \in Cpus, cpu[p].pc # "idle", Alone(p), history' = history,
           RecordStep(p)
    PROVE  Calm'
<1> DEFINE b == cpu[p].lb_mapping.backend
           seg == segment[p].seg
<1>1. /\ From(p, Client) /\ segment'[p] = None /\ Conn = None /\ Conn' = cpu[p].lb_mapping /\ Conn' # None
      /\ Deliver(p, b) /\ segment[p] # None /\ segment[p].from = Client
  BY LiveSteps DEF Live, RecordStep, Finishes, From
<1>2. /\ b \in Backends /\ b \in Ends /\ b # Client /\ Conn'.backend = b
      /\ Client \in Ends /\ Backends \subseteq Ends
  BY <1>1, Busy, Basics, Zenon DEF IngressOK, Mapping, RecordStep
<1>3. /\ Reacts(b, seg)
      /\ \A y \in Ends \ {b} : end'[y] = end[y] /\ wire'[y] = wire[y]
  BY <1>1, <1>2, LiveDeliver, Zenon DEF Live
<1>4. end[Client].phase = "opening"
  <2>1. end[Client] \in EndType
    BY <1>2, Zenon DEF Shape, FlowTypeOK
  <2> QED
    BY <1>1, <1>2, <2>1, Zenon DEF Calm, ClientClosed, EntryStays, NoRst, EndType
<1>5. seg.kind = "SYN"
  BY <1>1, <1>4, Zenon DEF Calm, ClientOpening
<1>6. \A c \in Backends : end[c].phase = "closed" /\ wire[c] = <<>> /\ (\A q \in Cpus : ~From(q, c))
  BY <1>1, Zenon DEF Calm, OthersUnused
<1> HIDE DEF b, seg
<1>7. end'[b].phase = "opening" /\ Answers(b, {"SYNACK"})
  BY <1>2, <1>3, <1>5, <1>6, Zenon DEF Reacts, IsRst
<1>8. \A s \in Range(wire'[b]) : s.kind = "SYNACK"
  BY <1>2, <1>4, <1>7, Zenon DEF Answers, Calm, ClientOpening
<1>9. /\ \A q \in Cpus : segment'[q] # None => q # p /\ segment'[q] = segment[q] /\ cpu'[q] = cpu[q]
      /\ \A q \in Cpus : \A x : From(q, x)' => q # p /\ From(q, x)
      /\ \A q \in Cpus : ~From(q, Client)'
  BY <1>1, <1>2, Gone, Zenon
<1>10. NoRst'
  BY <1>2, <1>3, <1>7, <1>8, <1>9, Zenon DEF Calm, NoRst, IsRst
<1>11. ClientClosed' /\ AckUnderWay'
  BY <1>2, <1>3, <1>4, Zenon DEF ClientClosed, AckUnderWay
<1>12. EntryStays'
  BY <1>1, <1>2, <1>7, <1>9, Zenon DEF EntryStays
<1>13. OthersUnused'
  BY <1>1, <1>2, <1>3, <1>6, <1>9 DEF OthersUnused
<1>14. ClientOpening'
  BY <1>2, <1>3, <1>4, <1>7, <1>8, <1>9 DEF Calm, ClientOpening
<1> QED
  BY <1>10, <1>11, <1>12, <1>13, <1>14, Zenon DEF Calm

\* The SYNACK opens the client's end, and later segments leave it open.
LEMMA CalmReply ==
    ASSUME Shape, Live, Calm, NEW p \in Cpus, cpu[p].pc # "idle", Alone(p), history' = history,
           ReplyStep(p)
    PROVE  Calm'
<1> DEFINE c == segment[p].from
           seg == segment[p].seg
<1>1. /\ segment[p] # None /\ c \in Backends /\ segment'[p] = None
      /\ Deliver(p, Client) /\ Conn' = Conn /\ From(p, c)
  BY LiveSteps, Zenon DEF Live, ReplyStep, Finishes, From
<1>2. Client \in Ends /\ c # Client /\ Backends \subseteq Ends /\ Client \notin Backends
  BY <1>1, Basics, Zenon
<1>3. /\ Reacts(Client, seg)
      /\ \A y \in Ends \ {Client} : end'[y] = end[y] /\ wire'[y] = wire[y]
      /\ \A y \in Ends : Range(wire[y]) \subseteq Range(wire'[y])
  BY <1>1, <1>2, LiveDeliver, Zenon DEF Live
<1>4. Conn # None /\ Conn.backend = c /\ ~IsRst(seg)
  BY <1>1, Zenon DEF Calm, OthersUnused, NoRst
<1>5. end[Client].phase \in {"opening", "open"} /\ (end[Client].phase = "opening" => seg.kind = "SYNACK")
  <2>1. end[Client] \in EndType
    BY <1>2, Zenon DEF Shape, FlowTypeOK
  <2> QED
    BY <1>1, <1>2, <1>4, <2>1, Zenon DEF Calm, ClientClosed, ClientOpening, NoRst, EndType
<1> HIDE DEF seg
<1>6. end'[Client].phase = "open" /\ (Answers(Client, {"ACK"}) \/ (seg.kind = "ACK" /\ wire' = wire))
  BY <1>4, <1>5, <1>3, Zenon DEF Reacts, Unused
<1>7. /\ \A q \in Cpus : segment'[q] # None => q # p /\ segment'[q] = segment[q] /\ cpu'[q] = cpu[q]
      /\ \A q \in Cpus : \A x : From(q, x)' => q # p /\ From(q, x)
  BY <1>1, <1>2, Gone, Zenon
<1>8. NoRst'
  <2>1. \A s \in Range(wire'[Client]) : ~IsRst(s)
    BY <1>2, <1>6, Zenon DEF Calm, NoRst, Answers, IsRst
  <2> QED
    BY <1>2, <1>3, <1>6, <1>7, <2>1, Zenon DEF Calm, NoRst
<1>9. ClientClosed' /\ ClientOpening'
  BY <1>6, Zenon DEF ClientClosed, ClientOpening
<1>10. EntryStays' /\ OthersUnused'
  BY <1>1, <1>2, <1>3, <1>4, <1>7, ZenonT(30) DEF Calm, EntryStays, OthersUnused
<1>11. AckUnderWay'
  <2> SUFFICES ASSUME end'[c].phase = "opening", history = {}
               PROVE  \/ \E s \in Range(wire'[Client]) : s.kind # "SYN"
                      \/ \E q \in Cpus : From(q, Client)' /\ segment'[q].seg.kind # "SYN"
    BY <1>1, <1>4, Zenon DEF AckUnderWay
  <2>1. CASE Answers(Client, {"ACK"})
    BY <2>1, Zenon DEF Answers
  <2>2. CASE end[Client].phase = "open"
    <3>1. end[c].phase = "opening"
      BY <1>1, <1>2, <1>3, Zenon
    <3>2. \/ \E s \in Range(wire[Client]) : s.kind # "SYN"
          \/ \E q \in Cpus : From(q, Client) /\ segment[q].seg.kind # "SYN"
      BY <1>4, <2>2, <3>1, Zenon DEF Calm, AckUnderWay
    <3> QED
      BY <1>1, <1>2, <1>3, <3>2 DEF From, Alone
  <2>3. CASE end[Client].phase = "opening"
    BY <1>5, <1>6, <2>1, <2>3, Zenon
  <2> QED
    BY <1>5, <2>2, <2>3, Zenon
<1> QED
  BY <1>8, <1>9, <1>10, <1>11, Zenon DEF Calm

\* Nothing is unlinked.
LEMMA CalmHandle ==
    ASSUME Shape, Live, Calm, NEW p \in Cpus, Handle(p)
    PROVE  Calm'
<1>1. /\ Alone(p) /\ history' = history /\ cpu[p].pc # "idle"
      /\ \/ ChooseStep(p) \/ DropStep(p) \/ UnlinkStep(p)
         \/ ForwardStep(p) \/ RecordStep(p) \/ ReplyStep(p)
  BY HandleOutcome, Zenon DEF Alone
<1>2. ~UnlinkStep(p)
  BY <1>1, LiveSteps, LiveBusy, Zenon DEF Live, Calm, NoRst
<1> QED
  BY <1>1, <1>2, CalmChoose, CalmForward, CalmRecord, CalmReply, Zenon

\* The client's segment arrives.
LEMMA CalmTakesClient ==
    ASSUME Shape, Live, Calm, NEW p \in Cpus, TakesClient(p), Alone(p)
    PROVE  Calm'
<1> DEFINE seg == Head(wire[Client])
<1>1. Client \in Ends /\ Client \notin Backends /\ Backends \subseteq Ends
  BY Basics, Zenon
<1>2. /\ end' = end /\ Conn' = Conn /\ history' = history /\ wire[Client] # <<>>
      /\ \A q \in Cpus : ~From(q, Client)
  BY Zenon DEF TakesClient, Takes
<1>3. /\ seg \in Range(wire[Client])
      /\ segment'[p] # None /\ segment'[p].from = Client /\ segment'[p].seg = seg
      /\ Range(wire[Client]) = Range(wire'[Client]) \cup {seg}
      /\ \A y \in Ends \ {Client} : wire'[y] = wire[y]
      /\ \A q \in Cpus \ {p} : cpu'[q] = cpu[q] /\ segment'[q] = segment[q]
  BY <1>1, TakesOne, Zenon DEF TakesClient
<1>4. ~cpu'[p].new_conn => Conn # None
  BY Zenon DEF TakesClient
<1> HIDE DEF seg
<1>5. end[Client].phase # "closed"
  BY <1>2, Zenon DEF Calm, ClientClosed
<1>6. NoRst' /\ ClientOpening'
  BY <1>1, <1>2, <1>3 DEF Calm, NoRst, ClientOpening
<1>7. ClientClosed' /\ EntryStays'
  BY <1>2, <1>3, <1>4, <1>5, ZenonT(30) DEF Calm, ClientClosed, EntryStays, From
<1>8. OthersUnused'
  BY <1>1, <1>2, <1>3 DEF Calm, OthersUnused, From
<1>9. AckUnderWay'
  BY <1>1, <1>2, <1>3, Zenon DEF Calm, AckUnderWay, From
<1> QED
  BY <1>6, <1>7, <1>8, <1>9, Zenon DEF Calm

\* A backend's segment arrives: it is the entry's backend's.
LEMMA CalmTakesBackend ==
    ASSUME Shape, Live, Calm, NEW p \in Cpus, NEW b \in Backends, TakesBackend(p, b), Alone(p)
    PROVE  Calm'
<1> DEFINE seg == Head(wire[b])
<1>1. Client \in Ends /\ Client \notin Backends /\ Backends \subseteq Ends /\ b # Client /\ b \in Ends
  BY Basics, Zenon
<1>2. end' = end /\ Conn' = Conn /\ history' = history /\ wire[b] # <<>>
  BY Zenon DEF TakesBackend, Takes
<1>3. /\ seg \in Range(wire[b])
      /\ segment'[p] # None /\ segment'[p].from = b /\ segment'[p].seg = seg
      /\ \A y \in Ends : Range(wire'[y]) \subseteq Range(wire[y])
      /\ \A y \in Ends \ {b} : wire'[y] = wire[y]
      /\ \A q \in Cpus : segment[q] # None => q # p /\ cpu'[q] = cpu[q] /\ segment'[q] = segment[q]
      /\ \A q \in Cpus \ {p} : cpu'[q] = cpu[q] /\ segment'[q] = segment[q]
  BY <1>1, TakesOne, Zenon DEF TakesBackend
<1> HIDE DEF seg
<1>4. Conn # None /\ Conn.backend = b
  BY <1>2, Zenon DEF Calm, OthersUnused
<1>5. NoRst' /\ ClientOpening'
  BY <1>1, <1>2, <1>3 DEF Calm, NoRst, ClientOpening
<1>6. \A q \in Cpus : From(q, Client)' <=> q # p /\ From(q, Client)
  BY <1>1, <1>3, Zenon DEF From
<1>7. ClientClosed' /\ EntryStays'
  BY <1>1, <1>2, <1>3, <1>4, <1>6, Zenon DEF Calm, ClientClosed, EntryStays
<1>8. OthersUnused'
  BY <1>1, <1>2, <1>3, <1>4, Zenon DEF Calm, OthersUnused, From
<1>9. AckUnderWay'
  BY <1>1, <1>2, <1>3, ZenonT(30) DEF Calm, AckUnderWay, From
<1> QED
  BY <1>5, <1>7, <1>8, <1>9, Zenon DEF Calm

\* An end sends: a SYN while the client is opening, a SYNACK while the backend is, and
\* data once both ends are past that.
LEMMA CalmSends ==
    ASSUME Shape, Live, Calm, NEW x \in Ends, NEW e \in EndType, NEW kind \in Kinds,
           Sends(x, e, kind), UNCHANGED <<segment, cpu>>, Conn' = Conn,
           \/ kind = "DATA" /\ e = end[x] /\ e.phase = "open" /\ (history' = {} => history = {})
           \/ kind = "SYNACK" /\ e = end[x] /\ e.phase = "opening" /\ x # Client /\ history' # {}
           \/ kind = "SYN" /\ e.phase = "opening" /\ x = Client /\ end[x].phase \in {"closed", "opening"}
    PROVE  Calm'
<1> DEFINE s == Segment(e, kind)
<1>1. /\ Client \in Ends /\ Backends \subseteq Ends /\ Client \notin Backends
      /\ x # Client => x \in Backends
  BY Basics, Zenon
<1>2. /\ end'[x] = e /\ Range(wire'[x]) = Range(wire[x]) \cup {s}
      /\ \A y \in Ends \ {x} : end'[y] = end[y] /\ wire'[y] = wire[y]
  BY SendsOne, Zenon
<1>3. s.kind = kind
  BY SegmentIsOne, Zenon
<1> HIDE DEF s
<1>4. x # Client => Conn # None /\ Conn.backend = x
  BY <1>1, Zenon DEF Calm, OthersUnused
<1>5. x # Client => end[x].phase = e.phase /\ (e.phase = "open" => end[Client].phase # "opening")
  BY <1>1, Zenon DEF Calm, ClientOpening
<1>6. x = Client => e.phase # "closed" /\ (e.phase = "open" => end[Client].phase = "open")
  BY Zenon
<1>7. e.phase \in {"opening", "open"}
  BY Zenon
<1>8. NoRst'
  <2>1. \A y \in Ends : end'[y].phase # "reset"
    BY <1>2, <1>7, Zenon DEF Calm, NoRst
  <2>2. \A y \in Ends : \A seg \in Range(wire'[y]) : ~IsRst(seg)
    BY <1>2, <1>3, Zenon DEF Calm, NoRst, IsRst
  <2> QED
    BY <2>1, <2>2, Zenon DEF Calm, NoRst
<1>9. ClientClosed'
  BY <1>1, <1>2, <1>4, <1>6, Zenon DEF Calm, ClientClosed, From
<1>10. Conn # None => Conn.backend \in Backends
  BY Basics, Zenon DEF Shape, Conn, Mapping
<1>11. EntryStays'
  BY <1>1, <1>2, <1>5, <1>6, <1>10, Zenon DEF Calm, EntryStays, From
<1>12. OthersUnused'
  BY <1>1, <1>2, <1>4, Zenon DEF Calm, OthersUnused, From
<1>13. ClientOpening'
  <2> SUFFICES ASSUME end'[Client].phase = "opening" PROVE ClientOpening'
    BY Zenon DEF ClientOpening
  <2>1. CASE end[Client].phase = "opening"
    <3>1. kind # "DATA"
      BY <1>1, <1>2, <1>5, Zenon
    <3> QED
      BY <1>1, <1>2, <1>3, <1>5, <2>1, <3>1, Zenon DEF Calm, ClientOpening
  <2>2. CASE end[Client].phase # "opening"
    <3>1. x = Client /\ end[Client].phase = "closed" /\ kind = "SYN"
      BY <1>1, <1>2, <2>2, Zenon
    <3>2. Conn = None /\ wire[Client] = <<>> /\ \A p \in Cpus : ~From(p, Client)
      BY <3>1, Zenon DEF Calm, ClientClosed
    <3>3. \A b \in Backends : end[b].phase = "closed" /\ wire[b] = <<>> /\ (\A p \in Cpus : ~From(p, b))
      BY <3>2, Zenon DEF Calm, OthersUnused
    <3>4. \A p \in Cpus : segment[p] = None
      <4>1. segment \in [Cpus -> PacketType \cup {None}]
        BY Zenon DEF Shape, FlowTypeOK
      <4>2. \A p \in Cpus : segment[p] # None => segment[p].from \in Ends
        BY <4>1, Zenon DEF PacketType
      <4> QED
        BY <3>2, <3>3, <4>2, Basics, Zenon DEF From
    <3> QED
      BY <1>1, <1>2, <1>3, <3>1, <3>2, <3>3, <3>4, EmptyRange, Zenon DEF ClientOpening
  <2> QED
    BY <2>1, <2>2, Zenon
<1>14. AckUnderWay'
  BY <1>1, <1>2, <1>3, <1>5, <1>6, <1>10, Zenon DEF Calm, AckUnderWay, EntryStays, From
<1> QED
  BY <1>8, <1>9, <1>11, <1>12, <1>13, <1>14, Zenon DEF Calm

\* The ends' steps before a FIN and an abort.
LEMMA CalmEnds ==
    ASSUME Shape, Live, Calm, EndsNext, UNCHANGED <<mapVars, cpu>>, history' \cap {"fin", "abort"} = {}
    PROVE  Calm'
<1>1. Client \in Ends /\ Backends \subseteq Ends /\ Client \notin Backends
  BY Basics, Zenon
<1>2. UNCHANGED <<segment, cpu>> /\ Conn' = Conn
  BY EndsShape, Zenon
<1>3. \A x \in Ends : end[x] \in EndType /\ ~end[x].finSent /\ ~end[x].finAcked /\ ~end[x].finRcvd
  BY EndStates, Zenon DEF Live, NoFin
<1>4. CASE Connect
  <2> DEFINE e == [Closed EXCEPT !.phase = "opening"]
  <2>1. Sends(Client, e, "SYN") /\ "SYN" \in Kinds /\ end[Client].phase = "closed"
    BY <1>4, Zenon DEF Connect, Kinds
  <2>2. e.phase = "opening" /\ e \in EndType
    BY Zenon DEF Closed, EndType
  <2> HIDE DEF e
  <2> QED
    BY <1>1, <1>2, <2>1, <2>2, CalmSends, Zenon
<1>5. CASE \E x \in Ends : Send(x)
  <2>1. PICK x \in Ends : Send(x)
    BY <1>5, Zenon
  <2>2. Sends(x, end[x], "DATA") /\ "DATA" \in Kinds /\ end[x].phase = "open" /\ (history' = {} => history = {})
    BY <2>1, Zenon DEF Send, Kinds, Note
  <2> QED
    BY <1>2, <1>3, <2>2, CalmSends, Zenon
<1>6. CASE \E x \in Ends : Retransmit(x)
  <2>1. PICK x \in Ends : Retransmit(x)
    BY <1>6
  <2>2. end[x].phase = "opening" /\ Sends(x, end[x], IF x = Client THEN "SYN" ELSE "SYNACK") /\ history' # {}
    BY <1>3, <2>1, Zenon DEF Retransmit, Note
  <2>3. "SYN" \in Kinds /\ "SYNACK" \in Kinds
    BY Zenon DEF Kinds
  <2>4. CASE x = Client
    BY <1>2, <1>3, <2>2, <2>3, <2>4, CalmSends, Zenon
  <2>5. CASE x # Client
    BY <1>2, <1>3, <2>2, <2>3, <2>5, CalmSends, Zenon
  <2> QED
    BY <2>4, <2>5, Zenon
<1>7. CASE \E x \in Ends : Lose(x)
  <2>1. PICK x \in Ends : Lose(x)
    BY <1>7
  <2>2. wire[x] # <<>> /\ wire' = [wire EXCEPT ![x] = Tail(@)] /\ end' = end /\ history' # {}
    BY <2>1, Zenon DEF Lose, Note
  <2>3. /\ \A y \in Ends \ {x} : wire'[y] = wire[y]
        /\ \A y \in Ends : Range(wire'[y]) \subseteq Range(wire[y])
    BY <2>2, TailOne, Zenon
  <2>4. NoRst' /\ ClientOpening'
    BY <1>1, <1>2, <2>2, <2>3, Zenon DEF Calm, NoRst, ClientOpening
  <2>5. ClientClosed' /\ OthersUnused'
    BY <1>1, <1>2, <2>2, <2>3, Zenon DEF Calm, ClientClosed, OthersUnused, From
  <2>6. EntryStays' /\ AckUnderWay'
    BY <1>2, <2>2, Zenon DEF Calm, EntryStays, AckUnderWay, From
  <2> QED
    BY <2>4, <2>5, <2>6, Zenon DEF Calm
<1>8. ASSUME NEW x \in Ends PROVE ~Close(x) /\ ~Abort(x) /\ ~Forget(x)
  BY <1>3, Zenon DEF Close, Abort, Note, Forget, Done
<1> QED
  BY <1>4, <1>5, <1>6, <1>7, <1>8, Zenon DEF EndsNext

-----------------------------------------------------------------------------
\* Aborted is kept.

\* An RST that is on a wire, or in the hands of another CPU, stays pending.
LEMMA PendingStays ==
    ASSUME Pending, NEW p \in Cpus, Alone(p),
           \A x \in Ends : Range(wire[x]) \subseteq Range(wire'[x]),
           segment[p] # None /\ IsRst(segment[p].seg) => cpu[p].pc \in {"tcp_update", "egress_update"}
    PROVE  Pending'
  BY Zenon DEF Pending, Alone

\* The handlers' steps: a segment that arrives after the entry is gone, and that is
\* recorded as a new connection, draws an RST.
LEMMA AbortedHandle ==
    ASSUME Shape, Live, Aborted, NEW p \in Cpus, Handle(p)
    PROVE  Aborted'
<1>1. /\ Alone(p) /\ cpu[p].pc # "idle"
      /\ \/ ChooseStep(p) \/ DropStep(p) \/ UnlinkStep(p)
         \/ ForwardStep(p) \/ RecordStep(p) \/ ReplyStep(p)
  BY HandleOutcome, Zenon DEF Alone
<1>2. end[Client].phase \in {"open", "reset"} /\ Known /\ Client \in Ends
  BY Basics, Zenon DEF Aborted, Known
<1>3. CASE ChooseStep(p) \/ DropStep(p) \/ UnlinkStep(p)
  BY <1>1, <1>2, <1>3, LiveSteps, Zenon DEF Live, Aborted, ChooseStep, DropStep, UnlinkStep
<1>4. CASE ForwardStep(p)
  <2> DEFINE b == cpu[p].lb_mapping.backend
  <2>1. /\ From(p, Client) /\ cpu[p].pc = "tcp_update" /\ Conn' = Conn /\ Deliver(p, b)
    BY <1>1, <1>4, LiveSteps, Zenon DEF Live, ForwardStep
  <2>2. b \in Ends /\ b # Client
    BY <1>1, <2>1, Busy, Basics, Zenon DEF From, IngressOK, Mapping
  <2>3. end'[Client] = end[Client] /\ \A y \in Ends : Range(wire[y]) \subseteq Range(wire'[y])
    BY <1>1, <1>2, <2>1, <2>2, LiveDeliver, Zenon DEF Live
  <2> QED
    BY <1>1, <1>2, <2>1, <2>3, PendingStays, Zenon DEF Aborted
<1>5. CASE RecordStep(p)
  <2> DEFINE b == cpu[p].lb_mapping.backend
             seg == segment[p].seg
  <2>1. /\ From(p, Client) /\ cpu[p].new_conn /\ Conn = None /\ ~IsRst(seg) /\ Deliver(p, b)
    BY <1>1, <1>5, LiveSteps, Zenon DEF Live, RecordStep
  <2>2. b \in Backends /\ b \in Ends /\ b # Client
    BY <1>1, <2>1, <1>5, Busy, Basics, Zenon DEF From, IngressOK, Mapping, RecordStep
  <2>3. seg.kind # "SYN"
    BY <1>2, <2>1, SynInHand, Zenon
  <2>4. end[b].phase \in Unused
    <3>1. \A q \in Cpus : ~Resetting(q, b)
      BY <2>1, Basics, Zenon DEF Resetting, Shape
    <3> QED
      BY <2>1, <2>2, <3>1, Zenon DEF Live, OneEnd
  <2>5. Reacts(b, seg) /\ end'[Client] = end[Client]
    BY <1>1, <1>2, <2>1, <2>2, LiveDeliver, Zenon DEF Live
  <2> HIDE DEF b, seg
  <2>6. Answers(b, {"RST", "RSTACK"})
    BY <2>1, <2>2, <2>3, <2>4, <2>5, Zenon DEF Reacts, Unused
  <2>7. \E s \in Range(wire'[b]) : IsRst(s)
    BY <2>6, Zenon DEF Answers, IsRst
  <2> QED
    BY <1>2, <2>2, <2>5, <2>7, Zenon DEF Aborted, Pending
<1>6. CASE ReplyStep(p)
  <2>1. /\ segment[p] # None /\ segment[p].from \in Backends /\ Deliver(p, Client) /\ Conn' = Conn
        /\ Conn # None => cpu[p].pc = "egress_update"
    BY <1>1, <1>6, LiveSteps, Zenon DEF Live, ReplyStep
  <2>2. Reacts(Client, segment[p].seg) /\ \A y \in Ends : Range(wire[y]) \subseteq Range(wire'[y])
    BY <1>1, <1>2, <2>1, LiveDeliver, Zenon DEF Live
  <2>3. end'[Client].phase \in {"open", "reset"}
    BY <1>2, <2>2, Zenon DEF Reacts
  <2> QED
    BY <1>1, <1>2, <2>1, <2>2, <2>3, PendingStays, Zenon DEF Aborted
<1> QED
  BY <1>1, <1>3, <1>4, <1>5, <1>6, Zenon

\* A segment arrives: an RST is pending in the CPU's hands as it was on the wire.
LEMMA AbortedTakes ==
    ASSUME Shape, Aborted, NEW p \in Cpus, NEW x \in Ends, Takes(p, x), Alone(p),
           Conn # None /\ IsRst(Head(wire[x])) => cpu'[p].pc \in {"tcp_rst", "egress_rst"}
    PROVE  Aborted'
<1>1. end' = end /\ Conn' = Conn
  BY DEF Takes
<1>2. /\ segment'[p] # None /\ segment'[p].seg = Head(wire[x])
      /\ Range(wire[x]) = Range(wire'[x]) \cup {Head(wire[x])}
      /\ \A y \in Ends \ {x} : wire'[y] = wire[y]
      /\ \A q \in Cpus : segment[q] # None => q # p /\ cpu'[q] = cpu[q] /\ segment'[q] = segment[q]
  BY TakesOne, Zenon
<1>3. Conn # None /\ Pending => Pending'
  BY <1>2 DEF Pending
<1> QED
  BY <1>1, <1>3, Zenon DEF Aborted

\* The ends' steps.
LEMMA AbortedEnds ==
    ASSUME Shape, Live, Aborted, EndsNext, UNCHANGED <<mapVars, cpu>>,
           history' \cap {"fin", "loss"} = {}
    PROVE  Aborted'
<1>1. Client \in Ends
  BY Basics, Zenon
<1>2. UNCHANGED <<segment, cpu>> /\ Conn' = Conn
  BY EndsShape, Zenon
<1>3. \A x \in Ends : end[x] \in EndType /\ ~end[x].finSent
  BY EndStates, Zenon DEF Live, NoFin
<1>4. ASSUME NEW x \in Ends, NEW e \in EndType, NEW kind \in Kinds, Sends(x, e, kind),
             x = Client => e.phase \in {"open", "reset"}
      PROVE  Aborted'
  <2>1. /\ end'[x] = e /\ Range(wire'[x]) = Range(wire[x]) \cup {Segment(e, kind)}
        /\ \A y \in Ends \ {x} : end'[y] = end[y] /\ wire'[y] = wire[y]
    BY <1>4, SendsOne, Zenon
  <2>2. Pending => Pending'
    BY <1>2, <2>1, Zenon DEF Pending
  <2> QED
    BY <1>1, <1>2, <1>4, <2>1, <2>2, Zenon DEF Aborted
<1>5. ~Connect /\ \A x \in Ends : ~Close(x) /\ ~Forget(x) /\ ~Lose(x)
  BY <1>3, Zenon DEF Aborted, Connect, Close, Forget, Lose, Note, Done
<1>6. PICK x \in Ends : Send(x) \/ Abort(x) \/ Retransmit(x)
  BY <1>5, Zenon DEF EndsNext
<1>7. "DATA" \in Kinds /\ "RSTACK" \in Kinds /\ "SYN" \in Kinds /\ "SYNACK" \in Kinds
  BY Zenon DEF Kinds
<1>8. CASE Send(x)
  BY <1>3, <1>4, <1>7, <1>8, Zenon DEF Send
<1>9. CASE Abort(x)
  <2> DEFINE e == [end[x] EXCEPT !.phase = "reset"]
  <2>1. Sends(x, e, "RSTACK") /\ e \in EndType /\ e.phase = "reset"
    BY <1>3, <1>9, Zenon DEF Abort, EndType
  <2> QED
    BY <1>4, <1>7, <2>1, Zenon
<1>10. CASE Retransmit(x)
  <2>1. x # Client /\ Sends(x, end[x], "SYNACK")
    BY <1>3, <1>10, Zenon DEF Retransmit, Aborted
  <2> QED
    BY <1>3, <1>4, <1>7, <2>1, Zenon
<1> QED
  BY <1>6, <1>8, <1>9, <1>10, Zenon

\* The first abort: the client is open, and the RST is on a wire.
LEMMA AbortedStarts ==
    ASSUME Shape, Calm, NEW x \in Ends, Abort(x), UNCHANGED <<mapVars, cpu>>
    PROVE  Aborted'
<1> DEFINE e == [end[x] EXCEPT !.phase = "reset"]
           s == Segment(e, "RSTACK")
<1>1. Client \in Ends /\ (x # Client => x \in Backends)
  BY Basics, Zenon
<1>2. Sends(x, e, "RSTACK") /\ e \in EndType /\ e.phase = "reset" /\ end[x].phase = "open"
  BY EndStates, Zenon DEF Abort, EndType
<1>3. "RSTACK" \in Kinds
  BY DEF Kinds
<1> HIDE DEF e
<1>4. /\ end'[x] = e /\ Range(wire'[x]) = Range(wire[x]) \cup {s}
      /\ \A y \in Ends \ {x} : end'[y] = end[y]
  BY <1>2, <1>3, SendsOne, Zenon
<1>5. IsRst(s)
  BY <1>2, <1>3, SegmentIsOne, Zenon DEF IsRst
<1>6. Pending'
  BY <1>4, <1>5, Zenon DEF Pending
<1>7. end'[Client].phase \in {"open", "reset"}
  <2>1. CASE x = Client
    BY <1>2, <1>4, <2>1, Zenon
  <2>2. CASE x # Client
    <3>1. Conn # None
      BY <1>1, <1>2, <2>2, Zenon DEF Calm, OthersUnused
    <3>2. end[Client].phase \notin {"closed", "opening"}
      BY <1>1, <1>2, <2>2, <3>1, Zenon DEF Calm, ClientClosed, ClientOpening
    <3>3. end[Client] \in EndType
      BY <1>1, EndStates, Zenon
    <3> QED
      BY <1>1, <1>4, <2>2, <3>2, <3>3, Zenon DEF EndType
  <2> QED
    BY <2>1, <2>2, Zenon
<1> QED
  BY <1>6, <1>7, Zenon DEF Aborted

-----------------------------------------------------------------------------
\* Shape, Live, Calm and Aborted are kept by every step.

\* Another client moves the index, and nothing else.
LEMMA OthersShape ==
    ASSUME Shape, OthersConnect
    PROVE  Shape' /\ Conn' = Conn /\ UNCHANGED <<cpu, end, wire, segment, history>>
<1>1. /\ UNCHANGED <<BACKENDS, LB_CONNECTIONS, cpu, end, wire, segment, history>>
      /\ GATEWAY_INDEXES' = [GATEWAY_INDEXES EXCEPT ![Vip] = NextIndex(BACKENDS[Vip], @)]
  BY Zenon DEF OthersConnect, flowVars
<1>2. GATEWAY_INDEXES \in [Vips -> Nat]
  BY Zenon DEF Shape
<1>3. NextIndex(BACKENDS[Vip], GATEWAY_INDEXES[Vip]) \in Nat
  BY <1>2, Basics DEF NextIndex
<1>4. GATEWAY_INDEXES' \in [Vips -> Nat]
  BY <1>1, <1>2, <1>3, Zenon
<1> QED
  BY <1>1, <1>4, Zenon DEF Shape, FlowTypeOK, MapsTypeOK, EbpfTypeOK, At, From, Conn

\* The types, the handlers' locals and the entry's form.
LEMMA ShapeStep == Shape /\ [FlowNext]_vars => Shape'
<1> SUFFICES ASSUME Shape, [FlowNext]_vars PROVE Shape'
  BY Zenon
<1>1. CASE UNCHANGED vars
  BY <1>1, Zenon DEF vars, flowVars, mapVars, Shape, FlowTypeOK, MapsTypeOK, EbpfTypeOK, At, From
<1>2. CASE EndsNext /\ UNCHANGED <<mapVars, cpu>>
  BY <1>2, EndsShape, Zenon
<1>3. CASE OthersConnect
  BY <1>3, OthersShape, Zenon
<1>4. CASE \E p \in Cpus : NodeNext(p)
  BY <1>4, ClientTaken, BackendTaken, UntrackedTaken, HandleOutcome, Zenon DEF NodeNext
<1> QED
  BY <1>1, <1>2, <1>3, <1>4, Zenon DEF FlowNext

\* The node's steps are no part of the history.
LEMMA NodeHistory ==
    ASSUME Shape, NEW p \in Cpus, NodeNext(p)
    PROVE  history' = history
<1>1. FromClient(p) => history' = history
  BY Zenon DEF FromClient, Arrive
<1>2. \A b \in Backends : FromBackend(p, b) \/ FromUntracked(p, b) => history' = history
  BY DEF FromBackend, Arrive, FromUntracked
<1>3. Handle(p) => history' = history
  BY HandleAt, Zenon
<1> QED
  BY <1>1, <1>2, <1>3, Zenon DEF NodeNext

\* The history only grows, and only by the ends' steps.
LEMMA HistoryGrows ==
    ASSUME Shape, [FlowNext]_vars
    PROVE  /\ history \subseteq history'
           /\ ~(EndsNext /\ UNCHANGED <<mapVars, cpu>>) => history' = history
<1>1. CASE UNCHANGED vars
  BY <1>1, Zenon DEF vars, flowVars
<1>2. CASE EndsNext /\ UNCHANGED <<mapVars, cpu>>
  BY <1>2, Zenon DEF EndsNext, Connect, Send, Close, Abort, Retransmit, Forget, Lose, Note
<1>3. CASE OthersConnect
  BY <1>3, OthersShape, Zenon
<1>4. CASE \E p \in Cpus : NodeNext(p)
  BY <1>4, NodeHistory, Zenon
<1> QED
  BY <1>1, <1>2, <1>3, <1>4, Zenon DEF FlowNext

\* Nothing of the connection changes.
LEMMA LiveStutter ==
    ASSUME Conn' = Conn, UNCHANGED <<cpu, end, wire, segment, history>>
    PROVE  (Live => Live') /\ (Calm => Calm') /\ (Aborted => Aborted')
<1>1. (BackendRst' <=> BackendRst) /\ (ClientSyn' <=> ClientSyn) /\ (Pending' <=> Pending)
  BY Zenon DEF BackendRst, ClientSyn, Pending, From
<1>2. Live => Live'
  BY <1>1, Zenon DEF Live, NoFin, Tracking, OneEnd, Resetting, RstFromUnused, SynsFirst, SynIsAhead, From
<1>3. Calm => Calm'
  BY Zenon DEF Calm, NoRst, ClientClosed, EntryStays, OthersUnused, ClientOpening, AckUnderWay, From
<1> QED
  BY <1>1, <1>2, <1>3, Zenon DEF Aborted

\* The handlers' steps before a FIN.
LEMMA LiveHandle ==
    ASSUME Shape, Live, Known, NEW p \in Cpus, Handle(p)
    PROVE  Live'
<1>1. /\ Alone(p) /\ cpu[p].pc # "idle"
      /\ \/ ChooseStep(p) \/ DropStep(p) \/ UnlinkStep(p)
         \/ ForwardStep(p) \/ RecordStep(p) \/ ReplyStep(p)
  BY HandleOutcome, Zenon DEF Alone
<1> QED
  BY <1>1, LiveChoose, LiveDrop, LiveUnlink, LiveForward, LiveRecord, LiveReply, Zenon

\* The steps of the node before a FIN.
LEMMA LiveNode ==
    ASSUME Shape, Live, Known, NEW p \in Cpus, NodeNext(p)
    PROVE  Live' /\ (Calm => Calm') /\ (Aborted => Aborted')
<1>1. CASE FromClient(p)
  <2>1. TakesClient(p) /\ Alone(p) /\ Takes(p, Client) /\ Client \in Ends
    BY <1>1, ClientTaken, Basics, Zenon DEF Alone, TakesClient
  <2>2. Conn # None /\ IsRst(Head(wire[Client])) => cpu'[p].pc \in {"tcp_rst", "egress_rst"}
    BY <2>1, Zenon DEF TakesClient
  <2> QED
    BY <2>1, <2>2, LiveTakesClient, CalmTakesClient, AbortedTakes, Zenon
<1>2. CASE \E b \in Backends : FromBackend(p, b)
  <2>1. PICK b \in Backends : FromBackend(p, b)
    BY <1>2, Zenon
  <2>2. TakesBackend(p, b) /\ Alone(p) /\ Takes(p, b) /\ b \in Ends
    BY <2>1, BackendTaken, Basics, Zenon DEF Alone, TakesBackend
  <2>3. Conn # None /\ IsRst(Head(wire[b])) => cpu'[p].pc \in {"tcp_rst", "egress_rst"}
    BY <2>2, Zenon DEF TakesBackend
  <2> QED
    BY <2>2, <2>3, LiveTakesBackend, CalmTakesBackend, AbortedTakes, Zenon
<1>3. CASE \E b \in Backends : FromUntracked(p, b)
  <2>1. PICK b \in Backends : FromUntracked(p, b)
    BY <1>3
  <2>2. /\ Conn = None /\ Conn' = None /\ UNCHANGED <<cpu, segment, end, history>>
        /\ b \in Ends /\ wire[b] # <<>> /\ wire' = [wire EXCEPT ![b] = Tail(@)]
    BY <2>1, UntrackedTaken, Zenon
  <2>3. ~Calm
    BY <2>2, Zenon DEF Calm, OthersUnused
  <2>4. Live'
    BY <2>2, LiveLosesOne, Zenon
  <2> QED
    BY <2>2, <2>3, <2>4, Zenon DEF Aborted
<1>4. CASE Handle(p)
  BY <1>4, LiveHandle, CalmHandle, AbortedHandle, Zenon
<1> QED
  BY <1>1, <1>2, <1>3, <1>4, Zenon DEF NodeNext

\* Every step before a FIN.
LEMMA LiveStep ==
    ASSUME Shape, LiveInv, CalmInv, AbortedInv, [FlowNext]_vars
    PROVE  LiveInv' /\ CalmInv' /\ AbortedInv'
<1>1. history \subseteq history' /\ (~(EndsNext /\ UNCHANGED <<mapVars, cpu>>) => history' = history)
  BY HistoryGrows, Zenon
<1> SUFFICES ASSUME "fin" \notin history', ~({"abort", "loss"} \subseteq history')
             PROVE  /\ Live'
                    /\ history' \cap {"fin", "abort"} = {} => Calm'
                    /\ "abort" \in history' /\ history' \cap {"fin", "loss"} = {} => Aborted'
  BY DEF LiveInv, CalmInv, AbortedInv
<1>2. Live
  BY <1>1, Zenon DEF LiveInv
<1>3. \/ history \cap {"fin", "abort"} = {} /\ Calm
      \/ "abort" \in history /\ history \cap {"fin", "loss"} = {} /\ Aborted
  BY <1>1, Zenon DEF CalmInv, AbortedInv
<1>4. Known
  BY <1>3, Zenon DEF Known, Aborted
<1>5. CASE UNCHANGED vars
  <2>1. Conn' = Conn /\ UNCHANGED <<cpu, end, wire, segment, history>>
    BY <1>5, Zenon DEF vars, flowVars, mapVars, Conn
  <2> QED
    BY <1>2, <1>3, <2>1, LiveStutter, Zenon
<1>6. CASE OthersConnect
  BY <1>2, <1>3, <1>6, OthersShape, LiveStutter, Zenon
<1>7. CASE \E p \in Cpus : NodeNext(p)
  <2>1. PICK p \in Cpus : NodeNext(p)
    BY <1>7, Zenon
  <2>2. history' = history
    BY <2>1, NodeHistory, Zenon
  <2>3. Live' /\ (Calm => Calm') /\ (Aborted => Aborted')
    BY <1>2, <1>4, <2>1, LiveNode, Zenon
  <2> QED
    BY <1>3, <2>2, <2>3, Zenon
<1>8. CASE EndsNext /\ UNCHANGED <<mapVars, cpu>>
  <2>1. Live'
    BY <1>2, <1>4, <1>8, LiveEnds, Zenon
  <2>2. history' \cap {"fin", "abort"} = {} => Calm'
    BY <1>1, <1>2, <1>3, <1>8, CalmEnds, Zenon
  <2>3. "abort" \in history' /\ history' \cap {"fin", "loss"} = {} => Aborted'
    <3> SUFFICES ASSUME "abort" \in history', history' \cap {"fin", "loss"} = {} PROVE Aborted'
      BY Zenon
    <3>1. CASE Aborted
      BY <1>2, <1>8, <3>1, AbortedEnds, Zenon
    <3>2. CASE Calm /\ "abort" \notin history
      <4>1. \E x \in Ends : Abort(x)
        BY <1>8, <3>2, Zenon DEF EndsNext, Connect, Send, Close, Retransmit, Forget, Lose, Note
      <4> QED
        BY <1>8, <3>2, <4>1, AbortedStarts, Zenon
    <3> QED
      BY <1>3, <3>1, <3>2, Zenon
  <2> QED
    BY <2>1, <2>2, <2>3, Zenon
<1> QED
  BY <1>5, <1>6, <1>7, <1>8, Zenon DEF FlowNext

-----------------------------------------------------------------------------
\* Orderly is kept.

\* Appending to a sequence of one makes one of two.
LEMMA AppendSecond ==
    ASSUME NEW S, NEW q \in Seq(S), NEW t \in Seq(S), NEW b \in S
    PROVE  Len(q) = 1 /\ Len(t) = 2 /\ t[1] = q[1] /\ t[2] = b => Append(q, b) = t
<1> DEFINE r == Append(q, b)
<1>1. /\ r \in Seq(S) /\ Len(r) = Len(q) + 1
      /\ \A i \in 1 .. Len(q) : r[i] = q[i]
      /\ r[Len(q) + 1] = b
  OBVIOUS
<1> HIDE DEF r
<1> SUFFICES ASSUME Len(q) = 1, Len(t) = 2, t[1] = q[1], t[2] = b PROVE r = t
  BY Zenon DEF r
<1>2. Len(r) = 2 /\ r[1] = q[1] /\ r[2] = b
  BY <1>1
<1>3. \A i \in 1 .. Len(r) : r[i] = t[i]
  BY <1>2
<1>4. r = t
  BY <1>1, <1>2, <1>3
<1> QED
  BY <1>4, Zenon

\* Short sequences: their heads, tails and what appending makes of them.
LEMMA Short ==
    ASSUME NEW a, NEW b
    PROVE  /\ <<a>> # <<>> /\ Head(<<a>>) = a /\ Tail(<<a>>) = <<>>
           /\ <<a, b>> # <<>> /\ Head(<<a, b>>) = a /\ Tail(<<a, b>>) = <<b>>
           /\ Append(<<>>, a) = <<a>> /\ Append(<<a>>, b) = <<a, b>>
<1>1. <<a>> \in Seq({a, b}) /\ <<a, b>> \in Seq({a, b}) /\ b \in {a, b}
  OBVIOUS
<1>2. Len(<<a>>) = 1 /\ Len(<<a, b>>) = 2 /\ <<a, b>>[1] = <<a>>[1] /\ <<a, b>>[2] = b
  OBVIOUS
<1>3. Append(<<a>>, b) = <<a, b>>
  BY <1>1, <1>2, AppendSecond, Zenon
<1> QED
  BY <1>3

\* The client and b, one way or the other.
Pair(b, x, y) == (x = Client /\ y = b) \/ (x = b /\ y = Client)

\* The two are ends, and every other end is another backend's.
LEMMA PairEnds ==
    ASSUME NEW b \in Backends, NEW x, NEW y, Pair(b, x, y)
    PROVE  x \in Ends /\ y \in Ends /\ x # y /\ \A z \in Ends \ {x, y} : z \in Backends \ {b}
  BY Basics, Zenon DEF Pair

\* Nothing is in hand but the first segment under way, and the handler that has it is
\* about to deliver it.
LEMMA OrderlyHandle ==
    ASSUME Shape, NEW b \in Backends, NEW x, NEW y, Pair(b, x, y), NEW q, UnderWay(x, q),
           Conn # None, Conn.backend = b, NEW p \in Cpus, Handle(p)
    PROVE  /\ q # <<>> /\ segment[p] # None /\ segment[p].seg = Head(q) /\ wire[x] = Tail(q) /\ wire[y] = <<>>
           /\ Conn' = Updated(Conn, Header(Head(q).kind), Conn) /\ Deliver(p, y)
           /\ \A r \in Cpus, z \in Ends : ~From(r, z)'
<1>1. x \in Ends /\ y \in Ends /\ x # y
  BY PairEnds, Zenon
<1>2. /\ Shape' /\ cpu[p].pc # "idle"
      /\ \A r \in Cpus \ {p} : cpu'[r] = cpu[r] /\ segment'[r] = segment[r]
      /\ \/ ChooseStep(p) \/ DropStep(p) \/ UnlinkStep(p)
         \/ ForwardStep(p) \/ RecordStep(p) \/ ReplyStep(p)
  BY HandleOutcome, Zenon
<1>3. segment[p] # None /\ segment[p].from \in Ends /\ cpu[p].hdr = Header(segment[p].seg.kind)
  BY <1>2, Busy, Zenon
<1>4. From(p, x) /\ wire[y] = <<>>
  BY <1>1, <1>3, Zenon DEF UnderWay, From
<1>5. \A r \in Cpus : From(r, x) => r = p
  BY <1>1, <1>4, Zenon DEF Shape
<1>6. /\ q # <<>> /\ segment[p].seg = Head(q) /\ wire[x] = Tail(q)
      /\ cpu[p].pc = IF x = Client THEN "tcp_update" ELSE "egress_update"
      /\ ~cpu[p].new_conn /\ cpu[p].lb_mapping = Conn
  BY <1>4, <1>5, Zenon DEF UnderWay
<1>7. (x = Client <=> From(p, Client)) /\ (x = Client => y = b) /\ (x # Client => y = Client)
  BY <1>4, Basics, Zenon DEF Pair, From
<1>8. /\ Deliver(p, y) /\ Finishes(p) /\ Conn' = Updated(Conn, cpu[p].hdr, Conn)
  <2>1. CASE x = Client
    <3>1. ForwardStep(p)
      BY <1>2, <1>6, <1>7, <2>1, Zenon DEF ChooseStep, DropStep, UnlinkStep, RecordStep, ReplyStep
    <3> QED
      BY <1>6, <1>7, <2>1, <3>1, Zenon DEF ForwardStep
  <2>2. CASE x # Client
    <3>1. ReplyStep(p)
      BY <1>2, <1>6, <1>7, <2>2, Zenon DEF ChooseStep, DropStep, UnlinkStep, RecordStep, ForwardStep
    <3> QED
      BY <1>6, <1>7, <2>2, <3>1, Zenon DEF ReplyStep
  <2> QED
    BY <2>1, <2>2, Zenon
<1>9. \A r \in Cpus, z \in Ends : ~From(r, z)'
  <2>1. \A r \in Cpus, z \in Ends : From(r, z) => r = p
    BY <1>5, Zenon DEF UnderWay
  <2> QED
    BY <1>2, <1>8, <2>1, Zenon DEF From, Finishes
<1> QED
  BY <1>3, <1>4, <1>6, <1>8, <1>9, Zenon

\* A segment that arrives was the first under way.
LEMMA OrderlyTakes ==
    ASSUME Shape, NEW b \in Backends, NEW x, NEW y, Pair(b, x, y), NEW q, UnderWay(x, q),
           Conn # None, q # <<>> => ~IsRst(Head(q)), NEW p \in Cpus,
           FromClient(p) \/ \E c \in Backends : FromBackend(p, c)
    PROVE  UnderWay(x, q)' /\ end' = end /\ Conn' = Conn
<1>1. x \in Ends /\ y \in Ends /\ x # y
  BY PairEnds, Zenon
<1>2. PICK z \in Ends : /\ Takes(p, z) /\ Alone(p)
                        /\ cpu'[p].lb_mapping = Conn /\ ~cpu'[p].new_conn
                        /\ z = Client => cpu'[p].pc = IF IsRst(Head(wire[z])) THEN "tcp_rst" ELSE "tcp_update"
                        /\ z # Client => cpu'[p].pc = IF IsRst(Head(wire[z])) THEN "egress_rst" ELSE "egress_update"
  <2>1. CASE FromClient(p)
    BY <2>1, ClientTaken, Basics, Zenon DEF Alone, TakesClient
  <2>2. CASE \E c \in Backends : FromBackend(p, c)
    BY <2>2, BackendTaken, Basics, Zenon DEF Alone, TakesBackend
  <2> QED
    BY <2>1, <2>2, Zenon
<1>3. end' = end /\ Conn' = Conn /\ wire[z] # <<>> /\ \A r \in Cpus : ~From(r, z)
  BY <1>2, Zenon DEF Takes
<1>4. z = x /\ wire[x] = q
  BY <1>3, Zenon DEF UnderWay
<1>5. /\ segment'[p] # None /\ segment'[p].from = x /\ segment'[p].seg = Head(q)
      /\ \A w \in Ends \ {x} : wire'[w] = wire[w]
      /\ wire'[x] = Tail(q)
      /\ \A r \in Cpus \ {p} : segment'[r] = segment[r]
  BY <1>2, <1>4, TakesOne, Zenon
<1>6. \A w \in Ends \ {x} : wire'[w] = <<>> /\ (\A r \in Cpus : ~From(r, w)')
  BY <1>5 DEF UnderWay, From
<1>7. /\ From(p, x)' /\ q # <<>> /\ segment'[p].seg = Head(q) /\ wire'[x] = Tail(q)
      /\ cpu'[p].pc = IF x = Client THEN "tcp_update" ELSE "egress_update"
      /\ ~cpu'[p].new_conn /\ cpu'[p].lb_mapping = Conn'
  BY <1>2, <1>3, <1>4, <1>5, Zenon DEF From
<1> QED
  BY <1>3, <1>6, <1>7, Zenon DEF UnderWay

\* An end is its four fields.
LEMMA SameEnd ==
    ASSUME NEW e \in EndType, NEW f \in EndType, e.phase = f.phase,
           e.finSent = f.finSent, e.finAcked = f.finAcked, e.finRcvd = f.finRcvd
    PROVE  e = f
  BY DEF EndType

\* What the ends make of the segments of an orderly close.
LEMMA ClosingReceived ==
    ASSUME NEW x, NEW f \in BOOLEAN, NEW a \in BOOLEAN, NEW c \in BOOLEAN, EndIs(x, f, a, c), ~(f /\ a /\ c),
           NEW seg \in SegmentType, seg.kind \in {"ACK", "FIN"}
    PROVE  Received(x, seg) = <<OpenEnd(f, a \/ (f /\ seg.acksFin), c \/ seg.kind = "FIN"),
                                IF seg.kind = "ACK" THEN None ELSE "ACK">>
<1> DEFINE e == OpenEnd(f, a, c)
           A == a \/ (f /\ seg.acksFin)
           C == c \/ seg.kind = "FIN"
<1>1. end[x] = e
  BY Zenon DEF EndIs
<1>2. e.phase = "open" /\ e.finSent = f /\ e.finAcked = a /\ e.finRcvd = c
  BY Zenon DEF OpenEnd
<1>3. ~Done(e) /\ ~Fresh(e)
  BY <1>2, Zenon DEF Done, Fresh
<1>4. Accepted(e, seg) = OpenEnd(f, A, C)
  <2>1. e \in EndType /\ OpenEnd(f, A, C) \in EndType
    BY Zenon DEF OpenEnd, EndType, SegmentType
  <2> HIDE DEF e
  <2>2. Accepted(e, seg) = [e EXCEPT !.phase = "open", !.finAcked = A, !.finRcvd = C]
    BY <1>2, Zenon DEF Accepted
  <2>3. A \in BOOLEAN /\ C \in BOOLEAN
    BY Zenon DEF SegmentType
  <2> HIDE DEF A, C
  <2>4. /\ Accepted(e, seg) \in EndType /\ Accepted(e, seg).phase = "open" /\ Accepted(e, seg).finSent = f
        /\ Accepted(e, seg).finAcked = A /\ Accepted(e, seg).finRcvd = C
    BY <1>2, <2>1, <2>2, <2>3, Zenon DEF EndType
  <2> QED
    BY <2>1, <2>4, SameEnd, Zenon DEF OpenEnd
<1>5. Received(x, seg) = <<Accepted(e, seg), IF seg.kind = "ACK" THEN None ELSE "ACK">>
  <2> HIDE DEF e
  <2> QED
    BY <1>1, <1>2, <1>3, Zenon DEF Received
<1> QED
  BY <1>4, <1>5, Zenon

\* The entry goes through the states of a close.
LEMMA StateMoves ==
    ASSUME Shape, NEW b, NEW state, TrackedAs(b, state), NEW kind \in {"ACK", "FIN"}
    PROVE  LET next == Updated(Conn, Header(kind), Conn)
           IN  /\ state = "Established" /\ kind = "FIN" => next # None /\ next.backend = b /\ next.tcp_state = "FinWait1"
               /\ state = "FinWait1" /\ kind = "ACK" => next # None /\ next.backend = b /\ next.tcp_state = "FinWait2"
               /\ state = "FinWait2" /\ kind = "FIN" => next # None /\ next.backend = b /\ next.tcp_state = "TimeWait"
               /\ state = "TimeWait" /\ kind = "ACK" => next = None
<1>1. Conn \in Mapping /\ Conn.backend = b /\ Conn.tcp_state = state
  BY Basics, Zenon DEF Shape, TrackedAs, Conn
<1> DEFINE m == Advanced(Conn, Header(kind))
<1>2. m \in Mapping /\ m # None /\ m.backend = b /\ m.tcp_state = process_tcp_state_transition(Header(kind), state)
  BY <1>1, AdvancedType, Basics, Zenon
<1>3. Header("ACK") = {"ACK"} /\ Header("FIN") = {"FIN", "ACK"}
  BY Zenon DEF Header
<1>4. /\ process_tcp_state_transition(Header("FIN"), "Established") = "FinWait1"
      /\ process_tcp_state_transition(Header("ACK"), "FinWait1") = "FinWait2"
      /\ process_tcp_state_transition(Header("FIN"), "FinWait2") = "TimeWait"
      /\ process_tcp_state_transition(Header("ACK"), "TimeWait") = "Closed"
  BY <1>3, Zenon DEF process_tcp_state_transition
<1>5. Updated(Conn, Header(kind), Conn) = IF m.tcp_state = "Closed" THEN None ELSE IF m = Conn THEN Conn ELSE m
  BY Zenon DEF Updated
<1> HIDE DEF m
<1> QED
  BY <1>1, <1>2, <1>4, <1>5, Zenon

\* The segments of a close.
LEMMA ClosingSegments ==
    /\ FirstFin \in SegmentType /\ FirstFin.kind = "FIN" /\ FirstFin.acksFin = FALSE
    /\ SecondFin \in SegmentType /\ SecondFin.kind = "FIN" /\ SecondFin.acksFin = TRUE
    /\ LastAck \in SegmentType /\ LastAck.kind = "ACK" /\ LastAck.acksFin = TRUE
    /\ ~IsRst(FirstFin) /\ ~IsRst(SecondFin) /\ ~IsRst(LastAck)
  BY Zenon DEF FirstFin, SecondFin, LastAck, SegmentType, Kinds, IsRst

\* Delivering the first segment under way: an ACK draws no answer, a FIN its ACK.
LEMMA OrderlyDelivers ==
    ASSUME Shape, NEW b \in Backends, NEW x, NEW y, Pair(b, x, y), NEW q, UnderWay(x, q),
           Conn # None, Conn.backend = b, NEW p \in Cpus, Handle(p),
           NEW f \in BOOLEAN, NEW a \in BOOLEAN, NEW c \in BOOLEAN, EndIs(y, f, a, c), ~(f /\ a /\ c),
           NEW seg \in {FirstFin, SecondFin, LastAck}, q # <<>> => Head(q) = seg
    PROVE  /\ EndIs(y, f, a \/ (f /\ seg.acksFin), c \/ seg.kind = "FIN")'
           /\ \A z \in Ends \ {y} : end'[z] = end[z]
           /\ Conn' = Updated(Conn, Header(seg.kind), Conn)
           /\ q # <<>>
           /\ seg = LastAck => UnderWay(x, Tail(q))'
           /\ seg # LastAck /\ Tail(q) = <<>> => UnderWay(y, <<LastAck>>)'
<1>1. /\ q # <<>> /\ segment[p] # None /\ segment[p].seg = seg /\ wire[x] = Tail(q) /\ wire[y] = <<>>
      /\ Conn' = Updated(Conn, Header(seg.kind), Conn) /\ Deliver(p, y)
      /\ \A r \in Cpus, z \in Ends : ~From(r, z)'
  BY OrderlyHandle
<1>2. x \in Ends /\ y \in Ends /\ x # y
  BY PairEnds, Zenon
<1>3. seg \in SegmentType /\ seg.kind \in {"ACK", "FIN"} /\ (seg.kind = "ACK" <=> seg = LastAck)
  BY ClosingSegments, Zenon
<1> DEFINE e == OpenEnd(f, a \/ (f /\ seg.acksFin), c \/ seg.kind = "FIN")
           k == IF seg.kind = "ACK" THEN None ELSE "ACK"
<1>4. Received(y, seg) = <<e, k>>
  BY <1>3, ClosingReceived
<1>5. e.finRcvd = (c \/ seg.kind = "FIN")
  BY DEF OpenEnd
<1> HIDE DEF e
<1>6. seg # LastAck => k = "ACK" /\ k # None /\ Segment(e, k) = LastAck
  BY <1>3, <1>5, FlowAssumption, Zenon DEF Segment, LastAck, Kinds
<1>7. seg = LastAck => k = None
  BY <1>3, Zenon
<1> HIDE DEF k
<1>8. /\ end'[y] = e
      /\ k = None => wire' = wire
      /\ k # None => wire'[y] = Append(<<>>, Segment(e, k))
      /\ \A z \in Ends \ {y} : end'[z] = end[z] /\ wire'[z] = wire[z]
  BY <1>1, <1>2, <1>4, DeliversOne
<1>9. \A z \in Ends \ {x} : wire[z] = <<>>
  BY Zenon DEF UnderWay
<1>10. seg = LastAck => UnderWay(x, Tail(q))'
  <2> SUFFICES ASSUME seg = LastAck
               PROVE  (\A z \in Ends \ {x} : wire'[z] = <<>>) /\ wire'[x] = Tail(q)
    BY <1>1, <1>2, Zenon DEF UnderWay
  <2> QED
    BY <1>1, <1>7, <1>8, <1>9, Zenon
<1>11. seg # LastAck /\ Tail(q) = <<>> => UnderWay(y, <<LastAck>>)'
  <2> SUFFICES ASSUME seg # LastAck, Tail(q) = <<>>
               PROVE  (\A z \in Ends \ {y} : wire'[z] = <<>>) /\ wire'[y] = <<LastAck>>
    BY <1>1, <1>2, Zenon DEF UnderWay
  <2> QED
    BY <1>1, <1>6, <1>8, <1>9, Short, Zenon
<1> QED
  BY <1>1, <1>8, <1>10, <1>11, Zenon DEF EndIs, e

\* With nothing under way, the wires are empty and no handler runs.
LEMMA NothingUnderWay ==
    ASSUME Shape, NEW x \in Ends, UnderWay(x, <<>>)
    PROVE  (\A z \in Ends : wire[z] = <<>>) /\ \A p \in Cpus : segment[p] = None /\ ~Handle(p)
<1>1. \A z \in Ends : wire[z] = <<>> /\ \A p \in Cpus : ~From(p, z)
  BY Zenon DEF UnderWay
<1>2. \A p \in Cpus : segment[p] = None
  BY <1>1, Zenon DEF Shape, FlowTypeOK, PacketType, From
<1>3. \A p \in Cpus : ~Handle(p)
  <2> SUFFICES ASSUME NEW p \in Cpus, Handle(p) PROVE FALSE
    BY Zenon
  <2>1. cpu[p].pc # "idle"
    BY HandleOutcome, Zenon
  <2> QED
    BY <1>2, <2>1, Busy, Zenon
<1> QED
  BY <1>1, <1>2, <1>3, Zenon

\* A handler's step takes an orderly close to its next stage.
LEMMA StageHandle ==
    ASSUME Shape, NEW b \in Backends, NEW x, NEW y, Pair(b, x, y), Stages(b, x, y), NEW p \in Cpus, Handle(p)
    PROVE  Stages(b, x, y)' /\ \A z \in Ends \ {x, y} : end'[z] = end[z]
<1>1. x \in Ends /\ y \in Ends /\ x # y /\ Pair(b, y, x)
  BY PairEnds, Zenon DEF Pair
<1>2. CASE /\ UnderWay(x, <<FirstFin>>) /\ TrackedAs(b, "Established")
           /\ EndIs(x, TRUE, FALSE, FALSE) /\ EndIs(y, FALSE, FALSE, FALSE)
  <2>1. /\ EndIs(y, FALSE, FALSE \/ (FALSE /\ FirstFin.acksFin), FALSE \/ FirstFin.kind = "FIN")'
        /\ \A z \in Ends \ {y} : end'[z] = end[z]
        /\ Conn' = Updated(Conn, Header(FirstFin.kind), Conn)
        /\ UnderWay(y, <<LastAck>>)'
    <3>1. /\ UnderWay(x, <<FirstFin>>) /\ Conn # None /\ Conn.backend = b /\ EndIs(y, FALSE, FALSE, FALSE)
          /\ ~(FALSE /\ FALSE /\ FALSE) /\ FirstFin \in {FirstFin, SecondFin, LastAck}
          /\ Head(<<FirstFin>>) = FirstFin /\ FALSE \in BOOLEAN
      BY <1>2, Short, Zenon DEF TrackedAs
    <3>2. FirstFin # LastAck /\ Tail(<<FirstFin>>) = <<>>
      BY Short, ClosingSegments
    <3> QED
      BY <3>1, <3>2, OrderlyDelivers, ZenonT(30)
  <2>2. /\ (FALSE \/ (FALSE /\ FirstFin.acksFin)) = FALSE /\ (FALSE \/ FirstFin.kind = "FIN") = TRUE
        /\ FirstFin.kind = "FIN"
    BY ClosingSegments, Zenon
  <2>3. TrackedAs(b, "FinWait1")'
    BY <1>2, <2>1, <2>2, StateMoves, Zenon DEF TrackedAs
  <2>4. EndIs(y, FALSE, FALSE, TRUE)' /\ EndIs(x, TRUE, FALSE, FALSE)'
    BY <1>1, <1>2, <2>1, <2>2, Zenon DEF EndIs
  <2> QED
    BY <2>1, <2>3, <2>4, Zenon DEF Stages
<1>3. CASE /\ UnderWay(y, <<LastAck>>) /\ TrackedAs(b, "FinWait1")
           /\ EndIs(x, TRUE, FALSE, FALSE) /\ EndIs(y, FALSE, FALSE, TRUE)
  <2>1. /\ EndIs(x, TRUE, FALSE \/ (TRUE /\ LastAck.acksFin), FALSE \/ LastAck.kind = "FIN")'
        /\ \A z \in Ends \ {x} : end'[z] = end[z]
        /\ Conn' = Updated(Conn, Header(LastAck.kind), Conn)
        /\ UnderWay(y, Tail(<<LastAck>>))'
    <3>1. /\ UnderWay(y, <<LastAck>>) /\ Conn # None /\ Conn.backend = b /\ EndIs(x, TRUE, FALSE, FALSE)
          /\ ~(TRUE /\ FALSE /\ FALSE) /\ LastAck \in {FirstFin, SecondFin, LastAck}
          /\ Head(<<LastAck>>) = LastAck /\ TRUE \in BOOLEAN /\ FALSE \in BOOLEAN
      BY <1>3, Short, Zenon DEF TrackedAs
    <3> QED
      BY <1>1, <3>1, OrderlyDelivers, ZenonT(30)
  <2>2. /\ (FALSE \/ (TRUE /\ LastAck.acksFin)) = TRUE /\ (FALSE \/ LastAck.kind = "FIN") = FALSE
        /\ LastAck.kind = "ACK"
    BY ClosingSegments, Zenon
  <2>3. TrackedAs(b, "FinWait2")'
    BY <1>3, <2>1, <2>2, StateMoves, Zenon DEF TrackedAs
  <2>4. EndIs(x, TRUE, TRUE, FALSE)' /\ EndIs(y, FALSE, FALSE, TRUE)'
    BY <1>1, <1>3, <2>1, <2>2, Zenon DEF EndIs
  <2>5. UnderWay(y, <<>>)'
    BY <2>1, Short, Zenon
  <2> QED
    BY <2>1, <2>3, <2>4, <2>5, Zenon DEF Stages
<1>4. CASE /\ UnderWay(y, <<LastAck, SecondFin>>) /\ TrackedAs(b, "FinWait1")
           /\ EndIs(x, TRUE, FALSE, FALSE) /\ EndIs(y, TRUE, FALSE, TRUE)
  <2>1. /\ EndIs(x, TRUE, FALSE \/ (TRUE /\ LastAck.acksFin), FALSE \/ LastAck.kind = "FIN")'
        /\ \A z \in Ends \ {x} : end'[z] = end[z]
        /\ Conn' = Updated(Conn, Header(LastAck.kind), Conn)
        /\ UnderWay(y, Tail(<<LastAck, SecondFin>>))'
    <3>1. /\ UnderWay(y, <<LastAck, SecondFin>>) /\ Conn # None /\ Conn.backend = b /\ EndIs(x, TRUE, FALSE, FALSE)
          /\ ~(TRUE /\ FALSE /\ FALSE) /\ LastAck \in {FirstFin, SecondFin, LastAck}
          /\ Head(<<LastAck, SecondFin>>) = LastAck /\ TRUE \in BOOLEAN /\ FALSE \in BOOLEAN
      BY <1>4, Short, Zenon DEF TrackedAs
    <3> QED
      BY <1>1, <3>1, OrderlyDelivers, ZenonT(30)
  <2>2. /\ (FALSE \/ (TRUE /\ LastAck.acksFin)) = TRUE /\ (FALSE \/ LastAck.kind = "FIN") = FALSE
        /\ LastAck.kind = "ACK"
    BY ClosingSegments
  <2>3. TrackedAs(b, "FinWait2")'
    BY <1>4, <2>1, <2>2, StateMoves, Zenon DEF TrackedAs
  <2>4. EndIs(x, TRUE, TRUE, FALSE)' /\ EndIs(y, TRUE, FALSE, TRUE)'
    BY <1>1, <1>4, <2>1, <2>2, Zenon DEF EndIs
  <2>5. UnderWay(y, <<SecondFin>>)'
    BY <2>1, Short
  <2> QED
    BY <2>1, <2>3, <2>4, <2>5, Zenon DEF Stages
<1>5. CASE /\ UnderWay(y, <<SecondFin>>) /\ TrackedAs(b, "FinWait2")
           /\ EndIs(x, TRUE, TRUE, FALSE) /\ EndIs(y, TRUE, FALSE, TRUE)
  <2>1. /\ EndIs(x, TRUE, TRUE \/ (TRUE /\ SecondFin.acksFin), FALSE \/ SecondFin.kind = "FIN")'
        /\ \A z \in Ends \ {x} : end'[z] = end[z]
        /\ Conn' = Updated(Conn, Header(SecondFin.kind), Conn)
        /\ UnderWay(x, <<LastAck>>)'
    <3>1. /\ UnderWay(y, <<SecondFin>>) /\ Conn # None /\ Conn.backend = b /\ EndIs(x, TRUE, TRUE, FALSE)
          /\ ~(TRUE /\ TRUE /\ FALSE) /\ SecondFin \in {FirstFin, SecondFin, LastAck}
          /\ Head(<<SecondFin>>) = SecondFin /\ TRUE \in BOOLEAN /\ FALSE \in BOOLEAN
      BY <1>5, Short, Zenon DEF TrackedAs
    <3>2. SecondFin # LastAck /\ Tail(<<SecondFin>>) = <<>>
      BY Short, ClosingSegments, Zenon
    <3> QED
      BY <1>1, <3>1, <3>2, OrderlyDelivers, ZenonT(30)
  <2>2. /\ (TRUE \/ (TRUE /\ SecondFin.acksFin)) = TRUE /\ (FALSE \/ SecondFin.kind = "FIN") = TRUE
        /\ SecondFin.kind = "FIN"
    BY ClosingSegments, Zenon
  <2>3. TrackedAs(b, "TimeWait")'
    BY <1>5, <2>1, <2>2, StateMoves, Zenon DEF TrackedAs
  <2>4. EndIs(x, TRUE, TRUE, TRUE)' /\ EndIs(y, TRUE, FALSE, TRUE)'
    BY <1>1, <1>5, <2>1, <2>2, Zenon DEF EndIs
  <2> QED
    BY <2>1, <2>3, <2>4, Zenon DEF Stages, Finished
<1>6. CASE /\ UnderWay(x, <<LastAck>>) /\ TrackedAs(b, "TimeWait")
           /\ Finished(x) /\ EndIs(y, TRUE, FALSE, TRUE)
  <2>1. /\ EndIs(y, TRUE, FALSE \/ (TRUE /\ LastAck.acksFin), TRUE \/ LastAck.kind = "FIN")'
        /\ \A z \in Ends \ {y} : end'[z] = end[z]
        /\ Conn' = Updated(Conn, Header(LastAck.kind), Conn)
        /\ UnderWay(x, Tail(<<LastAck>>))'
    <3>1. /\ UnderWay(x, <<LastAck>>) /\ Conn # None /\ Conn.backend = b /\ EndIs(y, TRUE, FALSE, TRUE)
          /\ ~(TRUE /\ FALSE /\ TRUE) /\ LastAck \in {FirstFin, SecondFin, LastAck}
          /\ Head(<<LastAck>>) = LastAck /\ TRUE \in BOOLEAN /\ FALSE \in BOOLEAN
      BY <1>6, Short, Zenon DEF TrackedAs
    <3> QED
      BY <1>1, <3>1, OrderlyDelivers, ZenonT(30)
  <2>2. /\ (FALSE \/ (TRUE /\ LastAck.acksFin)) = TRUE /\ (TRUE \/ LastAck.kind = "FIN") = TRUE
        /\ LastAck.kind = "ACK"
    BY ClosingSegments, Zenon
  <2>3. Conn' = None
    BY <1>6, <2>1, <2>2, StateMoves, Zenon
  <2>4. Finished(x)' /\ Finished(y)'
    BY <1>1, <1>6, <2>1, <2>2, Zenon DEF EndIs, Finished
  <2>5. UnderWay(x, <<>>)'
    BY <2>1, Short, Zenon
  <2> QED
    BY <2>1, <2>3, <2>4, <2>5, Zenon DEF Stages
<1>7. ~UnderWay(x, <<>>) /\ ~UnderWay(y, <<>>)
  BY <1>1, NothingUnderWay, Zenon
<1> QED
  BY <1>2, <1>3, <1>4, <1>5, <1>6, <1>7, Zenon DEF Stages

\* A segment that arrives leaves an orderly close at its stage.
LEMMA StageTakes ==
    ASSUME Shape, NEW b \in Backends, NEW x, NEW y, Pair(b, x, y), Stages(b, x, y), NEW p \in Cpus,
           FromClient(p) \/ \E c \in Backends : FromBackend(p, c)
    PROVE  Stages(b, x, y)' /\ end' = end
<1>1. x \in Ends /\ y \in Ends /\ x # y /\ Pair(b, y, x)
  BY PairEnds, Zenon DEF Pair
<1>2. \E z \in Ends : wire[z] # <<>>
  BY Basics, Zenon DEF FromClient, FromBackend, Arrive
<1>3. ~UnderWay(x, <<>>)
  BY <1>1, <1>2, NothingUnderWay, Zenon
<1>4. Conn # None
  BY <1>3, Zenon DEF Stages, TrackedAs
<1>5. ASSUME NEW z \in {x, y}, NEW seg \in {FirstFin, SecondFin, LastAck}, UnderWay(z, <<seg>>)
      PROVE  UnderWay(z, <<seg>>)' /\ end' = end /\ Conn' = Conn
  <2>1. <<seg>> # <<>> => ~IsRst(Head(<<seg>>))
    BY Short, ClosingSegments, Zenon
  <2>2. \E w : Pair(b, z, w)
    BY <1>1, Zenon
  <2> QED
    BY <1>4, <1>5, <2>1, <2>2, OrderlyTakes, Zenon
<1>6. UnderWay(y, <<LastAck, SecondFin>>) => UnderWay(y, <<LastAck, SecondFin>>)' /\ end' = end /\ Conn' = Conn
  <2>1. <<LastAck, SecondFin>> # <<>> => ~IsRst(Head(<<LastAck, SecondFin>>))
    BY Short, ClosingSegments, Zenon
  <2> QED
    BY <1>1, <1>4, <2>1, OrderlyTakes, Zenon
<1>7. ~UnderWay(y, <<>>)
  BY <1>1, <1>2, NothingUnderWay, Zenon
<1> QED
  BY <1>3, <1>5, <1>6, <1>7, Zenon DEF Stages, TrackedAs, EndIs, Finished

\* One more segment under way.
LEMMA UnderWayMore ==
    ASSUME NEW x \in Ends, NEW q, NEW seg, NEW r, UnderWay(x, q), r = Append(q, seg),
           q # <<>> => r # <<>> /\ Head(r) = Head(q) /\ Tail(r) = Append(Tail(q), seg),
           wire'[x] = Append(wire[x], seg), \A z \in Ends \ {x} : wire'[z] = wire[z],
           UNCHANGED <<segment, cpu>>, Conn' = Conn
    PROVE  UnderWay(x, r)'
  BY Zenon DEF UnderWay, From

\* An end that has received a FIN and sent none.
HalfClosed == OpenEnd(FALSE, FALSE, TRUE)

\* The second FIN, which acknowledges the first.
LEMMA StageCloses ==
    ASSUME Shape, NEW b \in Backends, NEW x, NEW y, Pair(b, x, y), Stages(b, x, y),
           end[y] = HalfClosed, Close(y), UNCHANGED <<mapVars, cpu>>
    PROVE  Stages(b, x, y)' /\ \A w \in Ends \ {x, y} : end'[w] = end[w]
<1>1. x \in Ends /\ y \in Ends /\ x # y /\ EndIs(y, FALSE, FALSE, TRUE)
  BY PairEnds, Zenon DEF EndIs, HalfClosed
<1> DEFINE e == [end[y] EXCEPT !.finSent = TRUE]
<1>2. end[y] \in EndType /\ end[y].phase = "open" /\ end[y].finAcked = FALSE /\ end[y].finRcvd = TRUE
  <2>1. end[y] \in EndType
    BY <1>1, Zenon DEF Shape, FlowTypeOK
  <2> QED
    BY <1>1, <2>1 DEF EndIs, OpenEnd
<1>3. e \in EndType /\ e.phase = "open" /\ e.finSent = TRUE /\ e.finAcked = FALSE /\ e.finRcvd = TRUE
  BY <1>2, Zenon DEF EndType
<1>4. Sends(y, e, "FIN") /\ UNCHANGED <<segment, cpu>> /\ Conn' = Conn
  BY Zenon DEF Close, mapVars, Conn
<1> HIDE DEF e
<1>5. e = OpenEnd(TRUE, FALSE, TRUE)
  <2>1. OpenEnd(TRUE, FALSE, TRUE) \in EndType
    BY DEF OpenEnd, EndType
  <2> QED
    BY <1>3, <2>1, SameEnd, Zenon DEF OpenEnd
<1>6. Segment(e, "FIN") = SecondFin
  BY <1>3, Zenon DEF Segment, SecondFin
<1>7. /\ end'[y] = e /\ wire'[y] = Append(wire[y], SecondFin)
      /\ \A w \in Ends \ {y} : end'[w] = end[w] /\ wire'[w] = wire[w]
  <2>1. "FIN" \in Kinds
    BY DEF Kinds
  <2> QED
    BY <1>1, <1>3, <1>4, <1>6, <2>1, SendsOne
<1>8. EndIs(y, TRUE, FALSE, TRUE)' /\ end'[x] = end[x]
  BY <1>1, <1>5, <1>7, Zenon DEF EndIs
<1>9. CASE UnderWay(y, <<LastAck>>) /\ TrackedAs(b, "FinWait1") /\ EndIs(x, TRUE, FALSE, FALSE)
  <2>1. /\ Append(<<LastAck>>, SecondFin) = <<LastAck, SecondFin>>
        /\ Tail(<<LastAck, SecondFin>>) = Append(Tail(<<LastAck>>), SecondFin)
        /\ Head(<<LastAck, SecondFin>>) = Head(<<LastAck>>) /\ <<LastAck, SecondFin>> # <<>>
    BY Short
  <2>2. UnderWay(y, <<LastAck, SecondFin>>)'
    BY <1>1, <1>4, <1>7, <1>9, <2>1, UnderWayMore, Zenon
  <2> QED
    BY <1>4, <1>7, <1>8, <1>9, <2>2, Zenon DEF Stages, TrackedAs, EndIs
<1>10. CASE UnderWay(y, <<>>) /\ TrackedAs(b, "FinWait2") /\ EndIs(x, TRUE, TRUE, FALSE)
  <2>1. <<SecondFin>> = Append(<<>>, SecondFin)
    BY Short, Zenon
  <2>2. UnderWay(y, <<SecondFin>>)'
    BY <1>1, <1>4, <1>7, <1>10, <2>1, UnderWayMore, Zenon
  <2> QED
    BY <1>4, <1>7, <1>8, <1>10, <2>2, Zenon DEF Stages, TrackedAs, EndIs
<1>11. \/ UnderWay(y, <<LastAck>>) /\ TrackedAs(b, "FinWait1") /\ EndIs(x, TRUE, FALSE, FALSE)
       \/ UnderWay(y, <<>>) /\ TrackedAs(b, "FinWait2") /\ EndIs(x, TRUE, TRUE, FALSE)
  <2>1. end[y].finSent = FALSE /\ end[y].phase = "open"
    BY <1>1 DEF EndIs, OpenEnd
  <2>2. ~EndIs(y, TRUE, FALSE, TRUE) /\ ~EndIs(y, TRUE, TRUE, TRUE) /\ end[y] # Closed
    BY <2>1 DEF EndIs, OpenEnd, Closed
  <2>3. ~EndIs(y, FALSE, FALSE, FALSE)
    BY <1>2 DEF EndIs, OpenEnd
  <2> QED
    BY <2>2, <2>3, Zenon DEF Stages, Finished
<1> QED
  BY <1>7, <1>9, <1>10, <1>11, Zenon

\* With a segment under way, the node and the wires are not quiet.
LEMMA NotQuiet ==
    ASSUME Shape, NEW x \in Ends, NEW seg, UnderWay(x, <<seg>>)
    PROVE  ~Quiet
<1>1. <<seg>> # <<>>
  BY Short, Zenon
<1>2. \A p \in Cpus : At(p, "idle") => segment[p] = None
  BY DEF Shape, FlowTypeOK
<1> QED
  BY <1>1, <1>2, Zenon DEF UnderWay, Quiet, From

\* The end of TIME_WAIT at an end that is finished.
LEMMA StageForgets ==
    ASSUME Shape, NEW b \in Backends, NEW x, NEW y, Pair(b, x, y), Stages(b, x, y),
           NEW z \in {x, y}, Forget(z), UNCHANGED <<mapVars, cpu>>
    PROVE  Stages(b, x, y)' /\ \A w \in Ends \ {x, y} : end'[w] = end[w]
<1>1. x \in Ends /\ y \in Ends /\ x # y
  BY PairEnds, Zenon
<1>2. /\ end'[z] = Closed /\ (\A w \in Ends \ {z} : end'[w] = end[w]) /\ z # Client
      /\ Done(end[z]) /\ UNCHANGED <<wire, segment, cpu>> /\ Conn' = Conn
  BY <1>1, Zenon DEF Forget, Shape, FlowTypeOK, mapVars, Conn
<1>3. \A w, q : UnderWay(w, q) => UnderWay(w, q)'
  BY <1>2, ZenonT(30) DEF UnderWay, From
<1>4. \A f, a, c : EndIs(z, f, a, c) => f = TRUE /\ a = TRUE /\ c = TRUE
  <2> SUFFICES ASSUME NEW f, NEW a, NEW c, EndIs(z, f, a, c)
               PROVE  f = TRUE /\ a = TRUE /\ c = TRUE
    BY Zenon
  <2>1. end[z] \in EndType /\ end[z].finSent /\ end[z].finAcked /\ end[z].finRcvd
    BY <1>1, <1>2, Zenon DEF Done, Shape, FlowTypeOK
  <2>2. end[z].finSent = TRUE /\ end[z].finAcked = TRUE /\ end[z].finRcvd = TRUE
    BY <2>1, Zenon DEF EndType
  <2> QED
    BY <2>2 DEF EndIs, OpenEnd
<1>5. /\ ~EndIs(z, TRUE, FALSE, FALSE) /\ ~EndIs(z, FALSE, FALSE, FALSE) /\ ~EndIs(z, FALSE, FALSE, TRUE)
      /\ ~EndIs(z, TRUE, FALSE, TRUE) /\ ~EndIs(z, TRUE, TRUE, FALSE)
  BY <1>4, Zenon
<1>6. CASE UnderWay(x, <<LastAck>>) /\ TrackedAs(b, "TimeWait") /\ Finished(x) /\ EndIs(y, TRUE, FALSE, TRUE)
  <2>1. z = x
    BY <1>5, <1>6, Zenon
  <2>2. Finished(x)' /\ EndIs(y, TRUE, FALSE, TRUE)'
    BY <1>1, <1>2, <1>6, <2>1, Zenon DEF Finished, EndIs
  <2> QED
    BY <1>2, <1>3, <1>6, <2>2, Zenon DEF Stages, TrackedAs
<1>7. CASE UnderWay(x, <<>>) /\ Conn = None /\ Finished(x) /\ Finished(y)
  <2>1. Finished(x)' /\ Finished(y)'
    BY <1>1, <1>2, <1>7, Zenon DEF Finished, EndIs
  <2> QED
    BY <1>2, <1>3, <1>7, <2>1, Zenon DEF Stages
<1> QED
  BY <1>2, <1>5, <1>6, <1>7, Zenon DEF Stages

\* What the ends can do in an orderly close that leaves it orderly.
LEMMA StageEnds ==
    ASSUME Shape, NEW b \in Backends, NEW x, NEW y, Pair(b, x, y), Stages(b, x, y),
           \A c \in Backends \ {b} : end[c] = Closed,
           history = {"fin"}, history' = {"fin"}, EndsNext, UNCHANGED <<mapVars, cpu>>
    PROVE  Stages(b, x, y)' /\ \A w \in Ends \ {x, y} : end'[w] = end[w]
<1>1. x \in Ends /\ y \in Ends /\ x # y /\ \A z \in Ends \ {x, y} : end[z] = Closed
  BY PairEnds, Zenon
<1>2. Closed.phase = "closed" /\ ~Done(Closed) /\ Closed.finSent = FALSE
  BY Zenon DEF Closed, Done
<1>3. \A z \in Ends : \A f, a, c : EndIs(z, f, a, c) => end[z].phase = "open" /\ end[z].finSent = f /\ end[z].finRcvd = c
  BY DEF EndIs, OpenEnd
<1>4. end[Client].phase = "open"
  BY <1>1, <1>3, Zenon DEF Pair, Stages, Finished
<1>5. PICK z \in Ends : Close(z) \/ Forget(z)
  <2>1. ~Connect
    BY <1>4, Zenon DEF Connect
  <2>2. \A z \in Ends : ~Send(z) /\ ~Abort(z) /\ ~Retransmit(z) /\ ~Lose(z)
    <3> SUFFICES ASSUME NEW z \in Ends PROVE ~Send(z) /\ ~Abort(z) /\ ~Retransmit(z) /\ ~Lose(z)
      BY Zenon
    <3>1. "fin" \in history /\ "disorder" \notin history' /\ "abort" \notin history'
          /\ "repeat" \notin history' /\ "loss" \notin history'
      BY Zenon
    <3> QED
      BY <3>1, Zenon DEF Send, Abort, Retransmit, Lose, Note
  <2> QED
    BY <2>1, <2>2, Zenon DEF EndsNext
<1>6. z \in {x, y}
  BY <1>1, <1>2, <1>5, Zenon DEF Close, Forget
<1>7. CASE Forget(z)
  BY <1>6, <1>7, StageForgets
<1>8. CASE Close(z)
  <2>1. end[z].phase = "open" /\ ~end[z].finSent
    BY <1>8, Zenon DEF Close
  <2>2. \A a, c : ~EndIs(z, TRUE, a, c)
    <3> SUFFICES ASSUME NEW a, NEW c, EndIs(z, TRUE, a, c) PROVE FALSE
      BY Zenon
    <3>1. end[z].finSent = TRUE
      BY <1>3, Zenon
    <3> QED
      BY <2>1, <3>1, Zenon
  <2>3. ~Finished(z) /\ ~EndIs(z, TRUE, FALSE, FALSE) /\ ~EndIs(z, TRUE, TRUE, FALSE) /\ ~EndIs(z, TRUE, FALSE, TRUE)
    BY <1>2, <2>1, <2>2, Zenon DEF Finished
  <2>4. z = y /\ (EndIs(y, FALSE, FALSE, TRUE) \/ (EndIs(y, FALSE, FALSE, FALSE) /\ UnderWay(x, <<FirstFin>>)))
    BY <1>6, <2>3, Zenon DEF Stages
  <2>5. EndIs(y, FALSE, FALSE, TRUE)
    <3>1. end[z].finRcvd \/ Quiet
      BY <1>8 DEF Close, Note
    <3>2. UnderWay(x, <<FirstFin>>) => ~Quiet
      BY <1>1, NotQuiet, Zenon
    <3>3. EndIs(y, FALSE, FALSE, FALSE) => end[y].finRcvd = FALSE
      BY <1>1, <1>3, Zenon
    <3> QED
      BY <2>4, <3>1, <3>2, <3>3, Zenon
  <2> QED
    <3>1. Close(y) /\ end[y] = HalfClosed
      BY <1>8, <2>4, <2>5, Zenon DEF EndIs, HalfClosed
    <3> QED
      BY <3>1, StageCloses
<1> QED
  BY <1>5, <1>7, <1>8, Zenon

\* The first FIN of an orderly close finds both ends open and the connection tracked.
LEMMA OrderlyStarts ==
    ASSUME Shape, Live, Calm, history = {}, history' = {"fin"}, EndsNext, UNCHANGED <<mapVars, cpu>>
    PROVE  \E b \in Backends : Orderly(b)'
<1>1. PICK x \in Ends : Close(x)
  <2>1. "fin" \notin history /\ "fin" \in history' /\ "repeat" \notin history'
        /\ "abort" \notin history' /\ "loss" \notin history'
    OBVIOUS
  <2> QED
    BY <2>1, Zenon DEF EndsNext, Connect, Send, Abort, Retransmit, Forget, Lose, Note
<1>2. /\ end[x].phase = "open" /\ Sends(x, [end[x] EXCEPT !.finSent = TRUE], "FIN")
      /\ end[x].finRcvd \/ Quiet
      /\ UNCHANGED <<segment, cpu>> /\ Conn' = Conn
  <2>1. "disorder" \notin history'
    BY Zenon
  <2> QED
    BY <1>1, <2>1, Zenon DEF Close, Note, mapVars, Conn
<1>3. /\ \A z \in Ends : wire[z] = <<>> /\ end[z] \in EndType /\ Range(wire[z]) = {}
      /\ \A p \in Cpus : segment[p] = None
  <2>1. Quiet
    BY <1>2, Zenon DEF Live, NoFin
  <2> QED
    BY <2>1, EmptyRange, Zenon DEF Quiet, Shape, FlowTypeOK
<1>4. \A z \in Ends : end[z].finSent = FALSE /\ end[z].finAcked = FALSE /\ end[z].finRcvd = FALSE
  BY <1>3, Zenon DEF Live, NoFin, EndType
<1>5. Conn # None /\ Conn \in Mapping /\ Conn.backend \in Backends /\ Conn.tcp_state = "Established"
  <2>1. Conn # None
    BY <1>2, Basics, Zenon DEF Calm, EntryStays, OthersUnused
  <2> QED
    BY <2>1, Basics, Zenon DEF Shape, Conn, Mapping, Live, NoFin
<1> DEFINE b == Conn.backend
<1>6. end[Client].phase = "open" /\ end[b].phase = "open" /\ x \in {Client, b}
  <2>1. CASE x = Client
    <3>1. end[b].phase # "opening"
      BY <1>2, <1>3, <1>5, <2>1, Basics, Zenon DEF Calm, AckUnderWay, From
    <3> QED
      BY <1>2, <1>5, <2>1, <3>1, Zenon DEF Calm, EntryStays
  <2>2. CASE x # Client
    <3>1. x = b
      BY <1>2, <2>2, Basics, Zenon DEF Calm, OthersUnused
    <3>2. end[Client].phase \notin {"reset", "closed", "opening"}
      BY <1>2, <1>5, <2>2, <3>1, Basics, Zenon DEF Calm, NoRst, ClientClosed, ClientOpening
    <3> QED
      BY <1>2, <1>3, <3>1, <3>2, Basics, Zenon DEF EndType
  <2> QED
    BY <2>1, <2>2, Zenon
<1>7. PICK y : Pair(b, x, y)
  BY <1>6, Basics, Zenon DEF Pair
<1>8. x \in Ends /\ y \in Ends /\ x # y /\ \A z \in Ends \ {x, y} : z \in Backends \ {b}
  BY <1>5, <1>7, PairEnds, Zenon
<1>9. \A c \in Backends \ {b} : end[c] = Closed
  <2> SUFFICES ASSUME NEW c \in Backends \ {b} PROVE end[c] = Closed
    BY Zenon
  <2>1. end[c].phase = "closed" /\ c \in Ends
    BY Basics, Zenon DEF Calm, OthersUnused
  <2>2. Closed \in EndType
    BY DEF Closed, EndType
  <2> QED
    BY <1>3, <1>4, <2>1, <2>2, SameEnd, Zenon DEF Closed
<1>10. end[y] = OpenEnd(FALSE, FALSE, FALSE)
  <2>1. OpenEnd(FALSE, FALSE, FALSE) \in EndType
    BY DEF OpenEnd, EndType
  <2> QED
    BY <1>3, <1>4, <1>6, <1>7, <1>8, <2>1, SameEnd, Zenon DEF OpenEnd, Pair
<1> DEFINE e == [end[x] EXCEPT !.finSent = TRUE]
<1>11. e \in EndType /\ e.phase = "open" /\ e.finSent = TRUE /\ e.finAcked = FALSE /\ e.finRcvd = FALSE
  BY <1>2, <1>3, <1>4, Zenon DEF EndType
<1> HIDE DEF e
<1>12. e = OpenEnd(TRUE, FALSE, FALSE)
  <2>1. OpenEnd(TRUE, FALSE, FALSE) \in EndType
    BY DEF OpenEnd, EndType
  <2> QED
    BY <1>11, <2>1, SameEnd, Zenon DEF OpenEnd
<1>13. Segment(e, "FIN") = FirstFin
  BY <1>11, Zenon DEF Segment, FirstFin
<1>14. /\ end'[x] = e /\ wire'[x] = <<FirstFin>>
       /\ \A z \in Ends \ {x} : end'[z] = end[z] /\ wire'[z] = <<>>
  <2>1. "FIN" \in Kinds /\ Sends(x, e, "FIN")
    BY <1>2, Zenon DEF Kinds, e
  <2>2. /\ end'[x] = e /\ wire'[x] = Append(wire[x], Segment(e, "FIN"))
        /\ \A z \in Ends \ {x} : end'[z] = end[z] /\ wire'[z] = wire[z]
    BY <1>8, <1>11, <2>1, SendsOne
  <2> QED
    BY <1>3, <1>8, <1>13, <2>2, Short, Zenon
<1> HIDE DEF b
<1>15. UnderWay(x, <<FirstFin>>)'
  BY <1>2, <1>3, <1>14, Zenon DEF UnderWay, From
<1>16. EndIs(x, TRUE, FALSE, FALSE)' /\ EndIs(y, FALSE, FALSE, FALSE)'
  BY <1>8, <1>10, <1>12, <1>14, Zenon DEF EndIs
<1>17. b \in Backends /\ \A bb : b = bb => TrackedAs(bb, "Established")'
  BY <1>2, <1>5, Zenon DEF TrackedAs, b
<1>18. PICK c \in Backends : c = b
  BY <1>17, Zenon
<1>19. Stages(c, x, y)'
  BY <1>15, <1>16, <1>17, <1>18, Zenon DEF Stages
<1>20. \A d \in Backends \ {c} : end'[d] = Closed
  BY <1>7, <1>9, <1>14, <1>18, Basics, Zenon DEF Pair
<1>21. Orderly(c)'
  BY <1>7, <1>18, <1>19, <1>20, Zenon DEF Orderly, Pair
<1> QED
  BY <1>21, Zenon

\* Nothing of the connection changes.
LEMMA OrderlyStutter ==
    ASSUME NEW b, Orderly(b), Conn' = Conn, UNCHANGED <<cpu, end, wire, segment>>
    PROVE  Orderly(b)'
<1>1. \A x, q : UnderWay(x, q) => UnderWay(x, q)'
  BY Zenon DEF UnderWay, From
<1>2. \A x, y : Stages(b, x, y) => Stages(b, x, y)'
  BY <1>1, ZenonT(30) DEF Stages, TrackedAs, EndIs, Finished
<1> QED
  BY <1>2, Zenon DEF Orderly

\* The node's steps in an orderly close.
LEMMA OrderlyNode ==
    ASSUME Shape, NEW b \in Backends, Orderly(b), NEW p \in Cpus, NodeNext(p)
    PROVE  Orderly(b)'
<1>1. PICK x, y : Pair(b, x, y) /\ Stages(b, x, y)
  BY DEF Orderly, Pair
<1>2. x \in Ends /\ y \in Ends /\ {x, y} = {Client, b}
  BY <1>1, PairEnds DEF Pair
<1>3. Stages(b, x, y)' /\ \A z \in Ends \ {x, y} : end'[z] = end[z]
  <2>1. CASE FromClient(p) \/ \E c \in Backends : FromBackend(p, c)
    BY <1>1, <2>1, StageTakes, Zenon
  <2>2. ASSUME NEW c \in Backends, FromUntracked(p, c) PROVE FALSE
    <3>1. Conn = None /\ wire[c] # <<>> /\ c \in Ends
      BY <2>2, Basics, Zenon DEF FromUntracked, Conn
    <3>2. UnderWay(x, <<>>)
      BY <1>1, <3>1, Zenon DEF Stages, TrackedAs
    <3> QED
      BY <1>2, <3>1, <3>2, NothingUnderWay, Zenon
  <2>3. CASE Handle(p)
    BY <1>1, <2>3, StageHandle
  <2> QED
    BY <2>1, <2>2, <2>3, Zenon DEF NodeNext
<1>4. \A c \in Backends \ {b} : end'[c] = Closed
  BY <1>2, <1>3, Basics, Zenon DEF Orderly
<1> QED
  BY <1>1, <1>3, <1>4, Zenon DEF Orderly, Pair

\* Orderly is kept by every step, and starts with the first FIN.
LEMMA OrderlyStep ==
    ASSUME IInv, [FlowNext]_vars
    PROVE  OrderlyInv'
<1> SUFFICES ASSUME history' = {"fin"} PROVE \E b \in Backends : Orderly(b)'
  BY Zenon DEF OrderlyInv
<1>1. Shape /\ history \subseteq history' /\ (~(EndsNext /\ UNCHANGED <<mapVars, cpu>>) => history' = history)
  BY HistoryGrows, Zenon DEF IInv
<1>2. CASE history = {}
  <2>1. EndsNext /\ UNCHANGED <<mapVars, cpu>>
    BY <1>1, <1>2, Zenon
  <2>2. Live /\ Calm
    BY <1>2, Zenon DEF IInv, LiveInv, CalmInv
  <2> QED
    BY <1>1, <1>2, <2>1, <2>2, OrderlyStarts, Zenon
<1>3. CASE history = {"fin"}
  <2>1. PICK b \in Backends : Orderly(b)
    BY <1>3, Zenon DEF IInv, OrderlyInv
  <2>2. CASE UNCHANGED vars
    <3>1. Conn' = Conn /\ UNCHANGED <<cpu, end, wire, segment>>
      BY <2>2, Zenon DEF vars, flowVars, mapVars, Conn
    <3> QED
      BY <2>1, <3>1, OrderlyStutter, Zenon
  <2>3. CASE OthersConnect
    BY <1>1, <2>1, <2>3, OthersShape, OrderlyStutter, Zenon
  <2>4. CASE \E p \in Cpus : NodeNext(p)
    BY <1>1, <2>1, <2>4, OrderlyNode, Zenon
  <2>5. CASE EndsNext /\ UNCHANGED <<mapVars, cpu>>
    <3>1. PICK x, y : Pair(b, x, y) /\ Stages(b, x, y)
      BY <2>1, Zenon DEF Orderly, Pair
    <3>2. Stages(b, x, y)' /\ \A z \in Ends \ {x, y} : end'[z] = end[z]
      BY <1>1, <1>3, <2>1, <2>5, <3>1, StageEnds DEF Orderly
    <3>3. \A c \in Backends \ {b} : end'[c] = Closed
      BY <2>1, <3>1, <3>2, Basics, Zenon DEF Orderly, Pair
    <3>4. Orderly(b)'
      BY <3>1, <3>2, <3>3, Zenon DEF Orderly, Pair
    <3> QED
      BY <3>4, Zenon
  <2> QED
    BY <2>2, <2>3, <2>4, <2>5, Zenon DEF FlowNext
<1> QED
  BY <1>1, <1>2, <1>3, Zenon

-----------------------------------------------------------------------------
\* The theorems.

\* The invariant is inductive.
LEMMA Inductive == IInv /\ [FlowNext]_vars => IInv'
<1> SUFFICES ASSUME IInv, [FlowNext]_vars PROVE IInv'
  OBVIOUS
<1>1. Shape'
  BY ShapeStep, Zenon DEF IInv
<1>2. LiveInv' /\ CalmInv' /\ AbortedInv'
  BY LiveStep, Zenon DEF IInv
<1>3. OrderlyInv'
  BY OrderlyStep, Zenon
<1> QED
  BY <1>1, <1>2, <1>3, Zenon DEF IInv

\* It holds in every behaviour.
LEMMA Invariant == FlowSpec => []IInv
  BY InitInv, Inductive, PTL DEF FlowSpec

\* Every value the maps, the programs, the wires and the ends have is of its type, and
\* exactly the CPUs that run a handler have a segment.
THEOREM TypeCorrect == FlowSpec => []FlowTypeOK
<1>1. IInv => FlowTypeOK
  BY Zenon DEF IInv, Shape
<1> QED
  BY <1>1, Invariant, PTL

\* handle_tcp_ingress, the egress program and whatever happens on the wires keep a
\* connection that is open at the client tracked to the backend that has its other
\* end, for any number of backends, CPUs, losses and retransmissions.
THEOREM OpenStaysTracked == FlowSpec => []OpenIsTracked
<1>1. IInv => OpenIsTracked
  BY Zenon DEF IInv, CalmInv, Calm, EntryStays, OpenIsTracked, Conn
<1> QED
  BY <1>1, Invariant, PTL

\* The RST of an abort, or the one drawn by a segment that was taken for a new
\* connection's, removes the entry that handle_tcp_ingress made.
THEOREM AbortForgets == FlowSpec => []AbortedIsForgotten
<1>1. IInv => AbortedIsForgotten
  <2> SUFFICES ASSUME IInv, Quiet, "abort" \in history, history \cap {"fin", "loss"} = {}
               PROVE  Conn = None
    BY Zenon DEF AbortedIsForgotten, Conn
  <2>1. Aborted /\ Shape
    BY Zenon DEF IInv, AbortedInv
  <2>2. /\ \A x \in Ends : Range(wire[x]) = {}
        /\ \A p \in Cpus : segment[p] = None
    BY <2>1, EmptyRange, Zenon DEF Quiet, Shape, FlowTypeOK
  <2> QED
    BY <2>1, <2>2, Zenon DEF Aborted, Pending
<1> QED
  BY <1>1, Invariant, PTL

\* process_tcp_state_transition ends the tracking of a connection that closes in order
\* with its last ACK, when both ends are done, whoever closes first.
THEOREM OrderlyCloseEnds == FlowSpec => []OrderlyCloseCompletes
<1>1. IInv => OrderlyCloseCompletes
  <2> SUFFICES ASSUME IInv, Quiet, history = {"fin"}, NEW c \in Backends,
                      end[Client].finSent, end[c].finSent
               PROVE  Over(Client) /\ Over(c) /\ Conn = None
    BY Zenon DEF OrderlyCloseCompletes, Conn
  <2>1. PICK b \in Backends : Orderly(b) /\ Shape
    BY Zenon DEF IInv, OrderlyInv
  <2>2. PICK x, y : Pair(b, x, y) /\ Stages(b, x, y)
    BY <2>1, Zenon DEF Orderly, Pair
  <2>3. x \in Ends /\ y \in Ends /\ {x, y} = {Client, b}
    BY <2>1, <2>2, PairEnds, Zenon DEF Pair
  <2>4. Closed.phase = "closed" /\ Closed.finSent = FALSE
    BY Zenon DEF Closed
  <2>5. c = b
    BY <2>1, <2>4, Zenon DEF Orderly
  <2>6. \A z \in {x, y} : \A seg : ~UnderWay(z, <<seg>>)
    BY <2>1, <2>3, NotQuiet, Zenon
  <2>7. ~UnderWay(y, <<LastAck, SecondFin>>)
    <3>1. <<LastAck, SecondFin>> # <<>>
      BY Short, Zenon
    <3>2. \A p \in Cpus : segment[p] = None
      BY <2>1, Zenon DEF Quiet, Shape, FlowTypeOK
    <3> QED
      BY <2>3, <3>1, <3>2, Zenon DEF Quiet, UnderWay, From
  <2>8. ~EndIs(y, FALSE, FALSE, TRUE)
    <3> SUFFICES ASSUME EndIs(y, FALSE, FALSE, TRUE) PROVE FALSE
      BY Zenon
    <3>1. end[y].finSent = FALSE
      BY DEF EndIs, OpenEnd
    <3> QED
      BY <2>3, <2>5, <3>1, Zenon
  <2>9. Conn = None /\ Finished(x) /\ Finished(y)
    BY <2>2, <2>6, <2>7, <2>8, Zenon DEF Stages
  <2>10. \A z : Finished(z) => Over(z)
    <3> SUFFICES ASSUME NEW z, Finished(z) PROVE Over(z)
      BY Zenon
    <3>1. CASE end[z] = Closed
      BY <2>4, <3>1, Zenon DEF Over
    <3>2. CASE EndIs(z, TRUE, TRUE, TRUE)
      <4>1. end[z].finSent = TRUE /\ end[z].finAcked = TRUE /\ end[z].finRcvd = TRUE
        BY <3>2 DEF EndIs, OpenEnd
      <4> QED
        BY <4>1, Zenon DEF Over, Done
    <3> QED
      BY <3>1, <3>2, Zenon DEF Finished
  <2> QED
    BY <2>3, <2>5, <2>9, <2>10
<1> QED
  BY <1>1, Invariant, PTL

=============================================================================
