------------------------- MODULE UdpTestServerProofs ------------------------
(***************************************************************************)
(* Proofs about UdpTestServer, for any number of workers, any addresses of *)
(* health checks, any limits and any number of faults.                     *)
(***************************************************************************)
EXTENDS UdpTestServer, FiniteSetTheorems, TLAPS

\* The workers that have notified the health server.
Notified == {w \in Ports : worker[w] \in {"serving", "stopped"}}

\* No notification is lost or counted twice: those that were sent are under way or
\* subtracted from wait_for, and the health server accepts as soon as none is missing.
Counted ==
    /\ Cardinality(Notified) = (Cardinality(Ports) - waitFor) + Len(channel)
    /\ health = "accepting" => waitFor = 0
    /\ health \in {"bind", "waiting"} => waitFor > 0

IInv == TypeOK /\ Counted /\ PeersBounded

-----------------------------------------------------------------------------
\* The set of ports is finite, and so are its subsets: their sizes are numbers, a
\* subset is no larger, and one as large is all of it.
LEMMA PortsFinite ==
    ASSUME NEW S \in SUBSET Ports
    PROVE  /\ IsFiniteSet(S) /\ Cardinality(S) \in Nat /\ Cardinality(Ports) \in Nat
           /\ Cardinality(S) <= Cardinality(Ports)
           /\ Cardinality(S) = Cardinality(Ports) => S = Ports
BY TestServerAssumption, FS_Subset, FS_CardinalityType

\* A worker that notifies is one more.
LEMMA OneMore ==
    ASSUME NEW S \in SUBSET Ports, NEW w \in Ports, w \notin S
    PROVE  Cardinality(S \cup {w}) = Cardinality(S) + 1
BY PortsFinite, FS_AddElement

\* Peers::add keeps the list within one above the limit and free of repetitions.
LEMMA AddBounded ==
    ASSUME NEW list \in Seq(Ips), NEW ip \in Ips,
           Len(list) <= PeerLimit + 1, IsInjective(list)
    PROVE  /\ Add(list, ip) \in Seq(Ips)
           /\ Len(Add(list, ip)) <= PeerLimit + 1
           /\ IsInjective(Add(list, ip))
<1> DEFINE kept == IF Len(list) > PeerLimit THEN <<>> ELSE list
<1>1. kept \in Seq(Ips) /\ Len(kept) <= PeerLimit /\ IsInjective(kept)
  BY TestServerAssumption DEF IsInjective
<1>2. Add(list, ip) = IF Contains(kept, ip) THEN kept ELSE Append(kept, ip)
  BY DEF Add
<1> HIDE DEF kept
<1>3. CASE Contains(kept, ip)
  BY <1>1, <1>2, <1>3, TestServerAssumption
<1>4. CASE ~Contains(kept, ip)
  <2>1. \A i \in 1 .. Len(kept) : kept[i] # ip
    BY <1>4 DEF Contains
  <2>2. /\ Append(kept, ip) \in Seq(Ips)
        /\ Len(Append(kept, ip)) = Len(kept) + 1
        /\ DOMAIN Append(kept, ip) = 1 .. Len(kept) + 1
        /\ \A i \in 1 .. Len(kept) : Append(kept, ip)[i] = kept[i]
        /\ Append(kept, ip)[Len(kept) + 1] = ip
    BY <1>1
  <2>3. \A i, j \in 1 .. Len(kept) : kept[i] = kept[j] => i = j
    BY <1>1 DEF IsInjective
  <2>4. IsInjective(Append(kept, ip))
    BY <1>1, <2>1, <2>2, <2>3 DEF IsInjective
  <2> QED
    BY <1>1, <1>2, <1>4, <2>2, <2>4, TestServerAssumption
<1> QED
  BY <1>3, <1>4

-----------------------------------------------------------------------------
\* Nothing is notified, heard or remembered at the start.
LEMMA InitInv == Init => IInv
<1> SUFFICES ASSUME Init PROVE IInv
  OBVIOUS
<1>1. Notified = {}
  BY DEF Init, Notified
<1>2. Cardinality(Notified) = 0 /\ Cardinality(Ports) \in Nat /\ Cardinality(Ports) # 0
  BY <1>1, FS_EmptySet, PortsFinite, TestServerAssumption
<1>3. /\ channel \in Seq(Ports) /\ Len(channel) = 0
      /\ pending \in Seq(Ips) /\ Len(pending) = 0
      /\ peers \in Seq(Ips) /\ Len(peers) = 0 /\ IsInjective(peers)
  BY DEF Init, IsInjective
<1>4. worker \in [Ports -> {"unspawned", "bind", "notify", "serving", "stopped", "failed"}]
  BY DEF Init
<1>5. TypeOK
  BY <1>2, <1>3, <1>4, TestServerAssumption DEF Init, TypeOK
<1>6. Counted
  BY <1>2, <1>3 DEF Init, Counted
<1>7. PeersBounded
  BY <1>3, TestServerAssumption DEF PeersBounded
<1> QED
  BY <1>5, <1>6, <1>7 DEF IInv

\* A step that leaves the notifications and their count alone.
LEMMA CountedKept ==
    ASSUME Counted, Notified' = Notified, UNCHANGED <<waitFor, channel>>,
           health' = "accepting" => health = "accepting",
           health' \in {"bind", "waiting"} => health \in {"bind", "waiting"}
    PROVE  Counted'
BY DEF Counted

\* A fault keeps to its bound.
LEMMA FaultBounded == TypeOK /\ Fault => faults' \in 0 .. MaxFaults
BY TestServerAssumption DEF TypeOK, Fault

\* What TypeOK and Counted say of the sizes involved: with a notification under way
\* one is still waited for, and there is room for those not yet sent.
LEMMA Sizes ==
    ASSUME TypeOK, Counted
    PROVE  /\ Cardinality(Ports) \in Nat /\ Cardinality(Notified) \in Nat
           /\ waitFor \in Nat /\ Len(channel) \in Nat
           /\ Len(channel) <= waitFor
<1>1. Notified \in SUBSET Ports
  BY DEF Notified
<1> QED
  BY <1>1, PortsFinite DEF TypeOK, Counted

\* Every step of a worker keeps the invariant.
LEMMA WorkerInv ==
    ASSUME IInv, NEW w \in Ports, RunServer(w) \/ Stop(w)
    PROVE  IInv'
<1> USE DEF IInv
<1>0. worker \in [Ports -> {"unspawned", "bind", "notify", "serving", "stopped", "failed"}]
  BY DEF TypeOK
<1>1. CASE Bind(w)
  <2>1. faults' \in 0 .. MaxFaults
    BY <1>1, FaultBounded DEF Bind, TypeOK
  <2>2. TypeOK' /\ PeersBounded'
    BY <1>0, <1>1, <2>1 DEF Bind, TypeOK, PeersBounded
  <2>3. Notified' = Notified
    BY <1>0, <1>1 DEF Bind, Notified
  <2> QED
    BY <1>1, <2>2, <2>3, CountedKept DEF Bind
<1>2. CASE Stop(w)
  <2>1. TypeOK' /\ PeersBounded'
    BY <1>0, <1>2, FaultBounded DEF Stop, TypeOK, PeersBounded
  <2>2. Notified' = Notified
    BY <1>0, <1>2 DEF Stop, Notified
  <2> QED
    BY <1>2, <2>1, <2>2, CountedKept DEF Stop
<1>3. CASE Notify(w) /\ health = "ended"
  <2>1. TypeOK' /\ PeersBounded'
    BY <1>0, <1>3 DEF Notify, TypeOK, PeersBounded
  <2>2. Notified' = Notified
    BY <1>0, <1>3 DEF Notify, Notified
  <2> QED
    BY <1>3, <2>1, <2>2, CountedKept DEF Notify
<1>4. CASE Notify(w) /\ health # "ended"
  <2>1. /\ worker[w] = "notify" /\ worker' = [worker EXCEPT ![w] = "serving"]
        /\ channel' = Append(channel, w) /\ Len(channel) < Cardinality(Ports)
        /\ UNCHANGED <<dryRun, health, waitFor, pending, peers, faults>>
    BY <1>4 DEF Notify
  <2>2. /\ channel' \in Seq(Ports) /\ Len(channel') = Len(channel) + 1
    BY <2>1 DEF TypeOK
  <2>3. TypeOK' /\ PeersBounded'
    <3>1. Len(channel') <= Cardinality(Ports)
      BY <2>1, <2>2, Sizes
    <3>2. worker' \in [Ports -> {"unspawned", "bind", "notify", "serving", "stopped", "failed"}]
      BY <1>0, <2>1
    <3> QED
      BY <2>1, <2>2, <3>1, <3>2 DEF TypeOK, PeersBounded
  <2>4. Notified' = Notified \cup {w} /\ w \notin Notified
    BY <1>0, <2>1 DEF Notified
  <2>5. Cardinality(Notified') = Cardinality(Notified) + 1
    BY <2>4, OneMore DEF Notified
  <2>6. Counted'
    <3>1. waitFor' = waitFor /\ health' = health
      BY <2>1
    <3>2. Cardinality(Notified) = (Cardinality(Ports) - waitFor) + Len(channel)
      BY DEF Counted
    <3>3. Cardinality(Notified') = (Cardinality(Ports) - waitFor') + Len(channel')
      BY <2>2, <2>5, <3>1, <3>2, Sizes
    <3> QED
      BY <3>1, <3>3 DEF Counted
  <2> QED
    BY <2>3, <2>6
<1> QED
  BY <1>1, <1>2, <1>3, <1>4 DEF RunServer

\* Every step of the health server, and every check that connects, keeps it.
LEMMA HealthInv ==
    ASSUME IInv, RunHealthServer \/ (\E ip \in Ips : Check(ip)) \/ UNCHANGED vars
    PROVE  IInv'
<1> USE DEF IInv
<1>1. CASE Listen
  <2>1. faults' \in 0 .. MaxFaults
    BY <1>1, FaultBounded DEF Listen, TypeOK
  <2>2. TypeOK' /\ PeersBounded' /\ Notified' = Notified
    BY <1>1, <2>1 DEF Listen, TypeOK, PeersBounded, Notified
  <2> QED
    BY <1>1, <2>2, CountedKept DEF Listen
<1>2. CASE Hear
  <2>1. channel' \in Seq(Ports) /\ Len(channel') = Len(channel) - 1 /\ Len(channel) > 0
    BY <1>2 DEF Hear, TypeOK
  <2>2. waitFor' = waitFor - 1 /\ waitFor > 0
    BY <1>2, <2>1, Sizes DEF Hear
  <2>3. TypeOK' /\ PeersBounded'
    BY <1>2, <2>1, <2>2, Sizes DEF Hear, TypeOK, PeersBounded
  <2>4. Notified' = Notified
    BY <1>2 DEF Hear, Notified
  <2>5. Counted'
    BY <1>2, <2>1, <2>2, <2>4, Sizes DEF Hear, Counted
  <2> QED
    BY <2>3, <2>5
<1>3. CASE Accept
  <2>1. /\ Head(pending) \in Ips /\ pending' \in Seq(Ips) /\ Len(pending') <= Backlog
    BY <1>3, TestServerAssumption DEF Accept, TypeOK
  <2>2. peers' \in Seq(Ips) /\ PeersBounded'
    BY <1>3, <2>1, AddBounded DEF Accept, TypeOK, PeersBounded
  <2>3. faults' \in 0 .. MaxFaults /\ health' \in {"accepting", "ended"}
    BY <1>3, FaultBounded DEF Accept, TypeOK
  <2>4. TypeOK' /\ Notified' = Notified
    BY <1>3, <2>1, <2>2, <2>3 DEF Accept, TypeOK, Notified
  <2> QED
    BY <1>3, <2>2, <2>3, <2>4, CountedKept DEF Accept
<1>4. ASSUME NEW ip \in Ips, Check(ip) PROVE IInv'
  <2>1. pending' \in Seq(Ips) /\ Len(pending') <= Backlog
    BY <1>4, TestServerAssumption DEF Check, TypeOK
  <2>2. TypeOK' /\ PeersBounded' /\ Notified' = Notified
    BY <1>4, <2>1 DEF Check, TypeOK, PeersBounded, Notified
  <2> QED
    BY <1>4, <2>2, CountedKept DEF Check
<1>5. CASE UNCHANGED vars
  <2>1. TypeOK' /\ PeersBounded' /\ Notified' = Notified
    BY <1>5 DEF vars, TypeOK, PeersBounded, Notified
  <2> QED
    BY <1>5, <2>1, CountedKept DEF vars
<1> QED
  BY <1>1, <1>2, <1>3, <1>4, <1>5 DEF RunHealthServer

\* IInv is an invariant of every behaviour.
LEMMA Invariance == Spec => []IInv
<1>1. IInv /\ [Next]_vars => IInv'
  BY WorkerInv, HealthInv DEF Next
<1> QED
  BY InitInv, <1>1, PTL DEF Spec

-----------------------------------------------------------------------------
\* Every variable keeps to its type: the channel never needs more room than it was
\* created with, so that no worker waits in send, and wait_for never passes zero.
THEOREM TypeCorrect == Spec => []TypeOK
<1>1. IInv => TypeOK
  BY DEF IInv
<1> QED
  BY Invariance, <1>1, PTL

\* The health server accepts a connection only after every worker has bound its
\* port: it has counted as many notifications as there are workers, none of them
\* twice, so that all of them have sent theirs.
THEOREM AcceptsOnlyWhenUp == Spec => []AcceptsAfterWorkers
<1>1. IInv => AcceptsAfterWorkers
  <2> SUFFICES ASSUME IInv, health = "accepting"
               PROVE  \A w \in Ports : worker[w] \in {"serving", "stopped"}
    BY DEF AcceptsAfterWorkers
  <2>1. Notified \in SUBSET Ports
    BY DEF Notified
  <2>2. Cardinality(Notified) = Cardinality(Ports)
    BY <2>1, Sizes, PortsFinite DEF IInv, Counted
  <2>3. Notified = Ports
    BY <2>1, <2>2, PortsFinite
  <2> QED
    BY <2>3 DEF Notified
<1> QED
  BY Invariance, <1>1, PTL

\* No worker is held up by a full channel, and the health server never waits for a
\* notification that all workers have already sent: those that notified are as many
\* as those it has heard and those under way, so that one who has not notified is
\* missing in both.
THEOREM NobodyIsStuck == Spec => []NobodyWaitsInVain
<1>1. IInv => NobodyWaitsInVain
  <2> SUFFICES ASSUME IInv PROVE NobodyWaitsInVain
    OBVIOUS
  <2>1. /\ Notified \in SUBSET Ports
        /\ Cardinality(Notified) = (Cardinality(Ports) - waitFor) + Len(channel)
    BY DEF IInv, Counted, Notified
  <2>2. /\ Cardinality(Ports) \in Nat /\ Cardinality(Notified) \in Nat
        /\ waitFor \in Nat /\ Len(channel) \in Nat /\ waitFor <= Cardinality(Ports)
    BY Sizes DEF IInv, TypeOK
  <2>3. ASSUME NEW w \in Ports, worker[w] = "notify" PROVE Len(channel) < Cardinality(Ports)
    <3>1. Notified # Ports
      BY <2>3 DEF Notified
    <3>2. Cardinality(Notified) < Cardinality(Ports)
      BY <2>1, <2>2, <3>1, PortsFinite
    <3> QED
      BY <2>1, <2>2, <3>2
  <2>4. ASSUME health = "waiting", channel = <<>>
        PROVE  \E w \in Ports : worker[w] \notin {"serving", "stopped"}
    <3>1. waitFor > 0 /\ Len(channel) = 0
      BY <2>4 DEF IInv, Counted
    <3>2. Cardinality(Notified) # Cardinality(Ports)
      BY <2>1, <2>2, <3>1
    <3>3. Notified # Ports
      BY <3>2
    <3> QED
      BY <3>3 DEF Notified
  <2> QED
    BY <2>3, <2>4 DEF NobodyWaitsInVain
<1> QED
  BY Invariance, <1>1, PTL

\* However many health checks connect, from however many addresses, at most one
\* peer more than the limit is remembered, and none twice.
THEOREM PeersStayBounded == Spec => []PeersBounded
<1>1. IInv => PeersBounded
  BY DEF IInv
<1> QED
  BY Invariance, <1>1, PTL
=============================================================================
