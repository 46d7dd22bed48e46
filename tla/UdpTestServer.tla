---------------------------- MODULE UdpTestServer ---------------------------
(***************************************************************************)
(* The UDP test server: three workers that each bind a UDP port and notify *)
(* the health server over a channel, and the health server, which accepts  *)
(* TCP connections once it has heard from all of them.  The tasks are      *)
(* spawned by a main that holds a sender of the channel to the end, so     *)
(* that it never closes.  A received datagram is printed, nothing else.    *)
(***************************************************************************)
EXTENDS Naturals, Sequences, SequencesExt

CONSTANTS
    Ports,      \* the ports of the workers
    Ips,        \* the addresses that health checks come from
    PeerLimit,  \* the number of remembered peers above which they are reset
    Backlog,    \* the connections that the kernel queues for accept
    MaxFaults   \* bound on the system calls that fail

ASSUME TestServerAssumption ==
    /\ IsFiniteSet(Ports) /\ Ports # {}
    /\ PeerLimit \in Nat /\ Backlog \in Nat /\ MaxFaults \in Nat

VARIABLES
    dryRun,   \* whether the program was started with --dry-run
    worker,   \* the progress of each worker
    channel,  \* the notifications that are under way
    health,   \* the progress of the health server
    waitFor,  \* its wait_for
    pending,  \* connections that the kernel has established and not handed over
    peers,    \* its peers
    faults

vars == <<dryRun, worker, channel, health, waitFor, pending, peers, faults>>

Init ==
    /\ dryRun \in BOOLEAN
    /\ worker = [w \in Ports |-> IF dryRun THEN "unspawned" ELSE "bind"]
    /\ channel = <<>>
    /\ health = "bind"
    /\ waitFor = Cardinality(Ports)
    /\ pending = <<>>
    /\ peers = <<>>
    /\ faults = 0

Fault ==
    /\ faults < MaxFaults
    /\ faults' = faults + 1

-----------------------------------------------------------------------------
\* run_server

Bind(w) ==
    /\ worker[w] = "bind"
    /\ \/ /\ worker' = [worker EXCEPT ![w] = "notify"]
          /\ UNCHANGED faults
       \/ /\ worker' = [worker EXCEPT ![w] = "failed"]
          /\ Fault
    /\ UNCHANGED <<dryRun, channel, health, waitFor, pending, peers>>

\* Defect: a worker sends its notification again and again.
NotifyTwice(w) ==
    /\ worker[w] = "notify"
    /\ channel' = channel \o <<w, w>>
    /\ worker' = [worker EXCEPT ![w] = "serving"]
    /\ UNCHANGED <<dryRun, health, waitFor, pending, peers, faults>>

\* The channel has room for all of them; the send fails if the receiver is gone.
Notify(w) ==
    /\ worker[w] = "notify"
    /\ \/ /\ health # "ended"
          /\ Len(channel) < Cardinality(Ports)
          /\ channel' = Append(channel, w)
          /\ worker' = [worker EXCEPT ![w] = "serving"]
       \/ /\ health = "ended"
          /\ worker' = [worker EXCEPT ![w] = "failed"]
          /\ UNCHANGED channel
    /\ UNCHANGED <<dryRun, health, waitFor, pending, peers, faults>>

\* recv_from fails, and the worker returns its error to nobody.
Stop(w) ==
    /\ worker[w] = "serving"
    /\ worker' = [worker EXCEPT ![w] = "stopped"]
    /\ Fault
    /\ UNCHANGED <<dryRun, channel, health, waitFor, pending, peers>>

-----------------------------------------------------------------------------
\* run_health_server

\* From here on the kernel establishes connections to the port.
Listen ==
    /\ health = "bind"
    /\ \/ health' = "waiting" /\ UNCHANGED faults
       \/ health' = "ended" /\ Fault
    /\ UNCHANGED <<dryRun, worker, channel, waitFor, pending, peers>>

\* Defect: one worker more is waited for than there are.
HearOneMore ==
    /\ health = "waiting"
    /\ channel # <<>>
    /\ waitFor > 0
    /\ channel' = Tail(channel)
    /\ waitFor' = waitFor - 1
    /\ UNCHANGED <<dryRun, worker, health, pending, peers, faults>>

\* Defect: one worker less is waited for than there are.
HearOneLess ==
    /\ health = "waiting"
    /\ channel # <<>>
    /\ channel' = Tail(channel)
    /\ waitFor' = waitFor - 1
    /\ health' = IF waitFor' <= 1 THEN "accepting" ELSE "waiting"
    /\ UNCHANGED <<dryRun, worker, pending, peers, faults>>

Hear ==
    /\ health = "waiting"
    /\ channel # <<>>
    /\ channel' = Tail(channel)
    /\ waitFor' = waitFor - 1
    /\ health' = IF waitFor' = 0 THEN "accepting" ELSE "waiting"
    /\ UNCHANGED <<dryRun, worker, pending, peers, faults>>

\* Defect: the peers are never reset.
AddNoReset(list, ip) == IF Contains(list, ip) THEN list ELSE Append(list, ip)

\* Peers::add
Add(list, ip) ==
    LET kept == IF Len(list) > PeerLimit THEN <<>> ELSE list
    IN  IF Contains(kept, ip) THEN kept ELSE Append(kept, ip)

\* Defect: the health server returns after the first connection.
AcceptOnce ==
    /\ health = "accepting"
    /\ pending # <<>>
    /\ pending' = Tail(pending)
    /\ \/ /\ peers' = Add(peers, Head(pending))
          /\ health' = "ended"
          /\ UNCHANGED faults
       \/ /\ health' = "ended"
          /\ Fault
          /\ UNCHANGED peers
    /\ UNCHANGED <<dryRun, worker, channel, waitFor>>

\* accept and peer_addr; an error of either, a connection that was reset
\* meanwhile, ends the health server.
Accept ==
    /\ health = "accepting"
    /\ pending # <<>>
    /\ pending' = Tail(pending)
    /\ \/ /\ peers' = Add(peers, Head(pending))
          /\ UNCHANGED <<health, faults>>
       \/ /\ health' = "ended"
          /\ Fault
          /\ UNCHANGED peers
    /\ UNCHANGED <<dryRun, worker, channel, waitFor>>

\* External: a health check connects.
Check(ip) ==
    /\ health \in {"waiting", "accepting"}
    /\ Len(pending) < Backlog
    /\ pending' = Append(pending, ip)
    /\ UNCHANGED <<dryRun, worker, channel, health, waitFor, peers, faults>>

-----------------------------------------------------------------------------
RunServer(w) == Bind(w) \/ Notify(w)

RunHealthServer == Listen \/ Hear \/ Accept

Next ==
    \/ \E w \in Ports : RunServer(w) \/ Stop(w)
    \/ RunHealthServer
    \/ \E ip \in Ips : Check(ip)

\* The runtime polls every task that can go on.
Fairness ==
    /\ \A w \in Ports : WF_vars(RunServer(w))
    /\ WF_vars(RunHealthServer)

Spec == Init /\ [][Next]_vars /\ Fairness

-----------------------------------------------------------------------------
\* Variables have values of their types; the channel never holds more than it
\* has room for, and wait_for stops at zero.
TypeOK ==
    /\ dryRun \in BOOLEAN
    /\ worker \in [Ports -> {"unspawned", "bind", "notify", "serving", "stopped", "failed"}]
    /\ channel \in Seq(Ports) /\ Len(channel) <= Cardinality(Ports)
    /\ health \in {"bind", "waiting", "accepting", "ended"}
    /\ waitFor \in 0 .. Cardinality(Ports)
    /\ pending \in Seq(Ips) /\ Len(pending) <= Backlog
    /\ peers \in Seq(Ips)
    /\ faults \in 0 .. MaxFaults

\* No health check is accepted before every worker has bound its port, however
\* the tasks are scheduled and whichever of them fails, nor ever in a dry run.
AcceptsAfterWorkers ==
    health = "accepting" => \A w \in Ports : worker[w] \in {"serving", "stopped"}

\* Nobody waits in vain: the channel has room for every worker that is about to
\* notify, and the health server waits on an empty channel only while some worker
\* has not notified it, so that no notification is lost and none is waited for
\* that will never be sent by a worker which is up.
NobodyWaitsInVain ==
    /\ \A w \in Ports : worker[w] = "notify" => Len(channel) < Cardinality(Ports)
    /\ health = "waiting" /\ channel = <<>> =>
          \E w \in Ports : worker[w] \notin {"serving", "stopped"}

\* "reset to ensure it's not unbounded" (Peers::add): for ever many checks, at
\* most one more than the limit is remembered, and no address twice.
PeersBounded == Len(peers) <= PeerLimit + 1 /\ IsInjective(peers)

\* Unless a system call fails every check that connects is accepted in the end,
\* one that the kernel established before the health server had heard from any
\* worker like one that comes after any number of others: the queue, which only
\* Accept shortens, and at its head, runs empty again and again or is served for
\* ever.  No worker is held up by the channel, none goes uncounted, and the loop
\* of run_health_server does not stop.
ChecksAreAccepted ==
    \/ <>(dryRun \/ faults > 0)
    \/ []<>(pending = <<>>)
    \/ []<><<Accept>>_pending

-----------------------------------------------------------------------------
\* "health check server listening on 9878" comes after the three "UDP worker
\* listening on port" lines (the program's README): a health check that connects
\* finds all workers listening.
ConnectedIsListening ==
    pending # <<>> => \A w \in Ports : worker[w] = "serving"
=============================================================================
