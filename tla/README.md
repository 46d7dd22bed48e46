# Blixt in TLA+

Blixt is a layer 4 load balancer for Kubernetes: eBPF classifiers that rewrite
packets, a gRPC server that configures them through BPF maps, and a controller
that turns Gateway objects into load balancer Services. This directory models
all three and the start of the process that joins the first two, model-checks
them on small instances with TLC, and proves with TLAPS, for every instance, the
invariants of every component, and that the dataplane's connection table and the
controller's status implement abstract specifications.

`PROJECT.json` lists components, runs, mutants, hazards, findings and theorems,
and maps every definition to the lines that it models.

## The system

| Part | State | Operations | Talks to |
|---|---|---|---|
| BPF maps (`dataplane/common`, `ebpf/src/main.rs`) | `BACKENDS` (VIP to list), `GATEWAY_INDEXES` (VIP to next position), `LB_CONNECTIONS` (client to backend, VIP, TCP state) | lookup, insert, remove | both sides below |
| Packet programs (`dataplane/ebpf`) | locals of the packet in hand | TCP and UDP ingress, TCP and ICMP egress | the maps, one operation at a time, on all CPUs at once |
| API server (`dataplane/api-server`) | one tokio `Mutex` for each map | `update`, `delete` | the maps; the locks bind calls only, never packets |
| Packet rewriting (`ebpf/src/utils.rs` and the handlers) | the packet | DNAT, SNAT, checksums | kernel helpers that can fail |
| Gateway controller (`controlplane`) | none but the cluster's objects and a watch cache | `reconcile` | the Kubernetes API, users, a load balancer |
| Loader and server start (`dataplane/loader`, `api-server/src/lib.rs`) | attached programs, two server tasks | `main`, `start`, `setup_tls` | the kubelet, which probes and restarts the process |
| UDP test server (`tools/udp-test-server`) | three workers, a channel, a list of peers | `run_server`, `run_health_server` | health checks |
| Generated code, xtask | tools | | see "Not modelled" |

What makes it hard: a handler reads and writes shared maps in several steps and
keeps pointers into them; calls hold locks that packets ignore and are dropped
when their client goes away; maps are full at 128 entries; `reconcile` is a
sequence of requests, each of which may fail or take effect unanswered, computed
from a cached object. The hazards, each at its line, are in `PROJECT.json`.

## Modules

| Module | Models |
|---|---|
| `TcpState` | `TCPState`, `process_tcp_state_transition` |
| `BpfMaps` | the three maps, their values and capacities |
| `Ebpf` | the handlers; variable `cpu` is each CPU's program and locals |
| `ApiServer` | `update` and `delete`; variables `rpc` (each call), `lock`, and the history `configured` |
| `Dataplane` | the composition of the two over the maps, and its properties |
| `Connections` | abstract: what the dataplane promises of TCP connections |
| `OverlapHistory` | `Dataplane` with a history of which clients have two packets in hand, and the mapping to `Connections` |
| `MCDataplane`, `MCOverlap` | small instances of `Dataplane` and of `OverlapHistory` |
| `DataplaneProofs` | theorems about its invariants |
| `ConnectionsProofs` | theorems about `OverlapHistory`: that it implements `Connections` |
| `TcpFlow`, `MCTcpFlow` | the TCP handlers between the two ends of a connection |
| `TcpFlowInvariant` | the inductive invariant of `TcpFlow`; lemmas that its parts `Shape` and `Live` are kept |
| `TcpFlowProofs` | the other parts, and theorems about the life of a connection |
| `Startup` | the loader's `main`, the two servers, the kubelet |
| `StartupProofs` | theorems about it |
| `PacketRewrite` | what handlers and helpers do to headers and checksums |
| `PacketRewriteProofs` | theorems about them, and the arithmetic of checksums |
| `GatewayUtils` | the functions of `gateway_utils.rs`, as operators |
| `GatewayController` | `reconcile`, the cluster around it, and its properties |
| `GatewayStatus` | abstract: what the controller promises of a status |
| `MCGateway` | small instances of `GatewayController` |
| `GatewayProofs` | theorems about it, and that it implements `GatewayStatus` |
| `UdpTestServer` | the UDP test server |
| `UdpTestServerProofs` | theorems about it |

A definition named "Defect" in its comment is a plausible mistake in the
definition that follows it. It is not part of any specification; substituting it
shows that a property can fail.

### Dataplane

Every map operation of a handler is one action, so other CPUs and calls come
between any two. The parts of a handler between two map operations are local.
A handler that returns leaves its CPU idle whatever its verdict, as `tc_ingress`
and `tc_egress` discard it. Headers are sets of the flags RST, FIN and ACK;
addresses are model values.

An `update` or `delete` moves at each `lock().await`; what it does between two
awaits is one action, except that the sweep of `delete` removes one connection at
a time, because packets come between the removals. `Cancel` is tonic dropping the
future of a call at an await, which releases its locks.

Freed elements: replacing or removing an entry of a BPF hash map frees its
element, and the kernel may give it to another key at once, while a handler still
has a pointer to it. `Deref` lets such a handler read the value it looked up or
any value that the map has now. Torn reads, values that came and went in between,
and two values of one read mixed together are left out.

Other abstractions: the snapshot of the connections that `remove` collects is
taken at once, where the iteration it comes from is not atomic; that the iteration
itself fails, on any of its entries, is a case of `DeleteSweep` (constant
`IterFails`). `delete` tells a missing key from other errors by the text of the
error, which is aya's: `AnswerError` lets a failed removal be answered either way.
Redirecting to the neighbour is left to the kernel.

`Connections` is the table that a user of the dataplane would expect: a client is
tracked to one backend of one VIP, its state moves by single transitions, and it
is forgotten. Lookup and insert are separate operations and nothing keeps two
packets of a client, of one direction or of both, from being handled at once on
two CPUs; two handlers that have copied one entry then undo each other's work
(`ModifiedFromCurrent`, below). So the mapping is stated in `OverlapHistory`: a
variable `overlapped`, which restricts no step, keeps the clients of which two
packets have been in hand at once, until none of them is. `ImplementsConnections`
maps the table to `LB_CONNECTIONS` where these clients count as forgotten. It says
that a client without such an overlap is treated as `Connections` promises,
whatever calls and other clients do, overlapping ones included, and that an
overlap leaves nothing behind but an entry of the client's own. What an overlap of
the two directions does to the segments of one connection is the subject of
`TcpFlow`, whose handlers run on any CPUs.

### TcpFlow

`Dataplane` lets packets come in any order with any flags. `TcpFlow` puts a client
and the backends around the same handlers, so that the tracked state can be
compared with the ends' own. The ends are external: the part of TCP that decides
which segments are sent (SYN, data, FIN, RST, retransmissions and the ACKs they
draw), without sequence numbers. Each direction of a path is FIFO and has one
packet in hand at a time; packets of the two directions are handled at once, on
two CPUs. The backend list is fixed, other clients only move the
index. `MaxEvents` bounds data segments, losses and early retransmissions;
timeouts with nothing under way are not bounded.

### Startup

Each step of `main`, the reading of the TLS files, the binding of each server's
port and `try_join` is an action; any of them may fail, a task by panicking, and
files may be mounted late. The kubelet is external: it counts failed probes up to
the threshold of the startup or the liveness probe, kills, and restarts. Time is
abstracted to this: the process moves between two probes, unless a `Delay` fault
happens, and the startup probe's budget covers the seven steps of a start (the
manifest's is 30 probes in 300 s). What the kernel keeps attached of a process that was killed
is not modelled.

### UdpTestServer

The three workers, the channel of capacity three, the health server that counts
their notifications and `Peers`. A failing system call ends the task it is in, and
nobody hears of it.

### PacketRewrite

One handler run over one packet, from the point where its mapping is known. A
word has `W` bits and an address is one word instead of two. Each helper call is
a step that can fail, after which the packet goes on as it is. Checksum offload
by the network card is left out.

### Gateway controller

Each request of `reconcile` is an action. `Answered` lets a request take effect
without its answer, `Fail` lets it have no effect; kube-rs then runs `reconcile`
again on the object of its cache (`Watch` refreshes it). `Crash` is the end of the
process at any point and `Boot` its start, with the list that checks for the CRD.
Users edit the Gateway, create its class, edit the Service's IP, type and ports, and
delete Service and Endpoints; the load balancer assigns ingresses. A patch merges
the ports by number, is refused if the Service has changed since it was listed
(its resourceVersion), and is refused if two ports would have one name
(`UniqueNames`). The history `drifted` has the Services whose ports a user changed
since a controller last found or made them right. `MaxGeneration`, `MaxFailures`
and `MaxEdits` bound these. Conditions keep status, reason and observed
generation; messages and times are left out. The listeners of a spec differ in
their names, which the Gateway API requires, and in their port numbers
(`DistinctListeners`), without which the API server would merge two of them into one
port. `WithService` leaves out the branches for a Service without a spec, a status
or a cluster IP: the API server gives each of these to every Service of the types
that occur here.

`GatewayStatus` is what a reader of a status may rely on: it is the verdict on the
spec of one generation, a later status is about the same or a later generation,
and only a valid spec is accepted or programmed. `Valid` says which specs are,
without reference to how the code finds out; the history `valid` keeps it for
each generation. `ImplementsStatus` maps the abstract state to the conditions of
the Gateway.

## What the runs show

Passing runs:

| Run | Instance | Holds |
|---|---|---|
| `race` | 2 CPUs, 1 VIP, 1 TCP client, 1 call | tracked backends were configured, indexes stay in the array, states fit the protocol, a drained VIP stays drained |
| `connections` | 2 CPUs, 2 TCP clients whose packets, of both directions, are on either, 1 call | but for overlaps `LB_CONNECTIONS` implements `Connections`; a client's RST before any FIN untracks it |
| `calls` | 2 calls, failing, refused and abandoned, and iterations that fail; 2 VIPs and 2 UDP clients, maps of 1 entry | deletes are isolated, locks are ordered, calls complete |
| `connection` | a client, 2 backends, 2 CPUs, 1 lost, repeated or extra segment | an open connection is tracked to the backend that has its other end; an aborted or orderly closed one is forgotten |
| `startup` | 3 TLS modes, any files missing, 2 faults, probes on the health server's port | no insecure, unattached or half-up process; it comes up for good |
| `gateway` | 5 specs, 1 edit, 1 failure or crash, 1 user change of Service (its ports included) or Endpoints, ingresses with and without IP | at most one Service, listeners served, status coherent, implements `GatewayStatus`, a report stays while nobody edits, and settles, with the Service's ports |
| `headers` | 27360 packets, 3-bit words | rewritten headers have the right addresses and verify |
| `test_server` | 3 workers, 4 addresses, a limit of 2 peers, 1 fault | checks are accepted after the workers are up, and every one of them; nobody waits in vain; peers are bounded |

Why the bounds are enough to be interesting: two CPUs are what a lost update, a
reused element or a double insert takes; lists of lengths 1 and 2 in an array of
2 make the list shrink and grow, wrap and fill its array (in `connections` the one
backend of a list is replaced, and FIN+ACK, sent from either side, takes a
connection through its states); maps of 1 or 2 entries
are full with the clients there are; two calls are enough for every pair of locks
to be contended. For the controller one failure at every request, and one change
by a user, between any two of its steps. One segment too many, or too few, at any
point of a connection's life is what makes the two ends and the tracked state
disagree. Two faults let a start fail twice in different ways, or fail and then be
slow. Words of 3 bits make sums carry, and carry again when folded, and include
zero and all ones.

Runs that TLC refutes, each against a statement in the repository (the quotations
are in `PROJECT.json`, "findings"):

| Run | Property | What happens |
|---|---|---|
| `staleindex` | `IndexPointsIntoList` | an old index overwrites an update's reset and lies beyond the new list |
| `gw_static` | `StaticAddressAllocated` | a static address is never set on a new Service |
| `port` | `DestPortUpdated` | the destination port is stored over the L4 checksum |
| `probe` | `NotKilledWhileServing` | the manifest's probes ask port 9874, the health service is on 9875: a serving process is killed |

The modules define further statements of the source that TLC refutes when they are
added to a configuration with constants for the case (two TCP clients and a full
map for `ForwardedIsTracked`, two VIPs for `ForwardedToOwnVip`, and so on). They
are kept as definitions, without a run:

| Property | Source | What happens |
|---|---|---|
| `ForwardedToOwnVip` | `ingress/tcp.rs:49` | one client port used for two VIPs: the second's packets go to the first's backend |
| `ForwardedIsTracked` | `ingress/tcp.rs:152` | with the map full, a packet is forwarded and its connection not tracked |
| `ModifiedFromCurrent` | `utils.rs:113` | a handler of one direction overwrites the state that the other has just recorded: FinWait2 is FinWait1 again |
| `RstUntracks` | `ingress/tcp.rs:115` | an RST+ACK during the termination is removed and, by the transition it causes, inserted again |
| `DeletedVipIsUntracked` | `server.rs:60` | a handler that read the list before a delete records its connection after the sweep |
| `NotFoundMeansNew` | `ingress/tcp.rs:49` | in FinWait2 two ACKs without FIN end the tracking while one end still sends: its next segment is taken for a new connection's |
| `DidNotExistIsTrue` | `server.rs:192` | a sweep that fails half-way may be reported as a VIP that did not exist |
| `ServiceMatchesGateway` | `gateway_utils.rs:196` | a removed listener's port stays on the Service |
| `ProgrammedHasEndpoints` | `gateway_utils.rs:77` | a failed lookup of Endpoints counts as their presence |
| `ChecksumsRecalculated` | `utils.rs:199` | the port overwrites the checksum that was just updated |
| `UnreachableQuotesVip` | `egress/icmp.rs:28` | the quoted datagram keeps the backend's port |
| `ConnectedIsListening` | `udp-test-server/README.md` | the health port is bound before the workers' ports, so a check connects before they listen |

Some passing results depend on their instance. `ImplementsConnections` leaves out
the overlaps (above). `AtMostOneService` and `ImplementsStatus` hold for one controller
and fail for two, the latter when one with an older cache writes its status last;
`config/manager/manager.yaml:40` passes `--leader-elect`, but the binary reads no
arguments. `ComesUp` needs probes on the health server's port, which the manifest
does not have (run `probe`).

### Fairness

`Dataplane` has strong fairness of each call's progress: tokio polls a task that
can run and its `Mutex` is FIFO, so a waiting call is not overtaken for ever.
Packets have none; nothing has to arrive. `GatewayController` has weak fairness of
`reconcile`, because both results requeue it, of the watch, and of the load
balancer. Failures and edits are bounded, so `Settles` speaks of what follows the
last of them. Where the load balancer gives a hostname and no IP,
`create_endpoint_if_not_exists` returns an error each time and the status stays
behind; where a port of the Service has a listener's name and another number, as after an
edit of the listener's port, the patch is refused each time. `Settles` excludes just these cases (`HostnameOnly`,
`PatchRefused`). `Startup` has weak
fairness of the process, of the mounting of files, of the restart and of the
probes, `UdpTestServer` of its tasks. `TcpFlow` claims safety only.

Deadlock is checked for the dataplane and for `Startup`. It is not for the controller, which rests
when the GatewayClass is another controller's, for `PacketRewrite`, where a handler
ends, for `TcpFlow`, where the connection ends, nor for the test server, which
waits when nobody checks it.

## What is proved

`DataplaneProofs` proves for any sets of VIPs, clients, backends, CPUs and calls
and any positive capacities, from the assumptions named in the modules (a
configured backend is not the zero value, TCP and UDP keys differ, and that the
special values are distinct):

- `Invariance`: `Spec => []IInv`;
- from it `TypeCorrect`, `OnlyConfiguredBackends`, `IndexesWithinArray`,
  `StatesMatchProtocol`, `LocksOrdered`, `DeletesIsolated`;
- `DrainedStays`: `DrainedUntilUpdate`, by cases on the one program or call that
  takes the step (`StepIsOwn`);
- `ApartIndexPoints` and `ApartDeletesUntrack`: `IndexPointsIntoList` and
  `DeletedVipIsUntracked`, which TLC refutes for `Spec`, hold for `ApartSpec`, where
  no packet is handled while a call is in progress (`Apart`), if no call is
  abandoned (`~Cancellable`) and no iteration of the table fails (`~IterFails`). So
  packets that overlap a call, calls dropped between two steps and iterations that
  fail are all that can break them; other calls, packets on other CPUs and full
  maps cannot.

None of these is inductive alone: a handler writes what it read some steps
earlier. `IInv` therefore says, for each step of a program, which locals it relies
on (a list whose entries below its length were configured, an index that is a
number, a mapping that is open, a new connection that is Established), and for
each step of a call what it is about to insert. Its parts take the values that
they judge as arguments; a step is proved by showing each value it changes good.
`configured` only grows, so what was good stays good (`MoreConfigured`).

For the `Apart` theorems `AInv` adds how the maps fit together. A VIP with
connections has its list and its index, or loses them to a delete that has yet to
sweep (`Swept`); an index points into its list, or an update is about to reset it
(`Pointed`); a program's list is its VIP's and its mapping is of a VIP with both
(`Flight`); and the copy that a sweep works from is what is tracked. A packet step
shows, by `Apart` before and after it, that no call is in progress; a call that
writes a map finds all CPUs idle, and `LockOrder` leaves it the only delete. They
use one more assumption, that `None` is not a number (`NoIndexAssumption`). TLC
checked `AInv` and both properties on two small instances of `ApartSpec` before
they were proved; no run is kept for it.

The UDP handler's share of `OnlyConfiguredBackends` and `IndexesWithinArray` rests
on the proof; the run `race`, which checks both, has a TCP client only.

`ConnectionsProofs` proves `OverlapSpec => ImplementsConnections`
(`ConnectionsImplemented`) and `RstUntracksEstablished` (`RstEndsTracking`), for the
packets of any clients and both directions on any CPUs. `SInv` adds to `IInv` that
two CPUs with packets of one client put it into `overlapped`, that it leaves when
the last of its handlers returns, and `Current`: the copy of the entry in the hand
of a client's only handler is the entry, or the entry is gone (a delete or an ICMP
message took it), and a connection that it takes for new has none. So its insert is
the table's `Track` or `Advance`, a removal `Untrack`, and all else stutters; each
handler step has its lemma (`PacketStep`). An overlap begins as an `Untrack` and
ends, when no handler of the client is left and `Current` asks nothing of it, as a
`Track` of the entry that is there, which `IInv` knows to be open and of a configured
backend.

`GatewayProofs` proves, for any specs, Services, ingresses and bounds:

- `TypeCorrect`: `TypeOK`, and `StatusIsCoherent`: `StatusCoherent`, for any number
  of controllers;
- `StatusImplemented`: `ImplementsStatus`, `OneService`: `AtMostOneService`,
  `ListenersStayServed`: `ListenersServed`, and `ReportStays`: `ProgrammedStays`, for
  one controller.

`AcceptedIffValid` is the core of the status: whatever status a Gateway had before,
the listener statuses and the Accepted condition that `reconcile` computes are the
verdict of `Valid` on its spec. The invariant `GInv` says what a reconciliation
knows at each step: its object is the Gateway as it was at one generation (`Seen`),
accepted from `list` on, judged as a whole at `patch_status`. `TInv` adds the
Services and the patch that a controller has in hand. `InOrder` adds, for one
controller, that the status observes no later a generation than the object in
hand, that one than the cache, and that one than the Gateway: this is what keeps a
verdict from going back. `SvcInv` says that the list which found no Service is
still right when `create_svc_for_gateway` runs. These two need the one controller:
with two, TLC refutes the properties.

`ServeInv` is for `ListenersServed`. A Programmed condition is written several
requests after the Service was found as wanted or patched, and users edit both the
Service and the Gateway in between. So it says that the Service, unless
it is in `drifted`, has the wanted ports from that request on (`Relies`), that an object in hand of the current
generation has the current spec (`Current`), and that they stay for as long as the
condition is about that spec. Only the controller's own requests take a Service off
`drifted`: a list that finds it as wanted (`Finds`) and a patch that takes effect
(`Patches`), which leaves every port that it sends (`MergedHas`). The proof reads the ports as functions of positions, and is the
reason why `GatewayUtils` selects them with `ElementsAt`: what `SelectSeq` returns
would take an induction.

`StayInv` is for `ProgrammedStays`. A report depends on the spec, and `Valid` decides
that the same way each time, and on the address of the Service that a reconciliation
has in hand, which may be older than the cluster's. As long as no user has touched
the Service, it says: a Gateway that is reported as programmed, or about to be, has a
Service with an address (`Addressed`); a Service about to be patched has the address
that was listed; and once the report is there, the Service in hand has an address and
no status about to be written takes the report back. The last part is where one
controller is needed: what is in hand was listed after the report, or wrote it.

Hypotheses beyond the modules' assumptions: `NoneIsNoStatus` and, for `ReportStays`,
`NoneIsNoService`, that the value for an
absent option is not a status record, nor a Service (quantified over all records, so
that TLC cannot evaluate them; with model values they are true).

`TcpFlowProofs` proves, for any backends and CPUs and any number of segments, losses
and repetitions, `TypeCorrect`, `OpenStaysTracked`: `OpenIsTracked`, `AbortForgets`:
`AbortedIsForgotten` and `OrderlyCloseEnds`: `OrderlyCloseCompletes`. Each of these
is about the connections of one history, and the invariant has a part for each (the
definitions, `Shape` and `Live` are in `TcpFlowInvariant`):

- `Shape`, always: the locals of a handler at each step, one tracked client, and one
  segment of an end in hand at a time;
- `Live`, before a FIN and without a loss together with an abort: the tracked backend
  has the only other end, a handler's mapping is the entry or the entry is gone, and
  SYNs come before all else;
- `Calm`, before a FIN or an abort: the entry is there from the first SYN and stays;
- `Aborted`: as long as the entry is there, an RST that will remove it is under way;
- `Orderly`: after a FIN, with no loss, abort or extra segment, the connection is at
  one of seven stages, of two kinds by who closes first, each with the segments under
  way, the state of both ends and the tracked state; a step of an end or of the node
  moves it to the next.

`PacketRewriteProofs` proves, for words of every width from two bits on,
`RedirectedVerifies`: `RedirectedHeaderVerifies`, `ReplyVerifies`:
`ReplyHeaderVerifies` and `UnreachableStillVerifies`: `UnreachableVerifies`, and
`SamePortHides`: `DestPortUpdated` and `UnreachableQuotesVip`, which TLC refutes, hold
of every packet whose backend listens on the VIP's port. One's complement addition is addition modulo `Ones`, except that it has two zeros. Two
rounds of folding take a multiple of `Ones` off a sum of up to four words and leave 0
only of 0, so `csum_fold_helper` is right for what its callers give it; the kernel's
update by one word is right when the other words do not add up to 0, which the
version field of a header sees to (`rest`, and the `data` that stands for it in a
quoted header, are not 0). The invariant follows a packet from helper call to helper call: which
checksum holds, and for which address. For the quoted header of an ICMP message it
says that a part which verifies by itself may be replaced by another that does.

`StartupProofs` proves, for any ports, probe thresholds and number of faults,
`TypeCorrect`, `NeverInsecure`: `ServedAsConfigured` and `ReadyHasPrograms`:
`ReadyIsAttached`, from what is attached and spawned at each step of `main`. With
the hypothesis `RightPort`, that the probes ask the port of the health server, it
proves `RightPortIsNotKilled`: `NotKilledWhileServing`, the property that `probe`
refutes for the manifest's port, and `UpIsStable`, that a process which is up and
ready stays so.

`UdpTestServerProofs` proves, for any set of workers, addresses, limits and faults,
`TypeCorrect`, `AcceptsOnlyWhenUp`: `AcceptsAfterWorkers`, `NobodyIsStuck`:
`NobodyWaitsInVain` and `PeersStayBounded`: `PeersBounded`. The invariant counts: the
workers that have notified are as many as the notifications in the channel and those
taken off `wait_for` together. `NobodyIsStuck` is the safety half of
`ChecksAreAccepted`.

Only model-checked: everything live (`CallsComplete`, `Settles`, `HalfUpExits`,
`ComesUp`, `ChecksAreAccepted`), which is out of the prover's reach. Every invariant,
action property and refinement that a passing run checks is a theorem.

## Not modelled

- The building of the netlink request in the route lookup, which is formatting;
  its answer or failure is `if_index_for_routing_ip`, which the RPC
  `get_interface_index` returns without changing any state.
- Generated gRPC code; xtask, which builds and calls by hand; RBAC, CRDs and
  kustomizations. The integration tests are read as statements of what is expected.
- Deletion of a Gateway, for which the controller has no code, and a GatewayClass
  that is deleted and created anew for another controller.
- Programs left attached by a process that was killed, which is up to the kernel
  and to aya's links.
- Sequence numbers in `TcpFlow`, and a second connection from the same client port;
  reordering within one direction.
- What a packet looks like whose rewriting failed half-way: nothing in the
  repository says what it should.
- Truncation of the interface index to 16 bits: a packet program ignores the result
  of the redirect that would use it.
