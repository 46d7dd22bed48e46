------------------------- MODULE GatewayController --------------------------
(***************************************************************************)
(* The Gateway controller: `reconcile` against one Gateway of a cluster    *)
(* that others change meanwhile.  Every request to the API server is a     *)
(* step of its own; any of them can fail, can take effect without the      *)
(* answer arriving, or can be the last thing the process does.  The runtime *)
(* (kube-rs) gives reconcile the object as the watch cache last saw it,    *)
(* one reconciliation of an object at a time, and again after 5s or 60s.   *)
(*                                                                         *)
(* The cluster's other actors are external: users edit the Gateway, the    *)
(* Service and its Endpoints, and the load balancer gives the Service an   *)
(* ingress.  An ingress entry is its IP, or None if it has a hostname only. *)
(***************************************************************************)
EXTENDS GatewayUtils

CONSTANTS
    Controllers,    \* controller processes that are running
    Specs,          \* Gateway specs that users write
    SvcIds,         \* names that generateName gives
    Ingresses,      \* ingress lists that the load balancer assigns by itself
    Drifts,         \* load balancer IPs that users set on the Service
    UserPorts,      \* ports that users give the Service
    MaxGeneration,  \* bound on edits of the Gateway
    MaxFailures,    \* bound on failed requests and crashes
    MaxEdits        \* bound on users' changes of Service and Endpoints

\* The names of a Gateway's listeners differ; so do, here, their port numbers, the
\* key by which a patch tells the ports of a Service apart.
DistinctListeners(listeners) ==
    \A i, j \in DOMAIN listeners : i # j =>
        listeners[i].name # listeners[j].name /\ listeners[i].port # listeners[j].port

RouteKinds == Seq([kind : STRING, group : STRING \cup {None}])

ASSUME ControllerAssumption ==
    /\ MaxGeneration \in Nat \ {0} /\ MaxFailures \in Nat /\ MaxEdits \in Nat
    /\ <<>> \notin Ingresses
    /\ \A ports \in UserPorts : ports \in Seq({ports[i] : i \in DOMAIN ports})
    /\ \A spec \in Specs :
          /\ spec.listeners \in Seq({spec.listeners[i] : i \in DOMAIN spec.listeners})
          /\ \A i \in DOMAIN spec.listeners : spec.listeners[i].kinds \in RouteKinds
          /\ DistinctListeners(spec.listeners)

VARIABLES
    gateway,    \* the Gateway object in the cluster
    class,      \* its GatewayClass: None, or whether it names our controller
    services,   \* the Services labelled as owned by the Gateway
    endpoints,  \* the Endpoints object of each Service
    cache,      \* each controller's watch cache of the Gateway
    ctl,        \* each controller's reconciliation and its locals
    failures,
    edits,
    valid,      \* history: for each generation of the Gateway, whether its spec was Valid
    drifted     \* history: the Services whose ports a user changed since a controller
                \* last found, or made, them right

cluster == <<gateway, class, services, endpoints>>
vars == <<cluster, cache, ctl, failures, edits, valid, drifted>>

\* What a Gateway must be for the controller to accept it, said of its spec alone.
ValidListener(listener) ==
    LET kind == [TCP |-> "TCPRoute", HTTP |-> "TCPRoute", HTTPS |-> "TCPRoute",
                 UDP |-> "UDPRoute"]
    IN  /\ listener.protocol \in DOMAIN kind
        /\ \/ listener.kinds = <<>>
           \/ listener.kinds \in {<<[kind |-> kind[listener.protocol], group |-> g]>> :
                                     g \in {None, Group}}

Valid(spec) ==
    /\ \A i \in DOMAIN spec.addresses : spec.addresses[i].type \in {None, "IPAddress"}
    /\ \A i \in DOMAIN spec.listeners : ValidListener(spec.listeners[i])

Idle == [pc |-> "idle", gw |-> None, id |-> None, listed |-> None, service |-> None]

Down == [Idle EXCEPT !.pc = "down"]

\* What the Gateway API's CRD gives a Gateway that no controller has seen.
DefaultStatus ==
    [EmptyStatus EXCEPT !.conditions = [Accepted   |-> Condition("Unknown", "Pending", None),
                                        Programmed |-> Condition("Unknown", "Pending", None)]]

Init ==
    /\ gateway \in [spec : Specs, generation : {1}, status : {DefaultStatus}]
    /\ class \in {None, "blixt", "other"}
    /\ services = [s \in SvcIds |-> None]
    /\ endpoints = [s \in SvcIds |-> None]
    /\ cache = [c \in Controllers |-> None]
    /\ ctl = [c \in Controllers |-> Down]
    /\ failures = 0
    /\ edits = 0
    /\ valid = <<Valid(gateway.spec)>>
    /\ drifted = {}

\* A Service that has been deleted; its generated name is not given again.
Deleted == [NewService EXCEPT !.type = "deleted"]

Existing == {s \in SvcIds : services[s] \notin {None, Deleted}}

-----------------------------------------------------------------------------
At(c, pc) == ctl[c].pc = pc

Goto(c, locals) ==
    /\ ctl' = [ctl EXCEPT ![c] = locals]
    /\ UNCHANGED failures

\* Defect: a failed reconciliation waits for the object to change.
RequeueOnChange(c) == Goto(c, [Idle EXCEPT !.pc = "await_change"])

\* An error ends the reconciliation, error_policy has it run again.
Requeue(c) == Goto(c, Idle)

Failure ==
    /\ failures < MaxFailures
    /\ failures' = failures + 1

\* After a request that changed the cluster: the answer, or its loss.
Answered(c, locals) ==
    \/ Goto(c, locals)
    \/ /\ Failure
       /\ ctl' = [ctl EXCEPT ![c] = Idle]

\* The runtime hands reconcile the object of its cache.
Start(c) ==
    /\ At(c, "idle")
    /\ Goto(c, [Idle EXCEPT !.pc = "get_class", !.gw = cache[c]])
    /\ UNCHANGED <<cluster, cache, edits, valid, drifted>>

\* Defect: the Programmed condition of a refused Gateway is left as it was.
JudgedAcceptedOnly(gw, accepted) ==
    [Idle EXCEPT !.pc = IF accepted.status = "True" THEN "list" ELSE "patch_status",
                 !.gw = set_condition(gw, "Accepted", accepted)]

\* A Gateway that is not accepted is not programmed either.
Judged(gw, accepted) ==
    LET judged == set_condition(gw, "Accepted", accepted)
    IN  IF accepted.status = "True" THEN [Idle EXCEPT !.pc = "list", !.gw = judged]
        ELSE [Idle EXCEPT !.pc = "patch_status",
                          !.gw = set_condition(judged, "Programmed",
                                               [accepted EXCEPT !.reason = "Programmed"])]

\* await_change: reconciled again only when the watch reports the object.
GetClass(c) ==
    /\ At(c, "get_class")
    /\ \/ class = None /\ Requeue(c)
       \/ class = "other" /\ Goto(c, [Idle EXCEPT !.pc = "await_change"])
       \/ /\ class = "blixt"
          /\ \E gw \in {set_listener_status(ctl[c].gw)} :
                \E accepted \in {get_accepted_condition(gw)} : Goto(c, Judged(gw, accepted))
    /\ UNCHANGED <<cluster, cache, edits, valid, drifted>>

-----------------------------------------------------------------------------
\* The rest of reconcile, given the Service: without an ingress the Gateway is
\* not programmed; without an ingress IP create_endpoint_if_not_exists fails.  The
\* API server gives every Service of the two types here a spec, a status and a
\* cluster IP, so the branches for their absence, which end as that without an
\* ingress does, are not reached.
WithService(l, id, svc) ==
    IF svc.ingress = <<>>
    THEN [Idle EXCEPT !.pc = "patch_status",
                      !.gw = set_condition(l.gw, "Programmed",
                                Condition("False", "AddressNotAssigned", l.gw.generation))]
    ELSE IF IngressIps(svc.ingress) = <<>> THEN Idle
    ELSE [l EXCEPT !.pc = "get_endpoints", !.id = id, !.listed = None, !.service = svc]

Programmed(l) ==
    LET gw == set_gateway_status_addresses(l.gw, l.service.ingress)
    IN  [Idle EXCEPT !.pc = "patch_status",
                     !.gw = set_condition(gw, "Programmed",
                               Condition("True", "Programmed", gw.generation))]

\* Defect: a Service that has no ingress yet is overlooked.
ListServicesReady(c) ==
    /\ At(c, "list")
    /\ \/ /\ \A id \in Existing : services[id].ingress = <<>>
          /\ Goto(c, [ctl[c] EXCEPT !.pc = "create_service"])
       \/ \E id \in Existing : /\ services[id].ingress # <<>>
                               /\ Goto(c, WithService(ctl[c], id, services[id]))
    /\ UNCHANGED <<cluster, cache, edits, valid, drifted>>

\* Defect: a Service that exists is used as it is.
ListServicesNoDrift(c) ==
    /\ At(c, "list")
    /\ \/ Existing = {} /\ Goto(c, [ctl[c] EXCEPT !.pc = "create_service"])
       \/ \E id \in Existing : Goto(c, WithService(ctl[c], id, services[id]))
    /\ UNCHANGED <<cluster, cache, edits, valid, drifted>>

ListServices(c) ==
    /\ At(c, "list")
    /\ \/ /\ Existing = {}
          /\ Goto(c, [ctl[c] EXCEPT !.pc = "create_service"])
          /\ UNCHANGED drifted
       \/ \E id \in Existing :
             LET svc == services[id]
                 wanted == update_service_for_gateway(ctl[c].gw, svc)
             IN  /\ Existing = {id}
                 /\ \/ /\ wanted # svc
                       /\ Goto(c, [ctl[c] EXCEPT !.pc = "patch_service", !.id = id, !.listed = svc,
                                                 !.service = wanted])
                       /\ UNCHANGED drifted
                    \/ /\ wanted = svc
                       /\ Goto(c, WithService(ctl[c], id, svc))
                       /\ drifted' = drifted \ {id}
       \/ /\ \E s, t \in Existing : s # t
          /\ Requeue(c)
          /\ UNCHANGED drifted
    /\ UNCHANGED <<cluster, cache, edits, valid>>

create_svc_for_gateway(c) ==
    LET svc == update_service_for_gateway(ctl[c].gw, NewService)
    IN  /\ At(c, "create_service")
        /\ \E id \in {s \in SvcIds : services[s] = None} :
              /\ services' = [services EXCEPT ![id] = svc]
              /\ Answered(c, WithService(ctl[c], id, svc))
        /\ UNCHANGED <<gateway, class, endpoints, cache, edits, valid, drifted>>

\* External: a strategic merge patch.  Ports are merged by number: those of the
\* patch, and the others as they are, whose place among them is immaterial.  A
\* field that is None is not sent, so it is left as it is.
MergedPorts(old, new) ==
    new \o ElementsAt(old, {i \in DOMAIN old : \A j \in DOMAIN new : new[j].port # old[i].port})

StrategicMerge(old, new) ==
    [old EXCEPT !.type = new.type,
                !.ports = MergedPorts(@, new.ports),
                !.load_balancer_ip = IF new.load_balancer_ip = None THEN @
                                     ELSE new.load_balancer_ip]

\* External: the API server refuses a Service with two ports of one name, which a
\* patch makes of a port that is to have another number.
UniqueNames(ports) ==
    \A i, j \in DOMAIN ports : i # j => ports[i].name # ports[j].name

\* The patch carries the resourceVersion of the listed object, so it fails on a
\* Service that has changed.  What follows uses the object as it was sent.
PatchService(c) ==
    LET l == ctl[c]
        patched == StrategicMerge(services[l.id], l.service)
    IN  /\ At(c, "patch_service")
        /\ \/ /\ services[l.id] = l.listed /\ UniqueNames(patched.ports)
              /\ services' = [services EXCEPT ![l.id] = patched]
              /\ drifted' = drifted \ {l.id}
              /\ Answered(c, WithService(l, l.id, l.service))
           \/ /\ services[l.id] # l.listed \/ ~UniqueNames(patched.ports)
              /\ Requeue(c)
              /\ UNCHANGED <<services, drifted>>
        /\ UNCHANGED <<gateway, class, endpoints, cache, edits, valid>>

-----------------------------------------------------------------------------
\* Defect: a lookup that fails makes the Gateway one without an address.
GetEndpointsUnready(c) ==
    /\ At(c, "get_endpoints")
    /\ \/ /\ endpoints[ctl[c].id] # None
          /\ Goto(c, Programmed(ctl[c]))
       \/ /\ endpoints[ctl[c].id] = None
          /\ Goto(c, [ctl[c] EXCEPT !.pc = "create_endpoints"])
       \/ /\ Failure
          /\ ctl' = [ctl EXCEPT ![c] =
                        WithService(ctl[c], ctl[c].id, [ctl[c].service EXCEPT !.ingress = <<>>])]
    /\ UNCHANGED <<cluster, cache, edits, valid, drifted>>

\* create_endpoint_if_not_exists: only a missing object is created; any other
\* failure of the lookup is taken for its presence.
GetEndpoints(c) ==
    /\ At(c, "get_endpoints")
    /\ \/ /\ endpoints[ctl[c].id] # None
          /\ Goto(c, Programmed(ctl[c]))
       \/ /\ endpoints[ctl[c].id] = None
          /\ Goto(c, [ctl[c] EXCEPT !.pc = "create_endpoints"])
       \/ /\ Failure
          /\ ctl' = [ctl EXCEPT ![c] = Programmed(ctl[c])]
    /\ UNCHANGED <<cluster, cache, edits, valid, drifted>>

CreateEndpoints(c) ==
    LET l == ctl[c]
    IN  /\ At(c, "create_endpoints")
        /\ \/ /\ endpoints[l.id] = None
              /\ endpoints' = [endpoints EXCEPT ![l.id] =
                                  [ip |-> Head(IngressIps(l.service.ingress)),
                                   ports |-> {l.service.ports[i].port : i \in DOMAIN l.service.ports}]]
              /\ Answered(c, Programmed(l))
           \/ /\ endpoints[l.id] # None
              /\ Requeue(c)
              /\ UNCHANGED endpoints
        /\ UNCHANGED <<gateway, class, services, cache, edits, valid, drifted>>

\* The forced apply makes the whole status what this reconciliation computed.
patch_status(c) ==
    /\ At(c, "patch_status")
    /\ gateway' = [gateway EXCEPT !.status = ctl[c].gw.status]
    /\ Answered(c, Idle)
    /\ UNCHANGED <<class, services, endpoints, cache, edits, valid, drifted>>

\* A request fails without effect.
Fail(c) ==
    /\ ctl[c].pc \notin {"idle", "await_change", "down"}
    /\ Failure
    /\ ctl' = [ctl EXCEPT ![c] = Idle]
    /\ UNCHANGED <<cluster, cache, edits, valid, drifted>>

\* The process dies at any point.
Crash(c) ==
    /\ ~At(c, "down")
    /\ Failure
    /\ ctl' = [ctl EXCEPT ![c] = Down]
    /\ cache' = [cache EXCEPT ![c] = None]
    /\ UNCHANGED <<cluster, edits, valid, drifted>>

\* run and controller: the list that checks for the CRD, whose failure makes the
\* process exit, to be started again; then the watch's first list.
Boot(c) ==
    /\ At(c, "down")
    /\ \/ /\ Goto(c, Idle)
          /\ cache' = [cache EXCEPT ![c] = gateway]
       \/ /\ Failure
          /\ UNCHANGED <<ctl, cache>>
    /\ UNCHANGED <<cluster, edits, valid, drifted>>

\* External: the watch delivers the object, which also triggers reconcile.
Watch(c) ==
    /\ ~At(c, "down")
    /\ cache[c] # gateway
    /\ cache' = [cache EXCEPT ![c] = gateway]
    /\ ctl' = IF At(c, "await_change") THEN [ctl EXCEPT ![c] = Idle] ELSE ctl
    /\ UNCHANGED <<cluster, failures, edits, valid, drifted>>

reconcile(c) ==
    \/ Start(c)
    \/ GetClass(c)
    \/ ListServices(c)
    \/ create_svc_for_gateway(c)
    \/ PatchService(c)
    \/ GetEndpoints(c)
    \/ CreateEndpoints(c)
    \/ patch_status(c)

-----------------------------------------------------------------------------
\* External: the other actors of the cluster.

EditGateway ==
    /\ gateway.generation < MaxGeneration
    /\ \E spec \in Specs \ {gateway.spec} :
          /\ gateway' = [gateway EXCEPT !.spec = spec, !.generation = @ + 1]
          /\ valid' = Append(valid, Valid(spec))
    /\ UNCHANGED <<class, services, endpoints, cache, ctl, failures, edits, drifted>>

CreateClass ==
    /\ class = None
    /\ class' = "blixt"
    /\ UNCHANGED <<gateway, services, endpoints, cache, ctl, failures, edits, valid, drifted>>

\* The load balancer honours the IP that a Service asks for.
AssignIngress(s) ==
    LET svc == services[s]
    IN  /\ s \in Existing
        /\ svc.type = "LoadBalancer"
        /\ \/ svc.ingress = <<>>
           \/ svc.load_balancer_ip # None /\ svc.ingress # <<svc.load_balancer_ip>>
        /\ \E ingress \in IF svc.load_balancer_ip = None THEN Ingresses
                          ELSE {<<svc.load_balancer_ip>>} :
              services' = [services EXCEPT ![s].ingress = ingress]
        /\ UNCHANGED <<gateway, class, endpoints, cache, ctl, failures, edits, valid, drifted>>

\* A user sets the Service's IP or its ports, makes it a ClusterIP Service (which
\* takes its ingress away), deletes it with its Endpoints, or deletes the Endpoints.
EditService(s) ==
    /\ s \in Existing
    /\ edits < MaxEdits
    /\ edits' = edits + 1
    /\ \/ /\ \E ip \in Drifts : services' = [services EXCEPT ![s].load_balancer_ip = ip]
          /\ UNCHANGED <<endpoints, drifted>>
       \/ /\ \E ports \in UserPorts : services' = [services EXCEPT ![s].ports = ports]
          /\ drifted' = drifted \cup {s}
          /\ UNCHANGED endpoints
       \/ /\ services' = [services EXCEPT ![s].type = "ClusterIP", ![s].ingress = <<>>]
          /\ UNCHANGED <<endpoints, drifted>>
       \/ /\ services' = [services EXCEPT ![s] = Deleted]
          /\ endpoints' = [endpoints EXCEPT ![s] = None]
          /\ UNCHANGED drifted
       \/ /\ endpoints[s] # None
          /\ endpoints' = [endpoints EXCEPT ![s] = None]
          /\ UNCHANGED <<services, drifted>>
    /\ UNCHANGED <<gateway, class, cache, ctl, failures, valid>>

Next ==
    \/ \E c \in Controllers : Boot(c) \/ reconcile(c) \/ Fail(c) \/ Crash(c) \/ Watch(c)
    \/ EditGateway
    \/ CreateClass
    \/ \E s \in SvcIds : AssignIngress(s) \/ EditService(s)

Spec == Init /\ [][Next]_vars

\* A process that exits is started again, error_policy and the successful result
\* both run reconcile again, the runtime
\* polls it, the watch catches up and the load balancer serves the Service.
Fairness ==
    /\ \A c \in Controllers : WF_vars(Boot(c)) /\ WF_vars(reconcile(c)) /\ WF_vars(Watch(c))
    /\ \A s \in SvcIds : WF_vars(AssignIngress(s))

FairSpec == Spec /\ Fairness

-----------------------------------------------------------------------------
\* What holds of one controller, whatever fails and whoever else acts.

\* The counters keep to their bounds, a controller is at a step of reconcile, and
\* every Service has a type: update_service_for_gateway gives a new one its own.
TypeOK ==
    /\ gateway.spec \in Specs
    /\ gateway.generation \in 1 .. MaxGeneration
    /\ class \in {None, "blixt", "other"}
    /\ \A s \in SvcIds : services[s] # None =>
          services[s].type \in {"LoadBalancer", "ClusterIP", "deleted"}
    /\ \A c \in Controllers : ctl[c].pc \in
          {"down", "idle", "get_class", "await_change", "list", "create_service", "patch_service",
           "get_endpoints", "create_endpoints", "patch_status"}
    /\ failures \in 0 .. MaxFailures
    /\ edits \in 0 .. MaxEdits

AcceptedCondition == gateway.status.conditions["Accepted"]
ProgrammedCondition == gateway.status.conditions["Programmed"]

\* The Gateway is reported as programmed for the spec that it has now.
ProgrammedNow ==
    /\ ProgrammedCondition.status = "True"
    /\ ProgrammedCondition.observed_generation = gateway.generation

\* At most one Service is ever labelled as the Gateway's, although reconcile
\* lists and creates in two requests, either of which can fail, or take effect
\* unanswered, or be cut off by a crash.  A second Service would make every
\* later reconciliation fail.
AtMostOneService == \A s, t \in Existing : s = t

\* The two conditions of a status are of one reconciliation: they observe the
\* same generation, and a Gateway is programmed only if it is accepted, all its
\* listeners' conditions are true and it has an address.
StatusCoherent ==
    LET status == gateway.status
    IN  /\ AcceptedCondition.observed_generation = ProgrammedCondition.observed_generation
        /\ ProgrammedCondition.status = "True" =>
              /\ AcceptedCondition.status = "True"
              /\ status.addresses # <<>>
              /\ \A i \in DOMAIN status.listeners :
                    LET conditions == status.listeners[i].conditions
                    IN  \A type \in DOMAIN conditions : conditions[type].status = "True"

\* The Service has a port for each of the Gateway's listeners.
HasPorts(svc) ==
    LET wanted == ServicePorts(gateway.spec.listeners)
    IN  {wanted[i] : i \in DOMAIN wanted} \subseteq {svc.ports[i] : i \in DOMAIN svc.ports}

\* While a Gateway is reported as programmed for its current spec, its Service
\* has a port for each of the listeners, unless a user changed the ports after the
\* controller last looked at them, which the next reconciliation finds: whatever
\* the reconciliation that reported it had listed and sent, and whatever others
\* did to the Service in between.
ListenersServed ==
    ProgrammedNow => \A s \in Existing \ drifted : HasPorts(services[s])

Status == INSTANCE GatewayStatus WITH
    generation <- gateway.generation,
    observed   <- IF AcceptedCondition.observed_generation = None THEN 0
                  ELSE AcceptedCondition.observed_generation,
    accepted   <- AcceptedCondition.status,
    programmed <- ProgrammedCondition.status

\* The status implements a sequence of verdicts: each judges one generation of the
\* spec as it was, none is about an older generation than the last, and none runs
\* ahead.  Yet it is computed, over several requests, from a cached object that
\* may lag behind, whose status an earlier spec, a lost answer or a controller
\* that died left there.
ImplementsStatus == Status!Spec

\* A Gateway that is reported as programmed stays so, through retries, lost
\* answers, crashes and a watch that lags behind, until a user edits it or has
\* ever touched its Service: no reconciliation that started on an older object, or
\* listed the Service before it had an address, takes the report back.
ProgrammedStays ==
    [][ProgrammedNow /\ edits = 0 => ProgrammedNow' \/ gateway'.spec # gateway.spec]_vars

HostnameOnly ==
    \E s \in Existing : services[s].ingress # <<>> /\ IngressIps(services[s].ingress) = <<>>

\* The patch that would give the Service the ports of the Gateway is refused.
PatchRefused ==
    \E s \in Existing :
        ~UniqueNames(MergedPorts(services[s].ports, ServicePorts(gateway.spec.listeners)))

\* Once users and failures leave the Gateway alone it gets, and keeps, a status
\* that is about its current spec: refused if that is invalid, otherwise
\* programmed, with a Service that has a port for each listener, whatever a user
\* had made of its ports, and with Endpoints, without which MetalLB does not
\* answer for the address.  Only a load balancer that gives the Service no IP, or
\* an API server that refuses the patch, leaves a valid Gateway behind.
Settles ==
    <>[](class = "blixt" /\ ~(Valid(gateway.spec) /\ (HostnameOnly \/ PatchRefused)) =>
            /\ AcceptedCondition.observed_generation = gateway.generation
            /\ AcceptedCondition.status = IF Valid(gateway.spec) THEN "True" ELSE "False"
            /\ ProgrammedCondition.status = AcceptedCondition.status
            /\ Valid(gateway.spec) =>
                  \E s \in Existing : endpoints[s] # None /\ HasPorts(services[s]))

-----------------------------------------------------------------------------
\* What the source says of the controller and some behaviour refutes.

\* "Updates the provided Service to match the desired state according to the
\* provided Gateway" (update_service_for_gateway): a Gateway reported as
\* programmed has a Service with its listeners' ports and no others.
ServiceMatchesGateway ==
    ProgrammedNow => \A s \in Existing :
        LET wanted == ServicePorts(gateway.spec.listeners)
        IN  {services[s].ports[i] : i \in DOMAIN services[s].ports}
                \subseteq {wanted[i] : i \in DOMAIN wanted}

\* "creating a Gateway with a static IP ... verifying that the static IP is
\* allocated properly" (gateway_test.go): its status has the address of its spec.
StaticAddressAllocated ==
    ProgrammedNow /\ StaticAddress(gateway.spec) # None =>
        gateway.status.addresses[1] = StaticAddress(gateway.spec)

\* "An Endpoints object is required because MetalLB does not respond to ARP
\* packets until one exists" (create_endpoint_if_not_exists): a Gateway whose
\* Service no user has touched is reported as programmed only with Endpoints.
ProgrammedHasEndpoints ==
    ProgrammedNow /\ edits = 0 => \A s \in Existing : endpoints[s] # None
=============================================================================
