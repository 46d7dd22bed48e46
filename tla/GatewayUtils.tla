---------------------------- MODULE GatewayUtils ----------------------------
(***************************************************************************)
(* The pure functions of the control plane: the conditions of listeners    *)
(* and of a Gateway, and the Service that a Gateway asks for.              *)
(*                                                                         *)
(* An optional list that the code treats like an empty one is <<>> here;   *)
(* conditions are a function from the types present.  Messages and         *)
(* transition times are left out.                                          *)
(***************************************************************************)
EXTENDS Naturals, Sequences, FiniteSets

CONSTANT None  \* an absent option

ASSUME NoneAssumption == None \notin Nat \cup {"TCP", "UDP"}

Group == "gateway.networking.k8s.io"

Condition(status, reason, generation) ==
    [status |-> status, reason |-> reason, observed_generation |-> generation]

\* A condition whose status stays keeps all but its observed generation.
Merged(current, new) ==
    IF current.status = new.status
    THEN [current EXCEPT !.observed_generation = new.observed_generation]
    ELSE new

-----------------------------------------------------------------------------
\* Listeners.

\* Defect: the API group of a route kind is not looked at.
check_route_kinds_any_group(kind, rgks) ==
    Len(rgks) > 1 \/ (Len(rgks) = 1 /\ rgks[1].kind # kind)

\* Whether the route kinds of a listener are refused, where it supports `kind`.
check_route_kinds(kind, rgks) ==
    \/ Len(rgks) > 1
    \/ /\ Len(rgks) = 1
       /\ rgks[1].kind # kind \/ rgks[1].group \notin {None, Group}

\* The transport protocol of a listener's Service port.
Transport(protocol) ==
    CASE protocol \in {"TCP", "HTTP", "HTTPS"} -> "TCP"
      [] protocol = "UDP"                      -> "UDP"
      [] OTHER                                 -> None

get_listener_status(listener, generation) ==
    LET transport == Transport(listener.protocol)
        kind == IF transport = "TCP" THEN "TCPRoute" ELSE "UDPRoute"
        refused == check_route_kinds(kind, listener.kinds)
        True(reason) == Condition("True", reason, generation)
        False(reason) == Condition("False", reason, generation)
    IN  [supported_kinds |-> IF transport = None THEN <<>> ELSE <<kind>>,
         conditions |->
            [ResolvedRefs |-> IF refused THEN False("InvalidRouteKinds") ELSE True("ResolvedRefs"),
             Accepted     |-> IF transport = None THEN False("UnsupportedProtocol")
                              ELSE IF refused THEN False("InvalidRouteKinds") ELSE True("Accepted"),
             Programmed   |-> IF transport = None \/ refused THEN False("Invalid")
                              ELSE True("Programmed")]]

ListenerStatus(listener, current, generation) ==
    LET new == get_listener_status(listener, generation)
        known == {i \in DOMAIN current : current[i].name = listener.name}
        old(type) == (CHOOSE s \in {current[i].conditions : i \in known} : TRUE)[type]
    IN  [name            |-> listener.name,
         supported_kinds |-> new.supported_kinds,
         conditions      |-> IF known = {} THEN new.conditions
                             ELSE [type \in DOMAIN new.conditions |->
                                      Merged(old(type), new.conditions[type])]]

\* Without a status there is nothing to set the listeners' on.
set_listener_status(gateway) ==
    IF gateway.status = None THEN gateway
    ELSE [gateway EXCEPT !.status.listeners =
            [i \in DOMAIN gateway.spec.listeners |->
                ListenerStatus(gateway.spec.listeners[i], gateway.status.listeners,
                               gateway.generation)]]

-----------------------------------------------------------------------------
\* Gateways.

Supported(address) == address.type \in {None, "IPAddress"}

\* Judges the listeners by the status they were given, the addresses by the spec.
get_accepted_condition(gateway) ==
    LET invalid == /\ gateway.status # None
                   /\ \E i \in DOMAIN gateway.status.listeners :
                         LET conditions == gateway.status.listeners[i].conditions
                         IN  \E type \in DOMAIN conditions : conditions[type].status = "False"
        unsupported == \E i \in DOMAIN gateway.spec.addresses : ~Supported(gateway.spec.addresses[i])
    IN  IF unsupported THEN Condition("False", "UnsupportedAddress", gateway.generation)
        ELSE IF invalid THEN Condition("False", "ListenersNotValid", gateway.generation)
        ELSE Condition("True", "Accepted", gateway.generation)

set_condition(gateway, type, new) ==
    IF gateway.status = None THEN gateway
    ELSE LET conditions == gateway.status.conditions
         IN  [gateway EXCEPT !.status.conditions =
                [t \in DOMAIN conditions \cup {type} |->
                    IF t # type THEN conditions[t]
                    ELSE IF type \in DOMAIN conditions THEN Merged(conditions[type], new) ELSE new]]

EmptyStatus == [conditions |-> <<>>, listeners |-> <<>>, addresses |-> <<>>]

IngressIps(ingress) == SelectSeq(ingress, LAMBDA ip : ip # None)

set_gateway_status_addresses(gateway, ingress) ==
    LET status == IF gateway.status = None THEN EmptyStatus ELSE gateway.status
    IN  [gateway EXCEPT !.status = [status EXCEPT !.addresses = IngressIps(ingress)]]

-----------------------------------------------------------------------------
\* Services.

\* The elements of s at the positions of I, in order.
ElementsAt(s, I) ==
    [k \in 1 .. Cardinality(I) |-> s[CHOOSE i \in I : Cardinality({j \in I : j <= i}) = k]]

ServicePorts(listeners) ==
    LET supported == ElementsAt(listeners, {i \in DOMAIN listeners : Transport(listeners[i].protocol) # None})
    IN  [i \in DOMAIN supported |-> [name |-> supported[i].name, port |-> supported[i].port,
                                     protocol |-> Transport(supported[i].protocol)]]

StaticAddress(spec) == IF spec.addresses = <<>> THEN None ELSE spec.addresses[1].value

\* Defect: a Service without a type is left without one.
update_service_keeps_type(gateway, svc) ==
    [svc EXCEPT !.ports = ServicePorts(gateway.spec.listeners),
                !.load_balancer_ip = IF @ = None THEN None ELSE StaticAddress(gateway.spec)]

\* The Service after the update.  The address is compared with, and set on, a
\* Service that has one; one that has none keeps none.  An unsupported first
\* address is an error, but a Gateway with one is not accepted and comes no
\* further.  For a Service the API server returned, which has a type and ports,
\* the code's `updated` is whether the result differs.
update_service_for_gateway(gateway, svc) ==
    [svc EXCEPT !.type = "LoadBalancer",
                !.ports = ServicePorts(gateway.spec.listeners),
                !.load_balancer_ip = IF @ = None THEN None ELSE StaticAddress(gateway.spec)]

NewService == [type |-> None, ports |-> <<>>, load_balancer_ip |-> None, ingress |-> <<>>]
=============================================================================
