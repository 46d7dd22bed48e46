----------------------------- MODULE MCGateway ------------------------------
(***************************************************************************)
(* GatewayController on small instances: the Gateway specs users write.    *)
(***************************************************************************)
EXTENDS GatewayController, TLC

CONSTANTS ip1, ip2

Listener(name, port, protocol, kinds) ==
    [name |-> name, port |-> port, protocol |-> protocol, kinds |-> kinds]

Kind(kind, group) == [kind |-> kind, group |-> group]

Ip(value) == [type |-> "IPAddress", value |-> value]

Web == Listener("web", 80, "TCP", <<Kind("TCPRoute", Group)>>)
Dns == Listener("dns", 53, "UDP", <<>>)

Plain == [listeners |-> <<Web>>, addresses |-> <<>>]
Both == [listeners |-> <<Dns, Web>>, addresses |-> <<>>]
Static == [listeners |-> <<Web>>, addresses |-> <<Ip(ip2)>>]
WrongAddress == [listeners |-> <<Web>>, addresses |-> <<[type |-> "Hostname", value |-> None]>>]

\* A Gateway whose first listener has this protocol and these kinds.
First(protocol, kinds) ==
    [listeners |-> <<Listener("web", 80, protocol, kinds), Dns>>, addresses |-> <<>>]

WrongGroup == First("UDP", <<Kind("UDPRoute", "other")>>)
WrongProtocol == First("SCTP", <<>>)

MCSpecs == {Plain, Both, WrongAddress, WrongGroup, WrongProtocol}

MCStatic == {Static}

\* A user takes away the ports other than the first listener's, or gives that one
\* another number: for these the patch is made, or refused.
MCUserPorts ==
    {<<[name |-> "web", port |-> n, protocol |-> "TCP"]>> : n \in {80, 8080}}

MCIngresses == {<<ip1>>}
MCAllIngresses == {<<None>>, <<None, ip1>>}
=============================================================================
