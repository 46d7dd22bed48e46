--------------------------- MODULE GatewayProofs ----------------------------
(***************************************************************************)
(* Proofs about the controller, for any specs, Services, ingresses and     *)
(* bounds: its verdicts on a Gateway; for any number of controllers, the   *)
(* types and the coherence of a status; and, for one controller, that      *)
(* there is at most one Service, that the status implements GatewayStatus, *)
(* and that a programmed Gateway's listeners are served.                   *)
(***************************************************************************)
EXTENDS GatewayController, FiniteSetTheorems, TLAPS

\* A Gateway without a status is told apart from one with any status.
NoneIsNoStatus ==
    \A conditions, listeners, addresses :
        None # [conditions |-> conditions, listeners |-> listeners, addresses |-> addresses]

GoodCondition(c) ==
    /\ c = [status |-> c.status, reason |-> c.reason, observed_generation |-> c.observed_generation]
    /\ c.observed_generation \in Nat \cup {None}

GoodConditions(cs, types) ==
    /\ cs = [type \in types |-> cs[type]]
    /\ \A type \in types : GoodCondition(cs[type])

ListenerTypes == {"ResolvedRefs", "Accepted", "Programmed"}

GatewayTypes == {"Accepted", "Programmed"}

GoodStatus(s) ==
    /\ s = [conditions |-> s.conditions, listeners |-> s.listeners, addresses |-> s.addresses]
    /\ GoodConditions(s.conditions, GatewayTypes)
    /\ \A i \in DOMAIN s.listeners : GoodConditions(s.listeners[i].conditions, ListenerTypes)

GoodGateway(gw) ==
    /\ gw = [spec |-> gw.spec, generation |-> gw.generation, status |-> gw.status]
    /\ gw.spec \in Specs
    /\ gw.generation \in Nat
    /\ GoodStatus(gw.status)

-----------------------------------------------------------------------------
\* The functions that compute a status.

\* A merged condition has the new one's status and generation.
LEMMA MergedGood ==
    ASSUME NEW current, GoodCondition(current), NEW new, GoodCondition(new)
    PROVE  /\ GoodCondition(Merged(current, new))
           /\ Merged(current, new).status = new.status
           /\ Merged(current, new).observed_generation = new.observed_generation
BY DEF Merged, GoodCondition

\* Condition makes a condition.
LEMMA ConditionGood ==
    ASSUME NEW status, NEW reason, NEW generation \in Nat
    PROVE  /\ GoodCondition(Condition(status, reason, generation))
           /\ Condition(status, reason, generation).status = status
           /\ Condition(status, reason, generation).observed_generation = generation
BY Zenon DEF Condition, GoodCondition

\* set_condition sets the one condition and nothing else.
LEMMA SetConditionGood ==
    ASSUME NoneIsNoStatus, NEW gw, GoodGateway(gw),
           NEW type \in GatewayTypes, NEW new, GoodCondition(new)
    PROVE  LET set == set_condition(gw, type, new)
           IN  /\ GoodGateway(set)
               /\ set.spec = gw.spec /\ set.generation = gw.generation
               /\ set.status.listeners = gw.status.listeners
               /\ set.status.addresses = gw.status.addresses
               /\ set.status.conditions[type].status = new.status
               /\ set.status.conditions[type].observed_generation = new.observed_generation
               /\ \A t \in GatewayTypes : t # type =>
                     set.status.conditions[t] = gw.status.conditions[t]
<1> DEFINE conditions == gw.status.conditions
           merged == Merged(conditions[type], new)
           after == [t \in GatewayTypes |-> IF t = type THEN merged ELSE conditions[t]]
<1>1. gw.status # None /\ GoodConditions(conditions, GatewayTypes)
  BY DEF GoodGateway, GoodStatus, NoneIsNoStatus
<1>2. /\ GoodCondition(merged)
      /\ merged.status = new.status /\ merged.observed_generation = new.observed_generation
  BY <1>1, MergedGood DEF GoodConditions
<1>3. set_condition(gw, type, new) =
         [spec |-> gw.spec, generation |-> gw.generation,
          status |-> [conditions |-> after, listeners |-> gw.status.listeners,
                      addresses |-> gw.status.addresses]]
  <2> HIDE DEF merged
  <2>1. [t \in DOMAIN conditions \cup {type} |->
            IF t # type THEN conditions[t]
            ELSE IF type \in DOMAIN conditions THEN merged ELSE new] = after
    BY <1>1 DEF GoodConditions
  <2>2. set_condition(gw, type, new) = [gw EXCEPT !.status.conditions = after]
    BY <1>1, <2>1 DEF set_condition, merged
  <2> HIDE DEF after
  <2> QED
    BY <2>2 DEF GoodGateway, GoodStatus
<1> HIDE DEF merged
<1>4. GoodConditions(after, GatewayTypes)
  BY <1>1, <1>2 DEF GoodConditions
<1> QED
  BY <1>2, <1>3, <1>4 DEF GoodGateway, GoodStatus

\* set_condition of Programmed leaves Accepted as it is.
LEMMA SetProgrammed ==
    ASSUME NoneIsNoStatus, NEW gw, GoodGateway(gw), NEW new, GoodCondition(new),
           NEW set, set = set_condition(gw, "Programmed", new)
    PROVE  /\ GoodGateway(set) /\ set.spec = gw.spec /\ set.generation = gw.generation
           /\ set.status.listeners = gw.status.listeners
           /\ set.status.addresses = gw.status.addresses
           /\ set.status.conditions["Programmed"].status = new.status
           /\ set.status.conditions["Programmed"].observed_generation = new.observed_generation
           /\ set.status.conditions["Accepted"] = gw.status.conditions["Accepted"]
BY SetConditionGood DEF GatewayTypes

\* A sequence of one element is that element's.
LEMMA Singleton ==
    ASSUME NEW S, NEW s \in Seq(S), Len(s) = 1
    PROVE  s[1] \in S /\ s = <<s[1]>>
<1>1. s[1] \in S
  OBVIOUS
<1>2. s = <<s[1]>>
  OBVIOUS
<1> QED
  BY <1>1, <1>2

\* A length is zero, one or more.
LEMMA Lengths ==
    ASSUME NEW n \in Nat
    PROVE  n = 0 \/ n = 1 \/ n > 1
OBVIOUS

\* The status of a listener has no false condition just if the listener is valid.
LEMMA ListenerJudged ==
    ASSUME NEW listener, NEW generation \in Nat,
           listener.kinds \in RouteKinds
    PROVE  LET conditions == get_listener_status(listener, generation).conditions
           IN  /\ GoodConditions(conditions, ListenerTypes)
               /\ \A type \in DOMAIN conditions : conditions[type].status \in {"True", "False"}
               /\ ValidListener(listener) <=>
                     \A type \in DOMAIN conditions : conditions[type].status = "True"
<1> DEFINE transport == Transport(listener.protocol)
           kind == IF transport = "TCP" THEN "TCPRoute" ELSE "UDPRoute"
           refused == check_route_kinds(kind, listener.kinds)
           conditions == get_listener_status(listener, generation).conditions
<1>2. refused \in BOOLEAN
  BY DEF check_route_kinds
<1>3. ValidListener(listener) <=> transport # None /\ ~refused
  <2>1. transport # None <=> listener.protocol \in {"TCP", "HTTP", "HTTPS", "UDP"}
    BY NoneAssumption DEF Transport
  <2>2. ASSUME NEW k \in {"TCPRoute", "UDPRoute"}
        PROVE  ~check_route_kinds(k, listener.kinds) <=>
                  \/ listener.kinds = <<>>
                  \/ listener.kinds \in {<<[kind |-> k, group |-> g]>> : g \in {None, Group}}
    <3> DEFINE kinds == listener.kinds
               KindType == [kind : STRING, group : STRING \cup {None}]
    <3>0. kinds \in Seq(KindType) /\ Len(kinds) \in Nat
      BY DEF RouteKinds
    <3>1. CASE Len(kinds) = 0
      BY <3>0, <3>1 DEF check_route_kinds
    <3>2. CASE Len(kinds) = 1
      <4>0. kinds[1] \in KindType /\ kinds = <<kinds[1]>>
        BY <3>0, <3>2, Singleton, Zenon
      <4>1. /\ kinds = <<kinds[1]>> /\ kinds # <<>>
            /\ kinds[1] = [kind |-> kinds[1].kind, group |-> kinds[1].group]
        BY <3>2, <4>0
      <4>2. check_route_kinds(k, kinds) <=>
               kinds[1].kind # k \/ kinds[1].group \notin {None, Group}
        BY <3>2 DEF check_route_kinds
      <4>3. kinds \in {<<[kind |-> k, group |-> g]>> : g \in {None, Group}} <=>
               kinds[1] \in {[kind |-> k, group |-> g] : g \in {None, Group}}
        <5>1. ASSUME NEW g, kinds = <<[kind |-> k, group |-> g]>>
              PROVE  kinds[1] = [kind |-> k, group |-> g]
          BY <5>1
        <5>2. ASSUME NEW g, kinds[1] = [kind |-> k, group |-> g]
              PROVE  kinds = <<[kind |-> k, group |-> g]>>
          BY <4>1, <5>2
        <5> QED
          BY <5>1, <5>2
      <4>4. kinds[1] \in {[kind |-> k, group |-> g] : g \in {None, Group}} <=>
               kinds[1].kind = k /\ kinds[1].group \in {None, Group}
        BY <4>1
      <4> QED
        BY <4>1, <4>2, <4>3, <4>4
    <3>3. CASE Len(kinds) > 1
      <4>1. kinds # <<>>
        BY <3>3
      <4>2. \A g : Len(<<[kind |-> k, group |-> g]>>) = 1
        OBVIOUS
      <4>3. kinds \notin {<<[kind |-> k, group |-> g]>> : g \in {None, Group}}
        <5> SUFFICES ASSUME NEW g, kinds = <<[kind |-> k, group |-> g]>>
                     PROVE  FALSE
          OBVIOUS
        <5> QED
          BY <3>3, <4>2
      <4> QED
        BY <3>3, <4>1, <4>3 DEF check_route_kinds
    <3>4. Len(kinds) = 0 \/ Len(kinds) = 1 \/ Len(kinds) > 1
      BY <3>0, Lengths, Zenon
    <3> QED
      BY <3>1, <3>2, <3>3, <3>4, Zenon
  <2>3. CASE listener.protocol \in {"TCP", "HTTP", "HTTPS"}
    BY <2>1, <2>2, <2>3, NoneAssumption DEF ValidListener, Transport
  <2>4. CASE listener.protocol = "UDP"
    BY <2>1, <2>2, <2>4, NoneAssumption DEF ValidListener, Transport
  <2>5. CASE listener.protocol \notin {"TCP", "HTTP", "HTTPS", "UDP"}
    BY <2>1, <2>5 DEF ValidListener
  <2> QED
    BY <2>3, <2>4, <2>5
<1> HIDE DEF transport, refused
<1>4. conditions =
         [ResolvedRefs |-> IF refused THEN Condition("False", "InvalidRouteKinds", generation)
                           ELSE Condition("True", "ResolvedRefs", generation),
          Accepted     |-> IF transport = None
                           THEN Condition("False", "UnsupportedProtocol", generation)
                           ELSE IF refused THEN Condition("False", "InvalidRouteKinds", generation)
                           ELSE Condition("True", "Accepted", generation),
          Programmed   |-> IF transport = None \/ refused
                           THEN Condition("False", "Invalid", generation)
                           ELSE Condition("True", "Programmed", generation)]
  BY DEF get_listener_status, transport, refused, kind
<1> HIDE DEF conditions
<1>5. DOMAIN conditions = ListenerTypes /\ GoodConditions(conditions, ListenerTypes)
  BY <1>2, <1>4 DEF GoodConditions, GoodCondition, ListenerTypes, Condition
<1>6. /\ conditions["ResolvedRefs"].status = IF refused THEN "False" ELSE "True"
      /\ conditions["Accepted"].status = IF transport = None \/ refused THEN "False" ELSE "True"
      /\ conditions["Programmed"].status = IF transport = None \/ refused THEN "False" ELSE "True"
  BY <1>2, <1>4 DEF Condition
<1>7. /\ \A type \in DOMAIN conditions : conditions[type].status \in {"True", "False"}
      /\ ValidListener(listener) <=>
            \A type \in DOMAIN conditions : conditions[type].status = "True"
  BY <1>3, <1>5, <1>6, Zenon DEF ListenerTypes
<1> QED
  BY <1>5, <1>7 DEF conditions

\* The merged status of a listener says of it what the new one does.
LEMMA ListenerStatusGood ==
    ASSUME NEW listener, NEW current, NEW generation \in Nat,
           listener.kinds \in RouteKinds,
           \A i \in DOMAIN current : GoodConditions(current[i].conditions, ListenerTypes)
    PROVE  LET conditions == ListenerStatus(listener, current, generation).conditions
           IN  /\ GoodConditions(conditions, ListenerTypes)
               /\ \A type \in ListenerTypes : conditions[type].status \in {"True", "False"}
               /\ ValidListener(listener) <=>
                     \A type \in ListenerTypes : conditions[type].status = "True"
<1> DEFINE new == get_listener_status(listener, generation).conditions
           known == {i \in DOMAIN current : current[i].name = listener.name}
           old == CHOOSE s \in {current[i].conditions : i \in known} : TRUE
           merged == [type \in DOMAIN new |-> Merged(old[type], new[type])]
           conditions == ListenerStatus(listener, current, generation).conditions
<1>1. /\ GoodConditions(new, ListenerTypes)
      /\ \A type \in DOMAIN new : new[type].status \in {"True", "False"}
      /\ ValidListener(listener) <=> \A type \in DOMAIN new : new[type].status = "True"
  BY ListenerJudged
<1>2. DOMAIN new = ListenerTypes
  BY <1>1 DEF GoodConditions
<1>3. conditions = IF known = {} THEN new ELSE merged
  BY DEF ListenerStatus
<1> HIDE DEF new
<1>4. known # {} => GoodConditions(old, ListenerTypes)
  OBVIOUS
<1> HIDE DEF known, old
<1>5. ASSUME known # {}, NEW type \in ListenerTypes
      PROVE  /\ GoodCondition(merged[type])
             /\ merged[type].status = new[type].status
  BY <1>1, <1>2, <1>4, <1>5, MergedGood DEF GoodConditions
<1>6. known # {} => GoodConditions(merged, ListenerTypes)
  BY <1>2, <1>5 DEF GoodConditions
<1> HIDE DEF merged, conditions
<1>7. /\ GoodConditions(conditions, ListenerTypes)
      /\ \A type \in ListenerTypes : conditions[type].status = new[type].status
  BY <1>1, <1>3, <1>5, <1>6, Zenon
<1> QED
  BY <1>1, <1>2, <1>7, Zenon DEF conditions

\* The verdict on a Gateway is the verdict on its spec, whatever its status was: it is
\* accepted just if its spec is valid, and then no listener has a false condition.
LEMMA AcceptedIffValid ==
    ASSUME NoneIsNoStatus, NEW gw, GoodGateway(gw)
    PROVE  LET judged == set_listener_status(gw)
               accepted == get_accepted_condition(judged)
           IN  /\ GoodGateway(judged)
               /\ judged.spec = gw.spec /\ judged.generation = gw.generation
               /\ GoodCondition(accepted)
               /\ accepted.observed_generation = gw.generation
               /\ accepted.status = IF Valid(gw.spec) THEN "True" ELSE "False"
               /\ Valid(gw.spec) => \A i \in DOMAIN judged.status.listeners :
                     \A type \in ListenerTypes :
                         judged.status.listeners[i].conditions[type].status = "True"
<1> DEFINE spec == gw.spec
           current == gw.status.listeners
           listeners == [i \in DOMAIN spec.listeners |->
                            ListenerStatus(spec.listeners[i], current, gw.generation)]
           judged == set_listener_status(gw)
           accepted == get_accepted_condition(judged)
<1>1. judged = [spec |-> spec, generation |-> gw.generation,
                status |-> [conditions |-> gw.status.conditions, listeners |-> listeners,
                            addresses |-> gw.status.addresses]]
  <2>1. judged = [gw EXCEPT !.status.listeners = listeners]
    BY DEF set_listener_status, GoodGateway, GoodStatus, NoneIsNoStatus
  <2> HIDE DEF listeners, judged
  <2> QED
    BY <2>1 DEF GoodGateway, GoodStatus
<1>2. ASSUME NEW i \in DOMAIN spec.listeners
      PROVE  /\ GoodConditions(listeners[i].conditions, ListenerTypes)
             /\ \A type \in ListenerTypes : listeners[i].conditions[type].status \in {"True", "False"}
             /\ ValidListener(spec.listeners[i]) <=>
                   \A type \in ListenerTypes : listeners[i].conditions[type].status = "True"
  <2>1. spec.listeners[i].kinds \in RouteKinds
    BY ControllerAssumption, Zenon DEF GoodGateway
  <2>2. gw.generation \in Nat /\
        \A j \in DOMAIN current : GoodConditions(current[j].conditions, ListenerTypes)
    BY DEF GoodGateway, GoodStatus
  <2> DEFINE status == ListenerStatus(spec.listeners[i], current, gw.generation)
  <2>3. listeners[i] = status
    BY Zenon
  <2> HIDE DEF listeners, current
  <2>4. /\ GoodConditions(status.conditions, ListenerTypes)
        /\ \A type \in ListenerTypes : status.conditions[type].status \in {"True", "False"}
        /\ ValidListener(spec.listeners[i]) <=>
              \A type \in ListenerTypes : status.conditions[type].status = "True"
    <3> HIDE DEF spec
    <3> QED
      BY <2>1, <2>2, ListenerStatusGood
  <2> HIDE DEF status
  <2> QED
    BY <2>3, <2>4
<1>3. DOMAIN listeners = DOMAIN spec.listeners
  OBVIOUS
<1> HIDE DEF listeners, judged
<1>4. GoodGateway(judged)
  BY <1>1, <1>2, <1>3 DEF GoodGateway, GoodStatus
<1> DEFINE invalid == \E i \in DOMAIN listeners :
                         \E type \in DOMAIN listeners[i].conditions :
                             listeners[i].conditions[type].status = "False"
           unsupported == \E i \in DOMAIN spec.addresses : ~Supported(spec.addresses[i])
<1>5. \A i \in DOMAIN listeners : DOMAIN listeners[i].conditions = ListenerTypes
  BY <1>2, <1>3, Zenon DEF GoodConditions
<1>6. invalid <=> ~\A i \in DOMAIN spec.listeners : ValidListener(spec.listeners[i])
  BY <1>2, <1>3, <1>5
<1>7. Valid(spec) <=> ~invalid /\ ~unsupported
  BY <1>6, Zenon DEF Valid, Supported
<1>8. accepted = IF unsupported THEN Condition("False", "UnsupportedAddress", gw.generation)
                 ELSE IF invalid THEN Condition("False", "ListenersNotValid", gw.generation)
                 ELSE Condition("True", "Accepted", gw.generation)
  <2>1. judged.status # None
    BY <1>1 DEF NoneIsNoStatus
  <2> QED
    BY <1>1, <2>1 DEF get_accepted_condition
<1> HIDE DEF invalid, unsupported, accepted
<1>9. /\ GoodCondition(accepted)
      /\ accepted.observed_generation = gw.generation
      /\ accepted.status = IF Valid(spec) THEN "True" ELSE "False"
  BY <1>7, <1>8, ConditionGood DEF GoodGateway
<1>10. Valid(spec) => \A i \in DOMAIN listeners : \A type \in ListenerTypes :
          listeners[i].conditions[type].status = "True"
  BY <1>2, <1>3 DEF Valid
<1> QED
  BY <1>1, <1>4, <1>9, <1>10 DEF judged, accepted

-----------------------------------------------------------------------------
\* What a reconciliation knows of the Gateway at each step.

\* The Gateway as it was at one of its generations, with any good status.
Seen(gw, v) ==
    /\ GoodGateway(gw)
    /\ gw.generation \in 1 .. Len(v)
    /\ v[gw.generation] <=> Valid(gw.spec)

AcceptedGateway(gw) ==
    /\ Valid(gw.spec)
    /\ gw.status.conditions["Accepted"].status = "True"
    /\ gw.status.conditions["Accepted"].observed_generation = gw.generation
    /\ \A i \in DOMAIN gw.status.listeners : \A type \in ListenerTypes :
          gw.status.listeners[i].conditions[type].status = "True"

JudgedGateway(gw) ==
    /\ gw.status.conditions["Accepted"].status = IF Valid(gw.spec) THEN "True" ELSE "False"
    /\ gw.status.conditions["Accepted"].observed_generation = gw.generation
    /\ gw.status.conditions["Programmed"].observed_generation = gw.generation
    /\ \/ gw.status.conditions["Programmed"].status = "False"
       \/ /\ gw.status.conditions["Programmed"].status = "True"
          /\ AcceptedGateway(gw)
          /\ gw.status.addresses # <<>>

Resting == {"idle", "down", "await_change"}

GoodLocals(l, v) ==
    /\ l = [pc |-> l.pc, gw |-> l.gw, id |-> l.id, listed |-> l.listed, service |-> l.service]
    /\ l.pc \notin Resting => Seen(l.gw, v)
    /\ l.pc \in {"list", "create_service", "patch_service", "get_endpoints", "create_endpoints"} =>
          AcceptedGateway(l.gw)
    /\ l.pc \in {"get_endpoints", "create_endpoints"} => IngressIps(l.service.ingress) # <<>>
    /\ l.pc = "patch_status" => JudgedGateway(l.gw)

GInv ==
    /\ valid \in Seq(BOOLEAN) /\ Len(valid) = gateway.generation
    /\ Seen(gateway, valid)
    /\ StatusCoherent
    /\ ctl = [c \in Controllers |-> ctl[c]] /\ cache = [c \in Controllers |-> cache[c]]
    /\ \A c \in Controllers : GoodLocals(ctl[c], valid)
    /\ \A c \in Controllers : ctl[c].pc # "down" => Seen(cache[c], valid)

\* A reconciliation goes on, from locals l to m, with the object it was given.
Continues(l, m) ==
    m.pc \notin Resting => m.gw.generation = l.gw.generation /\ m.gw.spec = l.gw.spec

\* The status that is about to be patched in does not say Programmed.
Unprogrammed(m) == m.pc = "patch_status" => m.gw.status.conditions["Programmed"].status # "True"

\* A resting controller knows nothing.
LEMMA RestingGood ==
    ASSUME NEW v, NEW pc \in Resting, NEW l
    PROVE  /\ GoodLocals([Idle EXCEPT !.pc = pc], v) /\ GoodLocals(Idle, v) /\ GoodLocals(Down, v)
           /\ Continues(l, [Idle EXCEPT !.pc = pc]) /\ Continues(l, Idle) /\ Continues(l, Down)
           /\ Idle.pc = "idle" /\ Down.pc = "down"
BY DEF GoodLocals, Idle, Down, Resting, Continues

\* Only the spec, the generation and the listed history make a Gateway a seen one.
LEMMA SeenKept ==
    ASSUME NEW v, NEW gw, Seen(gw, v), NEW other, GoodGateway(other),
           other.spec = gw.spec, other.generation = gw.generation
    PROVE  Seen(other, v)
BY DEF Seen

\* GetClass: the verdict on the object that was given.
LEMMA JudgedGood ==
    ASSUME NoneIsNoStatus, NEW v, NEW l, l.pc = "get_class", GoodLocals(l, v)
    PROVE  LET gw == set_listener_status(l.gw)
               m == Judged(gw, get_accepted_condition(gw))
           IN  GoodLocals(m, v) /\ Continues(l, m) /\ Unprogrammed(m)
<1> DEFINE gw == set_listener_status(l.gw)
           accepted == get_accepted_condition(gw)
           judged == set_condition(gw, "Accepted", accepted)
           refused == [accepted EXCEPT !.reason = "Programmed"]
           both == set_condition(judged, "Programmed", refused)
           m == Judged(gw, accepted)
<1>1. Seen(l.gw, v) /\ GoodGateway(l.gw)
  BY Zenon DEF GoodLocals, Resting, Seen
<1>2. /\ GoodGateway(gw) /\ gw.spec = l.gw.spec /\ gw.generation = l.gw.generation
      /\ GoodCondition(accepted) /\ accepted.observed_generation = l.gw.generation
      /\ accepted.status = IF Valid(l.gw.spec) THEN "True" ELSE "False"
      /\ Valid(l.gw.spec) => \A i \in DOMAIN gw.status.listeners : \A type \in ListenerTypes :
            gw.status.listeners[i].conditions[type].status = "True"
  BY <1>1, AcceptedIffValid, Zenon
<1> HIDE DEF gw, accepted
<1>3. /\ GoodGateway(judged) /\ judged.spec = gw.spec /\ judged.generation = gw.generation
      /\ judged.status.listeners = gw.status.listeners
      /\ judged.status.conditions["Accepted"].status = accepted.status
      /\ judged.status.conditions["Accepted"].observed_generation = accepted.observed_generation
  BY <1>2, SetConditionGood DEF GatewayTypes
<1>4. /\ GoodCondition(refused) /\ refused.status = accepted.status
      /\ refused.observed_generation = accepted.observed_generation
  BY <1>2 DEF GoodCondition
<1> HIDE DEF judged, refused
<1>5. /\ GoodGateway(both) /\ both.spec = gw.spec /\ both.generation = gw.generation
      /\ both.status.conditions["Accepted"] = judged.status.conditions["Accepted"]
      /\ both.status.conditions["Programmed"].status = refused.status
      /\ both.status.conditions["Programmed"].observed_generation = refused.observed_generation
  BY <1>3, <1>4, SetConditionGood DEF GatewayTypes
<1> HIDE DEF both
<1>6. Seen(judged, v) /\ Seen(both, v)
  BY <1>1, <1>2, <1>3, <1>5, SeenKept, Zenon
<1>7. CASE Valid(l.gw.spec)
  <2>1. m = [Idle EXCEPT !.pc = "list", !.gw = judged]
    BY <1>2, <1>7, Zenon DEF Judged, judged
  <2>2. AcceptedGateway(judged)
    BY <1>2, <1>3, <1>7 DEF AcceptedGateway
  <2> HIDE DEF m
  <2>3. GoodLocals(m, v) /\ Continues(l, m) /\ Unprogrammed(m)
    BY <1>2, <1>3, <1>6, <2>1, <2>2, Zenon DEF GoodLocals, Idle, Continues, Unprogrammed
  <2> QED
    BY <2>3 DEF m, gw, accepted
<1>8. CASE ~Valid(l.gw.spec)
  <2>1. m = [Idle EXCEPT !.pc = "patch_status", !.gw = both]
    BY <1>2, <1>8, Zenon DEF Judged, judged, both, refused
  <2>2. JudgedGateway(both)
    BY <1>2, <1>3, <1>4, <1>5, <1>8, Zenon DEF JudgedGateway
  <2> HIDE DEF m
  <2>3. GoodLocals(m, v) /\ Continues(l, m) /\ m.gw = both
    BY <1>2, <1>5, <1>6, <2>1, <2>2, Zenon DEF GoodLocals, Idle, Continues
  <2>4. Unprogrammed(m)
    BY <1>2, <1>4, <1>5, <1>8, <2>3, Zenon DEF Unprogrammed
  <2> QED
    BY <2>3, <2>4, Zenon DEF m, gw, accepted
<1> QED
  BY <1>7, <1>8

\* What follows once the Service is known.
LEMMA WithServiceGood ==
    ASSUME NoneIsNoStatus, NEW v, NEW l, NEW id, NEW svc, GoodLocals(l, v),
           l.pc \in {"list", "create_service", "patch_service"}
    PROVE  /\ GoodLocals(WithService(l, id, svc), v)
           /\ Continues(l, WithService(l, id, svc)) /\ Unprogrammed(WithService(l, id, svc))
           /\ WithService(l, id, svc).pc \in {"patch_status", "idle", "get_endpoints"}
<1> DEFINE new == Condition("False", "AddressNotAssigned", l.gw.generation)
           pending == set_condition(l.gw, "Programmed", new)
           m == WithService(l, id, svc)
<1>1. Seen(l.gw, v) /\ GoodGateway(l.gw) /\ AcceptedGateway(l.gw)
  BY Zenon DEF GoodLocals, Resting, Seen
<1>2. CASE svc.ingress = <<>>
  <2>1. /\ GoodCondition(new) /\ new.status = "False" /\ new.observed_generation = l.gw.generation
    BY <1>1, ConditionGood DEF GoodGateway
  <2>2. m = [Idle EXCEPT !.pc = "patch_status", !.gw = pending]
    BY <1>2, Zenon DEF WithService
  <2> HIDE DEF new
  <2>3. /\ GoodGateway(pending) /\ pending.spec = l.gw.spec /\ pending.generation = l.gw.generation
        /\ pending.status.conditions["Accepted"] = l.gw.status.conditions["Accepted"]
        /\ pending.status.conditions["Programmed"].status = "False"
        /\ pending.status.conditions["Programmed"].observed_generation = l.gw.generation
    BY <1>1, <2>1, SetConditionGood DEF GatewayTypes
  <2> HIDE DEF pending, m
  <2>4. Seen(pending, v) /\ JudgedGateway(pending)
    BY <1>1, <2>3, SeenKept DEF JudgedGateway, AcceptedGateway
  <2>5. GoodLocals(m, v) /\ Continues(l, m) /\ m.pc = "patch_status" /\ m.gw = pending
    BY <2>2, <2>3, <2>4, Zenon DEF GoodLocals, Idle, Continues
  <2> QED
    BY <2>3, <2>5, Zenon DEF m, Unprogrammed
<1>3. CASE svc.ingress # <<>> /\ IngressIps(svc.ingress) = <<>>
  BY <1>3, RestingGood, Zenon DEF WithService, Resting, Unprogrammed
<1>4. CASE svc.ingress # <<>> /\ IngressIps(svc.ingress) # <<>>
  <2>1. m = [l EXCEPT !.pc = "get_endpoints", !.id = id, !.listed = None, !.service = svc]
    BY <1>4 DEF WithService
  <2> HIDE DEF m
  <2>2. GoodLocals(m, v) /\ Continues(l, m) /\ m.pc = "get_endpoints"
    BY <1>1, <1>4, <2>1, Zenon DEF GoodLocals, Continues
  <2> QED
    BY <2>2 DEF m, Unprogrammed
<1> QED
  BY <1>2, <1>3, <1>4, Zenon

\* What follows once the Endpoints are taken to exist.
LEMMA ProgrammedGood ==
    ASSUME NoneIsNoStatus, NEW v, NEW l, GoodLocals(l, v),
           l.pc \in {"get_endpoints", "create_endpoints"}
    PROVE  /\ GoodLocals(Programmed(l), v)
           /\ Continues(l, Programmed(l))
           /\ Programmed(l).pc = "patch_status" /\ ~Unprogrammed(Programmed(l))
<1> DEFINE ips == IngressIps(l.service.ingress)
           gw == set_gateway_status_addresses(l.gw, l.service.ingress)
           new == Condition("True", "Programmed", gw.generation)
           done == set_condition(gw, "Programmed", new)
           m == Programmed(l)
<1>1. Seen(l.gw, v) /\ GoodGateway(l.gw) /\ AcceptedGateway(l.gw) /\ ips # <<>>
  BY DEF GoodLocals, Resting, Seen
<1>2. gw = [spec |-> l.gw.spec, generation |-> l.gw.generation,
            status |-> [conditions |-> l.gw.status.conditions,
                        listeners |-> l.gw.status.listeners, addresses |-> ips]]
  <2>1. l.gw.status # None
    BY <1>1 DEF GoodGateway, GoodStatus, NoneIsNoStatus
  <2>2. gw = [l.gw EXCEPT !.status = [l.gw.status EXCEPT !.addresses = ips]]
    BY <2>1 DEF set_gateway_status_addresses
  <2> HIDE DEF gw, ips
  <2> QED
    BY <1>1, <2>2, Zenon DEF GoodGateway, GoodStatus
<1>3. m = [Idle EXCEPT !.pc = "patch_status", !.gw = done]
  BY Zenon DEF Programmed
<1> HIDE DEF gw, ips, m
<1>4. GoodGateway(gw)
  BY <1>1, <1>2 DEF GoodGateway, GoodStatus
<1>5. GoodCondition(new) /\ new.status = "True" /\ new.observed_generation = gw.generation
  BY <1>4, ConditionGood DEF GoodGateway
<1> HIDE DEF new
<1>6. /\ GoodGateway(done) /\ done.spec = l.gw.spec /\ done.generation = l.gw.generation
      /\ done.status.listeners = l.gw.status.listeners /\ done.status.addresses = ips
      /\ done.status.conditions["Accepted"] = l.gw.status.conditions["Accepted"]
      /\ done.status.conditions["Programmed"].status = "True"
      /\ done.status.conditions["Programmed"].observed_generation = l.gw.generation
  <2>1. /\ GoodGateway(done) /\ done.spec = gw.spec /\ done.generation = gw.generation
        /\ done.status.listeners = gw.status.listeners /\ done.status.addresses = gw.status.addresses
        /\ done.status.conditions["Programmed"].status = new.status
        /\ done.status.conditions["Programmed"].observed_generation = new.observed_generation
        /\ done.status.conditions["Accepted"] = gw.status.conditions["Accepted"]
    BY <1>4, <1>5, SetProgrammed, SMTT(20)
  <2> HIDE DEF done
  <2> QED
    BY <1>2, <1>5, <2>1
<1> HIDE DEF done
<1>7. Seen(done, v) /\ JudgedGateway(done)
  BY <1>1, <1>6, SeenKept, Zenon DEF JudgedGateway, AcceptedGateway
<1>8. GoodLocals(m, v) /\ Continues(l, m) /\ m.pc = "patch_status" /\ m.gw = done
  BY <1>3, <1>6, <1>7, Zenon DEF GoodLocals, Idle, Continues
<1>9. ~Unprogrammed(m)
  BY <1>6, <1>8, Zenon DEF Unprogrammed
<1> QED
  BY <1>8, <1>9, Zenon DEF m

-----------------------------------------------------------------------------
\* Every step keeps the invariant.

\* What is known of an earlier generation stays known when a spec is added.
LEMMA AppendKeeps ==
    ASSUME NEW v \in Seq(BOOLEAN), NEW b \in BOOLEAN, NEW gw, Seen(gw, v)
    PROVE  Seen(gw, Append(v, b))
BY DEF Seen

\* A step of one controller that leaves the Gateway alone.
LEMMA LocalStep ==
    ASSUME GInv, NEW c \in Controllers, NEW m, GoodLocals(m, valid),
           ctl' = [ctl EXCEPT ![c] = m], UNCHANGED <<gateway, valid>>,
           \/ UNCHANGED cache /\ (m.pc # "down" => ctl[c].pc # "down")
           \/ \E o : cache' = [cache EXCEPT ![c] = o] /\ (m.pc # "down" => Seen(o, valid))
    PROVE  GInv'
<1>1. ctl' = [d \in Controllers |-> ctl'[d]] /\ cache' = [d \in Controllers |-> cache'[d]]
  BY DEF GInv
<1>2. \A d \in Controllers : ctl'[d] = IF d = c THEN m ELSE ctl[d]
  BY DEF GInv
<1>3. ASSUME NEW d \in Controllers, ctl'[d].pc # "down"
      PROVE  Seen(cache'[d], valid')
  BY <1>2, <1>3, Zenon DEF GInv
<1>4. StatusCoherent'
  BY DEF GInv, StatusCoherent, AcceptedCondition, ProgrammedCondition
<1>5. Seen(gateway, valid)' /\ \A d \in Controllers : GoodLocals(ctl[d], valid)'
  BY <1>2 DEF GInv
<1> QED
  BY <1>1, <1>3, <1>4, <1>5, Zenon DEF GInv

\* Start: the object of the cache.
LEMMA StartGood ==
    ASSUME NEW v, NEW gw, Seen(gw, v)
    PROVE  LET m == [Idle EXCEPT !.pc = "get_class", !.gw = gw]
           IN  GoodLocals(m, v) /\ m.pc = "get_class" /\ m.gw = gw
<1> DEFINE m == [Idle EXCEPT !.pc = "get_class", !.gw = gw]
<1>1. m = [Idle EXCEPT !.pc = "get_class", !.gw = gw]
  OBVIOUS
<1> HIDE DEF m
<1>2. GoodLocals(m, v) /\ m.pc = "get_class" /\ m.gw = gw
  BY <1>1, Zenon DEF GoodLocals, Idle
<1> QED
  BY <1>2 DEF m

\* ListServices, where the Service differs from what the Gateway asks for.
Patching(l, id, svc, wanted) ==
    [l EXCEPT !.pc = "patch_service", !.id = id, !.listed = svc, !.service = wanted]

\* What comes of listing the Services.
LEMMA ListOutcomes ==
    ASSUME NEW c, ListServices(c)
    PROVE  \/ Existing = {} /\ ctl' = [ctl EXCEPT ![c] = [ctl[c] EXCEPT !.pc = "create_service"]]
           \/ \E id \in Existing :
                 ctl' = [ctl EXCEPT ![c] = Patching(ctl[c], id, services[id],
                                              update_service_for_gateway(ctl[c].gw, services[id]))]
           \/ \E id \in Existing :
                 /\ Existing = {id}
                 /\ services[id] = update_service_for_gateway(ctl[c].gw, services[id])
                 /\ ctl' = [ctl EXCEPT ![c] = WithService(ctl[c], id, services[id])]
           \/ ctl' = [ctl EXCEPT ![c] = Idle]
<1>1. CASE Requeue(c)
  BY <1>1, Zenon DEF Requeue, Goto
<1>2. CASE Existing = {} /\ Goto(c, [ctl[c] EXCEPT !.pc = "create_service"])
  BY <1>2, Zenon DEF Goto
<1>3. ASSUME NEW id \in Existing, NEW wanted,
             wanted = update_service_for_gateway(ctl[c].gw, services[id]),
             Goto(c, [ctl[c] EXCEPT !.pc = "patch_service", !.id = id, !.listed = services[id],
                                    !.service = wanted])
      PROVE  ctl' = [ctl EXCEPT ![c] = Patching(ctl[c], id, services[id],
                                          update_service_for_gateway(ctl[c].gw, services[id]))]
  BY <1>3, Zenon DEF Goto, Patching
<1>4. ASSUME NEW id \in Existing, Goto(c, WithService(ctl[c], id, services[id]))
      PROVE  ctl' = [ctl EXCEPT ![c] = WithService(ctl[c], id, services[id])]
  BY <1>4, Zenon DEF Goto
<1> QED
  BY <1>1, <1>2, <1>3, <1>4, Zenon DEF ListServices

\* It goes on to patch the Service.
LEMMA DriftGood ==
    ASSUME NEW v, NEW l, GoodLocals(l, v), l.pc = "list", NEW id, NEW svc, NEW wanted
    PROVE  LET m == Patching(l, id, svc, wanted)
           IN  GoodLocals(m, v) /\ Continues(l, m) /\ m.pc = "patch_service"
<1> DEFINE m == Patching(l, id, svc, wanted)
<1>1. m = [l EXCEPT !.pc = "patch_service", !.id = id, !.listed = svc, !.service = wanted]
  BY DEF Patching
<1> HIDE DEF m
<1>2. GoodLocals(m, v) /\ Continues(l, m) /\ m.pc = "patch_service"
  BY <1>1, Zenon DEF GoodLocals, Continues, Resting
<1> QED
  BY <1>2 DEF m

\* The locals that a controller's step leaves behind, patch_status apart.
LEMMA StepLocals ==
    ASSUME NoneIsNoStatus, GInv, NEW c \in Controllers,
           \/ Start(c) \/ GetClass(c) \/ ListServices(c) \/ create_svc_for_gateway(c)
           \/ PatchService(c) \/ GetEndpoints(c) \/ CreateEndpoints(c) \/ Fail(c)
    PROVE  \E m : /\ GoodLocals(m, valid)
                  /\ m.pc # "down" /\ ctl[c].pc # "down"
                  /\ ctl' = [ctl EXCEPT ![c] = m]
                  /\ ctl[c].pc # "idle" => Continues(ctl[c], m)
                  /\ ctl[c].pc = "idle" => m.pc \notin Resting /\ m.gw = cache[c]
                  /\ UNCHANGED <<gateway, valid, cache>>
<1> DEFINE l == ctl[c]
<1>0. GoodLocals(l, valid)
  BY DEF GInv
<1>1. CASE Start(c)
  <2> DEFINE m == [Idle EXCEPT !.pc = "get_class", !.gw = cache[c]]
  <2>1. l.pc = "idle" /\ ctl' = [ctl EXCEPT ![c] = m] /\ UNCHANGED <<gateway, valid, cache>>
    BY <1>1 DEF Start, Goto, At, cluster
  <2>2. Seen(cache[c], valid)
    BY <2>1 DEF GInv
  <2>3. GoodLocals(m, valid) /\ m.pc = "get_class" /\ m.gw = cache[c]
    BY <2>2, StartGood, Zenon
  <2> HIDE DEF m
  <2> QED
    BY <2>1, <2>3, Zenon DEF Resting
<1>2. CASE GetClass(c)
  <2> DEFINE gw == set_listener_status(l.gw)
             m == Judged(gw, get_accepted_condition(gw))
             waiting == [Idle EXCEPT !.pc = "await_change"]
  <2>1. l.pc = "get_class" /\ UNCHANGED <<gateway, valid, cache>>
    BY <1>2, Zenon DEF GetClass, At, cluster
  <2>2. \E n \in {Idle, waiting, m} : ctl' = [ctl EXCEPT ![c] = n]
    BY <1>2, Zenon DEF GetClass, Goto, Requeue
  <2>3. GoodLocals(m, valid) /\ Continues(l, m)
    BY <1>0, <2>1, JudgedGood, Zenon
  <2>4. m.pc # "down"
    BY DEF Judged, Idle
  <2>5. /\ GoodLocals(waiting, valid) /\ GoodLocals(Idle, valid)
        /\ Continues(l, waiting) /\ Continues(l, Idle)
        /\ waiting.pc # "down" /\ Idle.pc # "down"
    BY RestingGood DEF Resting, Idle
  <2> HIDE DEF m, waiting
  <2> QED
    BY <2>1, <2>2, <2>3, <2>4, <2>5, Zenon
<1>3. CASE ListServices(c)
  <2>1. l.pc = "list" /\ UNCHANGED <<gateway, valid, cache>>
    BY <1>3, Zenon DEF ListServices, At, cluster
  <2>2. CASE ctl' = [ctl EXCEPT ![c] = [l EXCEPT !.pc = "create_service"]]
    <3> DEFINE m == [l EXCEPT !.pc = "create_service"]
    <3>1. GoodLocals(m, valid) /\ Continues(l, m) /\ m.pc = "create_service"
      BY <1>0, <2>1 DEF GoodLocals, Continues, Resting
    <3> HIDE DEF m
    <3> QED
      BY <2>1, <2>2, <3>1, Zenon DEF m
  <2>3. CASE \E id, svc, wanted : ctl' = [ctl EXCEPT ![c] = Patching(l, id, svc, wanted)]
    <3>1. PICK id, svc, wanted : ctl' = [ctl EXCEPT ![c] = Patching(l, id, svc, wanted)]
      BY <2>3, Zenon
    <3> QED
      BY <1>0, <2>1, <3>1, DriftGood, Zenon
  <2>4. CASE \E id, svc : ctl' = [ctl EXCEPT ![c] = WithService(l, id, svc)]
    <3>1. PICK id, svc : ctl' = [ctl EXCEPT ![c] = WithService(l, id, svc)]
      BY <2>4, Zenon
    <3> QED
      BY <1>0, <2>1, <3>1, WithServiceGood, Zenon
  <2>5. CASE ctl' = [ctl EXCEPT ![c] = Idle]
    BY <2>1, <2>5, RestingGood, Zenon DEF Resting
  <2> QED
    BY <1>3, <2>2, <2>3, <2>4, <2>5, ListOutcomes, Zenon
<1>4. CASE create_svc_for_gateway(c) \/ PatchService(c)
  <2>1. l.pc \in {"create_service", "patch_service"} /\ UNCHANGED <<gateway, valid, cache>>
    BY <1>4, ZenonT(30) DEF create_svc_for_gateway, PatchService, At
  <2>2. \/ \E id, svc : ctl' = [ctl EXCEPT ![c] = WithService(l, id, svc)]
        \/ ctl' = [ctl EXCEPT ![c] = Idle]
    BY <1>4, Zenon DEF create_svc_for_gateway, PatchService, Answered, Goto, Requeue
  <2>3. CASE \E id, svc : ctl' = [ctl EXCEPT ![c] = WithService(l, id, svc)]
    <3>1. PICK id, svc : ctl' = [ctl EXCEPT ![c] = WithService(l, id, svc)]
      BY <2>3, Zenon
    <3> QED
      BY <1>0, <2>1, <3>1, WithServiceGood, Zenon
  <2>4. CASE ctl' = [ctl EXCEPT ![c] = Idle]
    BY <2>1, <2>4, RestingGood, Zenon DEF Resting
  <2> QED
    BY <2>2, <2>3, <2>4, Zenon
<1>5. CASE GetEndpoints(c) \/ CreateEndpoints(c)
  <2> DEFINE m == [l EXCEPT !.pc = "create_endpoints"]
  <2>1. l.pc \in {"get_endpoints", "create_endpoints"} /\ UNCHANGED <<gateway, valid, cache>>
    BY <1>5, Zenon DEF GetEndpoints, CreateEndpoints, At, cluster
  <2>2. \E n \in {Idle, m, Programmed(l)} : ctl' = [ctl EXCEPT ![c] = n]
    BY <1>5, Zenon DEF GetEndpoints, CreateEndpoints, Answered, Goto, Requeue
  <2>3. GoodLocals(m, valid) /\ Continues(l, m) /\ m.pc = "create_endpoints"
    BY <1>0, <2>1 DEF GoodLocals, Continues, Resting
  <2> HIDE DEF m
  <2> QED
    BY <1>0, <2>1, <2>2, <2>3, ProgrammedGood, RestingGood, Zenon DEF Resting
<1>6. CASE Fail(c)
  <2>1. /\ l.pc \notin Resting /\ ctl' = [ctl EXCEPT ![c] = Idle]
        /\ UNCHANGED <<gateway, valid, cache>>
    BY <1>6, Zenon DEF Fail, cluster, Resting
  <2> QED
    BY <2>1, RestingGood, Zenon DEF Resting
<1> QED
  BY <1>1, <1>2, <1>3, <1>4, <1>5, <1>6, Zenon

Patched(gw, status) == [gw EXCEPT !.status = status]

Coherent(status) ==
    LET conditions == status.conditions
    IN  /\ conditions["Accepted"].observed_generation =
              conditions["Programmed"].observed_generation
        /\ conditions["Programmed"].status = "True" =>
              /\ conditions["Accepted"].status = "True"
              /\ status.addresses # <<>>
              /\ \A i \in DOMAIN status.listeners :
                    \A type \in DOMAIN status.listeners[i].conditions :
                       status.listeners[i].conditions[type].status = "True"

\* A status that a reconciliation has judged is coherent, and is a good status
\* for any Gateway.
LEMMA PatchGood ==
    ASSUME NEW gw, GoodGateway(gw), NEW v, NEW judged, Seen(judged, v), JudgedGateway(judged)
    PROVE  LET after == Patched(gw, judged.status)
           IN  /\ GoodGateway(after) /\ after.spec = gw.spec /\ after.generation = gw.generation
               /\ after.status = judged.status
               /\ Coherent(judged.status)
<1> DEFINE after == Patched(gw, judged.status)
<1>1. /\ after.spec = gw.spec /\ after.generation = gw.generation /\ after.status = judged.status
      /\ after = [spec |-> gw.spec, generation |-> gw.generation, status |-> judged.status]
  BY DEF GoodGateway, Patched
<1> HIDE DEF after
<1>2. GoodStatus(judged.status)
  BY DEF Seen, GoodGateway
<1>3. GoodGateway(after)
  BY <1>1, <1>2 DEF GoodGateway
<1>4. \A i \in DOMAIN judged.status.listeners :
         DOMAIN judged.status.listeners[i].conditions = ListenerTypes
  BY <1>2, Zenon DEF GoodStatus, GoodConditions
<1>5. Coherent(judged.status)
  BY <1>4 DEF JudgedGateway, AcceptedGateway, Coherent
<1> QED
  BY <1>1, <1>3, <1>5, Zenon DEF after

\* The first Gateway, which no controller has seen.
LEMMA GInit ==
    ASSUME Init
    PROVE  GInv
<1> DEFINE conditions == [Accepted   |-> Condition("Unknown", "Pending", None),
                          Programmed |-> Condition("Unknown", "Pending", None)]
<1>1. /\ gateway.spec \in Specs /\ gateway.generation = 1 /\ gateway.status = DefaultStatus
      /\ gateway = [spec |-> gateway.spec, generation |-> gateway.generation,
                    status |-> gateway.status]
  BY DEF Init
<1>2. DefaultStatus = [conditions |-> conditions, listeners |-> <<>>, addresses |-> <<>>]
  BY DEF DefaultStatus, EmptyStatus
<1>3. GoodConditions(conditions, GatewayTypes) /\ conditions["Programmed"].status # "True"
      /\ conditions["Accepted"] = conditions["Programmed"]
  BY DEF GoodConditions, GoodCondition, Condition, GatewayTypes
<1> HIDE DEF conditions
<1>4. GoodStatus(gateway.status)
  BY <1>1, <1>2, <1>3 DEF GoodStatus
<1>5. /\ gateway.status.conditions["Programmed"].status # "True"
      /\ gateway.status.conditions["Accepted"] = gateway.status.conditions["Programmed"]
  BY <1>1, <1>2, <1>3
<1>6. StatusCoherent
  BY <1>5 DEF StatusCoherent, AcceptedCondition, ProgrammedCondition
<1>7. valid \in Seq(BOOLEAN) /\ Len(valid) = 1 /\ (valid[1] <=> Valid(gateway.spec))
  <2> DEFINE b == Valid(gateway.spec)
  <2>1. b \in BOOLEAN
    BY DEF Valid
  <2>2. valid = <<b>>
    BY DEF Init
  <2> HIDE DEF b
  <2>3. valid \in Seq(BOOLEAN) /\ Len(valid) = 1 /\ valid[1] = b
    BY <2>1, <2>2
  <2> QED
    BY <2>3 DEF b
<1>8. Seen(gateway, valid)
  BY <1>1, <1>4, <1>7 DEF Seen, GoodGateway
<1>9. /\ ctl = [c \in Controllers |-> ctl[c]] /\ cache = [c \in Controllers |-> cache[c]]
      /\ \A c \in Controllers : GoodLocals(ctl[c], valid) /\ ctl[c].pc = "down"
  BY RestingGood, Zenon DEF Init, Resting
<1> QED
  BY <1>1, <1>6, <1>7, <1>8, <1>9, Zenon DEF GInv

\* Every step of the cluster and of the controllers keeps what each of them knows.
LEMMA GStep ==
    ASSUME NoneIsNoStatus, GInv, [Next]_vars
    PROVE  GInv'
<1>1. ASSUME NEW c \in Controllers,
             \/ Start(c) \/ GetClass(c) \/ ListServices(c) \/ create_svc_for_gateway(c)
             \/ PatchService(c) \/ GetEndpoints(c) \/ CreateEndpoints(c) \/ Fail(c)
      PROVE  GInv'
  <2>1. PICK m : /\ GoodLocals(m, valid) /\ ctl[c].pc # "down"
                 /\ ctl' = [ctl EXCEPT ![c] = m] /\ UNCHANGED <<gateway, valid, cache>>
    BY <1>1, StepLocals, Zenon
  <2> QED
    BY <2>1, LocalStep, Zenon
<1>2. ASSUME NEW c \in Controllers, patch_status(c)
      PROVE  GInv'
  <2>1. /\ ctl[c].pc = "patch_status" /\ gateway' = [gateway EXCEPT !.status = ctl[c].gw.status]
        /\ ctl' = [ctl EXCEPT ![c] = Idle] /\ UNCHANGED <<valid, cache>>
    BY <1>2, Zenon DEF patch_status, At, Answered, Goto
  <2>2. GoodGateway(gateway) /\ Seen(ctl[c].gw, valid) /\ JudgedGateway(ctl[c].gw)
    BY <2>1, Zenon DEF GInv, GoodLocals, Seen, Resting
  <2>3. /\ GoodGateway(gateway') /\ gateway'.spec = gateway.spec
        /\ gateway'.generation = gateway.generation
        /\ Coherent(gateway'.status)
    <3>1. gateway' = Patched(gateway, ctl[c].gw.status)
      BY <2>1, Zenon DEF Patched
    <3> QED
      BY <2>2, <3>1, PatchGood
  <2>4. StatusCoherent'
    BY <2>3, Zenon DEF StatusCoherent, Coherent, AcceptedCondition, ProgrammedCondition
  <2>5. Seen(gateway', valid')
    BY <2>1, <2>3, Zenon DEF GInv, Seen
  <2>6. /\ ctl' = [d \in Controllers |-> ctl'[d]]
        /\ \A d \in Controllers : ctl'[d] = IF d = c THEN Idle ELSE ctl[d]
    BY <2>1, Zenon DEF GInv
  <2>7. \A d \in Controllers : GoodLocals(ctl[d], valid)'
    BY <2>1, <2>6, RestingGood, Zenon DEF GInv, Resting
  <2>8. \A d \in Controllers : ctl'[d].pc # "down" => Seen(cache'[d], valid')
    BY <2>1, <2>6 DEF GInv
  <2> QED
    BY <2>1, <2>3, <2>4, <2>5, <2>6, <2>7, <2>8, Zenon DEF GInv
<1>3. ASSUME NEW c \in Controllers, Crash(c) \/ Boot(c) \/ Watch(c)
      PROVE  GInv'
  <2>1. UNCHANGED <<gateway, valid>> /\ ctl = [d \in Controllers |-> ctl[d]]
    BY <1>3, Zenon DEF Crash, Boot, Watch, cluster, GInv
  <2>2. CASE UNCHANGED <<ctl, cache>>
    BY <2>1, <2>2 DEF GInv, StatusCoherent, AcceptedCondition, ProgrammedCondition
  <2>3. CASE ctl' = [ctl EXCEPT ![c] = Down] /\ cache' = [cache EXCEPT ![c] = None]
    BY <2>1, <2>3, RestingGood, LocalStep, Zenon DEF Resting
  <2>4. CASE ctl' = [ctl EXCEPT ![c] = Idle] /\ cache' = [cache EXCEPT ![c] = gateway]
    <3>1. Seen(gateway, valid) /\ GoodLocals(Idle, valid)
      BY RestingGood, Zenon DEF GInv, Resting
    <3> QED
      BY <2>1, <2>4, <3>1, LocalStep, Zenon
  <2>5. CASE ctl' = ctl /\ cache' = [cache EXCEPT ![c] = gateway]
    <3>1. ctl' = [ctl EXCEPT ![c] = ctl[c]] /\ Seen(gateway, valid) /\ GoodLocals(ctl[c], valid)
      BY <2>1, <2>5, Zenon DEF GInv
    <3> QED
      BY <2>1, <2>5, <3>1, LocalStep, Zenon
  <2> QED
    BY <1>3, <2>2, <2>3, <2>4, <2>5, Zenon DEF Crash, Boot, Watch, Goto
<1>4. CASE EditGateway
  <2>1. PICK spec \in Specs : /\ gateway' = [gateway EXCEPT !.spec = spec, !.generation = @ + 1]
                              /\ valid' = Append(valid, Valid(spec))
    BY <1>4, Zenon DEF EditGateway
  <2> DEFINE b == Valid(spec)
  <2>2. UNCHANGED <<ctl, cache>> /\ b \in BOOLEAN /\ valid' = Append(valid, b)
    BY <1>4, <2>1, Zenon DEF EditGateway, Valid
  <2>3. GoodGateway(gateway)
    BY DEF GInv, Seen
  <2>4. /\ gateway' = [spec |-> spec, generation |-> gateway.generation + 1,
                       status |-> gateway.status]
    BY <2>1, <2>3, Zenon DEF GoodGateway
  <2>5. GoodGateway(gateway')
    BY <2>3, <2>4 DEF GoodGateway
  <2> HIDE DEF b
  <2>6. /\ valid' \in Seq(BOOLEAN) /\ Len(valid') = gateway'.generation
        /\ gateway'.generation \in 1 .. Len(valid') /\ valid'[gateway'.generation] = b
    BY <2>2, <2>3, <2>4 DEF GInv, GoodGateway
  <2>7. Seen(gateway', valid')
    BY <2>4, <2>5, <2>6, Zenon DEF Seen, b
  <2>8. \A gw : Seen(gw, valid) => Seen(gw, valid')
    BY <2>2, AppendKeeps, Zenon DEF GInv
  <2>9. \A d \in Controllers : GoodLocals(ctl[d], valid)'
    BY <2>2, <2>8, Zenon DEF GInv, GoodLocals
  <2>10. StatusCoherent'
    BY <2>4, Zenon DEF GInv, StatusCoherent, AcceptedCondition, ProgrammedCondition
  <2> QED
    BY <2>2, <2>6, <2>7, <2>8, <2>9, <2>10, Zenon DEF GInv
<1>5. CASE \/ CreateClass \/ UNCHANGED vars
           \/ \E s \in SvcIds : AssignIngress(s) \/ EditService(s)
  <2>1. UNCHANGED <<gateway, valid, ctl, cache>>
    BY <1>5, Zenon DEF CreateClass, AssignIngress, EditService, vars, cluster
  <2> QED
    BY <2>1 DEF GInv, StatusCoherent, AcceptedCondition, ProgrammedCondition
<1> QED
  BY <1>1, <1>2, <1>3, <1>4, <1>5, Zenon DEF Next, reconcile

\* The status of a Gateway is coherent, whatever number of controllers write it
\* from caches of different ages: patch_status replaces the whole status by one
\* that a single reconciliation computed.
THEOREM StatusIsCoherent ==
    ASSUME NoneIsNoStatus
    PROVE  Spec => []StatusCoherent
<1>1. Init => GInv
  BY GInit
<1>2. GInv /\ [Next]_vars => GInv'
  BY GStep
<1>3. GInv => StatusCoherent
  BY Zenon DEF GInv
<1> QED
  BY <1>1, <1>2, <1>3, PTL DEF Spec

-----------------------------------------------------------------------------
\* One controller: the status implements GatewayStatus.

Observed == IF AcceptedCondition.observed_generation = None THEN 0
            ELSE AcceptedCondition.observed_generation

\* The status is about no later a generation than the reconciliation's object,
\* that is of no later a generation than the cache's, nor that than the Gateway's.
InOrder(c) ==
    /\ Observed <= gateway.generation
    /\ ctl[c].pc # "down" => Observed <= cache[c].generation
    /\ ctl[c].pc \notin Resting =>
          Observed <= ctl[c].gw.generation /\ ctl[c].gw.generation <= cache[c].generation

\* The generations are numbers.
LEMMA Generations ==
    ASSUME GInv, NEW c \in Controllers
    PROVE  /\ gateway.generation \in Nat /\ Observed \in Nat
           /\ ctl[c].pc # "down" => cache[c].generation \in 0 .. gateway.generation
           /\ ctl[c].pc \notin Resting => ctl[c].gw.generation \in 0 .. gateway.generation
<1>1. GoodGateway(gateway)
  BY DEF GInv, Seen
<1>2. AcceptedCondition.observed_generation \in Nat \cup {None}
  BY <1>1, Zenon DEF AcceptedCondition, GoodGateway, GoodStatus, GoodConditions, GoodCondition,
              GatewayTypes
<1>3. Observed \in Nat
  BY <1>2, Zenon DEF Observed
<1>4. ctl[c].pc # "down" => Seen(cache[c], valid)
  BY Zenon DEF GInv
<1>5. ctl[c].pc \notin Resting => Seen(ctl[c].gw, valid)
  BY DEF GInv, GoodLocals
<1>6. gateway.generation \in Nat /\ Len(valid) = gateway.generation
  BY <1>1, Zenon DEF GInv, GoodGateway
<1> QED
  BY <1>3, <1>4, <1>5, <1>6 DEF Seen

\* What patch_status does to the conditions, the generation and the history.
LEMMA PatchReports ==
    ASSUME GInv, NEW c \in Controllers, patch_status(c)
    PROVE  LET gw == ctl[c].gw
           IN  /\ ctl[c].pc \notin Resting /\ ctl' = [ctl EXCEPT ![c] = Idle]
               /\ gateway'.generation = gateway.generation /\ UNCHANGED <<valid, cache>>
               /\ gw.generation \in Nat
               /\ valid[gw.generation] <=> Valid(gw.spec)
               /\ AcceptedCondition'.observed_generation = gw.generation
               /\ AcceptedCondition'.status = IF Valid(gw.spec) THEN "True" ELSE "False"
               /\ ProgrammedCondition'.status
                     \in IF Valid(gw.spec) THEN {"True", "False"} ELSE {"False"}
<1>1. /\ ctl[c].pc = "patch_status" /\ ctl' = [ctl EXCEPT ![c] = Idle] /\ UNCHANGED <<valid, cache>>
      /\ gateway' = Patched(gateway, ctl[c].gw.status)
  BY Zenon DEF patch_status, At, Answered, Goto, Patched
<1>2. GoodGateway(gateway) /\ Seen(ctl[c].gw, valid) /\ JudgedGateway(ctl[c].gw)
  BY <1>1, Zenon DEF GInv, GoodLocals, Seen, Resting
<1>3. gateway'.generation = gateway.generation /\ gateway'.status = ctl[c].gw.status
  BY <1>1, <1>2, PatchGood
<1>4. /\ AcceptedCondition' = ctl[c].gw.status.conditions["Accepted"]
      /\ ProgrammedCondition' = ctl[c].gw.status.conditions["Programmed"]
  BY <1>3, Zenon DEF AcceptedCondition, ProgrammedCondition
<1>5. ctl[c].gw.generation \in Nat /\ (valid[ctl[c].gw.generation] <=> Valid(ctl[c].gw.spec))
  BY <1>2 DEF Seen, GoodGateway
<1>6. ctl[c].pc \notin Resting
  BY <1>1 DEF Resting
<1>7. /\ AcceptedCondition'.observed_generation = ctl[c].gw.generation
      /\ AcceptedCondition'.status = IF Valid(ctl[c].gw.spec) THEN "True" ELSE "False"
  BY <1>2, <1>4, Zenon DEF JudgedGateway
<1>8. ProgrammedCondition'.status
         \in IF Valid(ctl[c].gw.spec) THEN {"True", "False"} ELSE {"False"}
  BY <1>2, <1>4, Zenon DEF JudgedGateway, AcceptedGateway
<1> QED
  BY <1>1, <1>3, <1>5, <1>6, <1>7, <1>8, Zenon

\* What a user's edit does to them.
LEMMA EditReports ==
    ASSUME GInv, EditGateway
    PROVE  /\ gateway'.generation = gateway.generation + 1
           /\ \E b \in BOOLEAN : valid' = Append(valid, b)
           /\ AcceptedCondition' = AcceptedCondition /\ ProgrammedCondition' = ProgrammedCondition
           /\ UNCHANGED <<ctl, cache>>
<1>1. PICK spec \in Specs : /\ gateway' = [gateway EXCEPT !.spec = spec, !.generation = @ + 1]
                            /\ valid' = Append(valid, Valid(spec))
  BY Zenon DEF EditGateway
<1>2. Valid(spec) \in BOOLEAN
  BY DEF Valid
<1>3. gateway'.generation = gateway.generation + 1 /\ gateway'.status = gateway.status
  BY <1>1, Zenon DEF GInv, Seen, GoodGateway
<1> QED
  BY <1>1, <1>2, <1>3, Zenon DEF EditGateway, AcceptedCondition, ProgrammedCondition

\* The steps that leave the Gateway alone.
LEMMA OtherSteps ==
    ASSUME NEW c, Controllers = {c}, Next, ~EditGateway, ~patch_status(c)
    PROVE  UNCHANGED <<gateway, valid>>
BY Zenon DEF Next, reconcile, Boot, Start, GetClass, ListServices, create_svc_for_gateway,
       PatchService, GetEndpoints, CreateEndpoints, Fail, Crash, Watch, CreateClass,
       AssignIngress, EditService, cluster

\* With one controller the generations stay in order.
LEMMA InOrderStep ==
    ASSUME NoneIsNoStatus, NEW c, Controllers = {c}, GInv, InOrder(c), [Next]_vars
    PROVE  InOrder(c)'
<1>0. /\ GInv' /\ c \in Controllers /\ gateway.generation \in Nat /\ Observed \in Nat
      /\ ctl[c].pc # "down" => cache[c].generation \in 0 .. gateway.generation
      /\ ctl[c].pc \notin Resting => ctl[c].gw.generation \in 0 .. gateway.generation
  BY GStep, Generations, Zenon
<1>1. CASE patch_status(c)
  <2>1. /\ AcceptedCondition'.observed_generation = ctl[c].gw.generation
        /\ ctl[c].gw.generation \in Nat /\ gateway'.generation = gateway.generation
        /\ UNCHANGED cache /\ ctl[c].pc \notin Resting /\ ctl' = [ctl EXCEPT ![c] = Idle]
    BY <1>0, <1>1, PatchReports, Zenon
  <2>2. Observed' = ctl[c].gw.generation
    BY <2>1, NoneAssumption, Zenon DEF Observed
  <2>3. ctl'[c].pc = "idle"
    BY <1>0, <2>1, Zenon DEF GInv, Idle
  <2> QED
    BY <1>0, <2>1, <2>2, <2>3 DEF InOrder, Resting
<1>2. CASE EditGateway
  <2>1. gateway'.generation = gateway.generation + 1 /\ Observed' = Observed
        /\ UNCHANGED <<ctl, cache>>
    BY <1>2, EditReports, Zenon DEF Observed
  <2> QED
    BY <1>0, <2>1 DEF InOrder
<1>3. CASE ~EditGateway /\ ~patch_status(c)
  <2>1. UNCHANGED <<gateway, valid>> /\ Observed' = Observed
    BY <1>3, OtherSteps, Zenon DEF vars, cluster, Observed, AcceptedCondition
  <2>2. CASE \/ Start(c) \/ GetClass(c) \/ ListServices(c) \/ create_svc_for_gateway(c)
             \/ PatchService(c) \/ GetEndpoints(c) \/ CreateEndpoints(c) \/ Fail(c)
    <3>1. PICK m : /\ m.pc # "down" /\ ctl[c].pc # "down" /\ ctl' = [ctl EXCEPT ![c] = m]
                   /\ ctl[c].pc # "idle" => Continues(ctl[c], m)
                   /\ ctl[c].pc = "idle" => m.pc \notin Resting /\ m.gw = cache[c]
                   /\ UNCHANGED cache
                   /\ ctl[c].pc \notin Resting \/ ctl[c].pc = "idle"
      <4>1. ctl[c].pc \notin Resting \/ ctl[c].pc = "idle"
        BY <2>2, Zenon DEF Start, GetClass, ListServices, create_svc_for_gateway, PatchService,
                    GetEndpoints, CreateEndpoints, Fail, At, Resting
      <4> QED
        BY <1>0, <2>2, <4>1, StepLocals, Zenon
    <3>2. ctl'[c] = m
      BY <1>0, <3>1, Zenon DEF GInv
    <3> QED
      BY <1>0, <2>1, <3>1, <3>2 DEF InOrder, Continues
  <2>3. CASE Crash(c)
    <3>1. ctl'[c].pc = "down"
      BY <1>0, <2>3, Zenon DEF Crash, GInv, Down, Idle
    <3> QED
      BY <1>0, <2>1, <3>1, Zenon DEF InOrder, Resting
  <2>4. CASE Boot(c) \/ Watch(c)
    <3>1. \/ UNCHANGED <<ctl, cache>>
          \/ /\ cache'[c] = gateway
             /\ (ctl'[c] = ctl[c] /\ ctl[c].pc # "down") \/ ctl'[c].pc = "idle"
      BY <1>0, <2>4 DEF Boot, Watch, At, Goto, GInv, Idle
    <3> QED
      BY <1>0, <2>1, <3>1 DEF InOrder, Resting
  <2>5. CASE UNCHANGED <<ctl, cache>>
    BY <1>0, <2>1, <2>5, Zenon DEF InOrder
  <2>6. CreateClass \/ (\E s \in SvcIds : AssignIngress(s) \/ EditService(s)) \/ UNCHANGED vars
           => UNCHANGED <<ctl, cache>>
    BY Zenon DEF CreateClass, AssignIngress, EditService, vars
  <2> QED
    BY <1>3, <2>2, <2>3, <2>4, <2>5, <2>6, Zenon DEF Next, reconcile
<1> QED
  BY <1>1, <1>2, <1>3

\* A step of the one controller, or of the others, is a verdict, an edit or none.
LEMMA StatusStep ==
    ASSUME NoneIsNoStatus, NEW c, Controllers = {c}, GInv, InOrder(c), [Next]_vars
    PROVE  [Status!Next]_Status!statusVars
<1>1. CASE patch_status(c)
  <2> DEFINE g == ctl[c].gw.generation
  <2>1. /\ gateway'.generation = gateway.generation /\ UNCHANGED valid
        /\ ctl[c].pc \notin Resting /\ g \in Nat /\ (valid[g] <=> Valid(ctl[c].gw.spec))
        /\ AcceptedCondition'.observed_generation = g
        /\ AcceptedCondition'.status = IF Valid(ctl[c].gw.spec) THEN "True" ELSE "False"
        /\ ProgrammedCondition'.status
              \in IF Valid(ctl[c].gw.spec) THEN {"True", "False"} ELSE {"False"}
    BY <1>1, PatchReports, Zenon
  <2>2. g \in 1 .. gateway.generation /\ Observed <= g
    BY <2>1, Zenon DEF GInv, GoodLocals, Seen, InOrder
  <2>3. Observed' = g
    BY <2>1, NoneAssumption, Zenon DEF Observed
  <2> HIDE DEF g
  <2>4. Status!Report
    BY <2>1, <2>2, <2>3, Zenon DEF Status!Report, Observed
  <2> QED
    BY <2>4, Zenon DEF Status!Next
<1>2. CASE EditGateway
  <2>1. Status!Edit
    BY <1>2, EditReports, Zenon DEF Status!Edit
  <2> QED
    BY <2>1, Zenon DEF Status!Next
<1>3. CASE ~EditGateway /\ ~patch_status(c)
  <2>1. UNCHANGED <<gateway, valid>>
    BY <1>3, OtherSteps, Zenon DEF vars, cluster
  <2> QED
    BY <2>1, Zenon DEF Status!statusVars, AcceptedCondition, ProgrammedCondition
<1> QED
  BY <1>1, <1>2, <1>3, Zenon

\* The first status is the abstract one's.
LEMMA StatusInit ==
    ASSUME Init, NEW c, Controllers = {c}
    PROVE  Status!Init /\ InOrder(c)
<1>1. /\ gateway.generation = 1
      /\ AcceptedCondition = Condition("Unknown", "Pending", None)
      /\ ProgrammedCondition = Condition("Unknown", "Pending", None)
  <2>1. gateway.generation = 1 /\ gateway.status = DefaultStatus
    BY DEF Init
  <2>2. DefaultStatus.conditions = [Accepted   |-> Condition("Unknown", "Pending", None),
                                    Programmed |-> Condition("Unknown", "Pending", None)]
    BY Zenon DEF DefaultStatus, EmptyStatus
  <2> QED
    BY <2>1, <2>2 DEF AcceptedCondition, ProgrammedCondition
<1>2. /\ AcceptedCondition.observed_generation = None /\ AcceptedCondition.status = "Unknown"
      /\ ProgrammedCondition.status = "Unknown"
  BY <1>1 DEF Condition
<1>3. valid \in {<<TRUE>>, <<FALSE>>}
  <2> DEFINE b == Valid(gateway.spec)
  <2>1. b \in BOOLEAN /\ valid = <<b>>
    BY DEF Init, Valid
  <2> HIDE DEF b
  <2> QED
    BY <2>1, Zenon
<1>4. ctl[c].pc = "down"
  BY DEF Init, Down, Idle
<1>5. Observed = 0
  BY <1>2, Zenon DEF Observed
<1>6. InOrder(c)
  BY <1>1, <1>4, <1>5 DEF InOrder, Resting
<1>7. Status!Init
  BY <1>1, <1>2, <1>3, Zenon DEF Status!Init
<1> QED
  BY <1>6, <1>7, Zenon

\* With one controller the status of a Gateway implements GatewayStatus: whatever
\* the specs, the edits, the failed requests and the crashes, every status is the
\* verdict on one generation, and never on an older one than before.
THEOREM StatusImplemented ==
    ASSUME NoneIsNoStatus, NEW c, Controllers = {c}
    PROVE  Spec => ImplementsStatus
<1>1. Init => GInv /\ InOrder(c) /\ Status!Init
  BY GInit, StatusInit, Zenon
<1>2. GInv /\ InOrder(c) /\ [Next]_vars => GInv' /\ InOrder(c)' /\ [Status!Next]_Status!statusVars
  BY GStep, InOrderStep, StatusStep, Zenon
<1> QED
  BY <1>1, <1>2, PTL DEF Spec, ImplementsStatus, Status!Spec

-----------------------------------------------------------------------------
\* One controller: at most one Service.

\* The list that found no Service is still right when one is created, and the
\* Service that a patch was made for still exists if it is as it was listed.
SvcInv(c) ==
    /\ services = [s \in SvcIds |-> services[s]]
    /\ AtMostOneService
    /\ ctl[c].pc = "create_service" => Existing = {}
    /\ ctl[c].pc = "patch_service" => ctl[c].listed \notin {None, Deleted}

\* A step that changes an existing Service only makes no other.
LEMMA NoneMade ==
    ASSUME NEW s, \/ UNCHANGED services
                  \/ /\ s \in Existing /\ services' = [t \in SvcIds |-> services'[t]]
                     /\ \A t \in SvcIds : t # s => services'[t] = services[t]
    PROVE  Existing' \subseteq Existing
BY DEF Existing, Deleted, NewService

\* A step after which the Services are the same or fewer, where the controller is
\* not about to create or patch one unless it was before.
LEMMA SvcKept ==
    ASSUME NEW c, SvcInv(c), services' = [t \in SvcIds |-> services'[t]],
           Existing' \subseteq Existing,
           UNCHANGED ctl \/ ctl'[c].pc \notin {"create_service", "patch_service"}
    PROVE  SvcInv(c)'
<1>1. AtMostOneService'
  BY Zenon DEF SvcInv, AtMostOneService
<1>2. ctl'[c].pc = "create_service" => Existing' = {}
  BY Zenon DEF SvcInv
<1>3. ctl'[c].pc = "patch_service" => ctl'[c].listed \notin {None, Deleted}
  BY Zenon DEF SvcInv
<1> QED
  BY <1>1, <1>2, <1>3, Zenon DEF SvcInv, Deleted, NewService

\* With one controller every step keeps it.
LEMMA SvcStep ==
    ASSUME NoneIsNoStatus, NEW c, Controllers = {c}, GInv, SvcInv(c), [Next]_vars
    PROVE  SvcInv(c)'
<1> DEFINE l == ctl[c]
<1>0. /\ c \in Controllers /\ GoodLocals(l, valid) /\ ctl = [d \in Controllers |-> ctl[d]]
      /\ services = [t \in SvcIds |-> services[t]]
      /\ l = [pc |-> l.pc, gw |-> l.gw, id |-> l.id, listed |-> l.listed, service |-> l.service]
  BY Zenon DEF GInv, SvcInv, GoodLocals
<1>1. ASSUME NEW m, ctl' = [ctl EXCEPT ![c] = m], m.pc \notin {"create_service", "patch_service"}
      PROVE  ctl'[c].pc \notin {"create_service", "patch_service"}
  BY <1>0, <1>1, Zenon
<1>2. ASSUME UNCHANGED services,
             UNCHANGED ctl \/ ctl'[c].pc \notin {"create_service", "patch_service"}
      PROVE  SvcInv(c)'
  BY <1>0, <1>2, NoneMade, SvcKept, Zenon
<1>3. Idle.pc = "idle" /\ Down.pc = "down"
  BY Zenon DEF Idle, Down
<1>4. CASE Boot(c) \/ Crash(c) \/ Watch(c) \/ Fail(c) \/ patch_status(c)
  <2>1. UNCHANGED services
    BY <1>4, Zenon DEF Boot, Crash, Watch, Fail, patch_status, cluster
  <2>2. UNCHANGED ctl \/ \E m \in {Idle, Down} : ctl' = [ctl EXCEPT ![c] = m]
    BY <1>4 DEF Boot, Crash, Watch, Fail, patch_status, Answered, Goto
  <2> QED
    BY <1>1, <1>2, <1>3, <2>1, <2>2, Zenon
<1>5. CASE Start(c) \/ GetClass(c)
  <2>1. UNCHANGED services
    BY <1>5, Zenon DEF Start, GetClass, cluster
  <2>2. \/ \E gw, accepted : ctl' = [ctl EXCEPT ![c] = Judged(gw, accepted)]
        \/ \E m \in {[Idle EXCEPT !.pc = "get_class", !.gw = cache[c]], Idle,
                     [Idle EXCEPT !.pc = "await_change"]} : ctl' = [ctl EXCEPT ![c] = m]
    BY <1>5 DEF Start, GetClass, Goto, Requeue
  <2>3. \A gw, accepted : Judged(gw, accepted).pc \in {"list", "patch_status"}
    BY DEF Judged, Idle
  <2>4. /\ [Idle EXCEPT !.pc = "get_class", !.gw = cache[c]].pc = "get_class"
        /\ [Idle EXCEPT !.pc = "await_change"].pc = "await_change"
    BY DEF Idle
  <2> QED
    BY <1>1, <1>2, <1>3, <2>1, <2>2, <2>3, <2>4, Zenon
<1>6. CASE ListServices(c)
  <2>1. UNCHANGED services /\ l.pc = "list"
    BY <1>6, Zenon DEF ListServices, cluster, At
  <2>2. CASE Existing = {} /\ ctl' = [ctl EXCEPT ![c] = [l EXCEPT !.pc = "create_service"]]
    <3>1. ctl'[c].pc = "create_service" /\ Existing' = {}
      BY <1>0, <2>1, <2>2, Zenon DEF Existing, Deleted, NewService
    <3> QED
      BY <2>1, <3>1 DEF SvcInv, AtMostOneService
  <2>3. CASE \E id, wanted :
             /\ id \in Existing
             /\ ctl' = [ctl EXCEPT ![c] = Patching(l, id, services[id], wanted)]
    <3>1. PICK id, wanted :
             /\ id \in Existing
             /\ ctl' = [ctl EXCEPT ![c] = Patching(l, id, services[id], wanted)]
      BY <2>3, Zenon
    <3>2. ctl'[c] = Patching(l, id, services[id], wanted)
      BY <1>0, <3>1, Zenon
    <3>3. /\ Patching(l, id, services[id], wanted).pc = "patch_service"
          /\ Patching(l, id, services[id], wanted).listed = services[id]
      BY <1>0, Zenon DEF Patching
    <3>4. services[id] \notin {None, Deleted} /\ Existing' = Existing
      BY <2>1, <3>1, Zenon DEF Existing, Deleted, NewService
    <3> QED
      BY <2>1, <3>2, <3>3, <3>4, Zenon DEF SvcInv, AtMostOneService, Deleted, NewService
  <2>4. CASE \E id, svc : ctl' = [ctl EXCEPT ![c] = WithService(l, id, svc)]
    BY <1>0, <1>1, <1>2, <2>1, <2>4, WithServiceGood, Zenon
  <2>5. CASE ctl' = [ctl EXCEPT ![c] = Idle]
    BY <1>1, <1>2, <1>3, <2>1, <2>5, Zenon
  <2> QED
    BY <1>6, <2>2, <2>3, <2>4, <2>5, ListOutcomes, Zenon
<1>7. CASE create_svc_for_gateway(c)
  <2>1. PICK id, svc :
           /\ id \in SvcIds
           /\ services' = [services EXCEPT ![id] = svc]
           /\ \/ ctl' = [ctl EXCEPT ![c] = WithService(l, id, svc)]
              \/ ctl' = [ctl EXCEPT ![c] = Idle]
    BY <1>7, Zenon DEF create_svc_for_gateway, Answered, Goto
  <2>2. l.pc = "create_service" /\ Existing = {}
    BY <1>7, Zenon DEF create_svc_for_gateway, At, SvcInv
  <2>3. ctl'[c].pc \notin {"create_service", "patch_service"}
    BY <1>0, <1>1, <1>3, <2>1, <2>2, WithServiceGood, Zenon
  <2>4. services' = [t \in SvcIds |-> services'[t]] /\ Existing' \subseteq {id}
    BY <1>0, <2>1, <2>2, Zenon DEF Existing, Deleted, NewService
  <2> QED
    BY <2>3, <2>4, Zenon DEF SvcInv, AtMostOneService
<1>8. CASE PatchService(c)
  <2>1. /\ l.pc = "patch_service"
        /\ \/ services[l.id] = l.listed /\ \E svc : services' = [services EXCEPT ![l.id] = svc]
           \/ UNCHANGED services
        /\ \/ ctl' = [ctl EXCEPT ![c] = WithService(l, l.id, l.service)]
           \/ ctl' = [ctl EXCEPT ![c] = Idle]
    BY <1>8, Zenon DEF PatchService, Answered, Goto, Requeue, At
  <2>2. ctl'[c].pc \notin {"create_service", "patch_service"}
    BY <1>0, <1>1, <1>3, <2>1, WithServiceGood, Zenon
  <2>3. l.listed \notin {None, Deleted}
    BY <2>1, Zenon DEF SvcInv
  <2>4. CASE UNCHANGED services
    BY <1>2, <2>2, <2>4, Zenon
  <2>5. CASE services[l.id] = l.listed /\ \E svc : services' = [services EXCEPT ![l.id] = svc]
    <3>1. PICK svc : services' = [services EXCEPT ![l.id] = svc]
      BY <2>5, Zenon
    <3>2. /\ services' = [t \in SvcIds |-> services'[t]]
          /\ \A t \in SvcIds : t # l.id => services'[t] = services[t]
      BY <1>0, <3>1, Zenon
    <3>3. CASE l.id \in SvcIds
      <4>1. l.id \in Existing
        BY <2>3, <2>5, <3>3, Zenon DEF Existing
      <4>2. Existing' \subseteq Existing
        BY <3>2, <4>1, NoneMade, Zenon
      <4> QED
        BY <2>2, <3>2, <4>2, SvcKept, Zenon
    <3>4. CASE l.id \notin SvcIds
      <4>1. UNCHANGED services
        BY <1>0, <3>1, <3>4, Zenon
      <4> QED
        BY <1>2, <2>2, <4>1, Zenon
    <3> QED
      BY <3>3, <3>4, Zenon
  <2> QED
    BY <2>1, <2>4, <2>5, Zenon
<1>9. CASE GetEndpoints(c) \/ CreateEndpoints(c)
  <2> DEFINE m == [l EXCEPT !.pc = "create_endpoints"]
  <2>1. l.pc \in {"get_endpoints", "create_endpoints"} /\ UNCHANGED services
    BY <1>9, Zenon DEF GetEndpoints, CreateEndpoints, At, cluster
  <2>2. \E n \in {Idle, m, Programmed(l)} : ctl' = [ctl EXCEPT ![c] = n]
    BY <1>9, Zenon DEF GetEndpoints, CreateEndpoints, Answered, Goto, Requeue
  <2>3. m.pc = "create_endpoints"
    BY <1>0
  <2> HIDE DEF m
  <2> QED
    BY <1>0, <1>1, <1>2, <1>3, <2>1, <2>2, <2>3, ProgrammedGood
<1>10. CASE EditGateway \/ CreateClass \/ UNCHANGED vars
  BY <1>2, <1>10, Zenon DEF EditGateway, CreateClass, vars, cluster
<1>11. ASSUME NEW s \in SvcIds, AssignIngress(s) \/ EditService(s)
       PROVE  SvcInv(c)'
  <2>1. /\ s \in Existing /\ UNCHANGED ctl
        /\ UNCHANGED services \/ \E svc : services' = [services EXCEPT ![s] = svc]
    BY <1>11, Zenon DEF AssignIngress, EditService
  <2>2. /\ services' = [t \in SvcIds |-> services'[t]]
        /\ \A t \in SvcIds : t # s => services'[t] = services[t]
    BY <1>0, <2>1, Zenon
  <2>3. Existing' \subseteq Existing
    BY <2>1, <2>2, NoneMade, Zenon
  <2> QED
    BY <2>1, <2>2, <2>3, SvcKept, Zenon
<1> QED
  BY <1>4, <1>5, <1>6, <1>7, <1>8, <1>9, <1>10, <1>11, Zenon DEF Next, reconcile

\* With one controller a Gateway never has two Services, however many requests
\* fail or go unanswered, whenever the process dies and whatever users do to the
\* Service: reconcile creates one only after a list that found none.
THEOREM OneService ==
    ASSUME NoneIsNoStatus, NEW c, Controllers = {c}
    PROVE  Spec => []AtMostOneService
<1>1. Init => GInv /\ SvcInv(c)
  <2>1. Init => ctl[c].pc = "down"
    BY DEF Init, Down, Idle
  <2>2. Init => services = [s \in SvcIds |-> services[s]] /\ Existing = {}
    BY DEF Init, Existing
  <2> QED
    BY <2>1, <2>2, GInit, Zenon DEF SvcInv, AtMostOneService
<1>2. GInv /\ SvcInv(c) /\ [Next]_vars => GInv' /\ SvcInv(c)'
  BY GStep, SvcStep, Zenon
<1>3. SvcInv(c) => AtMostOneService
  BY DEF SvcInv
<1> QED
  BY <1>1, <1>2, <1>3, PTL DEF Spec

-----------------------------------------------------------------------------
\* Any number of controllers: types.

IsService(svc) ==
    svc = [type |-> svc.type, ports |-> svc.ports, load_balancer_ip |-> svc.load_balancer_ip,
           ingress |-> svc.ingress]

ServiceTypes == {"LoadBalancer", "ClusterIP", "deleted"}

\* The Service that a Gateway asks for.
LEMMA UpdatedService ==
    ASSUME NEW gw, NEW svc, IsService(svc)
    PROVE  LET updated == update_service_for_gateway(gw, svc)
           IN  /\ IsService(updated) /\ updated.type = "LoadBalancer"
               /\ updated.ports = ServicePorts(gw.spec.listeners) /\ updated.ingress = svc.ingress
<1> DEFINE updated == update_service_for_gateway(gw, svc)
           ports == ServicePorts(gw.spec.listeners)
           ip == IF svc.load_balancer_ip = None THEN None ELSE StaticAddress(gw.spec)
<1>1. updated = [svc EXCEPT !.type = "LoadBalancer", !.ports = ports, !.load_balancer_ip = ip]
  BY Zenon DEF update_service_for_gateway
<1> HIDE DEF updated, ports, ip
<1>2. /\ updated = [type |-> "LoadBalancer", ports |-> ports, load_balancer_ip |-> ip, ingress |-> svc.ingress]
      /\ updated.type = "LoadBalancer" /\ updated.ports = ports /\ updated.ingress = svc.ingress
      /\ updated.load_balancer_ip = ip
  BY <1>1, Zenon DEF IsService
<1> QED
  BY <1>2, Zenon DEF IsService, updated, ports

\* The Service before any update, and a deleted one.
LEMMA NewServices ==
    /\ IsService(NewService) /\ NewService.ports = <<>>
    /\ IsService(Deleted) /\ Deleted.type = "deleted" /\ Deleted.ports = <<>>
<1>1. IsService(NewService) /\ NewService.ports = <<>>
  BY DEF IsService, NewService
<1>2. ASSUME NEW svc, IsService(svc)
      PROVE  LET after == [svc EXCEPT !.type = "deleted"]
             IN  IsService(after) /\ after.type = "deleted" /\ after.ports = svc.ports
  BY <1>2 DEF IsService
<1> QED
  BY <1>1, <1>2, Zenon DEF Deleted

\* A patched Service has the type it is patched to.
LEMMA MergedService ==
    ASSUME NEW old, IsService(old), NEW new
    PROVE  LET merged == StrategicMerge(old, new)
           IN  /\ IsService(merged) /\ merged.type = new.type
               /\ merged.ports = MergedPorts(old.ports, new.ports) /\ merged.ingress = old.ingress
<1> DEFINE merged == StrategicMerge(old, new)
           ports == MergedPorts(old.ports, new.ports)
           ip == IF new.load_balancer_ip = None THEN old.load_balancer_ip ELSE new.load_balancer_ip
<1>1. merged = [old EXCEPT !.type = new.type, !.ports = ports, !.load_balancer_ip = ip]
  BY Zenon DEF StrategicMerge
<1> HIDE DEF merged, ports, ip
<1>2. /\ merged = [type |-> new.type, ports |-> ports, load_balancer_ip |-> ip, ingress |-> old.ingress]
      /\ merged.type = new.type /\ merged.ports = ports /\ merged.ingress = old.ingress
      /\ merged.load_balancer_ip = ip
  BY <1>1, Zenon DEF IsService
<1> QED
  BY <1>2, Zenon DEF IsService, merged, ports

\* The edits of a Service by its load balancer and by users.
LEMMA EditedService ==
    ASSUME NEW svc, IsService(svc), NEW v
    PROVE  /\ LET a == [svc EXCEPT !.ingress = v]
              IN  IsService(a) /\ a.type = svc.type /\ a.ports = svc.ports
           /\ LET a == [svc EXCEPT !.load_balancer_ip = v]
              IN  IsService(a) /\ a.type = svc.type /\ a.ports = svc.ports
           /\ LET a == [svc EXCEPT !.type = "ClusterIP", !.ingress = <<>>]
              IN  IsService(a) /\ a.type = "ClusterIP" /\ a.ports = svc.ports
           /\ LET a == [svc EXCEPT !.ports = v]
              IN  IsService(a) /\ a.type = svc.type /\ a.ports = v
<1>1. ASSUME NEW a, a = [svc EXCEPT !.ingress = v]
      PROVE  IsService(a) /\ a.type = svc.type /\ a.ports = svc.ports
  BY <1>1 DEF IsService
<1>2. ASSUME NEW a, a = [svc EXCEPT !.load_balancer_ip = v]
      PROVE  IsService(a) /\ a.type = svc.type /\ a.ports = svc.ports
  BY <1>2, Zenon DEF IsService
<1>3. ASSUME NEW a, a = [svc EXCEPT !.type = "ClusterIP", !.ingress = <<>>]
      PROVE  IsService(a) /\ a.type = "ClusterIP" /\ a.ports = svc.ports
  BY <1>3, Zenon DEF IsService
<1>4. ASSUME NEW a, a = [svc EXCEPT !.ports = v]
      PROVE  IsService(a) /\ a.type = svc.type /\ a.ports = v
  BY <1>4, Zenon DEF IsService
<1> QED
  BY <1>1, <1>2, <1>3, <1>4, Zenon

\* The Services, of which every one is a record with a type.
GoodServices ==
    /\ services = [s \in SvcIds |-> services[s]]
    /\ \A s \in SvcIds : services[s] # None => IsService(services[s]) /\ services[s].type \in ServiceTypes

Steps == Resting \cup {"get_class", "list", "create_service", "patch_service", "get_endpoints",
                       "create_endpoints", "patch_status"}

\* A controller is at a step, and patches a Service to what its Gateway asks for.
GoodPatch(l) ==
    /\ l.pc \in Steps
    /\ l.pc = "patch_service" =>
          /\ l.id \in SvcIds /\ l.listed # None /\ l.service.type = "LoadBalancer"
          /\ l.service.ports = ServicePorts(l.gw.spec.listeners)

\* ListServices patches the Service to what the Gateway asks for.
LEMMA PatchingGood ==
    ASSUME NEW v, NEW l, GoodLocals(l, v), NEW id \in SvcIds, NEW svc, svc # None,
           IsService(svc), NEW wanted, wanted = update_service_for_gateway(l.gw, svc)
    PROVE  LET m == Patching(l, id, svc, wanted)
           IN  /\ GoodPatch(m) /\ m.pc = "patch_service" /\ m.gw = l.gw /\ m.id = id
               /\ m.listed = svc /\ m.service = wanted
<1> DEFINE m == Patching(l, id, svc, wanted)
<1>1. m = [l EXCEPT !.pc = "patch_service", !.id = id, !.listed = svc, !.service = wanted]
  BY DEF Patching
<1>2. wanted.type = "LoadBalancer" /\ wanted.ports = ServicePorts(l.gw.spec.listeners)
  BY UpdatedService
<1> HIDE DEF m
<1>3. /\ m.pc = "patch_service" /\ m.gw = l.gw /\ m.id = id /\ m.listed = svc /\ m.service = wanted
  BY <1>1, Zenon DEF GoodLocals
<1>4. GoodPatch(m)
  BY <1>2, <1>3, Zenon DEF GoodPatch, Steps
<1> QED
  BY <1>3, <1>4, Zenon DEF m

\* Every step of a controller leads to such a step.
LEMMA PatchStep ==
    ASSUME NoneIsNoStatus, GInv, GoodServices, NEW c \in Controllers, GoodPatch(ctl[c]),
           Boot(c) \/ reconcile(c) \/ Fail(c) \/ Crash(c) \/ Watch(c)
    PROVE  \E m : GoodPatch(m) /\ ctl' = [ctl EXCEPT ![c] = m]
<1> DEFINE l == ctl[c]
<1>0. GoodLocals(l, valid) /\ ctl = [d \in Controllers |-> ctl[d]]
  BY Zenon DEF GInv
<1>1. ASSUME NEW m, m.pc \in Steps \ {"patch_service"}
      PROVE  GoodPatch(m)
  BY <1>1 DEF GoodPatch
<1>2. Idle.pc = "idle" /\ Down.pc = "down"
  BY Zenon DEF Idle, Down
<1>3. CASE Boot(c) \/ Crash(c) \/ Watch(c) \/ Fail(c) \/ patch_status(c)
  <2>1. UNCHANGED ctl \/ \E m \in {Idle, Down} : ctl' = [ctl EXCEPT ![c] = m]
    BY <1>3, Zenon DEF Boot, Crash, Watch, Fail, patch_status, Answered, Goto
  <2>2. UNCHANGED ctl => ctl' = [ctl EXCEPT ![c] = l]
    BY <1>0, Zenon
  <2>3. GoodPatch(Idle) /\ GoodPatch(Down)
    BY <1>1, <1>2, Zenon DEF Steps, Resting
  <2> QED
    BY <2>1, <2>2, <2>3, Zenon
<1>4. CASE Start(c) \/ GetClass(c)
  <2>1. \/ \E gw, accepted : ctl' = [ctl EXCEPT ![c] = Judged(gw, accepted)]
        \/ \E m \in {[Idle EXCEPT !.pc = "get_class", !.gw = cache[c]], Idle,
                     [Idle EXCEPT !.pc = "await_change"]} : ctl' = [ctl EXCEPT ![c] = m]
    BY <1>4, Zenon DEF Start, GetClass, Goto, Requeue
  <2>2. \A gw, accepted : Judged(gw, accepted).pc \in {"list", "patch_status"}
    BY DEF Judged, Idle
  <2>3. /\ [Idle EXCEPT !.pc = "get_class", !.gw = cache[c]].pc = "get_class"
        /\ [Idle EXCEPT !.pc = "await_change"].pc = "await_change"
    BY DEF Idle
  <2> DEFINE started == [Idle EXCEPT !.pc = "get_class", !.gw = cache[c]]
             waiting == [Idle EXCEPT !.pc = "await_change"]
  <2>4. GoodPatch(started) /\ GoodPatch(Idle) /\ GoodPatch(waiting)
    <3> HIDE DEF GoodPatch
    <3> QED
      BY <1>1, <1>2, <2>3, Zenon DEF Steps, Resting
  <2>5. \A gw, accepted : GoodPatch(Judged(gw, accepted))
    BY <1>1, <2>2, Zenon DEF Steps
  <2> HIDE DEF started, waiting
  <2> QED
    BY <2>1, <2>4, <2>5, Zenon DEF started, waiting
<1>5. CASE ListServices(c)
  <2>1. l.pc = "list"
    BY <1>5, Zenon DEF ListServices, At
  <2>2. CASE ctl' = [ctl EXCEPT ![c] = [l EXCEPT !.pc = "create_service"]]
    <3>1. [l EXCEPT !.pc = "create_service"].pc = "create_service"
      BY <1>0, Zenon DEF GoodLocals
    <3> QED
      BY <1>1, <2>2, <3>1, Zenon DEF Steps
  <2>3. CASE \E id \in Existing :
                ctl' = [ctl EXCEPT ![c] = Patching(l, id, services[id],
                                                   update_service_for_gateway(l.gw, services[id]))]
    <3>1. PICK id \in Existing :
                ctl' = [ctl EXCEPT ![c] = Patching(l, id, services[id],
                                                   update_service_for_gateway(l.gw, services[id]))]
      BY <2>3, Zenon
    <3>2. id \in SvcIds /\ services[id] # None /\ IsService(services[id])
      BY <3>1 DEF Existing, GoodServices
    <3> QED
      BY <1>0, <3>1, <3>2, PatchingGood, Zenon
  <2>4. CASE \E id, svc : ctl' = [ctl EXCEPT ![c] = WithService(l, id, svc)]
    BY <1>0, <1>1, <2>1, <2>4, WithServiceGood DEF Steps, Resting
  <2>5. CASE ctl' = [ctl EXCEPT ![c] = Idle]
    BY <1>1, <1>2, <2>5, Zenon DEF Steps, Resting
  <2> QED
    BY <1>5, <2>2, <2>3, <2>4, <2>5, ListOutcomes, Zenon
<1>6. CASE create_svc_for_gateway(c) \/ PatchService(c)
  <2>1. /\ l.pc \in {"create_service", "patch_service"}
        /\ \/ \E id, svc : ctl' = [ctl EXCEPT ![c] = WithService(l, id, svc)]
           \/ ctl' = [ctl EXCEPT ![c] = Idle]
    BY <1>6, Zenon DEF create_svc_for_gateway, PatchService, Answered, Goto, Requeue, At
  <2> QED
    BY <1>0, <1>1, <1>2, <2>1, WithServiceGood DEF Steps, Resting
<1>7. CASE GetEndpoints(c) \/ CreateEndpoints(c)
  <2> DEFINE m == [l EXCEPT !.pc = "create_endpoints"]
  <2>1. l.pc \in {"get_endpoints", "create_endpoints"}
    BY <1>7 DEF GetEndpoints, CreateEndpoints, At
  <2>2. \E n \in {Idle, m, Programmed(l)} : ctl' = [ctl EXCEPT ![c] = n]
    BY <1>7, Zenon DEF GetEndpoints, CreateEndpoints, Answered, Goto, Requeue
  <2>3. m.pc = "create_endpoints"
    BY <1>0, Zenon DEF GoodLocals
  <2>4. Programmed(l).pc = "patch_status"
    BY <1>0, <2>1, ProgrammedGood, Zenon
  <2> HIDE DEF m, GoodPatch
  <2>5. GoodPatch(Idle)
    BY <1>1, <1>2, Zenon DEF Steps, Resting
  <2>6. GoodPatch(m)
    BY <1>1, <2>3, Zenon DEF Steps
  <2>7. GoodPatch(Programmed(l))
    BY <1>1, <2>4, Zenon DEF Steps
  <2> QED
    BY <2>2, <2>5, <2>6, <2>7, Zenon
<1> QED
  BY <1>3, <1>4, <1>5, <1>6, <1>7, Zenon DEF reconcile

\* The patch of a controller takes effect.
Patches(c) ==
    /\ PatchService(c) /\ services[ctl[c].id] = ctl[c].listed
    /\ UniqueNames(StrategicMerge(services[ctl[c].id], ctl[c].service).ports)

\* What the load balancer and users do to a Service: they leave its ports alone,
\* change them, which is remembered, or delete it.
LEMMA ServiceEdits ==
    ASSUME GoodServices, NEW s \in SvcIds, AssignIngress(s) \/ EditService(s)
    PROVE  /\ s \in Existing /\ UNCHANGED <<gateway, ctl, cache>> /\ drifted \subseteq drifted'
           /\ \/ UNCHANGED services
              \/ \E svc : /\ services' = [services EXCEPT ![s] = svc]
                          /\ IsService(svc) /\ svc.type \in ServiceTypes
                          /\ \/ svc = Deleted \/ svc.ports = services[s].ports
                             \/ svc.ports \in UserPorts /\ s \in drifted'
<1> DEFINE old == services[s]
           Edited(svc) == /\ services' = [services EXCEPT ![s] = svc]
                          /\ IsService(svc) /\ svc.type \in ServiceTypes
                          /\ \/ svc = Deleted \/ svc.ports = old.ports
                             \/ svc.ports \in UserPorts /\ s \in drifted'
<1>1. s \in Existing /\ UNCHANGED <<gateway, ctl, cache>> /\ drifted \subseteq drifted'
  BY Zenon DEF AssignIngress, EditService
<1>2. IsService(old) /\ old.type \in ServiceTypes
  BY <1>1, Zenon DEF Existing, GoodServices
<1>3. CASE \E v : services' = [services EXCEPT ![s].ingress = v]
  <2>1. PICK v : services' = [services EXCEPT ![s].ingress = v]
    BY <1>3, Zenon
  <2>2. services' = [services EXCEPT ![s] = [old EXCEPT !.ingress = v]]
    BY <2>1
  <2>3. Edited([old EXCEPT !.ingress = v])
    BY <1>2, <2>2, EditedService, Zenon
  <2> QED
    BY <1>1, <2>3, Zenon
<1>4. CASE \E v : services' = [services EXCEPT ![s].load_balancer_ip = v]
  <2>1. PICK v : services' = [services EXCEPT ![s].load_balancer_ip = v]
    BY <1>4, Zenon
  <2>2. services' = [services EXCEPT ![s] = [old EXCEPT !.load_balancer_ip = v]]
    BY <2>1, Zenon
  <2>3. Edited([old EXCEPT !.load_balancer_ip = v])
    BY <1>2, <2>2, EditedService, Zenon
  <2> QED
    BY <1>1, <2>3, Zenon
<1>5. CASE services' = [services EXCEPT ![s].type = "ClusterIP", ![s].ingress = <<>>]
  <2>1. services' = [services EXCEPT ![s] = [old EXCEPT !.type = "ClusterIP", !.ingress = <<>>]]
    BY <1>5, <1>2, Zenon DEF GoodServices
  <2>2. Edited([old EXCEPT !.type = "ClusterIP", !.ingress = <<>>])
    BY <1>2, <2>1, EditedService, Zenon DEF ServiceTypes
  <2> QED
    BY <1>1, <2>2, Zenon
<1>6. CASE services' = [services EXCEPT ![s] = Deleted]
  <2>1. Edited(Deleted)
    BY <1>6, NewServices, Zenon DEF ServiceTypes
  <2> QED
    BY <1>1, <2>1, Zenon
<1>7. CASE UNCHANGED services
  BY <1>1, <1>7, Zenon
<1>8. CASE s \in drifted' /\ \E v \in UserPorts : services' = [services EXCEPT ![s].ports = v]
  <2>1. PICK v \in UserPorts : services' = [services EXCEPT ![s].ports = v]
    BY <1>8, Zenon
  <2>2. services' = [services EXCEPT ![s] = [old EXCEPT !.ports = v]]
    BY <2>1, Zenon
  <2>3. Edited([old EXCEPT !.ports = v])
    BY <1>2, <1>8, <2>2, EditedService, Zenon
  <2> QED
    BY <1>1, <2>3, Zenon
<1>9. s \in drifted \cup {s}
  BY Zenon
<1> QED
  BY <1>3, <1>4, <1>5, <1>6, <1>7, <1>8, <1>9, Zenon DEF AssignIngress, EditService

\* What a controller does to the Services: it creates one, or patches the one it
\* listed, with the ports that its Gateway asks for.
LEMMA ServiceWrites ==
    ASSUME GoodServices, NEW c \in Controllers, GoodPatch(ctl[c]),
           Boot(c) \/ reconcile(c) \/ Fail(c) \/ Crash(c) \/ Watch(c)
    PROVE  \/ /\ UNCHANGED services /\ ~create_svc_for_gateway(c)
              /\ ~Patches(c)
           \/ \E id, svc :
                 /\ services' = [services EXCEPT ![id] = svc] /\ IsService(svc)
                 /\ svc.type = "LoadBalancer"
                 /\ \/ /\ create_svc_for_gateway(c)
                       /\ svc = update_service_for_gateway(ctl[c].gw, NewService)
                       /\ svc.ports = ServicePorts(ctl[c].gw.spec.listeners)
                    \/ /\ Patches(c) /\ id = ctl[c].id
                       /\ services[id] = ctl[c].listed /\ id \in SvcIds
                       /\ svc.ports = MergedPorts(services[id].ports, ServicePorts(ctl[c].gw.spec.listeners))
<1> DEFINE l == ctl[c]
<1>1. CASE create_svc_for_gateway(c)
  <2> DEFINE svc == update_service_for_gateway(l.gw, NewService)
  <2>1. \E id : services' = [services EXCEPT ![id] = svc]
    BY <1>1, Zenon DEF create_svc_for_gateway
  <2>2. IsService(svc) /\ svc.type = "LoadBalancer" /\ svc.ports = ServicePorts(l.gw.spec.listeners)
    BY NewServices, UpdatedService, Zenon
  <2> HIDE DEF svc
  <2> QED
    BY <1>1, <2>1, <2>2, Zenon DEF svc
<1>2. CASE Patches(c)
  <2> DEFINE svc == StrategicMerge(services[l.id], l.service)
  <2>1. /\ l.id \in SvcIds /\ l.listed # None /\ l.service.type = "LoadBalancer"
        /\ l.service.ports = ServicePorts(l.gw.spec.listeners)
    BY <1>2, Zenon DEF Patches, PatchService, At, GoodPatch
  <2>2. services' = [services EXCEPT ![l.id] = svc] /\ services[l.id] = l.listed
    BY <1>2, Zenon DEF Patches, PatchService
  <2>3. IsService(services[l.id])
    BY <2>1, <2>2, Zenon DEF GoodServices
  <2>4. /\ IsService(svc) /\ svc.type = "LoadBalancer"
        /\ svc.ports = MergedPorts(services[l.id].ports, ServicePorts(l.gw.spec.listeners))
    BY <2>1, <2>3, MergedService
  <2> HIDE DEF svc
  <2> QED
    BY <1>2, <2>1, <2>2, <2>4, Zenon DEF svc
<1>3. CASE ~create_svc_for_gateway(c) /\ ~Patches(c)
  BY <1>3, Zenon DEF Patches, reconcile, Boot, Start, GetClass, ListServices, PatchService, GetEndpoints,
              CreateEndpoints, patch_status, Fail, Crash, Watch, cluster
<1> QED
  BY <1>1, <1>2, <1>3, Zenon

\* The inductive invariant of the types.
TInv ==
    /\ GoodServices
    /\ \A c \in Controllers : GoodPatch(ctl[c])
    /\ gateway.generation <= MaxGeneration
    /\ class \in {None, "blixt", "other"}
    /\ failures \in 0 .. MaxFailures
    /\ edits \in 0 .. MaxEdits

\* A Service that is put into its place.
LEMMA ServicePut ==
    ASSUME GoodServices, NEW s, NEW svc, IsService(svc), svc.type \in ServiceTypes,
           services' = [services EXCEPT ![s] = svc]
    PROVE  GoodServices'
<1>1. /\ services' = [t \in SvcIds |-> services'[t]]
      /\ \A t \in SvcIds : services'[t] = IF t = s THEN svc ELSE services[t]
  BY Zenon DEF GoodServices
<1> QED
  BY <1>1, Zenon DEF GoodServices

\* Every step keeps the types.
LEMMA TypeStep ==
    ASSUME NoneIsNoStatus, GInv, TInv, [Next]_vars
    PROVE  TInv'
<1>0. MaxGeneration \in Nat /\ MaxFailures \in Nat /\ MaxEdits \in Nat /\ gateway.generation \in Nat
  BY ControllerAssumption, Zenon DEF GInv, Seen, GoodGateway
<1>1. ASSUME NEW c \in Controllers, Boot(c) \/ reconcile(c) \/ Fail(c) \/ Crash(c) \/ Watch(c)
      PROVE  TInv'
  <2>1. GoodServices /\ GoodPatch(ctl[c]) /\ ctl = [d \in Controllers |-> ctl[d]]
    BY Zenon DEF TInv, GInv
  <2>2. GoodServices'
    <3>1. CASE UNCHANGED services
      BY <2>1, <3>1, Zenon DEF GoodServices
    <3>2. CASE \E id, svc : /\ services' = [services EXCEPT ![id] = svc] /\ IsService(svc)
                            /\ svc.type \in ServiceTypes
      BY <2>1, <3>2, ServicePut, Zenon
    <3> QED
      BY <1>1, <2>1, <3>1, <3>2, ServiceWrites DEF ServiceTypes
  <2>3. \A d \in Controllers : GoodPatch(ctl'[d])
    <3>1. PICK m : GoodPatch(m) /\ ctl' = [ctl EXCEPT ![c] = m]
      BY <1>1, <2>1, PatchStep, Zenon
    <3>2. \A d \in Controllers : ctl'[d] = IF d = c THEN m ELSE ctl[d]
      BY <2>1, <3>1, Zenon
    <3> QED
      BY <3>1, <3>2, Zenon DEF TInv
  <2>4. gateway'.generation = gateway.generation
    <3>1. CASE patch_status(c)
      BY <3>1, PatchReports, Zenon
    <3> QED
      BY <1>1, <3>1, Zenon DEF reconcile, Boot, Start, GetClass, ListServices, create_svc_for_gateway,
                        PatchService, GetEndpoints, CreateEndpoints, Fail, Crash, Watch, cluster
  <2>5. UNCHANGED <<class, edits>>
    BY <1>1, Zenon DEF reconcile, Boot, Start, GetClass, ListServices, create_svc_for_gateway, PatchService,
                GetEndpoints, CreateEndpoints, patch_status, Fail, Crash, Watch, cluster
  <2>6. UNCHANGED failures \/ (failures < MaxFailures /\ failures' = failures + 1)
    BY <1>1, Zenon DEF reconcile, Boot, Start, GetClass, ListServices, create_svc_for_gateway, PatchService,
                GetEndpoints, CreateEndpoints, patch_status, Fail, Crash, Watch, Goto, Requeue,
                Answered, Failure
  <2> QED
    BY <1>0, <2>2, <2>3, <2>4, <2>5, <2>6 DEF TInv
<1>2. CASE EditGateway
  <2>1. /\ gateway.generation < MaxGeneration /\ gateway'.generation = gateway.generation + 1
        /\ UNCHANGED <<class, services, ctl, failures, edits>>
    BY <1>2, EditReports, Zenon DEF EditGateway
  <2> QED
    BY <1>0, <2>1 DEF TInv, GoodServices
<1>3. CASE CreateClass
  BY <1>3, Zenon DEF CreateClass, TInv, GoodServices
<1>4. ASSUME NEW s \in SvcIds, AssignIngress(s) \/ EditService(s)
      PROVE  TInv'
  <2>1. GoodServices'
    <3>1. CASE UNCHANGED services
      BY <3>1, Zenon DEF TInv, GoodServices
    <3> QED
      BY <1>4, <3>1, ServiceEdits, ServicePut, Zenon DEF TInv
  <2>2. /\ UNCHANGED <<gateway, class, ctl, failures>>
        /\ UNCHANGED edits \/ (edits < MaxEdits /\ edits' = edits + 1)
    BY <1>4, Zenon DEF AssignIngress, EditService
  <2> QED
    BY <1>0, <2>1, <2>2 DEF TInv
<1>5. CASE UNCHANGED vars
  BY <1>5, Zenon DEF TInv, GoodServices, vars, cluster
<1> QED
  BY <1>1, <1>2, <1>3, <1>4, <1>5, Zenon DEF Next

\* The types hold at first.
LEMMA TypeInit ==
    ASSUME Init
    PROVE  TInv
<1>1. GoodServices
  BY Zenon DEF Init, GoodServices
<1>2. \A c \in Controllers : GoodPatch(ctl[c])
  <2>1. Down.pc = "down"
    BY Zenon DEF Down, Idle
  <2>2. GoodPatch(Down)
    BY <2>1, Zenon DEF GoodPatch, Steps, Resting
  <2> QED
    BY <2>2, Zenon DEF Init
<1>3. gateway.generation = 1 /\ class \in {None, "blixt", "other"} /\ failures = 0 /\ edits = 0
  BY DEF Init
<1> QED
  BY <1>1, <1>2, <1>3, ControllerAssumption DEF TInv

\* The types hold for any number of controllers: every Service that reconcile
\* creates or patches has a type, and no step of reconcile is left for a step
\* that is none.
THEOREM TypeCorrect ==
    ASSUME NoneIsNoStatus
    PROVE  Spec => []TypeOK
<1>1. Init => GInv /\ TInv
  BY GInit, TypeInit, Zenon
<1>2. GInv /\ TInv /\ [Next]_vars => GInv' /\ TInv'
  BY GStep, TypeStep, Zenon
<1>3. GInv /\ TInv => TypeOK
  <2>1. GInv => gateway.spec \in Specs /\ gateway.generation \in Nat /\ gateway.generation >= 1
    BY DEF GInv, Seen, GoodGateway
  <2> QED
    BY <2>1, ControllerAssumption DEF TInv, GoodServices, ServiceTypes, GoodPatch, Steps, Resting, TypeOK
<1> QED
  BY <1>1, <1>2, <1>3, PTL DEF Spec

-----------------------------------------------------------------------------
\* One controller: the listeners are served.

\* Every element that ElementsAt is to take is among those it takes.
LEMMA ElementsTaken ==
    ASSUME NEW s, NEW I \in SUBSET Nat, IsFiniteSet(I)
    PROVE  /\ Cardinality(I) \in Nat /\ DOMAIN ElementsAt(s, I) = 1 .. Cardinality(I)
           /\ \A i \in I : \E k \in 1 .. Cardinality(I) : ElementsAt(s, I)[k] = s[i]
<1> DEFINE UpTo(i) == {j \in I : j <= i}
           Rank(i) == Cardinality(UpTo(i))
<1>1. Cardinality(I) \in Nat
  BY FS_CardinalityType, Zenon
<1>2. ASSUME NEW i \in I
      PROVE  IsFiniteSet(UpTo(i)) /\ Rank(i) \in 1 .. Cardinality(I)
  <2>1. IsFiniteSet(UpTo(i)) /\ Rank(i) \in Nat /\ Rank(i) <= Cardinality(I)
    <3>1. UpTo(i) \subseteq I
      BY Zenon
    <3> HIDE DEF UpTo
    <3> QED
      BY <3>1, FS_Subset, FS_CardinalityType, Zenon
  <2>2. UpTo(i) # {}
    BY <1>2
  <2>3. Rank(i) # 0
    <3> HIDE DEF UpTo
    <3> QED
      BY <2>1, <2>2, FS_EmptySet, Zenon
  <2> QED
    BY <1>1, <2>1, <2>3
<1>3. ASSUME NEW i \in I, NEW j \in I, i < j
      PROVE  Rank(i) # Rank(j)
  <2>1. UpTo(i) \subseteq UpTo(j) /\ UpTo(i) # UpTo(j)
    <3>1. j \in UpTo(j) /\ j \notin UpTo(i)
      BY <1>3
    <3>2. \A k \in I : k <= i => k <= j
      BY <1>3
    <3> QED
      BY <3>1, <3>2, Zenon
  <2>2. IsFiniteSet(UpTo(j))
    BY <1>2, Zenon
  <2> HIDE DEF UpTo
  <2> QED
    BY <2>1, <2>2, FS_Subset, FS_CardinalityType, Zenon
<1>4. \A i, j \in I : Rank(i) = Rank(j) => i = j
  <2>1. \A i, j \in I : i = j \/ i < j \/ j < i
    OBVIOUS
  <2> HIDE DEF Rank
  <2> QED
    BY <1>3, <2>1, Zenon
<1>5. ElementsAt(s, I) = [k \in 1 .. Cardinality(I) |-> s[CHOOSE i \in I : Rank(i) = k]]
  BY DEF ElementsAt
<1> HIDE DEF Rank
<1>6. ASSUME NEW i \in I
      PROVE  ElementsAt(s, I)[Rank(i)] = s[i]
  <2>1. (CHOOSE j \in I : Rank(j) = Rank(i)) = i
    BY <1>4, Zenon
  <2> QED
    BY <1>2, <1>5, <2>1, Zenon
<1> QED
  BY <1>1, <1>2, <1>5, <1>6, Zenon

\* Positions of a sequence.
LEMMA Positions ==
    ASSUME NEW T, NEW q \in Seq(T), NEW I \in SUBSET DOMAIN q
    PROVE  I \in SUBSET Nat /\ IsFiniteSet(I)
<1>1. Len(q) \in Nat /\ DOMAIN q = 1 .. Len(q)
  OBVIOUS
<1>2. IsFiniteSet(1 .. Len(q))
  BY <1>1, FS_Interval
<1>3. IsFiniteSet(I)
  BY <1>1, <1>2, FS_Subset, Zenon
<1> QED
  BY <1>1, <1>3

Ports(q) == {q[i] : i \in DOMAIN q}

IsSequence(q) == q \in Seq(Ports(q))

\* A function on an interval from one is a sequence.
LEMMA Sequence ==
    ASSUME NEW q, NEW n \in Nat, q = [i \in 1 .. n |-> q[i]]
    PROVE  IsSequence(q) /\ Len(q) = n
<1>1. \A i \in 1 .. n : q[i] \in Ports(q)
  BY Zenon DEF Ports
<1>2. q \in [1 .. n -> Ports(q)]
  BY <1>1, Zenon
<1> QED
  BY <1>2 DEF IsSequence

\* A sequence's domain.
LEMMA SequenceDomain ==
    ASSUME NEW q, IsSequence(q)
    PROVE  Len(q) \in Nat /\ DOMAIN q = 1 .. Len(q)
BY DEF IsSequence

\* The elements at some positions of a sequence are a sequence.
LEMMA ElementsSequence ==
    ASSUME NEW q, IsSequence(q), NEW I \in SUBSET DOMAIN q
    PROVE  /\ IsSequence(ElementsAt(q, I))
           /\ \A i \in I : q[i] \in Ports(ElementsAt(q, I))
<1>1. I \in SUBSET Nat /\ IsFiniteSet(I)
  BY Positions, Zenon DEF IsSequence
<1>2. /\ Cardinality(I) \in Nat /\ DOMAIN ElementsAt(q, I) = 1 .. Cardinality(I)
      /\ \A i \in I : \E k \in 1 .. Cardinality(I) : ElementsAt(q, I)[k] = q[i]
  BY <1>1, ElementsTaken, Zenon
<1>3. ElementsAt(q, I) = [k \in 1 .. Cardinality(I) |-> ElementsAt(q, I)[k]]
  BY DEF ElementsAt
<1>4. IsSequence(ElementsAt(q, I))
  BY <1>2, <1>3, Sequence, Zenon
<1> QED
  BY <1>2, <1>4, Zenon DEF Ports

\* The ports of a Gateway's listeners are a sequence.
LEMMA ServicePortsSequence ==
    ASSUME NEW spec \in Specs
    PROVE  IsSequence(ServicePorts(spec.listeners))
<1> DEFINE q == spec.listeners
           I == {i \in DOMAIN q : Transport(q[i].protocol) # None}
           supported == ElementsAt(q, I)
           ports == ServicePorts(q)
<1>1. IsSequence(q)
  BY ControllerAssumption, Zenon DEF IsSequence, Ports
<1>2. IsSequence(supported)
  <2>1. I \in SUBSET DOMAIN q
    BY Zenon
  <2> HIDE DEF I, q
  <2> QED
    BY <1>1, <2>1, ElementsSequence, Zenon
<1>3. Len(supported) \in Nat /\ DOMAIN supported = 1 .. Len(supported)
  BY <1>2, SequenceDomain, Zenon
<1>4. ports = [i \in DOMAIN supported |->
                 [name |-> supported[i].name, port |-> supported[i].port,
                  protocol |-> Transport(supported[i].protocol)]]
  BY Zenon DEF ServicePorts
<1> HIDE DEF supported, ports
<1>5. ports = [i \in 1 .. Len(supported) |-> ports[i]]
  BY <1>3, <1>4, Zenon
<1>6. IsSequence(ports)
  BY <1>3, <1>5, Sequence, Zenon
<1> QED
  BY <1>6, Zenon DEF ports

\* The ports of two sequences.
LEMMA ConcatPorts ==
    ASSUME NEW p, NEW q, IsSequence(p), IsSequence(q)
    PROVE  IsSequence(p \o q) /\ Ports(p) \subseteq Ports(p \o q) /\ Ports(q) \subseteq Ports(p \o q)
<1> DEFINE T == Ports(p) \cup Ports(q)
<1>1. p \in Seq(T) /\ q \in Seq(T)
  BY DEF IsSequence
<1>2. /\ Len(p) \in Nat /\ DOMAIN p = 1 .. Len(p)
      /\ Len(q) \in Nat /\ DOMAIN q = 1 .. Len(q)
  BY SequenceDomain, Zenon
<1> HIDE DEF T
<1>3. /\ p \o q \in Seq(T) /\ Len(p \o q) = Len(p) + Len(q)
      /\ \A i \in 1 .. Len(p) + Len(q) :
            (p \o q)[i] = IF i <= Len(p) THEN p[i] ELSE q[i - Len(p)]
  BY <1>1
<1> DEFINE r == p \o q
<1> HIDE DEF r
<1>4. /\ DOMAIN r = 1 .. Len(p) + Len(q) /\ r = [i \in 1 .. Len(p) + Len(q) |-> r[i]]
      /\ Len(p) + Len(q) \in Nat
  <2>1. r \in Seq(T) /\ Len(r) = Len(p) + Len(q)
    BY <1>3, Zenon DEF r
  <2>2. r \in [1 .. Len(r) -> T] /\ Len(r) \in Nat
    BY <2>1
  <2> QED
    BY <2>1, <2>2, Zenon
<1>5. IsSequence(r)
  BY <1>4, Sequence, Zenon
<1>6. ASSUME NEW i \in DOMAIN p
      PROVE  i \in DOMAIN r /\ r[i] = p[i]
  BY <1>2, <1>3, <1>4, <1>6 DEF r
<1>7. ASSUME NEW i \in DOMAIN q
      PROVE  Len(p) + i \in DOMAIN r /\ r[Len(p) + i] = q[i]
  BY <1>2, <1>3, <1>4, <1>7 DEF r
<1> QED
  BY <1>5, <1>6, <1>7, Zenon DEF Ports, r

\* A strategic merge patch leaves the Service with every port it sends.
LEMMA MergedHas ==
    ASSUME NEW old, NEW new, IsSequence(old), IsSequence(new)
    PROVE  IsSequence(MergedPorts(old, new)) /\ Ports(new) \subseteq Ports(MergedPorts(old, new))
<1> DEFINE I == {i \in DOMAIN old : \A j \in DOMAIN new : new[j].port # old[i].port}
           others == ElementsAt(old, I)
<1>1. MergedPorts(old, new) = new \o others
  BY Zenon DEF MergedPorts
<1>2. IsSequence(others)
  <2>1. I \in SUBSET DOMAIN old
    BY Zenon
  <2> HIDE DEF I
  <2> QED
    BY <2>1, ElementsSequence, Zenon
<1> HIDE DEF others
<1> QED
  BY <1>1, <1>2, ConcatPorts, Zenon

\* The Services have the ports that a spec asks for, those apart whose ports a user
\* changed since.
Wanted(spec) == Ports(ServicePorts(spec.listeners))

Served(spec) == \A s \in Existing \ drifted : Wanted(spec) \subseteq Ports(services[s].ports)

\* An object of the Gateway's current generation has its current spec.
Current(gw) == gw.generation = gateway.generation => gw.spec = gateway.spec

\* What a controller has of the Gateway is current, or older.
Held(c) ==
    /\ ctl[c].pc # "down" => Current(cache[c])
    /\ ctl[c].pc \notin Resting => Current(ctl[c].gw)

\* A controller that is to report, or reports, the Gateway as programmed.
Relies(l) == l.pc \in {"get_endpoints", "create_endpoints"} \/ ~Unprogrammed(l)

\* From the request that found the Service as wanted, or made it so, until the
\* status says so and as long as it does, the Service has the listeners' ports.
ServeInv(c) ==
    /\ \A s \in Existing : IsSequence(services[s].ports)
    /\ Held(c)
    /\ Relies(ctl[c]) => Served(ctl[c].gw.spec)
    /\ ProgrammedNow => Served(gateway.spec)

\* A controller finds the Service as its Gateway asks for.
Finds(c) ==
    /\ ListServices(c) /\ UNCHANGED services
    /\ \E id \in Existing :
          Existing = {id} /\ services[id] = update_service_for_gateway(ctl[c].gw, services[id])

\* Whose ports a user changed is forgotten only then, or with a patch.
LEMMA DriftKept ==
    ASSUME NEW c, Boot(c) \/ reconcile(c) \/ Fail(c) \/ Crash(c) \/ Watch(c),
           ~create_svc_for_gateway(c), ~Patches(c), ~Finds(c)
    PROVE  UNCHANGED drifted
<1>1. CASE ListServices(c)
  <2>1. UNCHANGED services
    BY <1>1, Zenon DEF ListServices, cluster
  <2> QED
    BY <1>1, <2>1, Zenon DEF Finds, ListServices
<1>2. CASE PatchService(c)
  BY <1>2, Zenon DEF Patches, PatchService
<1>3. CASE ~ListServices(c) /\ ~PatchService(c)
  BY <1>3, Zenon DEF reconcile, Boot, Start, GetClass, GetEndpoints, CreateEndpoints, patch_status,
              Fail, Crash, Watch
<1> QED
  BY <1>1, <1>2, <1>3, Zenon

\* A controller that comes to rely on the Service goes on with its Gateway, and has
\* relied on it before, or has just found the Service as wanted or made it so.
LEMMA ReliesStep ==
    ASSUME NoneIsNoStatus, GInv, NEW c \in Controllers,
           Boot(c) \/ reconcile(c) \/ Fail(c) \/ Crash(c) \/ Watch(c), Relies(ctl'[c])
    PROVE  /\ ctl'[c].gw.spec = ctl[c].gw.spec
           /\ \/ Relies(ctl[c])
              \/ create_svc_for_gateway(c)
              \/ Patches(c)
              \/ Finds(c)
<1> DEFINE l == ctl[c]
           m == ctl'[c]
<1>0. GoodLocals(l, valid) /\ ctl = [d \in Controllers |-> ctl[d]]
  BY DEF GInv
<1>1. Idle.pc = "idle" /\ Down.pc = "down"
  BY DEF Idle, Down
<1>2. ~Relies(Idle) /\ ~Relies(Down)
  BY <1>1, Zenon DEF Relies, Unprogrammed
<1>3. CASE Boot(c) \/ Crash(c) \/ Watch(c) \/ Fail(c) \/ patch_status(c)
  <2>1. UNCHANGED ctl \/ \E n \in {Idle, Down} : ctl' = [ctl EXCEPT ![c] = n]
    BY <1>3, Zenon DEF Boot, Crash, Watch, Fail, patch_status, Answered, Goto
  <2>2. m = l \/ m = Idle \/ m = Down
    BY <1>0, <2>1, Zenon
  <2> QED
    BY <1>2, <2>2, Zenon
<1>4. CASE Start(c)
  <2>1. m = [Idle EXCEPT !.pc = "get_class", !.gw = cache[c]]
    BY <1>0, <1>4, Zenon DEF Start, Goto
  <2>2. m.pc = "get_class"
    BY <2>1, Zenon DEF Idle
  <2> QED
    BY <2>2, Zenon DEF Relies, Unprogrammed
<1>5. CASE GetClass(c)
  <2> DEFINE gw == set_listener_status(l.gw)
             j == Judged(gw, get_accepted_condition(gw))
             waiting == [Idle EXCEPT !.pc = "await_change"]
  <2>1. l.pc = "get_class" /\ (m = Idle \/ m = waiting \/ m = j)
    BY <1>0, <1>5, Zenon DEF GetClass, Goto, Requeue, At
  <2>2. Unprogrammed(j)
    BY <1>0, <2>1, JudgedGood, Zenon
  <2>3. j.pc \in {"list", "patch_status"}
    BY DEF Judged, Idle
  <2>4. waiting.pc = "await_change"
    BY Zenon DEF Idle
  <2> HIDE DEF j, waiting
  <2>5. ~Relies(j) /\ ~Relies(waiting)
    BY <2>2, <2>3, <2>4, Zenon DEF Relies, Unprogrammed
  <2> QED
    BY <1>2, <2>1, <2>5, Zenon
<1>6. CASE ListServices(c)
  <2>1. l.pc = "list" /\ UNCHANGED services
    BY <1>6, Zenon DEF ListServices, At, cluster
  <2>2. CASE ctl' = [ctl EXCEPT ![c] = [l EXCEPT !.pc = "create_service"]]
    <3>1. m.pc = "create_service"
      BY <1>0, <2>2, Zenon DEF GoodLocals
    <3> QED
      BY <3>1, Zenon DEF Relies, Unprogrammed
  <2>3. CASE \E id, svc, wanted : ctl' = [ctl EXCEPT ![c] = Patching(l, id, svc, wanted)]
    <3>1. m.pc = "patch_service"
      BY <1>0, <2>1, <2>3, DriftGood
    <3> QED
      BY <3>1, Zenon DEF Relies, Unprogrammed
  <2>4. CASE \E id \in Existing :
                /\ Existing = {id} /\ services[id] = update_service_for_gateway(l.gw, services[id])
                /\ ctl' = [ctl EXCEPT ![c] = WithService(l, id, services[id])]
    <3>1. Continues(l, m) /\ Unprogrammed(m)
      BY <1>0, <2>1, <2>4, WithServiceGood
    <3>2. m.gw.spec = l.gw.spec
      BY <3>1, Zenon DEF Relies, Continues, Resting
    <3> QED
      BY <1>6, <2>1, <2>4, <3>2, Zenon DEF Finds
  <2>5. CASE ctl' = [ctl EXCEPT ![c] = Idle]
    BY <1>0, <1>2, <2>5, Zenon
  <2> QED
    BY <1>6, <2>2, <2>3, <2>4, <2>5, ListOutcomes, Zenon
<1>7. CASE create_svc_for_gateway(c) \/ PatchService(c)
  <2>1. /\ l.pc \in {"create_service", "patch_service"}
        /\ \/ /\ \E id, svc : ctl' = [ctl EXCEPT ![c] = WithService(l, id, svc)]
              /\ create_svc_for_gateway(c) \/ Patches(c)
           \/ ctl' = [ctl EXCEPT ![c] = Idle]
    BY <1>7, Zenon DEF create_svc_for_gateway, Patches, PatchService, Answered, Goto, Requeue, At
  <2>2. CASE ctl' = [ctl EXCEPT ![c] = Idle]
    BY <1>0, <1>2, <2>2
  <2>3. CASE /\ \E id, svc : ctl' = [ctl EXCEPT ![c] = WithService(l, id, svc)]
             /\ create_svc_for_gateway(c) \/ Patches(c)
    <3>1. Continues(l, m) /\ Unprogrammed(m)
      BY <1>0, <2>1, <2>3, WithServiceGood
    <3>2. m.gw.spec = l.gw.spec
      BY <3>1 DEF Relies, Continues, Resting
    <3> QED
      BY <1>7, <2>3, <3>2, Zenon
  <2> QED
    BY <2>1, <2>2, <2>3, Zenon
<1>8. CASE GetEndpoints(c) \/ CreateEndpoints(c)
  <2> DEFINE n == [l EXCEPT !.pc = "create_endpoints"]
  <2>1. l.pc \in {"get_endpoints", "create_endpoints"}
    BY <1>8, Zenon DEF GetEndpoints, CreateEndpoints, At
  <2>2. m = Idle \/ m = n \/ m = Programmed(l)
    BY <1>0, <1>8, Zenon DEF GetEndpoints, CreateEndpoints, Answered, Goto, Requeue
  <2>3. n.gw = l.gw
    BY <1>0, Zenon DEF GoodLocals
  <2>4. Programmed(l).gw.spec = l.gw.spec
    BY <1>0, <2>1, ProgrammedGood, Zenon DEF Continues, Resting
  <2>5. Relies(l)
    BY <2>1, Zenon DEF Relies
  <2> HIDE DEF n
  <2> QED
    BY <1>2, <2>2, <2>3, <2>4, <2>5, Zenon
<1> QED
  BY <1>3, <1>4, <1>5, <1>6, <1>7, <1>8, Zenon DEF reconcile

\* Whoever edits a Service leaves the Services with the ports they had, or is
\* remembered for it.
LEMMA ServedKept ==
    ASSUME GoodServices, \A s \in Existing : IsSequence(services[s].ports),
           \/ UNCHANGED <<services, drifted>>
           \/ \E s \in SvcIds : AssignIngress(s) \/ EditService(s)
    PROVE  /\ \A s \in Existing' : IsSequence(services'[s].ports)
           /\ \A spec : Served(spec) => Served(spec)'
<1>1. ASSUME NEW s \in Existing'
      PROVE  /\ s \in Existing
             /\ \/ services'[s].ports = services[s].ports
                \/ s \in drifted' /\ services'[s].ports \in UserPorts
  <2>0. s \in SvcIds /\ services'[s] \notin {None, Deleted}
    BY <1>1, Zenon DEF Existing, Deleted, NewService
  <2>1. CASE UNCHANGED services
    BY <2>0, <2>1, Zenon DEF Existing
  <2>2. CASE \E t \in SvcIds : AssignIngress(t) \/ EditService(t)
    <3>1. PICK t \in SvcIds : AssignIngress(t) \/ EditService(t)
      BY <2>2, Zenon
    <3>2. CASE \E svc : /\ services' = [services EXCEPT ![t] = svc]
                        /\ \/ svc = Deleted \/ svc.ports = services[t].ports
                           \/ svc.ports \in UserPorts /\ t \in drifted'
      <4>1. PICK svc : /\ services' = [services EXCEPT ![t] = svc]
                       /\ \/ svc = Deleted \/ svc.ports = services[t].ports
                          \/ svc.ports \in UserPorts /\ t \in drifted'
        BY <3>2, Zenon
      <4>2. services'[s] = IF s = t THEN svc ELSE services[s]
        BY <2>0, <4>1, Zenon DEF GoodServices
      <4>3. t \in Existing
        BY <3>1, ServiceEdits, Zenon
      <4> QED
        BY <2>0, <4>1, <4>2, <4>3, Zenon DEF Existing
    <3> QED
      BY <2>1, <3>1, <3>2, ServiceEdits, Zenon
  <2> QED
    BY <2>1, <2>2, Zenon
<1>2. \A ports \in UserPorts : IsSequence(ports)
  BY ControllerAssumption, Zenon DEF IsSequence, Ports
<1>3. \A s \in Existing' : IsSequence(services'[s].ports)
  BY <1>1, <1>2, Zenon
<1>4. drifted \subseteq drifted'
  BY ServiceEdits, Zenon
<1>5. ASSUME NEW spec, Served(spec)
      PROVE  Served(spec)'
  BY <1>1, <1>4, <1>5, Zenon DEF Served, Wanted
<1> QED
  BY <1>3, <1>5, Zenon

\* A controller that finds, creates or patches the Service leaves it with the ports
\* that the controller's Gateway asks for.
LEMMA ServedWritten ==
    ASSUME NEW c, Controllers = {c}, GInv, SvcInv(c), GoodServices, GoodPatch(ctl[c]),
           \A s \in Existing : IsSequence(services[s].ports),
           create_svc_for_gateway(c) \/ Patches(c) \/ Finds(c), NEW spec, spec = ctl[c].gw.spec
    PROVE  Served(spec)' /\ \A s \in Existing' : IsSequence(services'[s].ports)
<1> DEFINE wanted == ServicePorts(spec.listeners)
           l == ctl[c]
<1>1. c \in Controllers /\ l.pc \in {"list", "create_service", "patch_service"}
  BY Zenon DEF create_svc_for_gateway, Patches, PatchService, Finds, ListServices, At
<1>2. spec \in Specs
  BY <1>1, Zenon DEF GInv, GoodLocals, Seen, GoodGateway, Resting
<1>3. IsSequence(wanted)
  BY <1>2, ServicePortsSequence, Zenon
<1>4. CASE Finds(c)
  <2>1. PICK id \in Existing :
           Existing = {id} /\ services[id] = update_service_for_gateway(l.gw, services[id])
    BY <1>4, Zenon DEF Finds
  <2>2. IsService(services[id])
    BY <2>1, Zenon DEF GoodServices, Existing
  <2>3. services[id].ports = wanted
    BY <2>1, <2>2, UpdatedService
  <2>4. UNCHANGED services /\ Existing' = Existing
    BY <1>4, Zenon DEF Finds, Existing, Deleted, NewService
  <2> QED
    BY <1>3, <2>1, <2>3, <2>4, Zenon DEF Served, Wanted
<1>5. CASE create_svc_for_gateway(c) \/ Patches(c)
  <2>1. PICK id, svc :
           /\ services' = [services EXCEPT ![id] = svc]
           /\ \/ create_svc_for_gateway(c) /\ svc.ports = wanted
              \/ /\ Patches(c) /\ id \in SvcIds /\ services[id] = l.listed
                 /\ svc.ports = MergedPorts(services[id].ports, wanted)
    <3>1. reconcile(c)
      BY <1>5, ZenonT(30) DEF reconcile, Patches
    <3>2. \E id, svc :
             /\ services' = [services EXCEPT ![id] = svc]
             /\ \/ create_svc_for_gateway(c) /\ svc.ports = ServicePorts(l.gw.spec.listeners)
                \/ /\ Patches(c) /\ id \in SvcIds /\ services[id] = l.listed
                   /\ svc.ports = MergedPorts(services[id].ports, ServicePorts(l.gw.spec.listeners))
      BY <1>1, <1>5, <3>1, ServiceWrites
    <3> QED
      BY <3>2, Zenon
  <2> HIDE DEF wanted
  <2>2. IsSequence(svc.ports) /\ Ports(wanted) \subseteq Ports(svc.ports) /\ Existing \subseteq {id}
    <3>1. CASE create_svc_for_gateway(c) /\ svc.ports = wanted
      <4>1. Existing = {}
        BY <3>1 DEF create_svc_for_gateway, At, SvcInv
      <4> QED
        BY <1>3, <3>1, <4>1, Zenon
    <3>2. CASE /\ Patches(c) /\ id \in SvcIds /\ services[id] = l.listed
               /\ svc.ports = MergedPorts(services[id].ports, wanted)
      <4>1. id \in Existing
        BY <3>2, Zenon DEF Patches, PatchService, At, SvcInv, Existing
      <4>2. IsSequence(services[id].ports)
        BY <4>1, Zenon
      <4>3. Existing \subseteq {id}
        BY <4>1, Zenon DEF SvcInv, AtMostOneService
      <4> QED
        BY <1>3, <3>2, <4>2, <4>3, MergedHas, Zenon
    <3> QED
      BY <2>1, <3>1, <3>2
  <2>3. ASSUME NEW s \in Existing'
        PROVE  services'[s].ports = svc.ports
    <3>1. s \in SvcIds /\ services'[s] \notin {None, Deleted}
      BY <2>3, Zenon DEF Existing, Deleted, NewService
    <3>2. services'[s] = IF s = id THEN svc ELSE services[s]
      BY <2>1, <3>1, Zenon DEF GoodServices
    <3> QED
      BY <2>2, <3>1, <3>2, Zenon DEF Existing
  <2> QED
    BY <2>2, <2>3, Zenon DEF Served, Wanted, wanted
<1> QED
  BY <1>4, <1>5, Zenon

\* An object of the Gateway's generation stays one with its spec.
LEMMA CurrentStep ==
    ASSUME NoneIsNoStatus, NEW c, Controllers = {c}, GInv, Held(c), [Next]_vars
    PROVE  Held(c)'
<1> SUFFICES /\ ctl'[c].pc # "down" => Current(cache[c])'
             /\ ctl'[c].pc \notin Resting => Current(ctl[c].gw)'
  BY Zenon DEF Held
<1>0. /\ c \in Controllers /\ gateway.generation \in Nat
      /\ ctl[c].pc # "down" => cache[c].generation \in 0 .. gateway.generation
      /\ ctl[c].pc \notin Resting => ctl[c].gw.generation \in 0 .. gateway.generation
      /\ ctl = [d \in Controllers |-> ctl[d]] /\ cache = [d \in Controllers |-> cache[d]]
      /\ ctl[c].pc # "down" => Current(cache[c])
      /\ ctl[c].pc \notin Resting => Current(ctl[c].gw)
  BY Generations, Zenon DEF GInv, Held
<1>1. CASE EditGateway
  BY <1>0, <1>1, EditReports DEF Current
<1>2. CASE ~EditGateway
  <2>1. gateway'.generation = gateway.generation /\ gateway'.spec = gateway.spec
    <3>1. CASE patch_status(c)
      <4>1. gateway' = [gateway EXCEPT !.status = ctl[c].gw.status]
        BY <3>1, Zenon DEF patch_status
      <4> QED
        BY <4>1, Zenon DEF GInv, Seen, GoodGateway
    <3> QED
      BY <1>2, <3>1, OtherSteps, Zenon DEF vars, cluster
  <2>2. \A gw : Current(gw) => (gw.generation = gateway'.generation => gw.spec = gateway'.spec)
    BY <2>1, Zenon DEF Current
  <2>3. CASE \/ Start(c) \/ GetClass(c) \/ ListServices(c) \/ create_svc_for_gateway(c)
             \/ PatchService(c) \/ GetEndpoints(c) \/ CreateEndpoints(c) \/ Fail(c)
    <3>1. PICK m : /\ m.pc # "down" /\ ctl[c].pc # "down" /\ ctl' = [ctl EXCEPT ![c] = m]
                   /\ ctl[c].pc # "idle" => Continues(ctl[c], m)
                   /\ ctl[c].pc = "idle" => m.gw = cache[c]
                   /\ UNCHANGED cache
      BY <1>0, <2>3, StepLocals, Zenon
    <3>2. ctl[c].pc \notin Resting \/ ctl[c].pc = "idle"
      BY <2>3, Zenon DEF Start, GetClass, ListServices, create_svc_for_gateway, PatchService,
                  GetEndpoints, CreateEndpoints, Fail, At, Resting
    <3>3. ctl'[c] = m
      BY <1>0, <3>1, Zenon
    <3> QED
      BY <1>0, <2>1, <3>1, <3>2, <3>3, Zenon DEF Current, Continues
  <2>4. CASE Crash(c) \/ patch_status(c)
    <3>1. \/ ctl'[c].pc = "down"
          \/ ctl'[c].pc = "idle" /\ ctl[c].pc # "down" /\ UNCHANGED cache
      BY <1>0, <2>4 DEF Crash, patch_status, Answered, Goto, At, Down, Idle
    <3> QED
      BY <1>0, <2>1, <3>1, Zenon DEF Resting, Current
  <2>5. CASE Boot(c) \/ Watch(c)
    <3>1. \/ UNCHANGED <<ctl, cache>>
          \/ /\ cache'[c] = gateway
             /\ (ctl'[c] = ctl[c] /\ ctl[c].pc # "down") \/ ctl'[c].pc = "idle"
      BY <1>0, <2>5 DEF Boot, Watch, At, Goto, Idle
    <3> QED
      BY <1>0, <2>1, <3>1, Zenon DEF Resting, Current
  <2>6. CASE UNCHANGED <<ctl, cache>>
    BY <1>0, <2>1, <2>6, Zenon DEF Current
  <2>7. CreateClass \/ (\E s \in SvcIds : AssignIngress(s) \/ EditService(s)) \/ UNCHANGED vars
           => UNCHANGED <<ctl, cache>>
    BY Zenon DEF CreateClass, AssignIngress, EditService, vars
  <2> QED
    BY <1>2, <2>3, <2>4, <2>5, <2>6, <2>7, Zenon DEF Next, reconcile
<1> QED
  BY <1>1, <1>2, Zenon

\* Whoever has the Gateway's latest generation while it is reported as programmed
\* has its spec.
LEMMA ReportedCurrent ==
    ASSUME NEW c, Controllers = {c}, GInv, InOrder(c), Held(c), ctl[c].pc \notin Resting,
           ProgrammedNow
    PROVE  ctl[c].gw.spec = gateway.spec /\ ctl[c].gw.generation = gateway.generation
<1>1. gateway.generation \in Nat /\ ctl[c].gw.generation \in 0 .. gateway.generation
  BY Generations, Zenon
<1>2. Observed = gateway.generation
  BY <1>1, NoneAssumption, Zenon DEF GInv, StatusCoherent, ProgrammedNow, Observed
<1>3. ctl[c].gw.generation = gateway.generation
  BY <1>1, <1>2 DEF InOrder
<1> QED
  BY <1>3, Zenon DEF Held, Current

\* A user's edit leaves the Gateway with a spec that no status is about.
LEMMA EditUnreports ==
    ASSUME NEW c, Controllers = {c}, GInv, InOrder(c), EditGateway
    PROVE  ~ProgrammedNow'
<1>1. gateway.generation \in Nat /\ Observed <= gateway.generation
  BY Generations, Zenon DEF InOrder
<1>2. /\ gateway'.generation = gateway.generation + 1
      /\ AcceptedCondition' = AcceptedCondition /\ ProgrammedCondition' = ProgrammedCondition
  BY EditReports, Zenon
<1>3. AcceptedCondition.observed_generation = ProgrammedCondition.observed_generation
  BY Zenon DEF GInv, StatusCoherent
<1>4. ProgrammedCondition.observed_generation # gateway.generation + 1
  BY <1>1, <1>3, NoneAssumption DEF Observed
<1> QED
  BY <1>2, <1>4, Zenon DEF ProgrammedNow

\* A status that says Programmed of the current generation was computed from it.
LEMMA ReportOwn ==
    ASSUME NoneIsNoStatus, NEW c, Controllers = {c}, GInv, Held(c), [Next]_vars, patch_status(c)
    PROVE  /\ gateway'.spec = gateway.spec
           /\ ProgrammedNow' => ~Unprogrammed(ctl[c]) /\ ctl[c].gw.spec = gateway.spec
<1>1. /\ gateway'.generation = gateway.generation /\ ctl[c].pc \notin Resting
      /\ AcceptedCondition'.observed_generation = ctl[c].gw.generation
  BY PatchReports, Zenon
<1>2. ctl[c].pc = "patch_status" /\ gateway' = [gateway EXCEPT !.status = ctl[c].gw.status]
  BY Zenon DEF patch_status, At
<1>3. ProgrammedCondition' = ctl[c].gw.status.conditions["Programmed"] /\ gateway'.spec = gateway.spec
  BY <1>2, Zenon DEF ProgrammedCondition, GInv, Seen, GoodGateway
<1>4. GInv'
  BY GStep, Zenon
<1>5. AcceptedCondition'.observed_generation = ProgrammedCondition'.observed_generation
  BY <1>4, Zenon DEF GInv, StatusCoherent
<1>6. ASSUME ProgrammedNow'
      PROVE  ~Unprogrammed(ctl[c]) /\ ctl[c].gw.spec = gateway.spec
  <2>1. ctl[c].gw.generation = gateway.generation
    BY <1>1, <1>5, <1>6, Zenon DEF ProgrammedNow
  <2>2. ~Unprogrammed(ctl[c])
    BY <1>2, <1>3, <1>6, Zenon DEF ProgrammedNow, Unprogrammed
  <2> QED
    BY <1>1, <2>1, <2>2, Zenon DEF Held, Current
<1> QED
  BY <1>3, <1>6, Zenon

\* With one controller every step keeps the listeners served.
LEMMA ServeStep ==
    ASSUME NoneIsNoStatus, NEW c, Controllers = {c}, GInv, TInv, InOrder(c),
           SvcInv(c), ServeInv(c), [Next]_vars
    PROVE  ServeInv(c)'
<1> DEFINE l == ctl[c]
           Sequences1 == \A s \in Existing' : IsSequence(services'[s].ports)
           Relied == Relies(ctl'[c]) => \A spec : spec = ctl'[c].gw.spec => Served(spec)'
           Reported == ProgrammedNow' => \A spec : spec = gateway'.spec => Served(spec)'
<1>0. /\ c \in Controllers /\ GoodServices /\ GoodPatch(l)
      /\ \A s \in Existing : IsSequence(services[s].ports)
      /\ Relies(l) => Served(l.gw.spec)
      /\ ProgrammedNow => Served(gateway.spec)
  BY Zenon DEF TInv, ServeInv
<1>1. Held(c) /\ Held(c)'
  BY CurrentStep, Zenon DEF ServeInv
<1>2. ASSUME Sequences1, Relied, Reported
      PROVE  ServeInv(c)'
  <2>1. Relies(ctl[c])' => Served(ctl[c].gw.spec)'
    BY <1>2, Zenon DEF Served, Relies, Unprogrammed
  <2>2. ProgrammedNow' => Served(gateway.spec)'
    BY <1>2, Zenon DEF Served
  <2> QED
    BY <1>1, <1>2, <2>1, <2>2, Zenon DEF ServeInv
<1>3. CASE create_svc_for_gateway(c) \/ Patches(c) \/ Finds(c)
  <2>1. /\ \A spec : spec = l.gw.spec => Served(spec)'
        /\ Sequences1
    BY <1>0, <1>3, ServedWritten, Zenon
  <2>2. reconcile(c) /\ l.pc \notin Resting /\ UNCHANGED gateway
    BY <1>3, Zenon DEF reconcile, create_svc_for_gateway, Patches, PatchService, Finds, ListServices,
                At, Resting, cluster
  <2>3. Relied
    BY <1>0, <2>1, <2>2, ReliesStep, Zenon
  <2>4. Reported
    <3>1. ProgrammedNow' => ProgrammedNow
      BY <2>2, Zenon DEF ProgrammedNow, ProgrammedCondition
    <3> QED
      BY <1>1, <2>1, <2>2, <3>1, ReportedCurrent, Zenon
  <2> QED
    BY <1>2, <2>1, <2>3, <2>4, Zenon
<1>4. CASE /\ Boot(c) \/ reconcile(c) \/ Fail(c) \/ Crash(c) \/ Watch(c)
           /\ ~create_svc_for_gateway(c) /\ ~Patches(c) /\ ~Finds(c)
  <2>1. UNCHANGED <<services, drifted>>
    BY <1>0, <1>4, ServiceWrites, DriftKept, Zenon
  <2>2. Sequences1 /\ \A spec : Served(spec) => Served(spec)'
    BY <1>0, <2>1, ServedKept, Zenon
  <2>3. Relied
    BY <1>0, <1>4, <2>2, ReliesStep, Zenon
  <2>4. Reported
    <3>1. CASE patch_status(c)
      <4>1. /\ gateway'.spec = gateway.spec
            /\ ProgrammedNow' => ~Unprogrammed(l) /\ l.gw.spec = gateway.spec
        BY <1>1, <3>1, ReportOwn, Zenon
      <4> QED
        BY <1>0, <2>2, <4>1, Zenon DEF Relies
    <3>2. CASE ~patch_status(c)
      <4>1. UNCHANGED gateway
        BY <1>4, <3>2, Zenon DEF reconcile, Boot, Start, GetClass, ListServices, PatchService, GetEndpoints,
                          CreateEndpoints, Fail, Crash, Watch, cluster
      <4> QED
        BY <1>0, <2>2, <4>1, Zenon DEF ProgrammedNow, ProgrammedCondition
    <3> QED
      BY <3>1, <3>2, Zenon
  <2> QED
    BY <1>2, <2>2, <2>3, <2>4, Zenon
<1>5. CASE EditGateway
  <2>1. UNCHANGED <<services, drifted, ctl>> /\ ~ProgrammedNow'
    BY <1>5, EditUnreports, Zenon DEF EditGateway
  <2>2. Sequences1 /\ \A spec : Served(spec) => Served(spec)'
    BY <1>0, <2>1, ServedKept, Zenon
  <2> QED
    BY <1>0, <1>2, <2>1, <2>2, Zenon
<1>6. CASE CreateClass \/ (\E s \in SvcIds : AssignIngress(s) \/ EditService(s)) \/ UNCHANGED vars
  <2>1. UNCHANGED <<gateway, ctl>>
    BY <1>6, Zenon DEF CreateClass, AssignIngress, EditService, vars, cluster
  <2>2. Sequences1 /\ \A spec : Served(spec) => Served(spec)'
    <3>1. UNCHANGED <<services, drifted>> \/ \E s \in SvcIds : AssignIngress(s) \/ EditService(s)
      BY <1>6, Zenon DEF CreateClass, vars, cluster
    <3> QED
      BY <1>0, <3>1, ServedKept, Zenon
  <2>3. Reported
    BY <1>0, <2>1, <2>2, Zenon DEF ProgrammedNow, ProgrammedCondition
  <2> QED
    BY <1>0, <1>2, <2>1, <2>2, <2>3, Zenon
<1> QED
  BY <1>3, <1>4, <1>5, <1>6, Zenon DEF Next

\* With one controller a Gateway that is reported as programmed for its current
\* spec has a Service with a port for each of its listeners, unless a user changed
\* the ports since the controller last found or made them right: whatever specs the
\* Gateway had before, whatever else users do to the Service and whenever, and
\* whichever request fails or patch is refused.
THEOREM ListenersStayServed ==
    ASSUME NoneIsNoStatus, NEW c, Controllers = {c}
    PROVE  Spec => []ListenersServed
<1> DEFINE Inv == GInv /\ TInv /\ InOrder(c) /\ SvcInv(c) /\ ServeInv(c)
<1>1. Init => Inv
  <2>1. ASSUME Init
        PROVE  ServeInv(c)
    <3>1. ctl[c].pc = "down" /\ Existing = {}
      BY <2>1, Zenon DEF Init, Down, Idle, Existing
    <3> QED
      BY <3>1, Zenon DEF ServeInv, Held, Resting, Relies, Unprogrammed, Served
  <2>2. Init => SvcInv(c)
    <3>1. Init => ctl[c].pc = "down"
      BY DEF Init, Down, Idle
    <3>2. Init => services = [s \in SvcIds |-> services[s]] /\ Existing = {}
      BY Zenon DEF Init, Existing
    <3> QED
      BY <3>1, <3>2, Zenon DEF SvcInv, AtMostOneService
  <2> QED
    BY <2>1, <2>2, GInit, TypeInit, StatusInit, Zenon
<1>2. Inv /\ [Next]_vars => Inv'
  <2> SUFFICES ASSUME Inv, [Next]_vars PROVE Inv'
    BY Zenon
  <2>1. GInv'
    BY GStep, Zenon
  <2>2. TInv'
    BY TypeStep, Zenon
  <2>3. InOrder(c)'
    BY InOrderStep, Zenon
  <2>4. SvcInv(c)'
    BY SvcStep, Zenon
  <2>5. ServeInv(c)'
    BY ServeStep, Zenon
  <2> QED
    BY <2>1, <2>2, <2>3, <2>4, <2>5, Zenon
<1>3. Inv => ListenersServed
  BY DEF ServeInv, Served, Wanted, Ports, HasPorts, ListenersServed
<1> QED
  BY <1>1, <1>2, <1>3, PTL DEF Spec

-----------------------------------------------------------------------------
\* One controller: a report stays until the Gateway or its Service is edited.

\* None is not a Service: in the source it is the empty Option.
NoneIsNoService ==
    \A type, ports, ip, ingress :
        None # [type |-> type, ports |-> ports, load_balancer_ip |-> ip, ingress |-> ingress]

\* A Service of the Gateway has an address.
Addressed == \E s \in Existing : services[s].ingress # <<>>

\* While no user has touched the Service: whoever is to report the Gateway as
\* programmed has seen an address; and as long as it is so reported, the Service
\* has one, the spec is valid, and a reconciliation under way comes to the same
\* verdict.
StayInv(c) ==
    edits = 0 =>
        /\ Relies(ctl[c]) \/ ProgrammedNow => Addressed
        /\ ctl[c].pc = "patch_service" => ctl[c].service.ingress = ctl[c].listed.ingress
        /\ ProgrammedNow =>
              /\ Valid(gateway.spec)
              /\ ctl[c].pc = "patch_service" => ctl[c].service.ingress # <<>>
              /\ ~Unprogrammed(ctl[c]) \/ ctl[c].pc # "patch_status"

\* A Service that is there with an address.
LEMMA Addresses ==
    ASSUME NoneIsNoService, NEW s \in SvcIds, GoodServices, NEW svc, IsService(svc),
           svc.type # "deleted", svc.ingress # <<>>, services' = [services EXCEPT ![s] = svc]
    PROVE  Addressed'
<1>1. services'[s] = svc
  BY Zenon DEF GoodServices
<1>2. svc # None
  BY Zenon DEF NoneIsNoService, IsService
<1>3. svc # Deleted
  BY NewServices, Zenon
<1>4. services'[s] \notin {None, Deleted}
  BY <1>1, <1>2, <1>3, Zenon
<1>5. s \in Existing'
  BY <1>4, Zenon DEF Existing, Deleted, NewService
<1> QED
  BY <1>1, <1>5, Zenon DEF Addressed

\* An address that the Service has stays until a user takes it away.
LEMMA AddressedStep ==
    ASSUME NoneIsNoService, NEW c, Controllers = {c}, GoodServices, GoodPatch(ctl[c]), SvcInv(c),
           [Next]_vars, \A s \in SvcIds : ~EditService(s), Addressed
    PROVE  Addressed'
<1> DEFINE l == ctl[c]
<1>1. PICK s \in Existing : services[s].ingress # <<>>
  BY Zenon DEF Addressed
<1>2. s \in SvcIds /\ IsService(services[s]) /\ Existing = {s}
  BY <1>1, Zenon DEF Existing, GoodServices, SvcInv, AtMostOneService
<1>3. CASE UNCHANGED services
  BY <1>1, <1>3, Zenon DEF Addressed, Existing, Deleted, NewService
<1>4. CASE \E t \in SvcIds : AssignIngress(t)
  <2>1. PICK t \in SvcIds : AssignIngress(t)
    BY <1>4, Zenon
  <2> DEFINE old == services[t]
  <2>2. /\ t \in Existing /\ old.type = "LoadBalancer"
        /\ \E v : v # <<>> /\ services' = [services EXCEPT ![t].ingress = v]
    <3>1. t \in Existing /\ old.type = "LoadBalancer"
      BY <2>1, Zenon DEF AssignIngress
    <3>2. PICK v \in IF old.load_balancer_ip = None THEN Ingresses ELSE {<<old.load_balancer_ip>>} :
                services' = [services EXCEPT ![t].ingress = v]
      BY <2>1, Zenon DEF AssignIngress
    <3>3. v # <<>>
      <4>1. \A x : <<x>> # <<>>
        OBVIOUS
      <4>2. <<>> \notin Ingresses
        BY ControllerAssumption
      <4> QED
        BY <3>2, <4>1, <4>2, Zenon
    <3> QED
      BY <3>1, <3>2, <3>3, Zenon
  <2>3. PICK v : v # <<>> /\ services' = [services EXCEPT ![t].ingress = v]
    BY <2>2, Zenon
  <2> DEFINE svc == [old EXCEPT !.ingress = v]
  <2>4. services' = [services EXCEPT ![t] = svc]
    BY <2>3
  <2>5. IsService(old)
    BY <2>2, Zenon DEF Existing, GoodServices
  <2>6. IsService(svc) /\ svc.type = old.type
    BY <2>5, EditedService, Zenon
  <2>7. svc.ingress = v
    BY <2>5, Zenon DEF IsService
  <2> HIDE DEF svc
  <2> QED
    BY <2>1, <2>2, <2>3, <2>4, <2>6, <2>7, Addresses, Zenon
<1>5. CASE Patches(c)
  <2> DEFINE svc == StrategicMerge(services[l.id], l.service)
  <2>1. l.id \in SvcIds /\ l.service.type = "LoadBalancer" /\ l.listed \notin {None, Deleted}
    BY <1>5, Zenon DEF Patches, PatchService, At, GoodPatch, SvcInv
  <2>2. l.id = s
    BY <1>2, <1>5, <2>1, Zenon DEF Existing, Patches
  <2>3. services' = [services EXCEPT ![s] = svc]
    BY <1>5, <2>2, Zenon DEF Patches, PatchService
  <2>4. IsService(svc) /\ svc.type = "LoadBalancer" /\ svc.ingress = services[s].ingress
    BY <1>2, <2>1, <2>2, MergedService
  <2> HIDE DEF svc
  <2> QED
    BY <1>1, <1>2, <2>3, <2>4, Addresses, Zenon
<1>6. ~create_svc_for_gateway(c)
  BY <1>2, Zenon DEF create_svc_for_gateway, At, SvcInv
<1>7. CASE /\ Boot(c) \/ reconcile(c) \/ Fail(c) \/ Crash(c) \/ Watch(c)
           /\ ~Patches(c)
  <2>1. UNCHANGED services
    BY <1>6, <1>7, ServiceWrites, Zenon
  <2> QED
    BY <1>3, <2>1, Zenon
<1>8. CASE EditGateway \/ CreateClass \/ UNCHANGED vars
  BY <1>3, <1>8, Zenon DEF EditGateway, CreateClass, vars, cluster
<1> QED
  BY <1>4, <1>5, <1>7, <1>8, Zenon DEF Next

\* A valid object is accepted, and its Service looked for.
LEMMA ValidListed ==
    ASSUME NoneIsNoStatus, NEW gw, GoodGateway(gw), Valid(gw.spec)
    PROVE  LET listed == set_listener_status(gw)
           IN  Judged(listed, get_accepted_condition(listed)).pc = "list"
<1> DEFINE listed == set_listener_status(gw)
           accepted == get_accepted_condition(listed)
<1>1. accepted.status = "True"
  BY AcceptedIffValid, Zenon
<1> HIDE DEF listed, accepted
<1>2. Judged(listed, accepted).pc = "list"
  BY <1>1 DEF Judged, Idle
<1> QED
  BY <1>2 DEF listed, accepted

\* The Service's address decides how reconcile goes on.
LEMMA WithServiceAddress ==
    ASSUME NoneIsNoStatus, NEW v, NEW l, NEW id, NEW svc, GoodLocals(l, v),
           l.pc \in {"list", "create_service", "patch_service"}
    PROVE  LET m == WithService(l, id, svc)
           IN  /\ m.pc # "patch_service"
               /\ svc.ingress = <<>> => ~Relies(m)
               /\ svc.ingress # <<>> => m.pc # "patch_status"
<1> DEFINE m == WithService(l, id, svc)
<1>1. Unprogrammed(m) /\ m.pc \in {"patch_status", "idle", "get_endpoints"}
  BY WithServiceGood, Zenon
<1>2. svc.ingress = <<>> => m.pc = "patch_status"
  BY DEF WithService, Idle
<1>3. svc.ingress # <<>> => m.pc # "patch_status"
  <2>1. CASE svc.ingress # <<>> /\ IngressIps(svc.ingress) = <<>>
    BY <2>1, Zenon DEF WithService, Idle
  <2>2. CASE svc.ingress # <<>> /\ IngressIps(svc.ingress) # <<>>
    <3>1. m = [l EXCEPT !.pc = "get_endpoints", !.id = id, !.listed = None, !.service = svc]
      BY <2>2, Zenon DEF WithService
    <3> QED
      BY <3>1, Zenon DEF GoodLocals
  <2> QED
    BY <2>1, <2>2, Zenon
<1> HIDE DEF m
<1>4. m.pc # "patch_service" /\ (svc.ingress = <<>> => ~Relies(m))
  BY <1>1, <1>2, Zenon DEF Relies
<1> QED
  BY <1>3, <1>4, Zenon DEF m

\* What a controller comes to while the Service has, or has not, an address.
Sticks(m) ==
    /\ Relies(m) => Addressed
    /\ m.pc = "patch_service" => m.service.ingress = m.listed.ingress
    /\ ProgrammedNow => /\ m.pc = "patch_service" => m.service.ingress # <<>>
                        /\ ~Unprogrammed(m) \/ m.pc # "patch_status"

\* A step of the controller that leads it there.
LEMMA StayLocals ==
    ASSUME NoneIsNoStatus, NEW c, Controllers = {c}, GInv, GoodServices, InOrder(c), Held(c),
           GoodPatch(ctl[c]), SvcInv(c), StayInv(c), edits = 0,
           Boot(c) \/ reconcile(c) \/ Fail(c) \/ Crash(c) \/ Watch(c)
    PROVE  Sticks(ctl'[c])
<1> DEFINE l == ctl[c]
           m == ctl'[c]
<1>0. c \in Controllers /\ GoodLocals(l, valid) /\ ctl = [d \in Controllers |-> ctl[d]]
  BY Zenon DEF GInv
<1>1. Sticks(l) /\ (ProgrammedNow => Addressed) /\ (ProgrammedNow => Valid(gateway.spec))
  BY Zenon DEF StayInv, Sticks
<1>2. ASSUME NEW n, n.pc \notin {"patch_service", "get_endpoints", "create_endpoints", "patch_status"}
      PROVE  Sticks(n)
  BY <1>2, Zenon DEF Sticks, Relies, Unprogrammed
<1>3. Sticks(Idle) /\ Sticks(Down)
  <2>1. Idle.pc = "idle" /\ Down.pc = "down"
    BY Zenon DEF Idle, Down
  <2> QED
    BY <1>2, <2>1, Zenon
<1>4. CASE Boot(c) \/ Crash(c) \/ Watch(c) \/ Fail(c) \/ patch_status(c)
  <2>1. UNCHANGED ctl \/ \E n \in {Idle, Down} : ctl' = [ctl EXCEPT ![c] = n]
    BY <1>4, Zenon DEF Boot, Crash, Watch, Fail, patch_status, Answered, Goto
  <2>2. m = l \/ m = Idle \/ m = Down
    BY <1>0, <2>1, Zenon
  <2> QED
    BY <1>1, <1>3, <2>2, Zenon
<1>5. CASE Start(c)
  <2>1. m = [Idle EXCEPT !.pc = "get_class", !.gw = cache[c]]
    BY <1>0, <1>5, Zenon DEF Start, Goto
  <2>2. m.pc = "get_class"
    BY <2>1, Zenon DEF Idle
  <2> QED
    BY <1>2, <2>2, Zenon
<1>6. CASE GetClass(c)
  <2> DEFINE gw == set_listener_status(l.gw)
             j == Judged(gw, get_accepted_condition(gw))
             waiting == [Idle EXCEPT !.pc = "await_change"]
  <2>1. l.pc = "get_class" /\ (m = Idle \/ m = waiting \/ m = j)
    BY <1>0, <1>6, Zenon DEF GetClass, Goto, Requeue, At
  <2>2. Unprogrammed(j)
    BY <1>0, <2>1, JudgedGood, Zenon
  <2>3. j.pc \in {"list", "patch_status"}
    BY DEF Judged, Idle
  <2>4. Sticks(waiting)
    <3>1. waiting.pc = "await_change"
      BY Zenon DEF Idle
    <3> QED
      BY <1>2, <3>1, Zenon
  <2>5. ASSUME ProgrammedNow
        PROVE  j.pc = "list"
    <3>1. l.pc \notin Resting
      BY <2>1 DEF Resting
    <3>2. GoodGateway(l.gw)
      BY <1>0, <3>1, Zenon DEF GoodLocals, Seen
    <3>3. Valid(l.gw.spec)
      BY <1>1, <2>5, <3>1, ReportedCurrent, Zenon
    <3> QED
      BY <3>2, <3>3, ValidListed, Zenon
  <2> HIDE DEF j, waiting
  <2>6. Sticks(j)
    BY <2>2, <2>3, <2>5, Zenon DEF Sticks, Relies
  <2> QED
    BY <1>3, <2>1, <2>4, <2>6, Zenon
<1>7. CASE ListServices(c)
  <2>1. l.pc = "list"
    BY <1>7, Zenon DEF ListServices, At
  <2>2. CASE ctl' = [ctl EXCEPT ![c] = [l EXCEPT !.pc = "create_service"]]
    <3>1. m.pc = "create_service"
      BY <1>0, <2>2, Zenon DEF GoodLocals
    <3> QED
      BY <1>2, <3>1, Zenon
  <2>3. ASSUME NEW id \in Existing
        PROVE  /\ ProgrammedNow => services[id].ingress # <<>>
               /\ services[id].ingress # <<>> => Addressed
               /\ id \in SvcIds /\ services[id] # None /\ IsService(services[id])
    BY <1>1, Zenon DEF Addressed, SvcInv, AtMostOneService, GoodServices, Existing
  <2>4. CASE \E id \in Existing :
                ctl' = [ctl EXCEPT ![c] = Patching(l, id, services[id],
                                                   update_service_for_gateway(l.gw, services[id]))]
    <3>1. PICK id \in Existing :
                ctl' = [ctl EXCEPT ![c] = Patching(l, id, services[id],
                                                   update_service_for_gateway(l.gw, services[id]))]
      BY <2>4, Zenon
    <3> DEFINE wanted == update_service_for_gateway(l.gw, services[id])
    <3>2. wanted.ingress = services[id].ingress
      BY <2>3, <3>1, UpdatedService
    <3>3. m = Patching(l, id, services[id], wanted)
      BY <1>0, <3>1, Zenon
    <3>4. m.pc = "patch_service" /\ m.listed = services[id] /\ m.service = wanted
      <4> HIDE DEF wanted
      <4> QED
        BY <1>0, <3>3, Zenon DEF GoodLocals, Patching
    <3> HIDE DEF wanted
    <3> QED
      BY <2>3, <3>1, <3>2, <3>4, Zenon DEF Sticks, Relies, Unprogrammed
  <2>5. CASE \E id \in Existing : ctl' = [ctl EXCEPT ![c] = WithService(l, id, services[id])]
    <3>1. PICK id \in Existing : ctl' = [ctl EXCEPT ![c] = WithService(l, id, services[id])]
      BY <2>5, Zenon
    <3>2. m = WithService(l, id, services[id])
      BY <1>0, <3>1, Zenon
    <3>3. /\ m.pc # "patch_service"
          /\ services[id].ingress = <<>> => ~Relies(m)
          /\ services[id].ingress # <<>> => m.pc # "patch_status"
      BY <1>0, <2>1, <3>2, WithServiceAddress
    <3> QED
      BY <2>3, <3>1, <3>3, Zenon DEF Sticks
  <2>6. CASE ctl' = [ctl EXCEPT ![c] = Idle]
    BY <1>0, <1>3, <2>6, Zenon
  <2> QED
    BY <1>7, <2>2, <2>4, <2>5, <2>6, ListOutcomes, Zenon
<1>8. CASE create_svc_for_gateway(c)
  <2> DEFINE svc == update_service_for_gateway(l.gw, NewService)
  <2>1. l.pc = "create_service" /\ (m = Idle \/ \E id : m = WithService(l, id, svc))
    BY <1>0, <1>8, Zenon DEF create_svc_for_gateway, Answered, Goto, At
  <2>2. svc.ingress = <<>>
    <3>1. NewService.ingress = <<>>
      BY Zenon DEF NewService
    <3> QED
      BY <3>1, NewServices, UpdatedService
  <2>3. ~ProgrammedNow
    BY <1>1, <2>1, Zenon DEF SvcInv, Addressed
  <2> HIDE DEF svc
  <2>4. ASSUME NEW id PROVE Sticks(WithService(l, id, svc))
    <3>1. ~Relies(WithService(l, id, svc)) /\ WithService(l, id, svc).pc # "patch_service"
      BY <1>0, <2>1, <2>2, WithServiceAddress
    <3> QED
      BY <2>3, <3>1, Zenon DEF Sticks
  <2> QED
    BY <1>3, <2>1, <2>4, Zenon
<1>9. CASE PatchService(c)
  <2>1. /\ l.pc = "patch_service"
        /\ m = Idle \/ (services[l.id] = l.listed /\ m = WithService(l, l.id, l.service))
    BY <1>0, <1>9, Zenon DEF PatchService, Answered, Goto, Requeue, At
  <2>2. CASE services[l.id] = l.listed /\ m = WithService(l, l.id, l.service)
    <3>1. /\ m.pc # "patch_service"
          /\ l.service.ingress = <<>> => ~Relies(m)
          /\ l.service.ingress # <<>> => m.pc # "patch_status"
      BY <1>0, <2>1, <2>2, WithServiceAddress
    <3>2. l.id \in Existing
      BY <2>1, <2>2, Zenon DEF SvcInv, Existing, GoodPatch
    <3>3. l.service.ingress # <<>> => Addressed
      BY <1>1, <2>1, <2>2, <3>2, Zenon DEF Sticks, Addressed
    <3>4. ProgrammedNow => l.service.ingress # <<>>
      BY <1>1, <2>1, Zenon DEF Sticks
    <3> QED
      BY <3>1, <3>3, <3>4, Zenon DEF Sticks
  <2> QED
    BY <1>3, <2>1, <2>2, Zenon
<1>10. CASE GetEndpoints(c) \/ CreateEndpoints(c)
  <2> DEFINE n == [l EXCEPT !.pc = "create_endpoints"]
  <2>1. l.pc \in {"get_endpoints", "create_endpoints"}
    BY <1>10, Zenon DEF GetEndpoints, CreateEndpoints, At
  <2>2. m = Idle \/ m = n \/ m = Programmed(l)
    BY <1>0, <1>10, Zenon DEF GetEndpoints, CreateEndpoints, Answered, Goto, Requeue
  <2>3. n.pc = "create_endpoints"
    BY <1>0, Zenon DEF GoodLocals
  <2>4. Programmed(l).pc = "patch_status" /\ ~Unprogrammed(Programmed(l))
    BY <1>0, <2>1, ProgrammedGood, Zenon
  <2>5. Addressed
    BY <1>1, <2>1, Zenon DEF Sticks, Relies
  <2> HIDE DEF n
  <2>6. Sticks(n) /\ Sticks(Programmed(l))
    BY <2>3, <2>4, <2>5, Zenon DEF Sticks
  <2> QED
    BY <1>3, <2>2, <2>6, Zenon
<1> QED
  BY <1>4, <1>5, <1>6, <1>7, <1>8, <1>9, <1>10, Zenon DEF reconcile

\* Every step keeps it.
LEMMA StayStep ==
    ASSUME NoneIsNoStatus, NoneIsNoService, NEW c, Controllers = {c}, GInv, TInv, InOrder(c),
           Held(c), SvcInv(c), StayInv(c), [Next]_vars
    PROVE  StayInv(c)'
<1>0. /\ c \in Controllers /\ GoodServices /\ GoodPatch(ctl[c]) /\ edits \in Nat
      /\ ctl = [d \in Controllers |-> ctl[d]]
  <2>1. edits \in Nat
    BY DEF TInv
  <2> QED
    BY <2>1, Zenon DEF TInv, GInv
<1>1. SUFFICES ASSUME edits' = 0
               PROVE  /\ Relies(ctl'[c]) => Addressed'
                      /\ ctl'[c].pc = "patch_service" => ctl'[c].service.ingress = ctl'[c].listed.ingress
                      /\ ProgrammedNow' =>
                            /\ Addressed' /\ Valid(gateway'.spec)
                            /\ ctl'[c].pc = "patch_service" => ctl'[c].service.ingress # <<>>
                            /\ ~Unprogrammed(ctl'[c]) \/ ctl'[c].pc # "patch_status"
  BY Zenon DEF StayInv, Relies, Unprogrammed, Valid, ValidListener
<1>2. edits = 0 /\ \A s \in SvcIds : ~EditService(s)
  <2>1. \A s \in SvcIds : ~EditService(s)
    BY <1>0, <1>1 DEF EditService
  <2>2. UNCHANGED edits
    BY <2>1, Zenon DEF Next, reconcile, Boot, Start, GetClass, ListServices, create_svc_for_gateway,
           PatchService, GetEndpoints, CreateEndpoints, patch_status, Fail, Crash, Watch, EditGateway,
           CreateClass, AssignIngress, vars
  <2> QED
    BY <1>1, <2>1, <2>2, Zenon
<1>3. Addressed => Addressed'
  BY <1>0, <1>2, AddressedStep, Zenon
<1>4. Sticks(ctl[c]) /\ (ProgrammedNow => Addressed) /\ (ProgrammedNow => Valid(gateway.spec))
  BY <1>2, Zenon DEF StayInv, Sticks
<1>5. CASE Boot(c) \/ reconcile(c) \/ Fail(c) \/ Crash(c) \/ Watch(c)
  <2>1. Sticks(ctl'[c])
    BY <1>0, <1>2, <1>5, StayLocals, Zenon
  <2>2. CASE patch_status(c)
    <3>1. /\ gateway'.spec = gateway.spec
          /\ ProgrammedNow' => ~Unprogrammed(ctl[c]) /\ ctl[c].gw.spec = gateway.spec
      BY <2>2, ReportOwn, Zenon
    <3>2. ctl[c].pc = "patch_status" /\ ctl'[c].pc = "idle"
      BY <1>0, <2>2 DEF patch_status, Answered, Goto, At, Idle
    <3>3. ~Unprogrammed(ctl[c]) => Addressed /\ Valid(ctl[c].gw.spec)
      BY <1>0, <1>4, <3>2, Zenon DEF Sticks, Relies, Unprogrammed, GInv, GoodLocals, JudgedGateway, AcceptedGateway
    <3> QED
      BY <1>3, <2>1, <3>1, <3>2, <3>3, Zenon DEF Sticks
  <2>3. CASE ~patch_status(c)
    <3>1. UNCHANGED gateway
      BY <1>5, <2>3, Zenon DEF reconcile, Boot, Start, GetClass, ListServices, create_svc_for_gateway,
             PatchService, GetEndpoints, CreateEndpoints, Fail, Crash, Watch, cluster
    <3>2. ProgrammedNow' <=> ProgrammedNow
      BY <3>1, Zenon DEF ProgrammedNow, ProgrammedCondition
    <3> QED
      BY <1>3, <1>4, <2>1, <3>1, <3>2, Zenon DEF Sticks
  <2> QED
    BY <2>2, <2>3, Zenon
<1>6. CASE EditGateway
  <2>1. UNCHANGED ctl /\ ~ProgrammedNow'
    BY <1>6, EditUnreports, Zenon DEF EditGateway
  <2> QED
    BY <1>3, <1>4, <2>1, Zenon DEF Sticks
<1>7. CASE CreateClass \/ (\E s \in SvcIds : AssignIngress(s)) \/ UNCHANGED vars
  <2>1. UNCHANGED <<gateway, ctl>>
    BY <1>7, Zenon DEF CreateClass, AssignIngress, vars, cluster
  <2>2. ProgrammedNow' <=> ProgrammedNow
    BY <2>1, Zenon DEF ProgrammedNow, ProgrammedCondition
  <2> QED
    BY <1>3, <1>4, <2>1, <2>2, Zenon DEF Sticks
<1> QED
  BY <1>2, <1>5, <1>6, <1>7, Zenon DEF Next

\* No step but a user's edit takes the report back.
LEMMA ReportKept ==
    ASSUME NoneIsNoStatus, NEW c, Controllers = {c}, GInv, InOrder(c), Held(c), StayInv(c),
           [Next]_vars, ProgrammedNow, edits = 0
    PROVE  ProgrammedNow' \/ gateway'.spec # gateway.spec
<1>1. CASE patch_status(c)
  <2>1. /\ gateway'.generation = gateway.generation /\ ctl[c].pc \notin Resting
        /\ AcceptedCondition'.observed_generation = ctl[c].gw.generation
    BY <1>1, PatchReports, Zenon
  <2>2. ctl[c].pc = "patch_status" /\ gateway' = [gateway EXCEPT !.status = ctl[c].gw.status]
    BY <1>1, Zenon DEF patch_status, At
  <2>3. ProgrammedCondition' = ctl[c].gw.status.conditions["Programmed"]
    BY <2>2, Zenon DEF ProgrammedCondition, GInv, Seen, GoodGateway
  <2>4. ProgrammedCondition'.status = "True"
    BY <2>2, <2>3, Zenon DEF StayInv, Unprogrammed
  <2>5. GInv'
    BY GStep, Zenon
  <2>6. ProgrammedCondition'.observed_generation = ctl[c].gw.generation
    BY <2>1, <2>5, Zenon DEF GInv, StatusCoherent
  <2>7. ctl[c].gw.generation = gateway.generation
    BY <2>1, ReportedCurrent, Zenon
  <2> QED
    BY <2>1, <2>4, <2>6, <2>7, Zenon DEF ProgrammedNow
<1>2. CASE EditGateway
  <2>1. PICK spec \in Specs \ {gateway.spec} :
           gateway' = [gateway EXCEPT !.spec = spec, !.generation = @ + 1]
    BY <1>2, Zenon DEF EditGateway
  <2>2. gateway'.spec = spec
    BY <2>1, Zenon DEF GInv, Seen, GoodGateway
  <2> QED
    BY <2>1, <2>2, Zenon
<1>3. CASE ~EditGateway /\ ~patch_status(c)
  <2>1. UNCHANGED gateway
    BY <1>3, OtherSteps, Zenon DEF vars, cluster
  <2> QED
    BY <2>1, Zenon DEF ProgrammedNow, ProgrammedCondition
<1> QED
  BY <1>1, <1>2, <1>3, Zenon

\* With one controller a Gateway that is reported as programmed for its current spec
\* stays so until a user edits it or has touched its Service, whichever request
\* fails or goes unanswered, whenever the process dies and however old the object
\* is that reconcile was given: for all specs, and whatever their listeners' ports.
THEOREM ReportStays ==
    ASSUME NoneIsNoStatus, NoneIsNoService, NEW c, Controllers = {c}
    PROVE  Spec => ProgrammedStays
<1> DEFINE Inv == GInv /\ TInv /\ InOrder(c) /\ Held(c) /\ SvcInv(c) /\ StayInv(c)
<1>1. Init => Inv
  <2>1. ASSUME Init
        PROVE  Held(c) /\ SvcInv(c) /\ StayInv(c)
    <3>1. ctl[c].pc = "down" /\ Existing = {} /\ services = [s \in SvcIds |-> services[s]]
      BY <2>1, Zenon DEF Init, Down, Idle, Existing
    <3>2. ~ProgrammedNow
      <4>1. ProgrammedCondition.status = "Unknown"
        <5>1. gateway.status = DefaultStatus
          BY <2>1 DEF Init
        <5>2. DefaultStatus.conditions["Programmed"] = Condition("Unknown", "Pending", None)
          BY Zenon DEF DefaultStatus, EmptyStatus
        <5> QED
          BY <5>1, <5>2 DEF ProgrammedCondition, Condition
      <4> QED
        BY <4>1, Zenon DEF ProgrammedNow
    <3> QED
      BY <3>1, <3>2, Zenon DEF Held, SvcInv, StayInv, AtMostOneService, Resting, Relies, Unprogrammed
  <2> QED
    BY <2>1, GInit, TypeInit, StatusInit, Zenon
<1>2. Inv /\ [Next]_vars => Inv'
  <2> SUFFICES ASSUME Inv, [Next]_vars PROVE Inv'
    BY Zenon
  <2>1. GInv' /\ TInv' /\ InOrder(c)'
    BY GStep, TypeStep, InOrderStep, Zenon
  <2>2. Held(c)' /\ SvcInv(c)' /\ StayInv(c)'
    BY CurrentStep, SvcStep, StayStep, Zenon
  <2> QED
    BY <2>1, <2>2, Zenon
<1>3. Inv /\ [Next]_vars => [ProgrammedNow /\ edits = 0 => ProgrammedNow' \/ gateway'.spec # gateway.spec]_vars
  BY ReportKept, Zenon
<1> QED
  BY <1>1, <1>2, <1>3, PTL DEF Spec, ProgrammedStays

=============================================================================
