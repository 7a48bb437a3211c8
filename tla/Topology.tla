------------------------------ MODULE Topology ------------------------------
(***************************************************************************)
(* BuildTopologyWithOptions (internal/k8s/builder.go, builder_nodes.go):   *)
(* the graph drawn for a cluster.  Like nodesByID and edgesByID it is a    *)
(* pair of functions, from node IDs to what the node shows and from edge   *)
(* IDs, a source, a target and a kind, to the edge's label.  Colours,      *)
(* positions and wording follow from these and are left out.               *)
(***************************************************************************)
EXTENDS RouteDiagnosis

\* One node for each object of a set: its ID and what it shows.
Drawn(objects, id(_), data(_)) ==
  [n \in {id(o) : o \in objects} |-> data(CHOOSE o \in objects : id(o) = n)]

\* Edges, each a source, a target and a kind, with one label.
Linked(edges, label) == [e \in edges |-> label]

\* Several maps in one: what is written later stays.
Merge(functions) ==
  [x \in UNION {DOMAIN functions[n] : n \in DOMAIN functions} |->
     functions[Max({n \in DOMAIN functions : x \in DOMAIN functions[n]})][x]]

\* The pairs <<x, y>> with y in F(x).
PairsOf(S, F(_)) == UNION {{<<x, y>> : y \in F(x)} : x \in S}

----------------------------------------------------------------------------
(* What a node shows: its kind, its status and the rest of its properties. *)

Shows(kind, status, properties) ==
  [kind |-> kind, status |-> status, properties |-> properties]

ShowIngress(i) == Shows("Ingress", "Configured", <<ClassName(i), Hosts(i)>>)

ShowService(svc) ==
  Shows("Service",
        IF svc.type = "LoadBalancer" /\ svc.addresses = {} THEN "Pending" ELSE "Active",
        <<svc.type, svc.external, svc.ports>>)

ShowLoadBalancer(svc) ==
  [ShowService(svc) EXCEPT !.kind = "LoadBalancer",
                           !.properties = <<"Service", LoadBalancerAddresses(svc)>>]

ShowPod(p) ==
  Shows("Pod", IF p.ready THEN p.phase ELSE "NotReady", <<p.phase, p.node, p.ip>>)

ShowEndpoint(kind, ready) == Shows(kind, IF ready THEN "Ready" ELSE "NotReady", <<>>)

ShowAddress(provider, address) ==
  Shows("LoadBalancer", IF address = None THEN "Pending" ELSE "Active", <<provider, address>>)

ShowController(source) == Shows("Controller", source, <<>>)

----------------------------------------------------------------------------
(* IngressClasses, nodes, pods and Services.                               *)

\* Mutant: a class that only the annotation names gets no node.
ControllerNodesOfObjects(c) ==
  Merge(<<
    [n \in {ControllerID(name) : name \in ClassNames(c)} |-> ShowController("Configured")],
    [n \in {StatusControllerID(svc) : svc \in StatusServices(c)} |-> ShowController("Inferred")]
    >>)

ControllerNodes(c) ==
  Merge(<<
    [n \in {ControllerID(name) : name \in ClassNames(c)} |-> ShowController("Configured")],
    [n \in {ControllerID(name) : name \in AnnotationClasses(c)} |-> ShowController("Inferred")],
    [n \in {StatusControllerID(svc) : svc \in StatusServices(c)} |-> ShowController("Inferred")]
    >>)

ExternalNames(c) ==
  {svc \in c.services : svc.type = "ExternalName" /\ svc.external # None}

\* Mutant: pods are placed while they are added, one row for each.
WorkloadNodesPlaced(c) ==
  Merge(<<
    [n \in {HostID(node) : node \in c.nodes} |-> Shows("Node", None, <<>>)],
    Drawn(DOMAIN c.pods, LAMBDA k : PodID(c.pods[k]),
          LAMBDA k : [ShowPod(c.pods[k]) EXCEPT !.properties = <<k>>]),
    Drawn(c.services, ServiceID, ShowService),
    Drawn(ExternalNames(c), ExternalNameID,
          LAMBDA svc : Shows("Endpoint", "ExternalName", <<svc.external>>)) >>)

WorkloadNodes(c) ==
  Merge(<<
    [n \in {HostID(node) : node \in c.nodes} |-> Shows("Node", None, <<>>)],
    Drawn(ToSet(c.pods), PodID, ShowPod),
    Drawn(c.services, ServiceID, ShowService),
    Drawn(ExternalNames(c), ExternalNameID,
          LAMBDA svc : Shows("Endpoint", "ExternalName", <<svc.external>>)) >>)

WorkloadEdges(c) ==
  Merge(<<
    Linked({<<HostID(p.node), PodID(p), "hosts">> :
              p \in {q \in ToSet(c.pods) : q.node \in c.nodes}}, "Node"),
    Linked({<<ServiceID(svc), ExternalNameID(svc), "externalname">> : svc \in ExternalNames(c)},
           "ExternalName"),
    Linked({<<ServiceID(x[1]), PodID(x[2]), "selects">> :
              x \in PairsOf(c.services, LAMBDA svc : PodsOf(svc, c.pods))}, "Selector") >>)

----------------------------------------------------------------------------
(* Load balancers and node ports lead to the Service's controller, or else *)
(* to the Service.                                                         *)

NodePorts(svc) == {p \in ToSet(svc.ports) : p.nodePort # None}

ExposureNodes(c) ==
  LET exposed == PairsOf({s \in c.services : Exposed(s)}, NodePorts)
  IN  Merge(<<
        Drawn({s \in c.services : s.type = "LoadBalancer"}, LoadBalancerID, ShowLoadBalancer),
        Drawn(exposed, LAMBDA x : NodePortID(x[1], x[2]),
              LAMBDA x : Shows("NodePort", x[1].type, <<x[2]>>)) >>)

ExposureEdges(c) ==
  LET balancers == {s \in c.services : s.type = "LoadBalancer"}
      exposed == PairsOf({s \in c.services : Exposed(s)}, NodePorts)
  IN  Merge(<<
        Linked({<<LoadBalancerID(x[1]), NodePortID(x[1], x[2]), "exposes">> :
                  x \in {y \in exposed : y[1] \in balancers}}, "LoadBalancer"),
        Linked({<<NodePortID(x[1], x[2]), ExposedTarget(c, x[1]), "forwards">> : x \in exposed},
               "NodePort"),
        Linked({<<LoadBalancerID(s), ExposedTarget(c, s), "balances">> :
                  s \in {b \in balancers : NodePorts(b) = {}}}, "LoadBalancer") >>)

----------------------------------------------------------------------------
(* Ingresses and their routes.                                             *)

RoutesOf(c) == PairsOf(ToSet(c.ingresses), LAMBDA i : DOMAIN i.routes)

ShowIngressRoute(c, overlapping, i, k) ==
  LET d == RouteDiagnosisOf(c, overlapping, i, k)
  IN  Shows("Route", d.severity,
            <<i.routes[k], d.finding, OverlapProperties(Overlap(overlapping, i, k), i, k)>>)

IngressNodes(c) ==
  LET overlapping == OverlapRoutes(c)
  IN  Merge(<<
        Drawn(ToSet(c.ingresses), IngressID, ShowIngress),
        Drawn(RoutesOf(c), LAMBDA x : IngressRouteID(x[1], x[2]),
              LAMBDA x : ShowIngressRoute(c, overlapping, x[1], x[2])),
        [n \in {DnsID(host) : host \in UNION {Hosts(i) : i \in ToSet(c.ingresses)}} |->
           Shows("DNS", None, <<>>)],
        Drawn(PairsOf(ToSet(c.ingresses), LAMBDA i : i.addresses),
              LAMBDA x : AddressID(x[1], "ingress", x[2]),
              LAMBDA x : ShowAddress("Ingress", x[2])) >>)

\* Two canaries of one Service draw the same edge; the later link's rule stays.
CanaryEdges(c, routes) ==
  LET service(l) == <<"Service", l.canary.ingress.ns, <<l.canary.service>>>>
      links(i, k) == {l \in Overlap(routes, i, k).links :
                        ServicesNamed(c, <<l.canary.ingress.ns, l.canary.service>>) # {}}
      last(same) == CHOOSE l \in same :
                      \A m \in same : LinkBefore(c.ingresses, routes, m, l)
      drawn == PairsOf(RoutesOf(c), LAMBDA x : links(x[1], x[2]))
      edge(x) == <<IngressRouteID(x[1][1], x[1][2]), service(x[2]), "canary">>
  IN  [e \in {edge(x) : x \in drawn} |->
         last({x[2] : x \in {y \in drawn : edge(y) = e}}).canary.ingress.rule]

IngressEdges(c) ==
  LET ingresses == ToSet(c.ingresses)
      controlled == {i \in ingresses : IngressController(c, i) # None}
      classed == {i \in controlled : ControllerClass(c, i) # None}
      controls(set, source) ==
        Linked({<<IngressController(c, i), IngressID(i), "controls">> : i \in set}, source)
      backed == {x \in RoutesOf(c) : ServicesNamed(c, ServiceKey(x[1], x[2])) # {}}
  IN  Merge(<<
        controls(classed, "IngressClass"),
        controls(controlled \ classed, "Ingress status"),
        Linked({<<DnsID(x[2]), IngressID(x[1]), "resolves">> : x \in PairsOf(ingresses, Hosts)},
               "DNS"),
        Linked({<<AddressID(x[1], "ingress", x[2]), IngressID(x[1]), "fronts">> :
                  x \in PairsOf(ingresses, LAMBDA i : i.addresses)}, "Ingress status"),
        Linked({<<IngressID(x[1]), IngressRouteID(x[1], x[2]), "defines">> : x \in RoutesOf(c)},
               "route"),
        Linked({<<IngressRouteID(x[1], x[2]),
                  <<"Service", x[1].ns, <<x[1].routes[x[2]].service>>>>, "routes">> : x \in backed},
               "HTTP backend"),
        CanaryEdges(c, OverlapRoutes(c)) >>)

----------------------------------------------------------------------------
(* Gateway API and F5 resources.                                           *)

HTTPKinds == {"HTTPRoute", "GRPCRoute", "TLSRoute", "TCPRoute", "UDPRoute"}
F5Kinds == {"F5IngressLink", "F5VirtualServer", "F5TransportServer"}
OfKind(c, kinds) == {r \in c.external : r.kind \in kinds}

\* A reference is [ns, name, supported]: supported when it names a Gateway, or
\* a Service.  Without a namespace it stays in that of the resource.
Refers(r, ref) == <<Or(ref.ns, r.ns), ref.name>>
GatewaysNamed(c, key) == {g \in OfKind(c, {"Gateway"}) : Key(g) = key}

\* backendReferenceGranted
Granted(c, r, key) ==
  \E grant \in OfKind(c, {"ReferenceGrant"}) :
    /\ grant.ns = key[1]
    /\ <<r.ns, r.kind>> \in grant.from
    /\ {key[2], None} \cap grant.to # {}

\* What becomes of a reference: an edge, an error, or out of the watch scope.
MissingOutcome(c, key) ==
  IF c.watch # None /\ key[1] # c.watch THEN "outside" ELSE "error"

ParentOutcome(c, r, ref) ==
  CASE ~ref.supported -> "error"
    [] ref.supported /\ GatewaysNamed(c, Refers(r, ref)) # {} -> "edge"
    [] ref.supported /\ GatewaysNamed(c, Refers(r, ref)) = {} -> MissingOutcome(c, Refers(r, ref))

\* Mutant: a Service that is drawn needs no grant.
BackendOutcomeUngranted(c, r, ref) ==
  LET key == Refers(r, ref)
  IN  CASE ~ref.supported -> "error"
        [] ref.supported /\ ServicesNamed(c, key) = {} -> MissingOutcome(c, key)
        [] ref.supported /\ ServicesNamed(c, key) # {} -> "edge"

BackendOutcome(c, r, ref) ==
  LET key == Refers(r, ref)
  IN  CASE ~ref.supported -> "error"
        [] ref.supported /\ ServicesNamed(c, key) = {} -> MissingOutcome(c, key)
        [] ref.supported /\ ServicesNamed(c, key) # {} ->
             IF key[1] = r.ns \/ Granted(c, r, key) THEN "edge" ELSE "error"

ShowRoute(c, r) ==
  LET with(wanted) == {<<"parent", ref>> : ref \in
                         {x \in r.parents : ParentOutcome(c, r, x) = wanted}}
                 \cup {<<"backend", ref>> : ref \in
                         {x \in r.backends : BackendOutcome(c, r, x) = wanted}}
  IN  Shows("Route", IF with("error") # {} THEN "Reference error" ELSE r.kind,
            <<with("error"), with("outside")>>)

ExternalNodes(c) ==
  Merge(<<
    Drawn(OfKind(c, {"GatewayClass"}), LAMBDA r : GatewayClassID(r.name),
          LAMBDA r : ShowController("Configured")),
    Drawn(OfKind(c, {"Gateway"}), GatewayID, LAMBDA r : Shows("Gateway", r.kind, <<r.class>>)),
    Drawn(OfKind(c, HTTPKinds), RouteID, LAMBDA r : ShowRoute(c, r)),
    Drawn(PairsOf(OfKind(c, {"Gateway"}), LAMBDA r : r.addresses),
          LAMBDA x : AddressID(x[1], "gateway", x[2]),
          LAMBDA x : ShowAddress("Gateway API", x[2])),
    Drawn(OfKind(c, F5Kinds), F5ID,
          LAMBDA r : ShowAddress("F5", IF r.addresses = {} THEN None
                                       ELSE CHOOSE a \in r.addresses : TRUE)),
    [n \in {DnsID(host) : host \in UNION {r.hosts : r \in
                OfKind(c, {"Gateway"} \cup HTTPKinds \cup F5Kinds)}} |->
       Shows("DNS", None, <<>>)] >>)

\* The Services an F5 resource names, and those that its selector finds by
\* their labels, in every namespace when it has none itself.
F5Services(c, r) ==
  {s \in c.services :
     \/ \E ref \in r.backends : ref.supported /\ Refers(r, ref) = Key(s)
     \/ Selects(r.selector, s.labels) /\ r.ns \in {"", s.ns}}

ExternalEdges(c) ==
  LET gateways == OfKind(c, {"Gateway"})
      routes == OfKind(c, HTTPKinds)
      f5 == OfKind(c, F5Kinds)
      classed == {g \in gateways : \E k \in OfKind(c, {"GatewayClass"}) : k.name = g.class}
      attached(r) == {ref \in r.parents : ParentOutcome(c, r, ref) = "edge"}
      backed(r) == {ref \in r.backends : BackendOutcome(c, r, ref) = "edge"}
      attaches(set, kind) ==
        Linked({<<<<"Gateway", Refers(x[1], x[2])[1], <<x[2].name>>>>, RouteID(x[1]), kind>> :
                  x \in PairsOf(set, attached)}, "route")
      resolves(set, id(_)) ==
        Linked({<<DnsID(x[2]), id(x[1]), "resolves">> : x \in PairsOf(set, LAMBDA r : r.hosts)},
               "DNS")
  IN  Merge(<<
        Linked({<<GatewayClassID(g.class), GatewayID(g), "controls">> : g \in classed},
               "GatewayClass"),
        Linked({<<AddressID(x[1], "gateway", x[2]), GatewayID(x[1]), "fronts">> :
                  x \in PairsOf(gateways, LAMBDA g : g.addresses)}, "Gateway status"),
        attaches({r \in routes : r.accepted}, "attaches"),
        attaches({r \in routes : ~r.accepted}, "rejected"),
        Linked({<<RouteID(x[1]), <<"Service", Refers(x[1], x[2])[1], <<x[2].name>>>>, "routes">> :
                  x \in PairsOf(routes, backed)}, "backend"),
        Linked({<<F5ID(x[1]), ServiceID(x[2]), "balances">> :
                  x \in PairsOf(f5, LAMBDA r : F5Services(c, r))}, "F5"),
        resolves(gateways, GatewayID), resolves(routes, RouteID), resolves(f5, F5ID) >>)

----------------------------------------------------------------------------
(* Endpoints of the Services without selector: the pods they stand for and *)
(* the addresses that are no pod's.                                        *)

Selectorless(c, key) == \E s \in c.services : Key(s) = key /\ s.selector = {}
ManualSlices(c) == {s \in c.slices : Selectorless(c, <<s.ns, s.service>>)}
ManualEndpoints(c) ==
  {e \in c.endpoints : Selectorless(c, Key(e)) /\ SlicesOf(c, Key(e)) = {}}

\* Triples of a slice, an endpoint and one of its addresses that is no pod's.
SliceAddresses(c) ==
  UNION {UNION {{<<s, e, a>> : a \in {b \in e.addresses :
                                        PodBehind(c.pods, s.ns, e.target, b) = {}}} :
                  e \in s.endpoints} : s \in ManualSlices(c)}

LegacyAddresses(c) ==
  {x \in PairsOf(ManualEndpoints(c), LAMBDA e : UNION {sub.addresses : sub \in e.subsets}) :
     PodBehind(c.pods, x[1].ns, x[2].target, x[2].ip) = {}}

\* No node is added for an empty address; its edge is, all the same.
SliceEndpoints(c) == {x \in SliceAddresses(c) : x[3] # None}
LegacyEndpoints(c) == {x \in LegacyAddresses(c) : x[2].ip # None}

\* The API server admits no endpoint with an empty address.
Addressed(c) ==
  /\ \A s \in c.slices : \A e \in s.endpoints : None \notin e.addresses
  /\ \A e \in c.endpoints : \A sub \in e.subsets : \A a \in sub.addresses : a.ip # None

EndpointNodes(c) ==
  Merge(<<
    Drawn(SliceEndpoints(c), LAMBDA x : SliceEndpointID(x[1], x[3]),
          LAMBDA x : ShowEndpoint("EndpointSlice", Usable(x[2]))),
    Drawn(LegacyEndpoints(c), LAMBDA x : EndpointID(x[1], x[2].ip),
          LAMBDA x : ShowEndpoint("Endpoint", x[2].ready)) >>)

EndpointEdges(c) ==
  LET service(ns, name) == <<"Service", ns, <<name>>>>
  IN  Merge(<<
        Linked({<<service(x[1].ns, x[1].service), PodID(x[2]), "endpointslice">> :
                  x \in PairsOf(ManualSlices(c), LAMBDA s : SlicePods(c.pods, s))}
               \cup {<<service(x[1].ns, x[1].service), SliceEndpointID(x[1], x[3]),
                       "endpointslice">> : x \in SliceAddresses(c)}, "EndpointSlice"),
        Linked({<<service(x[1].ns, x[1].name), PodID(x[2]), "endpoint">> :
                  x \in PairsOf(ManualEndpoints(c), LAMBDA e : EndpointPods(c.pods, e))}
               \cup {<<service(x[1].ns, x[1].name), EndpointID(x[1], x[2].ip), "endpoint">> :
                       x \in LegacyAddresses(c)}, "Endpoints") >>)

----------------------------------------------------------------------------
\* BuildTopologyWithOptions
Build(c) ==
  [nodes |-> Merge(<<ControllerNodes(c), WorkloadNodes(c), ExposureNodes(c),
                     IngressNodes(c), ExternalNodes(c), EndpointNodes(c)>>),
   edges |-> Merge(<<WorkloadEdges(c), ExposureEdges(c), IngressEdges(c),
                     ExternalEdges(c), EndpointEdges(c)>>)]
=============================================================================
