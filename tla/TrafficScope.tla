---------------------------- MODULE TrafficScope ----------------------------
(***************************************************************************)
(* What a snapshot keeps of a cluster: scopeTrafficInputs                  *)
(* (internal/k8s/topology_inputs.go) drops most Services, pods and nodes   *)
(* before the build, ingressScopedSnapshot (snapshot.go) drops the nodes   *)
(* that no Ingress, Gateway, route or F5 resource leads to after it.       *)
(***************************************************************************)
EXTENDS Topology

\* Mutant: exposed Services are kept only when something refers to them.
ReferencedServices(c) ==
  {ServiceKey(x[1], x[2]) : x \in RoutesOf(c)}
    \cup (UNION {{Refers(r, ref) : ref \in {b \in r.backends : b.supported}} : r \in c.external})
    \cup {Key(s) : s \in {t \in c.services :
            \E r \in c.external : Selects(r.selector, t.labels) /\ r.ns \in {"", t.ns}}}

\* The Services that traffic can reach, by key: they need not exist.
TrafficServices(c) ==
  {ServiceKey(x[1], x[2]) : x \in RoutesOf(c)}
    \cup (UNION {{Refers(r, ref) : ref \in {b \in r.backends : b.supported}} : r \in c.external})
    \cup {Key(s) : s \in {t \in c.services :
            Exposed(t) \/ \E r \in c.external : Selects(r.selector, t.labels)
                                               /\ r.ns \in {"", t.ns}}}

\* The references of slices and Endpoints: <<namespace, target, address>>.
References(slices, endpoints) ==
  (UNION {UNION {{<<s.ns, e.target, a>> : a \in e.addresses} : e \in s.endpoints} : s \in slices})
    \cup (UNION {UNION {{<<e.ns, a.target, a.ip>> : a \in sub.addresses} :
                         sub \in e.subsets} : e \in endpoints})

\* scopeTrafficInputs. The pods that are kept stay at their places in the list.
Scoped(c) ==
  LET keys == TrafficServices(c)
      services == {s \in c.services : Key(s) \in keys}
      slices == {s \in c.slices : s.service # None /\ <<s.ns, s.service>> \in keys}
      endpoints == {e \in c.endpoints : Key(e) \in keys}
      refs == References(slices, endpoints)
      named == {<<Or(r[2].ns, r[1]), r[2].name>> : r \in {q \in refs : q[2] # None}}
      addressed == {<<r[1], r[3]>> : r \in refs}
      wanted(p) == \/ \E s \in services : p \in PodsOf(s, c.pods)
                   \/ Key(p) \in named
                   \/ p.ip # None /\ <<p.ns, p.ip>> \in addressed
      pods == RestrictValues(c.pods, wanted)
  IN  [c EXCEPT !.services = services, !.slices = slices, !.endpoints = endpoints,
                !.pods = pods,
                !.nodes = {node \in c.nodes : \E p \in ToSet(pods) : p.node = node}]

----------------------------------------------------------------------------
\* topologyRoot
Root(node) == \/ node.kind \in {"Ingress", "Gateway", "Route"}
              \/ node.kind = "LoadBalancer" /\ Head(node.properties) = "F5"

\* scopedTopologyNeighbors: the kinds of edges followed from a node of each
\* kind, along their direction and against it.
Forward ==
  [Ingress |-> {"defines", "routes"}, Gateway |-> {"attaches"},
   Route |-> {"routes", "canary"},
   Service |-> {"selects", "endpointslice", "endpoint", "externalname"},
   Controller |-> {"controls"}, NodePort |-> {"forwards"},
   LoadBalancer |-> {"balances", "exposes", "fronts"}, DNS |-> {"resolves"}]

Backward ==
  [Ingress |-> {"controls", "fronts", "resolves"},
   Gateway |-> {"controls", "fronts", "resolves"},
   Route |-> {"attaches", "defines", "resolves"}, Pod |-> {"hosts"},
   Controller |-> {"forwards", "balances"}, NodePort |-> {"exposes"},
   LoadBalancer |-> {"resolves"}]

KindsOf(table, node) == IF node.kind \in DOMAIN table THEN table[node.kind] ELSE {}

\* Mutant: a Service also leads to what selects or forwards to it.
NeighborsBothWays(graph, n) ==
  {e[2] : e \in {x \in DOMAIN graph.edges : x[1] = n}}
    \cup {e[1] : e \in {x \in DOMAIN graph.edges : x[2] = n}}

Neighbors(graph, n) ==
  {e[2] : e \in {x \in DOMAIN graph.edges :
                   x[1] = n /\ x[3] \in KindsOf(Forward, graph.nodes[n])}}
    \cup {e[1] : e \in {x \in DOMAIN graph.edges :
                   x[2] = n /\ x[3] \in KindsOf(Backward, graph.nodes[n])}}

\* ingressScopedSnapshot's loop: visited and the queue, from the roots on.
Visited(graph) ==
  LET ids == DOMAIN graph.nodes
      visit[s \in (SUBSET ids) \X (SUBSET ids)] ==
        IF s[2] = {} THEN s[1]
        ELSE LET found == ((UNION {Neighbors(graph, n) : n \in s[2]}) \cap ids) \ s[1]
             IN  visit[<<s[1] \cup found, found>>]
      roots == {n \in ids : Root(graph.nodes[n])}
  IN  visit[<<roots, roots>>]

Visible(graph) ==
  LET visited == Visited(graph)
  IN  [nodes |-> [n \in visited |-> graph.nodes[n]],
       edges |-> [e \in {x \in DOMAIN graph.edges : {x[1], x[2]} \subseteq visited} |->
                    graph.edges[e]]]

\* Mutant: the counts are taken after the inputs were scoped.
InventoryOfScope(c) ==
  [ingressClasses |-> Cardinality(c.classes), ingresses |-> Len(c.ingresses),
   services |-> Cardinality(Scoped(c).services), pods |-> Cardinality(DOMAIN Scoped(c).pods),
   nodes |-> Cardinality(Scoped(c).nodes)]

\* externalResourceInventory and the counts that buildSnapshot adds.
Inventory(c) ==
  [ingressClasses |-> Cardinality(c.classes), ingresses |-> Len(c.ingresses),
   gatewayClasses |-> Cardinality(OfKind(c, {"GatewayClass"})),
   gateways |-> Cardinality(OfKind(c, {"Gateway"})),
   gatewayRoutes |-> Cardinality(OfKind(c, HTTPKinds)),
   f5Resources |-> Cardinality(OfKind(c, F5Kinds)),
   services |-> Cardinality(c.services), pods |-> Len(c.pods),
   nodes |-> Cardinality(c.nodes)]

\* buildSnapshot, once the caches are read
Snapshot(c) == [graph |-> Visible(Build(Scoped(c))), inventory |-> Inventory(c)]
=============================================================================
