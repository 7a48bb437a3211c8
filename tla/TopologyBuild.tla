--------------------------- MODULE TopologyBuild ---------------------------
(***************************************************************************)
(* The contents of a snapshot, as Watcher publishes it.  Watcher and       *)
(* SnapshotFeed say when a snapshot is built and who receives it; this     *)
(* module says what is in it.  The caches hold some cluster.  Every read   *)
(* lists it in an arbitrary order (Relist): informer listers walk a map.   *)
(* A rebuild publishes what it built unless that is the same topology.     *)
(***************************************************************************)
EXTENDS TrafficScope

CONSTANT Clusters    \* the clusters a run starts from

\* An informer's store holds finitely many objects, each with finitely many
\* parts, under keys of a namespace and a name; a lister returns all of them.
Fields == {"watch", "ingresses", "pods", "classes", "services", "nodes", "slices",
           "endpoints", "external"}

Finite(c) ==
  /\ IsFiniteSet(DOMAIN c.ingresses) /\ IsFiniteSet(DOMAIN c.pods) /\ IsFiniteSet(c.classes)
  /\ IsFiniteSet(c.services) /\ IsFiniteSet(c.nodes) /\ IsFiniteSet(c.slices)
  /\ IsFiniteSet(c.endpoints) /\ IsFiniteSet(c.external)
  /\ \A i \in ToSet(c.ingresses) : /\ IsFiniteSet(DOMAIN i.routes) /\ IsFiniteSet(i.addresses)
                                 /\ IsFiniteSet(i.hosts)
  /\ \A svc \in c.services : IsFiniteSet(DOMAIN svc.ports)
  /\ \A s \in c.slices : /\ IsFiniteSet(s.endpoints)
                         /\ \A e \in s.endpoints : IsFiniteSet(e.addresses)
  /\ \A e \in c.endpoints : /\ IsFiniteSet(e.subsets)
                            /\ \A sub \in e.subsets : IsFiniteSet(sub.addresses)
  /\ \A r \in c.external : IsFiniteSet(r.addresses) /\ IsFiniteSet(r.hosts)

Keyed(S) == \A x, y \in S : Key(x) = Key(y) => x = y
Listing(s) == s \in Seq(ToSet(s)) /\ \A m, n \in DOMAIN s : Key(s[m]) = Key(s[n]) => m = n

IsCluster(c) ==
  /\ c = [field \in Fields |-> c[field]] /\ Finite(c) /\ Addressed(c)
  /\ Listing(c.ingresses) /\ Listing(c.pods) /\ Keyed(c.services)
  /\ \A svc \in c.services : svc # None /\ svc.name # None
  /\ \A p \in ToSet(c.pods) : p.phase \in {"Pending", "Running", "Succeeded", "Failed", "Unknown"}
  /\ \A r, q \in c.external : r.kind = q.kind /\ Key(r) = Key(q) => r = q
  /\ \A i \in ToSet(c.ingresses) :
       i.created \in Nat /\ i.rank \in Nat /\ i.routes \in Seq(ToSet(i.routes))

ASSUME ClustersAssumption == \A c \in Clusters : IsCluster(c)

VARIABLES cluster,   \* the caches, in the order of the next read
          latest     \* w.latest, None before the first build

vars == <<cluster, latest>>

Init == cluster \in Clusters /\ latest = None

\* The listers return the same objects in another order.
Relist ==
  /\ \E ingresses \in SetToSeqs(ToSet(cluster.ingresses)),
        pods \in SetToSeqs(ToSet(cluster.pods)) :
       cluster' = [cluster EXCEPT !.ingresses = ingresses, !.pods = pods]
  /\ UNCHANGED latest

\* buildSnapshot; it is published when sameTopology finds a difference.
Rebuild == latest' = Snapshot(cluster) /\ UNCHANGED cluster

Next == Relist \/ Rebuild

Spec == Init /\ [][Next]_vars

----------------------------------------------------------------------------
graph == latest.graph
Edge(source, target, kind) == <<source, target, kind>> \in DOMAIN graph.edges
Status(id) == graph.nodes[id].status
Healthy == {"ok", "info"}
Built == latest # None

\* A snapshot never points at what it does not show, an Ingress is shown with
\* all its routes, and counts what the caches hold.
TypeOK ==
  Built =>
    /\ \A e \in DOMAIN graph.edges : {e[1], e[2]} \subseteq DOMAIN graph.nodes
    /\ \A x \in RoutesOf(cluster) :
         Edge(IngressID(x[1]), IngressRouteID(x[1], x[2]), "defines")
    /\ latest.inventory.pods = Len(cluster.pods)

\* scopeTrafficInputs is only an economy: leaving objects out before the build
\* never changes what the snapshot shows (topology_inputs.go:17).
ScopingLosesNothing == Snapshot(cluster).graph = Visible(Build(cluster))

\* No edge of a build leads from or to a node that was never added; the
\* snapshot would silently lose it (builder.go:58, snapshot.go:58).
NoDanglingEdges ==
  Built => LET g == Build(Scoped(cluster))
           IN  \A e \in DOMAIN g.edges : {e[1], e[2]} \subseteq DOMAIN g.nodes

\* What the order of a list can decide: two pods with one IP, and two canaries
\* of one Service.
DistinctAddresses ==
  \A m, n \in DOMAIN cluster.pods :
    m # n /\ cluster.pods[m].ns = cluster.pods[n].ns /\ cluster.pods[m].ip # None
      => cluster.pods[m].ip # cluster.pods[n].ip
DistinctCanaryServices ==
  \A r, q \in OverlapRoutes(cluster) :
    Canary(r) /\ Canary(q) /\ r.service = q.service => r.ingress = q.ingress

\* The informer listers return objects in map order, so the same cluster state
\* must build the same snapshot regardless of it (builder_test.go:1620).
OrderIndependent == Built => latest = Snapshot(cluster)

\* The same, where pods have their own addresses and canaries their own
\* Services: a rebuild of an unchanged cluster publishes nothing.
StableRebuild == DistinctAddresses /\ DistinctCanaryServices => OrderIndependent

\* Two Ingresses of one controller that define one location are never both, or
\* either of them, shown as working: only one receives the traffic
\* (builder_overlaps.go:323).
NoSilentConflict ==
  Built =>
    \A r, q \in OverlapRoutes(cluster) :
      SameLocation(r, q) /\ r.ingress # q.ingress /\ ~Canary(r) /\ ~Canary(q)
        => Status(IngressRouteID(r.ingress, r.k)) \notin Healthy

CanaryTargets(r) ==
  {e[2] : e \in {x \in DOMAIN graph.edges :
                   x[1] = IngressRouteID(r.ingress, r.k) /\ x[3] = "canary"}}

\* A canary is attached to a backend: all routes of one controller to one
\* Service and port lead to the same canaries, whatever their host
\* (builder_overlaps.go:71, docs/troubleshooting.md:166).
SplitReachesEveryRoute ==
  Built =>
    \A r, q \in OverlapRoutes(cluster) :
      ~Canary(r) /\ ~Canary(q) /\ HasBackend(r) /\ Backend(r) = Backend(q)
        => CanaryTargets(r) = CanaryTargets(q)

\* A canary that is shown as working receives traffic: its Service is drawn
\* behind a route of the same location (builder_overlaps.go:292).
WorkingCanaryIsDrawn ==
  Built =>
    \A r \in OverlapRoutes(cluster) :
      Canary(r) /\ Status(IngressRouteID(r.ingress, r.k)) = "ok"
        /\ (\A p \in PrimariesAt(r, OverlapRoutes(cluster)) : HasBackend(p))
      => \E p \in PrimariesAt(r, OverlapRoutes(cluster)) :
           <<"Service", r.ingress.ns, <<r.service>>>> \in CanaryTargets(p)

\* An endpoint has an address, and an address is listed once among a Service's
\* slices, or in its Endpoints.  Kubernetes promises the first only: while
\* endpoints move between slices, one address may be in two of them.
ListedOnce ==
  /\ \A s \in cluster.slices : \A e \in s.endpoints : e.addresses # {}
  /\ \A s, t \in cluster.slices : <<s.ns, s.service>> = <<t.ns, t.service>> =>
       \A e \in s.endpoints, f \in t.endpoints :
         e.addresses \cap f.addresses # {} => <<s, e>> = <<t, f>>
  /\ \A x, y \in cluster.endpoints : Key(x) = Key(y) =>
       \A sub \in x.subsets, part \in y.subsets :
         \A a \in sub.addresses, b \in part.addresses :
           a.ip = b.ip => <<x, sub, a>> = <<y, part, b>>

\* A route shown as ready can be followed to where its traffic goes: to a
\* ready pod of a Service with a selector, else to a pod or a usable endpoint
\* (builder_diagnostics.go:73 against builder.go:279).
ReadyRouteHasBackend ==
  Built =>
    \A x \in RoutesOf(cluster) :
      Status(IngressRouteID(x[1], x[2])) = "ok" =>
        \E s \in ServicesNamed(cluster, ServiceKey(x[1], x[2])) :
          /\ Edge(IngressRouteID(x[1], x[2]), ServiceID(s), "routes")
          /\ s.selector # {} =>
               \E n \in DOMAIN graph.nodes :
                 Edge(ServiceID(s), n, "selects") /\ Status(n) # "NotReady"
          /\ s.selector = {} /\ ListedOnce =>
               \E n \in DOMAIN graph.nodes :
                 /\ \E kind \in {"endpoint", "endpointslice"} : Edge(ServiceID(s), n, kind)
                 /\ n[1] = "Pod" \/ Status(n) = "Ready"

Addresses(svc) ==
  (UNION {UNION {e.addresses : e \in s.endpoints} : s \in SlicesOf(cluster, Key(svc))})
    \cup (UNION {UNION {{a.ip : a \in sub.addresses} : sub \in e.subsets} :
                   e \in {x \in cluster.endpoints : Key(x) = Key(svc)}})

\* Endpoints that are mirrored into slices are not counted twice: no Service
\* has more usable endpoints than addresses (builder_endpoints.go:82).
UsableNotInflated ==
  ListedOnce =>
    \A svc \in cluster.services :
      Stats(cluster, Key(svc)).usable <= Cardinality(Addresses(svc))

\* A snapshot shows only what takes part in traffic: each Service behind a
\* route or an F5 resource, each pod behind a Service, each Kubernetes node
\* under a pod (snapshot.go:71).
OnlyTraffic ==
  Built =>
    /\ \A n \in {m \in DOMAIN graph.nodes : m[1] = "Service"} :
         \E e \in DOMAIN graph.edges : e[2] = n /\ e[3] \in {"routes", "canary", "balances"}
    /\ \A n \in {m \in DOMAIN graph.nodes : m[1] = "Pod"} :
         \E e \in DOMAIN graph.edges :
           e[2] = n /\ e[3] \in {"selects", "endpoint", "endpointslice"}
    /\ \A n \in {m \in DOMAIN graph.nodes : m[1] = "Node"} :
         \E e \in DOMAIN graph.edges : e[1] = n /\ e[3] = "hosts"

\* A Gateway API route without a reference error is drawn with all its parents
\* and backends that are within the watch scope, and reaches a Service of
\* another namespace only by a grant of that namespace for it
\* (builder_nodes.go:465-523, docs/troubleshooting.md:199).
ReferencesExplained ==
  Built =>
    \A r \in OfKind(cluster, HTTPKinds) :
      /\ Status(RouteID(r)) # "Reference error" =>
           /\ \A ref \in r.backends :
                \/ Edge(RouteID(r), <<"Service", Refers(r, ref)[1], <<ref.name>>>>, "routes")
                \/ cluster.watch \notin {None, Refers(r, ref)[1]}
           /\ \A ref \in r.parents :
                \/ \E kind \in {"attaches", "rejected"} :
                     Edge(<<"Gateway", Refers(r, ref)[1], <<ref.name>>>>, RouteID(r), kind)
                \/ cluster.watch \notin {None, Refers(r, ref)[1]}
      /\ \A e \in DOMAIN graph.edges :
           e[1] = RouteID(r) /\ e[3] = "routes" /\ e[2][2] # r.ns
             => \E grant \in OfKind(cluster, {"ReferenceGrant"}) :
                  /\ grant.ns = e[2][2]
                  /\ <<r.ns, r.kind>> \in grant.from
                  /\ {e[2][3][1], None} \cap grant.to # {}
=============================================================================
