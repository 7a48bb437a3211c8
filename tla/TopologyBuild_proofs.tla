------------------------ MODULE TopologyBuild_proofs ------------------------
(***************************************************************************)
(* Proofs about TopologyBuild, for any clusters: what a published snapshot *)
(* shows and what it says of it.                                           *)
(***************************************************************************)
EXTENDS TopologyBuild, Topology_proofs, TrafficScope_proofs, SequenceTheorems

-----------------------------------------------------------------------------
(* A build draws finitely many nodes.                                      *)

LEMMA FiniteImage ==
  ASSUME NEW S, IsFiniteSet(S), NEW f
  PROVE  IsFiniteSet({f[x] : x \in S})
<1> DEFINE T == {f[x] : x \in S}
           g == [x \in S |-> f[x]]
<1>1. g \in Surjection(S, T)
  BY DEF Surjection
<1>2. QED
  BY <1>1, FS_Surjection

LEMMA FiniteUnion ==
  ASSUME NEW S, IsFiniteSet(S), NEW f, \A x \in S : IsFiniteSet(f[x])
  PROVE  IsFiniteSet(UNION {f[x] : x \in S})
<1>1. IsFiniteSet({f[x] : x \in S})
  BY FiniteImage
<1>2. QED
  BY <1>1, FS_UNION

LEMMA FinitePairs ==
  ASSUME NEW S, IsFiniteSet(S), NEW f, \A x \in S : IsFiniteSet(f[x])
  PROVE  IsFiniteSet(UNION {{<<x, y>> : y \in f[x]} : x \in S})
<1> DEFINE pairs == [x \in S |-> {<<x, y>> : y \in f[x]}]
<1>1. ASSUME NEW x \in S PROVE IsFiniteSet(pairs[x])
  <2> DEFINE pair == [y \in f[x] |-> <<x, y>>]
  <2>1. IsFiniteSet({pair[y] : y \in f[x]})
    BY FiniteImage
  <2>2. {pair[y] : y \in f[x]} = pairs[x]
    OBVIOUS
  <2>3. QED
    BY <2>1, <2>2
<1> HIDE DEF pairs
<1>2. IsFiniteSet(UNION {pairs[x] : x \in S})
  BY <1>1, FiniteUnion
<1>3. UNION {pairs[x] : x \in S} = UNION {{<<x, y>> : y \in f[x]} : x \in S}
  BY DEF pairs
<1>4. QED
  BY <1>2, <1>3

LEMMA FiniteToSet ==
  ASSUME NEW s, IsFiniteSet(DOMAIN s)
  PROVE  IsFiniteSet(ToSet(s))
BY FiniteImage DEF ToSet

LEMMA FiniteWorkloads ==
  ASSUME NEW c, Finite(c)
  PROVE  IsFiniteSet(WorkloadIDs(c))
<1> DEFINE hosts == [node \in c.nodes |-> HostID(node)]
           pods == [p \in ToSet(c.pods) |-> PodID(p)]
           services == [svc \in c.services |-> ServiceID(svc)]
           external == [svc \in ExternalNames(c) |-> ExternalNameID(svc)]
<1>1. /\ IsFiniteSet(c.nodes) /\ IsFiniteSet(ToSet(c.pods)) /\ IsFiniteSet(c.services)
      /\ IsFiniteSet(ExternalNames(c))
  <2>1. ExternalNames(c) \in SUBSET c.services
    BY DEF ExternalNames
  <2>2. QED
    BY <2>1, FS_Subset, FiniteToSet DEF Finite
<1>2. /\ HostIDs(c) = {hosts[x] : x \in c.nodes}
      /\ PodIDs(c) = {pods[x] : x \in ToSet(c.pods)}
      /\ ServiceIDs(c) = {services[x] : x \in c.services}
      /\ ExternalNameIDs(c) = {external[x] : x \in ExternalNames(c)}
  BY DEF HostIDs, PodIDs, ServiceIDs, ExternalNameIDs
<1> HIDE DEF hosts, pods, services, external
<1>3. IsFiniteSet(HostIDs(c)) /\ IsFiniteSet(PodIDs(c))
  BY <1>1, <1>2, FiniteImage
<1>4. IsFiniteSet(ServiceIDs(c)) /\ IsFiniteSet(ExternalNameIDs(c))
  BY <1>1, <1>2, FiniteImage
<1>5. QED
  BY <1>3, <1>4, FS_Union DEF WorkloadIDs

LEMMA FiniteControllers ==
  ASSUME NEW c, Finite(c)
  PROVE  IsFiniteSet(ControllerIDs(c))
<1> DEFINE name == [class \in c.classes |-> class.name]
           annotated == {j \in ToSet(c.ingresses) : j.class = None}
           annotation == [i \in annotated |-> i.annotation]
           class == [x \in ClassNames(c) |-> ControllerID(x)]
           inferred == [x \in AnnotationClasses(c) |-> ControllerID(x)]
           status == [svc \in StatusServices(c) |-> StatusControllerID(svc)]
<1>1. /\ IsFiniteSet(c.classes) /\ IsFiniteSet(annotated) /\ IsFiniteSet(StatusServices(c))
  <2>1. annotated \in SUBSET ToSet(c.ingresses) /\ StatusServices(c) \in SUBSET c.services
    BY DEF StatusServices
  <2>2. IsFiniteSet(ToSet(c.ingresses)) /\ IsFiniteSet(c.services) /\ IsFiniteSet(c.classes)
    BY FiniteToSet DEF Finite
  <2>3. QED
    BY <2>1, <2>2, FS_Subset
<1>2. /\ ClassNames(c) = {name[x] : x \in c.classes}
      /\ AnnotationClasses(c) \in SUBSET {annotation[x] : x \in annotated}
  BY DEF ClassNames, AnnotationClasses
<1>3. /\ ClassIDs(c) = {class[x] : x \in ClassNames(c)}
      /\ AnnotationIDs(c) = {inferred[x] : x \in AnnotationClasses(c)}
      /\ StatusIDs(c) = {status[x] : x \in StatusServices(c)}
  BY DEF ClassIDs, AnnotationIDs, StatusIDs
<1> HIDE DEF name, annotated, annotation, class, inferred, status
<1>4. IsFiniteSet(ClassNames(c)) /\ IsFiniteSet(AnnotationClasses(c))
  <2>1. IsFiniteSet({name[x] : x \in c.classes}) /\ IsFiniteSet({annotation[x] : x \in annotated})
    BY <1>1, FiniteImage
  <2>2. QED
    BY <1>2, <2>1, FS_Subset
<1>5. IsFiniteSet(ClassIDs(c)) /\ IsFiniteSet(AnnotationIDs(c)) /\ IsFiniteSet(StatusIDs(c))
  BY <1>1, <1>3, <1>4, FiniteImage
<1>6. QED
  BY <1>5, FS_Union DEF ControllerIDs

LEMMA FiniteExposures ==
  ASSUME NEW c, Finite(c)
  PROVE  IsFiniteSet(ExposureIDs(c))
<1> DEFINE exposed == {s \in c.services : Exposed(s)}
           ports == [svc \in exposed |-> NodePorts(svc)]
           balancer == [svc \in Balancers(c) |-> LoadBalancerID(svc)]
           port == [x \in ExposedPorts(c) |-> NodePortID(x[1], x[2])]
<1>1. IsFiniteSet(exposed) /\ IsFiniteSet(Balancers(c))
  <2>1. exposed \in SUBSET c.services /\ Balancers(c) \in SUBSET c.services
    BY DEF Balancers
  <2>2. QED
    BY <2>1, FS_Subset DEF Finite
<1>2. ASSUME NEW svc \in exposed PROVE IsFiniteSet(ports[svc])
  <2>1. IsFiniteSet(ToSet(svc.ports))
    BY FiniteToSet DEF Finite
  <2>2. NodePorts(svc) \in SUBSET ToSet(svc.ports)
    BY DEF NodePorts
  <2>3. QED
    BY <2>1, <2>2, FS_Subset
<1>3. ExposedPorts(c) = UNION {{<<x, y>> : y \in ports[x]} : x \in exposed}
  <2>1. ExposedPorts(c) = UNION {{<<x, y>> : y \in NodePorts(x)} : x \in exposed}
    BY DEF ExposedPorts, PairsOf
  <2>2. \A x \in exposed : ports[x] = NodePorts(x)
    OBVIOUS
  <2> HIDE DEF ports, exposed
  <2>3. QED
    BY <2>1, <2>2
<1>4. /\ BalancerIDs(c) = {balancer[x] : x \in Balancers(c)}
      /\ NodePortIDs(c) = {port[x] : x \in ExposedPorts(c)}
  BY DEF BalancerIDs, NodePortIDs
<1> HIDE DEF exposed, ports, balancer, port
<1>5. IsFiniteSet(ExposedPorts(c))
  BY <1>1, <1>2, <1>3, FinitePairs
<1>6. IsFiniteSet(BalancerIDs(c)) /\ IsFiniteSet(NodePortIDs(c))
  BY <1>1, <1>4, <1>5, FiniteImage
<1>7. QED
  BY <1>6, FS_Union DEF ExposureIDs

LEMMA FiniteIngresses ==
  ASSUME NEW c, Finite(c)
  PROVE  IsFiniteSet(AllIngressIDs(c))
<1> DEFINE ingresses == ToSet(c.ingresses)
           places == [i \in ingresses |-> DOMAIN i.routes]
           addresses == [i \in ingresses |-> i.addresses]
           hosts == [i \in ingresses |-> Hosts(i)]
           ingress == [i \in ingresses |-> IngressID(i)]
           route == [x \in RoutesOf(c) |-> IngressRouteID(x[1], x[2])]
           dns == [x \in IngressHosts(c) |-> DnsID(x)]
           address == [x \in IngressAddresses(c) |-> AddressID(x[1], "ingress", x[2])]
<1>1. IsFiniteSet(ingresses)
  BY FiniteToSet DEF Finite
<1>2. ASSUME NEW i \in ingresses
      PROVE  IsFiniteSet(places[i]) /\ IsFiniteSet(addresses[i]) /\ IsFiniteSet(hosts[i])
  <2>1. IsFiniteSet(DOMAIN i.routes) /\ IsFiniteSet(i.addresses)
    BY DEF Finite
  <2>2. IsFiniteSet(i.hosts) /\ Hosts(i) \in SUBSET i.hosts
    BY DEF Finite, Hosts
  <2>3. QED
    BY <2>1, <2>2, FS_Subset
<1>3. /\ RoutesOf(c) = UNION {{<<x, y>> : y \in places[x]} : x \in ingresses}
      /\ IngressAddresses(c) = UNION {{<<x, y>> : y \in addresses[x]} : x \in ingresses}
      /\ IngressHosts(c) = UNION {hosts[x] : x \in ingresses}
  BY DEF RoutesOf, IngressAddresses, IngressHosts, PairsOf
<1>4. /\ IngressIDs(c) = {ingress[x] : x \in ingresses}
      /\ IngressRouteIDs(c) = {route[x] : x \in RoutesOf(c)}
      /\ IngressDnsIDs(c) = {dns[x] : x \in IngressHosts(c)}
      /\ IngressAddressIDs(c) = {address[x] : x \in IngressAddresses(c)}
  BY DEF IngressIDs, IngressRouteIDs, IngressDnsIDs, IngressAddressIDs
<1> HIDE DEF ingresses, places, addresses, hosts, ingress, route, dns, address
<1>5. IsFiniteSet(RoutesOf(c)) /\ IsFiniteSet(IngressAddresses(c))
  BY <1>1, <1>2, <1>3, FinitePairs
<1>6. IsFiniteSet(IngressHosts(c))
  BY <1>1, <1>2, <1>3, FiniteUnion
<1>7. IsFiniteSet(IngressIDs(c)) /\ IsFiniteSet(IngressRouteIDs(c))
  BY <1>1, <1>4, <1>5, FiniteImage
<1>8. IsFiniteSet(IngressDnsIDs(c)) /\ IsFiniteSet(IngressAddressIDs(c))
  BY <1>4, <1>5, <1>6, FiniteImage
<1>9. QED
  BY <1>7, <1>8, FS_Union DEF AllIngressIDs

LEMMA FiniteExternal ==
  ASSUME NEW c, Finite(c)
  PROVE  IsFiniteSet(ExternalIDs(c))
<1> DEFINE classes == OfKind(c, {"GatewayClass"})
           hosting == OfKind(c, {"Gateway"} \cup HTTPKinds \cup F5Kinds)
           addresses == [r \in Gateways(c) |-> r.addresses]
           hosts == [r \in hosting |-> r.hosts]
           class == [r \in classes |-> GatewayClassID(r.name)]
           gateway == [r \in Gateways(c) |-> GatewayID(r)]
           route == [r \in Routes(c) |-> RouteID(r)]
           f5 == [r \in F5Resources(c) |-> F5ID(r)]
           address == [x \in GatewayAddresses(c) |-> AddressID(x[1], "gateway", x[2])]
           dns == [x \in ExternalHosts(c) |-> DnsID(x)]
<1>1. /\ IsFiniteSet(classes) /\ IsFiniteSet(hosting) /\ IsFiniteSet(Gateways(c))
      /\ IsFiniteSet(Routes(c)) /\ IsFiniteSet(F5Resources(c))
  <2>1. /\ classes \in SUBSET c.external /\ hosting \in SUBSET c.external
        /\ Gateways(c) \in SUBSET c.external /\ Routes(c) \in SUBSET c.external
        /\ F5Resources(c) \in SUBSET c.external
    BY DEF Gateways, Routes, F5Resources, OfKind
  <2> HIDE DEF classes, hosting
  <2>2. QED
    BY <2>1, FS_Subset DEF Finite
<1>2. /\ \A r \in Gateways(c) : IsFiniteSet(addresses[r])
      /\ \A r \in hosting : IsFiniteSet(hosts[r])
  BY DEF Finite, Gateways, OfKind
<1>3. /\ GatewayAddresses(c) = UNION {{<<x, y>> : y \in addresses[x]} : x \in Gateways(c)}
      /\ ExternalHosts(c) = UNION {hosts[x] : x \in hosting}
  BY DEF GatewayAddresses, ExternalHosts, PairsOf
<1>4. /\ GatewayClassIDs(c) = {class[x] : x \in classes}
      /\ GatewayIDs(c) = {gateway[x] : x \in Gateways(c)}
      /\ RouteIDs(c) = {route[x] : x \in Routes(c)}
      /\ F5IDs(c) = {f5[x] : x \in F5Resources(c)}
      /\ GatewayAddressIDs(c) = {address[x] : x \in GatewayAddresses(c)}
      /\ ExternalDnsIDs(c) = {dns[x] : x \in ExternalHosts(c)}
  BY DEF GatewayClassIDs, GatewayIDs, RouteIDs, F5IDs, GatewayAddressIDs, ExternalDnsIDs
<1> HIDE DEF classes, hosting, addresses, hosts, class, gateway, route, f5, address, dns
<1>5. IsFiniteSet(GatewayAddresses(c))
  BY <1>1, <1>2, <1>3, FinitePairs
<1>6. IsFiniteSet(ExternalHosts(c))
  BY <1>1, <1>2, <1>3, FiniteUnion
<1>7. IsFiniteSet(GatewayClassIDs(c)) /\ IsFiniteSet(GatewayIDs(c)) /\ IsFiniteSet(RouteIDs(c))
  BY <1>1, <1>4, FiniteImage
<1>8. /\ IsFiniteSet(F5IDs(c)) /\ IsFiniteSet(GatewayAddressIDs(c))
      /\ IsFiniteSet(ExternalDnsIDs(c))
  BY <1>1, <1>4, <1>5, <1>6, FiniteImage
<1>9. QED
  BY <1>7, <1>8, FS_Union DEF ExternalIDs

LEMMA FiniteEndpoints ==
  ASSUME NEW c, Finite(c)
  PROVE  IsFiniteSet(AllEndpointIDs(c))
<1>1. IsFiniteSet(SliceEndpointIDs(c))
  <2> DEFINE parts(s) == [e \in s.endpoints |-> e.addresses]
             pairs == [s \in ManualSlices(c) |->
                         UNION {{<<e, a>> : a \in parts(s)[e]} : e \in s.endpoints}]
             all == UNION {{<<s, x>> : x \in pairs[s]} : s \in ManualSlices(c)}
             id == [x \in all |-> SliceEndpointID(x[1], x[2][2])]
  <2>1. ManualSlices(c) \in SUBSET c.slices /\ IsFiniteSet(c.slices)
    BY DEF ManualSlices, Finite
  <2>2. IsFiniteSet(ManualSlices(c))
    BY <2>1, FS_Subset
  <2>3. ASSUME NEW s \in ManualSlices(c) PROVE IsFiniteSet(pairs[s])
    <3>1. s \in c.slices
      BY <2>1
    <3> DEFINE part == parts(s)
               ends == s.endpoints
    <3>2. IsFiniteSet(ends) /\ \A e \in ends : IsFiniteSet(part[e])
      BY <3>1 DEF Finite
    <3>3. pairs[s] = UNION {{<<e, a>> : a \in part[e]} : e \in ends}
      OBVIOUS
    <3> HIDE DEF part, ends
    <3>4. IsFiniteSet(UNION {{<<e, a>> : a \in part[e]} : e \in ends})
      BY <3>2, FinitePairs
    <3>5. QED
      BY <3>3, <3>4
  <2>4. ASSUME NEW x \in SliceEndpoints(c) PROVE \E y \in all : SliceEndpointID(x[1], x[3]) = id[y]
    <3>1. PICK s \in ManualSlices(c) :
            \E e \in s.endpoints : \E a \in e.addresses : x = <<s, e, a>>
      BY DEF SliceEndpoints, SliceAddresses
    <3> PICK e \in s.endpoints : \E a \in e.addresses : x = <<s, e, a>>
      BY <3>1
    <3> PICK a \in e.addresses : x = <<s, e, a>>
      OBVIOUS
    <3>2. <<e, a>> \in pairs[s]
      OBVIOUS
    <3> HIDE DEF pairs
    <3>3. <<s, <<e, a>>>> \in all
      BY <3>2
    <3>4. id[<<s, <<e, a>>>>] = SliceEndpointID(s, a)
      BY <3>3
    <3>5. x[1] = s /\ x[3] = a
      OBVIOUS
    <3> HIDE DEF all, id
    <3>6. QED
      BY <3>3, <3>4, <3>5
  <2> HIDE DEF pairs, id
  <2>5. IsFiniteSet(all)
    BY <2>2, <2>3, FinitePairs
  <2> HIDE DEF all
  <2>6. IsFiniteSet({id[y] : y \in all})
    BY <2>5, FiniteImage
  <2>7. SliceEndpointIDs(c) \in SUBSET {id[y] : y \in all}
    BY <2>4 DEF SliceEndpointIDs
  <2>8. QED
    BY <2>6, <2>7, FS_Subset
<1>2. IsFiniteSet(LegacyEndpointIDs(c))
  <2> DEFINE parts(e) == [sub \in e.subsets |-> sub.addresses]
             addresses == [e \in ManualEndpoints(c) |-> UNION {sub.addresses : sub \in e.subsets}]
             all == UNION {{<<e, x>> : x \in addresses[e]} : e \in ManualEndpoints(c)}
             id == [x \in LegacyEndpoints(c) |-> EndpointID(x[1], x[2].ip)]
  <2>1. ManualEndpoints(c) \in SUBSET c.endpoints /\ IsFiniteSet(c.endpoints)
    BY DEF ManualEndpoints, Finite
  <2>2. IsFiniteSet(ManualEndpoints(c))
    BY <2>1, FS_Subset
  <2>3. ASSUME NEW e \in ManualEndpoints(c) PROVE IsFiniteSet(addresses[e])
    <3>1. e \in c.endpoints
      BY <2>1
    <3> DEFINE part == parts(e)
    <3>2. IsFiniteSet(e.subsets) /\ \A sub \in e.subsets : IsFiniteSet(part[sub])
      BY <3>1 DEF Finite
    <3>3. addresses[e] = UNION {part[sub] : sub \in e.subsets}
      OBVIOUS
    <3> HIDE DEF part, addresses
    <3>4. QED
      BY <3>2, <3>3, FiniteUnion
  <2>4. LegacyEndpoints(c) \in SUBSET all
    BY DEF LegacyEndpoints, LegacyAddresses, PairsOf
  <2>5. LegacyEndpointIDs(c) = {id[x] : x \in LegacyEndpoints(c)}
    BY DEF LegacyEndpointIDs
  <2> HIDE DEF addresses, id
  <2>6. IsFiniteSet(all)
    BY <2>2, <2>3, FinitePairs
  <2> HIDE DEF all
  <2>7. IsFiniteSet(LegacyEndpoints(c))
    BY <2>4, <2>6, FS_Subset
  <2>8. QED
    BY <2>5, <2>7, FiniteImage
<1>3. QED
  BY <1>1, <1>2, FS_Union DEF AllEndpointIDs

LEMMA FiniteNodes ==
  ASSUME NEW c, Finite(c)
  PROVE  IsFiniteSet(Ids(Build(c)))
<1>1. /\ IsFiniteSet(ControllerIDs(c)) /\ IsFiniteSet(WorkloadIDs(c))
      /\ IsFiniteSet(ExposureIDs(c)) /\ IsFiniteSet(AllIngressIDs(c))
      /\ IsFiniteSet(ExternalIDs(c)) /\ IsFiniteSet(AllEndpointIDs(c))
  BY FiniteControllers, FiniteWorkloads, FiniteExposures, FiniteIngresses, FiniteExternal,
     FiniteEndpoints
<1>2. IsFiniteSet(NodeIDs(c))
  BY <1>1, FS_Union DEF NodeIDs
<1>3. QED
  BY <1>2, BuildNodesAre DEF Ids

-----------------------------------------------------------------------------
(* What scopeTrafficInputs keeps.                                          *)

KeptServices(c) == {s \in c.services : Key(s) \in TrafficServices(c)}

LEMMA ScopedKeeps ==
  ASSUME NEW c, DOMAIN c = Fields
  PROVE  LET s == Scoped(c)
         IN  /\ s.watch = c.watch /\ s.ingresses = c.ingresses /\ s.classes = c.classes
             /\ s.external = c.external /\ s.services = KeptServices(c)
             /\ s.slices \in SUBSET c.slices /\ s.endpoints \in SUBSET c.endpoints
             /\ s.nodes \in SUBSET c.nodes
             /\ \E K \in SUBSET DOMAIN c.pods :
                  /\ s.pods = [k \in K |-> c.pods[k]]
                  /\ \A k \in DOMAIN c.pods :
                       (\E svc \in KeptServices(c) : c.pods[k] \in PodsOf(svc, c.pods)) => k \in K
<1> DEFINE keys == TrafficServices(c)
           services == {s \in c.services : Key(s) \in keys}
           slices == {s \in c.slices : s.service # None /\ <<s.ns, s.service>> \in keys}
           endpoints == {e \in c.endpoints : Key(e) \in keys}
           refs == References(slices, endpoints)
           named == {<<Or(r[2].ns, r[1]), r[2].name>> : r \in {q \in refs : q[2] # None}}
           addressed == {<<r[1], r[3]>> : r \in refs}
           wanted(p) == \/ \E s \in services : p \in PodsOf(s, c.pods)
                        \/ Key(p) \in named
                        \/ p.ip # None /\ <<p.ns, p.ip>> \in addressed
           K == {k \in DOMAIN c.pods : wanted(c.pods[k])}
           pods == RestrictValues(c.pods, wanted)
           nodes == {node \in c.nodes : \E p \in ToSet(pods) : p.node = node}
<1>1. Scoped(c) = [c EXCEPT !.services = services, !.slices = slices, !.endpoints = endpoints,
                            !.pods = pods, !.nodes = nodes]
  BY DEF Scoped
<1>2. /\ services = KeptServices(c) /\ slices \in SUBSET c.slices
      /\ endpoints \in SUBSET c.endpoints /\ nodes \in SUBSET c.nodes
  BY DEF KeptServices
<1>3. /\ K \in SUBSET DOMAIN c.pods /\ pods = [k \in K |-> c.pods[k]]
      /\ \A k \in DOMAIN c.pods :
           (\E svc \in services : c.pods[k] \in PodsOf(svc, c.pods)) => k \in K
  BY DEF RestrictValues, Restrict
<1> HIDE DEF services, slices, endpoints, pods, nodes, K
<1>4. LET s == Scoped(c)
      IN  /\ s.watch = c.watch /\ s.ingresses = c.ingresses /\ s.classes = c.classes
          /\ s.external = c.external /\ s.services = services
          /\ s.slices = slices /\ s.endpoints = endpoints
          /\ s.nodes = nodes /\ s.pods = pods
  BY <1>1 DEF Fields
<1>5. QED
  BY <1>2, <1>3, <1>4

LEMMA FiniteScoped ==
  ASSUME NEW c, DOMAIN c = Fields, Finite(c)
  PROVE  Finite(Scoped(c))
<1> DEFINE s == Scoped(c)
<1>1. /\ s.ingresses = c.ingresses /\ s.classes = c.classes /\ s.external = c.external
      /\ s.services \in SUBSET c.services /\ s.slices \in SUBSET c.slices
      /\ s.endpoints \in SUBSET c.endpoints /\ s.nodes \in SUBSET c.nodes
      /\ DOMAIN s.pods \in SUBSET DOMAIN c.pods
  <2> HIDE DEF s
  <2>1. KeptServices(c) \in SUBSET c.services
    BY DEF KeptServices
  <2>2. QED
    BY <2>1, ScopedKeeps DEF s
<1> HIDE DEF s
<1>2. /\ IsFiniteSet(s.services) /\ IsFiniteSet(s.slices) /\ IsFiniteSet(s.endpoints)
      /\ IsFiniteSet(s.nodes) /\ IsFiniteSet(DOMAIN s.pods)
  BY <1>1, FS_Subset DEF Finite
<1>3. QED
  BY <1>1, <1>2 DEF Finite, s

LEMMA AddressedScoped ==
  ASSUME NEW c, IsCluster(c)
  PROVE  Addressed(c) /\ Addressed(Scoped(c))
<1> DEFINE s == Scoped(c)
<1>1. DOMAIN c = Fields /\ Addressed(c)
  BY DEF IsCluster
<1>2. s.slices \subseteq c.slices /\ s.endpoints \subseteq c.endpoints
  BY <1>1, ScopedKeeps
<1> HIDE DEF s
<1>3. Addressed(s)
  BY <1>1, <1>2 DEF Addressed
<1>4. QED
  BY <1>1, <1>3 DEF s

-----------------------------------------------------------------------------
(* What a snapshot shows of what was built.                                *)

Drawing(c) == Build(Scoped(c))
Shown(c) == Snapshot(c).graph

\* What is shown of a graph: its visited nodes, with what they showed, and the
\* edges between them.
ShowsOf(g, shown) ==
  /\ DOMAIN shown.nodes = Visited(g)
  /\ \A n \in Visited(g) : n \in DOMAIN g.nodes /\ shown.nodes[n] = g.nodes[n]
  /\ \A e : e \in DOMAIN shown.edges <=>
              e \in DOMAIN g.edges /\ e[1] \in Visited(g) /\ e[2] \in Visited(g)

LEMMA SnapshotShows ==
  ASSUME NEW c, IsCluster(c)
  PROVE  /\ IsFiniteSet(Ids(Drawing(c)))
         /\ ShowsOf(Drawing(c), Shown(c))
<1> DEFINE g == Drawing(c)
<1>1. IsFiniteSet(Ids(g))
  <2>1. DOMAIN c = Fields /\ Finite(c)
    BY DEF IsCluster
  <2>2. QED
    BY <2>1, FiniteScoped, FiniteNodes DEF Drawing
<1>2. Shown(c) = Visible(g)
  BY DEF Shown, Snapshot, Drawing
<1> HIDE DEF g
<1>3. Visited(g) \subseteq DOMAIN g.nodes
  BY <1>1, VisitedIsReachable DEF Ids
<1>4. /\ Visible(g).nodes = [n \in Visited(g) |-> g.nodes[n]]
      /\ Visible(g).edges = [e \in {x \in DOMAIN g.edges : {x[1], x[2]} \subseteq Visited(g)} |->
                               g.edges[e]]
  BY DEF Visible
<1>5. ShowsOf(g, Visible(g))
  BY <1>3, <1>4 DEF ShowsOf
<1>6. QED
  BY <1>1, <1>2, <1>5 DEF g

\* Ingresses, Gateways and routes are where a snapshot starts from.
LEMMA RootsAreShown ==
  ASSUME NEW c, IsCluster(c), NEW n \in DOMAIN Drawing(c).nodes,
         n[1] \in {"Ingress", "Gateway", "Route"}
  PROVE  n \in Visited(Drawing(c))
<1> DEFINE g == Drawing(c)
<1>1. Roots(g) \subseteq Visited(g)
  BY SnapshotShows, VisitedIsReachable
<1>2. g.nodes[n].kind = n[1]
  BY BuildNodesAre DEF Drawing, KindsFit
<1>3. n \in Roots(g)
  BY <1>2 DEF Roots, Ids, Root
<1>4. QED
  BY <1>1, <1>3

LEMMA ForwardKinds ==
  \A node : /\ node.kind = "Route" => KindsOf(Forward, node) = {"routes", "canary"}
            /\ node.kind = "Ingress" => KindsOf(Forward, node) = {"defines", "routes"}
            /\ node.kind = "Gateway" => KindsOf(Forward, node) = {"attaches"}
BY DEF KindsOf, Forward

\* A route is shown with every Service that it leads to.
LEMMA ServicesAreShown ==
  ASSUME NEW c, IsCluster(c), NEW e \in DOMAIN Drawing(c).edges,
         e[1][1] = "Route", e[3] \in {"routes", "canary"}
  PROVE  e \in DOMAIN Shown(c).edges
<1> DEFINE g == Drawing(c)
<1>1. e[1] \in DOMAIN g.nodes /\ e[2] \in DOMAIN g.nodes
  BY EndsAreDrawn, AddressedScoped DEF Drawing
<1>2. e[1] \in Visited(g)
  BY <1>1, RootsAreShown
<1>3. g.nodes[e[1]].kind = "Route"
  BY <1>1, BuildNodesAre DEF Drawing, KindsFit
<1>4. e[2] \in Neighbors(g, e[1])
  BY <1>3, ForwardKinds DEF Neighbors
<1>5. e[2] \in Visited(g)
  BY <1>1, <1>2, <1>4, SnapshotShows, VisitedIsReachable DEF Follows, Ids
<1>6. QED
  BY <1>2, <1>5, SnapshotShows DEF ShowsOf

-----------------------------------------------------------------------------
(* What a route shows: no other node has its ID.                           *)

LEMMA RoutesAmong ==
  ASSUME NEW c, NEW n, n[1] = "Route"
  PROVE  /\ n \notin DOMAIN ControllerNodes(c) /\ n \notin DOMAIN WorkloadNodes(c)
         /\ n \notin DOMAIN ExposureNodes(c) /\ n \notin DOMAIN EndpointNodes(c)
         /\ n \in DOMAIN IngressNodes(c) => \E i, k : n = IngressRouteID(i, k)
         /\ n \in DOMAIN ExternalNodes(c) => \E r : n = RouteID(r)
<1>1. n \notin DOMAIN ControllerNodes(c)
  <2>1. n \notin ClassIDs(c) /\ n \notin AnnotationIDs(c) /\ n \notin StatusIDs(c)
    BY Heads DEF ClassIDs, AnnotationIDs, StatusIDs
  <2>2. QED
    BY <2>1, ControllerNodesAre
<1>2. n \notin DOMAIN WorkloadNodes(c)
  <2>1. /\ n \notin HostIDs(c) /\ n \notin PodIDs(c) /\ n \notin ServiceIDs(c)
        /\ n \notin ExternalNameIDs(c)
    BY Heads DEF HostIDs, PodIDs, ServiceIDs, ExternalNameIDs
  <2>2. QED
    BY <2>1, WorkloadNodesAre
<1>3. n \notin DOMAIN ExposureNodes(c)
  <2>1. n \notin BalancerIDs(c) /\ n \notin NodePortIDs(c)
    BY Heads DEF BalancerIDs, NodePortIDs
  <2>2. QED
    BY <2>1, ExposureNodesAre
<1>4. n \notin DOMAIN EndpointNodes(c)
  <2>1. /\ \A x : SliceEndpointID(x[1], x[3])[1] = "EndpointSlice"
        /\ \A x : EndpointID(x[1], x[2].ip)[1] = "Endpoint"
    BY DEF SliceEndpointID, EndpointID
  <2>2. n \notin SliceEndpointIDs(c) /\ n \notin LegacyEndpointIDs(c)
    BY <2>1 DEF SliceEndpointIDs, LegacyEndpointIDs
  <2>3. QED
    BY <2>2, EndpointNodesAre
<1>5. n \in DOMAIN IngressNodes(c) => \E i, k : n = IngressRouteID(i, k)
  <2>1. n \notin IngressIDs(c) /\ n \notin IngressDnsIDs(c) /\ n \notin IngressAddressIDs(c)
    BY Heads DEF IngressIDs, IngressDnsIDs, IngressAddressIDs
  <2>2. n \in IngressRouteIDs(c) => \E i, k : n = IngressRouteID(i, k)
    BY DEF IngressRouteIDs
  <2>3. QED
    BY <2>1, <2>2, IngressNodesAre
<1>6. n \in DOMAIN ExternalNodes(c) => \E r : n = RouteID(r)
  <2>1. /\ n \notin GatewayClassIDs(c) /\ n \notin GatewayIDs(c)
        /\ n \notin GatewayAddressIDs(c) /\ n \notin F5IDs(c) /\ n \notin ExternalDnsIDs(c)
    BY Heads DEF GatewayClassIDs, GatewayIDs, GatewayAddressIDs, F5IDs, ExternalDnsIDs
  <2>2. n \in RouteIDs(c) => \E r : n = RouteID(r)
    BY DEF RouteIDs
  <2>3. QED
    BY <2>1, <2>2, ExternalNodesAre
<1>7. QED
  BY <1>1, <1>2, <1>3, <1>4, <1>5, <1>6

LEMMA IngressRouteIs ==
  ASSUME NEW c, Listing(c.ingresses), NEW x \in RoutesOf(c)
  PROVE  Build(c).nodes[IngressRouteID(x[1], x[2])]
           = ShowIngressRoute(c, OverlapRoutes(c), x[1], x[2])
<1> DEFINE id == IngressRouteID(x[1], x[2])
           f1 == ControllerNodes(c)
           f2 == WorkloadNodes(c)
           f3 == ExposureNodes(c)
           f4 == IngressNodes(c)
           f5 == ExternalNodes(c)
           f6 == EndpointNodes(c)
           d1 == Drawn(ToSet(c.ingresses), IngressID, ShowIngress)
           d2 == Drawn(RoutesOf(c), LAMBDA y : IngressRouteID(y[1], y[2]),
                       LAMBDA y : ShowIngressRoute(c, OverlapRoutes(c), y[1], y[2]))
           d3 == [n \in IngressDnsIDs(c) |-> Shows("DNS", None, <<>>)]
           d4 == Drawn(IngressAddresses(c), LAMBDA y : AddressID(y[1], "ingress", y[2]),
                       LAMBDA y : ShowAddress("Ingress", y[2]))
<1>1. id[1] = "Route" /\ \A r : id # RouteID(r)
  BY DEF IngressRouteID, RouteID
<1>2. d2[id] = ShowIngressRoute(c, OverlapRoutes(c), x[1], x[2])
  <2>1. \A y \in RoutesOf(c) : IngressRouteID(y[1], y[2]) = id => y = x
    <3> TAKE y \in RoutesOf(c)
    <3> HAVE IngressRouteID(y[1], y[2]) = id
    <3>1. /\ x[1] \in ToSet(c.ingresses) /\ y[1] \in ToSet(c.ingresses)
          /\ x = <<x[1], x[2]>> /\ y = <<y[1], y[2]>>
      BY DEF RoutesOf, PairsOf
    <3>2. Key(x[1]) = Key(y[1]) /\ x[2] = y[2]
      BY DEF IngressRouteID, Key
    <3>3. x[1] = y[1]
      BY <3>1, <3>2 DEF Listing, ToSet
    <3>4. QED
      BY <3>1, <3>2, <3>3
  <2>2. x = CHOOSE y \in RoutesOf(c) : IngressRouteID(y[1], y[2]) = id
    BY <2>1
  <2>3. id \in {IngressRouteID(y[1], y[2]) : y \in RoutesOf(c)}
    OBVIOUS
  <2>4. d2 = [n \in {IngressRouteID(y[1], y[2]) : y \in RoutesOf(c)} |->
                LET o == CHOOSE y \in RoutesOf(c) : IngressRouteID(y[1], y[2]) = n
                IN  ShowIngressRoute(c, OverlapRoutes(c), o[1], o[2])]
    BY DEF Drawn
  <2> HIDE DEF d2, id
  <2>5. QED
    BY <2>2, <2>3, <2>4
<1>3. f4[id] = d2[id]
  <2>1. f4 = Merge(<<d1, d2, d3, d4>>)
    BY DEF IngressNodes, IngressDnsIDs, IngressHosts, IngressAddresses
  <2>2. id \notin DOMAIN d1 /\ id \notin DOMAIN d3 /\ id \notin DOMAIN d4
    BY <1>1, Heads DEF Drawn, IngressDnsIDs
  <2>3. id \in DOMAIN f4
    BY IngressNodesAre DEF IngressRouteIDs
  <2> HIDE DEF id, f4, d1, d2, d3, d4
  <2>4. QED
    BY <2>1, <2>2, <2>3, Merged4
<1>4. Build(c).nodes[id] = f4[id]
  <2>1. Build(c).nodes = Merge(<<f1, f2, f3, f4, f5, f6>>)
    BY DEF Build
  <2>2. /\ id \notin DOMAIN f1 /\ id \notin DOMAIN f2 /\ id \notin DOMAIN f3
        /\ id \notin DOMAIN f5 /\ id \notin DOMAIN f6
    <3> HIDE DEF id
    <3>1. QED
      BY <1>1, RoutesAmong
  <2>3. id \in DOMAIN Build(c).nodes
    BY BuildNodesAre DEF NodeIDs, AllIngressIDs, IngressRouteIDs
  <2> HIDE DEF id, f1, f2, f3, f4, f5, f6
  <2>4. QED
    BY <2>1, <2>2, <2>3, Merged6
<1>5. QED
  BY <1>2, <1>3, <1>4

LEMMA RouteIs ==
  ASSUME NEW c, NEW r \in Routes(c),
         \A p, q \in c.external : p.kind = q.kind /\ Key(p) = Key(q) => p = q
  PROVE  Build(c).nodes[RouteID(r)] = ShowRoute(c, r)
<1> DEFINE id == RouteID(r)
           f1 == ControllerNodes(c)
           f2 == WorkloadNodes(c)
           f3 == ExposureNodes(c)
           f4 == IngressNodes(c)
           f5 == ExternalNodes(c)
           f6 == EndpointNodes(c)
           d1 == Drawn(OfKind(c, {"GatewayClass"}), LAMBDA p : GatewayClassID(p.name),
                       LAMBDA p : ShowController("Configured"))
           d2 == Drawn(Gateways(c), GatewayID, LAMBDA p : Shows("Gateway", p.kind, <<p.class>>))
           d3 == Drawn(Routes(c), RouteID, LAMBDA p : ShowRoute(c, p))
           d4 == Drawn(GatewayAddresses(c), LAMBDA x : AddressID(x[1], "gateway", x[2]),
                       LAMBDA x : ShowAddress("Gateway API", x[2]))
           d5 == Drawn(F5Resources(c), F5ID,
                       LAMBDA p : ShowAddress("F5", IF p.addresses = {} THEN None
                                                    ELSE CHOOSE a \in p.addresses : TRUE))
           d6 == [n \in ExternalDnsIDs(c) |-> Shows("DNS", None, <<>>)]
<1>1. id[1] = "Route" /\ \A i, k : id # IngressRouteID(i, k)
  BY DEF IngressRouteID, RouteID
<1>2. d3[id] = ShowRoute(c, r)
  <2>1. \A p \in Routes(c) : RouteID(p) = id => p = r
    BY DEF RouteID, Key, Routes, OfKind
  <2>2. r = CHOOSE p \in Routes(c) : RouteID(p) = id
    BY <2>1
  <2>3. id \in {RouteID(p) : p \in Routes(c)}
    OBVIOUS
  <2>4. d3 = [n \in {RouteID(p) : p \in Routes(c)} |->
                ShowRoute(c, CHOOSE p \in Routes(c) : RouteID(p) = n)]
    BY DEF Drawn
  <2> HIDE DEF d3, id
  <2>5. QED
    BY <2>2, <2>3, <2>4
<1>3. f5[id] = d3[id]
  <2>1. f5 = Merge(<<d1, d2, d3, d4, d5, d6>>)
    BY DEF ExternalNodes, Gateways, Routes, F5Resources, GatewayAddresses, ExternalDnsIDs,
           ExternalHosts
  <2>2. /\ id \notin DOMAIN d1 /\ id \notin DOMAIN d2 /\ id \notin DOMAIN d4
        /\ id \notin DOMAIN d5 /\ id \notin DOMAIN d6
    BY <1>1, Heads DEF Drawn, ExternalDnsIDs
  <2>3. id \in DOMAIN f5
    <3>1. id \in RouteIDs(c)
      BY DEF RouteIDs
    <3> HIDE DEF id, d1, d2, d3, d4, d5, d6
    <3>2. QED
      BY <3>1, ExternalNodesAre
  <2> HIDE DEF id, f5, d1, d2, d3, d4, d5, d6
  <2>4. QED
    BY <2>1, <2>2, <2>3, Merged6
<1>4. Build(c).nodes[id] = f5[id]
  <2>1. Build(c).nodes = Merge(<<f1, f2, f3, f4, f5, f6>>)
    BY DEF Build
  <2>2. /\ id \notin DOMAIN f1 /\ id \notin DOMAIN f2 /\ id \notin DOMAIN f3
        /\ id \notin DOMAIN f4 /\ id \notin DOMAIN f6
    <3> HIDE DEF id
    <3>1. QED
      BY <1>1, RoutesAmong
  <2>3. id \in DOMAIN Build(c).nodes
    BY BuildNodesAre DEF NodeIDs, ExternalIDs, RouteIDs
  <2> HIDE DEF id, f1, f2, f3, f4, f5, f6
  <2>4. QED
    BY <2>1, <2>2, <2>3, Merged6
<1>5. QED
  BY <1>2, <1>3, <1>4

\* A reference of a route without a reference error was drawn, or leads out of
\* the watch scope.
LEMMA Outcomes ==
  ASSUME NEW c, NEW r, ShowRoute(c, r).status # "Reference error"
  PROVE  /\ \A ref \in r.backends :
              ref \in Routed(c, r) \/ c.watch \notin {None, Refers(r, ref)[1]}
         /\ \A ref \in r.parents :
              ref \in Attached(c, r) \/ c.watch \notin {None, Refers(r, ref)[1]}
<1> DEFINE with(wanted) == {<<"parent", ref>> : ref \in
                              {x \in r.parents : ParentOutcome(c, r, x) = wanted}}
                      \cup {<<"backend", ref>> : ref \in
                              {x \in r.backends : BackendOutcome(c, r, x) = wanted}}
<1>1. ShowRoute(c, r).status = IF with("error") # {} THEN "Reference error" ELSE r.kind
  BY DEF ShowRoute, Shows
<1>2. with("error") = {}
  BY <1>1
<1>3. /\ \A ref \in r.backends : BackendOutcome(c, r, ref) # "error"
      /\ \A ref \in r.parents : ParentOutcome(c, r, ref) # "error"
  BY <1>2
<1>4. ASSUME NEW key, MissingOutcome(c, key) # "error" PROVE c.watch \notin {None, key[1]}
  BY <1>4 DEF MissingOutcome
<1>5. ASSUME NEW ref \in r.backends
      PROVE  ref \in Routed(c, r) \/ c.watch \notin {None, Refers(r, ref)[1]}
  <2> DEFINE key == Refers(r, ref)
  <2>1. CASE ~ref.supported
    BY <1>3, <2>1 DEF BackendOutcome
  <2>2. CASE ref.supported /\ ServicesNamed(c, key) = {}
    <3>1. BackendOutcome(c, r, ref) = MissingOutcome(c, key)
      BY <2>2 DEF BackendOutcome
    <3>2. QED
      BY <1>3, <1>4, <3>1
  <2>3. CASE ref.supported /\ ServicesNamed(c, key) # {}
    <3>1. BackendOutcome(c, r, ref)
            = IF key[1] = r.ns \/ Granted(c, r, key) THEN "edge" ELSE "error"
      BY <2>3 DEF BackendOutcome
    <3>2. QED
      BY <1>3, <3>1 DEF Routed
  <2>4. QED
    BY <2>1, <2>2, <2>3
<1>6. ASSUME NEW ref \in r.parents
      PROVE  ref \in Attached(c, r) \/ c.watch \notin {None, Refers(r, ref)[1]}
  <2> DEFINE key == Refers(r, ref)
  <2>1. CASE ~ref.supported
    BY <1>3, <2>1 DEF ParentOutcome
  <2>2. CASE ref.supported /\ GatewaysNamed(c, key) = {}
    <3>1. ParentOutcome(c, r, ref) = MissingOutcome(c, key)
      BY <2>2 DEF ParentOutcome
    <3>2. QED
      BY <1>3, <1>4, <3>1
  <2>3. CASE ref.supported /\ GatewaysNamed(c, key) # {}
    BY <2>3 DEF ParentOutcome, Attached
  <2>4. QED
    BY <2>1, <2>2, <2>3
<1>7. QED
  BY <1>5, <1>6

\* A reference to a Service of another namespace is drawn only when granted.
LEMMA RoutedIsGranted ==
  ASSUME NEW c, NEW r, NEW ref \in Routed(c, r), Refers(r, ref)[1] # r.ns
  PROVE  Granted(c, r, Refers(r, ref))
<1>1. BackendOutcome(c, r, ref) = "edge"
  BY DEF Routed
<1>2. MissingOutcome(c, Refers(r, ref)) # "edge"
  BY DEF MissingOutcome
<1>3. CASE ~ref.supported
  BY <1>1, <1>3 DEF BackendOutcome
<1>4. CASE ref.supported /\ ServicesNamed(c, Refers(r, ref)) = {}
  BY <1>1, <1>2, <1>4 DEF BackendOutcome
<1>5. CASE ref.supported /\ ServicesNamed(c, Refers(r, ref)) # {}
  <2>1. BackendOutcome(c, r, ref)
          = IF Refers(r, ref)[1] = r.ns \/ Granted(c, r, Refers(r, ref)) THEN "edge" ELSE "error"
    BY <1>5 DEF BackendOutcome
  <2>2. QED
    BY <1>1, <2>1
<1>6. QED
  BY <1>3, <1>4, <1>5

\* The load balancer of a Service is no root: it shows a Service, not F5.
LEMMA BalancerIs ==
  ASSUME NEW c, NEW svc \in Balancers(c)
  PROVE  ~Root(Build(c).nodes[LoadBalancerID(svc)])
<1> DEFINE id == LoadBalancerID(svc)
           f1 == ControllerNodes(c)
           f2 == WorkloadNodes(c)
           f3 == ExposureNodes(c)
           f4 == IngressNodes(c)
           f5 == ExternalNodes(c)
           f6 == EndpointNodes(c)
           d1 == Drawn(Balancers(c), LoadBalancerID, ShowLoadBalancer)
           d2 == Drawn(ExposedPorts(c), LAMBDA x : NodePortID(x[1], x[2]),
                       LAMBDA x : Shows("NodePort", x[1].type, <<x[2]>>))
<1>1. /\ id[1] = "LoadBalancer"
      /\ \A o, owner, a : id # AddressID(o, owner, a)
      /\ \A r : id # F5ID(r)
  BY DEF LoadBalancerID, AddressID, F5ID, ID
<1>2. ~Root(d1[id])
  <2>1. PICK b : d1[id] = ShowLoadBalancer(b)
    BY DEF Drawn
  <2>2. /\ ShowLoadBalancer(b).kind = "LoadBalancer"
        /\ Head(ShowLoadBalancer(b).properties) = "Service"
    BY DEF ShowLoadBalancer, ShowService, Shows
  <2> HIDE DEF d1
  <2>3. QED
    BY <2>1, <2>2 DEF Root
<1>3. f3[id] = d1[id]
  <2>1. f3 = Merge(<<d1, d2>>)
    BY DEF ExposureNodes, ExposedPorts, Balancers
  <2>2. id \notin DOMAIN d2
    BY <1>1, Heads DEF Drawn
  <2>3. id \in DOMAIN f3
    BY ExposureNodesAre DEF BalancerIDs
  <2> HIDE DEF id, f3, d1, d2
  <2>4. QED
    BY <2>1, <2>2, <2>3, Merged2
<1>4. Build(c).nodes[id] = f3[id]
  <2>1. Build(c).nodes = Merge(<<f1, f2, f3, f4, f5, f6>>)
    BY DEF Build
  <2>2. id \in DOMAIN Build(c).nodes
    BY BuildNodesAre DEF NodeIDs, ExposureIDs, BalancerIDs
  <2> HIDE DEF id
  <2>3. id \notin DOMAIN f1
    <3>1. id \notin ControllerIDs(c)
      BY <1>1, ControllerHeads
    <3>2. QED
      BY <3>1, ControllerNodesAre DEF ControllerIDs
  <2>4. id \notin DOMAIN f2
    <3>1. /\ id \notin HostIDs(c) /\ id \notin PodIDs(c) /\ id \notin ServiceIDs(c)
          /\ id \notin ExternalNameIDs(c)
      BY <1>1, Heads DEF HostIDs, PodIDs, ServiceIDs, ExternalNameIDs
    <3>2. QED
      BY <3>1, WorkloadNodesAre
  <2>5. id \notin DOMAIN f4
    <3>1. /\ id \notin IngressIDs(c) /\ id \notin IngressRouteIDs(c) /\ id \notin IngressDnsIDs(c)
          /\ id \notin IngressAddressIDs(c)
      BY <1>1, Heads DEF IngressIDs, IngressRouteIDs, IngressDnsIDs, IngressAddressIDs
    <3>2. QED
      BY <3>1, IngressNodesAre
  <2>6. id \notin DOMAIN f5
    <3>1. /\ id \notin GatewayClassIDs(c) /\ id \notin GatewayIDs(c) /\ id \notin RouteIDs(c)
          /\ id \notin GatewayAddressIDs(c) /\ id \notin F5IDs(c) /\ id \notin ExternalDnsIDs(c)
      BY <1>1, Heads
         DEF GatewayClassIDs, GatewayIDs, RouteIDs, GatewayAddressIDs, F5IDs, ExternalDnsIDs
    <3>2. QED
      BY <3>1, ExternalNodesAre
  <2>7. id \notin DOMAIN f6
    <3>1. /\ \A x : SliceEndpointID(x[1], x[3])[1] = "EndpointSlice"
          /\ \A x : EndpointID(x[1], x[2].ip)[1] = "Endpoint"
      BY DEF SliceEndpointID, EndpointID
    <3>2. id \notin SliceEndpointIDs(c) /\ id \notin LegacyEndpointIDs(c)
      BY <1>1, <3>1 DEF SliceEndpointIDs, LegacyEndpointIDs
    <3>3. QED
      BY <3>2, EndpointNodesAre
  <2> HIDE DEF f1, f2, f3, f4, f5, f6
  <2>8. QED
    BY <2>1, <2>2, <2>3, <2>4, <2>5, <2>6, <2>7, Merged6
<1>5. QED
  BY <1>2, <1>3, <1>4

-----------------------------------------------------------------------------
(* Only what takes part in traffic is reached.  A Service could also be    *)
(* reached from its load balancer or a node port; these are reached only   *)
(* from a controller, and then lead to that and not to the Service.        *)

LEMMA FollowedKinds ==
  \A node :
    /\ "hosts" \notin KindsOf(Forward, node)
    /\ KindsOf(Backward, node) \cap {"externalname", "selects", "endpointslice", "endpoint"} = {}
    /\ "forwards" \in KindsOf(Backward, node) => node.kind = "Controller"
    /\ "balances" \in KindsOf(Backward, node) => node.kind = "Controller"
    /\ "exposes" \in KindsOf(Backward, node) => node.kind = "NodePort"
BY DEF KindsOf, Forward, Backward

\* The edges that are shown of a graph.
Seen(g) == {e \in DOMAIN g.edges : e[1] \in Visited(g) /\ e[2] \in Visited(g)}

ToController(c, svc) == ExposedTarget(c, svc)[1] = "Controller"

Justified(c, n) ==
  /\ n[1] = "Service" =>
       \E e \in Seen(Build(c)) : e[2] = n /\ e[3] \in {"routes", "canary", "balances"}
  /\ n[1] = "Pod" =>
       \E e \in Seen(Build(c)) : e[2] = n /\ e[3] \in {"selects", "endpoint", "endpointslice"}
  /\ n[1] = "Node" => \E e \in Seen(Build(c)) : e[1] = n /\ e[3] = "hosts"
  /\ \A x \in ExposedPorts(c) : n = NodePortID(x[1], x[2]) => ToController(c, x[1])
  /\ \A svc \in Balancers(c) : n = LoadBalancerID(svc) => ToController(c, svc)

\* A step of the traversal keeps this: forward along an edge ...
LEMMA ForwardJustified ==
  ASSUME NEW c, Keyed(c.services), NEW e \in Seen(Build(c)), Justified(c, e[1]),
         e[3] \in KindsOf(Forward, Build(c).nodes[e[1]])
  PROVE  Justified(c, e[2])
<1> DEFINE g == Build(c)
           m == e[2]
<1>1. e \in DOMAIN g.edges
  BY DEF Seen
<1>2. e[3] \in EdgeKinds
  BY <1>1, EdgesByKind
<1>3. e[3] # "hosts"
  BY FollowedKinds
<1>4. m[1] = "Service" => e[3] \in {"routes", "canary", "balances"}
  <2>1. ASSUME e[3] = "forwards" PROVE m[1] # "Service"
    <3>1. PICK x \in ExposedPorts(c) :
            e = <<NodePortID(x[1], x[2]), ExposedTarget(c, x[1]), "forwards">>
      BY <1>1, <2>1, EdgesByKind DEF ForwardsEdge
    <3>2. e[1] = NodePortID(x[1], x[2]) /\ m = ExposedTarget(c, x[1])
      BY <3>1
    <3>3. ToController(c, x[1])
      BY <3>2 DEF Justified
    <3>4. QED
      BY <3>2, <3>3 DEF ToController
  <2> HIDE DEF m
  <2>2. e[2] = m
    BY DEF m
  <2>3. QED
    BY <1>1, <1>2, <2>1, <2>2, EdgeShapes DEF EdgeKinds
<1>5. m[1] = "Pod" => e[3] \in {"selects", "endpoint", "endpointslice"}
  BY <1>1, <1>2, <1>3, EdgeShapes DEF EdgeKinds
<1>6. m[1] # "Node"
  BY <1>1, <1>2, EdgeShapes DEF EdgeKinds
<1>7. ASSUME NEW x \in ExposedPorts(c), m = NodePortID(x[1], x[2]) PROVE ToController(c, x[1])
  <2>1. m[1] = "NodePort"
    BY <1>7, Heads
  <2>2. e[3] = "exposes"
    BY <1>1, <1>2, <2>1, EdgeShapes DEF EdgeKinds
  <2>3. PICK y \in ExposedPorts(c) :
          y[1] \in Balancers(c) /\ e = <<LoadBalancerID(y[1]), NodePortID(y[1], y[2]), "exposes">>
    BY <1>1, <2>2, EdgesByKind DEF ExposesEdge
  <2>4. e[1] = LoadBalancerID(y[1]) /\ m = NodePortID(y[1], y[2])
    BY <2>3
  <2>5. ToController(c, y[1])
    BY <2>3, <2>4 DEF Justified
  <2>6. y[1] = x[1]
    <3>1. y[1] \in c.services /\ x[1] \in c.services
      BY DEF ExposedPorts, PairsOf
    <3>2. Key(y[1]) = Key(x[1])
      BY <1>7, <2>4 DEF NodePortID, Key
    <3>3. QED
      BY <3>1, <3>2 DEF Keyed
  <2>7. QED
    BY <2>5, <2>6
<1>8. ASSUME NEW svc \in Balancers(c), m = LoadBalancerID(svc) PROVE FALSE
  <2>1. m[1] = "LoadBalancer"
    BY <1>8, Heads
  <2>2. e[3] = "resolves"
    BY <1>1, <1>2, <2>1, EdgeShapes DEF EdgeKinds
  <2>3. IngressResolvesEdge(c, e) \/ ExternalResolvesEdge(c, e)
    BY <1>1, <2>2, EdgesByKind
  <2>4. \E r : m \in {IngressID(r), GatewayID(r), RouteID(r), F5ID(r)}
    BY <2>3 DEF IngressResolvesEdge, ExternalResolvesEdge
  <2>5. \A r : m # F5ID(r)
    BY <1>8 DEF LoadBalancerID, F5ID, ID
  <2>6. QED
    BY <2>1, <2>4, <2>5, Heads
<1> HIDE DEF g, m
<1>9. e[2] = m
  BY DEF m
<1>10. QED
  BY <1>4, <1>5, <1>6, <1>7, <1>8, <1>9 DEF Justified

\* ... or back along one.
LEMMA BackwardJustified ==
  ASSUME NEW c, Keyed(c.services), NEW e \in Seen(Build(c)), Justified(c, e[2]),
         e[3] \in KindsOf(Backward, Build(c).nodes[e[2]]), e[2] \in DOMAIN Build(c).nodes
  PROVE  Justified(c, e[1])
<1> DEFINE g == Build(c)
           m == e[1]
<1>1. e \in DOMAIN g.edges
  BY DEF Seen
<1>2. e[3] \in EdgeKinds
  BY <1>1, EdgesByKind
<1>3. e[3] \notin {"externalname", "selects", "endpointslice", "endpoint"}
  BY FollowedKinds
<1>4. g.nodes[e[2]].kind = e[2][1]
  BY BuildNodesAre DEF KindsFit
<1>5. m[1] # "Service" /\ m[1] # "Pod"
  BY <1>1, <1>2, <1>3, EdgeShapes DEF EdgeKinds
<1>6. m[1] = "Node" => e[3] = "hosts"
  BY <1>1, <1>2, EdgeShapes DEF EdgeKinds
<1>7. ASSUME NEW x \in ExposedPorts(c), m = NodePortID(x[1], x[2]) PROVE ToController(c, x[1])
  <2>1. m[1] = "NodePort"
    BY <1>7, Heads
  <2>2. e[3] = "forwards"
    BY <1>1, <1>2, <2>1, EdgeShapes DEF EdgeKinds
  <2>3. PICK y \in ExposedPorts(c) :
          e = <<NodePortID(y[1], y[2]), ExposedTarget(c, y[1]), "forwards">>
    BY <1>1, <2>2, EdgesByKind DEF ForwardsEdge
  <2>4. m = NodePortID(y[1], y[2]) /\ e[2] = ExposedTarget(c, y[1])
    BY <2>3
  <2>5. e[2][1] = "Controller"
    BY <1>4, <2>2, FollowedKinds
  <2>6. y[1] = x[1]
    <3>1. y[1] \in c.services /\ x[1] \in c.services
      BY DEF ExposedPorts, PairsOf
    <3>2. Key(y[1]) = Key(x[1])
      BY <1>7, <2>4 DEF NodePortID, Key
    <3>3. QED
      BY <3>1, <3>2 DEF Keyed
  <2>7. QED
    BY <2>4, <2>5, <2>6 DEF ToController
<1>8. ASSUME NEW svc \in Balancers(c), m = LoadBalancerID(svc) PROVE ToController(c, svc)
  <2>1. m[1] = "LoadBalancer" /\ svc \in c.services
    BY <1>8, Heads DEF Balancers
  <2>2. \A b \in c.services : LoadBalancerID(b) = m => b = svc
    BY <1>8, <2>1 DEF LoadBalancerID, ID, Key, Keyed
  <2>3. e[3] \in {"exposes", "balances", "fronts"}
    BY <1>1, <1>2, <2>1, EdgeShapes DEF EdgeKinds
  <2>4. CASE e[3] = "exposes"
    <3>1. PICK y \in ExposedPorts(c) :
            /\ y[1] \in Balancers(c)
            /\ e = <<LoadBalancerID(y[1]), NodePortID(y[1], y[2]), "exposes">>
      BY <1>1, <2>4, EdgesByKind DEF ExposesEdge
    <3>2. m = LoadBalancerID(y[1]) /\ e[2] = NodePortID(y[1], y[2]) /\ y[1] \in c.services
      BY <3>1 DEF Balancers
    <3>3. ToController(c, y[1])
      BY <3>2 DEF Justified
    <3>4. QED
      BY <2>2, <3>2, <3>3
  <2>5. CASE e[3] = "balances"
    <3>1. ~F5Edge(c, e)
      BY <1>8 DEF F5Edge, F5ID, LoadBalancerID, ID
    <3>2. PICK b \in Balancers(c) : e = <<LoadBalancerID(b), ExposedTarget(c, b), "balances">>
      BY <1>1, <2>5, <3>1, EdgesByKind DEF BalancesEdge
    <3>3. m = LoadBalancerID(b) /\ e[2] = ExposedTarget(c, b) /\ b \in c.services
      BY <3>2 DEF Balancers
    <3>4. e[2][1] = "Controller"
      BY <1>4, <2>5, FollowedKinds
    <3>5. QED
      BY <2>2, <3>3, <3>4 DEF ToController
  <2>6. CASE e[3] = "fronts"
    <3>1. IngressFrontsEdge(c, e) \/ GatewayFrontsEdge(c, e)
      BY <1>1, <2>6, EdgesByKind
    <3>2. \E o, owner, a : m = AddressID(o, owner, a)
      BY <3>1 DEF IngressFrontsEdge, GatewayFrontsEdge
    <3>3. QED
      BY <1>8, <3>2 DEF AddressID, LoadBalancerID, ID
  <2>7. QED
    BY <2>3, <2>4, <2>5, <2>6
<1> HIDE DEF g, m
<1>9. e[1] = m
  BY DEF m
<1>10. QED
  BY <1>5, <1>6, <1>7, <1>8, <1>9 DEF Justified

LEMMA AllJustified ==
  ASSUME NEW c, Finite(c), Keyed(c.services)
  PROVE  \A n \in Visited(Build(c)) : Justified(c, n)
<1> DEFINE g == Build(c)
           V == Visited(g)
           S == {n \in V : Justified(c, n)}
<1>1. IsFiniteSet(Ids(g))
  BY FiniteNodes
<1> HIDE DEF g
<1>2. /\ V \subseteq Ids(g) /\ Roots(g) \subseteq V
      /\ \A n \in V : \A m : Follows(g, n, m) => m \in V
      /\ \A T : /\ Roots(g) \subseteq T
                /\ \A n \in T \cap V : \A m : Follows(g, n, m) => m \in T
                => V \subseteq T
  BY <1>1, VisitedIsReachable
<1>3. ASSUME NEW n \in Roots(g) PROVE n \in S
  <2>1. n \in V /\ Root(g.nodes[n])
    BY <1>2 DEF Roots
  <2>2. g.nodes[n].kind = n[1]
    BY BuildNodesAre DEF KindsFit, Roots, Ids, g
  <2>3. n[1] \in {"Ingress", "Gateway", "Route", "LoadBalancer"}
    BY <2>1, <2>2 DEF Root
  <2>4. \A x : n # NodePortID(x[1], x[2])
    BY <2>3, Heads
  <2>5. \A svc \in Balancers(c) : n # LoadBalancerID(svc)
    BY <2>1, BalancerIs DEF g
  <2>6. Justified(c, n)
    BY <2>3, <2>4, <2>5 DEF Justified
  <2>7. QED
    BY <2>1, <2>6
<1>4. ASSUME NEW n \in S, NEW m, Follows(g, n, m) PROVE m \in S
  <2>1. m \in V
    BY <1>2, <1>4
  <2>2. m \in Neighbors(g, n)
    BY <1>4 DEF Follows
  <2>3. \/ \E e \in DOMAIN g.edges : e[1] = n /\ e[2] = m /\ e[3] \in KindsOf(Forward, g.nodes[n])
        \/ \E e \in DOMAIN g.edges : e[2] = n /\ e[1] = m /\ e[3] \in KindsOf(Backward, g.nodes[n])
    BY <2>2 DEF Neighbors
  <2>4. ASSUME NEW e \in DOMAIN g.edges, e[1] = n, e[2] = m, e[3] \in KindsOf(Forward, g.nodes[n])
        PROVE  Justified(c, m)
    <3>1. e \in Seen(g)
      BY <2>1, <2>4 DEF Seen
    <3>2. QED
      BY <2>4, <3>1, ForwardJustified DEF g
  <2>5. ASSUME NEW e \in DOMAIN g.edges, e[2] = n, e[1] = m, e[3] \in KindsOf(Backward, g.nodes[n])
        PROVE  Justified(c, m)
    <3>1. e \in Seen(g) /\ n \in Ids(g)
      BY <1>2, <2>1, <2>5 DEF Seen
    <3>2. QED
      BY <2>5, <3>1, BackwardJustified DEF g, Ids
  <2>6. QED
    BY <2>1, <2>3, <2>4, <2>5
<1>5. V \subseteq S
  <2>1. Roots(g) \subseteq S /\ \A n \in S \cap V : \A m : Follows(g, n, m) => m \in S
    BY <1>3, <1>4
  <2> HIDE DEF S, V
  <2>2. QED
    BY <1>2, <2>1
<1>6. QED
  BY <1>5 DEF g

-----------------------------------------------------------------------------
(* The routes that can overlap.                                            *)

\* A route is known by its Ingress and its place there.
LEMMA Contenders ==
  ASSUME NEW c, NEW r \in OverlapRoutes(c)
  PROVE  /\ r.ingress \in ToSet(c.ingresses) /\ r.k \in DOMAIN r.ingress.routes
         /\ <<r.ingress, r.k>> \in RoutesOf(c)
         /\ r.controller = IngressController(c, r.ingress) /\ r.controller # None
         /\ r.service = r.ingress.routes[r.k].service
         /\ r = Contender(r.ingress, r.controller, r.k)
         /\ \A q \in OverlapRoutes(c) : q.ingress = r.ingress /\ q.k = r.k => q = r
<1>1. ASSUME NEW q \in OverlapRoutes(c)
      PROVE  /\ q.ingress \in ToSet(c.ingresses) /\ q.k \in DOMAIN q.ingress.routes
             /\ q.controller = IngressController(c, q.ingress) /\ q.controller # None
             /\ q.service = q.ingress.routes[q.k].service
             /\ q = Contender(q.ingress, q.controller, q.k)
  <2>1. PICK i \in ToSet(c.ingresses) : \E k \in Contending(i) :
               /\ IngressController(c, i) # None
               /\ q = Contender(i, IngressController(c, i), k)
    BY OverlapRoutesAre
  <2>2. PICK k \in Contending(i) : /\ IngressController(c, i) # None
                                   /\ q = Contender(i, IngressController(c, i), k)
    BY <2>1
  <2>3. /\ q.ingress = i /\ q.k = k /\ q.controller = IngressController(c, i)
        /\ q.service = i.routes[k].service
    BY <2>2 DEF Contender
  <2>4. k \in DOMAIN i.routes
    BY DEF Contending
  <2>5. QED
    BY <2>2, <2>3, <2>4
<1>2. <<r.ingress, r.k>> \in RoutesOf(c)
  BY <1>1 DEF RoutesOf, PairsOf
<1>3. QED
  BY <1>1, <1>2

\* What collectRouteOverlaps finds out about such a route.
LEMMA OverlapIs ==
  ASSUME NEW c, NEW r \in OverlapRoutes(c)
  PROVE  LET routes == OverlapRoutes(c)
             o == Overlap(routes, r.ingress, r.k)
             primaries == {q \in Others(r, routes) : ~Canary(q)}
         IN  /\ o.canary = Canary(r) /\ o.primaries = primaries
             /\ o.canaries = Others(r, routes) \ primaries
             /\ o.shared = IF Canary(r) THEN SharedCanaries(r, routes) ELSE {}
             /\ o.links = IF Canary(r) THEN {} ELSE Links(r, routes)
<1> DEFINE routes == OverlapRoutes(c)
           mine == {q \in routes : q.ingress = r.ingress /\ q.k = r.k}
<1>1. mine = {r}
  BY Contenders
<1>2. (CHOOSE q \in mine : TRUE) = r
  BY <1>1
<1> HIDE DEF routes
<1>3. QED
  BY <1>1, <1>2 DEF Overlap, routes

LEMMA ConflictShows ==
  ASSUME NEW d, NEW overlap, ~overlap.canary, overlap.primaries # {}
  PROVE  ApplyOverlap(d, overlap).severity \notin Healthy
<1>1. CASE d.severity \notin {"ok", "info"}
  BY <1>1 DEF ApplyOverlap, Healthy
<1>2. CASE d.severity \in {"ok", "info"}
  <2>1. ApplyOverlap(d, overlap) = Diagnosis("conflict", "warning")
    BY <1>2 DEF ApplyOverlap
  <2>2. QED
    BY <2>1 DEF Diagnosis, Healthy
<1>3. QED
  BY <1>1, <1>2

LEMMA WorkingShows ==
  ASSUME NEW d, NEW overlap, ApplyOverlap(d, overlap).severity = "ok"
  PROVE  d.severity = "ok" /\ (overlap.canary => overlap.primaries # {})
<1>1. \A finding : Diagnosis(finding, "warning").severity # "ok"
  BY DEF Diagnosis
<1>2. CASE d.severity \notin {"ok", "info"}
  BY <1>2 DEF ApplyOverlap
<1>3. CASE d.severity \in {"ok", "info"}
  <2>1. ~(overlap.canary /\ overlap.primaries = {})
    BY <1>1, <1>3 DEF ApplyOverlap
  <2>2. d.severity = "ok"
    BY <1>1, <1>3, <2>1 DEF ApplyOverlap
  <2>3. QED
    BY <2>1, <2>2
<1>4. QED
  BY <1>2, <1>3

LEMMA WorkingIsServed ==
  ASSUME NEW c, NEW i, NEW k, Diagnose(c, i, k).severity = "ok"
  PROVE  i.routes[k].service # None /\ ServicesNamed(c, ServiceKey(i, k)) # {}
<1>1. Diagnosis("backend is not a Service", "error").severity # "ok"
  BY DEF Diagnosis
<1>2. Diagnosis("no such Service", "error").severity # "ok"
  BY DEF Diagnosis
<1>3. CASE i.routes[k].service = None
  BY <1>1, <1>3 DEF Diagnose
<1>4. CASE i.routes[k].service # None /\ ServicesNamed(c, ServiceKey(i, k)) = {}
  BY <1>2, <1>4 DEF Diagnose
<1>5. QED
  BY <1>3, <1>4

LEMMA Least ==
  ASSUME NEW T, T \subseteq Nat, T # {}
  PROVE  \E m \in T : \A n \in T : m <= n
<1> DEFINE R == OpToRel(<, Nat)
<1>1. PICK m \in T : \A n \in T : ~(<<n, m>> \in R)
  BY NatLessThanWellFounded, WFMin
<1>2. \A n \in T : ~(n < m)
  BY <1>1 DEF OpToRel
<1>3. \A n \in T : n \in Nat
  OBVIOUS
<1>4. QED
  BY <1>2, <1>3

\* oldestOverlapRoute finds one among any.
LEMMA OldestExists ==
  ASSUME NEW S, S # {}, \A q \in S : q.ingress.created \in Nat /\ q.ingress.rank \in Nat
  PROVE  Oldest(S) # {}
<1> DEFINE times == {q.ingress.created : q \in S}
<1>1. PICK t \in times : \A u \in times : t <= u
  <2>1. times \subseteq Nat /\ times # {}
    OBVIOUS
  <2>2. QED
    BY <2>1, Least
<1> DEFINE first == {q \in S : q.ingress.created = t}
           ranks == {q.ingress.rank : q \in first}
<1>2. PICK n \in ranks : \A m \in ranks : n <= m
  <2>1. ranks \subseteq Nat /\ ranks # {}
    BY <1>1
  <2>2. QED
    BY <2>1, Least
<1>3. PICK r \in first : r.ingress.rank = n
  BY <1>2
<1>4. ASSUME NEW q \in S PROVE Older(r, q)
  <2>1. /\ q.ingress.created \in Nat /\ r.ingress.created \in Nat
        /\ q.ingress.rank \in Nat /\ r.ingress.rank \in Nat
    OBVIOUS
  <2>2. r.ingress.created <= q.ingress.created
    BY <1>1
  <2>3. r.ingress.created = q.ingress.created => r.ingress.rank <= q.ingress.rank
    BY <1>2, <1>3
  <2>4. QED
    BY <2>1, <2>2, <2>3 DEF Older
<1>5. r \in Oldest(S)
  BY <1>4 DEF Oldest
<1>6. QED
  BY <1>5

-----------------------------------------------------------------------------
(* The inductive invariant: the caches hold a cluster, and what was        *)
(* published last was built from the same objects in some order.           *)

SameObjects(d, c) ==
  /\ d.watch = c.watch /\ d.classes = c.classes /\ d.services = c.services
  /\ d.nodes = c.nodes /\ d.slices = c.slices /\ d.endpoints = c.endpoints
  /\ d.external = c.external
  /\ ToSet(d.ingresses) = ToSet(c.ingresses)
  /\ ToSet(d.pods) = ToSet(c.pods) /\ Len(d.pods) = Len(c.pods)

Relisted(c, ingresses, pods) == [c EXCEPT !.ingresses = ingresses, !.pods = pods]

Published(c, snapshot) ==
  \E ingresses \in SetToSeqs(ToSet(c.ingresses)), pods \in SetToSeqs(ToSet(c.pods)) :
    snapshot = Snapshot(Relisted(c, ingresses, pods))

IInv == IsCluster(cluster) /\ (Built => Published(cluster, latest))

LEMMA OrderOf ==
  ASSUME NEW s, Listing(s)
  PROVE  /\ s \in SetToSeqs(ToSet(s))
         /\ DOMAIN s = 1 .. Len(s) /\ Len(s) \in Nat
         /\ IsFiniteSet(ToSet(s)) /\ Cardinality(ToSet(s)) = Len(s)
<1> DEFINE S == ToSet(s)
           n == Len(s)
<1>1. n \in Nat /\ s \in [1 .. n -> S] /\ DOMAIN s = 1 .. n
  BY LenProperties DEF Listing
<1>2. \A i, j \in 1 .. n : s[i] = s[j] => i = j
  BY <1>1 DEF Listing
<1>3. \A x \in S : \E i \in 1 .. n : s[i] = x
  BY <1>1 DEF ToSet
<1> HIDE DEF S, n
<1>4. s \in Bijection(1 .. n, S)
  BY <1>1, <1>2, <1>3 DEF Bijection, Injection, Surjection, IsInjective
<1>5. ExistsBijection(1 .. n, S)
  BY <1>4 DEF ExistsBijection
<1>6. Cardinality(S) = n
  BY <1>1, <1>5, FS_CountingElements
<1>7. IsFiniteSet(S)
  BY <1>1, <1>5, FS_Bijection, FS_Interval
<1>8. s \in SetToSeqs(S)
  BY <1>1, <1>2, <1>6 DEF SetToSeqs
<1>9. QED
  BY <1>1, <1>6, <1>7, <1>8 DEF S, n

LEMMA AnyOrder ==
  ASSUME NEW s, Listing(s), NEW t \in SetToSeqs(ToSet(s))
  PROVE  Listing(t) /\ ToSet(t) = ToSet(s) /\ Len(t) = Len(s)
<1> DEFINE S == ToSet(s)
           n == Len(s)
<1>1. n \in Nat /\ IsFiniteSet(S) /\ Cardinality(S) = n /\ DOMAIN s = 1 .. n
  BY OrderOf
<1>2. t \in [1 .. n -> S] /\ \A i, j \in 1 .. n : i # j => t[i] # t[j]
  BY <1>1 DEF SetToSeqs
<1>3. \A i, j \in 1 .. n : Key(s[i]) = Key(s[j]) => s[i] = s[j]
  BY <1>1 DEF Listing
<1>4. \A x, y \in S : Key(x) = Key(y) => x = y
  BY <1>1, <1>3 DEF ToSet
<1> HIDE DEF S, n
<1>5. t \in Injection(1 .. n, S)
  BY <1>2 DEF Injection, IsInjective
<1>6. IsFiniteSet(1 .. n) /\ Cardinality(1 .. n) = n
  BY <1>1, FS_Interval
<1>7. t \in Surjection(1 .. n, S)
  BY <1>1, <1>5, <1>6, FS_Injection
<1>8. ToSet(t) = S
  BY <1>2, <1>7 DEF Surjection, ToSet
<1>9. t \in Seq(S)
  BY <1>1, <1>2, SeqDef
<1>10. Len(t) = n
  BY <1>1, <1>2, <1>9, LenProperties
<1>11. \A i, j \in 1 .. n : Key(t[i]) = Key(t[j]) => i = j
  BY <1>2, <1>4
<1>12. Listing(t)
  BY <1>2, <1>8, <1>9, <1>11 DEF Listing
<1>13. QED
  BY <1>8, <1>10, <1>12 DEF S, n

LEMMA RelistedIs ==
  ASSUME NEW c, IsCluster(c), NEW ingresses \in SetToSeqs(ToSet(c.ingresses)),
         NEW pods \in SetToSeqs(ToSet(c.pods))
  PROVE  IsCluster(Relisted(c, ingresses, pods)) /\ SameObjects(Relisted(c, ingresses, pods), c)
<1> DEFINE d == Relisted(c, ingresses, pods)
<1>1. /\ d = [field \in Fields |-> d[field]]
      /\ d.watch = c.watch /\ d.classes = c.classes /\ d.services = c.services
      /\ d.nodes = c.nodes /\ d.slices = c.slices /\ d.endpoints = c.endpoints
      /\ d.external = c.external
      /\ d.ingresses = ingresses /\ d.pods = pods
  <2>1. DOMAIN c = Fields
    BY DEF IsCluster
  <2>2. d = [field \in Fields |-> d[field]]
    BY <2>1 DEF Relisted
  <2>3. QED
    BY <2>1, <2>2 DEF Relisted, Fields
<1> HIDE DEF d
<1>2. /\ Listing(ingresses) /\ ToSet(ingresses) = ToSet(c.ingresses)
      /\ Listing(pods) /\ ToSet(pods) = ToSet(c.pods) /\ Len(pods) = Len(c.pods)
  BY AnyOrder DEF IsCluster
<1>3. IsFiniteSet(DOMAIN ingresses) /\ IsFiniteSet(DOMAIN pods)
  <2>1. /\ DOMAIN ingresses = 1 .. Len(ingresses) /\ Len(ingresses) \in Nat
        /\ DOMAIN pods = 1 .. Len(pods) /\ Len(pods) \in Nat
    BY <1>2, OrderOf
  <2>2. IsFiniteSet(1 .. Len(ingresses)) /\ IsFiniteSet(1 .. Len(pods))
    BY <2>1, FS_Interval
  <2>3. QED
    BY <2>1, <2>2
<1>4. Finite(d)
  BY <1>1, <1>2, <1>3 DEF IsCluster, Finite
<1>5. IsCluster(d)
  <2>1. Addressed(d)
    BY <1>1 DEF IsCluster, Addressed
  <2>2. QED
    BY <1>1, <1>2, <1>4, <2>1 DEF IsCluster
<1>6. QED
  BY <1>1, <1>2, <1>5 DEF SameObjects, d

\* In every state of the program the caches hold a cluster as the informers
\* list it, and the latest snapshot was built from the same objects in some
\* order: what Rebuild published, Relist does not outdate.
THEOREM Inductive == Spec => []IInv
<1>1. Init => IInv
  BY ClustersAssumption DEF Init, IInv, Built
<1>2. IInv /\ [Next]_vars => IInv'
  <2> SUFFICES ASSUME IInv, [Next]_vars PROVE IInv'
    OBVIOUS
  <2>1. CASE Relist
    <3>1. PICK ingresses \in SetToSeqs(ToSet(cluster.ingresses)),
               pods \in SetToSeqs(ToSet(cluster.pods)) :
            cluster' = Relisted(cluster, ingresses, pods)
      BY <2>1 DEF Relist, Relisted
    <3>2. IsCluster(cluster') /\ SameObjects(cluster', cluster)
      BY <3>1, RelistedIs DEF IInv
    <3>3. ASSUME NEW i \in SetToSeqs(ToSet(cluster.ingresses)),
                 NEW p \in SetToSeqs(ToSet(cluster.pods))
          PROVE  Relisted(cluster, i, p) = Relisted(cluster', i, p)
      BY <3>1 DEF Relisted, IInv, IsCluster, Fields
    <3>4. Published(cluster, latest) => Published(cluster', latest)
      BY <3>2, <3>3 DEF Published, SameObjects
    <3>5. QED
      BY <2>1, <3>2, <3>4 DEF IInv, Built, Relist
  <2>2. CASE Rebuild
    <3>1. cluster' = cluster /\ latest' = Snapshot(cluster)
      BY <2>2 DEF Rebuild
    <3>2. /\ cluster.ingresses \in SetToSeqs(ToSet(cluster.ingresses))
          /\ cluster.pods \in SetToSeqs(ToSet(cluster.pods))
      BY OrderOf DEF IInv, IsCluster
    <3>3. Relisted(cluster, cluster.ingresses, cluster.pods) = cluster
      <4>1. cluster = [field \in Fields |-> cluster[field]]
        BY DEF IInv, IsCluster
      <4>2. QED
        BY <4>1 DEF Relisted, Fields
    <3>4. Published(cluster, Snapshot(cluster))
      BY <3>2, <3>3 DEF Published
    <3>5. QED
      BY <3>1, <3>4 DEF IInv
  <2>3. CASE UNCHANGED vars
    BY <2>3 DEF vars, IInv, Built, Published
  <2>4. QED
    BY <2>1, <2>2, <2>3 DEF Next
<1>3. QED
  BY <1>1, <1>2, PTL DEF Spec

\* So every snapshot is that of a cluster with the same objects.
LEMMA BuiltFrom ==
  ASSUME IInv, Built
  PROVE  \E d : IsCluster(d) /\ SameObjects(d, cluster) /\ latest = Snapshot(d)
<1>1. PICK ingresses \in SetToSeqs(ToSet(cluster.ingresses)),
           pods \in SetToSeqs(ToSet(cluster.pods)) :
        latest = Snapshot(Relisted(cluster, ingresses, pods))
  BY DEF IInv, Published
<1>2. QED
  BY <1>1, RelistedIs DEF IInv

\* What the proofs below use of a snapshot: the inputs s that it was built from
\* hold what the caches hold, but for objects that traffic does not reach.
Inputs(s) ==
  /\ Addressed(s)
  /\ s.watch = cluster.watch /\ s.classes = cluster.classes /\ s.external = cluster.external
  /\ Listing(s.ingresses) /\ ToSet(s.ingresses) = ToSet(cluster.ingresses)
  /\ s.services = KeptServices(cluster)
  /\ \A svc \in s.services : PodsOf(svc, s.pods) = PodsOf(svc, cluster.pods)

\* And what the snapshot shows of the build.
Displays(g) ==
  /\ ShowsOf(g, graph)
  /\ \A n \in DOMAIN g.nodes : n[1] \in {"Ingress", "Gateway", "Route"} => n \in Visited(g)
  /\ \A e \in DOMAIN g.edges :
       e[1][1] = "Route" /\ e[3] \in {"routes", "canary"} => e \in DOMAIN graph.edges

LEMMA Reading ==
  ASSUME IInv, Built
  PROVE  \E s : Inputs(s) /\ Finite(s) /\ Displays(Build(s))
<1>1. PICK d : IsCluster(d) /\ SameObjects(d, cluster) /\ latest = Snapshot(d)
  BY BuiltFrom
<1> DEFINE s == Scoped(d)
           g == Drawing(d)
<1>2. DOMAIN d = Fields /\ Finite(d)
  BY <1>1 DEF IsCluster
<1>3. Displays(Build(s))
  <2>1. graph = Shown(d)
    BY <1>1 DEF graph, Shown
  <2>2. ShowsOf(g, graph)
    BY <1>1, <2>1, SnapshotShows
  <2>3. \A n \in DOMAIN g.nodes : n[1] \in {"Ingress", "Gateway", "Route"} => n \in Visited(g)
    BY <1>1, RootsAreShown
  <2>4. \A e \in DOMAIN g.edges :
          e[1][1] = "Route" /\ e[3] \in {"routes", "canary"} => e \in DOMAIN graph.edges
    BY <1>1, <2>1, ServicesAreShown
  <2>5. g = Build(s)
    BY DEF Drawing
  <2> HIDE DEF g, s
  <2>6. QED
    BY <2>2, <2>3, <2>4, <2>5 DEF Displays
<1>4. Addressed(s)
  BY <1>1, AddressedScoped
<1>5. Inputs(s)
  <2>1. /\ s.watch = d.watch /\ s.ingresses = d.ingresses /\ s.classes = d.classes
        /\ s.external = d.external /\ s.services = KeptServices(d)
    BY <1>2, ScopedKeeps
  <2>2. PICK K \in SUBSET DOMAIN d.pods :
          /\ s.pods = [k \in K |-> d.pods[k]]
          /\ \A k \in DOMAIN d.pods :
               (\E svc \in KeptServices(d) : d.pods[k] \in PodsOf(svc, d.pods)) => k \in K
    BY <1>2, ScopedKeeps
  <2> HIDE DEF s
  <2>3. KeptServices(d) = KeptServices(cluster)
    <3>1. RoutesOf(d) = RoutesOf(cluster)
      BY <1>1 DEF RoutesOf, SameObjects
    <3>2. TrafficServices(d) = TrafficServices(cluster)
      BY <1>1, <3>1 DEF TrafficServices, SameObjects
    <3>3. QED
      BY <1>1, <3>2 DEF KeptServices, SameObjects
  <2>4. ASSUME NEW svc \in s.services
        PROVE  PodsOf(svc, s.pods) = PodsOf(svc, cluster.pods)
    <3>1. PodsOf(svc, d.pods) = PodsOf(svc, cluster.pods)
      BY <1>1 DEF PodsOf, SameObjects
    <3>2. PodsOf(svc, s.pods) \subseteq PodsOf(svc, d.pods)
      <4>1. ToSet(s.pods) \subseteq ToSet(d.pods)
        BY <2>2 DEF ToSet
      <4>2. QED
        BY <4>1 DEF PodsOf
    <3>3. ASSUME NEW p \in PodsOf(svc, d.pods) PROVE p \in PodsOf(svc, s.pods)
      <4>1. PICK k \in DOMAIN d.pods : p = d.pods[k]
        BY DEF PodsOf, ToSet
      <4>2. k \in K
        BY <2>1, <2>2, <4>1
      <4>3. p \in ToSet(s.pods)
        BY <2>2, <4>1, <4>2 DEF ToSet
      <4>4. QED
        BY <4>3 DEF PodsOf
    <3>4. QED
      BY <3>1, <3>2, <3>3
  <2>5. QED
    BY <1>1, <1>4, <2>1, <2>3, <2>4 DEF Inputs, SameObjects, IsCluster
<1>6. Finite(s)
  BY <1>2, FiniteScoped
<1>7. QED
  BY <1>3, <1>5, <1>6

LEMMA InputsKeepExposures ==
  ASSUME NEW s, Inputs(s)
  PROVE  SameExposures(s, cluster) /\ OverlapRoutes(s) = OverlapRoutes(cluster)
<1>1. \A svc \in cluster.services : Exposed(svc) => svc \in KeptServices(cluster)
  BY DEF KeptServices, TrafficServices
<1>2. KeptServices(cluster) \subseteq cluster.services
  BY DEF KeptServices
<1>3. SameExposures(s, cluster)
  BY <1>1, <1>2 DEF Inputs, SameExposures
<1>4. QED
  BY <1>3, SameOverlaps

\* The status of a route that can overlap: diagnoseIngressRoute on the inputs,
\* then applyRouteOverlap.
LEMMA ContenderStatus ==
  ASSUME NEW s, Inputs(s), Displays(Build(s)), NEW r \in OverlapRoutes(cluster)
  PROVE  Status(IngressRouteID(r.ingress, r.k))
           = ApplyOverlap(Diagnose(s, r.ingress, r.k),
                          Overlap(OverlapRoutes(cluster), r.ingress, r.k)).severity
<1> DEFINE id == IngressRouteID(r.ingress, r.k)
           x == <<r.ingress, r.k>>
           g == Build(s)
<1>1. OverlapRoutes(s) = OverlapRoutes(cluster)
  BY InputsKeepExposures
<1>2. x \in RoutesOf(s)
  BY <1>1, Contenders
<1>3. x[1] = r.ingress /\ x[2] = r.k
  OBVIOUS
<1> HIDE DEF x
<1>4. g.nodes[id] = ShowIngressRoute(s, OverlapRoutes(s), r.ingress, r.k)
  BY <1>2, <1>3, IngressRouteIs DEF Inputs
<1>5. id \in DOMAIN g.nodes /\ id[1] = "Route"
  <2>1. id \in IngressRouteIDs(s)
    BY <1>2, <1>3 DEF IngressRouteIDs
  <2>2. QED
    BY <2>1, BuildNodesAre, Heads DEF NodeIDs, AllIngressIDs
<1> HIDE DEF g, id
<1>6. graph.nodes[id] = g.nodes[id]
  BY <1>5 DEF Displays, ShowsOf, g
<1>7. Status(id) = RouteDiagnosisOf(s, OverlapRoutes(s), r.ingress, r.k).severity
  BY <1>4, <1>6 DEF Status, ShowIngressRoute, Shows
<1>8. QED
  BY <1>1, <1>7 DEF RouteDiagnosisOf, id

\* The canaries that a snapshot draws at a route are those of its backend whose
\* Service exists.
SplitBy(s, links, n) ==
  \E l \in links : /\ ServicesNamed(s, <<l.canary.ingress.ns, l.canary.service>>) # {}
                   /\ n = CanaryID(l)

LEMMA CanariesShown ==
  ASSUME NEW s, Inputs(s), Displays(Build(s)),
         NEW r \in OverlapRoutes(cluster), ~Canary(r), NEW n
  PROVE  n \in CanaryTargets(r) <=> SplitBy(s, Links(r, OverlapRoutes(cluster)), n)
<1> DEFINE x == <<r.ingress, r.k>>
           id == IngressRouteID(r.ingress, r.k)
           routes == OverlapRoutes(cluster)
<1>1. OverlapRoutes(s) = routes
  BY InputsKeepExposures
<1>2. x \in RoutesOf(s) /\ x[1] = r.ingress /\ x[2] = r.k
  BY <1>1, Contenders
<1>3. \A l : l \in ServedLinks(s, x) <=>
               /\ l \in Links(r, routes)
               /\ ServicesNamed(s, <<l.canary.ingress.ns, l.canary.service>>) # {}
  <2>1. Overlap(OverlapRoutes(s), r.ingress, r.k).links = Links(r, routes)
    BY <1>1, OverlapIs
  <2> HIDE DEF x, routes
  <2>2. QED
    BY <1>2, <2>1 DEF ServedLinks
<1> HIDE DEF x, routes
<1>4. ASSUME NEW l \in ServedLinks(s, x) PROVE CanaryID(l) \in CanaryTargets(r)
  <2> DEFINE e == <<id, CanaryID(l), "canary">>
  <2>1. <<x, l>> \in CanaryLinks(s)
    BY <1>2 DEF CanaryLinks, PairsOf
  <2>2. CanaryEdge(s, e)
    BY <1>2, <2>1 DEF CanaryEdge
  <2>3. e[1] = id /\ e[1][1] = "Route" /\ e[2] = CanaryID(l) /\ e[3] = "canary"
    BY Heads
  <2> HIDE DEF e, id
  <2>4. e \in DOMAIN Build(s).edges
    BY <2>2, IngressEdgesAre, BuildEdgesAre
  <2>5. e \in DOMAIN graph.edges
    BY <2>3, <2>4 DEF Displays
  <2>6. QED
    BY <2>3, <2>5 DEF CanaryTargets, id
<1>5. ASSUME n \in CanaryTargets(r) PROVE \E l \in ServedLinks(s, x) : n = CanaryID(l)
  <2>1. PICK e \in DOMAIN graph.edges : e[1] = id /\ e[2] = n /\ e[3] = "canary"
    BY <1>5 DEF CanaryTargets
  <2>2. CanaryEdge(s, e)
    <3>1. e \in DOMAIN Build(s).edges
      BY DEF Displays, ShowsOf
    <3>2. QED
      BY <2>1, <3>1, EdgesByKind
  <2>3. PICK y \in CanaryLinks(s) :
          e = <<IngressRouteID(y[1][1], y[1][2]), CanaryID(y[2]), "canary">>
    BY <2>2 DEF CanaryEdge
  <2>4. y[1] \in RoutesOf(s) /\ y[2] \in ServedLinks(s, y[1])
    BY DEF CanaryLinks, PairsOf
  <2>5. IngressRouteID(y[1][1], y[1][2]) = id /\ n = CanaryID(y[2])
    BY <2>1, <2>3
  <2>6. y[1] = x
    <3> DEFINE z == y[1]
    <3>1. /\ z[1] \in ToSet(s.ingresses) /\ z = <<z[1], z[2]>>
          /\ x[1] \in ToSet(s.ingresses) /\ x = <<x[1], x[2]>>
      BY <1>2, <2>4 DEF RoutesOf, PairsOf
    <3>2. Key(z[1]) = Key(x[1]) /\ z[2] = x[2]
      BY <1>2, <2>5 DEF IngressRouteID, Key
    <3>3. z[1] = x[1]
      BY <3>1, <3>2 DEF Inputs, Listing, ToSet
    <3>4. QED
      BY <3>1, <3>2, <3>3
  <2>7. QED
    BY <2>4, <2>5, <2>6
<1>6. QED
  BY <1>3, <1>4, <1>5 DEF routes, SplitBy

-----------------------------------------------------------------------------
(* What a snapshot is built from may leave out what traffic does not       *)
(* reach: the build is a part of the whole cluster's, with all its roots   *)
(* and each edge that leads on from what it draws.                         *)

LEMMA Unlisted ==
  ASSUME NEW s, NEW n \in NodeIDs(s)
  PROVE  /\ n[1] = "Pod" => n \in PodIDs(s)
         /\ n[1] = "Service" => n \in ServiceIDs(s)
<1>1. CASE n \in WorkloadIDs(s)
  BY <1>1, Heads DEF WorkloadIDs, HostIDs, PodIDs, ServiceIDs, ExternalNameIDs
<1>2. CASE n \notin WorkloadIDs(s)
  BY <1>2, FamilyHeads DEF NodeIDs
<1>3. QED
  BY <1>1, <1>2

LEMMA KeptIsPart ==
  ASSUME NEW s, NEW c, Keeps(s, c), Apart(c), Addressed(s),
         CanaryEdges(s, OverlapRoutes(s)) = CanaryEdges(c, OverlapRoutes(c))
  PROVE  PartOf(Build(s), Build(c))
<1> DEFINE h == Build(s)
           g == Build(c)
<1>1. /\ DOMAIN h.nodes = NodeIDs(s) /\ KindsFit(h.nodes)
      /\ DOMAIN g.nodes = NodeIDs(c) /\ KindsFit(g.nodes)
  BY BuildNodesAre
<1>2. PartMap(h.nodes, g.nodes) /\ PartMap(h.edges, g.edges)
  BY BuildNodesPart, BuildEdgesPart
<1>3. \A e \in DOMAIN g.edges :
        \/ e \in DOMAIN h.edges
        \/ e[3] = "hosts" /\ e[2] \notin PodIDs(s)
        \/ /\ e[3] \in {"externalname", "selects", "endpointslice", "endpoint"}
           /\ e[1] \notin ServiceIDs(s)
  BY BuildEdgesPart
<1>4. \A e \in DOMAIN g.edges :
        /\ e[3] = "hosts" => e[2][1] = "Pod"
        /\ e[3] \in {"externalname", "selects", "endpointslice", "endpoint"} => e[1][1] = "Service"
  BY EdgeShapes
<1>5. \A e \in DOMAIN h.edges : e[1] \in DOMAIN h.nodes /\ e[2] \in DOMAIN h.nodes
  BY EndsAreDrawn
<1> HIDE DEF g, h
<1>6. \A n \in Ids(h) : n \in Ids(g) /\ h.nodes[n] = g.nodes[n]
  BY <1>2 DEF PartMap, Ids
<1>7. ASSUME NEW n \in Roots(g) PROVE n \in Ids(h)
  <2>1. n \in NodeIDs(c) /\ n[1] \in {"Ingress", "Gateway", "Route", "LoadBalancer"}
    BY <1>1 DEF Roots, Ids, Root, KindsFit
  <2>2. n \in ExposureIDs(c) \cup AllIngressIDs(c) \cup ExternalIDs(c)
    BY <2>1, FamilyHeads DEF NodeIDs
  <2>3. n \in NodeIDs(s)
    BY <2>2, SameFamilies DEF NodeIDs
  <2>4. QED
    BY <1>1, <2>3 DEF Ids
<1>8. \A e \in DOMAIN h.edges : e \in DOMAIN g.edges /\ h.edges[e] = g.edges[e]
  BY <1>2 DEF PartMap
<1>9. ASSUME NEW e \in DOMAIN g.edges, Reaches(g, Ids(h), e) PROVE e \in DOMAIN h.edges
  <2>1. CASE e[3] = "hosts" /\ e[2] \notin PodIDs(s)
    <3>1. e[2] \notin Ids(h)
      BY <1>1, <1>4, <2>1, Unlisted DEF Ids
    <3>2. QED
      BY <1>9, <2>1, <3>1, FollowedKinds DEF Reaches
  <2>2. CASE /\ e[3] \in {"externalname", "selects", "endpointslice", "endpoint"}
             /\ e[1] \notin ServiceIDs(s)
    <3>1. e[1] \notin Ids(h)
      BY <1>1, <1>4, <2>2, Unlisted DEF Ids
    <3>2. e[3] \notin KindsOf(Backward, g.nodes[e[2]])
      BY <2>2, FollowedKinds
    <3>3. QED
      BY <1>9, <3>1, <3>2 DEF Reaches
  <2>3. QED
    BY <1>3, <2>1, <2>2
<1>10. PartOf(h, g)
  BY <1>5, <1>6, <1>7, <1>8, <1>9 DEF PartOf, Ids
<1>11. QED
  BY <1>10 DEF g, h

\* scopeTrafficInputs, as a part of the cluster.
KeptSlices(c) ==
  {sl \in c.slices : sl.service # None /\ <<sl.ns, sl.service>> \in TrafficServices(c)}
KeptEndpoints(c) == {e \in c.endpoints : Key(e) \in TrafficServices(c)}
KeptReferences(c) == References(KeptSlices(c), KeptEndpoints(c))

Wanted(c, p) ==
  \/ \E svc \in KeptServices(c) : p \in PodsOf(svc, c.pods)
  \/ \E r \in KeptReferences(c) : r[2] # None /\ Key(p) = <<Or(r[2].ns, r[1]), r[2].name>>
  \/ p.ip # None /\ \E r \in KeptReferences(c) : p.ns = r[1] /\ p.ip = r[3]

LEMMA ScopedIs ==
  ASSUME NEW c, DOMAIN c = Fields
  PROVE  LET s == Scoped(c)
         IN  /\ s.watch = c.watch /\ s.ingresses = c.ingresses /\ s.classes = c.classes
             /\ s.external = c.external /\ s.services = KeptServices(c)
             /\ s.slices = KeptSlices(c) /\ s.endpoints = KeptEndpoints(c)
             /\ s.pods = [k \in {l \in DOMAIN c.pods : Wanted(c, c.pods[l])} |-> c.pods[k]]
             /\ s.nodes = {node \in c.nodes : \E p \in ToSet(s.pods) : p.node = node}
<1> DEFINE keys == TrafficServices(c)
           services == {s \in c.services : Key(s) \in keys}
           slices == {s \in c.slices : s.service # None /\ <<s.ns, s.service>> \in keys}
           endpoints == {e \in c.endpoints : Key(e) \in keys}
           refs == References(slices, endpoints)
           named == {<<Or(r[2].ns, r[1]), r[2].name>> : r \in {q \in refs : q[2] # None}}
           addressed == {<<r[1], r[3]>> : r \in refs}
           wanted(p) == \/ \E s \in services : p \in PodsOf(s, c.pods)
                        \/ Key(p) \in named
                        \/ p.ip # None /\ <<p.ns, p.ip>> \in addressed
           pods == RestrictValues(c.pods, wanted)
           nodes == {node \in c.nodes : \E p \in ToSet(pods) : p.node = node}
<1>1. Scoped(c) = [c EXCEPT !.services = services, !.slices = slices, !.endpoints = endpoints,
                            !.pods = pods, !.nodes = nodes]
  BY DEF Scoped
<1>2. services = KeptServices(c) /\ slices = KeptSlices(c) /\ endpoints = KeptEndpoints(c)
  BY DEF KeptServices, KeptSlices, KeptEndpoints
<1>3. refs = KeptReferences(c)
  BY <1>2 DEF KeptReferences
<1>4. \A p : wanted(p) <=> Wanted(c, p)
  <2> HIDE DEF services, refs
  <2>1. QED
    BY <1>2, <1>3 DEF Wanted
<1>5. pods = [k \in {l \in DOMAIN c.pods : Wanted(c, c.pods[l])} |-> c.pods[k]]
  <2> HIDE DEF wanted
  <2>1. pods = [k \in {l \in DOMAIN c.pods : wanted(c.pods[l])} |-> c.pods[k]]
    BY DEF RestrictValues, Restrict
  <2>2. {l \in DOMAIN c.pods : wanted(c.pods[l])} = {l \in DOMAIN c.pods : Wanted(c, c.pods[l])}
    BY <1>4
  <2>3. QED
    BY <2>1, <2>2
<1> HIDE DEF services, slices, endpoints, pods
<1>6. LET s == Scoped(c)
      IN  /\ s.watch = c.watch /\ s.ingresses = c.ingresses /\ s.classes = c.classes
          /\ s.external = c.external /\ s.services = services
          /\ s.slices = slices /\ s.endpoints = endpoints
          /\ s.nodes = nodes /\ s.pods = pods
  BY <1>1 DEF Fields
<1>7. QED
  BY <1>2, <1>5, <1>6

\* Every reference of what is kept finds the pod that it finds in the cluster.
LEMMA ReferencedPods ==
  ASSUME NEW c, DOMAIN c = Fields, NEW ns, NEW target, NEW ip,
         <<ns, target, ip>> \in KeptReferences(c)
  PROVE  PodBehind(Scoped(c).pods, ns, target, ip) = PodBehind(c.pods, ns, target, ip)
<1> DEFINE K == {l \in DOMAIN c.pods : Wanted(c, c.pods[l])}
           pods == Scoped(c).pods
<1>1. pods = [k \in K |-> c.pods[k]]
  BY ScopedIs
<1>2. \A k \in DOMAIN c.pods :
        \/ target # None /\ Key(c.pods[k]) = <<Or(target.ns, ns), target.name>>
        \/ c.pods[k].ns = ns /\ c.pods[k].ip = ip /\ ip # None
        => k \in K
  BY DEF Wanted
<1> HIDE DEF K, pods
<1>3. K \subseteq DOMAIN c.pods
  BY DEF K
<1>4. NamedPod(pods, ns, target) = NamedPod(c.pods, ns, target)
  <2>1. CASE target = None
    BY <2>1 DEF NamedPod
  <2>2. CASE target # None
    <3>1. \A p : p \in ToSet(pods) /\ Key(p) = <<Or(target.ns, ns), target.name>>
                   <=> p \in ToSet(c.pods) /\ Key(p) = <<Or(target.ns, ns), target.name>>
      BY <1>1, <1>2, <1>3, <2>2 DEF ToSet
    <3>2. QED
      BY <2>2, <3>1 DEF NamedPod
  <2>3. QED
    BY <2>1, <2>2
<1>5. PodWithIP(pods, ns, ip) = PodWithIP(c.pods, ns, ip)
  <2> DEFINE same(l) == {k \in DOMAIN l : l[k].ns = ns /\ l[k].ip = ip /\ ip # None}
             last(l) == {k \in same(l) : \A m \in same(l) : m <= k}
  <2>1. same(pods) = same(c.pods) /\ same(pods) \subseteq K
    BY <1>1, <1>2, <1>3
  <2> HIDE DEF same
  <2>2. last(pods) = last(c.pods) /\ last(pods) \subseteq K
    BY <2>1
  <2> HIDE DEF last
  <2>3. {pods[k] : k \in last(pods)} = {c.pods[k] : k \in last(c.pods)}
    BY <1>1, <2>2
  <2>4. \A l : PodWithIP(l, ns, ip) = {l[k] : k \in last(l)}
    BY DEF PodWithIP, last, same
  <2>5. QED
    BY <2>3, <2>4
<1>6. PodBehind(pods, ns, target, ip) = PodBehind(c.pods, ns, target, ip)
  BY <1>4, <1>5 DEF PodBehind
<1>7. QED
  BY <1>6 DEF pods

LEMMA TrafficNames ==
  ASSUME NEW c, DOMAIN c = Fields, NEW key \in TrafficServices(c)
  PROVE  ServicesNamed(Scoped(c), key) = ServicesNamed(c, key)
<1>1. Scoped(c).services = KeptServices(c)
  BY ScopedIs
<1>2. QED
  BY <1>1 DEF ServicesNamed, KeptServices

LEMMA TrafficIs ==
  ASSUME NEW c
  PROVE  /\ \A x \in RoutesOf(c) : ServiceKey(x[1], x[2]) \in TrafficServices(c)
         /\ \A r \in c.external : \A ref \in r.backends :
              ref.supported => Refers(r, ref) \in TrafficServices(c)
         /\ \A svc \in c.services : Exposed(svc) => Key(svc) \in TrafficServices(c)
         /\ \A svc \in c.services : \A r \in c.external :
              Selects(r.selector, svc.labels) /\ r.ns \in {"", svc.ns}
                => Key(svc) \in TrafficServices(c)
<1> DEFINE exposed == {t \in c.services : \/ Exposed(t)
                                          \/ \E r \in c.external : Selects(r.selector, t.labels)
                                                                   /\ r.ns \in {"", t.ns}}
           routed == {ServiceKey(x[1], x[2]) : x \in RoutesOf(c)}
           referred == UNION {{Refers(r, ref) : ref \in {b \in r.backends : b.supported}} :
                                r \in c.external}
<1>1. TrafficServices(c) = routed \cup referred \cup {Key(t) : t \in exposed}
  BY DEF TrafficServices
<1>2. \A x \in RoutesOf(c) : ServiceKey(x[1], x[2]) \in routed
  OBVIOUS
<1>3. \A r \in c.external : \A ref \in r.backends : ref.supported => Refers(r, ref) \in referred
  OBVIOUS
<1>4. \A svc \in exposed : Key(svc) \in {Key(t) : t \in exposed}
  OBVIOUS
<1>5. \A svc \in c.services :
        (Exposed(svc) \/ \E r \in c.external : Selects(r.selector, svc.labels)
                                               /\ r.ns \in {"", svc.ns}) => svc \in exposed
  OBVIOUS
<1> HIDE DEF exposed, routed, referred
<1>6. QED
  BY <1>1, <1>2, <1>3, <1>4, <1>5

LEMMA ScopedSameNames ==
  ASSUME NEW c, DOMAIN c = Fields
  PROVE  SameNames(Scoped(c), c)
<1>1. \A x \in RoutesOf(c) : ServicesNamed(Scoped(c), ServiceKey(x[1], x[2]))
                               = ServicesNamed(c, ServiceKey(x[1], x[2]))
  BY TrafficIs, TrafficNames
<1>2. ASSUME NEW r \in c.external, NEW ref \in r.backends, ref.supported
      PROVE  ServicesNamed(Scoped(c), Refers(r, ref)) = ServicesNamed(c, Refers(r, ref))
  <2>1. Refers(r, ref) \in TrafficServices(c)
    BY <1>2, TrafficIs
  <2>2. QED
    BY <2>1, TrafficNames
<1>3. ASSUME NEW r \in c.external PROVE F5Services(Scoped(c), r) = F5Services(c, r)
  <2>1. Scoped(c).services = KeptServices(c)
    BY ScopedIs
  <2>2. ASSUME NEW svc \in c.services,
               \/ \E ref \in r.backends : ref.supported /\ Refers(r, ref) = Key(svc)
               \/ Selects(r.selector, svc.labels) /\ r.ns \in {"", svc.ns}
        PROVE  svc \in KeptServices(c)
    BY <2>2, TrafficIs DEF KeptServices
  <2>3. KeptServices(c) \subseteq c.services
    BY DEF KeptServices
  <2>4. QED
    BY <2>1, <2>2, <2>3 DEF F5Services
<1>4. QED
  BY <1>1, <1>2, <1>3 DEF SameNames

LEMMA ScopedSameBehind ==
  ASSUME NEW c, IsCluster(c)
  PROVE  SameBehind(Scoped(c), c)
<1> DEFINE s == Scoped(c)
<1>1. DOMAIN c = Fields
  BY DEF IsCluster
<1>2. s.services = KeptServices(c) /\ s.slices = KeptSlices(c) /\ s.endpoints = KeptEndpoints(c)
  BY <1>1, ScopedIs
<1>3. ASSUME NEW ns, NEW target, NEW ip, <<ns, target, ip>> \in KeptReferences(c)
      PROVE  PodBehind(s.pods, ns, target, ip) = PodBehind(c.pods, ns, target, ip)
  BY <1>1, <1>3, ReferencedPods
<1> HIDE DEF s
<1>4. ASSUME NEW svc \in s.services
      PROVE  /\ SlicesOf(s, Key(svc)) = SlicesOf(c, Key(svc))
             /\ EndpointsOf(s, Key(svc)) = EndpointsOf(c, Key(svc))
  <2>1. Key(svc) \in TrafficServices(c) /\ Key(svc) = <<svc.ns, svc.name>> /\ svc.name # None
    BY <1>2 DEF KeptServices, IsCluster, Key
  <2>2. \A sl : <<sl.ns, sl.service>> = Key(svc) => sl.service # None
    BY <2>1
  <2>3. SlicesOf(s, Key(svc)) = SlicesOf(c, Key(svc))
    BY <1>2, <2>1, <2>2 DEF SlicesOf, KeptSlices
  <2>4. {e \in s.endpoints : Key(e) = Key(svc)} = {e \in c.endpoints : Key(e) = Key(svc)}
    BY <1>2, <2>1 DEF KeptEndpoints
  <2>5. QED
    BY <2>3, <2>4 DEF EndpointsOf
<1>5. ASSUME NEW sl \in s.slices, NEW e \in sl.endpoints, NEW a \in e.addresses
      PROVE  <<sl.ns, e.target, a>> \in KeptReferences(c)
  BY <1>2 DEF KeptReferences, References
<1>6. ASSUME NEW e \in s.endpoints, NEW sub \in e.subsets, NEW a \in sub.addresses
      PROVE  <<e.ns, a.target, a.ip>> \in KeptReferences(c)
  BY <1>2 DEF KeptReferences, References
<1>7. SameBehind(s, c)
  BY <1>3, <1>4, <1>5, <1>6 DEF SameBehind
<1>8. QED
  BY <1>7 DEF s

LEMMA ScopedSameExposures ==
  ASSUME NEW c, DOMAIN c = Fields
  PROVE  SameExposures(Scoped(c), c) /\ ToSet(Scoped(c).pods) \subseteq ToSet(c.pods)
<1> DEFINE s == Scoped(c)
           K == {l \in DOMAIN c.pods : Wanted(c, c.pods[l])}
<1>1. /\ s.classes = c.classes /\ s.ingresses = c.ingresses /\ s.services = KeptServices(c)
      /\ s.pods = [k \in K |-> c.pods[k]]
  BY ScopedIs
<1>2. \A k \in DOMAIN c.pods : Wanted(c, c.pods[k]) <=> k \in K
  OBVIOUS
<1>3. K \subseteq DOMAIN c.pods
  OBVIOUS
<1> HIDE DEF s, K
<1>4. \A p : p \in ToSet(s.pods) <=> p \in ToSet(c.pods) /\ Wanted(c, p)
  BY <1>1, <1>2, <1>3 DEF ToSet
<1>5. ASSUME NEW svc \in KeptServices(c) PROVE PodsOf(svc, s.pods) = PodsOf(svc, c.pods)
  <2>1. \A p \in PodsOf(svc, c.pods) : Wanted(c, p)
    BY DEF Wanted
  <2>2. QED
    BY <1>4, <2>1 DEF PodsOf
<1>6. \A svc \in c.services : Exposed(svc) => svc \in KeptServices(c)
  BY TrafficIs DEF KeptServices
<1>7. KeptServices(c) \subseteq c.services
  BY DEF KeptServices
<1>8. SameExposures(s, c)
  BY <1>1, <1>5, <1>6, <1>7 DEF SameExposures
<1>9. QED
  BY <1>4, <1>8 DEF s

LEMMA ScopedIsKept ==
  ASSUME NEW c, IsCluster(c)
  PROVE  Keeps(Scoped(c), c)
<1> DEFINE s == Scoped(c)
<1>1. DOMAIN c = Fields /\ None \notin c.services
  BY DEF IsCluster
<1>2. /\ s.watch = c.watch /\ s.external = c.external
      /\ s.slices = KeptSlices(c) /\ s.endpoints = KeptEndpoints(c)
      /\ s.nodes = {node \in c.nodes : \E p \in ToSet(s.pods) : p.node = node}
  BY <1>1, ScopedIs
<1>3. /\ SameExposures(s, c) /\ ToSet(s.pods) \subseteq ToSet(c.pods)
      /\ SameNames(s, c) /\ SameBehind(s, c)
  BY <1>1, ScopedSameExposures, ScopedSameNames, ScopedSameBehind
<1> HIDE DEF s
<1>4. s.slices \subseteq c.slices /\ s.endpoints \subseteq c.endpoints /\ s.nodes \subseteq c.nodes
  BY <1>2 DEF KeptSlices, KeptEndpoints
<1>5. \A p \in ToSet(s.pods) : p.node \in c.nodes => p.node \in s.nodes
  BY <1>2
<1>6. Keeps(s, c)
  BY <1>1, <1>2, <1>3, <1>4, <1>5 DEF Keeps
<1>7. QED
  BY <1>6 DEF s

-----------------------------------------------------------------------------
(* The canaries: who draws one, and which rule stays on its edge.          *)

LEMMA LinksOfOverlap ==
  ASSUME NEW c, NEW i, NEW k, NEW l \in Overlap(OverlapRoutes(c), i, k).links
  PROVE  l.canary \in OverlapRoutes(c) /\ Canary(l.canary)
<1> DEFINE routes == OverlapRoutes(c)
           mine == {r \in routes : r.ingress = i /\ r.k = k}
<1>1. mine # {}
  BY DEF Overlap, NoOverlap
<1>2. PICK r \in mine : TRUE
  BY <1>1
<1>3. r \in routes /\ r.ingress = i /\ r.k = k
  OBVIOUS
<1>4. l \in Links(r, routes)
  BY <1>3, OverlapIs
<1>5. QED
  BY <1>4 DEF Links

LEMMA SameCanaryLinks ==
  ASSUME NEW s, NEW c, Keeps(s, c)
  PROVE  CanaryLinks(s) = CanaryLinks(c) /\ OverlapRoutes(s) = OverlapRoutes(c)
<1>1. OverlapRoutes(s) = OverlapRoutes(c)
  BY SameOverlaps DEF Keeps
<1>2. RoutesOf(s) = RoutesOf(c)
  BY DEF Keeps, SameExposures, RoutesOf, PairsOf
<1>3. ASSUME NEW x PROVE ServedLinks(s, x) = ServedLinks(c, x)
  <2> DEFINE links == Overlap(OverlapRoutes(c), x[1], x[2]).links
  <2>1. ASSUME NEW l \in links
        PROVE  ServicesNamed(s, <<l.canary.ingress.ns, l.canary.service>>)
                 = ServicesNamed(c, <<l.canary.ingress.ns, l.canary.service>>)
    <3> DEFINE r == l.canary
    <3>1. r \in OverlapRoutes(c)
      BY LinksOfOverlap
    <3> HIDE DEF r
    <3>2. <<r.ingress, r.k>> \in RoutesOf(c) /\ r.service = r.ingress.routes[r.k].service
      BY <3>1, Contenders
    <3> DEFINE x0 == <<r.ingress, r.k>>
    <3>3. ServiceKey(x0[1], x0[2]) = <<r.ingress.ns, r.service>>
      BY <3>2 DEF ServiceKey
    <3> HIDE DEF x0
    <3>4. ServicesNamed(s, ServiceKey(x0[1], x0[2])) = ServicesNamed(c, ServiceKey(x0[1], x0[2]))
      BY <3>2 DEF Keeps, SameNames, x0
    <3>5. QED
      BY <3>3, <3>4 DEF r
  <2> HIDE DEF links
  <2>2. ServedLinks(s, x) =
          {l \in links : ServicesNamed(s, <<l.canary.ingress.ns, l.canary.service>>) # {}}
    BY <1>1 DEF ServedLinks, links
  <2>3. ServedLinks(c, x) =
          {l \in links : ServicesNamed(c, <<l.canary.ingress.ns, l.canary.service>>) # {}}
    BY DEF ServedLinks, links
  <2>4. QED
    BY <2>1, <2>2, <2>3
<1>4. \A d : CanaryLinks(d) = UNION {{<<x, l>> : l \in ServedLinks(d, x)} : x \in RoutesOf(d)}
  BY DEF CanaryLinks, PairsOf
<1>5. UNION {{<<x, l>> : l \in ServedLinks(s, x)} : x \in RoutesOf(c)}
        = UNION {{<<x, l>> : l \in ServedLinks(c, x)} : x \in RoutesOf(c)}
  BY <1>3
<1>6. QED
  BY <1>1, <1>2, <1>4, <1>5

\* The links that draw one edge, and the one of them that is drawn last.
EdgeOf(x) == <<IngressRouteID(x[1][1], x[1][2]), CanaryID(x[2]), "canary">>
LinksOf(drawn, e) == {x[2] : x \in {y \in drawn : EdgeOf(y) = e}}
LastLink(ingresses, routes, same) ==
  CHOOSE l \in same : \A m \in same : LinkBefore(ingresses, routes, m, l)

LEMMA CanaryEdgesBy ==
  ASSUME NEW c
  PROVE  LET drawn == CanaryLinks(c)
         IN  CanaryEdges(c, OverlapRoutes(c)) =
               [e \in {EdgeOf(x) : x \in drawn} |->
                  LastLink(c.ingresses, OverlapRoutes(c), LinksOf(drawn, e)).canary.ingress.rule]
<1> DEFINE drawn == CanaryLinks(c)
<1>1. CanaryEdges(c, OverlapRoutes(c)) =
        [e \in {EdgeOf(x) : x \in drawn} |->
           LastLink(c.ingresses, OverlapRoutes(c), LinksOf(drawn, e)).canary.ingress.rule]
  BY DEF CanaryEdges, EdgeOf, LinksOf, LastLink, CanaryLinks, ServedLinks, CanaryID
<1>2. QED
  BY <1>1

LEMMA ScopedCanaryEdges ==
  ASSUME NEW c, IsCluster(c)
  PROVE  CanaryEdges(Scoped(c), OverlapRoutes(Scoped(c))) = CanaryEdges(c, OverlapRoutes(c))
<1> DEFINE s == Scoped(c)
           map(ingresses, routes, drawn) ==
             [e \in {EdgeOf(x) : x \in drawn} |->
                LastLink(ingresses, routes, LinksOf(drawn, e)).canary.ingress.rule]
<1>1. s.ingresses = c.ingresses
  BY ScopedIs DEF IsCluster
<1>2. CanaryLinks(s) = CanaryLinks(c) /\ OverlapRoutes(s) = OverlapRoutes(c)
  BY ScopedIsKept, SameCanaryLinks
<1>3. \A d : CanaryEdges(d, OverlapRoutes(d)) = map(d.ingresses, OverlapRoutes(d), CanaryLinks(d))
  BY CanaryEdgesBy
<1> HIDE DEF s, map
<1>4. map(s.ingresses, OverlapRoutes(s), CanaryLinks(s))
        = map(c.ingresses, OverlapRoutes(c), CanaryLinks(c))
  BY <1>1, <1>2
<1>5. CanaryEdges(s, OverlapRoutes(s)) = CanaryEdges(c, OverlapRoutes(c))
  BY <1>3, <1>4
<1>6. QED
  BY <1>5 DEF s

LEMMA ClusterApart ==
  ASSUME NEW c, IsCluster(c)
  PROVE  Apart(c)
<1>1. \A p, q \in ToSet(c.pods) : Key(p) = Key(q) => p = q
  BY DEF IsCluster, Listing, ToSet
<1>2. QED
  BY <1>1 DEF IsCluster, Keyed, Apart

\* Whatever the caches hold, a snapshot shows what it would show of a build
\* from all of it.
LEMMA ScopingIsEconomy ==
  ASSUME NEW c, IsCluster(c)
  PROVE  Snapshot(c).graph = Visible(Build(c))
<1>1. IsFiniteSet(Ids(Build(c))) /\ IsFiniteSet(Ids(Build(Scoped(c))))
  BY FiniteNodes, FiniteScoped DEF IsCluster, Ids
<1>2. PartOf(Build(Scoped(c)), Build(c))
  BY ScopedIsKept, ScopedCanaryEdges, ClusterApart, AddressedScoped, KeptIsPart
<1>3. Visible(Build(Scoped(c))) = Visible(Build(c))
  BY <1>1, <1>2, PartsSuffice
<1>4. QED
  BY <1>3 DEF Snapshot

-----------------------------------------------------------------------------
(* The order of a list decides only between pods of one IP and between     *)
(* canaries of one Service.                                                *)

DistinctIPs(c) ==
  \A p, q \in ToSet(c.pods) : p.ns = q.ns /\ p.ip = q.ip /\ p.ip # None => p = q
OneIngressEach(c) ==
  \A r, q \in OverlapRoutes(c) : Canary(r) /\ Canary(q) /\ r.service = q.service
                                   => r.ingress = q.ingress

LEMMA OnlyPodWithIP ==
  ASSUME NEW c, IsCluster(c), DistinctIPs(c), NEW ns, NEW ip
  PROVE  PodWithIP(c.pods, ns, ip) =
           {p \in ToSet(c.pods) : p.ns = ns /\ p.ip = ip /\ ip # None}
<1> DEFINE pods == c.pods
           same == {k \in DOMAIN pods : pods[k].ns = ns /\ pods[k].ip = ip /\ ip # None}
<1>1. /\ DOMAIN pods \subseteq Nat
      /\ \A m, n \in DOMAIN pods : Key(pods[m]) = Key(pods[n]) => m = n
  <2>1. Listing(pods)
    BY DEF IsCluster
  <2> HIDE DEF pods
  <2>2. DOMAIN pods = 1 .. Len(pods) /\ Len(pods) \in Nat
    BY <2>1, OrderOf
  <2>3. QED
    BY <2>1, <2>2 DEF Listing
<1>2. \A m, n \in DOMAIN pods :
        pods[m].ns = pods[n].ns /\ pods[m].ip = pods[n].ip /\ pods[m].ip # None
          => pods[m] = pods[n]
  <2>1. \A m \in DOMAIN pods : pods[m] \in ToSet(pods)
    BY DEF ToSet
  <2>2. \A p, q \in ToSet(pods) : p.ns = q.ns /\ p.ip = q.ip /\ p.ip # None => p = q
    BY DEF DistinctIPs
  <2> HIDE DEF pods
  <2>3. QED
    BY <2>1, <2>2
<1> HIDE DEF pods
<1>3. \A m, n \in same : m = n
  BY <1>1, <1>2
<1>4. \A k \in same : \A m \in same : m <= k
  BY <1>1, <1>3
<1>5. {pods[k] : k \in {l \in same : \A m \in same : m <= l}} = {pods[k] : k \in same}
  <2> HIDE DEF same
  <2>1. QED
    BY <1>4
<1>6. \A p : p \in {pods[k] : k \in same} <=>
               p \in ToSet(pods) /\ p.ns = ns /\ p.ip = ip /\ ip # None
  BY DEF ToSet
<1>7. PodWithIP(pods, ns, ip) = {pods[k] : k \in {l \in same : \A m \in same : m <= l}}
  BY DEF PodWithIP
<1> HIDE DEF same
<1>8. PodWithIP(pods, ns, ip) = {p \in ToSet(pods) : p.ns = ns /\ p.ip = ip /\ ip # None}
  BY <1>5, <1>6, <1>7
<1>9. QED
  BY <1>8 DEF pods

LEMMA RelistedIsKept ==
  ASSUME NEW d, NEW c, IsCluster(d), IsCluster(c), SameObjects(d, c), DistinctIPs(c)
  PROVE  Keeps(d, c)
<1>1. /\ d.watch = c.watch /\ d.classes = c.classes /\ d.services = c.services
      /\ d.nodes = c.nodes /\ d.slices = c.slices /\ d.endpoints = c.endpoints
      /\ d.external = c.external /\ ToSet(d.ingresses) = ToSet(c.ingresses)
      /\ ToSet(d.pods) = ToSet(c.pods)
  BY DEF SameObjects
<1>2. DistinctIPs(d)
  BY <1>1 DEF DistinctIPs
<1>3. ASSUME NEW ns, NEW ip PROVE PodWithIP(d.pods, ns, ip) = PodWithIP(c.pods, ns, ip)
  <2> DEFINE of(pods) == {p \in pods : p.ns = ns /\ p.ip = ip /\ ip # None}
  <2>1. PodWithIP(d.pods, ns, ip) = of(ToSet(d.pods))
    BY <1>2, OnlyPodWithIP
  <2>2. PodWithIP(c.pods, ns, ip) = of(ToSet(c.pods))
    BY OnlyPodWithIP
  <2> HIDE DEF of
  <2>3. QED
    BY <1>1, <2>1, <2>2
<1>4. \A ns, target : NamedPod(d.pods, ns, target) = NamedPod(c.pods, ns, target)
  BY <1>1 DEF NamedPod
<1>5. \A ns, target, ip : PodBehind(d.pods, ns, target, ip) = PodBehind(c.pods, ns, target, ip)
  BY <1>3, <1>4 DEF PodBehind
<1>6. \A svc : PodsOf(svc, d.pods) = PodsOf(svc, c.pods)
  BY <1>1 DEF PodsOf
<1>7. \A key : SlicesOf(d, key) = SlicesOf(c, key)
  BY <1>1 DEF SlicesOf
<1>8. \A key : EndpointsOf(d, key) = EndpointsOf(c, key)
  BY <1>1, <1>7 DEF EndpointsOf
<1>9. SameExposures(d, c)
  BY <1>1, <1>6 DEF SameExposures
<1>10. SameNames(d, c)
  <2>1. \A key : ServicesNamed(d, key) = ServicesNamed(c, key)
    BY <1>1 DEF ServicesNamed
  <2>2. \A r : F5Services(d, r) = F5Services(c, r)
    BY <1>1 DEF F5Services
  <2>3. QED
    BY <2>1, <2>2 DEF SameNames
<1>11. SameBehind(d, c)
  BY <1>5, <1>7, <1>8 DEF SameBehind
<1>12. None \notin c.services
  BY DEF IsCluster
<1>13. QED
  BY <1>1, <1>9, <1>10, <1>11, <1>12 DEF Keeps

\* An Ingress contends for each location once.
LEMMA OnceAtLocation ==
  ASSUME NEW c, IsCluster(c), NEW r \in OverlapRoutes(c), NEW q \in OverlapRoutes(c),
         SameLocation(r, q), r.ingress = q.ingress
  PROVE  r.k = q.k
<1>1. \A x \in OverlapRoutes(c) :
        /\ x.k \in Contending(x.ingress) /\ x.ingress \in ToSet(c.ingresses)
        /\ x.location = <<x.ingress.routes[x.k].host, x.ingress.routes[x.k].path>>
  BY OverlapRoutesAre DEF Contender
<1> DEFINE i == r.ingress
           place(k) == <<i.routes[k].host, i.routes[k].path>>
<1>2. place(r.k) = place(q.k)
  BY <1>1 DEF SameLocation
<1>3. i.routes \in Seq(ToSet(i.routes))
  BY <1>1 DEF IsCluster
<1>4. DOMAIN i.routes = 1 .. Len(i.routes) /\ Len(i.routes) \in Nat
  BY <1>3, LenProperties
<1>5. \A k \in Contending(i) :
        /\ k \in DOMAIN i.routes /\ ~i.routes[k].default
        /\ \A l \in 1 .. (k - 1) : i.routes[l].default \/ place(l) # place(k)
  BY DEF Contending
<1>6. r.k \in Contending(i) /\ q.k \in Contending(i)
  BY <1>1
<1> HIDE DEF i, place
<1>7. ASSUME NEW k \in Contending(i), NEW n \in Contending(i), k < n, place(k) = place(n)
      PROVE  FALSE
  <2>1. k \in 1 .. Len(i.routes) /\ n \in 1 .. Len(i.routes)
    BY <1>4, <1>5
  <2>2. k \in 1 .. (n - 1)
    BY <1>4, <1>7, <2>1
  <2>3. QED
    BY <1>5, <1>7, <2>2
<1>8. r.k \in Nat /\ q.k \in Nat
  BY <1>4, <1>5, <1>6
<1>9. QED
  BY <1>2, <1>6, <1>7, <1>8

\* A list orders the routes of its Ingresses: by the place of the Ingress, then
\* by the place of the route.
Place(list, x) == CHOOSE n \in DOMAIN list : list[n] = x.ingress

LEMMA Places ==
  ASSUME NEW c, IsCluster(c)
  PROVE  LET list == c.ingresses
         IN  /\ Len(list) \in Nat
             /\ \A r \in OverlapRoutes(c) :
                  /\ Place(list, r) \in 1 .. Len(list) /\ list[Place(list, r)] = r.ingress
                  /\ Len(r.ingress.routes) \in Nat /\ r.k \in 1 .. Len(r.ingress.routes)
             /\ \A r, q : Listed(list, r, q) <=>
                  \/ Place(list, r) < Place(list, q)
                  \/ Place(list, r) = Place(list, q) /\ r.k <= q.k
<1> DEFINE list == c.ingresses
<1>1. DOMAIN list = 1 .. Len(list) /\ Len(list) \in Nat
  BY OrderOf DEF IsCluster
<1>2. ASSUME NEW r \in OverlapRoutes(c)
      PROVE  /\ Place(list, r) \in 1 .. Len(list) /\ list[Place(list, r)] = r.ingress
             /\ Len(r.ingress.routes) \in Nat /\ r.k \in 1 .. Len(r.ingress.routes)
  <2>1. r.ingress \in ToSet(c.ingresses) /\ r.k \in DOMAIN r.ingress.routes
    BY Contenders
  <2>2. \E n \in DOMAIN list : list[n] = r.ingress
    BY <2>1 DEF ToSet
  <2>3. r.ingress.routes \in Seq(ToSet(r.ingress.routes))
    BY <2>1 DEF IsCluster
  <2> HIDE DEF list
  <2>4. Place(list, r) \in DOMAIN list /\ list[Place(list, r)] = r.ingress
    BY <2>2 DEF Place
  <2>5. DOMAIN r.ingress.routes = 1 .. Len(r.ingress.routes) /\ Len(r.ingress.routes) \in Nat
    BY <2>3, LenProperties
  <2>6. QED
    BY <1>1, <2>1, <2>4, <2>5
<1>3. \A r, q : Listed(list, r, q) <=>
        \/ Place(list, r) < Place(list, q)
        \/ Place(list, r) = Place(list, q) /\ r.k <= q.k
  BY DEF Listed, Place
<1>4. QED
  BY <1>1, <1>2, <1>3

\* The route of a location that is listed first, and the order of the links.
FirstListed(list, routes, r) ==
  CHOOSE q \in routes : SameLocation(q, r)
    /\ \A o \in routes : SameLocation(o, r) => Listed(list, q, o)

LEMMA FirstExists ==
  ASSUME NEW c, IsCluster(c), NEW r \in OverlapRoutes(c)
  PROVE  FirstListed(c.ingresses, OverlapRoutes(c), r) \in OverlapRoutes(c)
<1> DEFINE list == c.ingresses
           routes == OverlapRoutes(c)
           T == {o \in routes : SameLocation(o, r)}
           places == {Place(list, o) : o \in T}
<1>1. r \in T
  BY DEF SameLocation
<1>2. /\ \A o \in T : Place(list, o) \in Nat /\ o.k \in Nat
      /\ \A o, q : Listed(list, o, q) <=>
           \/ Place(list, o) < Place(list, q)
           \/ Place(list, o) = Place(list, q) /\ o.k <= q.k
  BY Places
<1> HIDE DEF list, T
<1>3. PICK p \in places : \A n \in places : p <= n
  <2>1. places \subseteq Nat /\ places # {}
    BY <1>1, <1>2
  <2>2. QED
    BY <2>1, Least
<1> DEFINE ks == {o.k : o \in {q \in T : Place(list, q) = p}}
<1>4. PICK k \in ks : \A n \in ks : k <= n
  <2>1. ks \subseteq Nat /\ ks # {}
    BY <1>2
  <2>2. QED
    BY <2>1, Least
<1>5. PICK q \in T : Place(list, q) = p /\ q.k = k
  BY <1>4
<1>6. ASSUME NEW o \in T PROVE Listed(list, q, o)
  <2>1. p <= Place(list, o) /\ p \in Nat /\ Place(list, o) \in Nat
    BY <1>2, <1>3
  <2>2. Place(list, o) = p => k <= o.k
    BY <1>4
  <2>3. QED
    BY <1>2, <1>5, <2>1, <2>2
<1>7. /\ q \in routes /\ SameLocation(q, r)
      /\ \A o \in routes : SameLocation(o, r) => Listed(list, q, o)
  BY <1>6 DEF T
<1> HIDE DEF routes
<1>8. FirstListed(list, routes, r) \in routes
  BY <1>7 DEF FirstListed
<1>9. QED
  BY <1>8 DEF list, routes

\* Of the canaries of one Ingress that draw one edge, one is drawn last.
LEMMA LastExists ==
  ASSUME NEW c, IsCluster(c), NEW same, same # {},
         \A l \in same : l.canary \in OverlapRoutes(c),
         \A l, m \in same : l.canary.ingress = m.canary.ingress
  PROVE  LastLink(c.ingresses, OverlapRoutes(c), same) \in same
<1> DEFINE list == c.ingresses
           routes == OverlapRoutes(c)
           first(l) == FirstListed(list, routes, l.canary)
           place(l) == Place(list, first(l))
           places == {place(l) : l \in same}
<1>1. \A l \in same : first(l) \in routes
  BY FirstExists
<1>2. /\ Len(list) \in Nat
      /\ \A l \in same :
           /\ place(l) \in 1 .. Len(list) /\ list[place(l)] = first(l).ingress
           /\ Len(first(l).ingress.routes) \in Nat
           /\ first(l).k \in 1 .. Len(first(l).ingress.routes)
      /\ \A o, q : Listed(list, o, q) <=>
           \/ Place(list, o) < Place(list, q)
           \/ Place(list, o) = Place(list, q) /\ o.k <= q.k
  BY <1>1, Places
<1>3. \A l, m : LinkBefore(list, routes, m, l) <=>
        IF SameLocation(m.canary, l.canary) THEN Listed(list, m.canary, l.canary)
        ELSE Listed(list, first(m), first(l))
  BY DEF LinkBefore, FirstListed
<1>4. ASSUME NEW l \in same, NEW m \in same, SameLocation(m.canary, l.canary)
      PROVE  Listed(list, m.canary, l.canary)
  <2>1. m.canary.k = l.canary.k /\ m.canary.ingress = l.canary.ingress
    BY <1>4, OnceAtLocation
  <2>2. Place(list, m.canary) = Place(list, l.canary)
    BY <2>1 DEF Place
  <2>3. m.canary.k \in Nat
    BY Places
  <2>4. QED
    BY <1>2, <2>1, <2>2, <2>3
<1> HIDE DEF list, routes, first
<1>5. places \subseteq 1 .. Len(list) /\ places # {}
  BY <1>2
<1>6. PICK p \in places : \A n \in places : n <= p
  BY <1>2, <1>5, Greatest
<1> DEFINE tops == {l \in same : place(l) = p}
           ks == {first(l).k : l \in tops}
           size == Len(list[p].routes)
<1>7. PICK k \in ks : \A n \in ks : n <= k
  <2>1. size \in Nat /\ ks \subseteq 1 .. size /\ ks # {}
    BY <1>2, <1>6
  <2> HIDE DEF size, ks
  <2>2. QED
    BY <2>1, Greatest
<1>8. PICK l \in same : place(l) = p /\ first(l).k = k
  BY <1>7
<1>9. ASSUME NEW m \in same PROVE LinkBefore(list, routes, m, l)
  <2>1. place(m) <= p /\ place(m) \in Nat /\ p \in Nat
    BY <1>2, <1>5, <1>6
  <2>2. place(m) = p => first(m).k <= k
    BY <1>7
  <2>3. Listed(list, first(m), first(l))
    BY <1>2, <1>8, <2>1, <2>2
  <2>4. QED
    BY <1>3, <1>4, <2>3
<1>10. LastLink(list, routes, same) \in same
  BY <1>9 DEF LastLink
<1>11. QED
  BY <1>10 DEF list, routes

LEMMA RelistedCanaryEdges ==
  ASSUME NEW d, NEW c, IsCluster(d), IsCluster(c), SameObjects(d, c), DistinctIPs(c),
         OneIngressEach(c)
  PROVE  CanaryEdges(d, OverlapRoutes(d)) = CanaryEdges(c, OverlapRoutes(c))
<1> DEFINE drawn == CanaryLinks(c)
           routes == OverlapRoutes(c)
           edges == {EdgeOf(x) : x \in drawn}
           rule(list, e) == LastLink(list, routes, LinksOf(drawn, e)).canary.ingress.rule
<1>1. CanaryLinks(d) = drawn /\ OverlapRoutes(d) = routes
  BY RelistedIsKept, SameCanaryLinks
<1>2. \A x \in drawn : x[2].canary \in routes /\ Canary(x[2].canary)
  <2>1. \A x \in drawn : x[2] \in ServedLinks(c, x[1])
    BY DEF CanaryLinks, PairsOf
  <2>2. QED
    BY <2>1, LinksOfOverlap DEF ServedLinks
<1>3. ASSUME NEW e \in edges PROVE rule(d.ingresses, e) = rule(c.ingresses, e)
  <2> DEFINE same == LinksOf(drawn, e)
  <2>1. same # {}
    BY DEF LinksOf
  <2>2. \A l \in same : l.canary \in routes /\ Canary(l.canary)
    BY <1>2 DEF LinksOf
  <2>3. \A l \in same : CanaryID(l) = e[2]
    BY DEF LinksOf, EdgeOf
  <2>4. \A l, m \in same : l.canary.service = m.canary.service
    BY <2>3 DEF CanaryID
  <2>5. \A l, m \in same : l.canary.ingress = m.canary.ingress
    BY <2>2, <2>4 DEF OneIngressEach
  <2> HIDE DEF same, drawn
  <2>6. LastLink(c.ingresses, routes, same) \in same
    BY <2>1, <2>2, <2>5, LastExists
  <2>7. LastLink(d.ingresses, routes, same) \in same
    <3>1. \A l \in same : l.canary \in OverlapRoutes(d)
      BY <1>1, <2>2
    <3> HIDE DEF routes
    <3>2. LastLink(d.ingresses, OverlapRoutes(d), same) \in same
      BY <2>1, <2>5, <3>1, LastExists
    <3>3. QED
      BY <1>1, <3>2
  <2> DEFINE first == LastLink(d.ingresses, routes, same)
             second == LastLink(c.ingresses, routes, same)
  <2>8. rule(d.ingresses, e) = first.canary.ingress.rule
        /\ rule(c.ingresses, e) = second.canary.ingress.rule
    BY DEF same
  <2>9. first \in same /\ second \in same
    BY <2>6, <2>7
  <2> HIDE DEF first, second, rule
  <2>10. first.canary.ingress = second.canary.ingress
    BY <2>5, <2>9
  <2>11. QED
    BY <2>8, <2>10
<1>4. CanaryEdges(d, OverlapRoutes(d)) = [e \in edges |-> rule(d.ingresses, e)]
  <2> DEFINE map(list, rs, xs) ==
               [e \in {EdgeOf(x) : x \in xs} |->
                  LastLink(list, rs, LinksOf(xs, e)).canary.ingress.rule]
  <2>1. \A y : CanaryEdges(y, OverlapRoutes(y))
                = map(y.ingresses, OverlapRoutes(y), CanaryLinks(y))
    BY CanaryEdgesBy
  <2>2. map(d.ingresses, routes, drawn) = [e \in edges |-> rule(d.ingresses, e)]
    OBVIOUS
  <2> HIDE DEF map, routes, drawn, edges, rule
  <2>3. CanaryEdges(d, OverlapRoutes(d)) = map(d.ingresses, routes, drawn)
    BY <1>1, <2>1
  <2>4. QED
    BY <2>2, <2>3
<1>5. CanaryEdges(c, OverlapRoutes(c)) = [e \in edges |-> rule(c.ingresses, e)]
  BY CanaryEdgesBy
<1> HIDE DEF edges, rule
<1>6. [e \in edges |-> rule(d.ingresses, e)] = [e \in edges |-> rule(c.ingresses, e)]
  BY <1>3
<1>7. QED
  BY <1>4, <1>5, <1>6

\* The same objects in another order make the same snapshot.
LEMMA OrderDecidesNothing ==
  ASSUME NEW d, NEW c, IsCluster(d), IsCluster(c), SameObjects(d, c), DistinctIPs(c),
         OneIngressEach(c)
  PROVE  Snapshot(d) = Snapshot(c)
<1>1. Snapshot(d).graph = Visible(Build(d)) /\ Snapshot(c).graph = Visible(Build(c))
  BY ScopingIsEconomy
<1>2. IsFiniteSet(Ids(Build(c))) /\ IsFiniteSet(Ids(Build(d)))
  BY FiniteNodes DEF IsCluster
<1>3. PartOf(Build(d), Build(c))
  BY RelistedIsKept, RelistedCanaryEdges, ClusterApart, AddressedScoped, KeptIsPart
<1>4. Visible(Build(d)) = Visible(Build(c))
  BY <1>2, <1>3, PartsSuffice
<1>5. Inventory(d) = Inventory(c)
  <2>1. Len(d.ingresses) = Len(c.ingresses)
    BY OrderOf DEF IsCluster, SameObjects
  <2>2. \A kinds : OfKind(d, kinds) = OfKind(c, kinds)
    BY DEF OfKind, SameObjects
  <2>3. QED
    BY <2>1, <2>2 DEF Inventory, SameObjects
<1>6. \A x : Snapshot(x) = [graph |-> Snapshot(x).graph, inventory |-> Inventory(x)]
  BY DEF Snapshot
<1>7. QED
  BY <1>1, <1>4, <1>5, <1>6

-----------------------------------------------------------------------------
(* Usable endpoints: at most as many as addresses, and each is drawn.      *)

LEMMA CountedOnce ==
  ASSUME NEW S, NEW T, IsFiniteSet(T), NEW f, \A x \in S : f[x] \in T,
         \A x, y \in S : f[x] = f[y] => x = y
  PROVE  Cardinality(S) <= Cardinality(T)
<1> DEFINE g == [x \in S |-> f[x]]
<1>1. g \in Injection(S, T)
  BY DEF Injection, IsInjective
<1>2. QED
  BY <1>1, FS_Injection

\* What the statistics of a Service count.
SliceEntries(c, key) == UNION {{<<s.name, e>> : e \in s.endpoints} : s \in SlicesOf(c, key)}
LegacyEntries(c, key) ==
  UNION {UNION {{<<e.name, sub, a>> : a \in sub.addresses} : sub \in e.subsets} :
           e \in EndpointsOf(c, key)}
Entries(c, key) == IF SlicesOf(c, key) # {} THEN SliceEntries(c, key) ELSE LegacyEntries(c, key)
UsableEntries(c, key) ==
  IF SlicesOf(c, key) # {} THEN {x \in SliceEntries(c, key) : Usable(x[2])}
                           ELSE {x \in LegacyEntries(c, key) : x[3].ready}

LEMMA StatsCount ==
  ASSUME NEW c, NEW key
  PROVE  /\ Stats(c, key).total = Cardinality(Entries(c, key))
         /\ Stats(c, key).usable = Cardinality(UsableEntries(c, key))
<1>1. CASE SlicesOf(c, key) # {}
  BY <1>1 DEF Stats, SliceStats, Entries, UsableEntries, SliceEntries
<1>2. CASE SlicesOf(c, key) = {}
  BY <1>2 DEF Stats, LegacyStats, Entries, UsableEntries, LegacyEntries
<1>3. QED
  BY <1>1, <1>2

LEMMA FiniteEntries ==
  ASSUME NEW c, Finite(c), NEW key
  PROVE  IsFiniteSet(Entries(c, key))
<1>1. IsFiniteSet(SliceEntries(c, key))
  <2> DEFINE of == [s \in SlicesOf(c, key) |-> {<<s.name, e>> : e \in s.endpoints}]
  <2>1. IsFiniteSet(SlicesOf(c, key)) /\ SlicesOf(c, key) \subseteq c.slices
    BY FS_Subset DEF Finite, SlicesOf
  <2>2. ASSUME NEW s \in SlicesOf(c, key) PROVE IsFiniteSet(of[s])
    <3> DEFINE entry == [e \in s.endpoints |-> <<s.name, e>>]
    <3>1. IsFiniteSet(s.endpoints)
      BY <2>1 DEF Finite
    <3>2. IsFiniteSet({entry[e] : e \in s.endpoints})
      BY <3>1, FiniteImage
    <3>3. of[s] = {entry[e] : e \in s.endpoints}
      OBVIOUS
    <3>4. QED
      BY <3>2, <3>3
  <2>3. SliceEntries(c, key) = UNION {of[s] : s \in SlicesOf(c, key)}
    BY DEF SliceEntries
  <2> HIDE DEF of
  <2>4. QED
    BY <2>1, <2>2, <2>3, FiniteUnion
<1>2. IsFiniteSet(LegacyEntries(c, key))
  <2> DEFINE part(e) == [sub \in e.subsets |-> {<<e.name, sub, a>> : a \in sub.addresses}]
             of == [e \in EndpointsOf(c, key) |->
                      UNION {{<<e.name, sub, a>> : a \in sub.addresses} : sub \in e.subsets}]
  <2>1. IsFiniteSet(EndpointsOf(c, key)) /\ EndpointsOf(c, key) \subseteq c.endpoints
    <3>1. EndpointsOf(c, key) \in SUBSET c.endpoints
      BY DEF EndpointsOf
    <3>2. QED
      BY <3>1, FS_Subset DEF Finite
  <2>2. ASSUME NEW e \in EndpointsOf(c, key) PROVE IsFiniteSet(of[e])
    <3> DEFINE f == part(e)
    <3>1. IsFiniteSet(e.subsets) /\ \A sub \in e.subsets : IsFiniteSet(sub.addresses)
      BY <2>1 DEF Finite
    <3>2. ASSUME NEW sub \in e.subsets PROVE IsFiniteSet(f[sub])
      <4> DEFINE entry == [a \in sub.addresses |-> <<e.name, sub, a>>]
      <4>1. IsFiniteSet({entry[a] : a \in sub.addresses})
        BY <3>1, FiniteImage
      <4>2. f[sub] = {entry[a] : a \in sub.addresses}
        OBVIOUS
      <4>3. QED
        BY <4>1, <4>2
    <3>3. of[e] = UNION {f[sub] : sub \in e.subsets}
      <4>1. of[e] = UNION {{<<e.name, sub, a>> : a \in sub.addresses} : sub \in e.subsets}
        OBVIOUS
      <4>2. \A sub \in e.subsets : f[sub] = {<<e.name, sub, a>> : a \in sub.addresses}
        OBVIOUS
      <4> HIDE DEF f, of
      <4>3. {f[sub] : sub \in e.subsets}
              = {{<<e.name, sub, a>> : a \in sub.addresses} : sub \in e.subsets}
        BY <4>2
      <4>4. QED
        BY <4>1, <4>3
    <3> HIDE DEF f, of
    <3>4. QED
      BY <3>1, <3>2, <3>3, FiniteUnion
  <2>3. LegacyEntries(c, key) = UNION {of[e] : e \in EndpointsOf(c, key)}
    BY DEF LegacyEntries
  <2> HIDE DEF of
  <2>4. QED
    BY <2>1, <2>2, <2>3, FiniteUnion
<1>3. QED
  BY <1>1, <1>2 DEF Entries

\* A Service without selector that has usable endpoints: one of them.
UsableOfSlice(c, key, s, e, a) ==
  s \in SlicesOf(c, key) /\ e \in s.endpoints /\ a \in e.addresses /\ Usable(e)
UsableOfEndpoints(c, key, e, sub, a) ==
  /\ SlicesOf(c, key) = {} /\ e \in c.endpoints /\ Key(e) = key
  /\ sub \in e.subsets /\ a \in sub.addresses /\ a.ready

LEMMA SomeUsable ==
  ASSUME NEW c, NEW key, Stats(c, key).usable # 0,
         \A s \in c.slices : \A e \in s.endpoints : e.addresses # {}
  PROVE  \/ \E s, e, a : UsableOfSlice(c, key, s, e, a)
         \/ \E e, sub, a : UsableOfEndpoints(c, key, e, sub, a)
<1>1. UsableEntries(c, key) # {}
  BY StatsCount, FS_EmptySet
<1>2. CASE SlicesOf(c, key) # {}
  <2>1. PICK x \in SliceEntries(c, key) : Usable(x[2])
    BY <1>1, <1>2 DEF UsableEntries
  <2>2. PICK s \in SlicesOf(c, key) : \E e \in s.endpoints : x = <<s.name, e>>
    BY DEF SliceEntries
  <2>3. PICK e \in s.endpoints : x = <<s.name, e>>
    BY <2>2
  <2>4. s \in c.slices
    BY DEF SlicesOf
  <2>5. PICK a : a \in e.addresses
    BY <2>4
  <2>6. UsableOfSlice(c, key, s, e, a)
    BY <2>1, <2>3, <2>5 DEF UsableOfSlice
  <2>7. QED
    BY <2>6
<1>3. CASE SlicesOf(c, key) = {}
  <2>1. PICK x \in LegacyEntries(c, key) : x[3].ready
    BY <1>1, <1>3 DEF UsableEntries
  <2>2. PICK e \in EndpointsOf(c, key) :
          \E sub \in e.subsets : \E a \in sub.addresses : x = <<e.name, sub, a>>
    BY DEF LegacyEntries
  <2>3. PICK sub \in e.subsets : \E a \in sub.addresses : x = <<e.name, sub, a>>
    BY <2>2
  <2>4. PICK a \in sub.addresses : x = <<e.name, sub, a>>
    BY <2>3
  <2>5. e \in c.endpoints /\ Key(e) = key
    BY <1>3 DEF EndpointsOf
  <2>6. UsableOfEndpoints(c, key, e, sub, a)
    BY <1>3, <2>1, <2>4, <2>5 DEF UsableOfEndpoints
  <2>7. QED
    BY <2>6
<1>4. QED
  BY <1>2, <1>3

LEMMA FiniteAddresses ==
  ASSUME Finite(cluster), NEW svc
  PROVE  IsFiniteSet(Addresses(svc))
<1> DEFINE slices == SlicesOf(cluster, Key(svc))
           legacy == {x \in cluster.endpoints : Key(x) = Key(svc)}
           first == [s \in slices |-> UNION {e.addresses : e \in s.endpoints}]
           second == [e \in legacy |-> UNION {{a.ip : a \in sub.addresses} : sub \in e.subsets}]
<1>1. slices \in SUBSET cluster.slices /\ legacy \in SUBSET cluster.endpoints
  BY DEF SlicesOf
<1>2. IsFiniteSet(slices) /\ IsFiniteSet(legacy)
  BY <1>1, FS_Subset DEF Finite
<1>3. ASSUME NEW s \in slices PROVE IsFiniteSet(first[s])
  <2> DEFINE part == [e \in s.endpoints |-> e.addresses]
  <2>1. IsFiniteSet(s.endpoints) /\ \A e \in s.endpoints : IsFiniteSet(part[e])
    BY <1>1 DEF Finite
  <2>2. {part[e] : e \in s.endpoints} = {e.addresses : e \in s.endpoints}
    OBVIOUS
  <2>3. first[s] = UNION {e.addresses : e \in s.endpoints}
    OBVIOUS
  <2> HIDE DEF part, first, slices
  <2>4. IsFiniteSet(UNION {part[e] : e \in s.endpoints})
    BY <2>1, FiniteUnion
  <2>5. QED
    BY <2>2, <2>3, <2>4
<1>4. ASSUME NEW e \in legacy PROVE IsFiniteSet(second[e])
  <2> DEFINE part == [sub \in e.subsets |-> {a.ip : a \in sub.addresses}]
  <2>1. IsFiniteSet(e.subsets) /\ \A sub \in e.subsets : IsFiniteSet(sub.addresses)
    BY <1>1 DEF Finite
  <2>2. ASSUME NEW sub \in e.subsets PROVE IsFiniteSet(part[sub])
    <3> DEFINE ip == [a \in sub.addresses |-> a.ip]
    <3>1. IsFiniteSet({ip[a] : a \in sub.addresses})
      BY <2>1, FiniteImage
    <3>2. part[sub] = {ip[a] : a \in sub.addresses}
      OBVIOUS
    <3>3. QED
      BY <3>1, <3>2
  <2>3. \A sub \in e.subsets : part[sub] = {a.ip : a \in sub.addresses}
    OBVIOUS
  <2>4. second[e] = UNION {{a.ip : a \in sub.addresses} : sub \in e.subsets}
    OBVIOUS
  <2> HIDE DEF part, second, legacy
  <2>5. {part[sub] : sub \in e.subsets} = {{a.ip : a \in sub.addresses} : sub \in e.subsets}
    BY <2>3
  <2>6. IsFiniteSet(UNION {part[sub] : sub \in e.subsets})
    BY <2>1, <2>2, FiniteUnion
  <2>7. QED
    BY <2>4, <2>5, <2>6
<1>5. Addresses(svc) = (UNION {first[s] : s \in slices}) \cup (UNION {second[e] : e \in legacy})
  <2>1. \A s \in slices : first[s] = UNION {e.addresses : e \in s.endpoints}
    OBVIOUS
  <2>2. \A e \in legacy : second[e] = UNION {{a.ip : a \in sub.addresses} : sub \in e.subsets}
    OBVIOUS
  <2>3. Addresses(svc) =
          (UNION {UNION {e.addresses : e \in s.endpoints} : s \in slices})
            \cup (UNION {UNION {{a.ip : a \in sub.addresses} : sub \in e.subsets} : e \in legacy})
    BY DEF Addresses
  <2> HIDE DEF first, second, slices, legacy
  <2>4. {first[s] : s \in slices} = {UNION {e.addresses : e \in s.endpoints} : s \in slices}
    BY <2>1
  <2>5. {second[e] : e \in legacy}
          = {UNION {{a.ip : a \in sub.addresses} : sub \in e.subsets} : e \in legacy}
    BY <2>2
  <2>6. QED
    BY <2>3, <2>4, <2>5
<1> HIDE DEF first, second, slices, legacy
<1> DEFINE A == UNION {first[s] : s \in slices}
           B == UNION {second[e] : e \in legacy}
<1>6. IsFiniteSet(A) /\ IsFiniteSet(B)
  BY <1>2, <1>3, <1>4, FiniteUnion
<1>7. Addresses(svc) = A \cup B
  BY <1>5
<1> HIDE DEF A, B
<1>8. QED
  BY <1>6, <1>7, FS_Union

\* Where addresses are listed once, no two usable entries share an address.
LEMMA UsableHaveAddresses ==
  ASSUME ListedOnce, NEW svc, Finite(cluster)
  PROVE  Cardinality(UsableEntries(cluster, Key(svc))) <= Cardinality(Addresses(svc))
<1> DEFINE key == Key(svc)
<1>1. IsFiniteSet(Addresses(svc))
  BY FiniteAddresses
<1>2. CASE SlicesOf(cluster, key) # {}
  <2> DEFINE S == {x \in SliceEntries(cluster, key) : Usable(x[2])}
             f == [x \in S |-> CHOOSE a : a \in x[2].addresses]
  <2>1. ASSUME NEW x \in S
        PROVE  \E s \in cluster.slices : \E e \in s.endpoints :
                 /\ x = <<s.name, e>> /\ <<s.ns, s.service>> = key
                 /\ f[x] \in e.addresses /\ f[x] \in Addresses(svc)
    <3>1. PICK s \in SlicesOf(cluster, key) : \E e \in s.endpoints : x = <<s.name, e>>
      BY DEF SliceEntries
    <3>2. PICK e \in s.endpoints : x = <<s.name, e>>
      BY <3>1
    <3>3. s \in cluster.slices /\ <<s.ns, s.service>> = key
      BY DEF SlicesOf
    <3>4. e.addresses # {}
      BY <3>3 DEF ListedOnce
    <3>5. f[x] = CHOOSE a : a \in e.addresses
      BY <3>2
    <3>6. f[x] \in e.addresses
      BY <3>4, <3>5
    <3> HIDE DEF f
    <3>7. f[x] \in Addresses(svc)
      BY <3>1, <3>2, <3>6 DEF Addresses
    <3>8. QED
      BY <3>2, <3>3, <3>6, <3>7
  <2> HIDE DEF f
  <2>2. ASSUME NEW x \in S, NEW y \in S, f[x] = f[y] PROVE x = y
    <3>1. PICK s \in cluster.slices : \E e \in s.endpoints :
            x = <<s.name, e>> /\ <<s.ns, s.service>> = key /\ f[x] \in e.addresses
      BY <2>1
    <3>2. PICK e \in s.endpoints :
            x = <<s.name, e>> /\ <<s.ns, s.service>> = key /\ f[x] \in e.addresses
      BY <3>1
    <3>3. PICK t \in cluster.slices : \E o \in t.endpoints :
            y = <<t.name, o>> /\ <<t.ns, t.service>> = key /\ f[y] \in o.addresses
      BY <2>1
    <3>4. PICK o \in t.endpoints :
            y = <<t.name, o>> /\ <<t.ns, t.service>> = key /\ f[y] \in o.addresses
      BY <3>3
    <3>5. e.addresses \cap o.addresses # {}
      BY <2>2, <3>2, <3>4
    <3>6. <<s, e>> = <<t, o>>
      BY <3>2, <3>4, <3>5 DEF ListedOnce
    <3>7. QED
      BY <3>2, <3>4, <3>6
  <2>3. UsableEntries(cluster, key) = S
    BY <1>2 DEF UsableEntries
  <2> HIDE DEF S
  <2>4. QED
    BY <1>1, <2>1, <2>2, <2>3, CountedOnce
<1>3. CASE SlicesOf(cluster, key) = {}
  <2> DEFINE S == {x \in LegacyEntries(cluster, key) : x[3].ready}
             f == [x \in S |-> x[3].ip]
  <2>1. ASSUME NEW x \in S
        PROVE  \E e \in cluster.endpoints : \E sub \in e.subsets : \E a \in sub.addresses :
                 x = <<e.name, sub, a>> /\ Key(e) = key /\ f[x] = a.ip /\ f[x] \in Addresses(svc)
    <3>1. PICK e \in EndpointsOf(cluster, key) :
            \E sub \in e.subsets : \E a \in sub.addresses : x = <<e.name, sub, a>>
      BY DEF LegacyEntries
    <3>2. PICK sub \in e.subsets : \E a \in sub.addresses : x = <<e.name, sub, a>>
      BY <3>1
    <3>3. PICK a \in sub.addresses : x = <<e.name, sub, a>>
      BY <3>2
    <3>4. e \in cluster.endpoints /\ Key(e) = key
      BY <1>3 DEF EndpointsOf
    <3>5. f[x] = a.ip
      BY <3>3
    <3>6. a.ip \in Addresses(svc)
      BY <3>4 DEF Addresses
    <3>7. QED
      BY <3>3, <3>4, <3>5, <3>6
  <2> HIDE DEF f
  <2>2. ASSUME NEW x \in S, NEW y \in S, f[x] = f[y] PROVE x = y
    <3>1. PICK e \in cluster.endpoints : \E sub \in e.subsets : \E a \in sub.addresses :
            x = <<e.name, sub, a>> /\ Key(e) = key /\ f[x] = a.ip
      BY <2>1
    <3>2. PICK sub \in e.subsets : \E a \in sub.addresses :
            x = <<e.name, sub, a>> /\ Key(e) = key /\ f[x] = a.ip
      BY <3>1
    <3>3. PICK a \in sub.addresses : x = <<e.name, sub, a>> /\ Key(e) = key /\ f[x] = a.ip
      BY <3>2
    <3>4. PICK o \in cluster.endpoints : \E part \in o.subsets : \E b \in part.addresses :
            y = <<o.name, part, b>> /\ Key(o) = key /\ f[y] = b.ip
      BY <2>1
    <3>5. PICK part \in o.subsets : \E b \in part.addresses :
            y = <<o.name, part, b>> /\ Key(o) = key /\ f[y] = b.ip
      BY <3>4
    <3>6. PICK b \in part.addresses : y = <<o.name, part, b>> /\ Key(o) = key /\ f[y] = b.ip
      BY <3>5
    <3>7. <<e, sub, a>> = <<o, part, b>>
      BY <2>2, <3>3, <3>6 DEF ListedOnce
    <3>8. QED
      BY <3>3, <3>6, <3>7
  <2>3. UsableEntries(cluster, key) = S
    BY <1>3 DEF UsableEntries
  <2> HIDE DEF S
  <2>4. QED
    BY <1>1, <2>1, <2>2, <2>3, CountedOnce
<1>4. QED
  BY <1>2, <1>3

-----------------------------------------------------------------------------
(* A route that is shown as ready: what diagnoseIngressRoute found.        *)

\* The snapshot shows of a build from everything, what it shows of its own.
LEMMA WholeShows ==
  ASSUME NEW c, IsCluster(c)
  PROVE  IsFiniteSet(Ids(Build(c))) /\ ShowsOf(Build(c), Snapshot(c).graph)
<1> DEFINE g == Build(c)
<1>1. IsFiniteSet(Ids(g))
  BY FiniteNodes DEF IsCluster
<1>2. Snapshot(c).graph = Visible(g)
  BY ScopingIsEconomy
<1> HIDE DEF g
<1>3. Visited(g) \subseteq DOMAIN g.nodes
  BY <1>1, VisitedIsReachable DEF Ids
<1>4. /\ Visible(g).nodes = [n \in Visited(g) |-> g.nodes[n]]
      /\ Visible(g).edges = [e \in {x \in DOMAIN g.edges : {x[1], x[2]} \subseteq Visited(g)} |->
                               g.edges[e]]
  BY DEF Visible
<1>5. ShowsOf(g, Visible(g))
  BY <1>3, <1>4 DEF ShowsOf
<1>6. QED
  BY <1>1, <1>2, <1>5 DEF g

\* An edge that is followed is shown with the node it leads from.
LEMMA LeadsOn ==
  ASSUME NEW c, IsCluster(c), NEW e \in DOMAIN Build(c).edges, e[1] \in Visited(Build(c)),
         e[3] \in KindsOf(Forward, Build(c).nodes[e[1]])
  PROVE  e[2] \in Visited(Build(c)) /\ e \in DOMAIN Snapshot(c).graph.edges
<1> DEFINE g == Build(c)
<1>1. e[2] \in Ids(g)
  BY EndsAreDrawn, AddressedScoped DEF Ids
<1>2. e[2] \in Neighbors(g, e[1])
  BY NeighborsAre
<1>3. IsFiniteSet(Ids(g)) /\ ShowsOf(g, Snapshot(c).graph)
  BY WholeShows
<1> HIDE DEF g
<1>4. Follows(g, e[1], e[2])
  BY <1>1, <1>2 DEF Follows
<1>5. e[2] \in Visited(g)
  BY <1>3, <1>4, VisitedIsReachable DEF g
<1>6. QED
  BY <1>3, <1>5 DEF ShowsOf, g

LEMMA ForwardOf ==
  \A node : /\ node.kind = "Route" => "routes" \in KindsOf(Forward, node)
            /\ node.kind = "Service" =>
                 {"selects", "endpointslice", "endpoint"} \subseteq KindsOf(Forward, node)
BY DEF KindsOf, Forward

\* A pod is drawn as it is.
LEMMA PodIs ==
  ASSUME NEW c, Apart(c), NEW p \in ToSet(c.pods)
  PROVE  Build(c).nodes[PodID(p)] = ShowPod(p)
<1> DEFINE id == PodID(p)
           f1 == ControllerNodes(c)
           f2 == WorkloadNodes(c)
           f3 == ExposureNodes(c)
           f4 == IngressNodes(c)
           f5 == ExternalNodes(c)
           f6 == EndpointNodes(c)
<1>1. f2[id] = ShowPod(p)
  BY WorkloadValues
<1>2. id[1] = "Pod"
  BY Heads
<1>3. id \in DOMAIN Build(c).nodes
  BY BuildNodesAre DEF NodeIDs, WorkloadIDs, PodIDs
<1>4. Build(c).nodes = Merge(<<f1, f2, f3, f4, f5, f6>>)
  BY DEF Build
<1>5. /\ DOMAIN f1 = ControllerIDs(c) /\ DOMAIN f3 = ExposureIDs(c)
      /\ DOMAIN f4 = AllIngressIDs(c) /\ DOMAIN f5 = ExternalIDs(c)
      /\ DOMAIN f6 = AllEndpointIDs(c)
  BY ControllerNodesAre, ExposureNodesAre, IngressNodesAre, ExternalNodesAre, EndpointNodesAre
     DEF ControllerIDs, ExposureIDs, AllIngressIDs, ExternalIDs, AllEndpointIDs
<1> HIDE DEF id, f1, f2, f3, f4, f5, f6
<1>6. /\ id \notin DOMAIN f1 /\ id \notin DOMAIN f3 /\ id \notin DOMAIN f4
      /\ id \notin DOMAIN f5 /\ id \notin DOMAIN f6
  BY <1>2, <1>5, FamilyHeads
<1>7. Build(c).nodes[id] = f2[id]
  BY <1>3, <1>4, <1>6, Merged6
<1>8. QED
  BY <1>1, <1>7 DEF id

\* The address of an endpoint is drawn with the state of that endpoint, when
\* it is listed once.
LEMMA EndpointNodeIs ==
  ASSUME NEW c, NEW n \in AllEndpointIDs(c)
  PROVE  Build(c).nodes[n] = EndpointNodes(c)[n]
<1> DEFINE f1 == ControllerNodes(c)
           f2 == WorkloadNodes(c)
           f3 == ExposureNodes(c)
           f4 == IngressNodes(c)
           f5 == ExternalNodes(c)
           f6 == EndpointNodes(c)
<1>1. n[1] \in {"EndpointSlice", "Endpoint"}
  BY FamilyHeads
<1>2. n \in DOMAIN Build(c).nodes
  BY BuildNodesAre DEF NodeIDs
<1>3. Build(c).nodes = Merge(<<f1, f2, f3, f4, f5, f6>>)
  BY DEF Build
<1>4. /\ DOMAIN f1 = ControllerIDs(c) /\ DOMAIN f2 = WorkloadIDs(c)
      /\ DOMAIN f3 = ExposureIDs(c) /\ DOMAIN f4 = AllIngressIDs(c)
      /\ DOMAIN f5 = ExternalIDs(c)
  BY ControllerNodesAre, WorkloadNodesAre, ExposureNodesAre, IngressNodesAre, ExternalNodesAre
     DEF ControllerIDs, WorkloadIDs, ExposureIDs, AllIngressIDs, ExternalIDs
<1>5. n \notin WorkloadIDs(c)
  <2>1. n \notin ExternalNameIDs(c)
    BY EndpointsApart, Heads DEF AllEndpointIDs, SliceEndpointIDs, ExternalNameIDs
  <2>2. QED
    BY <1>1, <2>1, Heads DEF WorkloadIDs, HostIDs, PodIDs, ServiceIDs
<1> HIDE DEF f1, f2, f3, f4, f5, f6
<1>6. /\ n \notin DOMAIN f1 /\ n \notin DOMAIN f2 /\ n \notin DOMAIN f3
      /\ n \notin DOMAIN f4 /\ n \notin DOMAIN f5
  BY <1>1, <1>4, <1>5, FamilyHeads
<1>7. Build(c).nodes[n] = f6[n]
  BY <1>2, <1>3, <1>6, Merged6
<1>8. QED
  BY <1>7 DEF f6

LEMMA EndpointStates ==
  ASSUME NEW c
  PROVE  /\ \A x \in SliceEndpoints(c) :
              (\A y \in SliceEndpoints(c) :
                 SliceEndpointID(y[1], y[3]) = SliceEndpointID(x[1], x[3]) => y[2] = x[2])
              => Build(c).nodes[SliceEndpointID(x[1], x[3])]
                   = ShowEndpoint("EndpointSlice", Usable(x[2]))
         /\ \A x \in LegacyEndpoints(c) :
              (\A y \in LegacyEndpoints(c) :
                 EndpointID(y[1], y[2].ip) = EndpointID(x[1], x[2].ip) => y[2] = x[2])
              => Build(c).nodes[EndpointID(x[1], x[2].ip)] = ShowEndpoint("Endpoint", x[2].ready)
<1> DEFINE f1 == SliceNodes(c)
           f2 == LegacyNodes(c)
<1>1. EndpointNodes(c) = Merge(<<f1, f2>>)
  BY DEF EndpointNodes, SliceNodes, LegacyNodes
<1>2. DOMAIN f1 = SliceEndpointIDs(c) /\ DOMAIN f2 = LegacyEndpointIDs(c)
  BY DEF SliceNodes, LegacyNodes, Drawn, SliceEndpointIDs, LegacyEndpointIDs
<1>3. ASSUME NEW x \in SliceEndpoints(c),
             \A y \in SliceEndpoints(c) :
               SliceEndpointID(y[1], y[3]) = SliceEndpointID(x[1], x[3]) => y[2] = x[2]
      PROVE  f1[SliceEndpointID(x[1], x[3])] = ShowEndpoint("EndpointSlice", Usable(x[2]))
  <2> DEFINE n == SliceEndpointID(x[1], x[3])
             of(m) == CHOOSE y \in SliceEndpoints(c) : SliceEndpointID(y[1], y[3]) = m
  <2>1. of(n) \in SliceEndpoints(c) /\ SliceEndpointID(of(n)[1], of(n)[3]) = n
    OBVIOUS
  <2>2. of(n)[2] = x[2]
    BY <1>3, <2>1
  <2>3. f1 = [m \in SliceEndpointIDs(c) |-> ShowEndpoint("EndpointSlice", Usable(of(m)[2]))]
    BY DEF SliceNodes, Drawn, SliceEndpointIDs
  <2>4. n \in SliceEndpointIDs(c)
    BY DEF SliceEndpointIDs
  <2> HIDE DEF of, n, f1
  <2>5. QED
    BY <2>2, <2>3, <2>4 DEF n
<1>4. ASSUME NEW x \in LegacyEndpoints(c),
             \A y \in LegacyEndpoints(c) :
               EndpointID(y[1], y[2].ip) = EndpointID(x[1], x[2].ip) => y[2] = x[2]
      PROVE  f2[EndpointID(x[1], x[2].ip)] = ShowEndpoint("Endpoint", x[2].ready)
  <2> DEFINE n == EndpointID(x[1], x[2].ip)
             of(m) == CHOOSE y \in LegacyEndpoints(c) : EndpointID(y[1], y[2].ip) = m
  <2>1. of(n) \in LegacyEndpoints(c) /\ EndpointID(of(n)[1], of(n)[2].ip) = n
    OBVIOUS
  <2>2. of(n)[2] = x[2]
    BY <1>4, <2>1
  <2>3. f2 = [m \in LegacyEndpointIDs(c) |-> ShowEndpoint("Endpoint", of(m)[2].ready)]
    BY DEF LegacyNodes, Drawn, LegacyEndpointIDs
  <2>4. n \in LegacyEndpointIDs(c)
    BY DEF LegacyEndpointIDs
  <2> HIDE DEF of, n, f2
  <2>5. QED
    BY <2>2, <2>3, <2>4 DEF n
<1>5. /\ \A n \in SliceEndpointIDs(c) : n[1] = "EndpointSlice"
      /\ \A n \in LegacyEndpointIDs(c) : n[1] = "Endpoint"
  BY Heads DEF SliceEndpointIDs, LegacyEndpointIDs
<1> HIDE DEF f1, f2
<1>6. /\ \A n \in SliceEndpointIDs(c) : EndpointNodes(c)[n] = f1[n]
      /\ \A n \in LegacyEndpointIDs(c) : EndpointNodes(c)[n] = f2[n]
  BY <1>1, <1>2, <1>5, Merged2
<1>7. /\ \A x \in SliceEndpoints(c) : SliceEndpointID(x[1], x[3]) \in SliceEndpointIDs(c)
      /\ \A x \in LegacyEndpoints(c) : EndpointID(x[1], x[2].ip) \in LegacyEndpointIDs(c)
  BY DEF SliceEndpointIDs, LegacyEndpointIDs
<1>8. \A n \in SliceEndpointIDs(c) \cup LegacyEndpointIDs(c) :
        Build(c).nodes[n] = EndpointNodes(c)[n]
  BY EndpointNodeIs DEF AllEndpointIDs
<1>9. QED
  BY <1>3, <1>4, <1>6, <1>7, <1>8

\* What the finding "ready" rests on: a ready pod behind the selector, or a
\* usable endpoint when there is no selector.
LEMMA ReadyEndpoints ==
  ASSUME NEW c, Finite(c), NEW svc, NEW port, DiagnoseEndpoints(c, svc, port).severity = "ok"
  PROVE  /\ svc.selector # {} => \E p \in PodsOf(svc, c.pods) : p.ready
         /\ svc.selector = {} => Stats(c, Key(svc)).usable # 0
<1> DEFINE pods == PodsOf(svc, c.pods)
           stats == Stats(c, Key(svc))
           ports == BackendPorts(svc, port)
           idle == IF ports = <<>> THEN {} ELSE NonEndpointPods(c, svc, Head(ports).name)
           counted ==
             IF stats.total > 0 /\ stats.usable = 0 THEN Diagnosis("no usable endpoint", "error")
             ELSE IF stats.total = 0 /\ svc.selector = {}
                  THEN Diagnosis("no endpoint data", "warning")
             ELSE IF idle # {} THEN Diagnosis("pods are not endpoints", "warning")
             ELSE IF stats.total = 0 THEN Diagnosis("no endpoint data", "warning")
             ELSE IF stats.terminating > 0 THEN Diagnosis("terminating endpoints", "warning")
             ELSE Diagnosis("ready", "ok")
           d == DiagnoseEndpoints(c, svc, port)
<1>1. \A finding : /\ Diagnosis(finding, "error").severity # "ok"
                   /\ Diagnosis(finding, "warning").severity # "ok"
  BY DEF Diagnosis
<1>2. svc.selector = {} => pods = {}
  BY DEF PodsOf, Selects
<1>3. d = CASE ~(svc.selector = {}) /\ pods = {} -> Diagnosis("selector matches no pod", "error")
            [] pods # {} /\ (\A p \in pods : ~p.ready) -> Diagnosis("no pod is ready", "error")
            [] (svc.selector = {} \/ \E p \in pods : p.ready) -> counted
  BY DEF DiagnoseEndpoints
<1>4. stats.total \in Nat
  BY StatsCount, FiniteEntries, FS_CardinalityType
<1>5. CASE svc.selector # {}
  <2>1. pods # {}
    <3>1. ASSUME pods = {} PROVE d = Diagnosis("selector matches no pod", "error")
      <4> HIDE DEF pods, counted, d
      <4>1. QED
        BY <1>3, <1>5, <3>1
    <3> HIDE DEF d, pods
    <3>2. QED
      BY <1>1, <3>1 DEF d
  <2>2. \E p \in pods : p.ready
    <3>1. ASSUME \A p \in pods : ~p.ready PROVE d = Diagnosis("no pod is ready", "error")
      <4> HIDE DEF pods, counted, d
      <4>1. QED
        BY <1>3, <1>5, <2>1, <3>1
    <3> HIDE DEF d, pods
    <3>2. QED
      BY <1>1, <3>1 DEF d
  <2>3. QED
    BY <1>5, <2>2
<1>6. CASE svc.selector = {}
  <2>1. d = counted
    <3> HIDE DEF pods, counted, d
    <3>1. QED
      BY <1>2, <1>3, <1>6
  <2>2. counted.severity = "ok"
    BY <2>1
  <2>3. ~(stats.total > 0 /\ stats.usable = 0)
    <3>1. ASSUME stats.total > 0 /\ stats.usable = 0 PROVE FALSE
      <4>1. counted = Diagnosis("no usable endpoint", "error")
        BY <3>1
      <4> HIDE DEF counted, stats
      <4>2. QED
        BY <1>1, <2>2, <4>1
    <3>2. QED
      BY <3>1
  <2>4. stats.total # 0
    <3>1. ASSUME stats.total = 0 PROVE FALSE
      <4>1. counted = Diagnosis("no endpoint data", "warning")
        <5> HIDE DEF stats, ports, idle
        <5>1. QED
          BY <1>6, <3>1
      <4> HIDE DEF counted, stats
      <4>2. QED
        BY <1>1, <2>2, <4>1
    <3>2. QED
      BY <3>1
  <2> HIDE DEF stats
  <2>5. stats.usable # 0
    BY <1>4, <2>3, <2>4
  <2>6. QED
    BY <1>6, <2>5 DEF stats
<1>7. QED
  BY <1>5, <1>6

LEMMA ReadyService ==
  ASSUME NEW c, NEW i, NEW k, Diagnose(c, i, k).severity = "ok"
  PROVE  \E svc \in ServicesNamed(c, ServiceKey(i, k)) :
           DiagnoseEndpoints(c, svc, i.routes[k].port).severity = "ok"
<1> DEFINE port == i.routes[k].port
           found == ServicesNamed(c, ServiceKey(i, k))
           svc == CHOOSE s \in found : TRUE
           passesPort == svc.type = "ExternalName" /\ svc.ports = <<>>
           d == Diagnose(c, i, k)
<1>1. \A finding : /\ Diagnosis(finding, "error").severity # "ok"
                   /\ Diagnosis(finding, "warning").severity # "ok"
                   /\ Diagnosis(finding, "info").severity # "ok"
  BY DEF Diagnosis
<1>2. found # {} /\ i.routes[k].service # None
  BY WorkingIsServed
<1>3. svc \in found
  BY <1>2
<1>4. d = IF ~passesPort /\ BackendPorts(svc, port) = <<>> THEN Diagnosis("no such port", "error")
          ELSE IF IngressController(c, i) = None THEN Diagnosis("no controller", "warning")
          ELSE IF svc.type = "ExternalName" /\ svc.external # None
               THEN Diagnosis("ExternalName", "info")
          ELSE DiagnoseEndpoints(c, svc, port)
  BY <1>2 DEF Diagnose
<1>5. d.severity = "ok"
  OBVIOUS
<1> HIDE DEF d, svc, found, port, passesPort
<1>6. d = DiagnoseEndpoints(c, svc, port)
  BY <1>1, <1>4, <1>5
<1>7. QED
  BY <1>3, <1>5, <1>6 DEF found, port

\* Where a usable endpoint of a Service without selector is drawn.
LEMMA UsableIsDrawn ==
  ASSUME ListedOnce, NEW c, Addressed(c), c.slices = cluster.slices, c.endpoints = cluster.endpoints,
         NEW svc \in c.services, svc.selector = {}, Stats(c, Key(svc)).usable # 0
  PROVE  \E n, kind : /\ kind \in {"endpoint", "endpointslice"}
                      /\ <<ServiceID(svc), n, kind>> \in DOMAIN Build(c).edges
                      /\ n[1] = "Pod" \/ Build(c).nodes[n].status = "Ready"
<1> DEFINE key == Key(svc)
           drawn(n, kind) == <<ServiceID(svc), n, kind>> \in DOMAIN Build(c).edges
<1>1. \A e : SliceEdge(c, e) \/ EndpointEdge(c, e) => e \in DOMAIN Build(c).edges
  BY EndpointEdgesAre, BuildEdgesAre
<1>2. ShowEndpoint("EndpointSlice", TRUE).status = "Ready"
      /\ ShowEndpoint("Endpoint", TRUE).status = "Ready"
  BY DEF ShowEndpoint, Shows
<1>3. ASSUME NEW s, NEW e, NEW a, UsableOfSlice(c, key, s, e, a)
      PROVE  \E n : /\ drawn(n, "endpointslice")
                    /\ n[1] = "Pod" \/ Build(c).nodes[n].status = "Ready"
  <2>1. s \in c.slices /\ <<s.ns, s.service>> = key /\ e \in s.endpoints /\ a \in e.addresses
        /\ Usable(e)
    BY <1>3 DEF UsableOfSlice, SlicesOf
  <2>2. s \in ManualSlices(c)
    BY <2>1 DEF ManualSlices, Selectorless
  <2>3. SliceServiceID(s) = ServiceID(svc)
    BY <2>1 DEF SliceServiceID, ServiceID, ID, Key
  <2>4. CASE PodBehind(c.pods, s.ns, e.target, a) # {}
    <3>1. PICK p : p \in PodBehind(c.pods, s.ns, e.target, a)
      BY <2>4
    <3>2. p \in SlicePods(c.pods, s)
      BY <2>1, <3>1 DEF SlicePods
    <3>3. <<s, p>> \in SlicePairs(c)
      BY <2>2, <3>2 DEF SlicePairs, PairsOf
    <3>4. SliceEdge(c, <<SliceServiceID(s), PodID(p), "endpointslice">>)
      BY <3>3 DEF SliceEdge
    <3>5. drawn(PodID(p), "endpointslice")
      BY <1>1, <2>3, <3>4
    <3>6. QED
      BY <3>5, Heads
  <2>5. CASE PodBehind(c.pods, s.ns, e.target, a) = {}
    <3> DEFINE x == <<s, e, a>>
               n == SliceEndpointID(s, a)
    <3>1. x \in SliceAddresses(c) /\ x \in SliceEndpoints(c)
      BY <2>1, <2>2, <2>5, SliceAddressesAre, AllAddressed
    <3>2. x[1] = s /\ x[2] = e /\ x[3] = a
      OBVIOUS
    <3>3. ASSUME NEW y \in SliceEndpoints(c), SliceEndpointID(y[1], y[3]) = n
          PROVE  y[2] = e
      <4>1. PICK t \in ManualSlices(c) : \E f \in t.endpoints : \E b \in f.addresses :
              y = <<t, f, b>>
        BY SliceAddressesAre, AllAddressed
      <4>2. PICK f \in t.endpoints : \E b \in f.addresses : y = <<t, f, b>>
        BY <4>1
      <4>3. PICK b \in f.addresses : y = <<t, f, b>>
        BY <4>2
      <4>4. t \in c.slices
        BY DEF ManualSlices
      <4>5. t.ns = s.ns /\ t.service = s.service /\ b = a
        BY <3>3, <4>3 DEF SliceEndpointID
      <4>6. f.addresses \cap e.addresses # {}
        BY <2>1, <4>5
      <4>7. <<t, f>> = <<s, e>>
        BY <2>1, <4>4, <4>5, <4>6 DEF ListedOnce
      <4>8. QED
        BY <4>3, <4>7
    <3> HIDE DEF x, n
    <3>4. Build(c).nodes[SliceEndpointID(x[1], x[3])]
            = ShowEndpoint("EndpointSlice", Usable(x[2]))
      BY <3>1, <3>2, <3>3, EndpointStates DEF n
    <3>5. Build(c).nodes[n].status = "Ready"
      <4>1. ShowEndpoint("EndpointSlice", Usable(e)).status = "Ready"
        BY <2>1 DEF ShowEndpoint, Shows
      <4>2. QED
        BY <3>2, <3>4, <4>1 DEF n
    <3>6. SliceEdge(c, <<SliceServiceID(x[1]), SliceEndpointID(x[1], x[3]), "endpointslice">>)
      BY <3>1 DEF SliceEdge
    <3>7. drawn(n, "endpointslice")
      BY <1>1, <2>3, <3>2, <3>6 DEF n
    <3>8. QED
      BY <3>5, <3>7
  <2>6. QED
    BY <2>4, <2>5
<1>4. ASSUME NEW e, NEW sub, NEW a, UsableOfEndpoints(c, key, e, sub, a)
      PROVE  \E n : /\ drawn(n, "endpoint")
                    /\ n[1] = "Pod" \/ Build(c).nodes[n].status = "Ready"
  <2>1. /\ e \in c.endpoints /\ Key(e) = key /\ sub \in e.subsets /\ a \in sub.addresses
        /\ a.ready
    BY <1>4 DEF UsableOfEndpoints
  <2>2. e \in ManualEndpoints(c)
    BY <1>4, <2>1 DEF UsableOfEndpoints, ManualEndpoints, Selectorless
  <2>3. EndpointServiceID(e) = ServiceID(svc)
    BY <2>1 DEF EndpointServiceID, ServiceID, ID, Key
  <2>4. CASE PodBehind(c.pods, e.ns, a.target, a.ip) # {}
    <3>1. PICK p : p \in PodBehind(c.pods, e.ns, a.target, a.ip)
      BY <2>4
    <3>2. p \in SubsetPods(c.pods, e.ns, sub)
      BY <2>1, <3>1 DEF SubsetPods
    <3>3. p \in EndpointPods(c.pods, e)
      BY <2>1, <3>2 DEF EndpointPods
    <3>4. <<e, p>> \in EndpointPairs(c)
      BY <2>2, <3>3 DEF EndpointPairs, PairsOf
    <3>5. EndpointEdge(c, <<EndpointServiceID(e), PodID(p), "endpoint">>)
      BY <3>4 DEF EndpointEdge
    <3>6. drawn(PodID(p), "endpoint")
      BY <1>1, <2>3, <3>5
    <3>7. QED
      BY <3>6, Heads
  <2>5. CASE PodBehind(c.pods, e.ns, a.target, a.ip) = {}
    <3> DEFINE x == <<e, a>>
               n == EndpointID(e, a.ip)
    <3>1. x \in LegacyAddresses(c) /\ x \in LegacyEndpoints(c)
      BY <2>1, <2>2, <2>5, LegacyAddressesAre, AllAddressed
    <3>2. x[1] = e /\ x[2] = a
      OBVIOUS
    <3>3. ASSUME NEW y \in LegacyEndpoints(c), EndpointID(y[1], y[2].ip) = n
          PROVE  y[2] = a
      <4>1. PICK o \in ManualEndpoints(c) : \E part \in o.subsets : \E b \in part.addresses :
              y = <<o, b>>
        BY LegacyAddressesAre, AllAddressed
      <4>2. PICK part \in o.subsets : \E b \in part.addresses : y = <<o, b>>
        BY <4>1
      <4>3. PICK b \in part.addresses : y = <<o, b>>
        BY <4>2
      <4>4. o \in c.endpoints
        BY DEF ManualEndpoints
      <4>5. Key(o) = Key(e) /\ b.ip = a.ip
        BY <3>3, <4>3 DEF EndpointID, Key
      <4>6. <<o, part, b>> = <<e, sub, a>>
        BY <2>1, <4>4, <4>5 DEF ListedOnce
      <4>7. QED
        BY <4>3, <4>6
    <3> HIDE DEF x, n
    <3>4. Build(c).nodes[EndpointID(x[1], x[2].ip)] = ShowEndpoint("Endpoint", x[2].ready)
      BY <3>1, <3>2, <3>3, EndpointStates DEF n
    <3>5. Build(c).nodes[n].status = "Ready"
      <4>1. ShowEndpoint("Endpoint", a.ready).status = "Ready"
        BY <2>1 DEF ShowEndpoint, Shows
      <4>2. QED
        BY <3>2, <3>4, <4>1 DEF n
    <3>6. EndpointEdge(c, <<EndpointServiceID(x[1]), EndpointID(x[1], x[2].ip), "endpoint">>)
      BY <3>1 DEF EndpointEdge
    <3>7. drawn(n, "endpoint")
      BY <1>1, <2>3, <3>2, <3>6 DEF n
    <3>8. QED
      BY <3>5, <3>7
  <2>6. QED
    BY <2>4, <2>5
<1>5. \/ \E s, e, a : UsableOfSlice(c, key, s, e, a)
      \/ \E e, sub, a : UsableOfEndpoints(c, key, e, sub, a)
  <2>1. \A s \in c.slices : \A e \in s.endpoints : e.addresses # {}
    BY DEF ListedOnce
  <2>2. QED
    BY <2>1, SomeUsable
<1>6. \E n : \/ /\ drawn(n, "endpointslice")
                /\ n[1] = "Pod" \/ Build(c).nodes[n].status = "Ready"
             \/ /\ drawn(n, "endpoint")
                /\ n[1] = "Pod" \/ Build(c).nodes[n].status = "Ready"
  <2> HIDE DEF drawn, key
  <2>1. QED
    BY <1>3, <1>4, <1>5
<1>7. QED
  BY <1>6

\* What a published snapshot shows behind a route that it shows as ready.
LEMMA ReadyIsServed ==
  ASSUME IInv, Built, NEW x \in RoutesOf(cluster),
         Status(IngressRouteID(x[1], x[2])) = "ok"
  PROVE  \E c : /\ IsCluster(c) /\ SameObjects(c, cluster) /\ latest = Snapshot(c)
                /\ \E svc \in ServicesNamed(c, ServiceKey(x[1], x[2])) :
                     /\ DiagnoseEndpoints(c, svc, x[1].routes[x[2]].port).severity = "ok"
                     /\ Edge(IngressRouteID(x[1], x[2]), ServiceID(svc), "routes")
                     /\ ServiceID(svc) \in Visited(Build(c))
<1>1. PICK c : IsCluster(c) /\ SameObjects(c, cluster) /\ latest = Snapshot(c)
  BY BuiltFrom
<1> DEFINE id == IngressRouteID(x[1], x[2])
           g == Build(c)
           overlap == Overlap(OverlapRoutes(c), x[1], x[2])
<1>2. x \in RoutesOf(c)
  BY <1>1 DEF RoutesOf, SameObjects
<1>3. graph = Snapshot(c).graph
  BY <1>1 DEF graph
<1>4. IsFiniteSet(Ids(g)) /\ ShowsOf(g, graph)
  BY <1>1, <1>3, WholeShows
<1>5. id \in DOMAIN g.nodes /\ id[1] = "Route"
  <2>1. id \in IngressRouteIDs(c)
    BY <1>2 DEF IngressRouteIDs
  <2>2. QED
    BY <2>1, BuildNodesAre, Heads DEF NodeIDs, AllIngressIDs
<1>6. g.nodes[id].kind = "Route"
  BY <1>5, BuildNodesAre DEF KindsFit
<1>7. id \in Visited(g)
  <2>1. id \in Roots(g)
    BY <1>5, <1>6 DEF Roots, Root, Ids
  <2> HIDE DEF g, id
  <2>2. QED
    BY <1>4, <2>1, VisitedIsReachable
<1>8. g.nodes[id] = ShowIngressRoute(c, OverlapRoutes(c), x[1], x[2])
  BY <1>1, <1>2, IngressRouteIs DEF IsCluster
<1>9. ApplyOverlap(Diagnose(c, x[1], x[2]), overlap).severity = "ok"
  <2>1. graph.nodes[id] = g.nodes[id]
    BY <1>4, <1>7 DEF ShowsOf
  <2>2. graph.nodes[id].status = "ok"
    BY DEF Status
  <2> HIDE DEF g, id
  <2>3. RouteDiagnosisOf(c, OverlapRoutes(c), x[1], x[2]).severity = "ok"
    BY <1>8, <2>1, <2>2 DEF ShowIngressRoute, Shows
  <2>4. QED
    BY <2>3 DEF RouteDiagnosisOf
<1>10. Diagnose(c, x[1], x[2]).severity = "ok"
  BY <1>9, WorkingShows
<1>11. PICK svc \in ServicesNamed(c, ServiceKey(x[1], x[2])) :
         DiagnoseEndpoints(c, svc, x[1].routes[x[2]].port).severity = "ok"
  BY <1>10, ReadyService
<1> DEFINE e == <<id, ServiceID(svc), "routes">>
<1>12. ServiceID(svc) = BackendID(x)
  BY DEF ServicesNamed, ServiceKey, Key, ServiceID, ID, BackendID
<1>13. e \in DOMAIN g.edges
  <2>1. x \in Backed(c)
    BY <1>2 DEF Backed
  <2>2. IngressRoutesEdge(c, e)
    BY <1>12, <2>1 DEF IngressRoutesEdge
  <2> HIDE DEF e, g
  <2>3. QED
    BY <2>2, IngressEdgesAre, BuildEdgesAre DEF g
<1>14. e[1] = id /\ e[2] = ServiceID(svc) /\ e[3] = "routes"
  OBVIOUS
<1>15. e[3] \in KindsOf(Forward, g.nodes[id])
  BY <1>6, ForwardOf
<1> HIDE DEF e, id
<1>16. ServiceID(svc) \in Visited(g) /\ e \in DOMAIN graph.edges
  BY <1>1, <1>3, <1>7, <1>13, <1>14, <1>15, LeadsOn
<1>17. Edge(id, ServiceID(svc), "routes")
  BY <1>16 DEF Edge, e
<1>18. QED
  BY <1>1, <1>11, <1>16, <1>17 DEF id

LEMMA LedToFrom ==
  ASSUME NEW c, IsCluster(c), Built, latest = Snapshot(c), NEW svc,
         ServiceID(svc) \in Visited(Build(c)), NEW n,
         NEW kind \in {"selects", "endpoint", "endpointslice"},
         <<ServiceID(svc), n, kind>> \in DOMAIN Build(c).edges
  PROVE  /\ n \in DOMAIN graph.nodes /\ graph.nodes[n] = Build(c).nodes[n]
         /\ Edge(ServiceID(svc), n, kind)
<1> DEFINE e == <<ServiceID(svc), n, kind>>
           g == Build(c)
<1>1. graph = Snapshot(c).graph
  BY DEF graph
<1>2. ShowsOf(g, graph)
  BY <1>1, WholeShows
<1>3. e[1] = ServiceID(svc) /\ e[2] = n /\ e[3] = kind
  OBVIOUS
<1>4. g.nodes[ServiceID(svc)].kind = "Service"
  <2>1. ServiceID(svc) \in DOMAIN g.nodes
    BY <1>2 DEF ShowsOf
  <2>2. QED
    BY <2>1, BuildNodesAre, Heads DEF KindsFit
<1>5. e[3] \in KindsOf(Forward, g.nodes[e[1]])
  <2>1. {"selects", "endpointslice", "endpoint"} \subseteq KindsOf(Forward, g.nodes[ServiceID(svc)])
    BY <1>4, ForwardOf
  <2>2. QED
    BY <1>3, <2>1
<1>6. e \in DOMAIN g.edges
  OBVIOUS
<1> HIDE DEF e
<1>7. n \in Visited(g) /\ e \in DOMAIN graph.edges
  BY <1>1, <1>3, <1>5, <1>6, LeadsOn
<1>8. QED
  BY <1>2, <1>7 DEF Edge, ShowsOf, e

-----------------------------------------------------------------------------
(* The invariants of the runs.                                             *)

\* No edge of a build leads from or to a node that was never added, so that
\* ingressScopedSnapshot never drops an edge between two objects it shows.
THEOREM NothingDangles == Spec => []NoDanglingEdges
<1>1. IInv => NoDanglingEdges
  BY AddressedScoped, EndsAreDrawn DEF IInv, NoDanglingEdges
<1>2. QED
  BY <1>1, Inductive, PTL

\* In every state a published snapshot points only at what it shows, shows each
\* Ingress with all its routes, and counts the pods that the caches hold.
THEOREM TypeCorrect == Spec => []TypeOK
<1>1. IInv => TypeOK
  <2> SUFFICES ASSUME IInv, Built PROVE TypeOK
    BY DEF TypeOK
  <2>1. PICK d : IsCluster(d) /\ SameObjects(d, cluster) /\ latest = Snapshot(d)
    BY BuiltFrom
  <2> DEFINE g == Drawing(d)
             s == Scoped(d)
  <2>2. graph = Shown(d) /\ latest.inventory.pods = Len(d.pods)
    BY <2>1 DEF graph, Shown, Snapshot, Inventory
  <2>3. ShowsOf(g, graph)
    BY <2>1, <2>2, SnapshotShows
  <2>4. s.ingresses = d.ingresses
    <3>1. DOMAIN d = Fields
      BY <2>1 DEF IsCluster
    <3>2. QED
      BY <3>1, ScopedKeeps
  <2>5. RoutesOf(s) = RoutesOf(cluster)
    BY <2>1, <2>4 DEF RoutesOf, SameObjects
  <2>6. ASSUME NEW x \in RoutesOf(cluster)
        PROVE  Edge(IngressID(x[1]), IngressRouteID(x[1], x[2]), "defines")
    <3> DEFINE e == <<IngressID(x[1]), IngressRouteID(x[1], x[2]), "defines">>
    <3>1. DefinesEdge(s, e)
      BY <2>5 DEF DefinesEdge
    <3>2. e[1][1] = "Ingress" /\ e[2][1] = "Route"
      BY Heads
    <3> HIDE DEF e, s
    <3>3. e \in DOMAIN Build(s).edges
      BY <3>1, IngressEdgesAre, BuildEdgesAre
    <3>4. e[1] \in DOMAIN Build(s).nodes /\ e[2] \in DOMAIN Build(s).nodes
      BY <2>1, <3>3, AddressedScoped, EndsAreDrawn DEF s
    <3>5. Build(s) = g
      BY DEF Drawing, s
    <3> HIDE DEF g
    <3>6. e[1] \in Visited(g) /\ e[2] \in Visited(g)
      <4>1. e[1] \in DOMAIN Drawing(d).nodes /\ e[2] \in DOMAIN Drawing(d).nodes
        BY <3>4, <3>5 DEF g
      <4>2. QED
        BY <2>1, <3>2, <4>1, RootsAreShown DEF g
    <3>7. e \in DOMAIN graph.edges
      BY <2>3, <3>3, <3>5, <3>6 DEF ShowsOf
    <3>8. QED
      BY <3>7 DEF Edge, e
  <2>7. \A e \in DOMAIN graph.edges : {e[1], e[2]} \subseteq DOMAIN graph.nodes
    <3> HIDE DEF g
    <3>1. QED
      BY <2>3 DEF ShowsOf
  <2>8. latest.inventory.pods = Len(cluster.pods)
    BY <2>1, <2>2 DEF SameObjects
  <2>9. QED
    BY <2>6, <2>7, <2>8 DEF TypeOK
<1>2. QED
  BY <1>1, Inductive, PTL

\* A Gateway API route without a reference error is drawn with all its parents
\* and backends of the watch scope, and reaches a Service of another namespace
\* only by a grant of that namespace for it (addExternalResources).
THEOREM ReferencesAreExplained == Spec => []ReferencesExplained
<1>1. IInv => ReferencesExplained
  <2> SUFFICES ASSUME IInv, Built, NEW r \in OfKind(cluster, HTTPKinds)
               PROVE
      /\ Status(RouteID(r)) # "Reference error" =>
           /\ \A ref \in r.backends :
                \/ Edge(RouteID(r), <<"Service", Refers(r, ref)[1], <<ref.name>>>>, "routes")
                \/ cluster.watch \notin {None, Refers(r, ref)[1]}
           /\ \A ref \in r.parents :
                \/ \E kind \in {"attaches", "rejected"} :
                     Edge(<<"Gateway", Refers(r, ref)[1], <<ref.name>>>>, RouteID(r), kind)
                \/ cluster.watch \notin {None, Refers(r, ref)[1]}
      /\ \A e \in DOMAIN graph.edges :
           e[1] = RouteID(r) /\ e[3] = "routes" /\ e[2][2] # r.ns
             => \E grant \in OfKind(cluster, {"ReferenceGrant"}) :
                  /\ grant.ns = e[2][2]
                  /\ <<r.ns, r.kind>> \in grant.from
                  /\ {e[2][3][1], None} \cap grant.to # {}
    BY DEF ReferencesExplained
  <2>1. PICK s : Inputs(s) /\ Finite(s) /\ Displays(Build(s))
    BY Reading
  <2> DEFINE g == Build(s)
  <2>2. r \in Routes(s) /\ cluster.watch = s.watch
    BY <2>1 DEF Inputs, Routes, OfKind
  <2>3. RouteID(r) \in DOMAIN g.nodes /\ RouteID(r)[1] = "Route"
    <3>1. RouteID(r) \in RouteIDs(s)
      BY <2>2 DEF RouteIDs
    <3>2. QED
      BY <3>1, BuildNodesAre, Heads DEF NodeIDs, ExternalIDs
  <2>4. Status(RouteID(r)) = ShowRoute(s, r).status
    <3>1. \A p, q \in s.external : p.kind = q.kind /\ Key(p) = Key(q) => p = q
      BY <2>1 DEF Inputs, IInv, IsCluster
    <3>2. g.nodes[RouteID(r)] = ShowRoute(s, r)
      BY <2>2, <3>1, RouteIs
    <3> HIDE DEF g
    <3>3. graph.nodes[RouteID(r)] = g.nodes[RouteID(r)]
      BY <2>1, <2>3 DEF Displays, ShowsOf, g
    <3>4. QED
      BY <3>2, <3>3 DEF Status
  <2>5. ASSUME NEW ref \in Routed(s, r)
        PROVE  Edge(RouteID(r), <<"Service", Refers(r, ref)[1], <<ref.name>>>>, "routes")
    <3> DEFINE e == <<RouteID(r), <<"Service", Refers(r, ref)[1], <<ref.name>>>>, "routes">>
    <3>1. <<r, ref>> \in BackendPairs(s)
      BY <2>2 DEF BackendPairs, PairsOf
    <3>2. BackendEdge(s, e)
      BY <3>1 DEF BackendEdge, ReferredID
    <3>3. e[1][1] = "Route" /\ e[3] = "routes"
      BY Heads
    <3> HIDE DEF e
    <3>4. e \in DOMAIN g.edges
      BY <3>2, ExternalEdgesAre, BuildEdgesAre
    <3>5. QED
      BY <2>1, <3>3, <3>4 DEF Displays, Edge, e
  <2>6. ASSUME NEW ref \in Attached(s, r)
        PROVE  \E kind \in {"attaches", "rejected"} :
                 Edge(<<"Gateway", Refers(r, ref)[1], <<ref.name>>>>, RouteID(r), kind)
    <3> DEFINE kind == IF r.accepted THEN "attaches" ELSE "rejected"
               e == <<<<"Gateway", Refers(r, ref)[1], <<ref.name>>>>, RouteID(r), kind>>
    <3>1. AttachesEdge(s, e)
      <4>1. CASE r.accepted
        <5>1. <<r, ref>> \in ParentPairs(s, AcceptedRoutes(s))
          BY <2>2, <4>1 DEF ParentPairs, PairsOf, AcceptedRoutes
        <5>2. QED
          BY <4>1, <5>1 DEF AttachesEdge, ParentID
      <4>2. CASE ~r.accepted
        <5>1. <<r, ref>> \in ParentPairs(s, RejectedRoutes(s))
          BY <2>2, <4>2 DEF ParentPairs, PairsOf, RejectedRoutes
        <5>2. QED
          BY <4>2, <5>1 DEF AttachesEdge, ParentID
      <4>3. QED
        BY <4>1, <4>2
    <3>2. e[1][1] = "Gateway" /\ e[2][1] = "Route" /\ kind \in {"attaches", "rejected"}
      BY Heads
    <3>3. Edge(e[1], e[2], kind) = (e \in DOMAIN graph.edges)
      BY DEF Edge
    <3>4. e[1] = <<"Gateway", Refers(r, ref)[1], <<ref.name>>>> /\ e[2] = RouteID(r)
      OBVIOUS
    <3> HIDE DEF e, kind
    <3>5. e \in DOMAIN g.edges
      BY <3>1, ExternalEdgesAre, BuildEdgesAre
    <3>6. e[1] \in DOMAIN g.nodes /\ e[2] \in DOMAIN g.nodes
      BY <2>1, <3>5, EndsAreDrawn DEF Inputs
    <3>7. e \in DOMAIN graph.edges
      BY <2>1, <3>2, <3>5, <3>6 DEF Displays, ShowsOf
    <3>8. QED
      BY <3>2, <3>3, <3>4, <3>7
  <2>7. ASSUME NEW e \in DOMAIN graph.edges,
               e[1] = RouteID(r), e[3] = "routes", e[2][2] # r.ns
        PROVE  \E grant \in OfKind(cluster, {"ReferenceGrant"}) :
                 /\ grant.ns = e[2][2]
                 /\ <<r.ns, r.kind>> \in grant.from
                 /\ {e[2][3][1], None} \cap grant.to # {}
    <3>1. e \in DOMAIN g.edges
      BY <2>1 DEF Displays, ShowsOf
    <3>2. IngressRoutesEdge(s, e) \/ BackendEdge(s, e)
      BY <2>7, <3>1, EdgesByKind
    <3>3. ~IngressRoutesEdge(s, e)
      BY <2>7 DEF IngressRoutesEdge, IngressRouteID, RouteID
    <3>4. PICK x \in BackendPairs(s) : e = <<RouteID(x[1]), ReferredID(x), "routes">>
      BY <3>2, <3>3 DEF BackendEdge
    <3>5. x[1] \in Routes(s) /\ x[2] \in Routed(s, x[1])
      BY DEF BackendPairs, PairsOf
    <3>6. x[1] = r
      <4>1. RouteID(x[1]) = RouteID(r)
        BY <2>7, <3>4
      <4>2. x[1].kind = r.kind /\ Key(x[1]) = Key(r)
        BY <4>1 DEF RouteID, Key
      <4>3. \A p, q \in s.external : p.kind = q.kind /\ Key(p) = Key(q) => p = q
        BY <2>1 DEF Inputs, IInv, IsCluster
      <4>4. QED
        BY <2>2, <3>5, <4>2, <4>3 DEF Routes, OfKind
    <3>7. e[2][2] = Refers(r, x[2])[1] /\ e[2][3][1] = Refers(r, x[2])[2]
      BY <3>4, <3>6 DEF ReferredID, Refers
    <3>8. Granted(s, r, Refers(r, x[2]))
      BY <2>7, <3>5, <3>6, <3>7, RoutedIsGranted
    <3>9. QED
      BY <2>1, <3>7, <3>8 DEF Granted, Inputs, OfKind
  <2>8. Status(RouteID(r)) # "Reference error" =>
           /\ \A ref \in r.backends :
                ref \in Routed(s, r) \/ cluster.watch \notin {None, Refers(r, ref)[1]}
           /\ \A ref \in r.parents :
                ref \in Attached(s, r) \/ cluster.watch \notin {None, Refers(r, ref)[1]}
    BY <2>2, <2>4, Outcomes
  <2> HIDE DEF g
  <2>9. QED
    BY <2>5, <2>6, <2>7, <2>8
<1>2. QED
  BY <1>1, Inductive, PTL

\* Two Ingresses of one controller that define one location are never both, or
\* either of them, shown as working: applyRouteOverlap marks each of them,
\* whatever was left out of the build and in whatever order it was read.
THEOREM ConflictsAreShown == Spec => []NoSilentConflict
<1>1. IInv => NoSilentConflict
  <2> SUFFICES ASSUME IInv, Built,
                      NEW r \in OverlapRoutes(cluster), NEW q \in OverlapRoutes(cluster),
                      SameLocation(r, q), r.ingress # q.ingress, ~Canary(r), ~Canary(q)
               PROVE  Status(IngressRouteID(r.ingress, r.k)) \notin Healthy
    BY DEF NoSilentConflict
  <2> DEFINE overlap == Overlap(OverlapRoutes(cluster), r.ingress, r.k)
  <2>1. PICK s : Inputs(s) /\ Finite(s) /\ Displays(Build(s))
    BY Reading
  <2>2. q \in Others(r, OverlapRoutes(cluster))
    BY DEF Others, SameLocation
  <2>3. ~overlap.canary /\ overlap.primaries # {}
    BY <2>2, OverlapIs
  <2> HIDE DEF overlap
  <2>4. Status(IngressRouteID(r.ingress, r.k))
          = ApplyOverlap(Diagnose(s, r.ingress, r.k), overlap).severity
    BY <2>1, ContenderStatus DEF overlap
  <2>5. QED
    BY <2>3, <2>4, ConflictShows
<1>2. QED
  BY <1>1, Inductive, PTL

\* All routes of one controller to one Service and port lead to the same
\* canaries, whatever their host: collectRouteOverlaps attaches a canary to the
\* backend of the route it splits.
THEOREM SplitsFollowBackends == Spec => []SplitReachesEveryRoute
<1>1. IInv => SplitReachesEveryRoute
  <2> SUFFICES ASSUME IInv, Built,
                      NEW r \in OverlapRoutes(cluster), NEW q \in OverlapRoutes(cluster),
                      ~Canary(r), ~Canary(q), HasBackend(r), Backend(r) = Backend(q)
               PROVE  CanaryTargets(r) = CanaryTargets(q)
    BY DEF SplitReachesEveryRoute
  <2>1. PICK s : Inputs(s) /\ Finite(s) /\ Displays(Build(s))
    BY Reading
  <2>2. HasBackend(q)
    BY DEF HasBackend, Backend
  <2>3. Links(r, OverlapRoutes(cluster)) = Links(q, OverlapRoutes(cluster))
    BY <2>2 DEF Links
  <2>4. ASSUME NEW n PROVE n \in CanaryTargets(r) <=> n \in CanaryTargets(q)
    <3>1. /\ n \in CanaryTargets(r) <=> SplitBy(s, Links(r, OverlapRoutes(cluster)), n)
          /\ n \in CanaryTargets(q) <=> SplitBy(s, Links(q, OverlapRoutes(cluster)), n)
      BY <2>1, CanariesShown
    <3>2. QED
      BY <2>3, <3>1
  <2>5. QED
    BY <2>4 DEF CanaryTargets
<1>2. QED
  BY <1>1, Inductive, PTL

\* A canary that is shown as working receives traffic: its Service is drawn
\* behind a route of the same location, the one oldestOverlapRoute finds.
THEOREM WorkingCanariesAreDrawn == Spec => []WorkingCanaryIsDrawn
<1>1. IInv => WorkingCanaryIsDrawn
  <2> DEFINE routes == OverlapRoutes(cluster)
  <2> SUFFICES ASSUME IInv, Built, NEW r \in routes,
                      Canary(r), Status(IngressRouteID(r.ingress, r.k)) = "ok",
                      \A p \in PrimariesAt(r, routes) : HasBackend(p)
               PROVE  \E p \in PrimariesAt(r, routes) :
                        <<"Service", r.ingress.ns, <<r.service>>>> \in CanaryTargets(p)
    BY DEF WorkingCanaryIsDrawn
  <2>1. PICK s : Inputs(s) /\ Finite(s) /\ Displays(Build(s))
    BY Reading
  <2> DEFINE overlap == Overlap(routes, r.ingress, r.k)
             primaries == PrimariesAt(r, routes)
             d == Diagnose(s, r.ingress, r.k)
  <2>2. overlap.canary /\ overlap.primaries \subseteq primaries
    BY OverlapIs DEF Others, PrimariesAt
  <2>3. d.severity = "ok" /\ overlap.primaries # {}
    <3>1. ApplyOverlap(d, overlap).severity = "ok"
      BY <2>1, ContenderStatus
    <3> HIDE DEF d, overlap
    <3>2. QED
      BY <2>2, <3>1, WorkingShows
  <2>4. Oldest(primaries) # {}
    <3>1. \A q \in routes : q.ingress.created \in Nat /\ q.ingress.rank \in Nat
      BY Contenders DEF IInv, IsCluster
    <3>2. primaries # {} /\ primaries \subseteq routes
      BY <2>2, <2>3 DEF PrimariesAt
    <3> HIDE DEF primaries, routes
    <3>3. QED
      BY <3>1, <3>2, OldestExists
  <2>5. PICK p \in Oldest(primaries) : TRUE
    BY <2>4
  <2>6. p \in primaries /\ p \in routes /\ ~Canary(p) /\ HasBackend(p)
    BY DEF Oldest, PrimariesAt
  <2> DEFINE l == [canary |-> r, primary |-> p]
  <2>7. l \in Links(p, routes)
    BY <2>5, <2>6 DEF Links
  <2>8. ServicesNamed(s, <<r.ingress.ns, r.service>>) # {}
    <3>1. ServicesNamed(s, ServiceKey(r.ingress, r.k)) # {}
      BY <2>3, WorkingIsServed
    <3>2. r.service = r.ingress.routes[r.k].service
      BY Contenders
    <3>3. QED
      BY <3>1, <3>2 DEF ServiceKey
  <2>9. CanaryID(l) = <<"Service", r.ingress.ns, <<r.service>>>>
    BY DEF CanaryID
  <2>10. CanaryID(l) \in CanaryTargets(p)
    <3>1. l.canary = r
      OBVIOUS
    <3> HIDE DEF l, primaries
    <3>2. SplitBy(s, Links(p, routes), CanaryID(l))
      BY <2>7, <2>8, <3>1 DEF SplitBy
    <3>3. QED
      BY <2>1, <2>6, <3>2, CanariesShown
  <2>11. QED
    BY <2>6, <2>9, <2>10
<1>2. QED
  BY <1>1, Inductive, PTL

\* A snapshot shows only what takes part in traffic: each Service behind a
\* route or an F5 resource, each pod behind a Service, each Kubernetes node
\* under a pod.  ingressScopedSnapshot's traversal never gets to a Service by
\* way of its own load balancer or node port.
THEOREM OnlyTrafficIsShown == Spec => []OnlyTraffic
<1>1. IInv => OnlyTraffic
  <2> SUFFICES ASSUME IInv, Built PROVE OnlyTraffic
    BY DEF OnlyTraffic
  <2>1. PICK s : Inputs(s) /\ Finite(s) /\ Displays(Build(s))
    BY Reading
  <2>2. Keyed(s.services)
    BY <2>1 DEF Inputs, KeptServices, IInv, IsCluster, Keyed
  <2>3. \A n \in Visited(Build(s)) : Justified(s, n)
    BY <2>1, <2>2, AllJustified
  <2>4. DOMAIN graph.nodes = Visited(Build(s)) /\ Seen(Build(s)) = DOMAIN graph.edges
    BY <2>1 DEF Displays, ShowsOf, Seen
  <2>5. QED
    BY <2>3, <2>4 DEF OnlyTraffic, Justified
<1>2. QED
  BY <1>1, Inductive, PTL

\* scopeTrafficInputs is only an economy: in every state of the program, a
\* snapshot of the caches shows what a build from everything in them would.
THEOREM ScopingIsSafe == Spec => []ScopingLosesNothing
<1>1. IInv => ScopingLosesNothing
  BY ScopingIsEconomy DEF IInv, ScopingLosesNothing
<1>2. QED
  BY <1>1, Inductive, PTL

\* The listers return objects in any order.  In every state, where pods have
\* addresses of their own and canaries Services of their own, a rebuild of an
\* unchanged cluster makes what was published: sameTopology finds no difference.
THEOREM RebuildsAreStable == Spec => []StableRebuild
<1>1. IInv => StableRebuild
  <2> SUFFICES ASSUME IInv, DistinctAddresses, DistinctCanaryServices, Built
               PROVE  latest = Snapshot(cluster)
    BY DEF StableRebuild, OrderIndependent
  <2>1. PICK d : IsCluster(d) /\ SameObjects(d, cluster) /\ latest = Snapshot(d)
    BY BuiltFrom
  <2>2. IsCluster(cluster)
    BY DEF IInv
  <2>3. DistinctIPs(cluster)
    BY DEF DistinctAddresses, DistinctIPs, ToSet
  <2>4. OneIngressEach(cluster)
    BY DEF DistinctCanaryServices, OneIngressEach
  <2>5. QED
    BY <2>1, <2>2, <2>3, <2>4, OrderDecidesNothing
<1>2. QED
  BY <1>1, Inductive, PTL

\* Endpoints that are mirrored into slices are not counted twice: where each
\* address is listed once, no Service has more usable endpoints than addresses.
\* mergeEndpointStats skips the Endpoints of a Service that has slices.
THEOREM UsableAreAddressed == Spec => []UsableNotInflated
<1>1. IInv => UsableNotInflated
  <2> SUFFICES ASSUME IInv, ListedOnce, NEW svc \in cluster.services
               PROVE  Stats(cluster, Key(svc)).usable <= Cardinality(Addresses(svc))
    BY DEF UsableNotInflated
  <2>1. Finite(cluster)
    BY DEF IInv, IsCluster
  <2>2. QED
    BY <2>1, StatsCount, UsableHaveAddresses
<1>2. QED
  BY <1>1, Inductive, PTL

\* A route shown as ready can be followed to where its traffic goes: to a ready
\* pod of a Service with a selector, else to a pod or, where each address is
\* listed once, to a usable endpoint.  diagnoseIngressRoute's last case never
\* applies to a route whose Service was left out, or has nothing behind it.
THEOREM ReadyRoutesAreServed == Spec => []ReadyRouteHasBackend
<1>1. IInv => ReadyRouteHasBackend
  <2> SUFFICES ASSUME IInv, Built, NEW x \in RoutesOf(cluster),
                      Status(IngressRouteID(x[1], x[2])) = "ok"
               PROVE  \E s \in ServicesNamed(cluster, ServiceKey(x[1], x[2])) :
                        /\ Edge(IngressRouteID(x[1], x[2]), ServiceID(s), "routes")
                        /\ s.selector # {} =>
                             \E n \in DOMAIN graph.nodes :
                               Edge(ServiceID(s), n, "selects") /\ Status(n) # "NotReady"
                        /\ s.selector = {} /\ ListedOnce =>
                             \E n \in DOMAIN graph.nodes :
                               /\ \E kind \in {"endpoint", "endpointslice"} :
                                    Edge(ServiceID(s), n, kind)
                               /\ n[1] = "Pod" \/ Status(n) = "Ready"
    BY DEF ReadyRouteHasBackend
  <2>1. PICK c :
          /\ IsCluster(c) /\ SameObjects(c, cluster) /\ latest = Snapshot(c)
          /\ \E svc \in ServicesNamed(c, ServiceKey(x[1], x[2])) :
               /\ DiagnoseEndpoints(c, svc, x[1].routes[x[2]].port).severity = "ok"
               /\ Edge(IngressRouteID(x[1], x[2]), ServiceID(svc), "routes")
               /\ ServiceID(svc) \in Visited(Build(c))
    BY ReadyIsServed
  <2>2. PICK svc \in ServicesNamed(c, ServiceKey(x[1], x[2])) :
          /\ DiagnoseEndpoints(c, svc, x[1].routes[x[2]].port).severity = "ok"
          /\ Edge(IngressRouteID(x[1], x[2]), ServiceID(svc), "routes")
          /\ ServiceID(svc) \in Visited(Build(c))
    BY <2>1
  <2>3. svc \in ServicesNamed(cluster, ServiceKey(x[1], x[2])) /\ svc \in c.services
    BY <2>1 DEF ServicesNamed, SameObjects
  <2>4. /\ svc.selector # {} => \E p \in PodsOf(svc, c.pods) : p.ready
        /\ svc.selector = {} => Stats(c, Key(svc)).usable # 0
    BY <2>1, <2>2, ReadyEndpoints DEF IsCluster
  <2>5. ASSUME svc.selector # {}
        PROVE  \E n \in DOMAIN graph.nodes :
                 Edge(ServiceID(svc), n, "selects") /\ Status(n) # "NotReady"
    <3>1. PICK p \in PodsOf(svc, c.pods) : p.ready
      BY <2>4, <2>5
    <3>2. p \in ToSet(c.pods)
      BY DEF PodsOf
    <3>3. <<ServiceID(svc), PodID(p), "selects">> \in DOMAIN Build(c).edges
      <4>1. <<svc, p>> \in Selected(c)
        BY <2>3 DEF Selected, PairsOf
      <4>2. SelectsEdge(c, <<ServiceID(svc), PodID(p), "selects">>)
        BY <4>1 DEF SelectsEdge
      <4>3. QED
        BY <4>2, WorkloadEdgesAre, BuildEdgesAre
    <3>4. Build(c).nodes[PodID(p)] = ShowPod(p)
      BY <2>1, <3>2, ClusterApart, PodIs
    <3>5. ShowPod(p).status # "NotReady"
      <4>1. ShowPod(p).status = p.phase
        BY <3>1 DEF ShowPod, Shows
      <4>2. p.phase \in {"Pending", "Running", "Succeeded", "Failed", "Unknown"}
        BY <2>1, <3>2 DEF IsCluster
      <4>3. QED
        BY <4>1, <4>2
    <3>6. /\ PodID(p) \in DOMAIN graph.nodes /\ graph.nodes[PodID(p)] = Build(c).nodes[PodID(p)]
          /\ Edge(ServiceID(svc), PodID(p), "selects")
      BY <2>1, <2>2, <3>3, LedToFrom
    <3>7. QED
      BY <3>4, <3>5, <3>6 DEF Status
  <2>6. ASSUME svc.selector = {}, ListedOnce
        PROVE  \E n \in DOMAIN graph.nodes :
                 /\ \E kind \in {"endpoint", "endpointslice"} : Edge(ServiceID(svc), n, kind)
                 /\ n[1] = "Pod" \/ Status(n) = "Ready"
    <3>1. c.slices = cluster.slices /\ c.endpoints = cluster.endpoints
      BY <2>1 DEF SameObjects
    <3>2. PICK n, kind : /\ kind \in {"endpoint", "endpointslice"}
                         /\ <<ServiceID(svc), n, kind>> \in DOMAIN Build(c).edges
                         /\ n[1] = "Pod" \/ Build(c).nodes[n].status = "Ready"
      BY <2>1, <2>3, <2>4, <2>6, <3>1, AddressedScoped, UsableIsDrawn
    <3>3. /\ n \in DOMAIN graph.nodes /\ graph.nodes[n] = Build(c).nodes[n]
          /\ Edge(ServiceID(svc), n, kind)
      BY <2>1, <2>2, <3>2, LedToFrom
    <3>4. QED
      BY <3>2, <3>3 DEF Status
  <2>7. QED
    BY <2>2, <2>3, <2>5, <2>6
<1>2. QED
  BY <1>1, Inductive, PTL
=============================================================================
