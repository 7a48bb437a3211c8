----------------------------- MODULE MCTopology -----------------------------
(***************************************************************************)
(* Families of small clusters for TopologyBuild.  Each family varies what  *)
(* one part of the builder looks at and keeps the rest plain.              *)
(***************************************************************************)
EXTENDS TopologyBuild

CONSTANT Families    \* the families a run takes

Some(present, x) == IF present THEN {x} ELSE {}

Port80 == [name |-> "http", number |-> "80", nodePort |-> None]
Service(ns, name) ==
  [ns |-> ns, name |-> name, type |-> "ClusterIP", external |-> None, selector |-> {},
   labels |-> {}, ports |-> <<Port80>>, addresses |-> {}, externalIPs |-> {}]
Pod(name, labels, ip, ready) ==
  [ns |-> "n1", name |-> name, labels |-> labels, ip |-> ip, node |-> "w1",
   phase |-> "Running", ready |-> ready, deleting |-> FALSE]
Route(host, path, service) ==
  [host |-> host, path |-> path, service |-> service, port |-> "80", default |-> FALSE]
Ingress(name, rank, routes) ==
  [ns |-> "n1", name |-> name, rank |-> rank, class |-> None, annotation |-> None,
   created |-> 1, addresses |-> {}, canary |-> FALSE, rule |-> None,
   hosts |-> {routes[k].host : k \in DOMAIN routes}, routes |-> routes]
Class(name, tokens) == [name |-> name, tokens |-> tokens, default |-> FALSE]
Resource(kind, ns, name) ==
  [kind |-> kind, ns |-> ns, name |-> name, class |-> None, addresses |-> {},
   hosts |-> {}, parents |-> {}, backends |-> {}, from |-> {}, to |-> {}, selector |-> {},
   accepted |-> TRUE]
Ref(ns, name) == [ns |-> ns, name |-> name, supported |-> TRUE]

Plain ==
  [watch |-> None, ingresses |-> <<>>, pods |-> <<>>, classes |-> {Class("nginx", {})},
   services |-> {}, nodes |-> {"w1", "w2"}, slices |-> {}, endpoints |-> {}, external |-> {}]

----------------------------------------------------------------------------
\* One route to a Service with or without selector, two pods, its slices and
\* Endpoints, and a Service and a pod that nothing refers to.
Endpoint(ip, target, ready) ==
  [addresses |-> {ip}, target |-> target, ready |-> ready, serving |-> None,
   terminating |-> None]
Slice(name, ports, endpoints) ==
  [ns |-> "n1", name |-> name, service |-> "s1", ports |-> ports, endpoints |-> endpoints]
Legacy ==
  [ns |-> "n1", name |-> "s1",
   subsets |-> {[ports |-> {"http"},
                 addresses |-> {[ip |-> "ip1", target |-> None, ready |-> TRUE],
                                [ip |-> "ip9", target |-> None, ready |-> FALSE]}]}]

SliceSets ==
  {{},
   {Slice("e1", {"http"}, {Endpoint("ip1", [ns |-> None, name |-> "p1"], TRUE),
                           Endpoint("ip2", [ns |-> "n1", name |-> "p2"], FALSE)})},
   {Slice("e1", {"http"}, {Endpoint("ip1", None, None), Endpoint("ip9", None, TRUE)})},
   {Slice("e1", {"other"}, {Endpoint("ip1", [ns |-> None, name |-> "p1"], TRUE)}),
    Slice("e2", {"http"}, {[Endpoint("ip2", [ns |-> None, name |-> "gone"], TRUE)
                              EXCEPT !.serving = TRUE, !.terminating = TRUE]})},
   {Slice("e1", {"http"}, {Endpoint("ip3", [ns |-> "n2", name |-> "p3"], TRUE)})},
   {Slice("e1", {"http"}, {Endpoint("ip1", None, TRUE)}),
    Slice("e2", {"http"}, {Endpoint("ip1", None, TRUE)})}}

Workloads ==
  {[Plain EXCEPT
      !.ingresses = <<Ingress("i1", 1, <<Route("h", "/", "s1")>>)>>,
      !.services = {[Service("n1", "s1") EXCEPT !.selector = selector],
                    [Service("n1", "s2") EXCEPT !.selector = {"idle"}]},
      !.pods = <<Pod("p1", {"web"}, "ip1", ready[1]), Pod("p2", label, ip, ready[2]),
                 [Pod("p3", {"idle"}, "ip3", TRUE) EXCEPT !.node = "w2", !.ns = other]>>,
      !.slices = slices,
      !.endpoints = Some(legacy, Legacy)] :
     selector \in {{}, {"web"}}, ready \in [1 .. 2 -> BOOLEAN],
     label \in {{"web", "v2"}, {"api"}}, ip \in {"ip1", "ip2", None},
     other \in {"n1", "n2"},
     slices \in SliceSets, legacy \in BOOLEAN}

----------------------------------------------------------------------------
\* Three Ingresses of one controller: their locations, Services, ages, and
\* which of them are canaries.  The third has a second route.
Backends ==
  {Service("n1", "s1"), [Service("n1", "s2") EXCEPT !.selector = {"web"}]}

Competitor(name, rank, path, service, created, canary) ==
  [Ingress(name, rank, <<Route("h", path, service)>>) EXCEPT
     !.created = created, !.canary = canary, !.rule = name]

Competing ==
  {[Plain EXCEPT
      !.ingresses = <<Competitor("i1", 1, "/a", "s1", 2, FALSE), second,
                      [third EXCEPT !.routes = Append(@, Route("h", "/b", "s1"))]>>,
      !.services = Backends,
      !.pods = <<Pod("p1", {"web"}, "ip1", TRUE)>>,
      !.slices = {[Slice("e1", {"http"}, {Endpoint("ip1", None, TRUE)}) EXCEPT !.service = s] :
                    s \in {"s1", "s2"}}] :
     second \in {Competitor("i2", 2, path, service, created, canary) :
       path \in {"/a", "/b"}, service \in {"s1", "s2"}, created \in {1, 2}, canary \in BOOLEAN},
     third \in {Competitor("i3", 3, path, service, 3, canary) :
       path \in {"/a", "/b"}, service \in {"s1", "s2", None}, canary \in BOOLEAN}}

----------------------------------------------------------------------------
\* An HTTPRoute with parents and backends in two namespaces, a grant or none,
\* and a watch that covers both namespaces or only the first.
Attached ==
  {LET scope == IF watch = None THEN {"n1", "n2"} ELSE {watch}
       of(set) == {o \in set : o.ns \in scope \cup {""}}
   IN  [Plain EXCEPT
          !.watch = watch,
          !.services = of({Service("n1", "s1"), Service("n2", "s1"), Service("n2", "s2")}),
          !.external = of(
            {[Resource("GatewayClass", "", "nginx") EXCEPT !.class = None],
             [Resource("Gateway", "n1", "g1") EXCEPT !.class = "nginx", !.addresses = {"a1"}],
             [Resource("Gateway", "n2", "g2") EXCEPT !.hosts = {"h"}],
             [Resource("HTTPRoute", "n1", "r1") EXCEPT !.parents = parents,
                !.backends = backends, !.hosts = {"h"}, !.accepted = accepted],
             [Resource("ReferenceGrant", "n2", "grant") EXCEPT
                !.from = from, !.to = {to}]})] :
     watch \in {None, "n1"}, accepted \in BOOLEAN,
     parents \in {{Ref(None, "g1")}, {Ref("n2", "g2"), Ref("n1", "g1")},
                  {[Ref(None, "g1") EXCEPT !.supported = FALSE]}},
     backends \in {{Ref(None, "s1")}, {Ref("n2", "s1")}, {Ref("n2", "s2"), Ref("n1", "s1")},
                   {Ref(None, "gone")}, {Ref("n2", "gone")}},
     from \in {{}, {<<"n1", "HTTPRoute">>}}, to \in {None, "s1"}}

----------------------------------------------------------------------------
\* An exposed Service that may be the controller's, known by class, by an
\* annotation or by the address in the status of the Ingress.
Exposures ==
  {[Plain EXCEPT
      !.classes = classes,
      !.ingresses = <<[Ingress("i1", 1, <<[Route(None, "/", "s1") EXCEPT !.default = TRUE],
                                          Route("g", "/", "s3")>>) EXCEPT
                         !.class = class, !.annotation = annotation, !.addresses = {"a1"},
                         !.hosts = {None, "g", "bare"}]>>,
      !.services =
        {Service("n1", "s1"),
         [Service("n1", "s3") EXCEPT !.type = "ExternalName", !.external = "x", !.ports = <<>>],
         [Service("n1", name) EXCEPT !.type = type, !.addresses = {"a1"}, !.selector = {"ingress"},
            !.labels = labels, !.ports = <<[Port80 EXCEPT !.nodePort = nodePort]>>],
         [Service("n1", "other") EXCEPT !.type = "LoadBalancer", !.externalIPs = {ip}]},
      !.pods = <<Pod("p1", {"ingress"}, "ip1", TRUE)>>] :
     classes \in {{}, {Class("nginx", {"nginx"})},
                  {Class("nginx", {"nginx"}), Class("haproxy", {"haproxy"})},
                  {[Class("nginx", {}) EXCEPT !.default = TRUE], Class("haproxy", {})}},
     class \in {None, "nginx"}, annotation \in {None, "nginx", "old"},
     name \in {"nginx", "edge"}, type \in {"LoadBalancer", "NodePort"},
     labels \in {{}, {"component=controller", "controller"}},
     nodePort \in {None, "30080"}, ip \in {"a1", "a2"}}

\* F5 resources that name a Service or select it, here or in all namespaces.
Appliances ==
  {[Plain EXCEPT
      !.services = {[Service("n1", "s1") EXCEPT !.labels = {"f5"}, !.selector = {"web"}],
                    [Service("n2", "s1") EXCEPT !.labels = {"f5"}],
                    [Service("n1", "s2") EXCEPT !.type = type, !.labels = {"idle"}]},
      !.pods = <<Pod("p1", {"web"}, "ip1", TRUE), Pod("p2", {"idle"}, "ip2", TRUE)>>,
      !.external = {[Resource(kind, "n1", "f") EXCEPT !.backends = backends,
                       !.selector = selector, !.hosts = {"h"}, !.addresses = addresses]}] :
     kind \in {"F5VirtualServer", "F5IngressLink"},
     type \in {"ClusterIP", "NodePort"}, addresses \in {{}, {"a1"}},
     backends \in {{}, {Ref(None, "s2")}, {Ref("n2", "s1"), Ref(None, "gone")}},
     selector \in {{}, {"f5"}}}

MCClusters ==
  UNION {CASE f = "workloads" -> Workloads
           [] f = "competing" -> Competing
           [] f = "attached" -> Attached
           [] f = "exposures" -> Exposures
           [] f = "appliances" -> Appliances : f \in Families}
=============================================================================
