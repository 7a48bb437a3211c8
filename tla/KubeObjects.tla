---------------------------- MODULE KubeObjects ----------------------------
(***************************************************************************)
(* The Kubernetes objects that a topology is built from, and the IDs of    *)
(* the nodes drawn for them (internal/k8s/builder_helpers.go).             *)
(*                                                                         *)
(* A cluster is what the informers' caches hold when a build reads them:   *)
(*                                                                         *)
(*   watch       the only watched namespace, or None                       *)
(*   ingresses   a sequence, in the order the lister returned them, of     *)
(*     [ns, name, rank, class, annotation, created, addresses, canary,     *)
(*      rule, hosts, routes]; hosts are those of its rules, with or        *)
(*      without paths; routes is a sequence of [host, path, service, port, *)
(*      default], service None for a backend that is not a Service; path   *)
(*      stands for the path together with its type; rank is the place of   *)
(*      the Ingress in the order of namespaces and names                   *)
(*   pods        a sequence, in the lister's order, of [ns, name, labels,  *)
(*      ip, node, phase, ready, deleting]                                  *)
(*   classes     IngressClasses [name, tokens, default]                    *)
(*   services    [ns, name, type, external, selector, labels, ports,       *)
(*      addresses, externalIPs]; ports is a sequence of [name, number,     *)
(*      nodePort]                                                          *)
(*   nodes       the names of the Kubernetes nodes                         *)
(*   slices      EndpointSlices [ns, name, service, ports, endpoints]; an  *)
(*      endpoint is [addresses, target, ready, serving, terminating]       *)
(*   endpoints   legacy Endpoints [ns, name, subsets]; a subset is         *)
(*      [ports, addresses], an address [ip, target, ready]                 *)
(*   external    Gateway API and F5 resources [kind, ns, name, class,      *)
(*      addresses, hosts, parents, backends, from, to, selector, accepted] *)
(*                                                                         *)
(* Labels are sets, so a selector matches when it is contained in them.    *)
(* Only the lists whose order the builder can observe are sequences.       *)
(***************************************************************************)
EXTENDS Integers, Sequences, FiniteSets, SequencesExt

CONSTANT None    \* a field that is not set

Key(o) == <<o.ns, o.name>>
Or(value, default) == IF value = None THEN default ELSE value

\* selectorMatches; a Service without selector selects nothing.
Selects(selector, labels) == selector # {} /\ selector \subseteq labels

PodsOf(svc, pods) ==
  {p \in ToSet(pods) : p.ns = svc.ns /\ Selects(svc.selector, p.labels)}

----------------------------------------------------------------------------
(* Node IDs. Names hold no colon, so the parts of an ID stay apart.  An    *)
(* address is taken as it is: safeID, which lowers its letters and writes  *)
(* a dash for a dot or a colon, is treated as one-to-one on the addresses  *)
(* of one object, though on host names, a.b and a-b, it is not.            *)

ID(kind, o) == <<kind, o.ns, <<o.name>>>>
PodID(p) == ID("Pod", p)
ServiceID(s) == ID("Service", s)
IngressID(i) == ID("Ingress", i)
IngressRouteID(i, k) == <<"Route", i.ns, <<"ingress", i.name, k>>>>
GatewayID(o) == ID("Gateway", o)
RouteID(r) == <<"Route", r.ns, <<r.kind, r.name>>>>
HostID(node) == <<"Node", "", <<node>>>>
DnsID(host) == <<"DNS", "", <<host>>>>
ControllerID(class) == <<"Controller", "", <<class>>>>
GatewayClassID(class) == <<"Controller", "", <<"gatewayclass", class>>>>
StatusControllerID(svc) == <<"Controller", "", <<"service", svc.ns, svc.name>>>>
LoadBalancerID(svc) == ID("LoadBalancer", svc)
AddressID(o, owner, a) == <<"LoadBalancer", o.ns, <<owner, o.name, a>>>>
F5ID(r) == <<"LoadBalancer", r.ns, <<r.kind, r.name>>>>
NodePortID(svc, port) == <<"NodePort", svc.ns, <<svc.name, Or(port.name, port.number)>>>>
SliceEndpointID(s, a) == <<"EndpointSlice", s.ns, <<s.service, s.name, a>>>>
EndpointID(e, a) == <<"Endpoint", e.ns, <<e.name, "endpoints", a>>>>
ExternalNameID(svc) == <<"Endpoint", svc.ns, <<svc.name, "externalname">>>>

----------------------------------------------------------------------------
(* ingressRoutes numbers the rules of an Ingress; the position is part of  *)
(* the ID, so that a location listed twice is drawn twice.  The other      *)
(* fields follow the Ingress.                                              *)

ServiceKey(i, k) == <<i.ns, i.routes[k].service>>

\* ingressHosts: of every rule, one without paths too.
Hosts(i) == i.hosts \ {None}

\* ingressClassName: spec.ingressClassName, else the old annotation.
ClassName(i) == Or(i.class, i.annotation)
=============================================================================
