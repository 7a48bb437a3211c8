----------------------------- MODULE Endpoints -----------------------------
(***************************************************************************)
(* Which pods and addresses stand behind a Service                         *)
(* (internal/k8s/builder_endpoints.go): its EndpointSlices or, for a       *)
(* Service that has none, its legacy Endpoints.                            *)
(***************************************************************************)
EXTENDS KubeObjects

SlicesOf(c, key) == {s \in c.slices : <<s.ns, s.service>> = key}
EndpointsOf(c, key) ==
  IF SlicesOf(c, key) # {} THEN {} ELSE {e \in c.endpoints : Key(e) = key}

----------------------------------------------------------------------------
(* Pods. A reference by name wins; otherwise the pod with that IP in the   *)
(* namespace, and of several the one that was listed last: the loop that   *)
(* fills podsByIP overwrites.  It passes over pods without an IP.          *)

NamedPod(pods, ns, target) ==
  IF target = None THEN {}
  ELSE {p \in ToSet(pods) : Key(p) = <<Or(target.ns, ns), target.name>>}

PodWithIP(pods, ns, ip) ==
  LET same == {k \in DOMAIN pods : pods[k].ns = ns /\ pods[k].ip = ip /\ ip # None}
  IN  {pods[k] : k \in {l \in same : \A m \in same : m <= l}}

PodBehind(pods, ns, target, ip) ==
  LET named == NamedPod(pods, ns, target)
  IN  IF named # {} THEN named ELSE PodWithIP(pods, ns, ip)

SlicePods(pods, s) ==
  UNION {UNION {PodBehind(pods, s.ns, e.target, a) : a \in e.addresses} : e \in s.endpoints}

SubsetPods(pods, ns, sub) ==
  UNION {PodBehind(pods, ns, a.target, a.ip) : a \in sub.addresses}

EndpointPods(pods, e) == UNION {SubsetPods(pods, e.ns, sub) : sub \in e.subsets}

----------------------------------------------------------------------------
(* Statistics of a Service. A condition that is not set counts as ready,   *)
(* as serving when ready, and as not terminating.                          *)

Terminating(e) == Or(e.terminating, FALSE)
Usable(e) ==
  LET ready == Or(e.ready, TRUE)
  IN  ready /\ Or(e.serving, ready) /\ ~Terminating(e)

SliceStats(c, key) ==
  LET all == UNION {{<<s.name, e>> : e \in s.endpoints} : s \in SlicesOf(c, key)}
  IN  [total |-> Cardinality(all),
       usable |-> Cardinality({x \in all : Usable(x[2])}),
       terminating |-> Cardinality({x \in all : Terminating(x[2])})]

LegacyStats(endpoints) ==
  LET all == UNION {UNION {{<<e.name, sub, a>> : a \in sub.addresses} :
                             sub \in e.subsets} : e \in endpoints}
  IN  [total |-> Cardinality(all),
       usable |-> Cardinality({x \in all : x[3].ready}),
       terminating |-> 0]

\* Mutant: Endpoints are added also when the Service has slices.
StatsOfBoth(c, key) ==
  LET slices == SliceStats(c, key)
      legacy == LegacyStats({e \in c.endpoints : Key(e) = key})
  IN  [total |-> slices.total + legacy.total,
       usable |-> slices.usable + legacy.usable,
       terminating |-> slices.terminating]

Stats(c, key) ==
  IF SlicesOf(c, key) # {} THEN SliceStats(c, key)
                           ELSE LegacyStats(EndpointsOf(c, key))

----------------------------------------------------------------------------
(* Pods that a Service selects but that are not endpoints of the port a    *)
(* route uses, although they run and have an address.                      *)

PortPods(c, key, port) ==
  UNION ({SlicePods(c.pods, s) : s \in {t \in SlicesOf(c, key) : port \in t.ports}}
    \cup {SubsetPods(c.pods, key[1], sub) : sub \in
            {t \in UNION {e.subsets : e \in EndpointsOf(c, key)} : port \in t.ports}})

HasEndpointData(c, key) == SlicesOf(c, key) \cup EndpointsOf(c, key) # {}

Runs(p) == p.ip # None /\ p.phase = "Running" /\ ~p.deleting

NonEndpointPods(c, svc, port) ==
  IF HasEndpointData(c, Key(svc))
  THEN {p \in PodsOf(svc, c.pods) : Runs(p)} \ PortPods(c, Key(svc), port)
  ELSE {}
=============================================================================
