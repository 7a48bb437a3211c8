--------------------------- MODULE RouteOverlaps ---------------------------
(***************************************************************************)
(* Ingresses of one controller that define the same location, and the      *)
(* ingress-nginx canaries that split a backend                             *)
(* (internal/k8s/builder_overlaps.go).                                     *)
(***************************************************************************)
EXTENDS Controllers

\* The routes that can overlap: of an Ingress with a controller, the first
\* one for each location, together with that controller.
OverlapRoutes(c) ==
  LET routesOf(i) ==
        {k \in DOMAIN i.routes :
           /\ ~i.routes[k].default
           /\ \A l \in 1 .. (k - 1) :
                i.routes[l].default
                \/ <<i.routes[l].host, i.routes[l].path>> # <<i.routes[k].host, i.routes[k].path>>}
      member(i, controller, k) ==
        [ingress |-> i, k |-> k, controller |-> controller,
         location |-> <<i.routes[k].host, i.routes[k].path>>,
         service |-> i.routes[k].service, port |-> i.routes[k].port]
  IN  UNION {LET controller == IngressController(c, i)
             IN  IF controller = None THEN {}
                 ELSE {member(i, controller, k) : k \in routesOf(i)} :
             i \in ToSet(c.ingresses)}

SameLocation(r, q) == r.controller = q.controller /\ r.location = q.location
Others(r, routes) == {q \in routes : SameLocation(q, r) /\ q.ingress # r.ingress}
Canary(r) == r.ingress.canary

\* backendKey: ingress-nginx keeps one upstream for each of these.
Backend(r) == <<r.controller, r.ingress.ns, r.service, r.port>>
HasBackend(r) == r.service # None

\* Mutant: the comparison is strict.
StrictlyOlder(r, q) ==
  \/ r.ingress.created < q.ingress.created
  \/ r.ingress.created = q.ingress.created /\ r.ingress.rank < q.ingress.rank

\* oldestOverlapRoute: by creation time; ties go by namespace and name.
Older(r, q) ==
  \/ r.ingress.created < q.ingress.created
  \/ r.ingress.created = q.ingress.created /\ r.ingress.rank <= q.ingress.rank
Oldest(primaries) ==
  {r \in primaries : \A q \in primaries : Older(r, q)}

\* The non-canary routes of the location of r.
PrimariesAt(r, routes) == {q \in routes : SameLocation(q, r) /\ ~Canary(q)}

\* Mutant: a canary is attached to the location instead of the backend.
LinksAtLocation(r, routes) ==
  {l \in [canary : routes, primary : routes] :
     /\ Canary(l.canary) /\ l.primary \in Oldest(PrimariesAt(l.canary, routes))
     /\ SameLocation(l.canary, r)}

\* Canaries of a route: those attached to the backend of the primary that is
\* served at the canary's location, when that backend is the route's too.
Links(r, routes) ==
  {l \in [canary : routes, primary : routes] :
     /\ Canary(l.canary) /\ ~Canary(l.primary) /\ HasBackend(l.primary)
     /\ l.primary \in Oldest(PrimariesAt(l.canary, routes))
     /\ HasBackend(r) /\ Backend(l.primary) = Backend(r)}

SharedCanaries(r, routes) ==
  {q \in routes : Canary(q) /\ HasBackend(r) /\ Backend(q) = Backend(r)
                  /\ q.ingress # r.ingress}

NoOverlap == [self |-> FALSE, canary |-> FALSE, primaries |-> {}, canaries |-> {},
              shared |-> {}, links |-> {}]

\* The order of the links of a backend: locations in the order in which the
\* Ingresses first mention them, at each location the canaries as listed.
Listed(ingresses, r, q) ==
  LET place(x) == CHOOSE n \in DOMAIN ingresses : ingresses[n] = x.ingress
  IN  place(r) < place(q) \/ (place(r) = place(q) /\ r.k <= q.k)

LinkBefore(ingresses, routes, l, m) ==
  LET first(r) == CHOOSE q \in routes : SameLocation(q, r)
                    /\ \A o \in routes : SameLocation(o, r) => Listed(ingresses, q, o)
  IN  IF SameLocation(l.canary, m.canary) THEN Listed(ingresses, l.canary, m.canary)
      ELSE Listed(ingresses, first(l.canary), first(m.canary))

\* collectRouteOverlaps, for route k of Ingress i.
Overlap(routes, i, k) ==
  LET mine == {r \in routes : r.ingress = i /\ r.k = k}
      overlap(r) ==
        LET others == Others(r, routes)
            primaries == {q \in others : ~Canary(q)}
            canaries == others \ primaries
            links == IF Canary(r) THEN {} ELSE Links(r, routes)
        IN  [self |-> Canary(r) \/ others # {} \/ links # {},
             canary |-> Canary(r), primaries |-> primaries, canaries |-> canaries,
             shared |-> IF Canary(r) THEN SharedCanaries(r, routes) ELSE {},
             links |-> links]
  IN  IF mine = {} THEN NoOverlap ELSE overlap(CHOOSE r \in mine : TRUE)

----------------------------------------------------------------------------
(* A diagnosis is the finding and its severity.                            *)

Diagnosis(finding, severity) == [finding |-> finding, severity |-> severity]

\* Mutant: at a location with canaries the conflict is not looked at.
ApplyOverlapOnce(d, overlap) ==
  IF d.severity \notin {"ok", "info"} THEN d
  ELSE CASE overlap.canary /\ overlap.primaries = {} ->
              Diagnosis("canary without primary", "warning")
         [] ~overlap.canary /\ overlap.primaries # {} /\ overlap.canaries = {} ->
              Diagnosis("conflict", "warning")
         [] OTHER -> d

\* applyRouteOverlap: what was an error or a warning before stays.
ApplyOverlap(d, overlap) ==
  IF d.severity \notin {"ok", "info"} THEN d
  ELSE CASE overlap.canary /\ overlap.primaries = {} ->
              Diagnosis("canary without primary", "warning")
         [] overlap.canary /\ overlap.primaries # {} /\ overlap.shared # {} ->
              Diagnosis("canary Service shared", "warning")
         [] overlap.canary /\ overlap.primaries # {} /\ overlap.shared = {}
              /\ overlap.canaries # {} -> Diagnosis("several canaries", "warning")
         [] ~overlap.canary /\ overlap.primaries # {} -> Diagnosis("conflict", "warning")
         [] OTHER -> d

Names(routes) == {Key(r.ingress) : r \in routes}

\* overlapProperties; the mark tells a canary that splits this route only
\* because the primary of another location shares its Service.
OverlapProperties(overlap, i, k) ==
  [canary |-> overlap.canary,
   of |-> Names(overlap.primaries),
   sharedWith |-> Names(overlap.shared),
   canaries |-> {<<Key(l.canary.ingress), l.canary.service, l.canary.ingress.rule,
                   l.primary.ingress # i \/ l.primary.k # k>> : l \in overlap.links}]
=============================================================================
