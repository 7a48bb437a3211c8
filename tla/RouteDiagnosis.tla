--------------------------- MODULE RouteDiagnosis ---------------------------
(***************************************************************************)
(* What NorthScope says about one route of an Ingress                      *)
(* (internal/k8s/builder_diagnostics.go): the first finding that applies,  *)
(* then what other Ingresses do to the route.  Texts and commands are left *)
(* out; a finding has a name and a severity.                               *)
(***************************************************************************)
EXTENDS Endpoints, RouteOverlaps

ServicesNamed(c, key) == {s \in c.services : Key(s) = key}

\* servicePortName and serviceHasBackendPort: the ports a backend refers to;
\* the first of them counts.
BackendPorts(svc, port) ==
  SelectSeq(svc.ports, LAMBDA p : port # None /\ port \in {p.name, p.number})

\* The part of diagnoseIngressRoute that needs the endpoints.
DiagnoseEndpoints(c, svc, port) ==
  LET pods == PodsOf(svc, c.pods)
      stats == Stats(c, Key(svc))
      selectorless == svc.selector = {}
      ports == BackendPorts(svc, port)
      idle == IF ports = <<>> THEN {} ELSE NonEndpointPods(c, svc, Head(ports).name)
  IN  CASE ~selectorless /\ pods = {} -> Diagnosis("selector matches no pod", "error")
        [] pods # {} /\ \A p \in pods : ~p.ready -> Diagnosis("no pod is ready", "error")
        [] (selectorless \/ \E p \in pods : p.ready) ->
             IF stats.total > 0 /\ stats.usable = 0 THEN Diagnosis("no usable endpoint", "error")
             ELSE IF stats.total = 0 /\ selectorless THEN Diagnosis("no endpoint data", "warning")
             ELSE IF idle # {} THEN Diagnosis("pods are not endpoints", "warning")
             ELSE IF stats.total = 0 THEN Diagnosis("no endpoint data", "warning")
             ELSE IF stats.terminating > 0 THEN Diagnosis("terminating endpoints", "warning")
             ELSE Diagnosis("ready", "ok")

\* Mutant: an unready Service is found only by its endpoints.
DiagnoseWithoutPods(c, i, k) ==
  LET port == i.routes[k].port
      found == ServicesNamed(c, ServiceKey(i, k))
  IN  IF i.routes[k].service = None \/ found = {} THEN Diagnosis("no such Service", "error")
      ELSE IF Stats(c, ServiceKey(i, k)).total = 0 THEN Diagnosis("ready", "ok")
      ELSE DiagnoseEndpoints(c, CHOOSE s \in found : TRUE, port)

\* diagnoseIngressRoute
Diagnose(c, i, k) ==
  LET port == i.routes[k].port
      found == ServicesNamed(c, ServiceKey(i, k))
      svc == CHOOSE s \in found : TRUE
      passesPort == svc.type = "ExternalName" /\ svc.ports = <<>>
  IN  IF i.routes[k].service = None THEN Diagnosis("backend is not a Service", "error")
      ELSE IF found = {} THEN Diagnosis("no such Service", "error")
      ELSE IF ~passesPort /\ BackendPorts(svc, port) = <<>> THEN Diagnosis("no such port", "error")
      ELSE IF IngressController(c, i) = None THEN Diagnosis("no controller", "warning")
      ELSE IF svc.type = "ExternalName" /\ svc.external # None
           THEN Diagnosis("ExternalName", "info")
      ELSE DiagnoseEndpoints(c, svc, port)

RouteDiagnosisOf(c, routes, i, k) == ApplyOverlap(Diagnose(c, i, k), Overlap(routes, i, k))
=============================================================================
