---------------------------- MODULE Controllers ----------------------------
(***************************************************************************)
(* Which controller handles an Ingress, and which exposed Services belong  *)
(* to a controller (internal/k8s/builder_controllers.go).  The code scores *)
(* a Service by the words found in its names and labels; here the words    *)
(* are its name, namespace and labels and those of its pods, and a class   *)
(* has the identity tokens of its controller.                              *)
(***************************************************************************)
EXTENDS KubeObjects

Exposed(svc) == svc.type \in {"NodePort", "LoadBalancer"}

ClassNames(c) == {class.name : class \in c.classes}

\* annotationOnlyIngressClasses: classes that only the old annotation names.
AnnotationClasses(c) ==
  {i.annotation : i \in {j \in ToSet(c.ingresses) : j.class = None}}
    \ (ClassNames(c) \cup {None})

TheOnly(set) == IF Cardinality(set) = 1 THEN CHOOSE x \in set : TRUE ELSE None

\* defaultIngressClassName: none when several are marked.
DefaultClass(c) == TheOnly({class.name : class \in {k \in c.classes : k.default}})

\* ingressControllerClassName
ControllerClass(c, i) ==
  CASE ClassName(i) # None ->
         IF ClassName(i) \in ClassNames(c) \/ i.class = None THEN ClassName(i)
                                                             ELSE None
    [] ClassName(i) = None ->
         IF DefaultClass(c) # None THEN DefaultClass(c) ELSE TheOnly(ClassNames(c))

----------------------------------------------------------------------------
(* matchingIngressClassName: the class with the highest score, if it has   *)
(* at least 6 points and no other class has as many.                       *)

\* serviceIdentityTerms
Words(c, svc) ==
  {svc.ns, svc.name} \cup svc.labels
    \cup (UNION {{p.ns, p.name} \cup p.labels : p \in PodsOf(svc, c.pods)})

\* The classes scored: IngressClass objects and annotation classes, which
\* have no controller string and so no tokens.
ScoredClasses(c) ==
  {[name |-> class.name, tokens |-> class.tokens] : class \in c.classes}
    \cup {[name |-> name, tokens |-> {}] : name \in AnnotationClasses(c)}

Points(condition, n) == IF condition THEN n ELSE 0

Score(c, svc, class) ==
  LET words == Words(c, svc)
      name == IF svc.name = class.name THEN 6 ELSE Points(class.name \in words, 4)
      tokens == 2 * Cardinality((class.tokens \ {class.name}) \cap words)
  IN  IF name + tokens = 0 THEN 0
      ELSE name + tokens + Points("ingress" \in words, 2)
             + Points("controller" \in words, 2)
             + Points("component=controller" \in svc.labels, 4)

MatchingClass(c, svc) ==
  LET scored == ScoredClasses(c)
      best == {class \in scored : Score(c, svc, class) >= 6
                 /\ \A other \in scored : Score(c, svc, other) <= Score(c, svc, class)}
  IN  IF Exposed(svc) THEN TheOnly({class.name : class \in best}) ELSE None

----------------------------------------------------------------------------
(* ingressStatusControllerService: the Service whose load balancer address *)
(* the controller wrote into the Ingress.  Among several, the only one     *)
(* that looks like an ingress controller.                                  *)

ControllerWords == {"ingress", "controller", "traefik", "nginx", "haproxy", "contour",
                    "envoy", "kong", "istio", "gateway"}

LooksLikeController(svc) == ({svc.name} \cup svc.labels) \cap ControllerWords # {}

LoadBalancerAddresses(svc) == svc.addresses \cup svc.externalIPs

StatusService(c, i) ==
  LET candidates == {svc \in c.services : Exposed(svc)
                       /\ LoadBalancerAddresses(svc) \cap i.addresses # {}}
  IN  IF Cardinality(candidates) = 1 THEN TheOnly(candidates)
      ELSE TheOnly({svc \in candidates : LooksLikeController(svc)})

\* The node of the controller of Ingress i, or None.
StatusControllerOf(c, i) ==
  LET svc == StatusService(c, i)
  IN  IF ControllerClass(c, i) # None \/ svc = None THEN None
      ELSE IF MatchingClass(c, svc) # None THEN ControllerID(MatchingClass(c, svc))
      ELSE StatusControllerID(svc)

IngressController(c, i) ==
  IF ControllerClass(c, i) # None THEN ControllerID(ControllerClass(c, i))
                                  ELSE StatusControllerOf(c, i)

\* Services that stand for a controller of their own.
StatusServices(c) ==
  {svc \in c.services : MatchingClass(c, svc) = None
     /\ \E i \in ToSet(c.ingresses) : StatusService(c, i) = svc
                                      /\ ControllerClass(c, i) = None}

\* Where the load balancer and the node ports of a Service lead.
ExposedTarget(c, svc) ==
  CASE MatchingClass(c, svc) # None -> ControllerID(MatchingClass(c, svc))
    [] svc \in StatusServices(c) -> StatusControllerID(svc)
    [] OTHER -> ServiceID(svc)
=============================================================================
