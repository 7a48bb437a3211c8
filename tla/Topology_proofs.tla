-------------------------- MODULE Topology_proofs --------------------------
(***************************************************************************)
(* Proofs about Topology, for any cluster: what a build draws, and that it *)
(* draws both ends of each edge.                                           *)
(***************************************************************************)
EXTENDS Topology, FiniteSetTheorems, WellFoundedInduction, TLAPS

-----------------------------------------------------------------------------
(* The maps that nodes and edges are put together from.                    *)

LEMMA Greatest ==
  ASSUME NEW n \in Nat, NEW S, S \subseteq 1 .. n, S # {}
  PROVE  Max(S) \in S /\ \A m \in S : m <= Max(S)
<1> DEFINE Above(m) == {k \in S : k > m}
           T == {Above(m) : m \in S}
<1>1. IsFiniteSet(S) /\ \A m \in S : m \in Nat
  <2>1. IsFiniteSet(1 .. n)
    BY FS_Interval
  <2>2. S \in SUBSET (1 .. n)
    OBVIOUS
  <2>3. \A m \in 1 .. n : m \in Nat
    OBVIOUS
  <2>4. QED
    BY <2>1, <2>2, <2>3, FS_Subset
<1>2. T \subseteq FiniteSubsetsOf(S) /\ T # {}
  <2>1. ASSUME NEW m \in S PROVE Above(m) \in FiniteSubsetsOf(S)
    <3>1. Above(m) \in SUBSET S
      OBVIOUS
    <3>2. QED
      BY <3>1, <1>1, FS_Subset DEF FiniteSubsetsOf
  <2>2. QED
    BY <2>1
<1>3. PICK t \in T : \A u \in T : ~(<<u, t>> \in StrictSubsetOrdering(S))
  BY <1>2, FS_StrictSubsetOrderingWellFounded, WFMin
<1>4. PICK s \in S : t = Above(s)
  BY <1>3
<1>5. ASSUME NEW m \in S, m > s PROVE FALSE
  <2>1. m \in Nat /\ s \in Nat /\ m > s /\ \A k \in S : k \in Nat
    BY <1>1, <1>5
  <2>2. ASSUME NEW k \in Above(m) PROVE k \in Above(s)
    <3>1. k \in S /\ k \in Nat /\ k > m
      BY <2>1
    <3>2. k > s
      BY <3>1, <2>1
    <3>3. QED
      BY <3>1, <3>2
  <2>3. m \in Above(s) /\ m \notin Above(m)
    BY <2>1
  <2>4. Above(m) \in SUBSET S /\ Above(s) \in SUBSET S /\ Above(m) \in T
    OBVIOUS
  <2> HIDE DEF Above, T
  <2>5. <<Above(m), Above(s)>> \in StrictSubsetOrdering(S)
    BY <2>2, <2>3, <2>4 DEF StrictSubsetOrdering
  <2>6. QED
    BY <2>4, <2>5, <1>3, <1>4
<1>6. \A m \in S : m <= s
  BY <1>1, <1>5
<1>7. QED
  BY <1>1, <1>6 DEF Max

\* A map with all that several maps hold, and nothing else.
MergeOf(map, fs, n) ==
  /\ \A x : x \in DOMAIN map <=> \E k \in 1 .. n : x \in DOMAIN fs[k]
  /\ \A x \in DOMAIN map : \E k \in 1 .. n : x \in DOMAIN fs[k] /\ map[x] = fs[k][x]

LEMMA Merged ==
  ASSUME NEW n \in Nat, NEW fs, DOMAIN fs = 1 .. n
  PROVE  MergeOf(Merge(fs), fs, n)
<1>1. \A x : x \in DOMAIN Merge(fs) <=> \E k \in 1 .. n : x \in DOMAIN fs[k]
  BY DEF Merge
<1>2. ASSUME NEW x \in DOMAIN Merge(fs)
      PROVE  \E k \in 1 .. n : x \in DOMAIN fs[k] /\ Merge(fs)[x] = fs[k][x]
  <2> DEFINE S == {k \in DOMAIN fs : x \in DOMAIN fs[k]}
  <2>1. S \subseteq 1 .. n /\ S # {}
    BY <1>1
  <2>2. Max(S) \in S
    BY <2>1, Greatest
  <2>3. Merge(fs)[x] = fs[Max(S)][x]
    BY DEF Merge
  <2> DEFINE top == Max(S)
  <2> HIDE DEF top
  <2>4. top \in 1 .. n /\ x \in DOMAIN fs[top] /\ Merge(fs)[x] = fs[top][x]
    BY <2>1, <2>2, <2>3 DEF top
  <2>5. QED
    BY <2>4
<1>3. QED
  BY <1>1, <1>2 DEF MergeOf

LEMMA Merged2 ==
  ASSUME NEW f1, NEW f2
  PROVE  LET m == Merge(<<f1, f2>>) IN
         /\ \A x : x \in DOMAIN m <=>
              \/ x \in DOMAIN f1 \/ x \in DOMAIN f2
         /\ \A x \in DOMAIN m :
              \/ x \in DOMAIN f1 /\ m[x] = f1[x]
              \/ x \in DOMAIN f2 /\ m[x] = f2[x]
<1> DEFINE fs == <<f1, f2>>
<1>1. DOMAIN fs = 1 .. 2
  OBVIOUS
<1>2. /\ fs[1] = f1 /\ fs[2] = f2
  OBVIOUS
<1> HIDE DEF fs
<1>3. \A k : k \in 1 .. 2 <=> k \in {1, 2}
  OBVIOUS
<1>4. 2 \in Nat
  OBVIOUS
<1>5. MergeOf(Merge(fs), fs, 2)
  BY <1>1, <1>4, Merged
<1>6. ASSUME NEW x
      PROVE  x \in DOMAIN Merge(fs) <=>
               \/ x \in DOMAIN f1 \/ x \in DOMAIN f2
  BY <1>2, <1>3, <1>5 DEF MergeOf
<1>7. ASSUME NEW x \in DOMAIN Merge(fs)
      PROVE  \/ x \in DOMAIN f1 /\ Merge(fs)[x] = f1[x]
             \/ x \in DOMAIN f2 /\ Merge(fs)[x] = f2[x]
  BY <1>2, <1>3, <1>5 DEF MergeOf
<1>8. QED
  BY <1>6, <1>7 DEF fs

LEMMA Merged3 ==
  ASSUME NEW f1, NEW f2, NEW f3
  PROVE  LET m == Merge(<<f1, f2, f3>>) IN
         /\ \A x : x \in DOMAIN m <=>
              \/ x \in DOMAIN f1 \/ x \in DOMAIN f2 \/ x \in DOMAIN f3
         /\ \A x \in DOMAIN m :
              \/ x \in DOMAIN f1 /\ m[x] = f1[x]
              \/ x \in DOMAIN f2 /\ m[x] = f2[x]
              \/ x \in DOMAIN f3 /\ m[x] = f3[x]
<1> DEFINE fs == <<f1, f2, f3>>
<1>1. DOMAIN fs = 1 .. 3
  OBVIOUS
<1>2. /\ fs[1] = f1 /\ fs[2] = f2 /\ fs[3] = f3
  OBVIOUS
<1> HIDE DEF fs
<1>3. \A k : k \in 1 .. 3 <=> k \in {1, 2, 3}
  OBVIOUS
<1>4. 3 \in Nat
  OBVIOUS
<1>5. MergeOf(Merge(fs), fs, 3)
  BY <1>1, <1>4, Merged
<1>6. ASSUME NEW x
      PROVE  x \in DOMAIN Merge(fs) <=>
               \/ x \in DOMAIN f1 \/ x \in DOMAIN f2 \/ x \in DOMAIN f3
  BY <1>2, <1>3, <1>5 DEF MergeOf
<1>7. ASSUME NEW x \in DOMAIN Merge(fs)
      PROVE  \/ x \in DOMAIN f1 /\ Merge(fs)[x] = f1[x]
             \/ x \in DOMAIN f2 /\ Merge(fs)[x] = f2[x]
             \/ x \in DOMAIN f3 /\ Merge(fs)[x] = f3[x]
  BY <1>2, <1>3, <1>5 DEF MergeOf
<1>8. QED
  BY <1>6, <1>7 DEF fs

LEMMA Merged4 ==
  ASSUME NEW f1, NEW f2, NEW f3, NEW f4
  PROVE  LET m == Merge(<<f1, f2, f3, f4>>) IN
         /\ \A x : x \in DOMAIN m <=>
              \/ x \in DOMAIN f1 \/ x \in DOMAIN f2 \/ x \in DOMAIN f3
              \/ x \in DOMAIN f4
         /\ \A x \in DOMAIN m :
              \/ x \in DOMAIN f1 /\ m[x] = f1[x]
              \/ x \in DOMAIN f2 /\ m[x] = f2[x]
              \/ x \in DOMAIN f3 /\ m[x] = f3[x]
              \/ x \in DOMAIN f4 /\ m[x] = f4[x]
<1> DEFINE fs == <<f1, f2, f3, f4>>
<1>1. DOMAIN fs = 1 .. 4
  OBVIOUS
<1>2. /\ fs[1] = f1 /\ fs[2] = f2 /\ fs[3] = f3 /\ fs[4] = f4
  OBVIOUS
<1> HIDE DEF fs
<1>3. \A k : k \in 1 .. 4 <=> k \in {1, 2, 3, 4}
  OBVIOUS
<1>4. 4 \in Nat
  OBVIOUS
<1>5. MergeOf(Merge(fs), fs, 4)
  BY <1>1, <1>4, Merged
<1>6. ASSUME NEW x
      PROVE  x \in DOMAIN Merge(fs) <=>
               \/ x \in DOMAIN f1 \/ x \in DOMAIN f2 \/ x \in DOMAIN f3
               \/ x \in DOMAIN f4
  BY <1>2, <1>3, <1>5 DEF MergeOf
<1>7. ASSUME NEW x \in DOMAIN Merge(fs)
      PROVE  \/ x \in DOMAIN f1 /\ Merge(fs)[x] = f1[x]
             \/ x \in DOMAIN f2 /\ Merge(fs)[x] = f2[x]
             \/ x \in DOMAIN f3 /\ Merge(fs)[x] = f3[x]
             \/ x \in DOMAIN f4 /\ Merge(fs)[x] = f4[x]
  BY <1>2, <1>3, <1>5 DEF MergeOf
<1>8. QED
  BY <1>6, <1>7 DEF fs

LEMMA Merged5 ==
  ASSUME NEW f1, NEW f2, NEW f3, NEW f4, NEW f5
  PROVE  LET m == Merge(<<f1, f2, f3, f4, f5>>) IN
         /\ \A x : x \in DOMAIN m <=>
              \/ x \in DOMAIN f1 \/ x \in DOMAIN f2 \/ x \in DOMAIN f3
              \/ x \in DOMAIN f4 \/ x \in DOMAIN f5
         /\ \A x \in DOMAIN m :
              \/ x \in DOMAIN f1 /\ m[x] = f1[x]
              \/ x \in DOMAIN f2 /\ m[x] = f2[x]
              \/ x \in DOMAIN f3 /\ m[x] = f3[x]
              \/ x \in DOMAIN f4 /\ m[x] = f4[x]
              \/ x \in DOMAIN f5 /\ m[x] = f5[x]
<1> DEFINE fs == <<f1, f2, f3, f4, f5>>
<1>1. DOMAIN fs = 1 .. 5
  OBVIOUS
<1>2. /\ fs[1] = f1 /\ fs[2] = f2 /\ fs[3] = f3 /\ fs[4] = f4 /\ fs[5] = f5
  OBVIOUS
<1> HIDE DEF fs
<1>3. \A k : k \in 1 .. 5 <=> k \in {1, 2, 3, 4, 5}
  OBVIOUS
<1>4. 5 \in Nat
  OBVIOUS
<1>5. MergeOf(Merge(fs), fs, 5)
  BY <1>1, <1>4, Merged
<1>6. ASSUME NEW x
      PROVE  x \in DOMAIN Merge(fs) <=>
               \/ x \in DOMAIN f1 \/ x \in DOMAIN f2 \/ x \in DOMAIN f3
               \/ x \in DOMAIN f4 \/ x \in DOMAIN f5
  BY <1>2, <1>3, <1>5 DEF MergeOf
<1>7. ASSUME NEW x \in DOMAIN Merge(fs)
      PROVE  \/ x \in DOMAIN f1 /\ Merge(fs)[x] = f1[x]
             \/ x \in DOMAIN f2 /\ Merge(fs)[x] = f2[x]
             \/ x \in DOMAIN f3 /\ Merge(fs)[x] = f3[x]
             \/ x \in DOMAIN f4 /\ Merge(fs)[x] = f4[x]
             \/ x \in DOMAIN f5 /\ Merge(fs)[x] = f5[x]
  BY <1>2, <1>3, <1>5 DEF MergeOf
<1>8. QED
  BY <1>6, <1>7 DEF fs

LEMMA Merged6 ==
  ASSUME NEW f1, NEW f2, NEW f3, NEW f4, NEW f5, NEW f6
  PROVE  LET m == Merge(<<f1, f2, f3, f4, f5, f6>>) IN
         /\ \A x : x \in DOMAIN m <=>
              \/ x \in DOMAIN f1 \/ x \in DOMAIN f2 \/ x \in DOMAIN f3
              \/ x \in DOMAIN f4 \/ x \in DOMAIN f5 \/ x \in DOMAIN f6
         /\ \A x \in DOMAIN m :
              \/ x \in DOMAIN f1 /\ m[x] = f1[x]
              \/ x \in DOMAIN f2 /\ m[x] = f2[x]
              \/ x \in DOMAIN f3 /\ m[x] = f3[x]
              \/ x \in DOMAIN f4 /\ m[x] = f4[x]
              \/ x \in DOMAIN f5 /\ m[x] = f5[x]
              \/ x \in DOMAIN f6 /\ m[x] = f6[x]
<1> DEFINE fs == <<f1, f2, f3, f4, f5, f6>>
<1>1. DOMAIN fs = 1 .. 6
  OBVIOUS
<1>2. /\ fs[1] = f1 /\ fs[2] = f2 /\ fs[3] = f3 /\ fs[4] = f4 /\ fs[5] = f5
      /\ fs[6] = f6
  OBVIOUS
<1> HIDE DEF fs
<1>3. \A k : k \in 1 .. 6 <=> k \in {1, 2, 3, 4, 5, 6}
  OBVIOUS
<1>4. 6 \in Nat
  OBVIOUS
<1>5. MergeOf(Merge(fs), fs, 6)
  BY <1>1, <1>4, Merged
<1>6. ASSUME NEW x
      PROVE  x \in DOMAIN Merge(fs) <=>
               \/ x \in DOMAIN f1 \/ x \in DOMAIN f2 \/ x \in DOMAIN f3
               \/ x \in DOMAIN f4 \/ x \in DOMAIN f5 \/ x \in DOMAIN f6
  BY <1>2, <1>3, <1>5 DEF MergeOf
<1>7. ASSUME NEW x \in DOMAIN Merge(fs)
      PROVE  \/ x \in DOMAIN f1 /\ Merge(fs)[x] = f1[x]
             \/ x \in DOMAIN f2 /\ Merge(fs)[x] = f2[x]
             \/ x \in DOMAIN f3 /\ Merge(fs)[x] = f3[x]
             \/ x \in DOMAIN f4 /\ Merge(fs)[x] = f4[x]
             \/ x \in DOMAIN f5 /\ Merge(fs)[x] = f5[x]
             \/ x \in DOMAIN f6 /\ Merge(fs)[x] = f6[x]
  BY <1>2, <1>3, <1>5 DEF MergeOf
<1>8. QED
  BY <1>6, <1>7 DEF fs

LEMMA Merged7 ==
  ASSUME NEW f1, NEW f2, NEW f3, NEW f4, NEW f5, NEW f6, NEW f7
  PROVE  LET m == Merge(<<f1, f2, f3, f4, f5, f6, f7>>) IN
         /\ \A x : x \in DOMAIN m <=>
              \/ x \in DOMAIN f1 \/ x \in DOMAIN f2 \/ x \in DOMAIN f3
              \/ x \in DOMAIN f4 \/ x \in DOMAIN f5 \/ x \in DOMAIN f6
              \/ x \in DOMAIN f7
         /\ \A x \in DOMAIN m :
              \/ x \in DOMAIN f1 /\ m[x] = f1[x]
              \/ x \in DOMAIN f2 /\ m[x] = f2[x]
              \/ x \in DOMAIN f3 /\ m[x] = f3[x]
              \/ x \in DOMAIN f4 /\ m[x] = f4[x]
              \/ x \in DOMAIN f5 /\ m[x] = f5[x]
              \/ x \in DOMAIN f6 /\ m[x] = f6[x]
              \/ x \in DOMAIN f7 /\ m[x] = f7[x]
<1> DEFINE fs == <<f1, f2, f3, f4, f5, f6, f7>>
<1>1. DOMAIN fs = 1 .. 7
  OBVIOUS
<1>2. /\ fs[1] = f1 /\ fs[2] = f2 /\ fs[3] = f3 /\ fs[4] = f4 /\ fs[5] = f5
      /\ fs[6] = f6 /\ fs[7] = f7
  OBVIOUS
<1> HIDE DEF fs
<1>3. \A k : k \in 1 .. 7 <=> k \in {1, 2, 3, 4, 5, 6, 7}
  OBVIOUS
<1>4. 7 \in Nat
  OBVIOUS
<1>5. MergeOf(Merge(fs), fs, 7)
  BY <1>1, <1>4, Merged
<1>6. ASSUME NEW x
      PROVE  x \in DOMAIN Merge(fs) <=>
               \/ x \in DOMAIN f1 \/ x \in DOMAIN f2 \/ x \in DOMAIN f3
               \/ x \in DOMAIN f4 \/ x \in DOMAIN f5 \/ x \in DOMAIN f6
               \/ x \in DOMAIN f7
  BY <1>2, <1>3, <1>5 DEF MergeOf
<1>7. ASSUME NEW x \in DOMAIN Merge(fs)
      PROVE  \/ x \in DOMAIN f1 /\ Merge(fs)[x] = f1[x]
             \/ x \in DOMAIN f2 /\ Merge(fs)[x] = f2[x]
             \/ x \in DOMAIN f3 /\ Merge(fs)[x] = f3[x]
             \/ x \in DOMAIN f4 /\ Merge(fs)[x] = f4[x]
             \/ x \in DOMAIN f5 /\ Merge(fs)[x] = f5[x]
             \/ x \in DOMAIN f6 /\ Merge(fs)[x] = f6[x]
             \/ x \in DOMAIN f7 /\ Merge(fs)[x] = f7[x]
  BY <1>2, <1>3, <1>5 DEF MergeOf
<1>8. QED
  BY <1>6, <1>7 DEF fs

LEMMA Merged9 ==
  ASSUME NEW f1, NEW f2, NEW f3, NEW f4, NEW f5, NEW f6, NEW f7, NEW f8, NEW f9
  PROVE  LET m == Merge(<<f1, f2, f3, f4, f5, f6, f7, f8, f9>>) IN
         /\ \A x : x \in DOMAIN m <=>
              \/ x \in DOMAIN f1 \/ x \in DOMAIN f2 \/ x \in DOMAIN f3
              \/ x \in DOMAIN f4 \/ x \in DOMAIN f5 \/ x \in DOMAIN f6
              \/ x \in DOMAIN f7 \/ x \in DOMAIN f8 \/ x \in DOMAIN f9
         /\ \A x \in DOMAIN m :
              \/ x \in DOMAIN f1 /\ m[x] = f1[x]
              \/ x \in DOMAIN f2 /\ m[x] = f2[x]
              \/ x \in DOMAIN f3 /\ m[x] = f3[x]
              \/ x \in DOMAIN f4 /\ m[x] = f4[x]
              \/ x \in DOMAIN f5 /\ m[x] = f5[x]
              \/ x \in DOMAIN f6 /\ m[x] = f6[x]
              \/ x \in DOMAIN f7 /\ m[x] = f7[x]
              \/ x \in DOMAIN f8 /\ m[x] = f8[x]
              \/ x \in DOMAIN f9 /\ m[x] = f9[x]
<1> DEFINE fs == <<f1, f2, f3, f4, f5, f6, f7, f8, f9>>
<1>1. DOMAIN fs = 1 .. 9
  OBVIOUS
<1>2. /\ fs[1] = f1 /\ fs[2] = f2 /\ fs[3] = f3 /\ fs[4] = f4 /\ fs[5] = f5
      /\ fs[6] = f6 /\ fs[7] = f7 /\ fs[8] = f8 /\ fs[9] = f9
  OBVIOUS
<1> HIDE DEF fs
<1>3. \A k : k \in 1 .. 9 <=> k \in {1, 2, 3, 4, 5, 6, 7, 8, 9}
  OBVIOUS
<1>4. 9 \in Nat
  OBVIOUS
<1>5. MergeOf(Merge(fs), fs, 9)
  BY <1>1, <1>4, Merged
<1>6. ASSUME NEW x
      PROVE  x \in DOMAIN Merge(fs) <=>
               \/ x \in DOMAIN f1 \/ x \in DOMAIN f2 \/ x \in DOMAIN f3
               \/ x \in DOMAIN f4 \/ x \in DOMAIN f5 \/ x \in DOMAIN f6
               \/ x \in DOMAIN f7 \/ x \in DOMAIN f8 \/ x \in DOMAIN f9
  BY <1>2, <1>3, <1>5 DEF MergeOf
<1>7. ASSUME NEW x \in DOMAIN Merge(fs)
      PROVE  \/ x \in DOMAIN f1 /\ Merge(fs)[x] = f1[x]
             \/ x \in DOMAIN f2 /\ Merge(fs)[x] = f2[x]
             \/ x \in DOMAIN f3 /\ Merge(fs)[x] = f3[x]
             \/ x \in DOMAIN f4 /\ Merge(fs)[x] = f4[x]
             \/ x \in DOMAIN f5 /\ Merge(fs)[x] = f5[x]
             \/ x \in DOMAIN f6 /\ Merge(fs)[x] = f6[x]
             \/ x \in DOMAIN f7 /\ Merge(fs)[x] = f7[x]
             \/ x \in DOMAIN f8 /\ Merge(fs)[x] = f8[x]
             \/ x \in DOMAIN f9 /\ Merge(fs)[x] = f9[x]
  BY <1>2, <1>3, <1>5 DEF MergeOf
<1>8. QED
  BY <1>6, <1>7 DEF fs

-----------------------------------------------------------------------------
(* The nodes of a build: the kind of a node is the first part of its ID.   *)

KindsFit(nodes) == \A n \in DOMAIN nodes : nodes[n].kind = n[1]

LEMMA ShowsKind ==
  ASSUME NEW kind, NEW status, NEW properties
  PROVE  Shows(kind, status, properties).kind = kind
BY DEF Shows

LEMMA Heads ==
  /\ \A class : ControllerID(class)[1] = "Controller" /\ GatewayClassID(class)[1] = "Controller"
  /\ \A svc : StatusControllerID(svc)[1] = "Controller"
  /\ \A node : HostID(node)[1] = "Node"
  /\ \A p : PodID(p)[1] = "Pod"
  /\ \A svc : ServiceID(svc)[1] = "Service" /\ LoadBalancerID(svc)[1] = "LoadBalancer"
  /\ \A svc : ExternalNameID(svc)[1] = "Endpoint"
  /\ \A svc, port : NodePortID(svc, port)[1] = "NodePort"
  /\ \A i : IngressID(i)[1] = "Ingress"
  /\ \A i, k : IngressRouteID(i, k)[1] = "Route"
  /\ \A host : DnsID(host)[1] = "DNS"
  /\ \A o, owner, address : AddressID(o, owner, address)[1] = "LoadBalancer"
  /\ \A r : GatewayID(r)[1] = "Gateway" /\ RouteID(r)[1] = "Route" /\ F5ID(r)[1] = "LoadBalancer"
  /\ \A s, address : SliceEndpointID(s, address)[1] = "EndpointSlice"
  /\ \A e, address : EndpointID(e, address)[1] = "Endpoint"
BY DEF ControllerID, GatewayClassID, StatusControllerID, HostID, PodID, ServiceID, LoadBalancerID,
       ExternalNameID, NodePortID, IngressID, IngressRouteID, DnsID, AddressID, GatewayID, RouteID,
       F5ID, SliceEndpointID, EndpointID, ID

LEMMA MergedKinds ==
  ASSUME NEW n \in Nat, NEW fs, DOMAIN fs = 1 .. n, \A k \in 1 .. n : KindsFit(fs[k])
  PROVE  KindsFit(Merge(fs))
<1>1. MergeOf(Merge(fs), fs, n)
  BY Merged
<1>2. ASSUME NEW x \in DOMAIN Merge(fs) PROVE Merge(fs)[x].kind = x[1]
  BY <1>1 DEF MergeOf, KindsFit
<1>3. QED
  BY <1>2 DEF KindsFit

ClassIDs(c) == {ControllerID(name) : name \in ClassNames(c)}
AnnotationIDs(c) == {ControllerID(name) : name \in AnnotationClasses(c)}
StatusIDs(c) == {StatusControllerID(svc) : svc \in StatusServices(c)}

LEMMA ControllerNodesAre ==
  ASSUME NEW c
  PROVE  /\ DOMAIN ControllerNodes(c) = ClassIDs(c) \cup AnnotationIDs(c) \cup StatusIDs(c)
         /\ KindsFit(ControllerNodes(c))
<1> DEFINE f1 == [n \in ClassIDs(c) |-> ShowController("Configured")]
           f2 == [n \in AnnotationIDs(c) |-> ShowController("Inferred")]
           f3 == [n \in StatusIDs(c) |-> ShowController("Inferred")]
           fs == <<f1, f2, f3>>
<1>1. ControllerNodes(c) = Merge(fs)
  BY DEF ControllerNodes, ClassIDs, AnnotationIDs, StatusIDs
<1>2. DOMAIN f1 = ClassIDs(c) /\ KindsFit(f1)
  BY ShowsKind, Heads DEF KindsFit, Drawn, ClassIDs, ShowController
<1>3. DOMAIN f2 = AnnotationIDs(c) /\ KindsFit(f2)
  BY ShowsKind, Heads DEF KindsFit, Drawn, AnnotationIDs, ShowController
<1>4. DOMAIN f3 = StatusIDs(c) /\ KindsFit(f3)
  BY ShowsKind, Heads DEF KindsFit, Drawn, StatusIDs, ShowController
<1> HIDE DEF f1, f2, f3
<1>5. DOMAIN fs = 1 .. 3 /\ 3 \in Nat
  OBVIOUS
<1>6. \A k \in 1 .. 3 : KindsFit(fs[k])
  BY <1>2, <1>3, <1>4
<1> HIDE DEF fs
<1>7. KindsFit(Merge(fs))
  BY <1>5, <1>6, MergedKinds
<1>8. DOMAIN Merge(fs) = DOMAIN f1 \cup DOMAIN f2 \cup DOMAIN f3
  BY Merged3 DEF fs
<1>9. QED
  BY <1>1, <1>2, <1>3, <1>4, <1>7, <1>8

HostIDs(c) == {HostID(node) : node \in c.nodes}
PodIDs(c) == {PodID(p) : p \in ToSet(c.pods)}
ServiceIDs(c) == {ServiceID(svc) : svc \in c.services}
ExternalNameIDs(c) == {ExternalNameID(svc) : svc \in ExternalNames(c)}

LEMMA WorkloadNodesAre ==
  ASSUME NEW c
  PROVE  /\ DOMAIN WorkloadNodes(c) =
              HostIDs(c) \cup PodIDs(c) \cup ServiceIDs(c) \cup ExternalNameIDs(c)
         /\ KindsFit(WorkloadNodes(c))
<1> DEFINE f1 == [n \in HostIDs(c) |-> Shows("Node", None, <<>>)]
           f2 == Drawn(ToSet(c.pods), PodID, ShowPod)
           f3 == Drawn(c.services, ServiceID, ShowService)
           f4 == Drawn(ExternalNames(c), ExternalNameID,
                       LAMBDA svc : Shows("Endpoint", "ExternalName", <<svc.external>>))
           fs == <<f1, f2, f3, f4>>
<1>1. WorkloadNodes(c) = Merge(fs)
  BY DEF WorkloadNodes, HostIDs
<1>2. DOMAIN f1 = HostIDs(c) /\ KindsFit(f1)
  BY ShowsKind, Heads DEF KindsFit, Drawn, HostIDs
<1>3. DOMAIN f2 = PodIDs(c) /\ KindsFit(f2)
  BY ShowsKind, Heads DEF KindsFit, Drawn, PodIDs, ShowPod
<1>4. DOMAIN f3 = ServiceIDs(c) /\ KindsFit(f3)
  BY ShowsKind, Heads DEF KindsFit, Drawn, ServiceIDs, ShowService
<1>5. DOMAIN f4 = ExternalNameIDs(c) /\ KindsFit(f4)
  BY ShowsKind, Heads DEF KindsFit, Drawn, ExternalNameIDs
<1> HIDE DEF f1, f2, f3, f4
<1>6. DOMAIN fs = 1 .. 4 /\ 4 \in Nat
  OBVIOUS
<1>7. \A k \in 1 .. 4 : KindsFit(fs[k])
  BY <1>2, <1>3, <1>4, <1>5
<1> HIDE DEF fs
<1>8. KindsFit(Merge(fs))
  BY <1>6, <1>7, MergedKinds
<1>9. DOMAIN Merge(fs) = DOMAIN f1 \cup DOMAIN f2 \cup DOMAIN f3 \cup DOMAIN f4
  BY Merged4 DEF fs
<1>10. QED
  BY <1>1, <1>2, <1>3, <1>4, <1>5, <1>8, <1>9

ExposedPorts(c) == PairsOf({s \in c.services : Exposed(s)}, NodePorts)
Balancers(c) == {s \in c.services : s.type = "LoadBalancer"}
BalancerIDs(c) == {LoadBalancerID(svc) : svc \in Balancers(c)}
NodePortIDs(c) == {NodePortID(x[1], x[2]) : x \in ExposedPorts(c)}

LEMMA BalancerKind == \A svc : ShowLoadBalancer(svc).kind = "LoadBalancer"
BY DEF ShowLoadBalancer, ShowService, Shows

LEMMA ExposureNodesAre ==
  ASSUME NEW c
  PROVE  /\ DOMAIN ExposureNodes(c) = BalancerIDs(c) \cup NodePortIDs(c)
         /\ KindsFit(ExposureNodes(c))
<1> DEFINE f1 == Drawn(Balancers(c), LoadBalancerID, ShowLoadBalancer)
           f2 == Drawn(ExposedPorts(c), LAMBDA x : NodePortID(x[1], x[2]),
                       LAMBDA x : Shows("NodePort", x[1].type, <<x[2]>>))
           fs == <<f1, f2>>
<1>1. ExposureNodes(c) = Merge(fs)
  BY DEF ExposureNodes, ExposedPorts, Balancers
<1>2. DOMAIN f1 = BalancerIDs(c) /\ KindsFit(f1)
  BY BalancerKind, Heads DEF KindsFit, Drawn, BalancerIDs
<1>3. DOMAIN f2 = NodePortIDs(c) /\ KindsFit(f2)
  BY ShowsKind, Heads DEF KindsFit, Drawn, NodePortIDs
<1> HIDE DEF f1, f2
<1>4. DOMAIN fs = 1 .. 2 /\ 2 \in Nat
  OBVIOUS
<1>5. \A k \in 1 .. 2 : KindsFit(fs[k])
  BY <1>2, <1>3
<1> HIDE DEF fs
<1>6. KindsFit(Merge(fs))
  BY <1>4, <1>5, MergedKinds
<1>7. DOMAIN Merge(fs) = DOMAIN f1 \cup DOMAIN f2
  BY Merged2 DEF fs
<1>8. QED
  BY <1>1, <1>2, <1>3, <1>6, <1>7

IngressIDs(c) == {IngressID(i) : i \in ToSet(c.ingresses)}
IngressRouteIDs(c) == {IngressRouteID(x[1], x[2]) : x \in RoutesOf(c)}
IngressHosts(c) == UNION {Hosts(i) : i \in ToSet(c.ingresses)}
IngressDnsIDs(c) == {DnsID(host) : host \in IngressHosts(c)}
IngressAddresses(c) == PairsOf(ToSet(c.ingresses), LAMBDA i : i.addresses)
IngressAddressIDs(c) == {AddressID(x[1], "ingress", x[2]) : x \in IngressAddresses(c)}

LEMMA IngressNodesAre ==
  ASSUME NEW c
  PROVE  /\ DOMAIN IngressNodes(c) = IngressIDs(c) \cup IngressRouteIDs(c) \cup IngressDnsIDs(c)
               \cup IngressAddressIDs(c)
         /\ KindsFit(IngressNodes(c))
<1> DEFINE f1 == Drawn(ToSet(c.ingresses), IngressID, ShowIngress)
           f2 == Drawn(RoutesOf(c), LAMBDA x : IngressRouteID(x[1], x[2]),
                       LAMBDA x : ShowIngressRoute(c, OverlapRoutes(c), x[1], x[2]))
           f3 == [n \in IngressDnsIDs(c) |-> Shows("DNS", None, <<>>)]
           f4 == Drawn(IngressAddresses(c), LAMBDA x : AddressID(x[1], "ingress", x[2]),
                       LAMBDA x : ShowAddress("Ingress", x[2]))
           fs == <<f1, f2, f3, f4>>
<1>1. IngressNodes(c) = Merge(fs)
  BY DEF IngressNodes, IngressHosts, IngressDnsIDs, IngressAddresses
<1>2. DOMAIN f1 = IngressIDs(c) /\ KindsFit(f1)
  BY ShowsKind, Heads DEF KindsFit, Drawn, IngressIDs, ShowIngress
<1>3. DOMAIN f2 = IngressRouteIDs(c) /\ KindsFit(f2)
  BY ShowsKind, Heads DEF KindsFit, Drawn, IngressRouteIDs, ShowIngressRoute
<1>4. DOMAIN f3 = IngressDnsIDs(c) /\ KindsFit(f3)
  BY ShowsKind, Heads DEF KindsFit, Drawn, IngressDnsIDs
<1>5. DOMAIN f4 = IngressAddressIDs(c) /\ KindsFit(f4)
  BY ShowsKind, Heads DEF KindsFit, Drawn, IngressAddressIDs, ShowAddress
<1> HIDE DEF f1, f2, f3, f4
<1>6. DOMAIN fs = 1 .. 4 /\ 4 \in Nat
  OBVIOUS
<1>7. \A k \in 1 .. 4 : KindsFit(fs[k])
  BY <1>2, <1>3, <1>4, <1>5
<1> HIDE DEF fs
<1>8. KindsFit(Merge(fs))
  BY <1>6, <1>7, MergedKinds
<1>9. DOMAIN Merge(fs) = DOMAIN f1 \cup DOMAIN f2 \cup DOMAIN f3 \cup DOMAIN f4
  BY Merged4 DEF fs
<1>10. QED
  BY <1>1, <1>2, <1>3, <1>4, <1>5, <1>8, <1>9

Gateways(c) == OfKind(c, {"Gateway"})
Routes(c) == OfKind(c, HTTPKinds)
F5Resources(c) == OfKind(c, F5Kinds)
GatewayClassIDs(c) == {GatewayClassID(r.name) : r \in OfKind(c, {"GatewayClass"})}
GatewayIDs(c) == {GatewayID(r) : r \in Gateways(c)}
RouteIDs(c) == {RouteID(r) : r \in Routes(c)}
GatewayAddresses(c) == PairsOf(Gateways(c), LAMBDA r : r.addresses)
GatewayAddressIDs(c) == {AddressID(x[1], "gateway", x[2]) : x \in GatewayAddresses(c)}
F5IDs(c) == {F5ID(r) : r \in F5Resources(c)}
ExternalHosts(c) ==
  UNION {r.hosts : r \in OfKind(c, {"Gateway"} \cup HTTPKinds \cup F5Kinds)}
ExternalDnsIDs(c) == {DnsID(host) : host \in ExternalHosts(c)}

LEMMA RouteKind == \A c, r : ShowRoute(c, r).kind = "Route"
BY ShowsKind DEF ShowRoute

LEMMA AddressKind == \A provider, address : ShowAddress(provider, address).kind = "LoadBalancer"
BY ShowsKind DEF ShowAddress

LEMMA ExternalNodesAre ==
  ASSUME NEW c
  PROVE  /\ DOMAIN ExternalNodes(c) = GatewayClassIDs(c) \cup GatewayIDs(c) \cup RouteIDs(c)
               \cup GatewayAddressIDs(c) \cup F5IDs(c) \cup ExternalDnsIDs(c)
         /\ KindsFit(ExternalNodes(c))
<1> DEFINE f1 == Drawn(OfKind(c, {"GatewayClass"}), LAMBDA r : GatewayClassID(r.name),
                       LAMBDA r : ShowController("Configured"))
           f2 == Drawn(Gateways(c), GatewayID, LAMBDA r : Shows("Gateway", r.kind, <<r.class>>))
           f3 == Drawn(Routes(c), RouteID, LAMBDA r : ShowRoute(c, r))
           f4 == Drawn(GatewayAddresses(c), LAMBDA x : AddressID(x[1], "gateway", x[2]),
                       LAMBDA x : ShowAddress("Gateway API", x[2]))
           f5 == Drawn(F5Resources(c), F5ID,
                       LAMBDA r : ShowAddress("F5", IF r.addresses = {} THEN None
                                                    ELSE CHOOSE a \in r.addresses : TRUE))
           f6 == [n \in ExternalDnsIDs(c) |-> Shows("DNS", None, <<>>)]
           fs == <<f1, f2, f3, f4, f5, f6>>
<1>1. ExternalNodes(c) = Merge(fs)
  BY DEF ExternalNodes, Gateways, Routes, F5Resources, GatewayAddresses, ExternalHosts,
         ExternalDnsIDs
<1>2. DOMAIN f1 = GatewayClassIDs(c) /\ KindsFit(f1)
  BY ShowsKind, Heads DEF KindsFit, Drawn, GatewayClassIDs, ShowController
<1>3. DOMAIN f2 = GatewayIDs(c) /\ KindsFit(f2)
  BY ShowsKind, Heads DEF KindsFit, Drawn, GatewayIDs
<1>4. DOMAIN f3 = RouteIDs(c) /\ KindsFit(f3)
  BY RouteKind, Heads DEF KindsFit, Drawn, RouteIDs
<1>5. DOMAIN f4 = GatewayAddressIDs(c) /\ KindsFit(f4)
  <2>1. \A x : AddressID(x[1], "gateway", x[2])[1] = "LoadBalancer"
    BY Heads
  <2>2. \A n \in GatewayAddressIDs(c) : n[1] = "LoadBalancer"
    BY <2>1 DEF GatewayAddressIDs
  <2>3. DOMAIN f4 = GatewayAddressIDs(c)
    BY DEF Drawn, GatewayAddressIDs
  <2>4. \A n \in DOMAIN f4 : f4[n].kind = "LoadBalancer"
    BY AddressKind DEF Drawn
  <2>5. QED
    BY <2>2, <2>3, <2>4 DEF KindsFit
<1>6. DOMAIN f5 = F5IDs(c) /\ KindsFit(f5)
  BY AddressKind, Heads DEF KindsFit, Drawn, F5IDs
<1>7. DOMAIN f6 = ExternalDnsIDs(c) /\ KindsFit(f6)
  BY ShowsKind, Heads DEF KindsFit, Drawn, ExternalDnsIDs
<1> HIDE DEF f1, f2, f3, f4, f5, f6
<1>8. DOMAIN fs = 1 .. 6 /\ 6 \in Nat
  OBVIOUS
<1>9. \A k \in 1 .. 6 : KindsFit(fs[k])
  BY <1>2, <1>3, <1>4, <1>5, <1>6, <1>7
<1> HIDE DEF fs
<1>10. KindsFit(Merge(fs))
  BY <1>8, <1>9, MergedKinds
<1>11. DOMAIN Merge(fs) = DOMAIN f1 \cup DOMAIN f2 \cup DOMAIN f3 \cup DOMAIN f4
                            \cup DOMAIN f5 \cup DOMAIN f6
  BY Merged6 DEF fs
<1>12. QED
  BY <1>1, <1>2, <1>3, <1>4, <1>5, <1>6, <1>7, <1>10, <1>11

SliceEndpointIDs(c) == {SliceEndpointID(x[1], x[3]) : x \in SliceEndpoints(c)}
LegacyEndpointIDs(c) == {EndpointID(x[1], x[2].ip) : x \in LegacyEndpoints(c)}

LEMMA EndpointNodesAre ==
  ASSUME NEW c
  PROVE  /\ DOMAIN EndpointNodes(c) = SliceEndpointIDs(c) \cup LegacyEndpointIDs(c)
         /\ KindsFit(EndpointNodes(c))
<1> DEFINE f1 == Drawn(SliceEndpoints(c), LAMBDA x : SliceEndpointID(x[1], x[3]),
                       LAMBDA x : ShowEndpoint("EndpointSlice", Usable(x[2])))
           f2 == Drawn(LegacyEndpoints(c), LAMBDA x : EndpointID(x[1], x[2].ip),
                       LAMBDA x : ShowEndpoint("Endpoint", x[2].ready))
           fs == <<f1, f2>>
<1>1. EndpointNodes(c) = Merge(fs)
  BY DEF EndpointNodes
<1>2. DOMAIN f1 = SliceEndpointIDs(c) /\ KindsFit(f1)
  BY ShowsKind, Heads DEF KindsFit, Drawn, SliceEndpointIDs, ShowEndpoint
<1>3. DOMAIN f2 = LegacyEndpointIDs(c) /\ KindsFit(f2)
  BY ShowsKind, Heads DEF KindsFit, Drawn, LegacyEndpointIDs, ShowEndpoint
<1> HIDE DEF f1, f2
<1>4. DOMAIN fs = 1 .. 2 /\ 2 \in Nat
  OBVIOUS
<1>5. \A k \in 1 .. 2 : KindsFit(fs[k])
  BY <1>2, <1>3
<1> HIDE DEF fs
<1>6. KindsFit(Merge(fs))
  BY <1>4, <1>5, MergedKinds
<1>7. DOMAIN Merge(fs) = DOMAIN f1 \cup DOMAIN f2
  BY Merged2 DEF fs
<1>8. QED
  BY <1>1, <1>2, <1>3, <1>6, <1>7

-----------------------------------------------------------------------------
(* All the nodes of a build.                                               *)

ControllerIDs(c) == ClassIDs(c) \cup AnnotationIDs(c) \cup StatusIDs(c)
WorkloadIDs(c) == HostIDs(c) \cup PodIDs(c) \cup ServiceIDs(c) \cup ExternalNameIDs(c)
ExposureIDs(c) == BalancerIDs(c) \cup NodePortIDs(c)
AllIngressIDs(c) ==
  IngressIDs(c) \cup IngressRouteIDs(c) \cup IngressDnsIDs(c) \cup IngressAddressIDs(c)
ExternalIDs(c) ==
  GatewayClassIDs(c) \cup GatewayIDs(c) \cup RouteIDs(c) \cup GatewayAddressIDs(c)
    \cup F5IDs(c) \cup ExternalDnsIDs(c)
AllEndpointIDs(c) == SliceEndpointIDs(c) \cup LegacyEndpointIDs(c)
NodeIDs(c) ==
  ControllerIDs(c) \cup WorkloadIDs(c) \cup ExposureIDs(c) \cup AllIngressIDs(c)
    \cup ExternalIDs(c) \cup AllEndpointIDs(c)

\* The nodes of BuildTopologyWithOptions are those of its families, and the
\* kind that a node shows is the one in its ID.
LEMMA BuildNodesAre ==
  ASSUME NEW c
  PROVE  DOMAIN Build(c).nodes = NodeIDs(c) /\ KindsFit(Build(c).nodes)
<1> DEFINE f1 == ControllerNodes(c)
           f2 == WorkloadNodes(c)
           f3 == ExposureNodes(c)
           f4 == IngressNodes(c)
           f5 == ExternalNodes(c)
           f6 == EndpointNodes(c)
           fs == <<f1, f2, f3, f4, f5, f6>>
<1>1. Build(c).nodes = Merge(fs)
  BY DEF Build
<1>2. /\ DOMAIN f1 = ControllerIDs(c) /\ DOMAIN f2 = WorkloadIDs(c)
      /\ DOMAIN f3 = ExposureIDs(c) /\ DOMAIN f4 = AllIngressIDs(c)
      /\ DOMAIN f5 = ExternalIDs(c) /\ DOMAIN f6 = AllEndpointIDs(c)
  BY ControllerNodesAre, WorkloadNodesAre, ExposureNodesAre, IngressNodesAre,
     ExternalNodesAre, EndpointNodesAre
     DEF ControllerIDs, WorkloadIDs, ExposureIDs, AllIngressIDs, ExternalIDs, AllEndpointIDs
<1>3. /\ KindsFit(f1) /\ KindsFit(f2) /\ KindsFit(f3)
      /\ KindsFit(f4) /\ KindsFit(f5) /\ KindsFit(f6)
  BY ControllerNodesAre, WorkloadNodesAre, ExposureNodesAre, IngressNodesAre,
     ExternalNodesAre, EndpointNodesAre
<1> HIDE DEF f1, f2, f3, f4, f5, f6
<1>4. DOMAIN fs = 1 .. 6 /\ 6 \in Nat
  OBVIOUS
<1>5. \A k \in 1 .. 6 : KindsFit(fs[k])
  BY <1>3
<1> HIDE DEF fs
<1>6. KindsFit(Merge(fs))
  BY <1>4, <1>5, MergedKinds
<1>7. DOMAIN Merge(fs) =
        DOMAIN f1 \cup DOMAIN f2 \cup DOMAIN f3 \cup DOMAIN f4 \cup DOMAIN f5 \cup DOMAIN f6
  BY Merged6 DEF fs
<1>8. QED
  BY <1>1, <1>2, <1>6, <1>7 DEF NodeIDs

-----------------------------------------------------------------------------
(* The edges of a build, kind by kind.                                     *)

HostsEdge(c, e) ==
  \E p \in ToSet(c.pods) : p.node \in c.nodes /\ e = <<HostID(p.node), PodID(p), "hosts">>
ExternalNameEdge(c, e) ==
  \E svc \in ExternalNames(c) : e = <<ServiceID(svc), ExternalNameID(svc), "externalname">>
Selected(c) == PairsOf(c.services, LAMBDA svc : PodsOf(svc, c.pods))
SelectsEdge(c, e) == \E x \in Selected(c) : e = <<ServiceID(x[1]), PodID(x[2]), "selects">>

LEMMA WorkloadEdgesAre ==
  ASSUME NEW c
  PROVE  \A e : e \in DOMAIN WorkloadEdges(c) <=>
                  HostsEdge(c, e) \/ ExternalNameEdge(c, e) \/ SelectsEdge(c, e)
<1> DEFINE f1 == Linked({<<HostID(p.node), PodID(p), "hosts">> :
                           p \in {q \in ToSet(c.pods) : q.node \in c.nodes}}, "Node")
           f2 == Linked({<<ServiceID(svc), ExternalNameID(svc), "externalname">> :
                           svc \in ExternalNames(c)}, "ExternalName")
           f3 == Linked({<<ServiceID(x[1]), PodID(x[2]), "selects">> : x \in Selected(c)},
                        "Selector")
<1>1. WorkloadEdges(c) = Merge(<<f1, f2, f3>>)
  BY DEF WorkloadEdges, Selected
<1>2. ASSUME NEW e PROVE e \in DOMAIN f1 <=> HostsEdge(c, e)
  BY DEF Linked, HostsEdge
<1>3. ASSUME NEW e PROVE e \in DOMAIN f2 <=> ExternalNameEdge(c, e)
  BY DEF Linked, ExternalNameEdge
<1>4. ASSUME NEW e PROVE e \in DOMAIN f3 <=> SelectsEdge(c, e)
  BY DEF Linked, SelectsEdge
<1> HIDE DEF f1, f2, f3
<1>5. \A e : e \in DOMAIN Merge(<<f1, f2, f3>>) <=>
               e \in DOMAIN f1 \/ e \in DOMAIN f2 \/ e \in DOMAIN f3
  BY Merged3
<1>6. QED
  BY <1>1, <1>2, <1>3, <1>4, <1>5

ExposesEdge(c, e) ==
  \E x \in ExposedPorts(c) :
    x[1] \in Balancers(c) /\ e = <<LoadBalancerID(x[1]), NodePortID(x[1], x[2]), "exposes">>
ForwardsEdge(c, e) ==
  \E x \in ExposedPorts(c) :
    e = <<NodePortID(x[1], x[2]), ExposedTarget(c, x[1]), "forwards">>
BalancesEdge(c, e) ==
  \E svc \in Balancers(c) :
    NodePorts(svc) = {} /\ e = <<LoadBalancerID(svc), ExposedTarget(c, svc), "balances">>

LEMMA ExposureEdgesAre ==
  ASSUME NEW c
  PROVE  \A e : e \in DOMAIN ExposureEdges(c) <=>
                  ExposesEdge(c, e) \/ ForwardsEdge(c, e) \/ BalancesEdge(c, e)
<1> DEFINE f1 == Linked({<<LoadBalancerID(x[1]), NodePortID(x[1], x[2]), "exposes">> :
                           x \in {y \in ExposedPorts(c) : y[1] \in Balancers(c)}},
                        "LoadBalancer")
           f2 == Linked({<<NodePortID(x[1], x[2]), ExposedTarget(c, x[1]), "forwards">> :
                           x \in ExposedPorts(c)}, "NodePort")
           f3 == Linked({<<LoadBalancerID(s), ExposedTarget(c, s), "balances">> :
                           s \in {b \in Balancers(c) : NodePorts(b) = {}}}, "LoadBalancer")
<1>1. ExposureEdges(c) = Merge(<<f1, f2, f3>>)
  BY DEF ExposureEdges, ExposedPorts, Balancers
<1>2. ASSUME NEW e PROVE e \in DOMAIN f1 <=> ExposesEdge(c, e)
  BY DEF Linked, ExposesEdge
<1>3. ASSUME NEW e PROVE e \in DOMAIN f2 <=> ForwardsEdge(c, e)
  BY DEF Linked, ForwardsEdge
<1>4. ASSUME NEW e PROVE e \in DOMAIN f3 <=> BalancesEdge(c, e)
  BY DEF Linked, BalancesEdge
<1> HIDE DEF f1, f2, f3
<1>5. \A e : e \in DOMAIN Merge(<<f1, f2, f3>>) <=>
               e \in DOMAIN f1 \/ e \in DOMAIN f2 \/ e \in DOMAIN f3
  BY Merged3
<1>6. QED
  BY <1>1, <1>2, <1>3, <1>4, <1>5

Controlled(c) == {i \in ToSet(c.ingresses) : IngressController(c, i) # None}
Classed(c) == {i \in Controlled(c) : ControllerClass(c, i) # None}
HostPairs(c) == PairsOf(ToSet(c.ingresses), Hosts)
Backed(c) == {x \in RoutesOf(c) : ServicesNamed(c, ServiceKey(x[1], x[2])) # {}}
BackendID(x) == <<"Service", x[1].ns, <<x[1].routes[x[2]].service>>>>
ServedLinks(c, x) ==
  {l \in Overlap(OverlapRoutes(c), x[1], x[2]).links :
     ServicesNamed(c, <<l.canary.ingress.ns, l.canary.service>>) # {}}
CanaryLinks(c) == PairsOf(RoutesOf(c), LAMBDA x : ServedLinks(c, x))
CanaryID(l) == <<"Service", l.canary.ingress.ns, <<l.canary.service>>>>

ControlsEdge(c, e) ==
  \E i \in Controlled(c) : e = <<IngressController(c, i), IngressID(i), "controls">>
IngressResolvesEdge(c, e) ==
  \E x \in HostPairs(c) : e = <<DnsID(x[2]), IngressID(x[1]), "resolves">>
IngressFrontsEdge(c, e) ==
  \E x \in IngressAddresses(c) :
    e = <<AddressID(x[1], "ingress", x[2]), IngressID(x[1]), "fronts">>
DefinesEdge(c, e) ==
  \E x \in RoutesOf(c) : e = <<IngressID(x[1]), IngressRouteID(x[1], x[2]), "defines">>
IngressRoutesEdge(c, e) ==
  \E x \in Backed(c) : e = <<IngressRouteID(x[1], x[2]), BackendID(x), "routes">>
CanaryEdge(c, e) ==
  \E x \in CanaryLinks(c) :
    e = <<IngressRouteID(x[1][1], x[1][2]), CanaryID(x[2]), "canary">>

LEMMA CanaryEdgesAre ==
  ASSUME NEW c
  PROVE  \A e : e \in DOMAIN CanaryEdges(c, OverlapRoutes(c)) <=> CanaryEdge(c, e)
<1> DEFINE E == {<<IngressRouteID(x[1][1], x[1][2]), CanaryID(x[2]), "canary">> :
                   x \in CanaryLinks(c)}
<1>1. DOMAIN CanaryEdges(c, OverlapRoutes(c)) = E
  BY DEF CanaryEdges, CanaryLinks, ServedLinks, CanaryID
<1>2. \A e : e \in E <=> CanaryEdge(c, e)
  BY DEF CanaryEdge
<1>3. QED
  BY <1>1, <1>2

LEMMA IngressEdgesAre ==
  ASSUME NEW c
  PROVE  \A e : e \in DOMAIN IngressEdges(c) <=>
                  \/ ControlsEdge(c, e) \/ IngressResolvesEdge(c, e) \/ IngressFrontsEdge(c, e)
                  \/ DefinesEdge(c, e) \/ IngressRoutesEdge(c, e) \/ CanaryEdge(c, e)
<1> DEFINE controls(set, source) ==
             Linked({<<IngressController(c, i), IngressID(i), "controls">> : i \in set}, source)
           f1 == controls(Classed(c), "IngressClass")
           f2 == controls(Controlled(c) \ Classed(c), "Ingress status")
           f3 == Linked({<<DnsID(x[2]), IngressID(x[1]), "resolves">> : x \in HostPairs(c)},
                        "DNS")
           f4 == Linked({<<AddressID(x[1], "ingress", x[2]), IngressID(x[1]), "fronts">> :
                           x \in IngressAddresses(c)}, "Ingress status")
           f5 == Linked({<<IngressID(x[1]), IngressRouteID(x[1], x[2]), "defines">> :
                           x \in RoutesOf(c)}, "route")
           f6 == Linked({<<IngressRouteID(x[1], x[2]), BackendID(x), "routes">> :
                           x \in Backed(c)}, "HTTP backend")
           f7 == CanaryEdges(c, OverlapRoutes(c))
<1>1. IngressEdges(c) = Merge(<<f1, f2, f3, f4, f5, f6, f7>>)
  BY DEF IngressEdges, Controlled, Classed, HostPairs, IngressAddresses, Backed, BackendID
<1>2. ASSUME NEW e PROVE e \in DOMAIN f1 \/ e \in DOMAIN f2 <=> ControlsEdge(c, e)
  BY DEF Linked, ControlsEdge, Classed
<1>3. ASSUME NEW e PROVE e \in DOMAIN f3 <=> IngressResolvesEdge(c, e)
  BY DEF Linked, IngressResolvesEdge
<1>4. ASSUME NEW e PROVE e \in DOMAIN f4 <=> IngressFrontsEdge(c, e)
  BY DEF Linked, IngressFrontsEdge
<1>5. ASSUME NEW e PROVE e \in DOMAIN f5 <=> DefinesEdge(c, e)
  BY DEF Linked, DefinesEdge
<1>6. ASSUME NEW e PROVE e \in DOMAIN f6 <=> IngressRoutesEdge(c, e)
  BY DEF Linked, IngressRoutesEdge
<1>7. ASSUME NEW e PROVE e \in DOMAIN f7 <=> CanaryEdge(c, e)
  BY CanaryEdgesAre
<1> HIDE DEF f1, f2, f3, f4, f5, f6, f7
<1>8. \A e : e \in DOMAIN Merge(<<f1, f2, f3, f4, f5, f6, f7>>) <=>
               \/ e \in DOMAIN f1 \/ e \in DOMAIN f2 \/ e \in DOMAIN f3 \/ e \in DOMAIN f4
               \/ e \in DOMAIN f5 \/ e \in DOMAIN f6 \/ e \in DOMAIN f7
  BY Merged7
<1>9. QED
  BY <1>1, <1>2, <1>3, <1>4, <1>5, <1>6, <1>7, <1>8

ClassedGateways(c) ==
  {g \in Gateways(c) : \E k \in OfKind(c, {"GatewayClass"}) : k.name = g.class}
Attached(c, r) == {ref \in r.parents : ParentOutcome(c, r, ref) = "edge"}
Routed(c, r) == {ref \in r.backends : BackendOutcome(c, r, ref) = "edge"}
AcceptedRoutes(c) == {r \in Routes(c) : r.accepted}
RejectedRoutes(c) == {r \in Routes(c) : ~r.accepted}
ParentPairs(c, set) == PairsOf(set, LAMBDA r : Attached(c, r))
BackendPairs(c) == PairsOf(Routes(c), LAMBDA r : Routed(c, r))
F5Pairs(c) == PairsOf(F5Resources(c), LAMBDA r : F5Services(c, r))
ExternalHostPairs(set) == PairsOf(set, LAMBDA r : r.hosts)
ParentID(x) == <<"Gateway", Refers(x[1], x[2])[1], <<x[2].name>>>>
ReferredID(x) == <<"Service", Refers(x[1], x[2])[1], <<x[2].name>>>>

ClassControlsEdge(c, e) ==
  \E g \in ClassedGateways(c) : e = <<GatewayClassID(g.class), GatewayID(g), "controls">>
GatewayFrontsEdge(c, e) ==
  \E x \in GatewayAddresses(c) :
    e = <<AddressID(x[1], "gateway", x[2]), GatewayID(x[1]), "fronts">>
AttachesEdge(c, e) ==
  \/ \E x \in ParentPairs(c, AcceptedRoutes(c)) : e = <<ParentID(x), RouteID(x[1]), "attaches">>
  \/ \E x \in ParentPairs(c, RejectedRoutes(c)) : e = <<ParentID(x), RouteID(x[1]), "rejected">>
BackendEdge(c, e) ==
  \E x \in BackendPairs(c) : e = <<RouteID(x[1]), ReferredID(x), "routes">>
F5Edge(c, e) == \E x \in F5Pairs(c) : e = <<F5ID(x[1]), ServiceID(x[2]), "balances">>
ExternalResolvesEdge(c, e) ==
  \/ \E x \in ExternalHostPairs(Gateways(c)) : e = <<DnsID(x[2]), GatewayID(x[1]), "resolves">>
  \/ \E x \in ExternalHostPairs(Routes(c)) : e = <<DnsID(x[2]), RouteID(x[1]), "resolves">>
  \/ \E x \in ExternalHostPairs(F5Resources(c)) : e = <<DnsID(x[2]), F5ID(x[1]), "resolves">>

LEMMA ExternalEdgesAre ==
  ASSUME NEW c
  PROVE  \A e : e \in DOMAIN ExternalEdges(c) <=>
                  \/ ClassControlsEdge(c, e) \/ GatewayFrontsEdge(c, e) \/ AttachesEdge(c, e)
                  \/ BackendEdge(c, e) \/ F5Edge(c, e) \/ ExternalResolvesEdge(c, e)
<1> DEFINE f1 == Linked({<<GatewayClassID(g.class), GatewayID(g), "controls">> :
                           g \in ClassedGateways(c)}, "GatewayClass")
           f2 == Linked({<<AddressID(x[1], "gateway", x[2]), GatewayID(x[1]), "fronts">> :
                           x \in GatewayAddresses(c)}, "Gateway status")
           f3 == Linked({<<ParentID(x), RouteID(x[1]), "attaches">> :
                           x \in ParentPairs(c, AcceptedRoutes(c))}, "route")
           f4 == Linked({<<ParentID(x), RouteID(x[1]), "rejected">> :
                           x \in ParentPairs(c, RejectedRoutes(c))}, "route")
           f5 == Linked({<<RouteID(x[1]), ReferredID(x), "routes">> : x \in BackendPairs(c)},
                        "backend")
           f6 == Linked({<<F5ID(x[1]), ServiceID(x[2]), "balances">> : x \in F5Pairs(c)}, "F5")
           f7 == Linked({<<DnsID(x[2]), GatewayID(x[1]), "resolves">> :
                           x \in ExternalHostPairs(Gateways(c))}, "DNS")
           f8 == Linked({<<DnsID(x[2]), RouteID(x[1]), "resolves">> :
                           x \in ExternalHostPairs(Routes(c))}, "DNS")
           f9 == Linked({<<DnsID(x[2]), F5ID(x[1]), "resolves">> :
                           x \in ExternalHostPairs(F5Resources(c))}, "DNS")
<1>1. ExternalEdges(c) = Merge(<<f1, f2, f3, f4, f5, f6, f7, f8, f9>>)
  BY DEF ExternalEdges, ClassedGateways, GatewayAddresses, ParentPairs, Attached, BackendPairs,
         Routed, F5Pairs, ExternalHostPairs, ParentID, ReferredID, Gateways, Routes, F5Resources,
         AcceptedRoutes, RejectedRoutes
<1>2. ASSUME NEW e PROVE e \in DOMAIN f1 <=> ClassControlsEdge(c, e)
  BY DEF Linked, ClassControlsEdge
<1>3. ASSUME NEW e PROVE e \in DOMAIN f2 <=> GatewayFrontsEdge(c, e)
  BY DEF Linked, GatewayFrontsEdge
<1>4. ASSUME NEW e PROVE e \in DOMAIN f3 \/ e \in DOMAIN f4 <=> AttachesEdge(c, e)
  BY DEF Linked, AttachesEdge
<1>5. ASSUME NEW e PROVE e \in DOMAIN f5 <=> BackendEdge(c, e)
  BY DEF Linked, BackendEdge
<1>6. ASSUME NEW e PROVE e \in DOMAIN f6 <=> F5Edge(c, e)
  BY DEF Linked, F5Edge
<1>7. ASSUME NEW e
      PROVE  e \in DOMAIN f7 \/ e \in DOMAIN f8 \/ e \in DOMAIN f9 <=> ExternalResolvesEdge(c, e)
  BY DEF Linked, ExternalResolvesEdge
<1> HIDE DEF f1, f2, f3, f4, f5, f6, f7, f8, f9
<1>8. \A e : e \in DOMAIN Merge(<<f1, f2, f3, f4, f5, f6, f7, f8, f9>>) <=>
               \/ e \in DOMAIN f1 \/ e \in DOMAIN f2 \/ e \in DOMAIN f3 \/ e \in DOMAIN f4
               \/ e \in DOMAIN f5 \/ e \in DOMAIN f6 \/ e \in DOMAIN f7 \/ e \in DOMAIN f8
               \/ e \in DOMAIN f9
  BY Merged9
<1>9. QED
  BY <1>1, <1>2, <1>3, <1>4, <1>5, <1>6, <1>7, <1>8

SlicePairs(c) == PairsOf(ManualSlices(c), LAMBDA s : SlicePods(c.pods, s))
EndpointPairs(c) == PairsOf(ManualEndpoints(c), LAMBDA e : EndpointPods(c.pods, e))
SliceServiceID(s) == <<"Service", s.ns, <<s.service>>>>
EndpointServiceID(x) == <<"Service", x.ns, <<x.name>>>>

SliceEdge(c, e) ==
  \/ \E x \in SlicePairs(c) : e = <<SliceServiceID(x[1]), PodID(x[2]), "endpointslice">>
  \/ \E x \in SliceAddresses(c) :
       e = <<SliceServiceID(x[1]), SliceEndpointID(x[1], x[3]), "endpointslice">>
EndpointEdge(c, e) ==
  \/ \E x \in EndpointPairs(c) : e = <<EndpointServiceID(x[1]), PodID(x[2]), "endpoint">>
  \/ \E x \in LegacyAddresses(c) :
       e = <<EndpointServiceID(x[1]), EndpointID(x[1], x[2].ip), "endpoint">>

LEMMA EndpointEdgesAre ==
  ASSUME NEW c
  PROVE  \A e : e \in DOMAIN EndpointEdges(c) <=> SliceEdge(c, e) \/ EndpointEdge(c, e)
<1> DEFINE f1 == Linked({<<SliceServiceID(x[1]), PodID(x[2]), "endpointslice">> :
                           x \in SlicePairs(c)}
                    \cup {<<SliceServiceID(x[1]), SliceEndpointID(x[1], x[3]),
                            "endpointslice">> : x \in SliceAddresses(c)}, "EndpointSlice")
           f2 == Linked({<<EndpointServiceID(x[1]), PodID(x[2]), "endpoint">> :
                           x \in EndpointPairs(c)}
                    \cup {<<EndpointServiceID(x[1]), EndpointID(x[1], x[2].ip), "endpoint">> :
                            x \in LegacyAddresses(c)}, "Endpoints")
<1>1. EndpointEdges(c) = Merge(<<f1, f2>>)
  BY DEF EndpointEdges, SlicePairs, EndpointPairs, SliceServiceID, EndpointServiceID
<1>2. ASSUME NEW e PROVE e \in DOMAIN f1 <=> SliceEdge(c, e)
  BY DEF Linked, SliceEdge
<1>3. ASSUME NEW e PROVE e \in DOMAIN f2 <=> EndpointEdge(c, e)
  BY DEF Linked, EndpointEdge
<1> HIDE DEF f1, f2
<1>4. \A e : e \in DOMAIN Merge(<<f1, f2>>) <=> e \in DOMAIN f1 \/ e \in DOMAIN f2
  BY Merged2
<1>5. QED
  BY <1>1, <1>2, <1>3, <1>4

\* The edges of BuildTopologyWithOptions are those of its families.
LEMMA BuildEdgesAre ==
  ASSUME NEW c
  PROVE  \A e : e \in DOMAIN Build(c).edges <=>
                  \/ e \in DOMAIN WorkloadEdges(c) \/ e \in DOMAIN ExposureEdges(c)
                  \/ e \in DOMAIN IngressEdges(c) \/ e \in DOMAIN ExternalEdges(c)
                  \/ e \in DOMAIN EndpointEdges(c)
<1>1. Build(c).edges = Merge(<<WorkloadEdges(c), ExposureEdges(c), IngressEdges(c),
                               ExternalEdges(c), EndpointEdges(c)>>)
  BY DEF Build
<1>2. QED
  BY <1>1, Merged5

-----------------------------------------------------------------------------
(* Both ends of each edge are drawn.                                       *)

LEMMA OnlyOne ==
  ASSUME NEW set, TheOnly(set) # None
  PROVE  TheOnly(set) \in set
<1>1. Cardinality(set) = 1
  BY DEF TheOnly
<1>2. set # {}
  BY <1>1, FS_EmptySet
<1>3. QED
  BY <1>1, <1>2 DEF TheOnly

LEMMA ClassIsDrawn ==
  ASSUME NEW c, NEW i \in ToSet(c.ingresses), ControllerClass(c, i) # None
  PROVE  ControllerID(ControllerClass(c, i)) \in ControllerIDs(c)
<1>1. ControllerClass(c, i) \in ClassNames(c) \cup AnnotationClasses(c)
  <2>1. CASE ClassName(i) # None
    <3>1. ControllerClass(c, i) = ClassName(i)
      BY <2>1 DEF ControllerClass
    <3>2. ClassName(i) \in ClassNames(c) \/ i.class = None
      BY <2>1 DEF ControllerClass
    <3>3. i.class = None => ClassName(i) = i.annotation
      BY DEF ClassName, Or
    <3>4. QED
      BY <2>1, <3>1, <3>2, <3>3 DEF AnnotationClasses
  <2>2. CASE ClassName(i) = None
    <3>1. ControllerClass(c, i) \in {DefaultClass(c), TheOnly(ClassNames(c))}
      BY <2>2 DEF ControllerClass
    <3>2. DefaultClass(c) # None => DefaultClass(c) \in ClassNames(c)
      <4>1. DefaultClass(c) # None
              => DefaultClass(c) \in {class.name : class \in {k \in c.classes : k.default}}
        BY OnlyOne DEF DefaultClass
      <4>2. QED
        BY <4>1 DEF ClassNames
    <3>3. TheOnly(ClassNames(c)) # None => TheOnly(ClassNames(c)) \in ClassNames(c)
      BY OnlyOne
    <3>4. QED
      BY <3>1, <3>2, <3>3
  <2>3. QED
    BY <2>1, <2>2
<1>2. QED
  BY <1>1 DEF ControllerIDs, ClassIDs, AnnotationIDs

LEMMA MatchIsDrawn ==
  ASSUME NEW c, NEW svc, MatchingClass(c, svc) # None
  PROVE  ControllerID(MatchingClass(c, svc)) \in ControllerIDs(c)
<1> DEFINE scored == ScoredClasses(c)
           best == {class \in scored : Score(c, svc, class) >= 6
                      /\ \A other \in scored : Score(c, svc, other) <= Score(c, svc, class)}
           names == {class.name : class \in best}
<1>1. MatchingClass(c, svc) = TheOnly(names)
  BY DEF MatchingClass
<1>2. names \subseteq {class.name : class \in scored}
  OBVIOUS
<1> HIDE DEF names
<1>3. MatchingClass(c, svc) \in names
  BY <1>1, OnlyOne
<1>4. \A class \in scored : class.name \in ClassNames(c) \cup AnnotationClasses(c)
  BY DEF ScoredClasses, ClassNames
<1>5. MatchingClass(c, svc) \in ClassNames(c) \cup AnnotationClasses(c)
  BY <1>2, <1>3, <1>4
<1>6. QED
  BY <1>5 DEF ControllerIDs, ClassIDs, AnnotationIDs

\* The node that an Ingress is controlled by is drawn.
LEMMA ControllerIsDrawn ==
  ASSUME NEW c, NEW i \in Controlled(c)
  PROVE  IngressController(c, i) \in ControllerIDs(c)
<1>1. i \in ToSet(c.ingresses) /\ IngressController(c, i) # None
  BY DEF Controlled
<1>2. CASE ControllerClass(c, i) # None
  BY <1>1, <1>2, ClassIsDrawn DEF IngressController
<1>3. CASE ControllerClass(c, i) = None
  <2> DEFINE svc == StatusService(c, i)
  <2>1. IngressController(c, i) = StatusControllerOf(c, i) /\ svc # None
    BY <1>1, <1>3 DEF IngressController, StatusControllerOf
  <2>2. svc \in c.services
    <3> DEFINE candidates == {s \in c.services : Exposed(s)
                                /\ LoadBalancerAddresses(s) \cap i.addresses # {}}
               likely == {s \in candidates : LooksLikeController(s)}
    <3>1. svc = TheOnly(candidates) \/ svc = TheOnly(likely)
      BY DEF StatusService
    <3>2. candidates \subseteq c.services /\ likely \subseteq c.services
      OBVIOUS
    <3> HIDE DEF candidates, likely
    <3>3. QED
      BY <2>1, <3>1, <3>2, OnlyOne
  <2>3. CASE MatchingClass(c, svc) # None
    BY <1>3, <2>1, <2>3, MatchIsDrawn DEF StatusControllerOf
  <2>4. CASE MatchingClass(c, svc) = None
    <3>1. StatusControllerOf(c, i) = StatusControllerID(svc)
      BY <1>3, <2>1, <2>4 DEF StatusControllerOf
    <3>2. svc \in StatusServices(c)
      BY <1>1, <1>3, <2>2, <2>4 DEF StatusServices
    <3>3. StatusControllerID(svc) \in StatusIDs(c)
      BY <3>2 DEF StatusIDs
    <3>4. QED
      BY <2>1, <3>1, <3>3 DEF ControllerIDs
  <2>5. QED
    BY <2>3, <2>4
<1>4. QED
  BY <1>2, <1>3

\* So is the node that a load balancer or a node port leads to.
LEMMA TargetIsDrawn ==
  ASSUME NEW c, NEW svc \in c.services
  PROVE  ExposedTarget(c, svc) \in ControllerIDs(c) \cup ServiceIDs(c)
<1>1. CASE MatchingClass(c, svc) # None
  <2>1. svc \notin StatusServices(c)
    BY <1>1 DEF StatusServices
  <2>2. ExposedTarget(c, svc) = ControllerID(MatchingClass(c, svc))
    BY <1>1, <2>1 DEF ExposedTarget
  <2>3. QED
    BY <1>1, <2>2, MatchIsDrawn
<1>2. CASE MatchingClass(c, svc) = None /\ svc \in StatusServices(c)
  BY <1>2 DEF ExposedTarget, ControllerIDs, StatusIDs
<1>3. CASE MatchingClass(c, svc) = None /\ svc \notin StatusServices(c)
  BY <1>3 DEF ExposedTarget, ServiceIDs
<1>4. QED
  BY <1>1, <1>2, <1>3

\* A namespace and a name that an object has make the ID of its node.
LEMMA NamedIsDrawn ==
  ASSUME NEW c, NEW ns, NEW name
  PROVE  /\ ServicesNamed(c, <<ns, name>>) # {} => <<"Service", ns, <<name>>>> \in ServiceIDs(c)
         /\ GatewaysNamed(c, <<ns, name>>) # {} => <<"Gateway", ns, <<name>>>> \in GatewayIDs(c)
         /\ Selectorless(c, <<ns, name>>) => <<"Service", ns, <<name>>>> \in ServiceIDs(c)
<1>1. \A s \in c.services : Key(s) = <<ns, name>> => ServiceID(s) = <<"Service", ns, <<name>>>>
  BY DEF Key, ServiceID, ID
<1>2. \A g : Key(g) = <<ns, name>> => GatewayID(g) = <<"Gateway", ns, <<name>>>>
  BY DEF Key, GatewayID, ID
<1>3. ServicesNamed(c, <<ns, name>>) # {} => <<"Service", ns, <<name>>>> \in ServiceIDs(c)
  BY <1>1 DEF ServicesNamed, ServiceIDs
<1>4. GatewaysNamed(c, <<ns, name>>) # {} => <<"Gateway", ns, <<name>>>> \in GatewayIDs(c)
  BY <1>2 DEF GatewaysNamed, GatewayIDs, Gateways
<1>5. Selectorless(c, <<ns, name>>) => <<"Service", ns, <<name>>>> \in ServiceIDs(c)
  BY <1>1 DEF Selectorless, ServiceIDs
<1>6. QED
  BY <1>3, <1>4, <1>5

\* Both ends of an edge are among the nodes with the given IDs.
EndsIn(e, ids) == e[1] \in ids /\ e[2] \in ids

LEMMA WorkloadEnds ==
  ASSUME NEW c, NEW e \in DOMAIN WorkloadEdges(c)
  PROVE  EndsIn(e, NodeIDs(c))
<1>1. HostsEdge(c, e) \/ ExternalNameEdge(c, e) \/ SelectsEdge(c, e)
  BY WorkloadEdgesAre
<1>2. CASE HostsEdge(c, e)
  <2>1. PICK p \in ToSet(c.pods) : p.node \in c.nodes /\ e = <<HostID(p.node), PodID(p), "hosts">>
    BY <1>2 DEF HostsEdge
  <2>2. HostID(p.node) \in HostIDs(c) /\ PodID(p) \in PodIDs(c)
    BY <2>1 DEF HostIDs, PodIDs
  <2>3. QED
    BY <2>1, <2>2 DEF EndsIn, NodeIDs, WorkloadIDs
<1>3. CASE ExternalNameEdge(c, e)
  <2>1. PICK svc \in ExternalNames(c) :
          e = <<ServiceID(svc), ExternalNameID(svc), "externalname">>
    BY <1>3 DEF ExternalNameEdge
  <2>2. ServiceID(svc) \in ServiceIDs(c) /\ ExternalNameID(svc) \in ExternalNameIDs(c)
    BY DEF ServiceIDs, ExternalNameIDs, ExternalNames
  <2>3. QED
    BY <2>1, <2>2 DEF EndsIn, NodeIDs, WorkloadIDs
<1>4. CASE SelectsEdge(c, e)
  <2>1. PICK x \in Selected(c) : e = <<ServiceID(x[1]), PodID(x[2]), "selects">>
    BY <1>4 DEF SelectsEdge
  <2>2. x[1] \in c.services /\ x[2] \in ToSet(c.pods)
    BY DEF Selected, PairsOf, PodsOf
  <2>3. ServiceID(x[1]) \in ServiceIDs(c) /\ PodID(x[2]) \in PodIDs(c)
    BY <2>2 DEF ServiceIDs, PodIDs
  <2>4. QED
    BY <2>1, <2>3 DEF EndsIn, NodeIDs, WorkloadIDs
<1>5. QED
  BY <1>1, <1>2, <1>3, <1>4

LEMMA ExposureEnds ==
  ASSUME NEW c, NEW e \in DOMAIN ExposureEdges(c)
  PROVE  EndsIn(e, NodeIDs(c))
<1>1. ExposesEdge(c, e) \/ ForwardsEdge(c, e) \/ BalancesEdge(c, e)
  BY ExposureEdgesAre
<1>2. \A x \in ExposedPorts(c) : x[1] \in c.services
  BY DEF ExposedPorts, PairsOf
<1>3. \A x \in ExposedPorts(c) : NodePortID(x[1], x[2]) \in NodePortIDs(c)
  BY DEF NodePortIDs
<1>4. \A svc \in Balancers(c) : svc \in c.services /\ LoadBalancerID(svc) \in BalancerIDs(c)
  BY DEF BalancerIDs, Balancers
<1>5. CASE ExposesEdge(c, e)
  BY <1>3, <1>4, <1>5 DEF ExposesEdge, EndsIn, NodeIDs, ExposureIDs
<1>6. CASE ForwardsEdge(c, e)
  <2>1. PICK x \in ExposedPorts(c) :
          e = <<NodePortID(x[1], x[2]), ExposedTarget(c, x[1]), "forwards">>
    BY <1>6 DEF ForwardsEdge
  <2>2. ExposedTarget(c, x[1]) \in ControllerIDs(c) \cup ServiceIDs(c)
    BY <1>2, TargetIsDrawn
  <2>3. QED
    BY <2>1, <2>2, <1>3 DEF EndsIn, NodeIDs, ExposureIDs, WorkloadIDs
<1>7. CASE BalancesEdge(c, e)
  <2>1. PICK svc \in Balancers(c) :
          e = <<LoadBalancerID(svc), ExposedTarget(c, svc), "balances">>
    BY <1>7 DEF BalancesEdge
  <2>2. ExposedTarget(c, svc) \in ControllerIDs(c) \cup ServiceIDs(c)
    BY <1>4, TargetIsDrawn
  <2>3. QED
    BY <2>1, <2>2, <1>4 DEF EndsIn, NodeIDs, ExposureIDs, WorkloadIDs
<1>8. QED
  BY <1>1, <1>5, <1>6, <1>7

LEMMA IngressEnds ==
  ASSUME NEW c, NEW e \in DOMAIN IngressEdges(c)
  PROVE  EndsIn(e, NodeIDs(c))
<1>1. \/ ControlsEdge(c, e) \/ IngressResolvesEdge(c, e) \/ IngressFrontsEdge(c, e)
      \/ DefinesEdge(c, e) \/ IngressRoutesEdge(c, e) \/ CanaryEdge(c, e)
  BY IngressEdgesAre
<1>2. \A i \in ToSet(c.ingresses) : IngressID(i) \in IngressIDs(c)
  BY DEF IngressIDs
<1>3. \A x \in RoutesOf(c) :
        x[1] \in ToSet(c.ingresses) /\ IngressRouteID(x[1], x[2]) \in IngressRouteIDs(c)
  BY DEF IngressRouteIDs, RoutesOf, PairsOf
<1>4. CASE ControlsEdge(c, e)
  <2>1. PICK i \in Controlled(c) : e = <<IngressController(c, i), IngressID(i), "controls">>
    BY <1>4 DEF ControlsEdge
  <2>2. i \in ToSet(c.ingresses) /\ IngressController(c, i) \in ControllerIDs(c)
    BY ControllerIsDrawn DEF Controlled
  <2>3. QED
    BY <2>1, <2>2, <1>2 DEF EndsIn, NodeIDs, AllIngressIDs
<1>5. CASE IngressResolvesEdge(c, e)
  <2>1. PICK x \in HostPairs(c) : e = <<DnsID(x[2]), IngressID(x[1]), "resolves">>
    BY <1>5 DEF IngressResolvesEdge
  <2>2. x[1] \in ToSet(c.ingresses) /\ x[2] \in Hosts(x[1])
    BY DEF HostPairs, PairsOf
  <2>3. DnsID(x[2]) \in IngressDnsIDs(c)
    BY <2>2 DEF IngressDnsIDs, IngressHosts
  <2>4. QED
    BY <2>1, <2>2, <2>3, <1>2 DEF EndsIn, NodeIDs, AllIngressIDs
<1>6. CASE IngressFrontsEdge(c, e)
  <2>1. PICK x \in IngressAddresses(c) :
          e = <<AddressID(x[1], "ingress", x[2]), IngressID(x[1]), "fronts">>
    BY <1>6 DEF IngressFrontsEdge
  <2>2. x[1] \in ToSet(c.ingresses)
    BY DEF IngressAddresses, PairsOf
  <2>3. AddressID(x[1], "ingress", x[2]) \in IngressAddressIDs(c)
    BY DEF IngressAddressIDs
  <2>4. QED
    BY <2>1, <2>2, <2>3, <1>2 DEF EndsIn, NodeIDs, AllIngressIDs
<1>7. CASE DefinesEdge(c, e)
  BY <1>2, <1>3, <1>7 DEF DefinesEdge, EndsIn, NodeIDs, AllIngressIDs
<1>8. CASE IngressRoutesEdge(c, e)
  <2>1. PICK x \in Backed(c) : e = <<IngressRouteID(x[1], x[2]), BackendID(x), "routes">>
    BY <1>8 DEF IngressRoutesEdge
  <2>2. x \in RoutesOf(c) /\ ServicesNamed(c, ServiceKey(x[1], x[2])) # {}
    BY DEF Backed
  <2>3. BackendID(x) \in ServiceIDs(c)
    BY <2>2, NamedIsDrawn DEF BackendID, ServiceKey
  <2>4. QED
    BY <2>1, <2>2, <2>3, <1>3 DEF EndsIn, NodeIDs, AllIngressIDs, WorkloadIDs
<1>9. CASE CanaryEdge(c, e)
  <2>1. PICK x \in CanaryLinks(c) :
          e = <<IngressRouteID(x[1][1], x[1][2]), CanaryID(x[2]), "canary">>
    BY <1>9 DEF CanaryEdge
  <2>2. x[1] \in RoutesOf(c) /\ x[2] \in ServedLinks(c, x[1])
    BY DEF CanaryLinks, PairsOf
  <2>3. CanaryID(x[2]) \in ServiceIDs(c)
    BY <2>2, NamedIsDrawn DEF CanaryID, ServedLinks
  <2>4. QED
    BY <2>1, <2>2, <2>3, <1>3 DEF EndsIn, NodeIDs, AllIngressIDs, WorkloadIDs
<1>10. QED
  BY <1>1, <1>4, <1>5, <1>6, <1>7, <1>8, <1>9

LEMMA AttachedIsNamed ==
  ASSUME NEW c, NEW r, NEW ref \in Attached(c, r)
  PROVE  GatewaysNamed(c, Refers(r, ref)) # {}
<1>1. ParentOutcome(c, r, ref) = "edge"
  BY DEF Attached
<1>2. MissingOutcome(c, Refers(r, ref)) # "edge"
  BY DEF MissingOutcome
<1> DEFINE named == GatewaysNamed(c, Refers(r, ref)) # {}
<1>3. ParentOutcome(c, r, ref) = CASE ~ref.supported -> "error"
        [] ref.supported /\ named -> "edge"
        [] ref.supported /\ ~named -> MissingOutcome(c, Refers(r, ref))
  BY DEF ParentOutcome
<1> HIDE DEF named
<1>4. named
  BY <1>1, <1>2, <1>3
<1>5. QED
  BY <1>4 DEF named

LEMMA RoutedIsNamed ==
  ASSUME NEW c, NEW r, NEW ref \in Routed(c, r)
  PROVE  ServicesNamed(c, Refers(r, ref)) # {}
<1>1. BackendOutcome(c, r, ref) = "edge"
  BY DEF Routed
<1>2. MissingOutcome(c, Refers(r, ref)) # "edge"
  BY DEF MissingOutcome
<1>3. CASE ~ref.supported
  BY <1>1, <1>3 DEF BackendOutcome
<1>4. CASE ref.supported /\ ServicesNamed(c, Refers(r, ref)) = {}
  BY <1>1, <1>2, <1>4 DEF BackendOutcome
<1>5. QED
  BY <1>3, <1>4

LEMMA ExternalEnds ==
  ASSUME NEW c, NEW e \in DOMAIN ExternalEdges(c)
  PROVE  EndsIn(e, NodeIDs(c))
<1>1. \/ ClassControlsEdge(c, e) \/ GatewayFrontsEdge(c, e) \/ AttachesEdge(c, e)
      \/ BackendEdge(c, e) \/ F5Edge(c, e) \/ ExternalResolvesEdge(c, e)
  BY ExternalEdgesAre
<1>2. /\ \A g \in Gateways(c) : GatewayID(g) \in GatewayIDs(c)
      /\ \A r \in Routes(c) : RouteID(r) \in RouteIDs(c)
      /\ \A r \in F5Resources(c) : F5ID(r) \in F5IDs(c)
  BY DEF GatewayIDs, RouteIDs, F5IDs
<1>3. CASE ClassControlsEdge(c, e)
  <2>1. PICK g \in ClassedGateways(c) : e = <<GatewayClassID(g.class), GatewayID(g), "controls">>
    BY <1>3 DEF ClassControlsEdge
  <2>2. g \in Gateways(c) /\ GatewayClassID(g.class) \in GatewayClassIDs(c)
    BY DEF ClassedGateways, GatewayClassIDs
  <2>3. QED
    BY <2>1, <2>2, <1>2 DEF EndsIn, NodeIDs, ExternalIDs
<1>4. CASE GatewayFrontsEdge(c, e)
  <2>1. PICK x \in GatewayAddresses(c) :
          e = <<AddressID(x[1], "gateway", x[2]), GatewayID(x[1]), "fronts">>
    BY <1>4 DEF GatewayFrontsEdge
  <2>2. x[1] \in Gateways(c)
    BY DEF GatewayAddresses, PairsOf
  <2>3. AddressID(x[1], "gateway", x[2]) \in GatewayAddressIDs(c)
    BY DEF GatewayAddressIDs
  <2>4. QED
    BY <2>1, <2>2, <2>3, <1>2 DEF EndsIn, NodeIDs, ExternalIDs
<1>5. CASE AttachesEdge(c, e)
  <2>1. PICK x, kind :
          /\ x \in ParentPairs(c, AcceptedRoutes(c)) \cup ParentPairs(c, RejectedRoutes(c))
          /\ e = <<ParentID(x), RouteID(x[1]), kind>>
    BY <1>5 DEF AttachesEdge
  <2>2. x[1] \in Routes(c) /\ x[2] \in Attached(c, x[1])
    BY <2>1 DEF ParentPairs, PairsOf, AcceptedRoutes, RejectedRoutes
  <2>3. GatewaysNamed(c, Refers(x[1], x[2])) # {}
    BY <2>2, AttachedIsNamed
  <2>4. ParentID(x) \in GatewayIDs(c)
    <3>1. Refers(x[1], x[2]) = <<Refers(x[1], x[2])[1], x[2].name>>
      BY DEF Refers
    <3>2. QED
      BY <2>3, <3>1, NamedIsDrawn DEF ParentID
  <2>5. QED
    BY <2>1, <2>2, <2>4, <1>2 DEF EndsIn, NodeIDs, ExternalIDs
<1>6. CASE BackendEdge(c, e)
  <2>1. PICK x \in BackendPairs(c) : e = <<RouteID(x[1]), ReferredID(x), "routes">>
    BY <1>6 DEF BackendEdge
  <2>2. x[1] \in Routes(c) /\ x[2] \in Routed(c, x[1])
    BY DEF BackendPairs, PairsOf
  <2>3. ServicesNamed(c, Refers(x[1], x[2])) # {}
    BY <2>2, RoutedIsNamed
  <2>4. ReferredID(x) \in ServiceIDs(c)
    <3>1. Refers(x[1], x[2]) = <<Refers(x[1], x[2])[1], x[2].name>>
      BY DEF Refers
    <3>2. QED
      BY <2>3, <3>1, NamedIsDrawn DEF ReferredID
  <2>5. QED
    BY <2>1, <2>2, <2>4, <1>2 DEF EndsIn, NodeIDs, ExternalIDs, WorkloadIDs
<1>7. CASE F5Edge(c, e)
  <2>1. PICK x \in F5Pairs(c) : e = <<F5ID(x[1]), ServiceID(x[2]), "balances">>
    BY <1>7 DEF F5Edge
  <2>2. x[1] \in F5Resources(c) /\ x[2] \in F5Services(c, x[1])
    BY DEF F5Pairs, PairsOf
  <2>3. ServiceID(x[2]) \in ServiceIDs(c)
    BY <2>2 DEF ServiceIDs, F5Services
  <2>4. QED
    BY <2>1, <2>2, <2>3, <1>2 DEF EndsIn, NodeIDs, ExternalIDs, WorkloadIDs
<1>8. CASE ExternalResolvesEdge(c, e)
  <2>1. ASSUME NEW set \in {Gateways(c), Routes(c), F5Resources(c)},
               NEW x \in ExternalHostPairs(set)
        PROVE  x[1] \in set /\ DnsID(x[2]) \in ExternalDnsIDs(c)
    <3>1. x[1] \in set /\ x[2] \in x[1].hosts
      BY DEF ExternalHostPairs, PairsOf
    <3>2. set \subseteq OfKind(c, {"Gateway"} \cup HTTPKinds \cup F5Kinds)
      BY DEF OfKind, Gateways, Routes, F5Resources
    <3>3. QED
      BY <3>1, <3>2 DEF ExternalDnsIDs, ExternalHosts
  <2>2. CASE \E x \in ExternalHostPairs(Gateways(c)) :
               e = <<DnsID(x[2]), GatewayID(x[1]), "resolves">>
    BY <1>2, <2>1, <2>2 DEF EndsIn, NodeIDs, ExternalIDs
  <2>3. CASE \E x \in ExternalHostPairs(Routes(c)) :
               e = <<DnsID(x[2]), RouteID(x[1]), "resolves">>
    BY <1>2, <2>1, <2>3 DEF EndsIn, NodeIDs, ExternalIDs
  <2>4. CASE \E x \in ExternalHostPairs(F5Resources(c)) :
               e = <<DnsID(x[2]), F5ID(x[1]), "resolves">>
    BY <1>2, <2>1, <2>4 DEF EndsIn, NodeIDs, ExternalIDs
  <2>5. QED
    BY <1>8, <2>2, <2>3, <2>4 DEF ExternalResolvesEdge
<1>9. QED
  BY <1>1, <1>3, <1>4, <1>5, <1>6, <1>7, <1>8

LEMMA PodsBehind ==
  ASSUME NEW pods, NEW ns, NEW target, NEW ip
  PROVE  PodBehind(pods, ns, target, ip) \subseteq ToSet(pods)
<1>1. NamedPod(pods, ns, target) \subseteq ToSet(pods)
  BY DEF NamedPod
<1>2. PodWithIP(pods, ns, ip) \subseteq ToSet(pods)
  BY DEF PodWithIP, ToSet
<1>3. QED
  BY <1>1, <1>2 DEF PodBehind

LEMMA SliceAddressesAre ==
  ASSUME NEW c
  PROVE  \A x : x \in SliceAddresses(c) <=>
           \E sl \in ManualSlices(c) : \E e \in sl.endpoints : \E a \in e.addresses :
             x = <<sl, e, a>> /\ PodBehind(c.pods, sl.ns, e.target, a) = {}
BY DEF SliceAddresses

LEMMA LegacyAddressesAre ==
  ASSUME NEW c
  PROVE  \A x : x \in LegacyAddresses(c) <=>
           \E e \in ManualEndpoints(c) : \E sub \in e.subsets : \E a \in sub.addresses :
             x = <<e, a>> /\ PodBehind(c.pods, e.ns, a.target, a.ip) = {}
BY DEF LegacyAddresses, PairsOf

\* Every address has a node, when none is empty.
LEMMA AllAddressed ==
  ASSUME NEW c, Addressed(c)
  PROVE  SliceEndpoints(c) = SliceAddresses(c) /\ LegacyEndpoints(c) = LegacyAddresses(c)
<1>1. ASSUME NEW x \in SliceAddresses(c) PROVE x[3] # None
  <2>1. PICK sl \in ManualSlices(c) : \E e \in sl.endpoints : \E a \in e.addresses : x = <<sl, e, a>>
    BY SliceAddressesAre
  <2>2. sl \in c.slices
    BY DEF ManualSlices
  <2>3. QED
    BY <2>1, <2>2 DEF Addressed
<1>2. ASSUME NEW x \in LegacyAddresses(c) PROVE x[2].ip # None
  <2>1. PICK e \in ManualEndpoints(c) :
          \E sub \in e.subsets : \E a \in sub.addresses : x = <<e, a>>
    BY LegacyAddressesAre
  <2>2. e \in c.endpoints
    BY DEF ManualEndpoints
  <2>3. QED
    BY <2>1, <2>2 DEF Addressed
<1>3. QED
  BY <1>1, <1>2 DEF SliceEndpoints, LegacyEndpoints

LEMMA EndpointEnds ==
  ASSUME NEW c, Addressed(c), NEW e \in DOMAIN EndpointEdges(c)
  PROVE  EndsIn(e, NodeIDs(c))
<1>1. SliceEdge(c, e) \/ EndpointEdge(c, e)
  BY EndpointEdgesAre
<1>2. \A p \in ToSet(c.pods) : PodID(p) \in PodIDs(c)
  BY DEF PodIDs
<1>3. \A s \in ManualSlices(c) : SliceServiceID(s) \in ServiceIDs(c)
  BY NamedIsDrawn DEF ManualSlices, SliceServiceID
<1>4. \A x \in ManualEndpoints(c) : EndpointServiceID(x) \in ServiceIDs(c)
  BY NamedIsDrawn DEF ManualEndpoints, EndpointServiceID, Key
<1>5. ASSUME NEW x \in SlicePairs(c)
      PROVE  x[1] \in ManualSlices(c) /\ x[2] \in ToSet(c.pods)
  <2>1. x[1] \in ManualSlices(c) /\ x[2] \in SlicePods(c.pods, x[1])
    BY DEF SlicePairs, PairsOf
  <2>2. QED
    BY <2>1, PodsBehind DEF SlicePods
<1>6. \A x \in SliceAddresses(c) : x[1] \in ManualSlices(c)
  BY DEF SliceAddresses
<1>7. ASSUME NEW x \in EndpointPairs(c)
      PROVE  x[1] \in ManualEndpoints(c) /\ x[2] \in ToSet(c.pods)
  <2>1. x[1] \in ManualEndpoints(c) /\ x[2] \in EndpointPods(c.pods, x[1])
    BY DEF EndpointPairs, PairsOf
  <2>2. QED
    BY <2>1, PodsBehind DEF EndpointPods, SubsetPods
<1>8. \A x \in LegacyAddresses(c) : x[1] \in ManualEndpoints(c)
  BY DEF LegacyAddresses, PairsOf
<1>9. \A x \in SliceAddresses(c) : SliceEndpointID(x[1], x[3]) \in SliceEndpointIDs(c)
  BY AllAddressed DEF SliceEndpointIDs
<1>10. \A x \in LegacyAddresses(c) : EndpointID(x[1], x[2].ip) \in LegacyEndpointIDs(c)
  BY AllAddressed DEF LegacyEndpointIDs
<1>11. CASE SliceEdge(c, e)
  BY <1>2, <1>3, <1>5, <1>6, <1>9, <1>11
     DEF SliceEdge, EndsIn, NodeIDs, WorkloadIDs, AllEndpointIDs
<1>12. CASE EndpointEdge(c, e)
  BY <1>2, <1>4, <1>7, <1>8, <1>10, <1>12
     DEF EndpointEdge, EndsIn, NodeIDs, WorkloadIDs, AllEndpointIDs
<1>13. QED
  BY <1>1, <1>11, <1>12

\* BuildTopologyWithOptions adds both ends of each edge that it adds, whatever
\* the cluster, if no endpoint has an empty address: nothing that the snapshot
\* could lose (builder.go:58).
THEOREM EndsAreDrawn ==
  ASSUME NEW c, Addressed(c)
  PROVE  \A e \in DOMAIN Build(c).edges : {e[1], e[2]} \subseteq DOMAIN Build(c).nodes
<1>1. ASSUME NEW e \in DOMAIN Build(c).edges PROVE EndsIn(e, NodeIDs(c))
  BY BuildEdgesAre, WorkloadEnds, ExposureEnds, IngressEnds, ExternalEnds, EndpointEnds
<1>2. QED
  BY <1>1, BuildNodesAre DEF EndsIn

-----------------------------------------------------------------------------
(* The kind of an edge tells the family it comes from.                     *)

EdgeKinds ==
  {"hosts", "externalname", "selects", "exposes", "forwards", "balances", "controls",
   "resolves", "fronts", "defines", "routes", "canary", "attaches", "rejected",
   "endpointslice", "endpoint"}

LEMMA KindsOfEdges ==
  ASSUME NEW c, NEW e
  PROVE  /\ HostsEdge(c, e) => e[3] = "hosts"
         /\ ExternalNameEdge(c, e) => e[3] = "externalname"
         /\ SelectsEdge(c, e) => e[3] = "selects"
         /\ ExposesEdge(c, e) => e[3] = "exposes"
         /\ ForwardsEdge(c, e) => e[3] = "forwards"
         /\ BalancesEdge(c, e) \/ F5Edge(c, e) => e[3] = "balances"
         /\ ControlsEdge(c, e) \/ ClassControlsEdge(c, e) => e[3] = "controls"
         /\ IngressResolvesEdge(c, e) \/ ExternalResolvesEdge(c, e) => e[3] = "resolves"
         /\ IngressFrontsEdge(c, e) \/ GatewayFrontsEdge(c, e) => e[3] = "fronts"
         /\ DefinesEdge(c, e) => e[3] = "defines"
         /\ IngressRoutesEdge(c, e) \/ BackendEdge(c, e) => e[3] = "routes"
         /\ CanaryEdge(c, e) => e[3] = "canary"
         /\ AttachesEdge(c, e) => e[3] \in {"attaches", "rejected"}
         /\ SliceEdge(c, e) => e[3] = "endpointslice"
         /\ EndpointEdge(c, e) => e[3] = "endpoint"
<1>1. /\ HostsEdge(c, e) => e[3] = "hosts"
      /\ ExternalNameEdge(c, e) => e[3] = "externalname"
      /\ SelectsEdge(c, e) => e[3] = "selects"
  BY DEF HostsEdge, ExternalNameEdge, SelectsEdge
<1>2. /\ ExposesEdge(c, e) => e[3] = "exposes"
      /\ ForwardsEdge(c, e) => e[3] = "forwards"
      /\ BalancesEdge(c, e) => e[3] = "balances"
  BY DEF ExposesEdge, ForwardsEdge, BalancesEdge
<1>3. /\ ControlsEdge(c, e) => e[3] = "controls"
      /\ IngressResolvesEdge(c, e) => e[3] = "resolves"
      /\ IngressFrontsEdge(c, e) => e[3] = "fronts"
  BY DEF ControlsEdge, IngressResolvesEdge, IngressFrontsEdge
<1>4. /\ DefinesEdge(c, e) => e[3] = "defines"
      /\ IngressRoutesEdge(c, e) => e[3] = "routes"
      /\ CanaryEdge(c, e) => e[3] = "canary"
  BY DEF DefinesEdge, IngressRoutesEdge, CanaryEdge
<1>5. /\ ClassControlsEdge(c, e) => e[3] = "controls"
      /\ GatewayFrontsEdge(c, e) => e[3] = "fronts"
      /\ BackendEdge(c, e) => e[3] = "routes"
      /\ F5Edge(c, e) => e[3] = "balances"
  BY DEF ClassControlsEdge, GatewayFrontsEdge, BackendEdge, F5Edge
<1>6. /\ AttachesEdge(c, e) => e[3] \in {"attaches", "rejected"}
      /\ ExternalResolvesEdge(c, e) => e[3] = "resolves"
  BY DEF AttachesEdge, ExternalResolvesEdge
<1>7. /\ SliceEdge(c, e) => e[3] = "endpointslice"
      /\ EndpointEdge(c, e) => e[3] = "endpoint"
  BY DEF SliceEdge, EndpointEdge
<1>8. QED
  BY <1>1, <1>2, <1>3, <1>4, <1>5, <1>6, <1>7

LEMMA EdgesByKind ==
  ASSUME NEW c, NEW e \in DOMAIN Build(c).edges
  PROVE  /\ e[3] \in EdgeKinds
         /\ e[3] = "hosts" => HostsEdge(c, e)
         /\ e[3] = "externalname" => ExternalNameEdge(c, e)
         /\ e[3] = "selects" => SelectsEdge(c, e)
         /\ e[3] = "exposes" => ExposesEdge(c, e)
         /\ e[3] = "forwards" => ForwardsEdge(c, e)
         /\ e[3] = "balances" => BalancesEdge(c, e) \/ F5Edge(c, e)
         /\ e[3] = "controls" => ControlsEdge(c, e) \/ ClassControlsEdge(c, e)
         /\ e[3] = "resolves" => IngressResolvesEdge(c, e) \/ ExternalResolvesEdge(c, e)
         /\ e[3] = "fronts" => IngressFrontsEdge(c, e) \/ GatewayFrontsEdge(c, e)
         /\ e[3] = "defines" => DefinesEdge(c, e)
         /\ e[3] = "routes" => IngressRoutesEdge(c, e) \/ BackendEdge(c, e)
         /\ e[3] = "canary" => CanaryEdge(c, e)
         /\ e[3] \in {"attaches", "rejected"} => AttachesEdge(c, e)
         /\ e[3] = "endpointslice" => SliceEdge(c, e)
         /\ e[3] = "endpoint" => EndpointEdge(c, e)
<1>1. \/ HostsEdge(c, e) \/ ExternalNameEdge(c, e) \/ SelectsEdge(c, e)
      \/ ExposesEdge(c, e) \/ ForwardsEdge(c, e) \/ BalancesEdge(c, e)
      \/ ControlsEdge(c, e) \/ IngressResolvesEdge(c, e) \/ IngressFrontsEdge(c, e)
      \/ DefinesEdge(c, e) \/ IngressRoutesEdge(c, e) \/ CanaryEdge(c, e)
      \/ ClassControlsEdge(c, e) \/ GatewayFrontsEdge(c, e) \/ AttachesEdge(c, e)
      \/ BackendEdge(c, e) \/ F5Edge(c, e) \/ ExternalResolvesEdge(c, e)
      \/ SliceEdge(c, e) \/ EndpointEdge(c, e)
  BY BuildEdgesAre, WorkloadEdgesAre, ExposureEdgesAre, IngressEdgesAre, ExternalEdgesAre,
     EndpointEdgesAre
<1>2. QED
  BY <1>1, KindsOfEdges DEF EdgeKinds

\* Which kinds of nodes an edge of each kind connects.
LEMMA ControllerHeads ==
  ASSUME NEW c
  PROVE  \A n \in ControllerIDs(c) : n[1] = "Controller"
BY Heads DEF ControllerIDs, ClassIDs, AnnotationIDs, StatusIDs

LEMMA EdgeShapes ==
  ASSUME NEW c, NEW e \in DOMAIN Build(c).edges
  PROVE  /\ e[3] = "hosts" => e[1][1] = "Node" /\ e[2][1] = "Pod"
         /\ e[3] = "externalname" => e[1][1] = "Service" /\ e[2][1] = "Endpoint"
         /\ e[3] = "selects" => e[1][1] = "Service" /\ e[2][1] = "Pod"
         /\ e[3] = "exposes" => e[1][1] = "LoadBalancer" /\ e[2][1] = "NodePort"
         /\ e[3] = "forwards" => e[1][1] = "NodePort" /\ e[2][1] \in {"Controller", "Service"}
         /\ e[3] = "balances" => e[1][1] = "LoadBalancer" /\ e[2][1] \in {"Controller", "Service"}
         /\ e[3] = "controls" => e[1][1] = "Controller" /\ e[2][1] \in {"Ingress", "Gateway"}
         /\ e[3] = "resolves" => /\ e[1][1] = "DNS"
                                 /\ e[2][1] \in {"Ingress", "Gateway", "Route", "LoadBalancer"}
         /\ e[3] = "fronts" => e[1][1] = "LoadBalancer" /\ e[2][1] \in {"Ingress", "Gateway"}
         /\ e[3] = "defines" => e[1][1] = "Ingress" /\ e[2][1] = "Route"
         /\ e[3] \in {"routes", "canary"} => e[1][1] = "Route" /\ e[2][1] = "Service"
         /\ e[3] \in {"attaches", "rejected"} => e[1][1] = "Gateway" /\ e[2][1] = "Route"
         /\ e[3] = "endpointslice" => e[1][1] = "Service" /\ e[2][1] \in {"Pod", "EndpointSlice"}
         /\ e[3] = "endpoint" => e[1][1] = "Service" /\ e[2][1] \in {"Pod", "Endpoint"}
<1>1. ASSUME NEW svc \in c.services
      PROVE  ExposedTarget(c, svc)[1] \in {"Controller", "Service"}
  <2>1. ExposedTarget(c, svc) \in ControllerIDs(c) \/ ExposedTarget(c, svc) \in ServiceIDs(c)
    BY TargetIsDrawn
  <2>2. \A n \in ServiceIDs(c) : n[1] = "Service"
    BY Heads DEF ServiceIDs
  <2>3. QED
    BY <2>1, <2>2, ControllerHeads
<1>2. /\ e[3] = "hosts" => e[1][1] = "Node" /\ e[2][1] = "Pod"
      /\ e[3] = "externalname" => e[1][1] = "Service" /\ e[2][1] = "Endpoint"
      /\ e[3] = "selects" => e[1][1] = "Service" /\ e[2][1] = "Pod"
  <2>1. /\ HostsEdge(c, e) => e[1][1] = "Node" /\ e[2][1] = "Pod"
        /\ ExternalNameEdge(c, e) => e[1][1] = "Service" /\ e[2][1] = "Endpoint"
        /\ SelectsEdge(c, e) => e[1][1] = "Service" /\ e[2][1] = "Pod"
    BY Heads DEF HostsEdge, ExternalNameEdge, SelectsEdge
  <2>2. QED
    BY <2>1, EdgesByKind
<1>3. /\ e[3] = "exposes" => e[1][1] = "LoadBalancer" /\ e[2][1] = "NodePort"
      /\ e[3] = "forwards" => e[1][1] = "NodePort" /\ e[2][1] \in {"Controller", "Service"}
      /\ e[3] = "balances" => e[1][1] = "LoadBalancer" /\ e[2][1] \in {"Controller", "Service"}
  <2>1. \A x \in ExposedPorts(c) : x[1] \in c.services
    BY DEF ExposedPorts, PairsOf
  <2>2. ExposesEdge(c, e) => e[1][1] = "LoadBalancer" /\ e[2][1] = "NodePort"
    BY Heads DEF ExposesEdge
  <2>3. ForwardsEdge(c, e) => e[1][1] = "NodePort" /\ e[2][1] \in {"Controller", "Service"}
    BY <1>1, <2>1, Heads DEF ForwardsEdge
  <2>4. BalancesEdge(c, e) => e[1][1] = "LoadBalancer" /\ e[2][1] \in {"Controller", "Service"}
    BY <1>1, Heads DEF BalancesEdge, Balancers
  <2>5. F5Edge(c, e) => e[1][1] = "LoadBalancer" /\ e[2][1] = "Service"
    BY Heads DEF F5Edge
  <2>6. QED
    BY <2>2, <2>3, <2>4, <2>5, EdgesByKind
<1>4. /\ e[3] = "controls" => e[1][1] = "Controller" /\ e[2][1] \in {"Ingress", "Gateway"}
      /\ e[3] = "resolves" => /\ e[1][1] = "DNS"
                              /\ e[2][1] \in {"Ingress", "Gateway", "Route", "LoadBalancer"}
      /\ e[3] = "fronts" => e[1][1] = "LoadBalancer" /\ e[2][1] \in {"Ingress", "Gateway"}
  <2>1. ControlsEdge(c, e) => e[1][1] = "Controller" /\ e[2][1] = "Ingress"
    BY Heads, ControllerIsDrawn, ControllerHeads DEF ControlsEdge
  <2>2. ClassControlsEdge(c, e) => e[1][1] = "Controller" /\ e[2][1] = "Gateway"
    BY Heads DEF ClassControlsEdge
  <2>3. IngressResolvesEdge(c, e) => e[1][1] = "DNS" /\ e[2][1] = "Ingress"
    BY Heads DEF IngressResolvesEdge
  <2>4. ExternalResolvesEdge(c, e) =>
          e[1][1] = "DNS" /\ e[2][1] \in {"Gateway", "Route", "LoadBalancer"}
    BY Heads DEF ExternalResolvesEdge
  <2>5. IngressFrontsEdge(c, e) => e[1][1] = "LoadBalancer" /\ e[2][1] = "Ingress"
    BY Heads DEF IngressFrontsEdge
  <2>6. GatewayFrontsEdge(c, e) => e[1][1] = "LoadBalancer" /\ e[2][1] = "Gateway"
    BY Heads DEF GatewayFrontsEdge
  <2>7. QED
    BY <2>1, <2>2, <2>3, <2>4, <2>5, <2>6, EdgesByKind
<1>5. /\ e[3] = "defines" => e[1][1] = "Ingress" /\ e[2][1] = "Route"
      /\ e[3] \in {"routes", "canary"} => e[1][1] = "Route" /\ e[2][1] = "Service"
      /\ e[3] \in {"attaches", "rejected"} => e[1][1] = "Gateway" /\ e[2][1] = "Route"
  <2>1. DefinesEdge(c, e) => e[1][1] = "Ingress" /\ e[2][1] = "Route"
    BY Heads DEF DefinesEdge
  <2>2. /\ \A x : BackendID(x)[1] = "Service" /\ ReferredID(x)[1] = "Service"
        /\ \A x : CanaryID(x)[1] = "Service" /\ ParentID(x)[1] = "Gateway"
    BY DEF BackendID, ReferredID, CanaryID, ParentID
  <2>3. IngressRoutesEdge(c, e) => e[1][1] = "Route" /\ e[2][1] = "Service"
    BY <2>2, Heads DEF IngressRoutesEdge
  <2>4. CanaryEdge(c, e) => e[1][1] = "Route" /\ e[2][1] = "Service"
    BY <2>2, Heads DEF CanaryEdge
  <2>5. BackendEdge(c, e) => e[1][1] = "Route" /\ e[2][1] = "Service"
    BY <2>2, Heads DEF BackendEdge
  <2>6. AttachesEdge(c, e) => e[1][1] = "Gateway" /\ e[2][1] = "Route"
    BY <2>2, Heads DEF AttachesEdge
  <2>7. QED
    BY <2>1, <2>3, <2>4, <2>5, <2>6, EdgesByKind
<1>6. /\ e[3] = "endpointslice" => e[1][1] = "Service" /\ e[2][1] \in {"Pod", "EndpointSlice"}
      /\ e[3] = "endpoint" => e[1][1] = "Service" /\ e[2][1] \in {"Pod", "Endpoint"}
  <2>1. /\ \A x : SliceServiceID(x)[1] = "Service" /\ EndpointServiceID(x)[1] = "Service"
        /\ \A x, a : SliceEndpointID(x, a)[1] = "EndpointSlice" /\ EndpointID(x, a)[1] = "Endpoint"
    BY DEF SliceServiceID, EndpointServiceID, SliceEndpointID, EndpointID
  <2>2. SliceEdge(c, e) => e[1][1] = "Service" /\ e[2][1] \in {"Pod", "EndpointSlice"}
    BY <2>1, Heads DEF SliceEdge
  <2>3. EndpointEdge(c, e) => e[1][1] = "Service" /\ e[2][1] \in {"Pod", "Endpoint"}
    BY <2>1, Heads DEF EndpointEdge
  <2>4. QED
    BY <2>2, <2>3, EdgesByKind
<1>7. QED
  BY <1>2, <1>3, <1>4, <1>5, <1>6

-----------------------------------------------------------------------------
(* The controllers of the Ingresses, and with them the routes that can     *)
(* overlap, do not depend on Services and pods that are no controller's.   *)

SameExposures(c, d) ==
  /\ c.classes = d.classes /\ ToSet(c.ingresses) = ToSet(d.ingresses)
  /\ c.services \subseteq d.services
  /\ \A svc \in d.services : Exposed(svc) => svc \in c.services
  /\ \A svc \in c.services : PodsOf(svc, c.pods) = PodsOf(svc, d.pods)

LEMMA SameMatches ==
  ASSUME NEW c, NEW d, SameExposures(c, d), NEW svc \in c.services
  PROVE  MatchingClass(c, svc) = MatchingClass(d, svc)
<1>1. ClassNames(c) = ClassNames(d)
  BY DEF SameExposures, ClassNames
<1>2. AnnotationClasses(c) = AnnotationClasses(d)
  BY <1>1 DEF SameExposures, AnnotationClasses
<1>3. ScoredClasses(c) = ScoredClasses(d)
  BY <1>2 DEF SameExposures, ScoredClasses
<1>4. Words(c, svc) = Words(d, svc)
  <2>1. PodsOf(svc, c.pods) = PodsOf(svc, d.pods)
    BY DEF SameExposures
  <2>2. QED
    BY <2>1 DEF Words
<1>5. ASSUME NEW class PROVE Score(c, svc, class) = Score(d, svc, class)
  BY <1>4 DEF Score
<1>6. {class \in ScoredClasses(c) : Score(c, svc, class) >= 6
         /\ \A other \in ScoredClasses(c) : Score(c, svc, other) <= Score(c, svc, class)}
    = {class \in ScoredClasses(d) : Score(d, svc, class) >= 6
         /\ \A other \in ScoredClasses(d) : Score(d, svc, other) <= Score(d, svc, class)}
  BY <1>3, <1>5
<1>7. QED
  BY <1>6 DEF MatchingClass

LEMMA SameStatusService ==
  ASSUME NEW c, NEW d, SameExposures(c, d), NEW i
  PROVE  /\ StatusService(c, i) = StatusService(d, i)
         /\ StatusService(c, i) = None \/ StatusService(c, i) \in c.services
<1>1. StatusService(c, i) = StatusService(d, i)
  <2>1. {svc \in c.services : Exposed(svc)
           /\ LoadBalancerAddresses(svc) \cap i.addresses # {}}
      = {svc \in d.services : Exposed(svc)
           /\ LoadBalancerAddresses(svc) \cap i.addresses # {}}
    BY DEF SameExposures
  <2>2. QED
    BY <2>1 DEF StatusService
<1>2. StatusService(c, i) = None \/ StatusService(c, i) \in c.services
  <2> DEFINE candidates == {svc \in c.services : Exposed(svc)
                              /\ LoadBalancerAddresses(svc) \cap i.addresses # {}}
             likely == {svc \in candidates : LooksLikeController(svc)}
  <2>1. StatusService(c, i) \in {TheOnly(candidates), TheOnly(likely)}
    BY DEF StatusService
  <2>2. candidates \subseteq c.services /\ likely \subseteq c.services
    OBVIOUS
  <2> HIDE DEF candidates, likely
  <2>3. QED
    BY <2>1, <2>2, OnlyOne
<1>3. QED
  BY <1>1, <1>2

LEMMA SameClasses ==
  ASSUME NEW c, NEW d, SameExposures(c, d), NEW i
  PROVE  ControllerClass(c, i) = ControllerClass(d, i)
<1>1. ClassNames(c) = ClassNames(d) /\ DefaultClass(c) = DefaultClass(d)
  BY DEF SameExposures, ClassNames, DefaultClass
<1>2. QED
  BY <1>1 DEF ControllerClass

LEMMA SameControllers ==
  ASSUME NEW c, NEW d, SameExposures(c, d), NEW i
  PROVE  IngressController(c, i) = IngressController(d, i)
<1>1. ControllerClass(c, i) = ControllerClass(d, i)
  BY SameClasses
<1>2. StatusService(c, i) = StatusService(d, i)
  BY SameStatusService
<1>3. StatusService(c, i) = None \/ StatusService(c, i) \in c.services
  BY SameStatusService
<1>4. StatusControllerOf(c, i) = StatusControllerOf(d, i)
  <2>1. CASE StatusService(c, i) = None
    BY <1>2, <2>1 DEF StatusControllerOf
  <2>2. CASE StatusService(c, i) \in c.services
    <3>1. MatchingClass(c, StatusService(c, i)) = MatchingClass(d, StatusService(c, i))
      BY <2>2, SameMatches
    <3>2. QED
      BY <1>1, <1>2, <3>1 DEF StatusControllerOf
  <2>3. QED
    BY <1>3, <2>1, <2>2
<1>5. QED
  BY <1>1, <1>4 DEF IngressController

\* The Services that stand for a controller are all exposed, so none is missing.
LEMMA SameStatusServices ==
  ASSUME NEW c, NEW d, SameExposures(c, d), None \notin d.services
  PROVE  StatusServices(c) = StatusServices(d)
<1>1. \A i : ControllerClass(c, i) = ControllerClass(d, i)
  BY SameClasses
<1>2. \A i : StatusService(c, i) = StatusService(d, i)
  BY SameStatusService
<1>3. \A svc \in c.services : MatchingClass(c, svc) = MatchingClass(d, svc)
  BY SameMatches
<1>4. \A svc \in d.services : (\E i : StatusService(d, i) = svc)
        => svc \in c.services
  BY <1>2, SameStatusService
<1>5. QED
  BY <1>1, <1>2, <1>3, <1>4 DEF StatusServices, SameExposures

\* A route that can overlap, and those of one Ingress.
Contender(i, controller, k) ==
  [ingress |-> i, k |-> k, controller |-> controller,
   location |-> <<i.routes[k].host, i.routes[k].path>>,
   service |-> i.routes[k].service, port |-> i.routes[k].port]

Contending(i) ==
  {k \in DOMAIN i.routes :
     /\ ~i.routes[k].default
     /\ \A l \in 1 .. (k - 1) :
          i.routes[l].default
          \/ <<i.routes[l].host, i.routes[l].path>> # <<i.routes[k].host, i.routes[k].path>>}

LEMMA OverlapRoutesAre ==
  ASSUME NEW c
  PROVE  \A r : r \in OverlapRoutes(c) <=>
                  \E i \in ToSet(c.ingresses) : \E k \in Contending(i) :
                    /\ IngressController(c, i) # None
                    /\ r = Contender(i, IngressController(c, i), k)
<1> DEFINE of(i) == IF IngressController(c, i) = None THEN {}
                    ELSE {Contender(i, IngressController(c, i), k) : k \in Contending(i)}
<1>1. OverlapRoutes(c) = UNION {of(i) : i \in ToSet(c.ingresses)}
  BY DEF OverlapRoutes, Contender, Contending
<1>2. QED
  BY <1>1

LEMMA SameOverlaps ==
  ASSUME NEW c, NEW d, SameExposures(c, d)
  PROVE  OverlapRoutes(c) = OverlapRoutes(d)
<1>1. \A i : IngressController(c, i) = IngressController(d, i)
  BY SameControllers
<1>2. \A r : r \in OverlapRoutes(c) <=> r \in OverlapRoutes(d)
  BY <1>1, OverlapRoutesAre DEF SameExposures
<1>3. QED
  BY <1>2 DEF OverlapRoutes

-----------------------------------------------------------------------------
(* Two clusters of which the one, s, has left out Services, pods, nodes,   *)
(* slices and Endpoints of the other that no Ingress and no resource leads *)
(* to, or lists the same in another order.                                 *)

SameNames(s, c) ==
  /\ \A x \in RoutesOf(c) :
       ServicesNamed(s, ServiceKey(x[1], x[2])) = ServicesNamed(c, ServiceKey(x[1], x[2]))
  /\ \A r \in c.external : \A ref \in r.backends :
       ref.supported => ServicesNamed(s, Refers(r, ref)) = ServicesNamed(c, Refers(r, ref))
  /\ \A r \in c.external : F5Services(s, r) = F5Services(c, r)

SameBehind(s, c) ==
  /\ \A svc \in s.services : SlicesOf(s, Key(svc)) = SlicesOf(c, Key(svc))
                             /\ EndpointsOf(s, Key(svc)) = EndpointsOf(c, Key(svc))
  /\ \A sl \in s.slices : \A e \in sl.endpoints : \A a \in e.addresses :
       PodBehind(s.pods, sl.ns, e.target, a) = PodBehind(c.pods, sl.ns, e.target, a)
  /\ \A e \in s.endpoints : \A sub \in e.subsets : \A a \in sub.addresses :
       PodBehind(s.pods, e.ns, a.target, a.ip) = PodBehind(c.pods, e.ns, a.target, a.ip)

Keeps(s, c) ==
  /\ SameExposures(s, c) /\ None \notin c.services /\ s.watch = c.watch /\ s.external = c.external
  /\ SameNames(s, c) /\ SameBehind(s, c)
  /\ s.slices \subseteq c.slices /\ s.endpoints \subseteq c.endpoints /\ s.nodes \subseteq c.nodes
  /\ ToSet(s.pods) \subseteq ToSet(c.pods)
  /\ \A p \in ToSet(s.pods) : p.node \in c.nodes => p.node \in s.nodes

\* The statistics of a Service that is kept, and the pods behind it.
LEMMA SameStats ==
  ASSUME NEW s, NEW c, Keeps(s, c), NEW svc \in s.services
  PROVE  Stats(s, Key(svc)) = Stats(c, Key(svc))
<1>1. /\ SlicesOf(s, Key(svc)) = SlicesOf(c, Key(svc))
      /\ EndpointsOf(s, Key(svc)) = EndpointsOf(c, Key(svc))
  BY DEF Keeps, SameBehind
<1>2. SliceStats(s, Key(svc)) = SliceStats(c, Key(svc))
  BY <1>1 DEF SliceStats
<1>3. QED
  BY <1>1, <1>2 DEF Stats

LEMMA SameSlicePods ==
  ASSUME NEW s, NEW c, Keeps(s, c), NEW sl \in s.slices
  PROVE  SlicePods(s.pods, sl) = SlicePods(c.pods, sl)
<1>1. \A e \in sl.endpoints : \A a \in e.addresses :
        PodBehind(s.pods, sl.ns, e.target, a) = PodBehind(c.pods, sl.ns, e.target, a)
  BY DEF Keeps, SameBehind
<1>2. \A e \in sl.endpoints :
        UNION {PodBehind(s.pods, sl.ns, e.target, a) : a \in e.addresses}
          = UNION {PodBehind(c.pods, sl.ns, e.target, a) : a \in e.addresses}
  BY <1>1
<1>3. QED
  BY <1>2 DEF SlicePods

LEMMA SameSubsetPods ==
  ASSUME NEW s, NEW c, Keeps(s, c), NEW e \in s.endpoints, NEW sub \in e.subsets
  PROVE  SubsetPods(s.pods, e.ns, sub) = SubsetPods(c.pods, e.ns, sub)
<1>1. \A a \in sub.addresses :
        PodBehind(s.pods, e.ns, a.target, a.ip) = PodBehind(c.pods, e.ns, a.target, a.ip)
  BY DEF Keeps, SameBehind
<1>2. QED
  BY <1>1 DEF SubsetPods

LEMMA SameEndpointPods ==
  ASSUME NEW s, NEW c, Keeps(s, c), NEW e \in s.endpoints
  PROVE  EndpointPods(s.pods, e) = EndpointPods(c.pods, e)
BY SameSubsetPods DEF EndpointPods

LEMMA SamePortPods ==
  ASSUME NEW s, NEW c, Keeps(s, c), NEW svc \in s.services, NEW port
  PROVE  PortPods(s, Key(svc), port) = PortPods(c, Key(svc), port)
<1> DEFINE key == Key(svc)
           slices == {t \in SlicesOf(c, key) : port \in t.ports}
           subsets == {t \in UNION {e.subsets : e \in EndpointsOf(c, key)} : port \in t.ports}
<1>1. SlicesOf(s, key) = SlicesOf(c, key) /\ EndpointsOf(s, key) = EndpointsOf(c, key)
  BY DEF Keeps, SameBehind
<1>2. \A t \in slices : SlicePods(s.pods, t) = SlicePods(c.pods, t)
  BY <1>1, SameSlicePods DEF SlicesOf
<1>3. \A t \in subsets : SubsetPods(s.pods, key[1], t) = SubsetPods(c.pods, key[1], t)
  <2> TAKE t \in subsets
  <2>1. PICK e \in EndpointsOf(s, key) : t \in e.subsets
    BY <1>1
  <2>2. e \in s.endpoints /\ e.ns = key[1]
    BY <2>1 DEF EndpointsOf, Key
  <2>3. QED
    BY <2>1, <2>2, SameSubsetPods
<1>4. {SlicePods(s.pods, t) : t \in slices} = {SlicePods(c.pods, t) : t \in slices}
  BY <1>2
<1>5. {SubsetPods(s.pods, key[1], t) : t \in subsets}
        = {SubsetPods(c.pods, key[1], t) : t \in subsets}
  BY <1>3
<1>6. PortPods(s, key, port) = UNION ({SlicePods(s.pods, t) : t \in slices}
                                \cup {SubsetPods(s.pods, key[1], t) : t \in subsets})
  BY <1>1 DEF PortPods
<1>7. PortPods(c, key, port) = UNION ({SlicePods(c.pods, t) : t \in slices}
                                \cup {SubsetPods(c.pods, key[1], t) : t \in subsets})
  BY DEF PortPods
<1>8. QED
  BY <1>4, <1>5, <1>6, <1>7

LEMMA SameDiagnosis ==
  ASSUME NEW s, NEW c, Keeps(s, c), NEW x \in RoutesOf(c)
  PROVE  Diagnose(s, x[1], x[2]) = Diagnose(c, x[1], x[2])
<1> DEFINE i == x[1]
           k == x[2]
           port == i.routes[k].port
           found == ServicesNamed(c, ServiceKey(i, k))
           svc == CHOOSE t \in found : TRUE
<1>1. ServicesNamed(s, ServiceKey(i, k)) = found
  BY DEF Keeps, SameNames
<1>2. IngressController(s, i) = IngressController(c, i)
  BY SameControllers DEF Keeps
<1>3. ASSUME found # {} PROVE DiagnoseEndpoints(s, svc, port) = DiagnoseEndpoints(c, svc, port)
  <2>1. svc \in s.services
    BY <1>1, <1>3 DEF ServicesNamed
  <2> HIDE DEF svc
  <2>2. PodsOf(svc, s.pods) = PodsOf(svc, c.pods)
    BY <2>1 DEF Keeps, SameExposures
  <2>3. Stats(s, Key(svc)) = Stats(c, Key(svc))
    BY <2>1, SameStats
  <2>4. \A name : NonEndpointPods(s, svc, name) = NonEndpointPods(c, svc, name)
    <3>1. HasEndpointData(s, Key(svc)) = HasEndpointData(c, Key(svc))
      BY <2>1 DEF Keeps, SameBehind, HasEndpointData
    <3>2. \A name : PortPods(s, Key(svc), name) = PortPods(c, Key(svc), name)
      BY <2>1, SamePortPods
    <3>3. QED
      BY <2>2, <3>1, <3>2 DEF NonEndpointPods
  <2>5. QED
    BY <2>2, <2>3, <2>4 DEF DiagnoseEndpoints
<1>4. CASE found = {}
  BY <1>1, <1>4 DEF Diagnose
<1>5. CASE found # {}
  <2>1. DiagnoseEndpoints(s, svc, port) = DiagnoseEndpoints(c, svc, port)
    BY <1>3, <1>5
  <2>2. QED
    BY <1>1, <1>2, <1>5, <2>1 DEF Diagnose
<1>6. QED
  BY <1>4, <1>5

-----------------------------------------------------------------------------
(* Most of what is drawn for the two is the same.                          *)

LEMMA SameControllerNodes ==
  ASSUME NEW s, NEW c, Keeps(s, c)
  PROVE  ControllerNodes(s) = ControllerNodes(c)
<1>1. SameExposures(s, c)
  BY DEF Keeps
<1>2. ClassNames(s) = ClassNames(c)
  BY <1>1 DEF SameExposures, ClassNames
<1>3. AnnotationClasses(s) = AnnotationClasses(c)
  BY <1>1, <1>2 DEF SameExposures, AnnotationClasses
<1>4. StatusServices(s) = StatusServices(c)
  BY SameStatusServices DEF Keeps
<1>5. QED
  BY <1>2, <1>3, <1>4 DEF ControllerNodes

LEMMA SameExposed ==
  ASSUME NEW s, NEW c, Keeps(s, c)
  PROVE  /\ {v \in s.services : Exposed(v)} = {v \in c.services : Exposed(v)}
         /\ {v \in s.services : v.type = "LoadBalancer"}
              = {v \in c.services : v.type = "LoadBalancer"}
         /\ \A v \in c.services : Exposed(v) => ExposedTarget(s, v) = ExposedTarget(c, v)
<1> USE DEF Keeps
<1>1. {v \in s.services : Exposed(v)} = {v \in c.services : Exposed(v)}
  BY DEF SameExposures
<1>2. \A v \in c.services : v.type = "LoadBalancer" => Exposed(v)
  BY DEF Exposed
<1>3. {v \in s.services : v.type = "LoadBalancer"} = {v \in c.services : v.type = "LoadBalancer"}
  BY <1>2 DEF SameExposures
<1>4. ASSUME NEW v \in c.services, Exposed(v)
      PROVE  ExposedTarget(s, v) = ExposedTarget(c, v)
  <2>1. MatchingClass(s, v) = MatchingClass(c, v)
    BY <1>4, SameMatches DEF SameExposures
  <2>2. StatusServices(s) = StatusServices(c)
    BY SameStatusServices
  <2>3. QED
    BY <2>1, <2>2 DEF ExposedTarget
<1>5. QED
  BY <1>1, <1>3, <1>4

LEMMA SameExposureNodes ==
  ASSUME NEW s, NEW c, Keeps(s, c)
  PROVE  ExposureNodes(s) = ExposureNodes(c)
<1>1. /\ {v \in s.services : Exposed(v)} = {v \in c.services : Exposed(v)}
      /\ {v \in s.services : v.type = "LoadBalancer"} = {v \in c.services : v.type = "LoadBalancer"}
  BY SameExposed
<1>2. QED
  BY <1>1 DEF ExposureNodes

LEMMA SameExposureEdges ==
  ASSUME NEW s, NEW c, Keeps(s, c)
  PROVE  ExposureEdges(s) = ExposureEdges(c)
<1> DEFINE balancers == {v \in c.services : v.type = "LoadBalancer"}
           exposed == PairsOf({v \in c.services : Exposed(v)}, NodePorts)
           f1 == Linked({<<LoadBalancerID(x[1]), NodePortID(x[1], x[2]), "exposes">> :
                           x \in {y \in exposed : y[1] \in balancers}}, "LoadBalancer")
           forwards(d) == {<<NodePortID(x[1], x[2]), ExposedTarget(d, x[1]), "forwards">> :
                             x \in exposed}
           balances(d) == {<<LoadBalancerID(v), ExposedTarget(d, v), "balances">> :
                             v \in {b \in balancers : NodePorts(b) = {}}}
<1>1. /\ {v \in s.services : Exposed(v)} = {v \in c.services : Exposed(v)}
      /\ {v \in s.services : v.type = "LoadBalancer"} = balancers
      /\ \A v \in c.services : Exposed(v) => ExposedTarget(s, v) = ExposedTarget(c, v)
  BY SameExposed
<1>2. forwards(s) = forwards(c)
  <2>1. \A x \in exposed : ExposedTarget(s, x[1]) = ExposedTarget(c, x[1])
    BY <1>1 DEF PairsOf
  <2> HIDE DEF exposed
  <2>2. QED
    BY <2>1
<1>3. balances(s) = balances(c)
  <2>1. \A v \in balancers : ExposedTarget(s, v) = ExposedTarget(c, v)
    BY <1>1 DEF Exposed
  <2> HIDE DEF balancers
  <2>2. QED
    BY <2>1
<1>4. ExposureEdges(s) = Merge(<<f1, Linked(forwards(s), "NodePort"),
                                 Linked(balances(s), "LoadBalancer")>>)
  BY <1>1 DEF ExposureEdges
<1>5. ExposureEdges(c) = Merge(<<f1, Linked(forwards(c), "NodePort"),
                                 Linked(balances(c), "LoadBalancer")>>)
  BY DEF ExposureEdges
<1>6. QED
  BY <1>2, <1>3, <1>4, <1>5

LEMMA SameIngressNodes ==
  ASSUME NEW s, NEW c, Keeps(s, c)
  PROVE  IngressNodes(s) = IngressNodes(c)
<1> DEFINE routes(d) ==
             [n \in {IngressRouteID(x[1], x[2]) : x \in RoutesOf(d)} |->
                LET x == CHOOSE y \in RoutesOf(d) : IngressRouteID(y[1], y[2]) = n
                IN  ShowIngressRoute(d, OverlapRoutes(d), x[1], x[2])]
           f1 == Drawn(ToSet(c.ingresses), IngressID, ShowIngress)
           f3 == [n \in {DnsID(host) : host \in UNION {Hosts(i) : i \in ToSet(c.ingresses)}} |->
                    Shows("DNS", None, <<>>)]
           f4 == Drawn(PairsOf(ToSet(c.ingresses), LAMBDA i : i.addresses),
                       LAMBDA x : AddressID(x[1], "ingress", x[2]),
                       LAMBDA x : ShowAddress("Ingress", x[2]))
<1>1. ToSet(s.ingresses) = ToSet(c.ingresses)
  BY DEF Keeps, SameExposures
<1>2. RoutesOf(s) = RoutesOf(c)
  BY <1>1 DEF RoutesOf
<1>3. OverlapRoutes(s) = OverlapRoutes(c)
  BY SameOverlaps DEF Keeps
<1>4. \A x \in RoutesOf(c) : ShowIngressRoute(s, OverlapRoutes(s), x[1], x[2])
                               = ShowIngressRoute(c, OverlapRoutes(c), x[1], x[2])
  <2> TAKE x \in RoutesOf(c)
  <2>1. Diagnose(s, x[1], x[2]) = Diagnose(c, x[1], x[2])
    BY SameDiagnosis
  <2>2. QED
    BY <1>3, <2>1 DEF ShowIngressRoute, RouteDiagnosisOf
<1>5. routes(s) = routes(c)
  <2> DEFINE R == RoutesOf(c)
             x(n) == CHOOSE y \in R : IngressRouteID(y[1], y[2]) = n
  <2> HIDE DEF R
  <2>1. \A n \in {IngressRouteID(y[1], y[2]) : y \in R} : x(n) \in R
    OBVIOUS
  <2> HIDE DEF x
  <2>2. \A n \in {IngressRouteID(y[1], y[2]) : y \in R} :
          ShowIngressRoute(s, OverlapRoutes(s), x(n)[1], x(n)[2])
            = ShowIngressRoute(c, OverlapRoutes(c), x(n)[1], x(n)[2])
    BY <1>4, <2>1 DEF R
  <2>3. routes(s) = [n \in {IngressRouteID(y[1], y[2]) : y \in R} |->
                       ShowIngressRoute(s, OverlapRoutes(s), x(n)[1], x(n)[2])]
    BY <1>2 DEF x, R
  <2>4. routes(c) = [n \in {IngressRouteID(y[1], y[2]) : y \in R} |->
                       ShowIngressRoute(c, OverlapRoutes(c), x(n)[1], x(n)[2])]
    BY DEF x, R
  <2> HIDE DEF routes
  <2>5. QED
    BY <2>2, <2>3, <2>4
<1>6. IngressNodes(s) = Merge(<<f1, routes(s), f3, f4>>)
  BY <1>1 DEF IngressNodes, Drawn
<1>7. IngressNodes(c) = Merge(<<f1, routes(c), f3, f4>>)
  BY DEF IngressNodes, Drawn
<1> HIDE DEF routes
<1>8. QED
  BY <1>5, <1>6, <1>7

LEMMA SameIngressEdges ==
  ASSUME NEW s, NEW c, Keeps(s, c),
         CanaryEdges(s, OverlapRoutes(s)) = CanaryEdges(c, OverlapRoutes(c))
  PROVE  IngressEdges(s) = IngressEdges(c)
<1>1. ToSet(s.ingresses) = ToSet(c.ingresses)
  BY DEF Keeps, SameExposures
<1>2. RoutesOf(s) = RoutesOf(c)
  BY <1>1 DEF RoutesOf
<1>3. \A i : IngressController(s, i) = IngressController(c, i)
  BY SameControllers DEF Keeps
<1>4. \A i : ControllerClass(s, i) = ControllerClass(c, i)
  BY SameClasses DEF Keeps
<1> DEFINE controlled(d) == {i \in ToSet(d.ingresses) : IngressController(d, i) # None}
           classed(d) == {i \in controlled(d) : ControllerClass(d, i) # None}
           links(d, set) == {<<IngressController(d, i), IngressID(i), "controls">> : i \in set}
           backed(d) == {x \in RoutesOf(d) : ServicesNamed(d, ServiceKey(x[1], x[2])) # {}}
<1>5. controlled(s) = controlled(c)
  BY <1>1, <1>3
<1>6. classed(s) = classed(c)
  BY <1>4, <1>5
<1>7. \A set : links(s, set) = links(c, set)
  BY <1>3
<1>8. backed(s) = backed(c)
  <2>1. \A x \in RoutesOf(c) :
          ServicesNamed(s, ServiceKey(x[1], x[2])) = ServicesNamed(c, ServiceKey(x[1], x[2]))
    BY DEF Keeps, SameNames
  <2>2. QED
    BY <1>2, <2>1
<1> DEFINE rest(d) ==
      <<Linked({<<DnsID(x[2]), IngressID(x[1]), "resolves">> :
                  x \in PairsOf(ToSet(d.ingresses), Hosts)},
               "DNS"),
        Linked({<<AddressID(x[1], "ingress", x[2]), IngressID(x[1]), "fronts">> :
                  x \in PairsOf(ToSet(d.ingresses), LAMBDA i : i.addresses)}, "Ingress status"),
        Linked({<<IngressID(x[1]), IngressRouteID(x[1], x[2]), "defines">> : x \in RoutesOf(d)},
               "route"),
        Linked({<<IngressRouteID(x[1], x[2]),
                  <<"Service", x[1].ns, <<x[1].routes[x[2]].service>>>>, "routes">> :
                  x \in backed(d)}, "HTTP backend")>>
<1>9. rest(s) = rest(c)
  <2> HIDE DEF backed
  <2>1. QED
    BY <1>1, <1>2, <1>8
<1>10. \A d : IngressEdges(d) =
         Merge(<<Linked(links(d, classed(d)), "IngressClass"),
                 Linked(links(d, controlled(d) \ classed(d)), "Ingress status"),
                 rest(d)[1], rest(d)[2], rest(d)[3], rest(d)[4],
                 CanaryEdges(d, OverlapRoutes(d))>>)
  BY DEF IngressEdges
<1> HIDE DEF rest, links, classed, controlled
<1>11. QED
  BY <1>5, <1>6, <1>7, <1>9, <1>10

LEMMA SameOutcomes ==
  ASSUME NEW s, NEW c, Keeps(s, c), NEW r \in c.external
  PROVE  /\ \A ref : ParentOutcome(s, r, ref) = ParentOutcome(c, r, ref)
         /\ \A ref \in r.backends : BackendOutcome(s, r, ref) = BackendOutcome(c, r, ref)
<1>1. s.external = c.external /\ s.watch = c.watch
  BY DEF Keeps
<1>2. \A key : MissingOutcome(s, key) = MissingOutcome(c, key)
  BY <1>1 DEF MissingOutcome
<1>3. \A kinds : OfKind(s, kinds) = OfKind(c, kinds)
  BY <1>1 DEF OfKind
<1>4. \A key : GatewaysNamed(s, key) = GatewaysNamed(c, key)
  BY <1>3 DEF GatewaysNamed
<1>5. \A key : Granted(s, r, key) = Granted(c, r, key)
  BY <1>3 DEF Granted
<1>6. ASSUME NEW ref PROVE ParentOutcome(s, r, ref) = ParentOutcome(c, r, ref)
  BY <1>2, <1>4 DEF ParentOutcome
<1>7. ASSUME NEW ref \in r.backends PROVE BackendOutcome(s, r, ref) = BackendOutcome(c, r, ref)
  <2>1. CASE ~ref.supported
    BY <2>1 DEF BackendOutcome
  <2>2. CASE ref.supported
    <3>1. ServicesNamed(s, Refers(r, ref)) = ServicesNamed(c, Refers(r, ref))
      BY <2>2 DEF Keeps, SameNames
    <3>2. QED
      BY <1>2, <1>5, <3>1 DEF BackendOutcome
  <2>3. QED
    BY <2>1, <2>2
<1>8. QED
  BY <1>6, <1>7

LEMMA SameShowRoute ==
  ASSUME NEW s, NEW c, Keeps(s, c), NEW r \in c.external
  PROVE  ShowRoute(s, r) = ShowRoute(c, r)
<1> DEFINE with(d, wanted) ==
             {<<"parent", ref>> : ref \in {x \in r.parents : ParentOutcome(d, r, x) = wanted}}
               \cup {<<"backend", ref>> : ref \in
                       {x \in r.backends : BackendOutcome(d, r, x) = wanted}}
<1>1. \A wanted : with(s, wanted) = with(c, wanted)
  BY SameOutcomes
<1>2. \A d : ShowRoute(d, r) =
               Shows("Route", IF with(d, "error") # {} THEN "Reference error" ELSE r.kind,
                     <<with(d, "error"), with(d, "outside")>>)
  BY DEF ShowRoute
<1> HIDE DEF with
<1>3. QED
  BY <1>1, <1>2

LEMMA SameExternalNodes ==
  ASSUME NEW s, NEW c, Keeps(s, c)
  PROVE  ExternalNodes(s) = ExternalNodes(c)
<1> DEFINE routes(d) == [n \in {RouteID(r) : r \in OfKind(d, HTTPKinds)} |->
                           ShowRoute(d, CHOOSE r \in OfKind(d, HTTPKinds) : RouteID(r) = n)]
           all(d) == OfKind(d, {"Gateway"} \cup HTTPKinds \cup F5Kinds)
           families(classes, gateways, drawn, f5, any) ==
             Merge(<<
               Drawn(classes, LAMBDA r : GatewayClassID(r.name),
                     LAMBDA r : ShowController("Configured")),
               Drawn(gateways, GatewayID, LAMBDA r : Shows("Gateway", r.kind, <<r.class>>)),
               drawn,
               Drawn(PairsOf(gateways, LAMBDA r : r.addresses),
                     LAMBDA x : AddressID(x[1], "gateway", x[2]),
                     LAMBDA x : ShowAddress("Gateway API", x[2])),
               Drawn(f5, F5ID,
                     LAMBDA r : ShowAddress("F5", IF r.addresses = {} THEN None
                                                  ELSE CHOOSE a \in r.addresses : TRUE)),
               [n \in {DnsID(host) : host \in UNION {r.hosts : r \in any}} |->
                  Shows("DNS", None, <<>>)] >>)
           parts(d) == families(OfKind(d, {"GatewayClass"}), OfKind(d, {"Gateway"}), routes(d),
                                OfKind(d, F5Kinds), all(d))
<1>1. /\ OfKind(s, {"GatewayClass"}) = OfKind(c, {"GatewayClass"})
      /\ OfKind(s, {"Gateway"}) = OfKind(c, {"Gateway"})
      /\ OfKind(s, HTTPKinds) = OfKind(c, HTTPKinds)
      /\ OfKind(s, F5Kinds) = OfKind(c, F5Kinds)
      /\ OfKind(s, {"Gateway"} \cup HTTPKinds \cup F5Kinds)
           = OfKind(c, {"Gateway"} \cup HTTPKinds \cup F5Kinds)
  BY DEF Keeps, OfKind
<1>2. \A r \in OfKind(c, HTTPKinds) : ShowRoute(s, r) = ShowRoute(c, r)
  BY SameShowRoute DEF OfKind
<1>3. routes(s) = routes(c)
  <2> DEFINE R == OfKind(c, HTTPKinds)
             x(n) == CHOOSE r \in R : RouteID(r) = n
  <2> HIDE DEF R
  <2>1. \A n \in {RouteID(r) : r \in R} : x(n) \in R
    OBVIOUS
  <2> HIDE DEF x
  <2>2. \A n \in {RouteID(r) : r \in R} : ShowRoute(s, x(n)) = ShowRoute(c, x(n))
    BY <1>2, <2>1 DEF R
  <2>3. routes(s) = [n \in {RouteID(r) : r \in R} |-> ShowRoute(s, x(n))]
    BY <1>1 DEF x, R
  <2>4. routes(c) = [n \in {RouteID(r) : r \in R} |-> ShowRoute(c, x(n))]
    BY DEF x, R
  <2> HIDE DEF routes
  <2>5. QED
    BY <2>2, <2>3, <2>4
<1>4. \A d : ExternalNodes(d) = parts(d)
  BY DEF ExternalNodes, Drawn
<1>5. all(s) = all(c)
  BY <1>1
<1> HIDE DEF routes, families, all
<1>6. parts(s) = parts(c)
  BY <1>1, <1>3, <1>5
<1> HIDE DEF parts
<1>7. QED
  BY <1>4, <1>6

LEMMA SameExternalEdges ==
  ASSUME NEW s, NEW c, Keeps(s, c)
  PROVE  ExternalEdges(s) = ExternalEdges(c)
<1> DEFINE attached(d, r) == {ref \in r.parents : ParentOutcome(d, r, ref) = "edge"}
           backed(d, r) == {ref \in r.backends : BackendOutcome(d, r, ref) = "edge"}
           attachments(d, set) == UNION {{<<r, ref>> : ref \in attached(d, r)} : r \in set}
           backends(d) == UNION {{<<r, ref>> : ref \in backed(d, r)} : r \in OfKind(c, HTTPKinds)}
           balanced(d) == UNION {{<<r, svc>> : svc \in F5Services(d, r)} : r \in OfKind(c, F5Kinds)}
           accepted == {r \in OfKind(c, HTTPKinds) : r.accepted}
           rejected == {r \in OfKind(c, HTTPKinds) : ~r.accepted}
           classed == {g \in OfKind(c, {"Gateway"}) :
                         \E k \in OfKind(c, {"GatewayClass"}) : k.name = g.class}
           attach(pairs, kind) ==
             Linked({<<<<"Gateway", Refers(x[1], x[2])[1], <<x[2].name>>>>, RouteID(x[1]), kind>> :
                       x \in pairs}, "route")
           f1 == Linked({<<GatewayClassID(g.class), GatewayID(g), "controls">> : g \in classed},
                        "GatewayClass")
           f2 == Linked({<<AddressID(x[1], "gateway", x[2]), GatewayID(x[1]), "fronts">> :
                           x \in PairsOf(OfKind(c, {"Gateway"}), LAMBDA g : g.addresses)},
                        "Gateway status")
           f5(pairs) ==
             Linked({<<RouteID(x[1]), <<"Service", Refers(x[1], x[2])[1], <<x[2].name>>>>,
                       "routes">> :
                       x \in pairs}, "backend")
           f6(pairs) == Linked({<<F5ID(x[1]), ServiceID(x[2]), "balances">> : x \in pairs}, "F5")
           f7 == Linked({<<DnsID(x[2]), GatewayID(x[1]), "resolves">> :
                           x \in PairsOf(OfKind(c, {"Gateway"}), LAMBDA r : r.hosts)}, "DNS")
           f8 == Linked({<<DnsID(x[2]), RouteID(x[1]), "resolves">> :
                           x \in PairsOf(OfKind(c, HTTPKinds), LAMBDA r : r.hosts)}, "DNS")
           f9 == Linked({<<DnsID(x[2]), F5ID(x[1]), "resolves">> :
                           x \in PairsOf(OfKind(c, F5Kinds), LAMBDA r : r.hosts)}, "DNS")
<1>1. /\ OfKind(s, {"GatewayClass"}) = OfKind(c, {"GatewayClass"})
      /\ OfKind(s, {"Gateway"}) = OfKind(c, {"Gateway"})
      /\ OfKind(s, HTTPKinds) = OfKind(c, HTTPKinds)
      /\ OfKind(s, F5Kinds) = OfKind(c, F5Kinds)
  BY DEF Keeps, OfKind
<1>2. \A kinds : OfKind(c, kinds) \subseteq c.external
  BY DEF OfKind
<1>3. \A r \in c.external : attached(s, r) = attached(c, r) /\ backed(s, r) = backed(c, r)
  BY SameOutcomes
<1>4. \A r \in c.external : F5Services(s, r) = F5Services(c, r)
  BY DEF Keeps, SameNames
<1>5. \A set : set \subseteq c.external => attachments(s, set) = attachments(c, set)
  <2> HIDE DEF attached
  <2>1. QED
    BY <1>3
<1>6. backends(s) = backends(c)
  <2> HIDE DEF backed
  <2>1. QED
    BY <1>2, <1>3
<1>7. balanced(s) = balanced(c)
  BY <1>2, <1>4
<1>8. accepted \subseteq c.external /\ rejected \subseteq c.external
  BY <1>2
<1>9. ExternalEdges(s) = Merge(<<f1, f2, attach(attachments(s, accepted), "attaches"),
                                 attach(attachments(s, rejected), "rejected"), f5(backends(s)),
                                 f6(balanced(s)), f7, f8, f9>>)
  BY <1>1 DEF ExternalEdges, PairsOf
<1>10. ExternalEdges(c) = Merge(<<f1, f2, attach(attachments(c, accepted), "attaches"),
                                  attach(attachments(c, rejected), "rejected"), f5(backends(c)),
                                  f6(balanced(c)), f7, f8, f9>>)
  BY DEF ExternalEdges, PairsOf
<1>11. /\ attachments(s, accepted) = attachments(c, accepted)
       /\ attachments(s, rejected) = attachments(c, rejected)
  BY <1>5, <1>8
<1> HIDE DEF attachments, backends, balanced, accepted, rejected, attach, f5, f6
<1>12. QED
  BY <1>6, <1>7, <1>9, <1>10, <1>11

-----------------------------------------------------------------------------
(* What is left of pods, Services, slices and Endpoints is drawn as in the *)
(* whole cluster.                                                          *)

\* Pods and Services are listed under keys of their own.
Apart(c) ==
  /\ \A p, q \in ToSet(c.pods) : Key(p) = Key(q) => p = q
  /\ \A svc, t \in c.services : Key(svc) = Key(t) => svc = t

ShowExternalName(svc) == Shows("Endpoint", "ExternalName", <<svc.external>>)

LEMMA SameID ==
  ASSUME NEW x, NEW y
  PROVE  /\ PodID(x) = PodID(y) => Key(x) = Key(y)
         /\ ServiceID(x) = ServiceID(y) => Key(x) = Key(y)
         /\ ExternalNameID(x) = ExternalNameID(y) => Key(x) = Key(y)
BY DEF PodID, ServiceID, ExternalNameID, ID, Key

LEMMA WorkloadValues ==
  ASSUME NEW c, Apart(c)
  PROVE  /\ \A node \in c.nodes : WorkloadNodes(c)[HostID(node)] = Shows("Node", None, <<>>)
         /\ \A p \in ToSet(c.pods) : WorkloadNodes(c)[PodID(p)] = ShowPod(p)
         /\ \A svc \in c.services : WorkloadNodes(c)[ServiceID(svc)] = ShowService(svc)
         /\ \A svc \in ExternalNames(c) :
              WorkloadNodes(c)[ExternalNameID(svc)] = ShowExternalName(svc)
<1> DEFINE f1 == [n \in HostIDs(c) |-> Shows("Node", None, <<>>)]
           f2 == Drawn(ToSet(c.pods), PodID, ShowPod)
           f3 == Drawn(c.services, ServiceID, ShowService)
           f4 == Drawn(ExternalNames(c), ExternalNameID,
                       LAMBDA svc : Shows("Endpoint", "ExternalName", <<svc.external>>))
           fs == <<f1, f2, f3, f4>>
<1>1. WorkloadNodes(c) = Merge(fs)
  BY DEF WorkloadNodes, HostIDs
<1>2. /\ DOMAIN f1 = HostIDs(c)
      /\ \A node \in c.nodes : f1[HostID(node)] = Shows("Node", None, <<>>)
  BY DEF HostIDs
<1>3. DOMAIN f2 = PodIDs(c) /\ \A p \in ToSet(c.pods) : f2[PodID(p)] = ShowPod(p)
  <2> DEFINE of(n) == CHOOSE p \in ToSet(c.pods) : PodID(p) = n
  <2>1. \A p \in ToSet(c.pods) : of(PodID(p)) = p
    BY SameID DEF Apart
  <2>2. f2 = [n \in PodIDs(c) |-> ShowPod(of(n))]
    BY DEF Drawn, PodIDs
  <2> HIDE DEF of, f2
  <2>3. QED
    BY <2>1, <2>2 DEF PodIDs
<1>4. DOMAIN f3 = ServiceIDs(c) /\ \A svc \in c.services : f3[ServiceID(svc)] = ShowService(svc)
  <2> DEFINE of(n) == CHOOSE svc \in c.services : ServiceID(svc) = n
  <2>1. \A svc \in c.services : of(ServiceID(svc)) = svc
    BY SameID DEF Apart
  <2>2. f3 = [n \in ServiceIDs(c) |-> ShowService(of(n))]
    BY DEF Drawn, ServiceIDs
  <2> HIDE DEF of, f3
  <2>3. QED
    BY <2>1, <2>2 DEF ServiceIDs
<1>5. /\ DOMAIN f4 = ExternalNameIDs(c)
      /\ \A svc \in ExternalNames(c) : f4[ExternalNameID(svc)] = ShowExternalName(svc)
  <2> DEFINE of(n) == CHOOSE svc \in ExternalNames(c) : ExternalNameID(svc) = n
  <2>1. \A svc \in ExternalNames(c) : of(ExternalNameID(svc)) = svc
    BY SameID DEF Apart, ExternalNames
  <2>2. f4 = [n \in ExternalNameIDs(c) |-> ShowExternalName(of(n))]
    BY DEF Drawn, ExternalNameIDs, ShowExternalName
  <2> HIDE DEF of, f4
  <2>3. QED
    BY <2>1, <2>2 DEF ExternalNameIDs
<1> HIDE DEF f1, f2, f3, f4
<1>6. DOMAIN fs = 1 .. 4 /\ 4 \in Nat
  OBVIOUS
<1> HIDE DEF fs
<1>7. MergeOf(Merge(fs), fs, 4)
  BY <1>6, Merged
<1>8. /\ \A n \in HostIDs(c) : n[1] = "Node"
      /\ \A n \in PodIDs(c) : n[1] = "Pod"
      /\ \A n \in ServiceIDs(c) : n[1] = "Service"
      /\ \A n \in ExternalNameIDs(c) : n[1] = "Endpoint"
  BY Heads DEF HostIDs, PodIDs, ServiceIDs, ExternalNameIDs
<1>9. fs[1] = f1 /\ fs[2] = f2 /\ fs[3] = f3 /\ fs[4] = f4
  BY DEF fs
<1>10. /\ \A n \in HostIDs(c) : Merge(fs)[n] = f1[n]
       /\ \A n \in PodIDs(c) : Merge(fs)[n] = f2[n]
       /\ \A n \in ServiceIDs(c) : Merge(fs)[n] = f3[n]
       /\ \A n \in ExternalNameIDs(c) : Merge(fs)[n] = f4[n]
  <2>1. \A n \in HostIDs(c) \cup PodIDs(c) \cup ServiceIDs(c) \cup ExternalNameIDs(c) :
          \/ n \in HostIDs(c) /\ Merge(fs)[n] = f1[n]
          \/ n \in PodIDs(c) /\ Merge(fs)[n] = f2[n]
          \/ n \in ServiceIDs(c) /\ Merge(fs)[n] = f3[n]
          \/ n \in ExternalNameIDs(c) /\ Merge(fs)[n] = f4[n]
    <3>1. \A k \in 1 .. 4 : k = 1 \/ k = 2 \/ k = 3 \/ k = 4
      OBVIOUS
    <3>2. 1 \in 1 .. 4 /\ 2 \in 1 .. 4 /\ 3 \in 1 .. 4 /\ 4 \in 1 .. 4
      OBVIOUS
    <3>3. QED
      BY <1>2, <1>3, <1>4, <1>5, <1>7, <1>9, <3>1, <3>2, Zenon DEF MergeOf
  <2>2. QED
    BY <1>8, <2>1
<1>11. QED
  BY <1>1, <1>2, <1>3, <1>4, <1>5, <1>10 DEF HostIDs, PodIDs, ServiceIDs, ExternalNameIDs

\* Every entry of one map is in the other with the same value.
PartMap(f, g) == \A x \in DOMAIN f : x \in DOMAIN g /\ f[x] = g[x]

LEMMA MergedParts ==
  ASSUME NEW n \in Nat, NEW fs, NEW gs, DOMAIN fs = 1 .. n, DOMAIN gs = 1 .. n,
         \A k \in 1 .. n : PartMap(fs[k], gs[k]),
         \A x \in DOMAIN Merge(fs) : \A k \in 1 .. n : x \in DOMAIN gs[k] => x \in DOMAIN fs[k]
  PROVE  PartMap(Merge(fs), Merge(gs))
<1>1. \A x : /\ x \in DOMAIN Merge(fs) <=> \E k \in 1 .. n : x \in DOMAIN fs[k]
             /\ x \in DOMAIN Merge(gs) <=> \E k \in 1 .. n : x \in DOMAIN gs[k]
  BY Merged DEF MergeOf
<1>2. ASSUME NEW x \in DOMAIN Merge(fs)
      PROVE  x \in DOMAIN Merge(gs) /\ Merge(fs)[x] = Merge(gs)[x]
  <2> DEFINE S == {k \in DOMAIN fs : x \in DOMAIN fs[k]}
             T == {k \in DOMAIN gs : x \in DOMAIN gs[k]}
  <2>1. x \in DOMAIN Merge(gs)
    BY <1>1 DEF PartMap
  <2>2. S = T
    BY DEF PartMap
  <2>3. S \subseteq 1 .. n /\ S # {}
    BY <1>1
  <2>4. Max(S) \in S
    BY <2>3, Greatest
  <2>5. Merge(fs)[x] = fs[Max(S)][x]
    BY DEF Merge
  <2>6. Merge(gs)[x] = gs[Max(T)][x]
    BY <2>1 DEF Merge
  <2> DEFINE top == Max(S)
  <2>7. Max(T) = top
    BY <2>2
  <2> HIDE DEF top
  <2>8. top \in 1 .. n /\ x \in DOMAIN fs[top]
    BY <2>3, <2>4 DEF top
  <2>9. Merge(fs)[x] = fs[top][x] /\ Merge(gs)[x] = gs[top][x]
    BY <2>5, <2>6, <2>7 DEF top
  <2>10. fs[top][x] = gs[top][x]
    BY <2>8 DEF PartMap
  <2>11. QED
    BY <2>1, <2>9, <2>10
<1>3. QED
  BY <1>2 DEF PartMap

LEMMA KeptApart ==
  ASSUME NEW s, NEW c, Keeps(s, c), Apart(c)
  PROVE  Apart(s)
BY DEF Keeps, SameExposures, Apart

LEMMA WorkloadNodesPart ==
  ASSUME NEW s, NEW c, Keeps(s, c), Apart(c)
  PROVE  PartMap(WorkloadNodes(s), WorkloadNodes(c))
<1>1. Apart(s)
  BY KeptApart
<1>2. /\ s.nodes \subseteq c.nodes /\ ToSet(s.pods) \subseteq ToSet(c.pods)
      /\ s.services \subseteq c.services
  BY DEF Keeps, SameExposures
<1>3. ExternalNames(s) \subseteq ExternalNames(c)
  BY <1>2 DEF ExternalNames
<1>4. /\ DOMAIN WorkloadNodes(s) =
            HostIDs(s) \cup PodIDs(s) \cup ServiceIDs(s) \cup ExternalNameIDs(s)
      /\ DOMAIN WorkloadNodes(c) =
            HostIDs(c) \cup PodIDs(c) \cup ServiceIDs(c) \cup ExternalNameIDs(c)
  BY WorkloadNodesAre
<1>5. ASSUME NEW n \in HostIDs(s)
      PROVE  n \in DOMAIN WorkloadNodes(c) /\ WorkloadNodes(s)[n] = WorkloadNodes(c)[n]
  BY <1>1, <1>2, <1>4, WorkloadValues DEF HostIDs
<1>6. ASSUME NEW n \in PodIDs(s)
      PROVE  n \in DOMAIN WorkloadNodes(c) /\ WorkloadNodes(s)[n] = WorkloadNodes(c)[n]
  BY <1>1, <1>2, <1>4, WorkloadValues DEF PodIDs
<1>7. ASSUME NEW n \in ServiceIDs(s)
      PROVE  n \in DOMAIN WorkloadNodes(c) /\ WorkloadNodes(s)[n] = WorkloadNodes(c)[n]
  BY <1>1, <1>2, <1>4, WorkloadValues DEF ServiceIDs
<1>8. ASSUME NEW n \in ExternalNameIDs(s)
      PROVE  n \in DOMAIN WorkloadNodes(c) /\ WorkloadNodes(s)[n] = WorkloadNodes(c)[n]
  BY <1>1, <1>3, <1>4, WorkloadValues DEF ExternalNameIDs
<1>9. QED
  BY <1>4, <1>5, <1>6, <1>7, <1>8 DEF PartMap

\* A slice or Endpoints of a Service that is kept.
Served(s, key) == \E svc \in s.services : Key(svc) = key

LEMMA SameManual ==
  ASSUME NEW s, NEW c, Keeps(s, c), Apart(c)
  PROVE  /\ \A sl : sl \in ManualSlices(s) <=>
                      sl \in ManualSlices(c) /\ Served(s, <<sl.ns, sl.service>>)
         /\ \A e : e \in ManualEndpoints(s) <=> e \in ManualEndpoints(c) /\ Served(s, Key(e))
<1>1. /\ s.services \subseteq c.services /\ s.slices \subseteq c.slices
      /\ s.endpoints \subseteq c.endpoints
  BY DEF Keeps, SameExposures
<1>2. ASSUME NEW key PROVE Selectorless(s, key) <=> Selectorless(c, key) /\ Served(s, key)
  BY <1>1 DEF Selectorless, Served, Apart
<1>3. ASSUME NEW key, Served(s, key)
      PROVE  SlicesOf(s, key) = SlicesOf(c, key) /\ EndpointsOf(s, key) = EndpointsOf(c, key)
  BY <1>3 DEF Keeps, SameBehind, Served
<1>4. ASSUME NEW sl
      PROVE  sl \in ManualSlices(s) <=> sl \in ManualSlices(c) /\ Served(s, <<sl.ns, sl.service>>)
  <2>1. Served(s, <<sl.ns, sl.service>>) => (sl \in s.slices <=> sl \in c.slices)
    BY <1>3 DEF SlicesOf
  <2>2. QED
    BY <1>1, <1>2, <2>1 DEF ManualSlices
<1>5. ASSUME NEW e PROVE e \in ManualEndpoints(s) <=> e \in ManualEndpoints(c) /\ Served(s, Key(e))
  <2>1. CASE ~Served(s, Key(e))
    BY <1>2, <2>1 DEF ManualEndpoints
  <2>2. CASE Served(s, Key(e))
    <3>1. /\ SlicesOf(s, Key(e)) = SlicesOf(c, Key(e))
          /\ EndpointsOf(s, Key(e)) = EndpointsOf(c, Key(e))
      BY <1>3, <2>2
    <3>2. SlicesOf(c, Key(e)) = {} => (e \in s.endpoints <=> e \in c.endpoints)
      BY <3>1 DEF EndpointsOf
    <3>3. QED
      BY <1>2, <2>2, <3>1, <3>2 DEF ManualEndpoints
  <2>3. QED
    BY <2>1, <2>2
<1>6. QED
  BY <1>4, <1>5

\* The addresses that are no pod's: the same behind each Service that is kept.
LEMMA SameAddresses ==
  ASSUME NEW s, NEW c, Keeps(s, c), Apart(c)
  PROVE  /\ \A x : x \in SliceAddresses(s) <=>
                     x \in SliceAddresses(c) /\ Served(s, <<x[1].ns, x[1].service>>)
         /\ \A x : x \in LegacyAddresses(s) <=> x \in LegacyAddresses(c) /\ Served(s, Key(x[1]))
<1>1. \A sl \in s.slices : \A e \in sl.endpoints : \A a \in e.addresses :
        PodBehind(s.pods, sl.ns, e.target, a) = PodBehind(c.pods, sl.ns, e.target, a)
  BY DEF Keeps, SameBehind
<1>2. \A e \in s.endpoints : \A sub \in e.subsets : \A a \in sub.addresses :
        PodBehind(s.pods, e.ns, a.target, a.ip) = PodBehind(c.pods, e.ns, a.target, a.ip)
  BY DEF Keeps, SameBehind
<1>3. ManualSlices(s) \subseteq s.slices /\ ManualEndpoints(s) \subseteq s.endpoints
  BY DEF ManualSlices, ManualEndpoints
<1>4. ASSUME NEW x
      PROVE  x \in SliceAddresses(s) <=>
               x \in SliceAddresses(c) /\ Served(s, <<x[1].ns, x[1].service>>)
  <2>1. ASSUME x \in SliceAddresses(s)
        PROVE  x \in SliceAddresses(c) /\ Served(s, <<x[1].ns, x[1].service>>)
    <3>1. PICK sl \in ManualSlices(s) : \E e \in sl.endpoints : \E a \in e.addresses :
            x = <<sl, e, a>> /\ PodBehind(s.pods, sl.ns, e.target, a) = {}
      BY <2>1, SliceAddressesAre
    <3>2. sl \in ManualSlices(c) /\ Served(s, <<sl.ns, sl.service>>)
      BY SameManual
    <3>3. QED
      BY <1>1, <1>3, <3>1, <3>2, SliceAddressesAre
  <2>2. ASSUME x \in SliceAddresses(c), Served(s, <<x[1].ns, x[1].service>>)
        PROVE  x \in SliceAddresses(s)
    <3>1. PICK sl \in ManualSlices(c) : \E e \in sl.endpoints : \E a \in e.addresses :
            x = <<sl, e, a>> /\ PodBehind(c.pods, sl.ns, e.target, a) = {}
      BY <2>2, SliceAddressesAre
    <3>2. sl \in ManualSlices(s)
      BY <2>2, <3>1, SameManual
    <3>3. QED
      BY <1>1, <1>3, <3>1, <3>2, SliceAddressesAre
  <2>3. QED
    BY <2>1, <2>2
<1>5. ASSUME NEW x
      PROVE  x \in LegacyAddresses(s) <=> x \in LegacyAddresses(c) /\ Served(s, Key(x[1]))
  <2>1. ASSUME x \in LegacyAddresses(s)
        PROVE  x \in LegacyAddresses(c) /\ Served(s, Key(x[1]))
    <3>1. PICK e \in ManualEndpoints(s) : \E sub \in e.subsets : \E a \in sub.addresses :
            x = <<e, a>> /\ PodBehind(s.pods, e.ns, a.target, a.ip) = {}
      BY <2>1, LegacyAddressesAre
    <3>2. e \in ManualEndpoints(c) /\ Served(s, Key(e))
      BY SameManual
    <3>3. QED
      BY <1>2, <1>3, <3>1, <3>2, LegacyAddressesAre
  <2>2. ASSUME x \in LegacyAddresses(c), Served(s, Key(x[1]))
        PROVE  x \in LegacyAddresses(s)
    <3>1. PICK e \in ManualEndpoints(c) : \E sub \in e.subsets : \E a \in sub.addresses :
            x = <<e, a>> /\ PodBehind(c.pods, e.ns, a.target, a.ip) = {}
      BY <2>2, LegacyAddressesAre
    <3>2. e \in ManualEndpoints(s)
      BY <2>2, <3>1, SameManual
    <3>3. QED
      BY <1>2, <1>3, <3>1, <3>2, LegacyAddressesAre
  <2>3. QED
    BY <2>1, <2>2
<1>6. QED
  BY <1>4, <1>5

LEMMA SameEndpoints ==
  ASSUME NEW s, NEW c, Keeps(s, c), Apart(c)
  PROVE  /\ \A x : x \in SliceEndpoints(s) <=>
                     x \in SliceEndpoints(c) /\ Served(s, <<x[1].ns, x[1].service>>)
         /\ \A x : x \in LegacyEndpoints(s) <=> x \in LegacyEndpoints(c) /\ Served(s, Key(x[1]))
BY SameAddresses DEF SliceEndpoints, LegacyEndpoints

SliceNodes(c) == Drawn(SliceEndpoints(c), LAMBDA x : SliceEndpointID(x[1], x[3]),
                       LAMBDA x : ShowEndpoint("EndpointSlice", Usable(x[2])))
LegacyNodes(c) == Drawn(LegacyEndpoints(c), LAMBDA x : EndpointID(x[1], x[2].ip),
                        LAMBDA x : ShowEndpoint("Endpoint", x[2].ready))

LEMMA SliceNodesPart ==
  ASSUME NEW s, NEW c, Keeps(s, c), Apart(c)
  PROVE  PartMap(SliceNodes(s), SliceNodes(c))
<1> DEFINE of(d, n) == CHOOSE x \in SliceEndpoints(d) : SliceEndpointID(x[1], x[3]) = n
           drawn(d) == [n \in SliceEndpointIDs(d) |->
                          ShowEndpoint("EndpointSlice", Usable(of(d, n)[2]))]
<1>1. SliceEndpointIDs(s) \subseteq SliceEndpointIDs(c)
  BY SameEndpoints DEF SliceEndpointIDs
<1>2. ASSUME NEW n \in SliceEndpointIDs(s) PROVE of(s, n) = of(c, n)
  <2>1. PICK y \in SliceEndpoints(s) : n = SliceEndpointID(y[1], y[3])
    BY DEF SliceEndpointIDs
  <2>2. Served(s, <<y[1].ns, y[1].service>>)
    BY SameEndpoints
  <2>3. ASSUME NEW x, SliceEndpointID(x[1], x[3]) = n PROVE Served(s, <<x[1].ns, x[1].service>>)
    BY <2>1, <2>2, <2>3 DEF SliceEndpointID
  <2>4. \A x : x \in SliceEndpoints(s) /\ SliceEndpointID(x[1], x[3]) = n
                 <=> x \in SliceEndpoints(c) /\ SliceEndpointID(x[1], x[3]) = n
    BY <2>3, SameEndpoints
  <2>5. QED
    BY <2>4, Zenon
<1> HIDE DEF of
<1>3. PartMap(drawn(s), drawn(c))
  BY <1>1, <1>2 DEF PartMap
<1>4. \A d : SliceNodes(d) = drawn(d)
  BY DEF SliceNodes, Drawn, of, SliceEndpointIDs
<1> HIDE DEF drawn
<1>5. QED
  BY <1>3, <1>4

LEMMA LegacyNodesPart ==
  ASSUME NEW s, NEW c, Keeps(s, c), Apart(c)
  PROVE  PartMap(LegacyNodes(s), LegacyNodes(c))
<1> DEFINE of(d, n) == CHOOSE x \in LegacyEndpoints(d) : EndpointID(x[1], x[2].ip) = n
           drawn(d) == [n \in LegacyEndpointIDs(d) |->
                          ShowEndpoint("Endpoint", of(d, n)[2].ready)]
<1>1. LegacyEndpointIDs(s) \subseteq LegacyEndpointIDs(c)
  BY SameEndpoints DEF LegacyEndpointIDs
<1>2. ASSUME NEW n \in LegacyEndpointIDs(s) PROVE of(s, n) = of(c, n)
  <2>1. PICK y \in LegacyEndpoints(s) : n = EndpointID(y[1], y[2].ip)
    BY DEF LegacyEndpointIDs
  <2>2. Served(s, Key(y[1]))
    BY SameEndpoints
  <2>3. ASSUME NEW x, EndpointID(x[1], x[2].ip) = n PROVE Served(s, Key(x[1]))
    BY <2>1, <2>2, <2>3 DEF EndpointID, Key
  <2>4. \A x : x \in LegacyEndpoints(s) /\ EndpointID(x[1], x[2].ip) = n
                 <=> x \in LegacyEndpoints(c) /\ EndpointID(x[1], x[2].ip) = n
    BY <2>3, SameEndpoints
  <2>5. QED
    BY <2>4, Zenon
<1> HIDE DEF of
<1>3. PartMap(drawn(s), drawn(c))
  BY <1>1, <1>2 DEF PartMap
<1>4. \A d : LegacyNodes(d) = drawn(d)
  BY DEF LegacyNodes, Drawn, of, LegacyEndpointIDs
<1> HIDE DEF drawn
<1>5. QED
  BY <1>3, <1>4

LEMMA EndpointNodesPart ==
  ASSUME NEW s, NEW c, Keeps(s, c), Apart(c)
  PROVE  PartMap(EndpointNodes(s), EndpointNodes(c))
<1> DEFINE f1(d) == SliceNodes(d)
           f2(d) == LegacyNodes(d)
           fs == <<f1(s), f2(s)>>
           gs == <<f1(c), f2(c)>>
<1>1. EndpointNodes(s) = Merge(fs) /\ EndpointNodes(c) = Merge(gs)
  BY DEF EndpointNodes, SliceNodes, LegacyNodes
<1>2. PartMap(f1(s), f1(c)) /\ PartMap(f2(s), f2(c))
  BY SliceNodesPart, LegacyNodesPart
<1>3. \A d : DOMAIN f1(d) = SliceEndpointIDs(d) /\ DOMAIN f2(d) = LegacyEndpointIDs(d)
  BY DEF SliceNodes, LegacyNodes, Drawn, SliceEndpointIDs, LegacyEndpointIDs
<1>4. \A d : /\ \A n \in SliceEndpointIDs(d) : n[1] = "EndpointSlice"
             /\ \A n \in LegacyEndpointIDs(d) : n[1] = "Endpoint"
  BY Heads DEF SliceEndpointIDs, LegacyEndpointIDs
<1>5. ASSUME NEW n \in SliceEndpointIDs(s) \cup LegacyEndpointIDs(s)
      PROVE  /\ n \in SliceEndpointIDs(c) => n \in SliceEndpointIDs(s)
             /\ n \in LegacyEndpointIDs(c) => n \in LegacyEndpointIDs(s)
  BY <1>4
<1> HIDE DEF f1, f2
<1>6. DOMAIN fs = 1 .. 2 /\ DOMAIN gs = 1 .. 2 /\ 2 \in Nat
  OBVIOUS
<1>7. /\ fs[1] = f1(s) /\ fs[2] = f2(s) /\ gs[1] = f1(c) /\ gs[2] = f2(c)
      /\ \A k \in 1 .. 2 : k = 1 \/ k = 2
  OBVIOUS
<1>8. \A n : n \in DOMAIN Merge(fs) <=> n \in DOMAIN f1(s) \/ n \in DOMAIN f2(s)
  BY Merged2
<1> HIDE DEF fs, gs
<1>9. \A k \in 1 .. 2 : PartMap(fs[k], gs[k])
  BY <1>2, <1>7
<1>10. \A n \in DOMAIN Merge(fs) : \A k \in 1 .. 2 : n \in DOMAIN gs[k] => n \in DOMAIN fs[k]
  BY <1>3, <1>5, <1>7, <1>8
<1>11. PartMap(Merge(fs), Merge(gs))
  BY <1>6, <1>9, <1>10, MergedParts
<1>12. QED
  BY <1>1, <1>11

\* The parts of an ID keep the addresses of Endpoints apart from the targets of
\* Services of type ExternalName.
LEMMA EndpointsApart ==
  ASSUME NEW c, NEW d
  PROVE  \A n \in ExternalNameIDs(c) : n \notin LegacyEndpointIDs(d)
<1>1. \A svc, e, a : ExternalNameID(svc) # EndpointID(e, a)
  BY DEF ExternalNameID, EndpointID
<1>2. QED
  BY <1>1 DEF ExternalNameIDs, LegacyEndpointIDs

LEMMA FamilyHeads ==
  ASSUME NEW c
  PROVE  /\ \A n \in ControllerIDs(c) : n[1] = "Controller"
         /\ \A n \in WorkloadIDs(c) : n[1] \in {"Node", "Pod", "Service", "Endpoint"}
         /\ \A n \in ExposureIDs(c) : n[1] \in {"LoadBalancer", "NodePort"}
         /\ \A n \in AllIngressIDs(c) : n[1] \in {"Ingress", "Route", "DNS", "LoadBalancer"}
         /\ \A n \in ExternalIDs(c) :
              n[1] \in {"Controller", "Gateway", "Route", "LoadBalancer", "DNS"}
         /\ \A n \in AllEndpointIDs(c) : n[1] \in {"EndpointSlice", "Endpoint"}
<1>1. \A n \in WorkloadIDs(c) : n[1] \in {"Node", "Pod", "Service", "Endpoint"}
  BY Heads DEF WorkloadIDs, HostIDs, PodIDs, ServiceIDs, ExternalNameIDs
<1>2. \A n \in ExposureIDs(c) : n[1] \in {"LoadBalancer", "NodePort"}
  BY Heads DEF ExposureIDs, BalancerIDs, NodePortIDs
<1>3. \A n \in AllIngressIDs(c) : n[1] \in {"Ingress", "Route", "DNS", "LoadBalancer"}
  BY Heads DEF AllIngressIDs, IngressIDs, IngressRouteIDs, IngressDnsIDs, IngressAddressIDs
<1>4. \A n \in ExternalIDs(c) : n[1] \in {"Controller", "Gateway", "Route", "LoadBalancer", "DNS"}
  BY Heads DEF ExternalIDs, GatewayClassIDs, GatewayIDs, RouteIDs, GatewayAddressIDs, F5IDs,
                ExternalDnsIDs
<1>5. \A n \in AllEndpointIDs(c) : n[1] \in {"EndpointSlice", "Endpoint"}
  BY Heads DEF AllEndpointIDs, SliceEndpointIDs, LegacyEndpointIDs
<1>6. QED
  BY <1>1, <1>2, <1>3, <1>4, <1>5, ControllerHeads

LEMMA SameFamilies ==
  ASSUME NEW s, NEW c, Keeps(s, c)
  PROVE  /\ ControllerIDs(s) = ControllerIDs(c) /\ ExposureIDs(s) = ExposureIDs(c)
         /\ AllIngressIDs(s) = AllIngressIDs(c) /\ ExternalIDs(s) = ExternalIDs(c)
<1>1. /\ ControllerNodes(s) = ControllerNodes(c) /\ ExposureNodes(s) = ExposureNodes(c)
      /\ IngressNodes(s) = IngressNodes(c) /\ ExternalNodes(s) = ExternalNodes(c)
  BY SameControllerNodes, SameExposureNodes, SameIngressNodes, SameExternalNodes
<1>2. \A d : /\ DOMAIN ControllerNodes(d) = ControllerIDs(d)
             /\ DOMAIN ExposureNodes(d) = ExposureIDs(d)
             /\ DOMAIN IngressNodes(d) = AllIngressIDs(d)
             /\ DOMAIN ExternalNodes(d) = ExternalIDs(d)
  BY ControllerNodesAre, ExposureNodesAre, IngressNodesAre, ExternalNodesAre
     DEF ControllerIDs, ExposureIDs, AllIngressIDs, ExternalIDs
<1>3. QED
  BY <1>1, <1>2

LEMMA BuildNodesPart ==
  ASSUME NEW s, NEW c, Keeps(s, c), Apart(c)
  PROVE  PartMap(Build(s).nodes, Build(c).nodes)
<1> DEFINE fs == <<ControllerNodes(s), WorkloadNodes(s), ExposureNodes(s),
                   IngressNodes(s), ExternalNodes(s), EndpointNodes(s)>>
           gs == <<ControllerNodes(c), WorkloadNodes(c), ExposureNodes(c),
                   IngressNodes(c), ExternalNodes(c), EndpointNodes(c)>>
<1>1. Build(s).nodes = Merge(fs) /\ Build(c).nodes = Merge(gs)
  BY DEF Build
<1>2. /\ ControllerNodes(s) = ControllerNodes(c) /\ ExposureNodes(s) = ExposureNodes(c)
      /\ IngressNodes(s) = IngressNodes(c) /\ ExternalNodes(s) = ExternalNodes(c)
  BY SameControllerNodes, SameExposureNodes, SameIngressNodes, SameExternalNodes
<1>3. /\ PartMap(WorkloadNodes(s), WorkloadNodes(c))
      /\ PartMap(EndpointNodes(s), EndpointNodes(c))
  BY WorkloadNodesPart, EndpointNodesPart
<1>4. \A d : /\ DOMAIN ControllerNodes(d) = ControllerIDs(d)
             /\ DOMAIN WorkloadNodes(d) = WorkloadIDs(d)
             /\ DOMAIN ExposureNodes(d) = ExposureIDs(d)
             /\ DOMAIN IngressNodes(d) = AllIngressIDs(d)
             /\ DOMAIN ExternalNodes(d) = ExternalIDs(d)
             /\ DOMAIN EndpointNodes(d) = AllEndpointIDs(d)
  BY ControllerNodesAre, WorkloadNodesAre, ExposureNodesAre, IngressNodesAre,
     ExternalNodesAre, EndpointNodesAre
     DEF ControllerIDs, WorkloadIDs, ExposureIDs, AllIngressIDs, ExternalIDs, AllEndpointIDs
<1>5. /\ fs[1] = ControllerNodes(s) /\ fs[2] = WorkloadNodes(s) /\ fs[3] = ExposureNodes(s)
      /\ fs[4] = IngressNodes(s) /\ fs[5] = ExternalNodes(s) /\ fs[6] = EndpointNodes(s)
      /\ gs[1] = ControllerNodes(c) /\ gs[2] = WorkloadNodes(c) /\ gs[3] = ExposureNodes(c)
      /\ gs[4] = IngressNodes(c) /\ gs[5] = ExternalNodes(c) /\ gs[6] = EndpointNodes(c)
      /\ \A k \in 1 .. 6 : k = 1 \/ k = 2 \/ k = 3 \/ k = 4 \/ k = 5 \/ k = 6
  OBVIOUS
<1>6. DOMAIN fs = 1 .. 6 /\ DOMAIN gs = 1 .. 6 /\ 6 \in Nat
  OBVIOUS
<1> HIDE DEF fs, gs
<1>7. \A n : n \in DOMAIN Merge(fs) <=> n \in NodeIDs(s)
  BY <1>1, BuildNodesAre
<1>8. ASSUME NEW n \in NodeIDs(s)
      PROVE  /\ n \in WorkloadIDs(c) => n \in WorkloadIDs(s)
             /\ n \in AllEndpointIDs(c) => n \in AllEndpointIDs(s)
  <2>1. /\ ControllerIDs(s) = ControllerIDs(c) /\ ExposureIDs(s) = ExposureIDs(c)
        /\ AllIngressIDs(s) = AllIngressIDs(c) /\ ExternalIDs(s) = ExternalIDs(c)
    BY SameFamilies
  <2>2. ASSUME n \in WorkloadIDs(c) PROVE n \in WorkloadIDs(s)
    <3>1. n \in WorkloadIDs(s) \/ n \in AllEndpointIDs(s)
      BY <2>2, FamilyHeads DEF NodeIDs
    <3>2. n \notin AllEndpointIDs(s)
      <4>1. CASE n \in ExternalNameIDs(c)
        BY <4>1, EndpointsApart, Heads DEF AllEndpointIDs, SliceEndpointIDs, ExternalNameIDs
      <4>2. CASE n \notin ExternalNameIDs(c)
        <5>1. n[1] \in {"Node", "Pod", "Service"}
          BY <2>2, <4>2, Heads DEF WorkloadIDs, HostIDs, PodIDs, ServiceIDs
        <5>2. QED
          BY <5>1, FamilyHeads
      <4>3. QED
        BY <4>1, <4>2
    <3>3. QED
      BY <3>1, <3>2
  <2>3. ASSUME n \in AllEndpointIDs(c) PROVE n \in AllEndpointIDs(s)
    <3>1. n \in WorkloadIDs(s) \/ n \in AllEndpointIDs(s)
      BY <2>3, FamilyHeads DEF NodeIDs
    <3>2. ASSUME n \in WorkloadIDs(s) PROVE FALSE
      <4>1. n \in ExternalNameIDs(s)
        <5>1. n[1] \in {"EndpointSlice", "Endpoint"}
          BY <2>3, FamilyHeads
        <5>2. QED
          BY <3>2, <5>1, Heads DEF WorkloadIDs, HostIDs, PodIDs, ServiceIDs
      <4>2. QED
        BY <2>3, <4>1, EndpointsApart, Heads DEF AllEndpointIDs, SliceEndpointIDs, ExternalNameIDs
    <3>3. QED
      BY <3>1, <3>2
  <2>4. QED
    BY <2>2, <2>3
<1>9. \A k \in 1 .. 6 : PartMap(fs[k], gs[k])
  BY <1>2, <1>3, <1>5 DEF PartMap
<1>10. \A n \in DOMAIN Merge(fs) : \A k \in 1 .. 6 : n \in DOMAIN gs[k] => n \in DOMAIN fs[k]
  BY <1>2, <1>4, <1>5, <1>7, <1>8
<1>11. PartMap(Merge(fs), Merge(gs))
  BY <1>6, <1>9, <1>10, MergedParts
<1>12. QED
  BY <1>1, <1>11

-----------------------------------------------------------------------------
(* The edges of what is left.                                              *)

LEMMA WorkloadLabels ==
  ASSUME NEW c, NEW e \in DOMAIN WorkloadEdges(c)
  PROVE  /\ e[3] = "hosts" => WorkloadEdges(c)[e] = "Node"
         /\ e[3] = "externalname" => WorkloadEdges(c)[e] = "ExternalName"
         /\ e[3] = "selects" => WorkloadEdges(c)[e] = "Selector"
         /\ e[3] \in {"hosts", "externalname", "selects"}
<1> DEFINE f1 == Linked({<<HostID(p.node), PodID(p), "hosts">> :
                           p \in {q \in ToSet(c.pods) : q.node \in c.nodes}}, "Node")
           f2 == Linked({<<ServiceID(svc), ExternalNameID(svc), "externalname">> :
                           svc \in ExternalNames(c)}, "ExternalName")
           f3 == Linked({<<ServiceID(x[1]), PodID(x[2]), "selects">> : x \in Selected(c)},
                        "Selector")
           fs == <<f1, f2, f3>>
<1>1. WorkloadEdges(c) = Merge(fs)
  BY DEF WorkloadEdges, Selected
<1>2. \A x \in DOMAIN f1 : x[3] = "hosts" /\ f1[x] = "Node"
  BY DEF Linked
<1>3. \A x \in DOMAIN f2 : x[3] = "externalname" /\ f2[x] = "ExternalName"
  BY DEF Linked
<1>4. \A x \in DOMAIN f3 : x[3] = "selects" /\ f3[x] = "Selector"
  BY DEF Linked
<1> HIDE DEF f1, f2, f3
<1>5. /\ DOMAIN fs = 1 .. 3 /\ 3 \in Nat /\ fs[1] = f1 /\ fs[2] = f2 /\ fs[3] = f3
      /\ \A k \in 1 .. 3 : k = 1 \/ k = 2 \/ k = 3
  OBVIOUS
<1> HIDE DEF fs
<1>6. MergeOf(Merge(fs), fs, 3)
  BY <1>5, Merged
<1>7. PICK k \in 1 .. 3 : e \in DOMAIN fs[k] /\ Merge(fs)[e] = fs[k][e]
  BY <1>1, <1>6 DEF MergeOf
<1>8. QED
  BY <1>1, <1>2, <1>3, <1>4, <1>5, <1>7

LEMMA EndpointLabels ==
  ASSUME NEW c, NEW e \in DOMAIN EndpointEdges(c)
  PROVE  /\ e[3] = "endpointslice" => EndpointEdges(c)[e] = "EndpointSlice"
         /\ e[3] = "endpoint" => EndpointEdges(c)[e] = "Endpoints"
         /\ e[3] \in {"endpointslice", "endpoint"}
<1> DEFINE f1 == Linked({<<SliceServiceID(x[1]), PodID(x[2]), "endpointslice">> :
                           x \in SlicePairs(c)}
                    \cup {<<SliceServiceID(x[1]), SliceEndpointID(x[1], x[3]),
                            "endpointslice">> : x \in SliceAddresses(c)}, "EndpointSlice")
           f2 == Linked({<<EndpointServiceID(x[1]), PodID(x[2]), "endpoint">> :
                           x \in EndpointPairs(c)}
                    \cup {<<EndpointServiceID(x[1]), EndpointID(x[1], x[2].ip), "endpoint">> :
                            x \in LegacyAddresses(c)}, "Endpoints")
           fs == <<f1, f2>>
<1>1. EndpointEdges(c) = Merge(fs)
  BY DEF EndpointEdges, SlicePairs, EndpointPairs, SliceServiceID, EndpointServiceID
<1>2. \A x \in DOMAIN f1 : x[3] = "endpointslice" /\ f1[x] = "EndpointSlice"
  BY DEF Linked
<1>3. \A x \in DOMAIN f2 : x[3] = "endpoint" /\ f2[x] = "Endpoints"
  BY DEF Linked
<1> HIDE DEF f1, f2
<1>4. /\ DOMAIN fs = 1 .. 2 /\ 2 \in Nat /\ fs[1] = f1 /\ fs[2] = f2
      /\ \A k \in 1 .. 2 : k = 1 \/ k = 2
  OBVIOUS
<1> HIDE DEF fs
<1>5. MergeOf(Merge(fs), fs, 2)
  BY <1>4, Merged
<1>6. PICK k \in 1 .. 2 : e \in DOMAIN fs[k] /\ Merge(fs)[e] = fs[k][e]
  BY <1>1, <1>5 DEF MergeOf
<1>7. QED
  BY <1>1, <1>2, <1>3, <1>4, <1>6

LEMMA SameWorkloadEdges ==
  ASSUME NEW s, NEW c, Keeps(s, c), Apart(c), NEW e
  PROVE  /\ HostsEdge(s, e) <=> HostsEdge(c, e) /\ e[2] \in PodIDs(s)
         /\ ExternalNameEdge(s, e) <=> ExternalNameEdge(c, e) /\ e[1] \in ServiceIDs(s)
         /\ SelectsEdge(s, e) <=> SelectsEdge(c, e) /\ e[1] \in ServiceIDs(s)
<1>1. /\ s.nodes \subseteq c.nodes /\ ToSet(s.pods) \subseteq ToSet(c.pods)
      /\ s.services \subseteq c.services
      /\ \A p \in ToSet(s.pods) : p.node \in c.nodes => p.node \in s.nodes
  BY DEF Keeps, SameExposures
<1>2. \A p \in ToSet(c.pods) : PodID(p) \in PodIDs(s) <=> p \in ToSet(s.pods)
  BY <1>1, SameID DEF PodIDs, Apart
<1>3. \A svc \in c.services : ServiceID(svc) \in ServiceIDs(s) <=> svc \in s.services
  BY <1>1, SameID DEF ServiceIDs, Apart
<1>4. HostsEdge(s, e) <=> HostsEdge(c, e) /\ e[2] \in PodIDs(s)
  BY <1>1, <1>2 DEF HostsEdge
<1>5. ExternalNameEdge(s, e) <=> ExternalNameEdge(c, e) /\ e[1] \in ServiceIDs(s)
  BY <1>1, <1>3 DEF ExternalNameEdge, ExternalNames
<1>6. \A x : x \in Selected(s) <=> x \in Selected(c) /\ x[1] \in s.services
  <2>1. \A svc \in s.services : PodsOf(svc, s.pods) = PodsOf(svc, c.pods)
    BY DEF Keeps, SameExposures
  <2>2. \A d : \A x : x \in Selected(d) <=>
          \E svc \in d.services : \E p \in PodsOf(svc, d.pods) : x = <<svc, p>>
    BY DEF Selected, PairsOf
  <2>3. QED
    BY <1>1, <2>1, <2>2
<1>7. \A x \in Selected(c) : x[1] \in c.services
  BY DEF Selected, PairsOf
<1>8. SelectsEdge(s, e) <=> SelectsEdge(c, e) /\ e[1] \in ServiceIDs(s)
  BY <1>3, <1>6, <1>7 DEF SelectsEdge
<1>9. QED
  BY <1>4, <1>5, <1>8

LEMMA ServedAre ==
  ASSUME NEW s
  PROVE  \A ns, name : Served(s, <<ns, name>>) <=> <<"Service", ns, <<name>>>> \in ServiceIDs(s)
BY DEF Served, ServiceIDs, ServiceID, ID, Key

LEMMA SameEndpointEdges ==
  ASSUME NEW s, NEW c, Keeps(s, c), Apart(c), NEW e
  PROVE  /\ SliceEdge(s, e) <=> SliceEdge(c, e) /\ e[1] \in ServiceIDs(s)
         /\ EndpointEdge(s, e) <=> EndpointEdge(c, e) /\ e[1] \in ServiceIDs(s)
<1>1. /\ \A x : Served(s, <<x.ns, x.service>>) <=> SliceServiceID(x) \in ServiceIDs(s)
      /\ \A x : Served(s, Key(x)) <=> EndpointServiceID(x) \in ServiceIDs(s)
  BY ServedAre DEF SliceServiceID, EndpointServiceID, Key
<1>2. ManualSlices(s) \subseteq s.slices /\ ManualEndpoints(s) \subseteq s.endpoints
  BY DEF ManualSlices, ManualEndpoints
<1>3. \A x : x \in SlicePairs(s) <=> x \in SlicePairs(c) /\ SliceServiceID(x[1]) \in ServiceIDs(s)
  <2>1. \A d : \A x : x \in SlicePairs(d) <=>
          \E sl \in ManualSlices(d) : \E p \in SlicePods(d.pods, sl) : x = <<sl, p>>
    BY DEF SlicePairs, PairsOf
  <2>2. \A sl \in ManualSlices(s) : SlicePods(s.pods, sl) = SlicePods(c.pods, sl)
    BY <1>2, SameSlicePods
  <2>3. \A sl : sl \in ManualSlices(s) <=>
                  sl \in ManualSlices(c) /\ SliceServiceID(sl) \in ServiceIDs(s)
    BY <1>1, SameManual
  <2>4. QED
    BY <2>1, <2>2, <2>3
<1>4. \A x : x \in EndpointPairs(s) <=>
               x \in EndpointPairs(c) /\ EndpointServiceID(x[1]) \in ServiceIDs(s)
  <2>1. \A d : \A x : x \in EndpointPairs(d) <=>
          \E y \in ManualEndpoints(d) : \E p \in EndpointPods(d.pods, y) : x = <<y, p>>
    BY DEF EndpointPairs, PairsOf
  <2>2. \A y \in ManualEndpoints(s) : EndpointPods(s.pods, y) = EndpointPods(c.pods, y)
    BY <1>2, SameEndpointPods
  <2>3. \A y : y \in ManualEndpoints(s) <=>
                  y \in ManualEndpoints(c) /\ EndpointServiceID(y) \in ServiceIDs(s)
    BY <1>1, SameManual
  <2>4. QED
    BY <2>1, <2>2, <2>3
<1>5. \A x : x \in SliceAddresses(s) <=>
               x \in SliceAddresses(c) /\ SliceServiceID(x[1]) \in ServiceIDs(s)
  BY <1>1, SameAddresses
<1>6. \A x : x \in LegacyAddresses(s) <=>
               x \in LegacyAddresses(c) /\ EndpointServiceID(x[1]) \in ServiceIDs(s)
  BY <1>1, SameAddresses
<1>7. SliceEdge(s, e) <=> SliceEdge(c, e) /\ e[1] \in ServiceIDs(s)
  BY <1>3, <1>5 DEF SliceEdge
<1>8. EndpointEdge(s, e) <=> EndpointEdge(c, e) /\ e[1] \in ServiceIDs(s)
  BY <1>4, <1>6 DEF EndpointEdge
<1>9. QED
  BY <1>7, <1>8

LEMMA WorkloadEdgesPart ==
  ASSUME NEW s, NEW c, Keeps(s, c), Apart(c)
  PROVE  PartMap(WorkloadEdges(s), WorkloadEdges(c))
<1>1. ASSUME NEW e \in DOMAIN WorkloadEdges(s)
      PROVE  e \in DOMAIN WorkloadEdges(c) /\ WorkloadEdges(s)[e] = WorkloadEdges(c)[e]
  <2>1. e \in DOMAIN WorkloadEdges(c)
    BY SameWorkloadEdges, WorkloadEdgesAre
  <2>2. QED
    BY <2>1, WorkloadLabels
<1>2. QED
  BY <1>1 DEF PartMap

LEMMA EndpointEdgesPart ==
  ASSUME NEW s, NEW c, Keeps(s, c), Apart(c)
  PROVE  PartMap(EndpointEdges(s), EndpointEdges(c))
<1>1. ASSUME NEW e \in DOMAIN EndpointEdges(s)
      PROVE  e \in DOMAIN EndpointEdges(c) /\ EndpointEdges(s)[e] = EndpointEdges(c)[e]
  <2>1. e \in DOMAIN EndpointEdges(c)
    BY SameEndpointEdges, EndpointEdgesAre
  <2>2. QED
    BY <2>1, EndpointLabels
<1>2. QED
  BY <1>1 DEF PartMap

LEMMA OtherEdges ==
  ASSUME NEW c, NEW e,
         \/ e \in DOMAIN ExposureEdges(c) \/ e \in DOMAIN IngressEdges(c)
         \/ e \in DOMAIN ExternalEdges(c)
  PROVE  e[3] \notin {"hosts", "externalname", "selects", "endpointslice", "endpoint"}
<1>1. \/ ExposesEdge(c, e) \/ ForwardsEdge(c, e) \/ BalancesEdge(c, e)
      \/ ControlsEdge(c, e) \/ IngressResolvesEdge(c, e) \/ IngressFrontsEdge(c, e)
      \/ DefinesEdge(c, e) \/ IngressRoutesEdge(c, e) \/ CanaryEdge(c, e)
      \/ ClassControlsEdge(c, e) \/ GatewayFrontsEdge(c, e) \/ AttachesEdge(c, e)
      \/ BackendEdge(c, e) \/ F5Edge(c, e) \/ ExternalResolvesEdge(c, e)
  BY ExposureEdgesAre, IngressEdgesAre, ExternalEdgesAre
<1>2. QED
  BY <1>1, KindsOfEdges

\* What a Service, a pod or a controller of what is left is drawn with, and
\* each edge between those.
LEMMA BuildEdgesPart ==
  ASSUME NEW s, NEW c, Keeps(s, c), Apart(c),
         CanaryEdges(s, OverlapRoutes(s)) = CanaryEdges(c, OverlapRoutes(c))
  PROVE  /\ PartMap(Build(s).edges, Build(c).edges)
         /\ \A e \in DOMAIN Build(c).edges :
              \/ e \in DOMAIN Build(s).edges
              \/ e[3] = "hosts" /\ e[2] \notin PodIDs(s)
              \/ /\ e[3] \in {"externalname", "selects", "endpointslice", "endpoint"}
                 /\ e[1] \notin ServiceIDs(s)
<1> DEFINE fs == <<WorkloadEdges(s), ExposureEdges(s), IngressEdges(s),
                   ExternalEdges(s), EndpointEdges(s)>>
           gs == <<WorkloadEdges(c), ExposureEdges(c), IngressEdges(c),
                   ExternalEdges(c), EndpointEdges(c)>>
<1>1. Build(s).edges = Merge(fs) /\ Build(c).edges = Merge(gs)
  BY DEF Build
<1>2. /\ ExposureEdges(s) = ExposureEdges(c) /\ IngressEdges(s) = IngressEdges(c)
      /\ ExternalEdges(s) = ExternalEdges(c)
  BY SameExposureEdges, SameIngressEdges, SameExternalEdges
<1>3. /\ PartMap(WorkloadEdges(s), WorkloadEdges(c))
      /\ PartMap(EndpointEdges(s), EndpointEdges(c))
  BY WorkloadEdgesPart, EndpointEdgesPart
<1>4. \A d : /\ \A e \in DOMAIN WorkloadEdges(d) : e[3] \in {"hosts", "externalname", "selects"}
             /\ \A e \in DOMAIN EndpointEdges(d) : e[3] \in {"endpointslice", "endpoint"}
  BY WorkloadLabels, EndpointLabels
<1>5. /\ fs[1] = WorkloadEdges(s) /\ fs[2] = ExposureEdges(s) /\ fs[3] = IngressEdges(s)
      /\ fs[4] = ExternalEdges(s) /\ fs[5] = EndpointEdges(s)
      /\ gs[1] = WorkloadEdges(c) /\ gs[2] = ExposureEdges(c) /\ gs[3] = IngressEdges(c)
      /\ gs[4] = ExternalEdges(c) /\ gs[5] = EndpointEdges(c)
      /\ \A k \in 1 .. 5 : k = 1 \/ k = 2 \/ k = 3 \/ k = 4 \/ k = 5
  OBVIOUS
<1>6. DOMAIN fs = 1 .. 5 /\ DOMAIN gs = 1 .. 5 /\ 5 \in Nat
  OBVIOUS
<1> HIDE DEF fs, gs
<1>7. ASSUME NEW e \in DOMAIN Build(s).edges
      PROVE  /\ e \in DOMAIN WorkloadEdges(c) => e \in DOMAIN WorkloadEdges(s)
             /\ e \in DOMAIN EndpointEdges(c) => e \in DOMAIN EndpointEdges(s)
  <2>1. \/ e \in DOMAIN WorkloadEdges(s) \/ e \in DOMAIN EndpointEdges(s)
        \/ e[3] \notin {"hosts", "externalname", "selects", "endpointslice", "endpoint"}
    BY BuildEdgesAre, OtherEdges
  <2>2. QED
    BY <1>4, <2>1
<1>8. \A k \in 1 .. 5 : PartMap(fs[k], gs[k])
  BY <1>2, <1>3, <1>5 DEF PartMap
<1>9. \A e \in DOMAIN Merge(fs) : \A k \in 1 .. 5 : e \in DOMAIN gs[k] => e \in DOMAIN fs[k]
  BY <1>1, <1>2, <1>5, <1>7
<1>10. PartMap(Merge(fs), Merge(gs))
  BY <1>6, <1>8, <1>9, MergedParts
<1>11. ASSUME NEW e \in DOMAIN Build(c).edges
       PROVE  \/ e \in DOMAIN Build(s).edges
              \/ e[3] = "hosts" /\ e[2] \notin PodIDs(s)
              \/ /\ e[3] \in {"externalname", "selects", "endpointslice", "endpoint"}
                 /\ e[1] \notin ServiceIDs(s)
  <2>1. CASE e \in DOMAIN WorkloadEdges(c)
    <3>1. HostsEdge(c, e) \/ ExternalNameEdge(c, e) \/ SelectsEdge(c, e)
      BY <2>1, WorkloadEdgesAre
    <3>2. \/ e \in DOMAIN WorkloadEdges(s)
          \/ HostsEdge(c, e) /\ e[2] \notin PodIDs(s)
          \/ (ExternalNameEdge(c, e) \/ SelectsEdge(c, e)) /\ e[1] \notin ServiceIDs(s)
      BY <3>1, SameWorkloadEdges, WorkloadEdgesAre
    <3>3. QED
      BY <3>2, KindsOfEdges, BuildEdgesAre
  <2>2. CASE e \in DOMAIN EndpointEdges(c)
    <3>1. SliceEdge(c, e) \/ EndpointEdge(c, e)
      BY <2>2, EndpointEdgesAre
    <3>2. \/ e \in DOMAIN EndpointEdges(s)
          \/ (SliceEdge(c, e) \/ EndpointEdge(c, e)) /\ e[1] \notin ServiceIDs(s)
      BY <3>1, SameEndpointEdges, EndpointEdgesAre
    <3>3. QED
      BY <3>2, KindsOfEdges, BuildEdgesAre
  <2>3. CASE \/ e \in DOMAIN ExposureEdges(c) \/ e \in DOMAIN IngressEdges(c)
             \/ e \in DOMAIN ExternalEdges(c)
    BY <1>2, <2>3, BuildEdgesAre
  <2>4. QED
    BY <2>1, <2>2, <2>3, BuildEdgesAre
<1>12. QED
  BY <1>1, <1>10, <1>11
=============================================================================
