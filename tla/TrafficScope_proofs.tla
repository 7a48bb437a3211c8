------------------------ MODULE TrafficScope_proofs ------------------------
(***************************************************************************)
(* Proofs about TrafficScope: the queue of ingressScopedSnapshot           *)
(* (snapshot.go) visits exactly the nodes that can be reached from the     *)
(* roots, for any graph with finitely many nodes.                          *)
(***************************************************************************)
EXTENDS TrafficScope, FiniteSetTheorems, WellFoundedInduction, TLAPS

-----------------------------------------------------------------------------
(* What the loop of ingressScopedSnapshot computes.                        *)

Ids(graph) == DOMAIN graph.nodes
Roots(graph) == {n \in Ids(graph) : Root(graph.nodes[n])}

\* The nodes that a set of nodes leads to.
Leads(graph, S) == (UNION {Neighbors(graph, n) : n \in S}) \cap Ids(graph)

\* A set of nodes that leads out of itself only to what was visited.
Closed(graph, S, visited) == Leads(graph, S) \ visited \subseteq S

\* One round of the loop: what is visited and what is in the queue.
Rounds(graph) == (SUBSET Ids(graph)) \X (SUBSET Ids(graph))
Round(graph, visit, s) ==
  IF s[2] = {} THEN s[1]
  ELSE LET found == Leads(graph, s[2]) \ s[1]
       IN  visit[<<s[1] \cup found, found>>]

\* What is still found from a round on: the least set with what the queue
\* leads to and with all that it leads to itself.
Ahead(graph, s) ==
  {n \in Ids(graph) :
     \A S \in SUBSET Ids(graph) :
       (Leads(graph, s[2]) \ s[1] \subseteq S /\ Closed(graph, S, s[1])) => n \in S}

LEMMA LeadsOfUnion ==
  ASSUME NEW graph, NEW S, NEW T
  PROVE  Leads(graph, S \cup T) = Leads(graph, S) \cup Leads(graph, T)
BY DEF Leads

LEMMA LeadsOfSubset ==
  ASSUME NEW graph, NEW T, NEW S \in SUBSET T
  PROVE  Leads(graph, S) \subseteq Leads(graph, T)
BY DEF Leads

LEMMA LeadsType ==
  ASSUME NEW graph, NEW S
  PROVE  Leads(graph, S) \subseteq Ids(graph)
BY DEF Leads

LEMMA AheadIs ==
  ASSUME NEW graph, NEW s \in Rounds(graph)
  PROVE  /\ Ahead(graph, s) \in SUBSET Ids(graph)
         /\ Leads(graph, s[2]) \ s[1] \subseteq Ahead(graph, s)
         /\ Closed(graph, Ahead(graph, s), s[1])
<1> DEFINE A == Ahead(graph, s)
<1>1. A \in SUBSET Ids(graph)
  BY DEF Ahead
<1>2. Leads(graph, s[2]) \ s[1] \subseteq A
  BY LeadsType DEF Ahead
<1>3. Closed(graph, A, s[1])
  <2> SUFFICES ASSUME NEW n \in Leads(graph, A), n \notin s[1],
                      NEW S \in SUBSET Ids(graph),
                      Leads(graph, s[2]) \ s[1] \subseteq S, Closed(graph, S, s[1])
               PROVE  n \in S
    BY LeadsType DEF Closed, Ahead
  <2>1. A \subseteq S
    BY DEF Ahead
  <2>2. Leads(graph, A) \subseteq Leads(graph, S)
    BY <2>1, LeadsOfSubset
  <2>3. QED
    BY <2>2 DEF Closed
<1>4. QED
  BY <1>1, <1>2, <1>3

\* A round does not change what is visited in the end.
LEMMA AheadOfRound ==
  ASSUME NEW graph, NEW s \in Rounds(graph)
  PROVE  LET found == Leads(graph, s[2]) \ s[1]
             next == <<s[1] \cup found, found>>
         IN  /\ next \in Rounds(graph)
             /\ s[1] \cup Ahead(graph, s) = next[1] \cup Ahead(graph, next)
<1> DEFINE found == Leads(graph, s[2]) \ s[1]
           next == <<s[1] \cup found, found>>
<1>1. s[1] \in SUBSET Ids(graph) /\ found \in SUBSET Ids(graph)
  BY LeadsType DEF Rounds
<1>2. next \in Rounds(graph) /\ next[1] = s[1] \cup found /\ next[2] = found
  BY <1>1 DEF Rounds
<1>3. /\ Ahead(graph, s) \in SUBSET Ids(graph)
      /\ found \subseteq Ahead(graph, s)
      /\ Closed(graph, Ahead(graph, s), s[1])
  BY AheadIs
<1>4. /\ Ahead(graph, next) \in SUBSET Ids(graph)
      /\ Leads(graph, found) \ (s[1] \cup found) \subseteq Ahead(graph, next)
      /\ Closed(graph, Ahead(graph, next), s[1] \cup found)
  BY <1>2, AheadIs
<1> HIDE DEF found, next
<1>5. Ahead(graph, s) \subseteq found \cup Ahead(graph, next)
  <2> DEFINE S == found \cup Ahead(graph, next)
  <2>1. Closed(graph, S, s[1])
    BY <1>4, LeadsOfUnion DEF Closed
  <2>2. S \in SUBSET Ids(graph) /\ found \subseteq S
    BY <1>1, <1>4
  <2> HIDE DEF S
  <2>3. QED
    BY <2>1, <2>2 DEF Ahead, found, S
<1>6. Ahead(graph, next) \subseteq Ahead(graph, s)
  <2> DEFINE S == Ahead(graph, s) \ (s[1] \cup found)
  <2>1. Leads(graph, found) \subseteq Leads(graph, Ahead(graph, s))
    BY <1>3, LeadsOfSubset
  <2>2. Leads(graph, S) \subseteq Leads(graph, Ahead(graph, s))
    BY LeadsOfSubset
  <2>3. Leads(graph, found) \ (s[1] \cup found) \subseteq S
    BY <2>1, <1>3 DEF Closed
  <2>4. Closed(graph, S, s[1] \cup found)
    BY <2>2, <1>3 DEF Closed
  <2>5. S \in SUBSET Ids(graph)
    BY <1>3
  <2> HIDE DEF S
  <2>6. Ahead(graph, next) \subseteq S
    BY <1>2, <2>3, <2>4, <2>5 DEF Ahead
  <2>7. QED
    BY <2>6 DEF S
<1>7. s[1] \cup Ahead(graph, s) = next[1] \cup Ahead(graph, next)
  BY <1>2, <1>3, <1>5, <1>6
<1>8. QED
  BY <1>2, <1>7 DEF next, found

\* The function that the loop computes exists ...
LEMMA VisitExists ==
  ASSUME NEW graph
  PROVE  \E visit : visit = [s \in Rounds(graph) |-> Round(graph, visit, s)]
<1> DEFINE f == [s \in Rounds(graph) |-> s[1] \cup Ahead(graph, s)]
<1>1. ASSUME NEW s \in Rounds(graph)
      PROVE  f[s] = Round(graph, f, s)
  <2>1. CASE s[2] = {}
    <3>1. Leads(graph, s[2]) = {}
      BY <2>1 DEF Leads
    <3>2. Closed(graph, {}, s[1])
      BY DEF Closed, Leads
    <3>3. Ahead(graph, s) = {}
      BY <3>1, <3>2 DEF Ahead
    <3>4. QED
      BY <3>3, <2>1 DEF Round
  <2>2. CASE s[2] # {}
    BY <2>2, AheadOfRound DEF Round
  <2>3. QED
    BY <2>1, <2>2
<1>2. f = [s \in Rounds(graph) |-> Round(graph, f, s)]
  BY <1>1
<1>3. QED
  BY <1>2

\* ... and is the only one: each round but the last visits more nodes.
LEMMA VisitUnique ==
  ASSUME NEW graph, IsFiniteSet(Ids(graph)),
         NEW visit, visit = [s \in Rounds(graph) |-> Round(graph, visit, s)],
         NEW s \in Rounds(graph)
  PROVE  visit[s] = s[1] \cup Ahead(graph, s)
<1> DEFINE Right(r) == visit[r] = r[1] \cup Ahead(graph, r)
           Left == {Ids(graph) \ r[1] : r \in {q \in Rounds(graph) : ~Right(q)}}
<1>1. SUFFICES ASSUME Left # {} PROVE FALSE
  OBVIOUS
<1>2. Left \subseteq FiniteSubsetsOf(Ids(graph))
  <2>1. ASSUME NEW T \in SUBSET Ids(graph) PROVE IsFiniteSet(T)
    BY FS_Subset
  <2>2. QED
    BY <2>1 DEF FiniteSubsetsOf, Rounds
<1>3. PICK least \in Left : \A U \in Left : ~(<<U, least>> \in StrictSubsetOrdering(Ids(graph)))
  BY <1>1, <1>2, FS_StrictSubsetOrderingWellFounded, WFMin
<1>4. PICK r \in Rounds(graph) : ~Right(r) /\ least = Ids(graph) \ r[1]
  BY <1>3
<1> DEFINE found == Leads(graph, r[2]) \ r[1]
           next == <<r[1] \cup found, found>>
<1> HIDE DEF Left, Right
<1>5. /\ next \in Rounds(graph)
      /\ r[1] \cup Ahead(graph, r) = next[1] \cup Ahead(graph, next)
  BY AheadOfRound
<1>6. next[1] = r[1] \cup found /\ next[2] = found
  OBVIOUS
<1>7. visit[r] = Round(graph, visit, r) /\ visit[next] = Round(graph, visit, next)
  BY <1>5
<1>8. r[2] # {}
  <2>1. ASSUME r[2] = {} PROVE FALSE
    <3>1. visit[r] = r[1]
      BY <1>7, <2>1 DEF Round
    <3>2. Leads(graph, r[2]) = {} /\ Closed(graph, {}, r[1])
      BY <2>1 DEF Closed, Leads
    <3>3. Ahead(graph, r) = {}
      BY <3>2 DEF Ahead
    <3>4. QED
      BY <1>4, <3>1, <3>3 DEF Right
  <2>2. QED
    BY <2>1
<1>9. visit[r] = visit[next]
  BY <1>7, <1>8 DEF Round
<1>10. ~Right(next)
  BY <1>4, <1>5, <1>9 DEF Right
<1>11. found # {}
  <2>1. ASSUME found = {} PROVE FALSE
    <3>1. visit[next] = next[1]
      BY <1>6, <1>7, <2>1 DEF Round
    <3>2. Leads(graph, next[2]) = {} /\ Closed(graph, {}, next[1])
      BY <1>6, <2>1 DEF Closed, Leads
    <3>3. Ahead(graph, next) = {}
      BY <3>2 DEF Ahead
    <3>4. QED
      BY <1>10, <3>1, <3>3 DEF Right
  <2>2. QED
    BY <2>1
<1>12. found \subseteq Ids(graph) /\ found \cap r[1] = {} /\ r[1] \subseteq Ids(graph)
  BY LeadsType DEF Rounds
<1> HIDE DEF found, next
<1>13. Ids(graph) \ next[1] \in Left
  BY <1>5, <1>10 DEF Left
<1>14. /\ Ids(graph) \ next[1] \in SUBSET Ids(graph)
       /\ least \in SUBSET Ids(graph)
       /\ Ids(graph) \ next[1] \subseteq least
       /\ Ids(graph) \ next[1] # least
  BY <1>4, <1>6, <1>11, <1>12
<1>15. <<Ids(graph) \ next[1], least>> \in StrictSubsetOrdering(Ids(graph))
  BY <1>14 DEF StrictSubsetOrdering
<1>16. QED
  BY <1>3, <1>13, <1>15

\* What an edge of the kinds that are followed leads from n to.
Follows(graph, n, m) == m \in Neighbors(graph, n) /\ m \in Ids(graph)

\* What is kept is the least set that has every root and with a node all that
\* it leads to: nothing that traffic reaches is lost, whatever the order of
\* the queue, and nothing else is kept (snapshot.go:31-55).
THEOREM VisitedIsReachable ==
  ASSUME NEW graph, IsFiniteSet(Ids(graph))
  PROVE  /\ Visited(graph) \subseteq Ids(graph)
         /\ Roots(graph) \subseteq Visited(graph)
         /\ \A n \in Visited(graph) : \A m : Follows(graph, n, m) => m \in Visited(graph)
         /\ \A S : /\ Roots(graph) \subseteq S
                   /\ \A n \in S \cap Visited(graph) : \A m : Follows(graph, n, m) => m \in S
                   => Visited(graph) \subseteq S
<1> DEFINE start == <<Roots(graph), Roots(graph)>>
           visit == CHOOSE visit : visit = [s \in Rounds(graph) |-> Round(graph, visit, s)]
           V == Roots(graph) \cup Ahead(graph, start)
<1>1. visit = [s \in Rounds(graph) |-> Round(graph, visit, s)]
  BY VisitExists
<1>2. Roots(graph) \subseteq Ids(graph) /\ start \in Rounds(graph)
  BY DEF Roots, Rounds
<1> HIDE DEF visit
<1>3. visit[start] = start[1] \cup Ahead(graph, start)
  BY <1>1, <1>2, VisitUnique
<1>4. Visited(graph) = V
  <2>1. Visited(graph) = visit[start]
    BY DEF Visited, visit, start, Rounds, Round, Roots, Leads, Ids
  <2>2. QED
    BY <2>1, <1>3
<1>5. /\ Ahead(graph, start) \in SUBSET Ids(graph)
      /\ Leads(graph, Roots(graph)) \ Roots(graph) \subseteq Ahead(graph, start)
      /\ Closed(graph, Ahead(graph, start), Roots(graph))
  BY <1>2, AheadIs
<1>6. ASSUME NEW n \in V, NEW m, Follows(graph, n, m)
      PROVE  m \in V
  <2>1. n \in Roots(graph) => m \in Leads(graph, Roots(graph))
    BY <1>6 DEF Follows, Leads
  <2>2. n \in Ahead(graph, start) => m \in Leads(graph, Ahead(graph, start))
    BY <1>6 DEF Follows, Leads
  <2>3. QED
    BY <2>1, <2>2, <1>5 DEF Closed
<1>7. ASSUME NEW S, Roots(graph) \subseteq S,
             \A n \in S \cap V : \A m : Follows(graph, n, m) => m \in S
      PROVE  V \subseteq S
  <2> DEFINE T == (S \cap V) \ Roots(graph)
  <2>1. V \subseteq Ids(graph)
    BY <1>2, <1>5
  <2>2. T \in SUBSET Ids(graph)
    BY <2>1
  <2>3. \A n \in S \cap V : \A m \in Neighbors(graph, n) \cap Ids(graph) : m \in S \cap V
    BY <1>6, <1>7 DEF Follows
  <2>4. Leads(graph, S \cap V) \subseteq S \cap V
    BY <2>3 DEF Leads
  <2>5. Roots(graph) \subseteq S \cap V
    BY <1>7
  <2>6. Leads(graph, Roots(graph)) \ Roots(graph) \subseteq T
    BY <2>4, <2>5, LeadsOfSubset
  <2>7. T \subseteq S \cap V
    OBVIOUS
  <2>8. Closed(graph, T, Roots(graph))
    BY <2>4, <2>7, LeadsOfSubset DEF Closed
  <2> HIDE DEF T
  <2>9. Ahead(graph, start) \subseteq T
    BY <2>2, <2>6, <2>8 DEF Ahead, start
  <2>10. QED
    BY <2>9, <2>7, <1>7
<1>8. QED
  BY <1>2, <1>4, <1>5, <1>6, <1>7

-----------------------------------------------------------------------------
(* A part of a graph that is as good as the graph.                         *)

\* What is seen of an edge from one of its ends: whether it is followed, or
\* drawn because both are shown.
Reaches(graph, S, e) ==
  \/ e[1] \in S /\ e[3] \in KindsOf(Forward, graph.nodes[e[1]])
  \/ e[2] \in S /\ e[3] \in KindsOf(Backward, graph.nodes[e[2]])
  \/ e[1] \in S /\ e[2] \in S

\* h is a part of g, with all its roots and each edge that a node of h shows.
PartOf(h, g) ==
  /\ \A n \in Ids(h) : n \in Ids(g) /\ h.nodes[n] = g.nodes[n]
  /\ Roots(g) \subseteq Ids(h)
  /\ \A e \in DOMAIN h.edges : e \in DOMAIN g.edges /\ h.edges[e] = g.edges[e]
  /\ \A e \in DOMAIN h.edges : e[1] \in Ids(h) /\ e[2] \in Ids(h)
  /\ \A e \in DOMAIN g.edges : Reaches(g, Ids(h), e) => e \in DOMAIN h.edges

LEMMA NeighborsAre ==
  ASSUME NEW graph, NEW n, NEW m
  PROVE  m \in Neighbors(graph, n) <=>
           \E e \in DOMAIN graph.edges :
             \/ e[1] = n /\ e[3] \in KindsOf(Forward, graph.nodes[n]) /\ e[2] = m
             \/ e[2] = n /\ e[3] \in KindsOf(Backward, graph.nodes[n]) /\ e[1] = m
BY DEF Neighbors

LEMMA SameFollows ==
  ASSUME NEW g, NEW h, PartOf(h, g), NEW n \in Ids(h), NEW m
  PROVE  Follows(h, n, m) <=> Follows(g, n, m)
<1>1. h.nodes[n] = g.nodes[n] /\ n \in Ids(g)
  BY DEF PartOf
<1>2. ASSUME Follows(h, n, m) PROVE Follows(g, n, m)
  <2>1. m \in Ids(g)
    BY <1>2 DEF PartOf, Follows
  <2>2. m \in Neighbors(h, n)
    BY <1>2 DEF Follows
  <2>3. m \in Neighbors(g, n)
    BY <1>1, <2>2, NeighborsAre DEF PartOf
  <2>4. QED
    BY <2>1, <2>3 DEF Follows
<1>3. ASSUME Follows(g, n, m) PROVE Follows(h, n, m)
  <2>1. PICK e \in DOMAIN g.edges :
          \/ e[1] = n /\ e[3] \in KindsOf(Forward, g.nodes[n]) /\ e[2] = m
          \/ e[2] = n /\ e[3] \in KindsOf(Backward, g.nodes[n]) /\ e[1] = m
    BY <1>3, NeighborsAre DEF Follows
  <2>2. e \in DOMAIN h.edges
    BY <2>1 DEF PartOf, Reaches
  <2>3. m \in Ids(h)
    BY <2>1, <2>2 DEF PartOf
  <2>4. m \in Neighbors(h, n)
    BY <1>1, <2>1, <2>2, NeighborsAre
  <2>5. QED
    BY <2>3, <2>4 DEF Follows
<1>4. QED
  BY <1>2, <1>3

\* A snapshot made of such a part is that of the graph.
THEOREM PartsSuffice ==
  ASSUME NEW g, NEW h, IsFiniteSet(Ids(g)), IsFiniteSet(Ids(h)), PartOf(h, g)
  PROVE  Visible(h) = Visible(g)
<1>1. Roots(h) = Roots(g)
  BY DEF PartOf, Roots
<1>2. /\ Visited(g) \subseteq Ids(g) /\ Visited(h) \subseteq Ids(h)
      /\ Roots(g) \subseteq Visited(g) /\ Roots(h) \subseteq Visited(h)
      /\ \A n \in Visited(g) : \A m : Follows(g, n, m) => m \in Visited(g)
      /\ \A n \in Visited(h) : \A m : Follows(h, n, m) => m \in Visited(h)
  BY VisitedIsReachable
<1>3. Visited(h) \subseteq Visited(g)
  <2>1. \A n \in Visited(g) \cap Visited(h) : \A m : Follows(h, n, m) => m \in Visited(g)
    BY <1>2, SameFollows
  <2>2. QED
    BY <1>1, <1>2, <2>1, VisitedIsReachable
<1>4. Visited(g) \subseteq Visited(h)
  <2>1. \A n \in Visited(h) \cap Visited(g) : \A m : Follows(g, n, m) => m \in Visited(h)
    BY <1>2, SameFollows
  <2>2. QED
    BY <1>1, <1>2, <2>1, VisitedIsReachable
<1> DEFINE V == Visited(h)
<1>5. V = Visited(g)
  BY <1>3, <1>4
<1>6. [n \in V |-> h.nodes[n]] = [n \in V |-> g.nodes[n]]
  BY <1>2 DEF PartOf
<1>7. {x \in DOMAIN h.edges : {x[1], x[2]} \subseteq V}
        = {x \in DOMAIN g.edges : {x[1], x[2]} \subseteq V}
  BY <1>2 DEF PartOf, Reaches
<1>8. [e \in {x \in DOMAIN h.edges : {x[1], x[2]} \subseteq V} |-> h.edges[e]]
        = [e \in {x \in DOMAIN g.edges : {x[1], x[2]} \subseteq V} |-> g.edges[e]]
  BY <1>7 DEF PartOf
<1> HIDE DEF V
<1>9. QED
  BY <1>5, <1>6, <1>8 DEF Visible, V
=============================================================================
