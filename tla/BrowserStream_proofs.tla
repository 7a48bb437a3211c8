------------------------ MODULE BrowserStream_proofs ------------------------
(***************************************************************************)
(* Proofs about BrowserStream, for any connections, and any number of      *)
(* replicas, snapshots, restarts, sessions and lost connections.           *)
(***************************************************************************)
EXTENDS BrowserStream, SequenceTheorems, TLAPS

-----------------------------------------------------------------------------
(* The order of the snapshots of one process.                              *)

NotAfter(a, b) == a[1] = b[1] /\ a[2] <= b[2]

Sorted(s) == \A i, j \in 1 .. Len(s) : i < j => NotAfter(s[i], s[j])
UpTo(s, b) == \A i \in 1 .. Len(s) : NotAfter(s[i], b)
From(s, a) == \A i \in 1 .. Len(s) : NotAfter(a, s[i])

-----------------------------------------------------------------------------
(* The inductive invariant.                                                *)

\* Where the page is.  A page that left has no timer and no connection, and
\* while an answer about the session is awaited it makes none.
PageInv ==
  /\ page \in {"mounted", "unmounted", "login"}
  /\ phase \in {"timer", "socket", "probe", "off"}
  /\ probe \in {"none", "sent", "unknown", "authenticated", "unauthenticated"}
  /\ socket \in Slots \cup {None}
  /\ page # "mounted" => phase = "off"
  /\ page = "login" => probe = "none"
  /\ page = "mounted" /\ probe # "none" => phase = "probe"

\* The connections the browser has not given up: its socket and no other.
Held == {"request", "open", "ended", "cut"}
LinkInv == \A k \in Slots : link[k] \in Held <=> socket = k

\* What ended before a process started does not run, and started before it.
ProcessInv ==
  \A i \in Instances : before[i] \subseteq (1 .. started) \ {i} /\ before[i] \cap live = {}

\* A handler took what its process published.
HandlerInv ==
  /\ home \in [Slots -> 1 .. started]
  /\ taken \in [Slots -> 0 .. MaxVersion]
  /\ \A k \in Slots : handler[k] # "none" => taken[k] <= version[home[k]]
  /\ \A k \in Slots : handler[k] = "writing" => taken[k] > 0
  /\ wire \in [Slots -> Seq(Snapshots)]

Latest(k) == <<home[k], version[home[k]]>>

\* The version of the last snapshot that the handler of k sent, or skipped.
Sent(k) == IF handler[k] = "writing" THEN taken[k] - 1 ELSE taken[k]

\* What is on its way to the page comes from the process that serves the
\* connection and is in order, not newer than its latest snapshot nor, on an
\* open connection, than the last one sent.
WireInv ==
  \A k \in Slots :
    /\ Sorted(wire[k])
    /\ UpTo(wire[k], Latest(k))
    /\ link[k] = "open" => UpTo(wire[k], <<home[k], Sent(k)>>)

\* What the page has shown of a process is not newer than anything that it may
\* still receive of it, and it may receive nothing of a process that ended
\* before the one it shows was started.
SeenInv ==
  /\ \A i \in Instances : seen[i] <= version[i]
  /\ shown # None => shown[1] \in 1 .. started /\ seen[shown[1]] = shown[2]
  /\ \A k \in Slots :
       /\ From(wire[k], <<home[k], seen[home[k]]>>)
       /\ link[k] = "open" => seen[home[k]] <= Sent(k) + 1
       /\ shown # None /\ (link[k] = "open" \/ wire[k] # <<>>)
            => home[k] \notin before[shown[1]]

IInv == TypeOK /\ PageInv /\ LinkInv /\ ProcessInv /\ HandlerInv /\ WireInv /\ SeenInv

-----------------------------------------------------------------------------
(* Sequences of snapshots.                                                 *)

\* The order of snapshots is transitive.
LEMMA NotAfterTrans ==
  ASSUME NEW a \in Int \X Int, NEW b \in Int \X Int, NEW c \in Int \X Int,
         NotAfter(a, b), NotAfter(b, c)
  PROVE  NotAfter(a, c)
BY DEF NotAfter

\* Sending a snapshot that is not older than any before keeps the order, and
\* any bound on both sides of it.
LEMMA AppendSorted ==
  ASSUME NEW s \in Seq(Snapshots), NEW e \in Snapshots, Sorted(s), UpTo(s, e)
  PROVE  /\ Append(s, e) \in Seq(Snapshots)
         /\ Sorted(Append(s, e))
         /\ \A b : UpTo(s, b) /\ NotAfter(e, b) => UpTo(Append(s, e), b)
         /\ \A a : From(s, a) /\ NotAfter(a, e) => From(Append(s, e), a)
<1> DEFINE t == Append(s, e)
<1>1. /\ t \in Seq(Snapshots)
      /\ Len(s) \in Nat /\ Len(t) = Len(s) + 1
      /\ \A i \in 1 .. Len(s) : t[i] = s[i]
      /\ t[Len(s) + 1] = e
  BY AppendProperties
<1> HIDE DEF t
<1>2. \A i \in 1 .. Len(t) : i \in 1 .. Len(s) \/ i = Len(s) + 1
  BY <1>1
<1>3. Sorted(t)
  <2> SUFFICES ASSUME NEW i \in 1 .. Len(t), NEW j \in 1 .. Len(t), i < j
               PROVE  NotAfter(t[i], t[j])
    BY DEF Sorted
  <2>1. i \in 1 .. Len(s)
    BY <1>1
  <2>2. CASE j \in 1 .. Len(s)
    BY <2>1, <2>2, <1>1 DEF Sorted
  <2>3. CASE j = Len(s) + 1
    BY <2>1, <2>3, <1>1 DEF UpTo
  <2>4. QED
    BY <2>2, <2>3, <1>2
<1>4. ASSUME NEW b, UpTo(s, b), NotAfter(e, b) PROVE UpTo(t, b)
  BY <1>1, <1>2, <1>4 DEF UpTo
<1>5. ASSUME NEW a, From(s, a), NotAfter(a, e) PROVE From(t, a)
  BY <1>1, <1>2, <1>5 DEF From
<1>6. QED
  BY <1>1, <1>3, <1>4, <1>5 DEF t

\* Receiving the oldest snapshot: the others are in order, within the same
\* bounds, and not older.
LEMMA TailSorted ==
  ASSUME NEW s \in Seq(Snapshots), s # <<>>, Sorted(s)
  PROVE  /\ Head(s) \in Snapshots
         /\ Tail(s) \in Seq(Snapshots)
         /\ Sorted(Tail(s))
         /\ From(Tail(s), Head(s))
         /\ \A b : UpTo(s, b) => UpTo(Tail(s), b) /\ NotAfter(Head(s), b)
         /\ \A a : From(s, a) => From(Tail(s), a) /\ NotAfter(a, Head(s))
<1> DEFINE t == Tail(s)
<1>1. /\ t \in Seq(Snapshots)
      /\ Len(s) \in Nat /\ Len(t) = Len(s) - 1
      /\ \A i \in 1 .. Len(t) : t[i] = s[i + 1]
      /\ Head(s) = s[1] /\ Head(s) \in Snapshots
  BY HeadTailProperties
<1>2. 1 \in 1 .. Len(s)
  BY <1>1, EmptySeq
<1> HIDE DEF t
<1>3. \A i \in 1 .. Len(t) : i + 1 \in 1 .. Len(s) /\ 1 < i + 1
  BY <1>1
<1>4. Sorted(t)
  <2> SUFFICES ASSUME NEW i \in 1 .. Len(t), NEW j \in 1 .. Len(t), i < j
               PROVE  NotAfter(t[i], t[j])
    BY DEF Sorted
  <2>1. i + 1 < j + 1
    BY <1>1
  <2>2. QED
    BY <2>1, <1>1, <1>3 DEF Sorted
<1>5. From(t, Head(s))
  BY <1>1, <1>2, <1>3 DEF From, Sorted
<1>6. ASSUME NEW b, UpTo(s, b) PROVE UpTo(t, b) /\ NotAfter(Head(s), b)
  BY <1>1, <1>2, <1>3, <1>6 DEF UpTo
<1>7. ASSUME NEW a, From(s, a) PROVE From(t, a) /\ NotAfter(a, Head(s))
  BY <1>1, <1>2, <1>3, <1>7 DEF From
<1>8. QED
  BY <1>1, <1>4, <1>5, <1>6, <1>7 DEF t

\* A later bound is a bound.
LEMMA UpToLater ==
  ASSUME NEW s \in Seq(Snapshots), NEW b \in Int \X Int, NEW c \in Int \X Int,
         UpTo(s, b), NotAfter(b, c)
  PROVE  UpTo(s, c)
<1> SUFFICES ASSUME NEW i \in 1 .. Len(s) PROVE NotAfter(s[i], c)
  BY DEF UpTo
<1>1. s[i] \in Snapshots
  OBVIOUS
<1>2. s[i] \in Int \X Int
  BY <1>1, BoundsAssumption DEF Snapshots, Instances
<1>3. NotAfter(s[i], b)
  BY DEF UpTo
<1>4. QED
  BY <1>2, <1>3, NotAfterTrans

\* Nothing is on its way over a connection that was just made or given up.
LEMMA EmptyWire ==
  ASSUME NEW s, s = <<>>
  PROVE  Sorted(s) /\ (\A b : UpTo(s, b)) /\ (\A a : From(s, a))
BY DEF Sorted, UpTo, From

-----------------------------------------------------------------------------
(* One step.                                                               *)

\* A page that is loaded before anything is published.
LEMMA InitInv == Init => IInv
<1> SUFFICES ASSUME Init PROVE IInv
  OBVIOUS
<1> USE DEF Init, StreamInit, PageInit
<1>1. /\ started \in Nat /\ 1 <= started /\ started <= MaxInstances
      /\ 1 .. started \subseteq Instances /\ 1 \in Instances /\ 0 \in 0 .. MaxVersion
  BY BoundsAssumption DEF Instances
<1>2. TypeOK
  <2>1. link \in [Slots -> Links] /\ handler \in [Slots -> {"none", "select", "writing"}]
    BY DEF Links
  <2>2. /\ live \subseteq 1 .. started /\ started \in Instances /\ missing \in Nat
        /\ started + missing <= MaxInstances
    BY <1>1, BoundsAssumption DEF Instances
  <2>3. QED
    BY <1>1, <2>1, <2>2 DEF TypeOK, Gone
<1>3. PageInv /\ LinkInv
  BY NoneAssumption DEF PageInv, LinkInv, Held
<1>4. ProcessInv
  BY DEF ProcessInv
<1>5. HandlerInv
  BY <1>1 DEF HandlerInv
<1>6. WireInv /\ SeenInv
  BY EmptyWire DEF WireInv, SeenInv, Sent
<1>7. QED
  BY <1>2, <1>3, <1>4, <1>5, <1>6 DEF IInv

\* Types that the order needs.
LEMMA OrderTypes ==
  ASSUME IInv
  PROVE  /\ started \in Nat /\ 1 .. started \subseteq Instances
         /\ shown # None => shown \in Instances \X Int
         /\ \A i \in Instances : version[i] \in Int /\ seen[i] \in Int
         /\ \A k \in Slots : /\ home[k] \in Instances /\ taken[k] \in Int /\ Sent(k) \in Int
                             /\ version[home[k]] \in Int /\ seen[home[k]] \in Int
                             /\ Latest(k) \in Int \X Int
                             /\ wire[k] \in Seq(Snapshots)
<1>1. TypeOK /\ HandlerInv
  BY DEF IInv
<1>2. started \in Nat /\ 1 .. started \subseteq Instances /\ Instances \subseteq Int
  BY <1>1, BoundsAssumption DEF TypeOK, Instances
<1>3. shown # None => shown \in Instances \X Int
  BY <1>1, BoundsAssumption DEF TypeOK, Snapshots
<1>4. \A i \in Instances : version[i] \in Int /\ seen[i] \in Int
  <2>1. \A i \in Instances : version[i] \in 0 .. MaxVersion /\ seen[i] \in 0 .. MaxVersion
    BY <1>1 DEF TypeOK
  <2>2. 0 .. MaxVersion \subseteq Int
    BY BoundsAssumption
  <2>3. QED
    BY <2>1, <2>2
<1>5. ASSUME NEW k \in Slots
      PROVE  taken[k] \in Int /\ Sent(k) \in Int /\ home[k] \in Instances /\ wire[k] \in Seq(Snapshots)
  <2>1. taken[k] \in 0 .. MaxVersion /\ home[k] \in Instances /\ wire[k] \in Seq(Snapshots)
    BY <1>1 DEF HandlerInv, TypeOK
  <2>2. taken[k] \in Int
    BY <2>1, BoundsAssumption
  <2>3. QED
    BY <2>1, <2>2 DEF Sent
<1>6. QED
  BY <1>2, <1>3, <1>4, <1>5 DEF Latest

\* The order is kept by every step that sends nothing, shows nothing new and
\* opens no connection, whatever is published and whichever process starts.
LEMMA OrderFrame ==
  ASSUME IInv, UNCHANGED home,
         \A i \in Instances : version'[i] \in Int /\ version[i] <= version'[i],
         started' \in Nat, started <= started',
         \A i \in 1 .. started : before'[i] = before[i],
         UNCHANGED <<shown, seen>> \/ (shown' = None /\ seen' = [i \in Instances |-> 0]
                                         /\ \A k \in Slots : wire'[k] = <<>> /\ link'[k] # "open"),
         \A k \in Slots : wire'[k] \in {wire[k], <<>>},
         \A k \in Slots : link'[k] = "open" => /\ link[k] = "open"
                                              /\ handler'[k] = handler[k] /\ taken'[k] = taken[k]
  PROVE  WireInv' /\ SeenInv'
<1>t. TypeOK /\ WireInv /\ SeenInv
  BY DEF IInv
<1>1. ASSUME NEW k \in Slots
      PROVE  /\ Sorted(wire'[k])
             /\ \A b : UpTo(wire[k], b) => UpTo(wire'[k], b)
             /\ \A a : From(wire[k], a) => From(wire'[k], a)
             /\ link'[k] = "open" => link[k] = "open" /\ Sent(k)' = Sent(k)
  BY <1>t, EmptyWire DEF WireInv, Sent
<1>2. ASSUME NEW k \in Slots PROVE UpTo(wire[k], Latest(k)')
  <2>1. NotAfter(Latest(k), Latest(k)') /\ Latest(k)' \in Int \X Int
    BY OrderTypes DEF NotAfter, Latest
  <2>2. QED
    BY <2>1, <1>t, OrderTypes, UpToLater DEF WireInv
<1>3. WireInv'
  BY <1>t, <1>1, <1>2 DEF WireInv
<1>4. CASE UNCHANGED <<shown, seen>>
  <2>1. \A i \in Instances : seen'[i] <= version'[i]
    BY <1>4, <1>t, OrderTypes DEF SeenInv
  <2>2. shown' # None => /\ shown'[1] \in 1 .. started' /\ seen'[shown'[1]] = shown'[2]
                         /\ before'[shown'[1]] = before[shown[1]]
    BY <1>4, <1>t, OrderTypes DEF SeenInv
  <2>3. ASSUME NEW k \in Slots
        PROVE  /\ From(wire'[k], <<home'[k], seen'[home'[k]]>>)
               /\ link'[k] = "open" => seen'[home'[k]] <= Sent(k)' + 1
               /\ shown' # None /\ (link'[k] = "open" \/ wire'[k] # <<>>)
                    => home'[k] \notin before'[shown'[1]]
    BY <1>1, <1>4, <1>t, <2>2 DEF SeenInv
  <2>4. QED
    BY <1>3, <2>1, <2>2, <2>3 DEF SeenInv
<1>5. CASE /\ shown' = None /\ seen' = [i \in Instances |-> 0]
           /\ \A k \in Slots : wire'[k] = <<>> /\ link'[k] # "open"
  <2>1. \A i \in Instances : seen'[i] <= version'[i]
    <3>1. \A i \in Instances : 0 <= version[i]
      BY <1>t, BoundsAssumption DEF TypeOK
    <3>2. QED
      BY <3>1, <1>5, OrderTypes
  <2>2. ASSUME NEW k \in Slots
        PROVE  From(wire'[k], <<home'[k], seen'[home'[k]]>>) /\ link'[k] # "open" /\ shown' = None
    <3>1. wire'[k] = <<>> /\ link'[k] # "open"
      BY <1>5
    <3>2. QED
      BY <3>1, <1>5, EmptyWire
  <2>3. QED
    BY <1>3, <1>5, <2>1, <2>2 DEF SeenInv
<1>6. QED
  BY <1>3, <1>4, <1>5

\* The processes and the session.
LEMMA ServerInv ==
  ASSUME IInv,
         \/ \E i \in live : Publish(i) \/ Crash(i)
         \/ Start \/ SessionExpires,
         UNCHANGED pageVars
  PROVE  IInv'
<1> USE DEF server, sessions, handlers, network, pageVars
<1>t. TypeOK /\ PageInv /\ LinkInv /\ ProcessInv /\ HandlerInv /\ WireInv /\ SeenInv
  BY DEF IInv
<1>p. PageInv'
  BY <1>t DEF PageInv
<1>1. ASSUME NEW i \in live, Publish(i) PROVE IInv'
  <2> USE <1>1 DEF Publish
  <2>1. /\ i \in Instances /\ version[i] \in Int /\ version[i] + 1 \in 0 .. MaxVersion
        /\ version' = [version EXCEPT ![i] = version[i] + 1]
    <3>1. i \in Instances
      BY <1>t, OrderTypes DEF TypeOK
    <3>2. version[i] \in 0 .. MaxVersion
      BY <3>1, <1>t DEF TypeOK
    <3>3. QED
      BY <3>1, <3>2, BoundsAssumption
  <2>2. /\ version' \in [Instances -> 0 .. MaxVersion]
        /\ \A j \in Instances : version'[j] \in Int /\ version[j] <= version'[j]
    BY <2>1, <1>t, OrderTypes DEF TypeOK
  <2>3. TypeOK'
    BY <2>2, <1>t DEF TypeOK, Gone
  <2>4. LinkInv' /\ ProcessInv'
    BY <1>t DEF LinkInv, ProcessInv
  <2>5. HandlerInv'
    BY <2>2, <1>t, OrderTypes DEF HandlerInv
  <2>6. WireInv' /\ SeenInv'
    BY <2>2, OrderTypes, OrderFrame
  <2>7. QED
    BY <1>p, <2>3, <2>4, <2>5, <2>6 DEF IInv
<1>2. CASE Start
  <2> USE <1>2 DEF Start
  <2>1. /\ started + 1 \in Instances /\ started' = started + 1 /\ missing' = missing - 1
        /\ missing' \in Nat /\ started' + missing' <= MaxInstances
        /\ live' = live \cup {started + 1}
        /\ 1 .. started' = (1 .. started) \cup {started + 1} /\ started + 1 \notin 1 .. started
    <3>1. started \in Nat /\ started >= 1 /\ missing \in Nat /\ missing > 0
          /\ started + missing <= MaxInstances
      BY <1>t, BoundsAssumption DEF TypeOK, Instances
    <3>2. QED
      BY <3>1, BoundsAssumption DEF Instances
  <2>2. before' = [before EXCEPT ![started + 1] = (1 .. started) \ live]
    OBVIOUS
  <2>3. \A i \in Instances :
          before'[i] = IF i = started + 1 THEN (1 .. started) \ live ELSE before[i]
    BY <2>2, <1>t DEF TypeOK
  <2>4. ProcessInv'
    <3> SUFFICES ASSUME NEW i \in Instances
                 PROVE  before'[i] \subseteq (1 .. started') \ {i} /\ before'[i] \cap live' = {}
      BY DEF ProcessInv
    <3>1. before[i] \subseteq (1 .. started) \ {i} /\ before[i] \cap live = {}
      BY <1>t DEF ProcessInv
    <3>2. CASE i = started + 1
      BY <2>1, <2>3, <3>2
    <3>3. CASE i # started + 1
      BY <2>1, <2>3, <3>1, <3>3
    <3>4. QED
      BY <3>2, <3>3
  <2>5. TypeOK'
    <3>1. live' \subseteq 1 .. started' /\ live \subseteq live'
      BY <2>1, <1>t DEF TypeOK
    <3>2. before' \in [Instances -> SUBSET Instances]
      BY <2>2, <1>t, OrderTypes DEF TypeOK
    <3>3. QED
      BY <2>1, <3>1, <3>2, <1>t DEF TypeOK, Gone
  <2>6. LinkInv' /\ HandlerInv'
    BY <2>1, <1>t DEF LinkInv, HandlerInv
  <2>7. WireInv' /\ SeenInv'
    <3>1. \A i \in 1 .. started : before'[i] = before[i]
      BY <2>1, <2>3, OrderTypes
    <3>2. started' \in Nat /\ started <= started'
      BY <2>1, OrderTypes
    <3>3. \A i \in Instances : version'[i] \in Int /\ version[i] <= version'[i]
      BY OrderTypes
    <3>4. QED
      BY <3>1, <3>2, <3>3, OrderFrame
  <2>8. QED
    BY <1>p, <2>4, <2>5, <2>6, <2>7 DEF IInv
<1>3. CASE SessionExpires
  <2> USE <1>3 DEF SessionExpires
  <2>1. TypeOK'
    BY <1>t DEF TypeOK, Gone
  <2>2. LinkInv' /\ ProcessInv' /\ HandlerInv'
    BY <1>t DEF LinkInv, ProcessInv, HandlerInv
  <2>3. WireInv' /\ SeenInv'
    BY OrderTypes, OrderFrame
  <2>4. QED
    BY <1>p, <2>1, <2>2, <2>3 DEF IInv
<1>4. ASSUME NEW i \in live, Crash(i) PROVE IInv'
  <2> USE <1>4 DEF Crash
  <2>1. /\ UNCHANGED <<started, before, version, valid, home, wire, socket, phase, shown, seen>>
        /\ taken' = [k \in Slots |-> IF home[k] = i THEN 0 ELSE taken[k]]
        /\ live' = live \ {i}
        /\ missing' \in Nat /\ started' + missing' <= MaxInstances
    <3>1. missing' = missing + 1 /\ missing \in Nat /\ started \in Nat
          /\ started + missing < MaxInstances /\ MaxInstances \in Nat
      BY <1>t, OrderTypes, BoundsAssumption DEF TypeOK
    <3>2. QED
      BY <3>1
  <2>2. \A k \in Slots :
          \/ home[k] # i /\ handler'[k] = handler[k] /\ link'[k] = link[k]
          \/ home[k] = i /\ handler[k] = "none" /\ handler'[k] = "none" /\ link'[k] = link[k]
          \/ /\ home[k] = i /\ handler[k] # "none" /\ handler'[k] = "none"
             /\ \/ link[k] = "open" /\ link'[k] = "ended"
                \/ link[k] \in {"left", "lost"} /\ link'[k] = "idle"
                \/ link[k] = "cut" /\ link'[k] = "cut"
    <3> SUFFICES ASSUME NEW k \in Slots
                 PROVE  \/ home[k] # i /\ handler'[k] = handler[k] /\ link'[k] = link[k]
                        \/ home[k] = i /\ handler[k] = "none" /\ handler'[k] = "none"
                             /\ link'[k] = link[k]
                        \/ /\ home[k] = i /\ handler[k] # "none" /\ handler'[k] = "none"
                           /\ \/ link[k] = "open" /\ link'[k] = "ended"
                              \/ link[k] \in {"left", "lost"} /\ link'[k] = "idle"
                              \/ link[k] = "cut" /\ link'[k] = "cut"
      OBVIOUS
    <3>1. handler'[k] = IF home[k] = i THEN "none" ELSE handler[k]
      OBVIOUS
    <3>2. link'[k] = CASE Serves(i, k) /\ link[k] = "open" -> "ended"
                       [] Serves(i, k) /\ link[k] \in {"left", "lost"} -> "idle"
                       [] OTHER -> link[k]
      OBVIOUS
    <3>3. handler[k] # "none" => link[k] \in {"open", "left", "cut", "lost"}
      BY <1>t DEF TypeOK, Gone
    <3>4. CASE home[k] # i \/ handler[k] = "none"
      BY <3>1, <3>2, <3>4 DEF Serves
    <3>5. CASE home[k] = i /\ handler[k] # "none"
      BY <3>1, <3>2, <3>3, <3>5 DEF Serves
    <3>6. QED
      BY <3>4, <3>5
  <2>3. /\ link' \in [Slots -> Links] /\ handler' \in [Slots -> {"none", "select", "writing"}]
        /\ \A k \in Slots : handler'[k] # "none" => handler'[k] = handler[k] /\ home[k] # i
    <3>1. \A k \in Slots : link'[k] \in Links /\ handler'[k] \in {"none", "select", "writing"}
      BY <2>2, <1>t DEF TypeOK, Links
    <3>2. link' = [k \in Slots |-> link'[k]] /\ handler' = [k \in Slots |-> handler'[k]]
      OBVIOUS
    <3>3. QED
      BY <2>2, <3>1, <3>2
  <2>4. TypeOK'
    BY <2>1, <2>2, <2>3, <1>t DEF TypeOK, Gone
  <2>5. LinkInv'
    BY <2>1, <2>2, <1>t DEF LinkInv, Held
  <2>6. HandlerInv' /\ ProcessInv'
    <3>1. taken' \in [Slots -> 0 .. MaxVersion]
      BY <2>1, <1>t, BoundsAssumption DEF HandlerInv
    <3>2. \A k \in Slots : handler'[k] # "none" => handler'[k] = handler[k] /\ taken'[k] = taken[k]
      BY <2>1, <2>3
    <3>3. QED
      BY <2>1, <3>1, <3>2, <1>t DEF HandlerInv, ProcessInv
  <2>7. WireInv' /\ SeenInv'
    <3>1. \A k \in Slots : link'[k] = "open" => /\ link[k] = "open"
                                               /\ handler'[k] = handler[k] /\ taken'[k] = taken[k]
      BY <2>1, <2>2, <1>t DEF TypeOK
    <3>2. QED
      BY <2>1, <3>1, OrderTypes, OrderFrame
  <2>8. QED
    BY <1>p, <2>4, <2>5, <2>6, <2>7 DEF IInv
<1>5. QED
  BY <1>1, <1>2, <1>3, <1>4

\* A handler without connection, or whose connection is still open, when its
\* own step or a fault ends the connection or the handler.
LEMMA EndsInv ==
  ASSUME IInv, NEW k \in Slots,
         Refuse(k) \/ PeerGone(k) \/ Expire(k) \/ Cut(k), UNCHANGED pageVars
  PROVE  IInv'
<1> USE DEF server, sessions, handlers, network, pageVars
<1>t. TypeOK /\ PageInv /\ LinkInv /\ ProcessInv /\ HandlerInv /\ WireInv /\ SeenInv
  BY DEF IInv
<1>1. /\ UNCHANGED <<live, started, missing, before, version, valid, home>>
      /\ wire' \in {wire, [wire EXCEPT ![k] = <<>>]}
      /\ \/ handler' = handler /\ taken' = taken
         \/ handler' = [handler EXCEPT ![k] = "none"] /\ taken' = [taken EXCEPT ![k] = 0]
  BY DEF Refuse, PeerGone, Expire, Cut, End
<1>2. \E l \in Links : link' = [link EXCEPT ![k] = l]
  <2>1. CASE Refuse(k)
    BY <2>1 DEF Refuse, Links
  <2>2. CASE Cut(k)
    BY <2>2 DEF Cut, Links
  <2>3. CASE End(k)
    <3>1. link[k] \in Links
      BY <1>t DEF TypeOK
    <3>2. (CASE link[k] = "open" -> "ended"
             [] link[k] \in {"left", "lost"} -> "idle"
             [] OTHER -> link[k]) \in Links
      BY <3>1 DEF Links
    <3>3. QED
      BY <2>3, <3>2 DEF End
  <2>4. QED
    BY <2>1, <2>2, <2>3 DEF PeerGone, Expire
<1>3. /\ link' \in [Slots -> Links] /\ handler' \in [Slots -> {"none", "select", "writing"}]
      /\ wire' \in [Slots -> Seq(Snapshots)]
      /\ \A j \in Slots : j # k => /\ link'[j] = link[j] /\ handler'[j] = handler[j]
                                   /\ wire'[j] = wire[j]
  <2>1. <<>> \in Seq(Snapshots)
    OBVIOUS
  <2>2. link \in [Slots -> Links] /\ handler \in [Slots -> {"none", "select", "writing"}]
        /\ wire \in [Slots -> Seq(Snapshots)]
    BY <1>t DEF TypeOK, HandlerInv
  <2>3. PICK l \in Links : link' = [link EXCEPT ![k] = l]
    BY <1>2
  <2>4. QED
    BY <2>1, <2>2, <2>3, <1>1
<1>4. \/ link[k] = "request" /\ link'[k] = "ended" /\ handler'[k] = handler[k] /\ wire' = wire
      \/ link[k] = "open" /\ link'[k] = "ended" /\ handler'[k] = "none" /\ wire' = wire
      \/ link[k] \in {"left", "lost"} /\ link'[k] = "idle" /\ handler'[k] = "none" /\ wire' = wire
      \/ link[k] = "cut" /\ link'[k] = "cut" /\ handler'[k] = "none" /\ wire' = wire
      \/ link[k] = "open" /\ link'[k] = "cut" /\ handler'[k] = handler[k] /\ wire'[k] = <<>>
  <2>1. CASE Refuse(k)
    BY <2>1, <1>t DEF Refuse, TypeOK
  <2>2. CASE Cut(k)
    BY <2>2, <1>t DEF Cut, TypeOK, HandlerInv
  <2>3. CASE PeerGone(k) \/ Expire(k)
    <3>1. End(k) /\ handler[k] # "none"
      BY <2>3 DEF PeerGone, Expire
    <3>2. link[k] \in {"open", "left", "cut", "lost"}
      BY <3>1, <1>t DEF TypeOK, Gone
    <3>3. handler'[k] = "none" /\ wire' = wire
      BY <3>1, <1>t DEF End, TypeOK
    <3>4. link'[k] = CASE link[k] = "open" -> "ended"
                       [] link[k] \in {"left", "lost"} -> "idle"
                       [] OTHER -> link[k]
      BY <3>1, <1>t DEF End, TypeOK
    <3>5. QED
      BY <3>2, <3>3, <3>4
  <2>4. QED
    BY <2>1, <2>2, <2>3
<1>5. TypeOK'
  <2>1. ASSUME NEW j \in Slots
        PROVE  /\ handler'[j] # "none" => (link'[j] = "open" \/ Gone(j)') /\ home[j] \in live
               /\ link'[j] = "open" => handler'[j] # "none"
               /\ wire'[j] # <<>> => link'[j] \in {"open", "ended"}
    <3>1. CASE j = k
      BY <3>1, <1>1, <1>4, <1>t DEF TypeOK, Gone
    <3>2. CASE j # k
      BY <3>2, <1>3, <1>t DEF TypeOK, Gone
    <3>3. QED
      BY <3>1, <3>2
  <2>2. QED
    BY <2>1, <1>1, <1>3, <1>t DEF TypeOK
<1>6. PageInv' /\ LinkInv' /\ ProcessInv'
  BY <1>1, <1>3, <1>4, <1>t DEF PageInv, LinkInv, ProcessInv, Held
<1>7. HandlerInv'
  <2>1. taken' \in [Slots -> 0 .. MaxVersion]
    BY <1>1, <1>t, BoundsAssumption DEF HandlerInv
  <2>2. \A j \in Slots : handler'[j] # "none" => handler'[j] = handler[j] /\ taken'[j] = taken[j]
    BY <1>1, <1>3, <1>t DEF TypeOK, HandlerInv
  <2>3. QED
    BY <2>1, <2>2, <1>1, <1>3, <1>t DEF HandlerInv
<1>8. WireInv' /\ SeenInv'
  <2>1. \A j \in Slots : wire'[j] \in {wire[j], <<>>}
    BY <1>3, <1>4
  <2>2. \A j \in Slots : link'[j] = "open" => /\ link[j] = "open"
                                             /\ handler'[j] = handler[j] /\ taken'[j] = taken[j]
    BY <1>1, <1>3, <1>4, <1>t DEF TypeOK, HandlerInv
  <2>3. QED
    BY <1>1, <2>1, <2>2, OrderTypes, OrderFrame
<1>9. QED
  BY <1>5, <1>6, <1>7, <1>8 DEF IInv

\* A handler that is let in, takes a snapshot from its channel, or writes it.
LEMMA StreamInv ==
  ASSUME IInv, NEW k \in Slots,
         (\E i \in live : Upgrade(k, i)) \/ Take(k) \/ Write(k), UNCHANGED pageVars
  PROVE  IInv'
<1> USE DEF server, sessions, handlers, network, pageVars
<1>t. TypeOK /\ PageInv /\ LinkInv /\ ProcessInv /\ HandlerInv /\ WireInv /\ SeenInv
  BY DEF IInv
<1> DEFINE h == home[k]
<1>o. /\ h \in Instances /\ version[h] \in Int /\ seen[h] \in Int
      /\ taken[k] \in Int /\ Sent(k) \in Int
      /\ taken[k] \in 0 .. MaxVersion /\ version[h] \in 0 .. MaxVersion
  BY <1>t, OrderTypes DEF TypeOK, HandlerInv
<1>u. UNCHANGED <<live, started, missing, before, version, valid, shown, seen, phase, socket>>
  BY DEF Upgrade, Take, Write
<1>p. PageInv' /\ ProcessInv'
  BY <1>t, <1>u DEF PageInv, ProcessInv, Upgrade, Take, Write
<1>1. ASSUME NEW i \in live, Upgrade(k, i) PROVE IInv'
  <2> USE <1>1 DEF Upgrade
  <2>1. /\ link' = [link EXCEPT ![k] = "open"] /\ handler' = [handler EXCEPT ![k] = "select"]
        /\ wire' = wire /\ wire[k] = <<>>
        /\ handler[k] = "none"
    BY <1>t DEF TypeOK, Gone
  <2>2. /\ i \in 1 .. started /\ i \in Instances
        /\ version[i] \in 0 .. MaxVersion /\ seen[i] <= version[i] /\ seen[i] \in Int
    BY <1>t, OrderTypes DEF TypeOK, SeenInv
  <2>3. home' = [home EXCEPT ![k] = i] /\ home'[k] = i
    BY <1>t DEF HandlerInv
  <2>4. /\ taken' = [taken EXCEPT ![k] = taken'[k]]
        /\ taken'[k] \in 0 .. MaxVersion /\ taken'[k] <= version[i]
        /\ version[i] <= taken'[k] + 1
    <3>1. taken' = [taken EXCEPT ![k] = IF version[i] = 0 THEN 0 ELSE version[i] - 1]
      OBVIOUS
    <3>2. taken'[k] = IF version[i] = 0 THEN 0 ELSE version[i] - 1
      BY <3>1, <1>t DEF HandlerInv
    <3>3. taken'[k] \in 0 .. MaxVersion /\ taken'[k] <= version[i] /\ version[i] <= taken'[k] + 1
      <4>1. CASE version[i] = 0
        BY <3>2, <4>1, BoundsAssumption
      <4>2. CASE version[i] # 0
        <5>1. taken'[k] = version[i] - 1
          BY <3>2, <4>2, Zenon
        <5>2. QED
          BY <4>2, <5>1, <2>2, BoundsAssumption
      <4>3. QED
        BY <4>1, <4>2
    <3>4. taken' = [taken EXCEPT ![k] = taken'[k]]
      BY <3>1, <3>2, Zenon
    <3>5. QED
      BY <3>3, <3>4
  <2>5. Sent(k)' = taken'[k] /\ link'[k] = "open"
    BY <2>1, <1>t DEF Sent, TypeOK
  <2>6. \A j \in Slots : j # k => /\ Sent(j)' = Sent(j) /\ link'[j] = link[j]
                                  /\ home'[j] = home[j] /\ Latest(j)' = Latest(j)
    BY <2>1, <2>3, <2>4, <1>u, <1>t DEF Sent, Latest, TypeOK, HandlerInv
  <2>7. TypeOK'
    BY <2>1, <2>2, <2>3, <1>u, <1>t DEF TypeOK, Links, Gone
  <2>8. LinkInv'
    BY <2>1, <1>t DEF LinkInv, Held, TypeOK
  <2>9. HandlerInv'
    BY <2>1, <2>2, <2>3, <2>4, <1>u, <1>t DEF HandlerInv, TypeOK
  <2>10. WireInv'
    BY <2>1, <2>6, <1>t, EmptyWire DEF WireInv
  <2>11. SeenInv'
    <3>1. seen[i] <= Sent(k)' + 1
      BY <2>2, <2>4, <2>5, BoundsAssumption
    <3>2. shown # None => i \notin before[shown[1]]
      BY <1>t, OrderTypes DEF ProcessInv
    <3>3. ASSUME NEW j \in Slots
          PROVE  /\ From(wire'[j], <<home'[j], seen[home'[j]]>>)
                 /\ link'[j] = "open" => seen[home'[j]] <= Sent(j)' + 1
                 /\ shown # None /\ (link'[j] = "open" \/ wire'[j] # <<>>)
                      => home'[j] \notin before[shown[1]]
      <4>1. CASE j = k
        BY <4>1, <2>1, <2>3, <3>1, <3>2, EmptyWire
      <4>2. CASE j # k
        BY <4>2, <2>1, <2>6, <1>t DEF SeenInv
      <4>3. QED
        BY <4>1, <4>2
    <3>4. QED
      BY <3>3, <1>u, <1>t DEF SeenInv
  <2>12. QED
    BY <1>p, <2>7, <2>8, <2>9, <2>10, <2>11 DEF IInv
<1>2. CASE Take(k)
  <2> USE <1>2 DEF Take
  <2>1. PICK v \in taken[k] + 1 .. version[h] :
          /\ taken' = [taken EXCEPT ![k] = v]
          /\ handler' = [handler EXCEPT ![k] = "writing"]
    OBVIOUS
  <2>2. /\ v \in 0 .. MaxVersion /\ v \in Int /\ v > 0 /\ v <= version[h] /\ taken[k] + 1 <= v
        /\ UNCHANGED <<link, wire, home>>
    <3>1. UNCHANGED <<link, wire, home>>
      OBVIOUS
    <3>2. v \in Int /\ taken[k] + 1 <= v /\ v <= version[h]
      BY <1>o
    <3>3. QED
      BY <3>1, <3>2, <1>o, BoundsAssumption
  <2>3. Sent(k)' = v - 1 /\ Sent(k) = taken[k]
    BY <2>1, <1>t DEF Sent, TypeOK, HandlerInv
  <2>4. /\ \A j \in Slots : j # k => Sent(j)' = Sent(j)
        /\ \A j \in Slots : Latest(j)' = Latest(j)
    BY <2>1, <2>2, <1>u, <1>t DEF Sent, Latest, TypeOK, HandlerInv
  <2>5. TypeOK'
    BY <2>1, <2>2, <1>u, <1>t DEF TypeOK, Gone
  <2>6. LinkInv'
    BY <2>2, <1>t DEF LinkInv
  <2>7. HandlerInv'
    BY <2>1, <2>2, <1>u, <1>t DEF HandlerInv, TypeOK
  <2>8. WireInv'
    <3>1. link[k] = "open" => UpTo(wire[k], <<h, v - 1>>)
      <4>1. NotAfter(<<h, Sent(k)>>, <<h, v - 1>>)
        BY <2>2, <2>3, <1>o DEF NotAfter
      <4>2. <<h, Sent(k)>> \in Int \X Int /\ <<h, v - 1>> \in Int \X Int
        BY <2>2, <1>o DEF Instances
      <4>3. QED
        BY <4>1, <4>2, <1>t, OrderTypes, UpToLater DEF WireInv
    <3>2. QED
      BY <2>2, <2>3, <2>4, <3>1, <1>t DEF WireInv
  <2>9. SeenInv'
    <3>1. link[k] = "open" => seen[h] <= v - 1 + 1
      <4>1. link[k] = "open" => seen[h] <= taken[k] + 1
        BY <2>3, <1>t DEF SeenInv
      <4>2. QED
        BY <4>1, <2>2, <1>o
    <3>2. QED
      BY <2>2, <2>3, <2>4, <3>1, <1>u, <1>t DEF SeenInv
  <2>10. QED
    BY <1>p, <2>5, <2>6, <2>7, <2>8, <2>9 DEF IInv
<1>3. CASE Write(k)
  <2> USE <1>3 DEF Write
  <2> DEFINE sent == <<h, taken[k]>>
  <2>1. /\ handler' = [handler EXCEPT ![k] = "select"]
        /\ UNCHANGED <<link, taken, home>>
        /\ taken[k] > 0 /\ taken[k] <= version[h]
        /\ sent \in Snapshots /\ sent \in Int \X Int
    <3>1. /\ handler' = [handler EXCEPT ![k] = "select"]
          /\ UNCHANGED <<link, taken, home>>
      OBVIOUS
    <3>2. taken[k] > 0 /\ taken[k] <= version[h]
      BY <1>t DEF HandlerInv
    <3>3. taken[k] \in 1 .. MaxVersion
      BY <3>2, <1>o, BoundsAssumption
    <3>4. h \in Int
      BY <1>o DEF Instances
    <3>5. QED
      BY <3>1, <3>2, <3>3, <3>4, <1>o DEF Snapshots
  <2>2. Sent(k)' = taken[k] /\ Sent(k) = taken[k] - 1
    BY <2>1, <1>t DEF Sent, TypeOK
  <2>3. /\ \A j \in Slots : j # k => Sent(j)' = Sent(j)
        /\ \A j \in Slots : Latest(j)' = Latest(j)
    BY <2>1, <1>u, <1>t DEF Sent, Latest, TypeOK
  <2>4. NotAfter(sent, Latest(k))
    BY <2>1, <1>o DEF NotAfter, Latest
  <2>5. link[k] = "open" => UpTo(wire[k], sent)
    <3>1. NotAfter(<<h, Sent(k)>>, sent)
      BY <2>2, <1>o DEF NotAfter
    <3>2. <<h, Sent(k)>> \in Int \X Int
      BY <1>o DEF Instances
    <3>3. QED
      BY <2>1, <3>1, <3>2, <1>t, OrderTypes, UpToLater DEF WireInv
  <2>6. link[k] = "open" => seen[h] <= taken[k] /\ NotAfter(<<h, seen[h]>>, sent)
    <3>1. link[k] = "open" => seen[h] <= taken[k] - 1 + 1
      BY <2>2, <1>t DEF SeenInv
    <3>2. QED
      BY <3>1, <1>o DEF NotAfter
  <2>7. sent = <<h, Sent(k)'>> /\ NotAfter(sent, sent)
    BY <2>2, <1>o DEF NotAfter
  <2>8. CASE link[k] = "open"
    <3>1. wire' = [wire EXCEPT ![k] = Append(wire[k], sent)]
      BY <2>8
    <3>2. /\ Append(wire[k], sent) \in Seq(Snapshots)
          /\ Sorted(Append(wire[k], sent))
          /\ \A b : UpTo(wire[k], b) /\ NotAfter(sent, b) => UpTo(Append(wire[k], sent), b)
          /\ \A a : From(wire[k], a) /\ NotAfter(a, sent) => From(Append(wire[k], sent), a)
      <4> HIDE DEF sent
      <4>1. QED
        BY <2>1, <2>5, <2>8, <1>t, OrderTypes, AppendSorted DEF WireInv
    <3>3. /\ wire'[k] = Append(wire[k], sent)
          /\ \A j \in Slots : j # k => wire'[j] = wire[j]
          /\ wire' \in [Slots -> Seq(Snapshots)]
      BY <3>1, <3>2, <1>t DEF HandlerInv
    <3>4. TypeOK'
      BY <2>1, <2>8, <3>3, <1>u, <1>t DEF TypeOK, Gone
    <3>5. LinkInv' /\ HandlerInv'
      BY <2>1, <3>3, <1>u, <1>t DEF LinkInv, HandlerInv, TypeOK
    <3>6. WireInv'
      <4>1. /\ Sorted(wire'[k]) /\ UpTo(wire'[k], Latest(k))
            /\ UpTo(wire'[k], <<h, Sent(k)'>>)
        BY <2>4, <2>5, <2>7, <2>8, <3>2, <3>3, <1>t DEF WireInv
      <4>2. QED
        BY <4>1, <2>1, <2>3, <3>3, <1>t DEF WireInv
    <3>7. SeenInv'
      <4>1. From(wire'[k], <<h, seen[h]>>)
        BY <2>6, <2>8, <3>2, <3>3, <1>t DEF SeenInv
      <4>2. seen[h] <= Sent(k)' + 1
        BY <2>2, <2>6, <2>8, <1>o
      <4>3. QED
        BY <4>1, <4>2, <2>1, <2>3, <2>8, <3>3, <1>u, <1>t DEF SeenInv
    <3>8. QED
      BY <1>p, <3>4, <3>5, <3>6, <3>7 DEF IInv
  <2>9. CASE link[k] # "open"
    <3>1. wire' = wire
      BY <2>9
    <3>2. TypeOK'
      BY <2>1, <3>1, <1>u, <1>t DEF TypeOK, Gone
    <3>3. LinkInv' /\ HandlerInv'
      BY <2>1, <3>1, <1>u, <1>t DEF LinkInv, HandlerInv, TypeOK
    <3>4. WireInv' /\ SeenInv'
      BY <2>1, <2>3, <2>9, <3>1, <1>u, <1>t DEF WireInv, SeenInv
    <3>5. QED
      BY <1>p, <3>2, <3>3, <3>4 DEF IInv
  <2>10. QED
    BY <2>8, <2>9
<1>4. QED
  BY <1>1, <1>2, <1>3

\* What the browser makes of a connection it closes: not one it still holds.
LEMMA ClosedGone ==
  ASSUME TypeOK, NEW k \in Slots
  PROVE  /\ Closed(k) \in Links \ Held
         /\ handler[k] = "none" => Closed(k) = "idle"
         /\ handler[k] # "none" => Closed(k) \in {"left", "lost"}
BY DEF Closed, Links, Held

\* onmessage: the page replaces what it shows by a snapshot that is newer than
\* any that it has shown of the same process, and of no process of the past.
LEMMA MessageInv ==
  ASSUME IInv, OnMessage
  PROVE  /\ IInv'
         /\ shown' # shown => /\ shown' \in Snapshots
                              /\ seen[shown'[1]] <= shown'[2]
                              /\ shown # None => shown'[1] \notin before[shown[1]]
<1> USE DEF OnMessage, server, sessions, handlers
<1>t. TypeOK /\ PageInv /\ LinkInv /\ ProcessInv /\ HandlerInv /\ WireInv /\ SeenInv
  BY DEF IInv
<1> DEFINE s == wire[socket]
           h == home[socket]
           e == Head(s)
<1>1. /\ socket \in Slots /\ s # <<>> /\ s \in Seq(Snapshots) /\ Sorted(s)
      /\ UpTo(s, Latest(socket)) /\ From(s, <<h, seen[h]>>)
      /\ h \in Instances /\ h \in 1 .. started
  BY <1>t, OrderTypes DEF TypeOK, PageInv, HandlerInv, WireInv, SeenInv
<1>2. wire' = [wire EXCEPT ![socket] = Tail(s)]
  OBVIOUS
<1>3. shown' \in {shown, e} /\ (shown = None => shown' = e)
  BY DEF Accept
<1>4. link[socket] = "open" => UpTo(s, <<h, Sent(socket)>>)
  BY <1>1, <1>t DEF WireInv
<1>5. shown # None => h \notin before[shown[1]]
  BY <1>1, <1>t DEF SeenInv
<1>6. /\ e \in Snapshots
      /\ Tail(s) \in Seq(Snapshots)
      /\ Sorted(Tail(s))
      /\ From(Tail(s), e)
      /\ \A b : UpTo(s, b) => UpTo(Tail(s), b) /\ NotAfter(e, b)
      /\ \A a : From(s, a) => From(Tail(s), a) /\ NotAfter(a, e)
  <2> HIDE DEF s
  <2>1. QED
    BY <1>1, TailSorted
<1>7. /\ wire'[socket] = Tail(s)
      /\ \A j \in Slots : j # socket => wire'[j] = wire[j]
      /\ wire' \in [Slots -> Seq(Snapshots)]
  BY <1>1, <1>2, <1>6, <1>t DEF HandlerInv
<1>8. UNCHANGED <<live, started, missing, before, version, valid, handler, home, taken,
                  link, socket, phase, page, probe>>
  OBVIOUS
<1>9. \A j \in Slots : Latest(j)' = Latest(j) /\ Sent(j)' = Sent(j)
  BY <1>8 DEF Latest, Sent
\* The message is a snapshot of the process that serves the connection.
<1>10. /\ e[1] = h /\ e[2] \in 0 .. MaxVersion /\ e[2] \in Int
       /\ seen[h] <= e[2] /\ e[2] <= version[h] /\ e = <<h, e[2]>>
       /\ link[socket] = "open" => e[2] <= Sent(socket)
  <2>1. e \in Instances \X (1 .. MaxVersion)
    BY <1>6 DEF Snapshots
  <2>2. NotAfter(<<h, seen[h]>>, e) /\ NotAfter(e, Latest(socket))
        /\ (link[socket] = "open" => NotAfter(e, <<h, Sent(socket)>>))
    BY <1>1, <1>4, <1>6
  <2> HIDE DEF e, h
  <2>3. e[2] \in 0 .. MaxVersion /\ e[2] \in Int /\ e = <<e[1], e[2]>>
    BY <2>1, BoundsAssumption
  <2>4. QED
    BY <2>2, <2>3, <1>1 DEF NotAfter, Latest, h
<1> HIDE DEF s, e
<1>11. shown' \in Snapshots
  BY <1>3, <1>6, <1>t DEF TypeOK
<1>12. /\ seen' = [seen EXCEPT ![shown'[1]] = shown'[2]]
       /\ shown' = e \/ seen' = seen
  <2>1. CASE shown' = shown /\ shown # None
    <3>1. seen[shown[1]] = shown[2]
      BY <2>1, <1>t DEF SeenInv
    <3>2. QED
      BY <2>1, <3>1, <1>t DEF TypeOK
  <2>2. QED
    BY <2>1, <1>3
<1>13. seen' \in [Instances -> 0 .. MaxVersion]
  BY <1>1, <1>10, <1>12, <1>t DEF TypeOK
<1>14. \A j \in Slots : (wire[j] # <<>> \/ link[j] = "open") => j = socket
  BY <1>t DEF TypeOK, LinkInv, Held
<1>15. TypeOK'
  <2>1. \A j \in Slots : wire'[j] # <<>> => wire[j] # <<>>
    BY <1>1, <1>7 DEF s
  <2>2. QED
    BY <2>1, <1>8, <1>11, <1>13, <1>t DEF TypeOK, Gone
<1>16. PageInv' /\ LinkInv' /\ ProcessInv' /\ HandlerInv'
  BY <1>7, <1>8, <1>t DEF PageInv, LinkInv, ProcessInv, HandlerInv
<1>17. WireInv'
  BY <1>1, <1>4, <1>6, <1>7, <1>8, <1>9, <1>t DEF WireInv
<1>18. SeenInv'
  <2>1. CASE shown' = e
    <3>1. seen' = [seen EXCEPT ![h] = e[2]]
      BY <2>1, <1>10, <1>12
    <3>2. seen'[h] = e[2] /\ \A i \in Instances : i # h => seen'[i] = seen[i]
      BY <3>1, <1>1, <1>t DEF TypeOK
    <3>3. \A i \in Instances : seen'[i] <= version[i]
      BY <3>2, <1>10, <1>t DEF SeenInv
    <3>4. shown'[1] = h /\ seen'[shown'[1]] = shown'[2]
      BY <2>1, <3>2, <1>10
    <3>5. h \notin before[h]
      BY <1>1, <1>t DEF ProcessInv
    <3>6. ASSUME NEW j \in Slots
          PROVE  /\ From(wire'[j], <<home[j], seen'[home[j]]>>)
                 /\ link[j] = "open" => seen'[home[j]] <= Sent(j) + 1
                 /\ link[j] = "open" \/ wire'[j] # <<>> => home[j] \notin before[h]
      <4>1. CASE j = socket
        <5>1. From(wire'[j], <<home[j], seen'[home[j]]>>)
          BY <4>1, <3>2, <1>6, <1>7, <1>10
        <5>2. link[j] = "open" => seen'[home[j]] <= Sent(j) + 1
          BY <4>1, <3>2, <1>1, <1>10, OrderTypes
        <5>3. QED
          BY <4>1, <5>1, <5>2, <3>5
      <4>2. CASE j # socket
        BY <4>2, <1>7, <1>14, EmptyWire
      <4>3. QED
        BY <4>1, <4>2
    <3>7. QED
      BY <3>3, <3>4, <3>6, <1>1, <1>8, <1>9 DEF SeenInv
  <2>2. CASE shown' = shown /\ shown # None /\ seen' = seen
    <3>1. ASSUME NEW j \in Slots
          PROVE  /\ From(wire'[j], <<home[j], seen[home[j]]>>)
                 /\ wire'[j] # <<>> => wire[j] # <<>>
      <4>1. CASE j = socket
        BY <4>1, <1>1, <1>6, <1>7 DEF s
      <4>2. CASE j # socket
        BY <4>2, <1>7, <1>t DEF SeenInv
      <4>3. QED
        BY <4>1, <4>2
    <3>2. QED
      BY <2>2, <3>1, <1>8, <1>9, <1>t DEF SeenInv
  <2>3. QED
    BY <2>1, <2>2, <1>3, <1>12
<1>19. shown' # shown => /\ seen[shown'[1]] <= shown'[2]
                         /\ shown # None => shown'[1] \notin before[shown[1]]
  BY <1>3, <1>5, <1>10
<1>20. QED
  BY <1>11, <1>15, <1>16, <1>17, <1>18, <1>19 DEF IInv

\* The order is kept when the browser closes or requests a connection, and when
\* it leaves the page without any.
LEMMA PageFrame ==
  ASSUME IInv,
         UNCHANGED <<live, started, missing, before, version, handler, home, taken>>,
         UNCHANGED <<shown, seen>> \/ (shown' = None /\ seen' = [i \in Instances |-> 0]
                                         /\ \A k \in Slots : wire'[k] = <<>> /\ link'[k] # "open"),
         \A k \in Slots : wire'[k] \in {wire[k], <<>>},
         \A k \in Slots : link'[k] = "open" => link[k] = "open"
  PROVE  ProcessInv' /\ WireInv' /\ SeenInv'
<1>1. ProcessInv'
  BY DEF IInv, ProcessInv
<1>2. WireInv' /\ SeenInv'
  BY OrderTypes, OrderFrame
<1>3. QED
  BY <1>1, <1>2

\* The other events of the page and its user: connecting, closing, the probe of
\* the session, unmounting and signing in.  None shows another snapshot.
LEMMA PageStepInv ==
  ASSUME IInv,
         \/ \E k \in Slots : Connect(k)
         \/ OnClose \/ AnswerProbe \/ HandleProbe \/ Unmount \/ SignIn
  PROVE  IInv' /\ shown' \in {shown, None}
<1> DEFINE servers == <<live, started, missing, before, version, handler, home, taken>>
           still == <<servers, shown, seen>>
<1> USE DEF streamVars, server, sessions, handlers, network
<1>t. TypeOK /\ PageInv /\ LinkInv /\ ProcessInv /\ HandlerInv /\ WireInv /\ SeenInv
  BY DEF IInv
<1>z. [i \in Instances |-> 0] \in [Instances -> 0 .. MaxVersion]
  BY BoundsAssumption
<1>1. ASSUME NEW k \in Slots, Connect(k) PROVE IInv' /\ shown' = shown
  <2> USE <1>1 DEF Connect
  <2>1. /\ link' = [link EXCEPT ![k] = "request"] /\ wire' = [wire EXCEPT ![k] = <<>>]
        /\ still' = still /\ UNCHANGED <<valid, page, probe>>
        /\ socket = None /\ phase' = "socket" /\ socket' = k /\ handler[k] = "none"
    BY <1>t DEF TypeOK, Gone
  <2>2. <<>> \in Seq(Snapshots) /\ "request" \in Links
    BY DEF Links
  <2>3. TypeOK'
    BY <2>1, <2>2, <1>t, NoneAssumption DEF TypeOK, Gone, HandlerInv
  <2>4. PageInv' /\ LinkInv'
    BY <2>1, <1>t, NoneAssumption DEF PageInv, LinkInv, Held, TypeOK
  <2>5. HandlerInv'
    BY <2>1, <2>2, <1>t DEF HandlerInv
  <2>6. \A j \in Slots : wire'[j] \in {wire[j], <<>>} /\ (link'[j] = "open" => link[j] = "open")
    BY <2>1, <1>t DEF TypeOK, HandlerInv
  <2>7. ProcessInv' /\ WireInv' /\ SeenInv'
    BY <2>1, <2>6, PageFrame
  <2>8. QED
    BY <2>1, <2>3, <2>4, <2>5, <2>7 DEF IInv
<1>2. CASE OnClose
  <2> USE <1>2 DEF OnClose
  <2>1. /\ link' = [link EXCEPT ![socket] = Closed(socket)] /\ socket \in Slots
        /\ still' = still /\ UNCHANGED <<valid, page, wire>>
        /\ phase' = "probe" /\ socket' = None /\ probe' = "sent" /\ page = "mounted"
    BY <1>t DEF TypeOK, PageInv
  <2>2. /\ Closed(socket) \in Links \ Held
        /\ handler[socket] # "none" => Closed(socket) \in {"left", "lost"}
    BY <2>1, <1>t, ClosedGone
  <2>3. TypeOK'
    BY <2>1, <2>2, <1>t DEF TypeOK, Gone, Held
  <2>4. PageInv' /\ LinkInv'
    BY <2>1, <2>2, <1>t, NoneAssumption DEF PageInv, LinkInv, TypeOK
  <2>5. HandlerInv'
    BY <2>1, <1>t DEF HandlerInv
  <2>6. \A j \in Slots : link'[j] = "open" => link[j] = "open"
    BY <2>1, <2>2, <1>t DEF TypeOK, Held
  <2>7. ProcessInv' /\ WireInv' /\ SeenInv'
    BY <2>1, <2>6, PageFrame
  <2>8. QED
    BY <2>1, <2>3, <2>4, <2>5, <2>7 DEF IInv
<1>3. CASE Unmount
  <2> USE <1>3 DEF Unmount, Leave
  <2>1. /\ servers' = servers /\ UNCHANGED <<valid, probe>>
        /\ page' = "unmounted" /\ phase' = "off" /\ socket' = None
        /\ shown' = None /\ seen' = [i \in Instances |-> 0]
    OBVIOUS
  <2>2. PageInv'
    BY <2>1, <1>t DEF PageInv
  <2>3. CASE socket = None
    <3>1. UNCHANGED <<link, wire>>
      BY <2>3
    <3>2. \A j \in Slots : wire[j] = <<>> /\ link[j] # "open"
      BY <2>3, <1>t, NoneAssumption DEF TypeOK, LinkInv, Held
    <3>3. TypeOK' /\ LinkInv' /\ HandlerInv'
      BY <2>1, <2>3, <3>1, <1>t, <1>z DEF TypeOK, Gone, LinkInv, HandlerInv
    <3>4. ProcessInv' /\ WireInv' /\ SeenInv'
      BY <2>1, <3>1, <3>2, PageFrame
    <3>5. QED
      BY <2>1, <2>2, <3>3, <3>4 DEF IInv
  <2>4. CASE socket # None
    <3>1. /\ link' = [link EXCEPT ![socket] = Closed(socket)] /\ socket \in Slots
          /\ wire' = [wire EXCEPT ![socket] = <<>>] /\ <<>> \in Seq(Snapshots)
      BY <2>4, <1>t DEF PageInv
    <3>2. /\ Closed(socket) \in Links \ Held
          /\ handler[socket] # "none" => Closed(socket) \in {"left", "lost"}
      BY <3>1, <1>t, ClosedGone
    <3>3. ASSUME NEW j \in Slots
          PROVE  wire'[j] = <<>> /\ link'[j] # "open"
      <4>1. CASE j = socket
        BY <4>1, <3>1, <3>2, <1>t DEF TypeOK, HandlerInv, Held
      <4>2. CASE j # socket
        <5>1. link[j] \notin Held /\ wire[j] = <<>>
          BY <4>2, <1>t DEF TypeOK, LinkInv, Held
        <5>2. QED
          BY <4>2, <5>1, <3>1, <1>t DEF TypeOK, HandlerInv, Held
      <4>3. QED
        BY <4>1, <4>2
    <3>4. TypeOK'
      BY <2>1, <3>1, <3>2, <1>t, <1>z DEF TypeOK, Gone, Held, HandlerInv
    <3>5. LinkInv'
      BY <2>1, <3>1, <3>2, <1>t, NoneAssumption DEF LinkInv, TypeOK
    <3>6. HandlerInv'
      BY <2>1, <3>1, <1>t DEF HandlerInv
    <3>7. ProcessInv' /\ WireInv' /\ SeenInv'
      BY <2>1, <3>3, PageFrame
    <3>8. QED
      BY <2>1, <2>2, <3>4, <3>5, <3>6, <3>7 DEF IInv
  <2>5. QED
    BY <2>1, <2>3, <2>4
<1>4. CASE AnswerProbe \/ HandleProbe \/ SignIn
  <2>1. /\ servers' = servers /\ UNCHANGED <<link, wire, socket>>
        /\ valid' \in BOOLEAN
        /\ \/ UNCHANGED <<shown, seen>>
           \/ socket = None /\ shown' = None /\ seen' = [i \in Instances |-> 0]
        /\ phase' = "socket" <=> phase = "socket"
        /\ PageInv'
    <3>1. CASE AnswerProbe
      <4>1. /\ UNCHANGED <<servers, link, wire, socket, valid, shown, seen, page, phase>>
            /\ probe = "sent" /\ probe' \in {"unknown", "authenticated", "unauthenticated"}
        BY <3>1, <1>t DEF AnswerProbe, TypeOK
      <4>2. QED
        BY <4>1, <1>t DEF PageInv, TypeOK
    <3>2. CASE HandleProbe
      <4>1. /\ UNCHANGED <<servers, link, wire, socket, valid>>
            /\ probe \in {"unknown", "authenticated", "unauthenticated"} /\ probe' = "none"
        BY <3>2 DEF HandleProbe
      <4>2. \/ page # "mounted" /\ UNCHANGED <<page, phase, shown, seen>>
            \/ /\ page = "mounted" /\ page' = "login" /\ phase' = "off"
               /\ shown' = None /\ seen' = [i \in Instances |-> 0]
            \/ page = "mounted" /\ phase' = "timer" /\ UNCHANGED <<page, shown, seen>>
        BY <3>2 DEF HandleProbe, Leave
      <4>3. page = "mounted" => phase = "probe" /\ socket = None
        BY <4>1, <1>t DEF PageInv, TypeOK
      <4>4. QED
        BY <4>1, <4>2, <4>3, <1>t DEF PageInv, TypeOK
    <3>3. CASE SignIn
      <4>1. /\ UNCHANGED <<servers, link, wire, socket, shown, seen, probe>> /\ valid' = TRUE
            /\ page = "login" /\ page' = "mounted" /\ phase' = "timer"
        BY <3>3 DEF SignIn
      <4>2. QED
        BY <4>1, <1>t DEF PageInv
    <3>4. QED
      BY <3>1, <3>2, <3>3, <1>4
  <2>2. TypeOK'
    BY <2>1, <1>t, <1>z DEF TypeOK, Gone
  <2>3. LinkInv' /\ HandlerInv'
    BY <2>1, <1>t DEF LinkInv, HandlerInv
  <2>4. ProcessInv' /\ WireInv' /\ SeenInv'
    <3>1. socket = None => \A k \in Slots : wire[k] = <<>> /\ link[k] # "open"
      BY <1>t, NoneAssumption DEF TypeOK, LinkInv, Held
    <3>2. QED
      BY <2>1, <3>1, PageFrame
  <2>5. QED
    BY <2>1, <2>2, <2>3, <2>4 DEF IInv
<1>5. QED
  BY <1>1, <1>2, <1>3, <1>4

\* Every step of the servers, the network, the page and its user keeps IInv, and
\* shows nothing older than what was shown.
LEMMA NextInv ==
  ASSUME IInv, [Next]_vars
  PROVE  /\ IInv'
         /\ shown' # None /\ shown' # shown =>
              /\ shown' \in Snapshots
              /\ seen[shown'[1]] <= shown'[2]
              /\ shown # None => shown'[1] \notin before[shown[1]]
<1>1. CASE (Servers \/ SessionExpires) /\ UNCHANGED pageVars
  <2>1. IInv'
    BY <1>1, ServerInv DEF Servers
  <2>2. shown' = shown
    BY <1>1 DEF pageVars
  <2>3. QED
    BY <2>1, <2>2
<1>2. ASSUME NEW k \in Slots, Handler(k) \/ Cut(k), UNCHANGED pageVars
      PROVE  IInv' /\ shown' = shown
  <2>1. IInv'
    BY <1>2, EndsInv, StreamInv DEF Handler, Handshake
  <2>2. shown' = shown
    BY <1>2 DEF pageVars
  <2>3. QED
    BY <2>1, <2>2
<1>3. CASE OnMessage
  BY <1>3, MessageInv
<1>4. CASE \/ \E k \in Slots : Connect(k)
           \/ OnClose \/ AnswerProbe \/ HandleProbe \/ Unmount \/ SignIn
  BY <1>4, PageStepInv
<1>5. CASE UNCHANGED vars
  <2> USE <1>5 DEF vars, streamVars, server, sessions, handlers, network, pageVars
  <2>t. TypeOK /\ PageInv /\ LinkInv /\ HandlerInv
    BY DEF IInv
  <2>1. TypeOK' /\ PageInv'
    BY <2>t DEF TypeOK, Gone, PageInv
  <2>2. LinkInv' /\ HandlerInv'
    BY <2>t DEF LinkInv, HandlerInv
  <2>3. ProcessInv' /\ WireInv' /\ SeenInv'
    BY PageFrame
  <2>4. QED
    BY <2>1, <2>2, <2>3 DEF IInv
<1>6. QED
  BY <1>1, <1>2, <1>3, <1>4, <1>5 DEF Next, Browser

\* The inductive invariant holds in every reachable state.
THEOREM Invariance == Spec => []IInv
<1>1. Init => IInv
  BY InitInv
<1>2. IInv /\ [Next]_vars => IInv'
  BY NextInv
<1>3. QED
  BY <1>1, <1>2, PTL DEF Spec

-----------------------------------------------------------------------------
(* What the invariant gives a reader.                                      *)

\* Every variable keeps its type; a connection is open exactly while a handler
\* serves it, until it is lost or the browser closes it.
THEOREM TypeCorrect == Spec => []TypeOK
<1>1. IInv => TypeOK
  BY DEF IInv
<1>2. QED
  BY <1>1, Invariance, PTL

\* Neither a reconnect timer nor an answer about the session that comes late
\* makes a page connect that was unmounted or left for the sign-in page.
THEOREM LeavingIsSilent == Spec => []SilentAfterLeaving
<1>1. IInv => SilentAfterLeaving
  <2> SUFFICES ASSUME IInv, page # "mounted"
               PROVE  phase = "off" /\ \A k \in Slots : link[k] \notin {"request", "open"}
    BY DEF SilentAfterLeaving
  <2>1. phase = "off" /\ socket = None
    BY DEF IInv, PageInv, TypeOK
  <2>2. QED
    BY <2>1, NoneAssumption DEF IInv, LinkInv, Held
<1>2. QED
  BY <1>1, Invariance, PTL

\* Over reconnects to any replica, restarts and lost connections, whatever was
\* published and dropped meanwhile, the page never shows an older snapshot of a
\* process than it has shown, nor goes back to a process of the past, although
\* acceptSnapshot takes the first snapshot of a connection unseen.
THEOREM PageNeverGoesBack == Spec => ShownNeverGoesBack
<1>1. IInv /\ [Next]_vars
        => [shown' # None /\ shown' # shown =>
              /\ shown'[2] >= seen[shown'[1]]
              /\ shown # None => /\ shown'[1] = shown[1] => shown'[2] > shown[2]
                                 /\ shown'[1] \notin before[shown[1]]]_vars
  <2> SUFFICES ASSUME IInv, [Next]_vars, shown' # None, shown' # shown
               PROVE  /\ shown'[2] >= seen[shown'[1]]
                      /\ shown # None => /\ shown'[1] = shown[1] => shown'[2] > shown[2]
                                         /\ shown'[1] \notin before[shown[1]]
    OBVIOUS
  <2>1. /\ shown' \in Instances \X Int
        /\ seen[shown'[1]] <= shown'[2] /\ seen[shown'[1]] \in Int
        /\ shown # None => shown'[1] \notin before[shown[1]]
    BY NextInv, OrderTypes, BoundsAssumption DEF Snapshots
  <2>2. shown # None => shown \in Instances \X Int /\ seen[shown[1]] = shown[2]
    BY OrderTypes DEF IInv, SeenInv
  <2>3. shown # None /\ shown'[1] = shown[1] => shown'[2] # shown[2]
    BY <2>1, <2>2
  <2>4. QED
    BY <2>1, <2>2, <2>3
<1>2. QED
  BY <1>1, Invariance, PTL DEF Spec, ShownNeverGoesBack

=============================================================================
