--------------------------- MODULE Watcher_proofs ---------------------------
(***************************************************************************)
(* Proofs about Watcher, for any resources read in any order, any of them  *)
(* optional, with or without a debounce, and any function from the         *)
(* contents of a cache to what the topology shows of them.                 *)
(***************************************************************************)
EXTENDS Watcher, TLAPS

-----------------------------------------------------------------------------
(* The inductive invariant.                                                *)

Building == {"read", "health", "flags", "publish"}

\* Something that outlasts the build in progress and leads to another one.
\* (failed does not: the next build that succeeds clears it.)
RebuildDue == calls > 0 \/ request \/ timer # "off"

\* w.ready is set between the wait for the caches and the first build.
Phases ==
  /\ pc \in {"sync", "start"} => ~ready
  /\ pc \in Building \cup {"idle"} => ready
  /\ pc \notin {"sync", "stopped"} => \A r \in Required : synced[r]

\* The contents counted: no cache saw more changes than there were, and none
\* has lost what its initial list held.
Counted ==
  \A r \in Resources : cache[r] <= changes /\ complete[r] <= cache[r]

HasRead(r) ==
  \/ pc \in {"health", "flags", "publish"}
  \/ pc = "read" /\ Position(r) < at

\* What the build in progress holds of a cache is a complete list of it, or
\* nothing where nothing was read or an optional cache was skipped.
ReadComplete ==
  \A r \in Resources :
    read[r] > 0 \/ (r \in Required /\ HasRead(r))
      => synced[r] /\ read[r] >= complete[r]

\* A change the build in progress misses leads to another build; between two
\* builds the snapshot shows each cache unless a build is ahead.
ChangesSeen ==
  /\ pc \in Building => \A r \in Resources : RebuildDue \/ BuildSees(r)
  /\ pc = "idle" => \A r \in Resources :
       \/ version > 0 /\ Topology[latest.content[r]] = Topology[View(r)]
       \/ BuildAhead

\* The same for watch health.
HealthSeen ==
  /\ pc \in {"flags", "publish"} => RebuildDue \/ health.degraded = degraded
  /\ pc = "idle" => \/ version > 0 /\ latest.health.degraded = degraded
                    \/ BuildAhead

Seen == ChangesSeen /\ HealthSeen

IInv ==
  /\ TypeOK
  /\ Phases
  /\ Counted
  /\ ReadComplete
  /\ NeverPartial
  /\ Seen

-----------------------------------------------------------------------------
(* The order in which the caches are read.                                 *)

\* Every resource has one position in Order.
LEMMA Positions ==
  /\ Len(Order) \in Nat /\ 1 \in 1 .. Len(Order)
  /\ \A r \in Resources : Position(r) \in 1 .. Len(Order) /\ Order[Position(r)] = r
  /\ \A i \in 1 .. Len(Order) : Order[i] \in Resources /\ Position(Order[i]) = i
<1>1. Len(Order) \in Nat /\ 1 \in 1 .. Len(Order)
  BY OrderAssumption
<1>2. ASSUME NEW r \in Resources
      PROVE  Position(r) \in 1 .. Len(Order) /\ Order[Position(r)] = r
  <2>1. \E i \in 1 .. Len(Order) : Order[i] = r
    BY DEF Resources
  <2>2. QED
    BY <2>1 DEF Position
<1>3. ASSUME NEW i \in 1 .. Len(Order)
      PROVE  Order[i] \in Resources /\ Position(Order[i]) = i
  <2>1. Order[i] \in Resources
    BY DEF Resources
  <2>2. QED
    BY <2>1, <1>2, OrderAssumption
<1>4. QED
  BY <1>1, <1>2, <1>3

\* What a reader finds in a cache is one of its contents.
LEMMA ViewType ==
  ASSUME TypeOK, NEW r \in Resources
  PROVE  View(r) \in Contents
BY BoundsAssumption DEF TypeOK, View, Contents

-----------------------------------------------------------------------------
(* One step.                                                               *)

\* Nothing is read before the caches have synced.
LEMMA InitInv == Init => IInv
<1> SUFFICES ASSUME Init PROVE IInv
  OBVIOUS
<1> USE DEF Init
<1>1. NothingRead \in [Resources -> Contents] /\ \A r \in Resources : NothingRead[r] = 0
  BY BoundsAssumption DEF NothingRead, Contents
<1>2. NoHealth \in Health
  BY DEF NoHealth, Health
<1>3. TypeOK
  <2>1. /\ calls \in Nat /\ version \in Nat
        /\ at \in 1 .. Len(Order)
        /\ changes \in Contents
        /\ errors \in 0 .. MaxErrors
        /\ failures \in 0 .. MaxFailures
    BY Positions, BoundsAssumption DEF Contents
  <2>2. /\ synced \in [Resources -> BOOLEAN]
        /\ latest \in [content : [Resources -> Contents], health : Health]
    BY <1>1, <1>2
  <2>3. QED
    BY <2>1, <2>2, <1>1, <1>2, Zenon DEF TypeOK
<1>4. Phases /\ Seen
  BY DEF Phases, Seen, ChangesSeen, HealthSeen, Building
<1>5. Counted /\ ReadComplete /\ NeverPartial
  BY <1>1 DEF Counted, ReadComplete, HasRead, NeverPartial
<1>6. QED
  BY <1>3, <1>4, <1>5 DEF IInv

\* A step of an informer, which only grows its own cache, syncs once and
\* makes a call whenever something changes that a build could show.
LEMMA InformersInv ==
  ASSUME IInv, NEW r \in Resources,
         StoreChange(r) \/ EmptyList(r) \/ RecordError(r) \/ RecordSuccess(r)
  PROVE  IInv'
<1> USE DEF loop, build, result
<1>t. TypeOK /\ Phases /\ Counted /\ ReadComplete /\ NeverPartial /\ Seen
  BY DEF IInv
<1>1. CASE StoreChange(r)
  <2> USE <1>1 DEF StoreChange
  <2>1. /\ cache' = [cache EXCEPT ![r] = cache[r] + 1]
        /\ calls' = calls + 1
        /\ changes' = changes + 1 /\ changes < MaxChanges
        /\ \A s \in Resources : s # r => /\ synced'[s] = synced[s]
                                         /\ complete'[s] = complete[s]
        /\ \A s \in Resources : synced[s] => /\ synced'[s]
                                             /\ complete'[s] = complete[s]
        /\ complete'[r] \in {complete[r], cache[r] + 1}
    BY <1>t DEF TypeOK
  <2>2. \A s \in Resources : /\ cache[s] \in Nat /\ complete[s] \in Nat
                             /\ changes \in Nat /\ calls \in Nat /\ MaxChanges \in Nat
    BY <1>t, BoundsAssumption DEF TypeOK, Contents
  <2>3. TypeOK'
    <3>1. cache[r] + 1 \in Contents /\ changes' \in Contents /\ calls' \in Nat
      BY <2>1, <2>2, <1>t DEF Counted, Contents
    <3>2. cache' \in [Resources -> Contents] /\ complete' \in [Resources -> Contents]
          /\ synced' \in [Resources -> BOOLEAN]
      BY <3>1, <1>t DEF TypeOK
    <3>3. QED
      BY <3>1, <3>2, <1>t DEF TypeOK
  <2>4. Phases'
    BY <2>1, <1>t DEF Phases, Required, Building
  <2>5. Counted'
    BY <2>1, <2>2, <1>t DEF Counted, TypeOK
  <2>6. ReadComplete'
    BY <2>1, <2>2, <1>t DEF ReadComplete, HasRead
  <2>7. NeverPartial'
    BY <2>1, <2>2, <1>t DEF NeverPartial, Required
  <2>8. RebuildDue' /\ BuildAhead'
    BY <2>1, <2>2 DEF RebuildDue, BuildAhead
  <2>9. QED
    BY <2>3, <2>4, <2>5, <2>6, <2>7, <2>8 DEF IInv, Seen, ChangesSeen, HealthSeen
<1>2. CASE EmptyList(r)
  <2> USE <1>2 DEF EmptyList
  <2>1. synced' = [synced EXCEPT ![r] = TRUE]
    OBVIOUS
  <2>2. \A s \in Resources : (synced[s] => synced'[s]) /\ View(s)' = View(s)
    BY <2>1, <1>t DEF TypeOK, View
  <2>3. TypeOK'
    BY <2>1, <1>t DEF TypeOK
  <2>4. Phases' /\ Counted'
    BY <2>2, <1>t DEF Phases, Counted, Required
  <2>5. ReadComplete'
    BY <2>2, <1>t DEF ReadComplete, HasRead
  <2>6. NeverPartial'
    BY <2>2, <1>t DEF NeverPartial, Required
  <2>7. Seen'
    BY <2>2, <1>t DEF Seen, ChangesSeen, HealthSeen, RebuildDue, BuildAhead, BuildSees
  <2>8. QED
    BY <2>3, <2>4, <2>5, <2>6, <2>7 DEF IInv
<1>3. CASE RecordError(r) \/ RecordSuccess(r)
  <2>1. /\ calls' = calls + 1
        /\ degraded' \in {degraded \cup {r}, degraded \ {r}}
        /\ errors' \in {errors, errors + 1}
        /\ errors' # errors => errors < MaxErrors
        /\ UNCHANGED <<cache, synced, complete, changes, loop, build, result, cancelled>>
    BY <1>3 DEF RecordError, RecordSuccess
  <2>2. calls' \in Nat /\ calls' > 0 /\ errors' \in 0 .. MaxErrors
    BY <2>1, <1>t, BoundsAssumption DEF TypeOK
  <2>3. degraded' \subseteq Resources
    BY <2>1, <1>t DEF TypeOK
  <2>4. TypeOK'
    BY <2>1, <2>2, <2>3, <1>t DEF TypeOK
  <2>5. Phases' /\ Counted'
    BY <2>1, <1>t DEF Phases, Counted
  <2>6. ReadComplete' /\ NeverPartial'
    BY <2>1, <1>t DEF ReadComplete, HasRead, NeverPartial
  <2>7. RebuildDue' /\ BuildAhead'
    BY <2>2 DEF RebuildDue, BuildAhead
  <2>8. QED
    BY <2>4, <2>5, <2>6, <2>7 DEF IInv, Seen, ChangesSeen, HealthSeen
<1>4. QED
  BY <1>1, <1>2, <1>3

\* A call that is made becomes a request: while a build runs w.ready is set.
LEMMA DeliverInv ==
  ASSUME IInv, Deliver
  PROVE  IInv'
<1> USE DEF Deliver, build, result
<1>t. TypeOK /\ Phases /\ Counted /\ ReadComplete /\ NeverPartial /\ Seen
  BY DEF IInv
<1>1. TypeOK'
  BY <1>t DEF TypeOK
<1>2. Phases' /\ Counted'
  BY <1>t DEF Phases, Counted
<1>3. ReadComplete' /\ NeverPartial'
  BY <1>t DEF ReadComplete, HasRead, NeverPartial
<1>4. ready => RebuildDue' /\ BuildAhead'
  BY DEF RebuildDue, BuildAhead
<1>5. Seen'
  BY <1>4, <1>t DEF Phases, Building, Seen, ChangesSeen, HealthSeen
<1>6. QED
  BY <1>1, <1>2, <1>3, <1>5 DEF IInv

\* A build that starts, for whatever reason, has every cache and the health
\* still before it.
LEMMA StartBuildInv ==
  ASSUME IInv, pc \in {"start", "idle"}, StartBuild,
         UNCHANGED <<informers, result, cancelled>>,
         ready', request' \in BOOLEAN, timer' \in {"off", "armed", "fired"}
  PROVE  IInv'
<1> USE DEF StartBuild, informers, result
<1>t. TypeOK /\ Phases /\ Counted /\ ReadComplete /\ NeverPartial /\ Seen
  BY DEF IInv
<1>1. NothingRead \in [Resources -> Contents] /\ \A r \in Resources : NothingRead[r] = 0
  BY BoundsAssumption DEF NothingRead, Contents
<1>2. NoHealth \in Health
  BY DEF NoHealth, Health
<1>3. TypeOK'
  BY <1>1, <1>2, <1>t, Positions, ready' \in BOOLEAN DEF TypeOK
<1>4. Phases' /\ Counted' /\ NeverPartial'
  BY <1>t DEF Phases, Counted, NeverPartial, Building
<1>5. \A r \in Resources : ~HasRead(r)' /\ BuildSees(r)'
  BY Positions DEF HasRead, BuildSees
<1>6. ReadComplete'
  BY <1>1, <1>5 DEF ReadComplete
<1>7. Seen'
  BY <1>5 DEF Seen, ChangesSeen, HealthSeen
<1>8. QED
  BY <1>3, <1>4, <1>6, <1>7 DEF IInv

\* buildSnapshot reads one more cache and then the health.
LEMMA ReadCacheInv ==
  ASSUME IInv, ReadCache
  PROVE  IInv'
<1> USE DEF ReadCache, informers, result
<1>t. TypeOK /\ Phases /\ Counted /\ ReadComplete /\ NeverPartial /\ Seen
  BY DEF IInv
<1> DEFINE now == Order[at]
<1>1. /\ now \in Resources /\ Position(now) = at
      /\ at \in 1 .. Len(Order) /\ Len(Order) \in Nat
      /\ View(now) \in Contents
  BY <1>t, Positions, ViewType DEF TypeOK
<1>2. read' = [read EXCEPT ![now] = View(now)]
  OBVIOUS
<1>3. \/ at < Len(Order) /\ at' = at + 1 /\ pc' = "read"
      \/ at = Len(Order) /\ at' = 1 /\ pc' = "health"
  BY <1>1
<1> HIDE DEF now
<1>4. /\ read'[now] = View(now)
      /\ \A s \in Resources : s # now => read'[s] = read[s]
  BY <1>1, <1>2, <1>t DEF TypeOK
<1>5. TypeOK'
  <2>1. at' \in 1 .. Len(Order)
    BY <1>1, <1>3
  <2>2. read' \in [Resources -> Contents]
    <3>1. read \in [Resources -> Contents]
      BY <1>t DEF TypeOK
    <3>2. QED
      BY <3>1, <1>1, <1>2
  <2>3. QED
    BY <2>1, <2>2, <1>3, <1>t DEF TypeOK
<1>6. Phases' /\ Counted' /\ NeverPartial'
  BY <1>3, <1>t DEF Phases, Counted, NeverPartial, Building
<1>7. \A s \in Resources : s # now => /\ HasRead(s)' => HasRead(s)
                                      /\ at <= Position(s) => at' <= Position(s) /\ pc' = "read"
  <2> TAKE s \in Resources
  <2> HAVE s # now
  <2>1. Position(s) \in 1 .. Len(Order) /\ Position(s) # at
    BY <1>1, Positions DEF now
  <2>2. QED
    BY <2>1, <1>1, <1>3 DEF HasRead
<1>8. ReadComplete'
  <2>1. ASSUME NEW s \in Resources, read'[s] > 0 \/ (s \in Required /\ HasRead(s)')
        PROVE  synced[s] /\ read'[s] >= complete[s]
    <3>1. CASE s = now
      <4>1. synced[s]
        BY <3>1, <2>1, <1>1, <1>4, <1>t DEF View, Phases, Required
      <4>2. View(s) = cache[s]
        BY <4>1 DEF View
      <4>3. QED
        BY <3>1, <4>1, <4>2, <1>1, <1>4, <1>t DEF Counted, TypeOK, Contents
    <3>2. CASE s # now
      BY <3>2, <2>1, <1>4, <1>7, <1>t DEF ReadComplete
    <3>3. QED
      BY <3>1, <3>2
  <2>2. QED
    BY <2>1 DEF ReadComplete
<1>9. Seen'
  <2>1. ASSUME NEW s \in Resources PROVE RebuildDue' \/ BuildSees(s)'
    <3>1. RebuildDue \/ BuildSees(s)
      BY <1>t DEF Seen, ChangesSeen, Building
    <3>2. CASE RebuildDue
      BY <3>2 DEF RebuildDue
    <3>3. CASE s = now
      BY <3>3, <1>3, <1>4 DEF BuildSees, View
    <3>4. CASE s # now /\ BuildSees(s)
      BY <3>4, <1>3, <1>4, <1>7 DEF BuildSees, View
    <3>5. QED
      BY <3>1, <3>2, <3>3, <3>4
  <2>2. QED
    BY <2>1, <1>3 DEF Seen, ChangesSeen, HealthSeen
<1>10. QED
  BY <1>5, <1>6, <1>8, <1>9 DEF IInv

\* A build that fails publishes nothing; it leaves failed behind.
LEMMA BuildFailInv ==
  ASSUME IInv, BuildFail
  PROVE  IInv'
<1> USE DEF BuildFail, informers
<1>t. TypeOK /\ Phases /\ Counted /\ ReadComplete /\ NeverPartial /\ Seen
  BY DEF IInv
<1>1. NothingRead \in [Resources -> Contents] /\ \A r \in Resources : NothingRead[r] = 0
  BY BoundsAssumption DEF NothingRead, Contents
<1>2. failures' \in 0 .. MaxFailures
  BY <1>t, BoundsAssumption DEF TypeOK
<1>3. TypeOK'
  BY <1>1, <1>2, <1>t, Positions DEF TypeOK
<1>4. Phases' /\ Counted' /\ NeverPartial'
  BY <1>t DEF Phases, Counted, NeverPartial, Building
<1>5. ReadComplete'
  BY <1>1 DEF ReadComplete, HasRead
<1>6. Seen'
  BY DEF Seen, ChangesSeen, HealthSeen, BuildAhead, Building
<1>7. QED
  BY <1>3, <1>4, <1>5, <1>6 DEF IInv

\* snapshotHealth copies the degraded resources and then asks for each of them
\* whether it has synced.
LEMMA HealthInv ==
  ASSUME IInv, CopyHealth \/ ReadFlag
  PROVE  IInv'
<1> USE DEF informers, result
<1>t. TypeOK /\ Phases /\ Counted /\ ReadComplete /\ NeverPartial /\ Seen
  BY DEF IInv
<1>1. at \in 1 .. Len(Order) /\ Order[at] \in Resources /\ Len(Order) \in Nat
      /\ 1 \in 1 .. Len(Order)
  BY <1>t, Positions DEF TypeOK
<1>2. /\ UNCHANGED <<informers, ready, request, timer, read, result, cancelled>>
      /\ pc \in {"health", "flags"} /\ pc' \in {"flags", "publish"}
      /\ at' \in 1 .. Len(Order)
  BY <1>1, <1>t DEF CopyHealth, ReadFlag, TypeOK
<1>3. /\ health' \in Health
      /\ pc = "health" => health'.degraded = degraded
      /\ pc = "flags" => health'.degraded = health.degraded
  <2>1. CASE CopyHealth
    BY <2>1, <1>t DEF CopyHealth, TypeOK, Health
  <2>2. CASE ReadFlag
    BY <2>2, <1>1, <1>t DEF ReadFlag, TypeOK, Health
  <2>3. QED
    BY <2>1, <2>2
<1>4. TypeOK'
  BY <1>2, <1>3, <1>t DEF TypeOK
<1>5. Phases' /\ Counted' /\ NeverPartial'
  BY <1>2, <1>t DEF Phases, Counted, NeverPartial, Building
<1>6. ReadComplete'
  BY <1>2, <1>t DEF ReadComplete, HasRead
<1>7. ChangesSeen'
  BY <1>2, <1>t DEF Seen, ChangesSeen, Building, RebuildDue, BuildSees, View
<1>8. HealthSeen'
  BY <1>2, <1>3, <1>t DEF Seen, HealthSeen, RebuildDue
<1>9. QED
  BY <1>4, <1>5, <1>6, <1>7, <1>8 DEF IInv, Seen

\* Published or equal to the latest snapshot, what was built is what the latest
\* snapshot shows afterwards.
LEMMA PublishInv ==
  ASSUME IInv, Publish
  PROVE  IInv'
<1> USE DEF Publish, informers
<1>t. TypeOK /\ Phases /\ Counted /\ ReadComplete /\ NeverPartial /\ Seen
  BY DEF IInv
<1>1. NothingRead \in [Resources -> Contents] /\ \A r \in Resources : NothingRead[r] = 0
  BY BoundsAssumption DEF NothingRead, Contents
<1>2. NoHealth \in Health
  BY DEF NoHealth, Health
<1>3. /\ latest' \in [content : [Resources -> Contents], health : Health]
      /\ version' \in Nat /\ version' > 0
      /\ latest'.content \in {latest.content, read}
      /\ latest'.content = latest.content => version' = version \/ latest'.content = read
      /\ latest'.health.degraded = health.degraded
      /\ \A r \in Resources : Topology[latest'.content[r]] = Topology[read[r]]
  <2>1. CASE /\ version > 0 /\ Shown(latest.content) = Shown(read) /\ latest.health = health
             /\ UNCHANGED <<version, latest>>
    <3>1. ASSUME NEW r \in Resources
          PROVE  Topology[latest.content[r]] = Topology[read[r]]
      <4>1. Shown(latest.content)[r] = Shown(read)[r]
        BY <2>1
      <4>2. QED
        BY <4>1 DEF Shown
    <3>2. QED
      BY <2>1, <3>1, <1>t DEF TypeOK
  <2>2. CASE /\ version' = version + 1
             /\ latest' = [content |-> read, health |-> health]
    BY <2>2, <1>t DEF TypeOK
  <2>3. QED
    BY <2>1, <2>2
<1>4. TypeOK'
  BY <1>1, <1>2, <1>3, <1>t DEF TypeOK
<1>5. Phases' /\ Counted'
  BY <1>t DEF Phases, Counted, Building
<1>6. ReadComplete'
  BY <1>1 DEF ReadComplete, HasRead
<1>7. NeverPartial'
  <2>1. CASE latest'.content = read
    BY <2>1, <1>t DEF NeverPartial, ReadComplete, HasRead
  <2>2. CASE latest'.content = latest.content /\ version' = version
    BY <2>2, <1>3, <1>t DEF NeverPartial
  <2>3. QED
    BY <2>1, <2>2, <1>3
<1>8. ChangesSeen'
  BY <1>3, <1>t DEF Seen, ChangesSeen, Building, RebuildDue, BuildAhead, BuildSees, View
<1>9. HealthSeen'
  BY <1>3, <1>t DEF Seen, HealthSeen, RebuildDue, BuildAhead
<1>10. QED
  BY <1>4, <1>5, <1>6, <1>7, <1>8, <1>9 DEF IInv, Seen

\* Every step of an informer, of Run, of the timer and of the ticker keeps IInv.
LEMMA NextInv == IInv /\ [Next]_vars => IInv'
<1> SUFFICES ASSUME IInv, [Next]_vars PROVE IInv'
  OBVIOUS
<1>t. TypeOK /\ Phases /\ Counted /\ ReadComplete /\ NeverPartial /\ Seen
  BY DEF IInv
<1>1. CASE Informers
  BY <1>1, InformersInv, DeliverInv DEF Informers
<1>2. CASE SyncDone
  <2> USE <1>2 DEF SyncDone, informers, build, result
  <2>1. TypeOK'
    BY <1>t DEF TypeOK
  <2>2. Phases' /\ Counted'
    BY <1>t DEF Phases, Counted, Building
  <2>3. ReadComplete' /\ NeverPartial'
    BY <1>t DEF ReadComplete, HasRead, NeverPartial
  <2>4. Seen'
    BY DEF Seen, ChangesSeen, HealthSeen, Building
  <2>5. QED
    BY <2>1, <2>2, <2>3, <2>4 DEF IInv
<1>3. CASE SetReady
  BY <1>3, <1>t, StartBuildInv DEF SetReady, TypeOK
<1>4. CASE Tick
  BY <1>4, <1>t, StartBuildInv DEF Tick, TypeOK, Phases
<1>5. CASE DebounceDone
  BY <1>5, <1>t, StartBuildInv DEF DebounceDone, TypeOK, Phases
<1>6. CASE TakeRequest
  <2>1. CASE StartBuild /\ UNCHANGED timer
    BY <1>6, <2>1, <1>t, StartBuildInv DEF TakeRequest, TypeOK, Phases
  <2>2. CASE timer' = "armed" /\ UNCHANGED <<pc, build>>
    <3> USE <1>6, <2>2 DEF TakeRequest, informers, build, result
    <3>1. TypeOK'
      BY <1>t DEF TypeOK
    <3>2. Phases' /\ Counted'
      BY <1>t DEF Phases, Counted
    <3>3. ReadComplete' /\ NeverPartial'
      BY <1>t DEF ReadComplete, HasRead, NeverPartial
    <3>4. Seen'
      BY DEF Seen, ChangesSeen, HealthSeen, BuildAhead, Building
    <3>5. QED
      BY <3>1, <3>2, <3>3, <3>4 DEF IInv
  <2>3. QED
    BY <1>6, <2>1, <2>2 DEF TakeRequest
<1>7. CASE Build
  BY <1>7, ReadCacheInv, BuildFailInv, HealthInv, PublishInv DEF Build
<1>8. CASE TimerExpires
  <2> USE <1>8 DEF TimerExpires, informers, build, result
  <2>1. TypeOK'
    BY <1>t DEF TypeOK
  <2>2. Phases' /\ Counted'
    BY <1>t DEF Phases, Counted
  <2>3. ReadComplete' /\ NeverPartial'
    BY <1>t DEF ReadComplete, HasRead, NeverPartial
  <2>4. RebuildDue' /\ BuildAhead'
    BY DEF RebuildDue, BuildAhead
  <2>5. QED
    BY <2>1, <2>2, <2>3, <2>4 DEF IInv, Seen, ChangesSeen, HealthSeen
<1>9. CASE Stop
  <2> USE <1>9 DEF Stop, informers, build, result
  <2>1. TypeOK'
    BY <1>t DEF TypeOK
  <2>2. Phases' /\ Counted'
    BY <1>t DEF Phases, Counted, Building
  <2>3. ReadComplete' /\ NeverPartial'
    BY <1>t DEF ReadComplete, HasRead, NeverPartial
  <2>4. Seen'
    BY DEF Seen, ChangesSeen, HealthSeen, Building
  <2>5. QED
    BY <2>1, <2>2, <2>3, <2>4 DEF IInv
<1>10. CASE UNCHANGED <<informers, loop, build, result>> /\ cancelled' \in BOOLEAN
  <2> USE <1>10 DEF informers, loop, build, result
  <2>1. TypeOK'
    BY <1>t DEF TypeOK
  <2>2. Phases' /\ Counted'
    BY <1>t DEF Phases, Counted
  <2>3. ReadComplete' /\ NeverPartial'
    BY <1>t DEF ReadComplete, HasRead, NeverPartial
  <2>4. Seen'
    BY <1>t DEF Seen, ChangesSeen, HealthSeen, RebuildDue, BuildAhead, BuildSees, View
  <2>5. QED
    BY <2>1, <2>2, <2>3, <2>4 DEF IInv
<1>11. CASE Cancel
  BY <1>10, <1>11 DEF Cancel
<1>12. CASE UNCHANGED vars
  BY <1>10, <1>12, <1>t DEF vars, TypeOK
<1>13. QED
  BY <1>1, <1>2, <1>3, <1>4, <1>5, <1>6, <1>7, <1>8, <1>9, <1>11, <1>12 DEF Next, Loop

\* The inductive invariant holds in every reachable state.
THEOREM Invariance == Spec => []IInv
<1>1. Init => IInv
  BY InitInv
<1>2. IInv /\ [Next]_vars => IInv'
  BY NextInv
<1>3. QED
  BY <1>1, <1>2, PTL DEF Spec

-----------------------------------------------------------------------------
(* What the invariant gives a reader.                                      *)

\* Every variable keeps its type; a build never reads past the last cache, and
\* one waiting request is all the loop ever has.
THEOREM TypeCorrect == Spec => []TypeOK
<1>1. IInv => TypeOK
  BY DEF IInv
<1>2. QED
  BY <1>1, Invariance, PTL

\* However events, coalesced requests, debounce, ticks and torn reads
\* interleave, a change that the snapshot misses has a build ahead.
THEOREM ChangesReachSnapshot == Spec => []NoLostChange
<1>1. IInv => NoLostChange
  <2> SUFFICES ASSUME IInv, ready, pc # "stopped", NEW r \in Resources
               PROVE  \/ version > 0 /\ Topology[latest.content[r]] = Topology[View(r)]
                      \/ BuildAhead
                      \/ BuildSees(r)
    BY DEF NoLostChange
  <2>1. pc = "idle" \/ pc \in Building
    BY DEF IInv, TypeOK, Phases, Building
  <2>2. RebuildDue => BuildAhead
    BY DEF RebuildDue, BuildAhead
  <2>3. QED
    BY <2>1, <2>2 DEF IInv, Seen, ChangesSeen
<1>2. QED
  BY <1>1, Invariance, PTL

\* A degraded or recovered watch that the snapshot does not show, or shows
\* wrongly, has a build ahead too.
THEOREM HealthReachesSnapshot == Spec => []NoLostHealth
<1>1. IInv => NoLostHealth
  <2> SUFFICES ASSUME IInv, ready, pc # "stopped"
               PROVE  \/ version > 0 /\ latest.health.degraded = degraded
                      \/ BuildAhead
                      \/ pc \in {"read", "health"}
                      \/ pc \in {"flags", "publish"} /\ health.degraded = degraded
    BY DEF NoLostHealth
  <2>1. pc = "idle" \/ pc \in Building
    BY DEF IInv, TypeOK, Phases, Building
  <2>2. RebuildDue => BuildAhead
    BY DEF RebuildDue, BuildAhead
  <2>3. QED
    BY <2>1, <2>2 DEF IInv, Seen, HealthSeen, Building
<1>2. QED
  BY <1>1, Invariance, PTL

\* No snapshot is built from the middle of an initial list.
THEOREM SnapshotsComplete == Spec => []NeverPartial
<1>1. IInv => NeverPartial
  BY DEF IInv
<1>2. QED
  BY <1>1, Invariance, PTL

=============================================================================
