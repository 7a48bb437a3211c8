---------------------- MODULE OptionalInformers_proofs ----------------------
(***************************************************************************)
(* Proofs about OptionalInformers, for any table of resources, any         *)
(* grouping of them and any number of changes, failures and errors.        *)
(***************************************************************************)
EXTENDS OptionalInformers, TLAPS

-----------------------------------------------------------------------------
(* The inductive invariant.                                                *)

\* What syncOptionalInformers wants holds one version of a resource, and once
\* its first loop is done nothing else runs.
WantedOnce ==
  /\ \A g, h \in wanted : ResourceOf[g] = ResourceOf[h] => g = h
  /\ pc = "start" => Gvrs(informers) \subseteq wanted

\* The snapshot that is out, or the one a build will put out, shows what runs
\* and has synced, unless a rebuild is requested or SyncDone will request it.
Pending == request \/ (pc # "idle" /\ changed)

Follows ==
  /\ ~building => Pending \/ shown = informers \cap synced
  /\ building => Pending \/ copied \cap synced = informers \cap synced

IInv ==
  /\ TypeOK
  /\ WantedOnce
  /\ OneInformerPerResource
  /\ HealthOfRunning
  /\ Follows

-----------------------------------------------------------------------------
(* The operators.                                                          *)

\* preferredOptionalResources never keeps two versions of one resource.
LEMMA PreferredOnce ==
  ASSUME NEW listed \in SUBSET GVRs
  PROVE  /\ Preferred(listed) \subseteq listed
         /\ \A g, h \in Preferred(listed) : ResourceOf[g] = ResourceOf[h] => g = h
<1>1. Preferred(listed) \subseteq listed
  BY DEF Preferred
<1>2. ASSUME NEW g \in Preferred(listed), NEW h \in Preferred(listed),
             ResourceOf[g] = ResourceOf[h]
      PROVE  g = h
  <2>1. PICK k \in 1 .. Len(Preference) : Preference[k] = g
    BY <1>1 DEF GVRs
  <2>2. PICK l \in 1 .. Len(Preference) : Preference[l] = h
    BY <1>1 DEF GVRs
  <2>3. g \in listed /\ h \in listed
    BY <1>1
  <2>4. k <= l /\ l <= k
    BY <1>2, <2>1, <2>2, <2>3 DEF Preferred
  <2>5. k = l
    BY <2>4
  <2>6. QED
    BY <2>1, <2>2, <2>5
<1>3. QED
  BY <1>1, <1>2

\* An informer that is started is none of those that ran before.
LEMMA FreshInstance ==
  ASSUME TypeOK, NEW g \in GVRs
  PROVE  /\ [gvr |-> g, n |-> started] \notin Instances
         /\ [gvr |-> g, n |-> started] \in [gvr : GVRs, n : 0 .. started]
         /\ Instances \subseteq [gvr : GVRs, n : 0 .. started]
         /\ [gvr |-> g, n |-> started].gvr = g
BY DEF TypeOK, Instances

-----------------------------------------------------------------------------
(* One step.                                                               *)

\* Nothing runs and nothing is wanted at first.
LEMMA InitInv == Init => IInv
<1> SUFFICES ASSUME Init PROVE IInv
  OBVIOUS
<1> USE DEF Init
<1>1. TypeOK
  <2>1. /\ started \in Nat
        /\ changes \in 0 .. MaxChanges
        /\ failures \in 0 .. MaxChanges
        /\ errors \in 0 .. MaxErrors
    BY BoundsAssumption
  <2>2. QED
    BY <2>1, Zenon DEF TypeOK
<1>2. WantedOnce /\ OneInformerPerResource /\ Follows
  BY DEF WantedOnce, OneInformerPerResource, Follows
<1>3. HealthOfRunning
  BY DEF HealthOfRunning
<1>4. QED
  BY <1>1, <1>2, <1>3 DEF IInv

\* Every step of the syncer, an informer or the rebuild loop keeps IInv.
LEMMA NextInv == IInv /\ [Next]_vars => IInv'
<1> SUFFICES ASSUME IInv, [Next]_vars PROVE IInv'
  OBVIOUS
<1> USE DEF syncer, running, health, builder
<1>t. TypeOK /\ WantedOnce /\ OneInformerPerResource /\ HealthOfRunning /\ Follows
  BY DEF IInv
<1>1. CASE ServedChange
  <2> USE <1>1 DEF ServedChange
  <2>1. TypeOK'
    BY <1>t, BoundsAssumption DEF TypeOK, Instances
  <2>2. WantedOnce' /\ OneInformerPerResource' /\ HealthOfRunning' /\ Follows'
    BY <1>t DEF WantedOnce, OneInformerPerResource, HealthOfRunning, Follows, Pending,
       Gvrs, Name
  <2>3. QED
    BY <2>1, <2>2 DEF IInv
<1>2. CASE Discover
  <2> USE <1>2 DEF Discover
  <2>1. PICK failing \in SUBSET Groups :
          /\ failing = {} \/ changes + failures < MaxChanges
          /\ failures' = failures + (IF failing = {} THEN 0 ELSE 1)
          /\ unlisted' = failing
          /\ wanted' = Preferred({g \in served : GroupOf[g] \notin failing})
    OBVIOUS
  <2>2. /\ wanted' \subseteq GVRs
        /\ \A g, h \in wanted' : ResourceOf[g] = ResourceOf[h] => g = h
    <3>1. {g \in served : GroupOf[g] \notin failing} \in SUBSET GVRs
      BY <1>t DEF TypeOK
    <3>2. QED
      BY <2>1, <3>1, PreferredOnce
  <2>3. failures' \in 0 .. MaxChanges
    BY <2>1, <1>t, BoundsAssumption DEF TypeOK
  <2>4. TypeOK'
    BY <2>1, <2>2, <2>3, <1>t DEF TypeOK, Instances
  <2>5. WantedOnce'
    BY <2>2 DEF WantedOnce
  <2>6. OneInformerPerResource' /\ HealthOfRunning'
    BY <1>t DEF OneInformerPerResource, HealthOfRunning, Name
  <2>7. Follows'
    BY <1>t DEF Follows, Pending
  <2>8. QED
    BY <2>4, <2>5, <2>6, <2>7 DEF IInv
<1>3. ASSUME NEW i \in informers, StopInformer(i)
      PROVE  IInv'
  <2> USE <1>3 DEF StopInformer
  <2>1. TypeOK'
    BY <1>t DEF TypeOK, Instances
  <2>2. WantedOnce'
    BY <1>t DEF WantedOnce
  <2>3. OneInformerPerResource'
    BY <1>t DEF OneInformerPerResource, Name
  <2>4. HealthOfRunning'
    <3>1. \A j \in informers : Name(j) = Name(i) => j = i
      BY <1>t DEF OneInformerPerResource
    <3>2. {Name(j) : j \in informers \ {i}} = {Name(j) : j \in informers} \ {Name(i)}
      BY <3>1
    <3>3. {Name(j) : j \in informers}' = {Name(j) : j \in informers'}
      BY DEF Name
    <3>4. QED
      BY <3>2, <3>3, <1>t DEF HealthOfRunning
  <2>5. Follows'
    BY <1>t DEF Follows, Pending
  <2>6. QED
    BY <2>1, <2>2, <2>3, <2>4, <2>5 DEF IInv
<1>4. CASE StopsDone
  <2> USE <1>4 DEF StopsDone
  <2>1. TypeOK'
    BY <1>t DEF TypeOK, Instances
  <2>2. WantedOnce'
    BY <1>t DEF WantedOnce, Gvrs
  <2>3. OneInformerPerResource' /\ HealthOfRunning' /\ Follows'
    BY <1>t DEF OneInformerPerResource, HealthOfRunning, Name, Follows, Pending
  <2>4. QED
    BY <2>1, <2>2, <2>3 DEF IInv
<1>5. ASSUME NEW g \in GVRs, StartInformer(g)
      PROVE  IInv'
  <2> USE <1>5 DEF StartInformer
  <2> DEFINE new == [gvr |-> g, n |-> started]
  <2>1. /\ new \notin Instances
        /\ new \in [gvr : GVRs, n : 0 .. started]
        /\ Instances \subseteq [gvr : GVRs, n : 0 .. started]
        /\ new.gvr = g
    BY <1>t, FreshInstance
  <2>2. Instances' = [gvr : GVRs, n : 0 .. started]
    <3>1. started' - 1 = started
      BY <1>t DEF TypeOK
    <3>2. QED
      BY <3>1 DEF Instances
  <2>3. informers' = informers \cup {new}
    OBVIOUS
  <2>4. /\ started' \in Nat
        /\ new \notin informers /\ new \notin stopped /\ new \notin synced
    BY <2>1, <1>t DEF TypeOK
  <2> HIDE DEF new
  <2>5. TypeOK'
    <3>1. tracked' \subseteq Names /\ degraded' \subseteq Names
      BY <1>t DEF TypeOK, Names
    <3>2. /\ informers' \subseteq Instances'
          /\ stopped' \subseteq Instances'
          /\ synced' \subseteq Instances'
          /\ copied' \subseteq Instances'
          /\ shown' \subseteq Instances'
      BY <2>1, <2>2, <2>3, <1>t DEF TypeOK
    <3>3. informers' \cap stopped' = {}
      BY <2>3, <2>4, <1>t DEF TypeOK
    <3>4. QED
      BY <3>1, <3>2, <3>3, <2>4, <1>t DEF TypeOK
  <2>6. WantedOnce'
    BY <2>1, <2>3, <1>t DEF WantedOnce, Gvrs
  <2>7. OneInformerPerResource'
    <3>1. \A i \in informers : i.gvr \in wanted /\ i.gvr # g
      BY <1>t DEF WantedOnce, Gvrs
    <3>2. \A i \in informers : Name(i) # Name(new)
      BY <2>1, <3>1, <1>t DEF WantedOnce, Name
    <3>3. QED
      BY <2>3, <3>2, <1>t DEF OneInformerPerResource, Name
  <2>8. HealthOfRunning'
    <3>1. Name(new) = ResourceOf[g]
      BY <2>1 DEF Name
    <3>2. {Name(i) : i \in informers'} = {Name(i) : i \in informers} \cup {ResourceOf[g]}
      BY <2>3, <3>1
    <3>3. {Name(i) : i \in informers}' = {Name(i) : i \in informers'}
      BY DEF Name
    <3>4. QED
      BY <3>2, <3>3, <1>t DEF HealthOfRunning
  <2>9. Follows'
    <3>1. informers' \cap synced = informers \cap synced
      BY <2>3, <2>4
    <3>2. QED
      BY <3>1, <1>t DEF Follows, Pending
  <2>10. QED
    BY <2>5, <2>6, <2>7, <2>8, <2>9 DEF IInv
<1>6. CASE SyncDone
  <2> USE <1>6 DEF SyncDone
  <2>1. TypeOK'
    BY <1>t DEF TypeOK, Instances
  <2>2. WantedOnce' /\ OneInformerPerResource' /\ HealthOfRunning'
    BY <1>t DEF WantedOnce, OneInformerPerResource, HealthOfRunning, Name
  <2>3. Follows'
    BY <1>t DEF Follows, Pending, TypeOK
  <2>4. QED
    BY <2>1, <2>2, <2>3 DEF IInv
<1>7. ASSUME NEW i \in informers \cup stopped, InitialList(i)
      PROVE  IInv'
  <2> USE <1>7 DEF InitialList
  <2>1. TypeOK'
    BY <1>t DEF TypeOK, Instances
  <2>2. WantedOnce' /\ OneInformerPerResource' /\ HealthOfRunning' /\ Follows'
    BY <1>t DEF WantedOnce, OneInformerPerResource, HealthOfRunning, Follows, Pending,
       Gvrs, Name
  <2>3. QED
    BY <2>1, <2>2 DEF IInv
<1>8. ASSUME NEW i \in informers \cup stopped, RecordError(i)
      PROVE  IInv'
  <2> USE <1>8 DEF RecordError
  <2>1. TypeOK'
    BY <1>t, BoundsAssumption DEF TypeOK, Instances
  <2>2. WantedOnce' /\ OneInformerPerResource' /\ HealthOfRunning' /\ Follows'
    BY <1>t DEF WantedOnce, OneInformerPerResource, HealthOfRunning, Follows, Pending,
       Gvrs, Name
  <2>3. QED
    BY <2>1, <2>2 DEF IInv
<1>9. ASSUME NEW i \in informers \cup stopped, RecordSuccess(i)
      PROVE  IInv'
  <2> USE <1>9 DEF RecordSuccess
  <2>1. TypeOK'
    BY <1>t DEF TypeOK, Instances
  <2>2. WantedOnce' /\ OneInformerPerResource' /\ HealthOfRunning' /\ Follows'
    BY <1>t DEF WantedOnce, OneInformerPerResource, HealthOfRunning, Follows, Pending,
       Gvrs, Name
  <2>3. QED
    BY <2>1, <2>2 DEF IInv
<1>10. ASSUME NEW i \in informers \cup stopped, Ended(i)
       PROVE  IInv'
  <2> USE <1>10 DEF Ended
  <2>1. TypeOK'
    BY <1>t DEF TypeOK, Instances
  <2>2. WantedOnce' /\ OneInformerPerResource' /\ HealthOfRunning' /\ Follows'
    BY <1>t DEF WantedOnce, OneInformerPerResource, HealthOfRunning, Follows, Pending,
       Gvrs, Name
  <2>3. QED
    BY <2>1, <2>2 DEF IInv
<1>11. CASE CopyInformers
  <2> USE <1>11 DEF CopyInformers
  <2>1. TypeOK'
    BY <1>t DEF TypeOK, Instances
  <2>2. WantedOnce' /\ OneInformerPerResource' /\ HealthOfRunning'
    BY <1>t DEF WantedOnce, OneInformerPerResource, HealthOfRunning, Gvrs, Name
  <2>3. Follows'
    BY DEF Follows
  <2>4. QED
    BY <2>1, <2>2, <2>3 DEF IInv
<1>12. CASE ListInformers
  <2> USE <1>12 DEF ListInformers
  <2>1. TypeOK'
    BY <1>t DEF TypeOK, Instances
  <2>2. WantedOnce' /\ OneInformerPerResource' /\ HealthOfRunning'
    BY <1>t DEF WantedOnce, OneInformerPerResource, HealthOfRunning, Gvrs, Name
  <2>3. Follows'
    BY <1>t DEF Follows, Pending
  <2>4. QED
    BY <2>1, <2>2, <2>3 DEF IInv
<1>13. CASE UNCHANGED vars
  <2> USE <1>13 DEF vars
  <2>1. TypeOK'
    BY <1>t DEF TypeOK, Instances
  <2>2. WantedOnce' /\ OneInformerPerResource' /\ HealthOfRunning' /\ Follows'
    BY <1>t DEF WantedOnce, OneInformerPerResource, HealthOfRunning, Follows, Pending,
       Gvrs, Name
  <2>3. QED
    BY <2>1, <2>2 DEF IInv
<1>14. QED
  BY <1>1, <1>2, <1>3, <1>4, <1>5, <1>6, <1>7, <1>8, <1>9, <1>10, <1>11, <1>12, <1>13
     DEF Next, Syncer

\* The inductive invariant holds in every reachable state.
THEOREM Invariance == Spec => []IInv
<1>1. Init => IInv
  BY InitInv
<1>2. IInv /\ [Next]_vars => IInv'
  BY NextInv
<1>3. QED
  BY <1>1, <1>2, PTL DEF Spec

-----------------------------------------------------------------------------
(* What the invariant gives a reader.                                      *)

\* Every variable keeps its type; an informer that was told to stop is never in
\* w.optionalInformers again.
THEOREM TypeCorrect == Spec => []TypeOK
<1>1. IInv => TypeOK
  BY DEF IInv
<1>2. QED
  BY <1>1, Invariance, PTL

\* However the served versions of a resource change, two informers never run
\* for it at a time.
THEOREM OneInformer == Spec => []OneInformerPerResource
<1>1. IInv => OneInformerPerResource
  BY DEF IInv
<1>2. QED
  BY <1>1, Invariance, PTL

\* Late outcomes of stopped informers, reported under the name of a resource,
\* neither bring its health state back nor lose that of its new informer.
THEOREM HealthExact == Spec => []HealthOfRunning
<1>1. IInv => HealthOfRunning
  BY DEF IInv
<1>2. QED
  BY <1>1, Invariance, PTL

\* A stopped informer's objects leave the topology, and those of a synced one
\* enter it, with the latest snapshot or with a build that is due.
THEOREM SnapshotUpToDate == Spec => []SnapshotFollows
<1>1. IInv => SnapshotFollows
  BY DEF IInv, TypeOK, Follows, Pending, SnapshotFollows
<1>2. QED
  BY <1>1, Invariance, PTL

=============================================================================
