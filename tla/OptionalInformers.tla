------------------------- MODULE OptionalInformers -------------------------
(***************************************************************************)
(* The Gateway API and F5 informers of Watcher (internal/k8s/watcher.go,   *)
(* dynamic_resources.go): syncOptionalInformers asks discovery which       *)
(* resources are served, stops the informers that are not wanted any more  *)
(* and starts the missing ones, again and again, while the informers list  *)
(* and watch, report their health under the name of their resource, and    *)
(* the rebuild loop reads their caches.                                    *)
(*                                                                         *)
(* An informer is an instance: a group-version-resource and a number, so   *)
(* that a stopped informer is told from the one started after it.  The     *)
(* informers that have no objects are left out: nothing here depends on    *)
(* when their empty list is complete.                                      *)
(***************************************************************************)
EXTENDS Integers, Sequences, FiniteSets

CONSTANTS Preference,    \* optionalTopologyResources: GVRs, preferred ones first
          ResourceOf,    \* the group-resource of a GVR, which names its health
          GroupOf,       \* the API group of a GVR
          Enabled,       \* the groups switched on by gatewayAPI and f5
          MaxChanges,    \* bound on the changes of what the cluster serves and
                         \* the discoveries that fail in part, together
          MaxErrors      \* bound on the first watch errors

GVRs == {Preference[k] : k \in 1 .. Len(Preference)}
Groups == {GroupOf[g] : g \in GVRs}
Names == {ResourceOf[g] : g \in GVRs}

ASSUME PreferenceAssumption ==
  /\ Preference \in Seq(GVRs)
  /\ \A k, l \in 1 .. Len(Preference) : Preference[k] = Preference[l] => k = l
ASSUME BoundsAssumption ==
  MaxChanges \in Nat /\ MaxErrors \in Nat

VARIABLES
  served,     \* the GVRs that the cluster lists as preferred
  pc,         \* syncOptionalInformers: "idle", or under the mutex "stop", "start"
  wanted,     \* its set of the same name
  changed,    \* its flag of the same name
  informers,  \* w.optionalInformers
  stopped,    \* instances told to stop whose goroutines may still run
  started,    \* number of informers started so far
  synced,     \* instances whose initial list is in their store
  tracked,    \* the optional keys of h.resources
  degraded,   \* those with degradedSince set
  request,    \* a rebuild was requested (see Watcher)
  building,   \* a build has copied w.optionalInformers
  copied,     \* that copy
  shown,      \* the instances whose objects are in the latest snapshot
  unlisted,   \* history: groups the last discovery could not list
  changes, failures, errors

syncer == <<pc, wanted, changed, unlisted, failures>>
running == <<informers, stopped, started>>
health == <<tracked, degraded>>
builder == <<building, copied, shown>>
vars == <<served, syncer, running, synced, health, request, builder, changes, errors>>

Name(i) == ResourceOf[i.gvr]
Gvrs(instances) == {i.gvr : i \in instances}

Init ==
  /\ served = {}
  /\ pc = "idle"
  /\ wanted = {}
  /\ changed = FALSE
  /\ informers = {}
  /\ stopped = {}
  /\ started = 0
  /\ synced = {}
  /\ tracked = {}
  /\ degraded = {}
  /\ request = FALSE
  /\ building = FALSE
  /\ copied = {}
  /\ shown = {}
  /\ unlisted = {}
  /\ changes = 0
  /\ failures = 0
  /\ errors = 0

-----------------------------------------------------------------------------
(* The cluster.                                                            *)

\* CRDs are installed, removed, or served in another preferred version.
ServedChange ==
  /\ changes + failures < MaxChanges
  /\ changes' = changes + 1
  /\ served' \in (SUBSET GVRs) \ {served}
  /\ UNCHANGED <<syncer, running, synced, health, request, builder, errors>>

-----------------------------------------------------------------------------
(* syncOptionalInformers.                                                  *)

\* Plausible bug: every listed version of a resource is kept.
AllVersions(listed) == {g \in listed : GroupOf[g] \in Enabled}

\* preferredOptionalResources, filtered by the enabled providers: of each
\* group-resource, the first listed GVR in the order of the table.
Preferred(listed) ==
  {g \in listed :
     /\ GroupOf[g] \in Enabled
     /\ \A k, l \in 1 .. Len(Preference) :
          /\ Preference[k] = g
          /\ Preference[l] \in listed
          /\ ResourceOf[Preference[l]] = ResourceOf[g]
          => k <= l}

\* Plausible bug: a group that could not be listed is not asked for again.
DiscoverRemembering ==
  /\ pc = "idle"
  /\ \E failing \in SUBSET Groups :
       /\ failing = {} \/ changes + failures < MaxChanges
       /\ failures' = failures + (IF failing = {} THEN 0 ELSE 1)
       /\ unlisted' = failing \cup unlisted
       /\ wanted' = Preferred({g \in served : GroupOf[g] \notin unlisted'})
  /\ pc' = "stop"
  /\ changed' = FALSE
  /\ UNCHANGED <<served, running, synced, health, request, builder, changes, errors>>

\* ServerPreferredResources lists what is served, without the groups it could
\* not reach: an error is ignored as long as something was listed, and the
\* core groups always are.  (When nothing is, the call returns at once and
\* nothing changes.)  Then the mutex is taken.
Discover ==
  /\ pc = "idle"
  /\ \E failing \in SUBSET Groups :
       /\ failing = {} \/ changes + failures < MaxChanges
       /\ failures' = failures + (IF failing = {} THEN 0 ELSE 1)
       /\ unlisted' = failing
       /\ wanted' = Preferred({g \in served : GroupOf[g] \notin failing})
  /\ pc' = "stop"
  /\ changed' = FALSE
  /\ UNCHANGED <<served, running, synced, health, request, builder, changes, errors>>

\* Plausible bug: the informer is stopped but stays in the map.
StopInformerKeeping(i) ==
  /\ pc = "stop"
  /\ i \in informers \ stopped
  /\ i.gvr \notin wanted
  /\ stopped' = stopped \cup {i}
  /\ tracked' = tracked \ {Name(i)}
  /\ degraded' = degraded \ {Name(i)}
  /\ changed' = TRUE
  /\ UNCHANGED <<served, pc, wanted, unlisted, failures, informers, started, synced,
                 request, builder, changes, errors>>

\* The first loop, for an informer that is not wanted: it is told to stop,
\* removed from the map and its health forgotten.
StopInformer(i) ==
  /\ pc = "stop"
  /\ i \in informers
  /\ i.gvr \notin wanted
  /\ informers' = informers \ {i}
  /\ stopped' = stopped \cup {i}
  /\ tracked' = tracked \ {Name(i)}
  /\ degraded' = degraded \ {Name(i)}
  /\ changed' = TRUE
  /\ UNCHANGED <<served, pc, wanted, unlisted, failures, started, synced, request,
                 builder, changes, errors>>

StopsDone ==
  /\ pc = "stop"
  /\ Gvrs(informers) \subseteq wanted
  /\ pc' = "start"
  /\ UNCHANGED <<served, wanted, changed, unlisted, failures, running, synced, health,
                 request, builder, changes, errors>>

\* Plausible bug: the missing informers are started before the others stop.
StartInformerEarly(g) ==
  /\ pc \in {"stop", "start"}
  /\ g \in wanted \ Gvrs(informers)
  /\ started' = started + 1
  /\ informers' = informers \cup {[gvr |-> g, n |-> started]}
  /\ tracked' = tracked \cup {ResourceOf[g]}
  /\ degraded' = degraded \ {ResourceOf[g]}
  /\ UNCHANGED <<served, syncer, stopped, synced, request, builder, changes, errors>>

\* The second loop, for a wanted GVR without informer: runOptionalInformer
\* tracks it with a new health state and starts it.
StartInformer(g) ==
  /\ pc = "start"
  /\ g \in wanted \ Gvrs(informers)
  /\ started' = started + 1
  /\ informers' = informers \cup {[gvr |-> g, n |-> started]}
  /\ tracked' = tracked \cup {ResourceOf[g]}
  /\ degraded' = degraded \ {ResourceOf[g]}
  /\ UNCHANGED <<served, syncer, stopped, synced, request, builder, changes, errors>>

\* Plausible bug: only started informers lead to a rebuild.
SyncDoneSilently ==
  /\ pc = "start"
  /\ wanted \subseteq Gvrs(informers)
  /\ pc' = "idle"
  /\ UNCHANGED <<served, wanted, changed, unlisted, failures, running, synced, health,
                 request, builder, changes, errors>>

\* A rebuild is requested if an informer was stopped, and the mutex released.
SyncDone ==
  /\ pc = "start"
  /\ wanted \subseteq Gvrs(informers)
  /\ pc' = "idle"
  /\ request' = (request \/ changed)
  /\ UNCHANGED <<served, wanted, changed, unlisted, failures, running, synced, health,
                 builder, changes, errors>>

Syncer ==
  \/ \E i \in informers : StopInformer(i)
  \/ StopsDone
  \/ \E g \in GVRs : StartInformer(g)
  \/ SyncDone

-----------------------------------------------------------------------------
(* The informers.  One that was told to stop may still do what it was      *)
(* about to do.                                                            *)

\* The initial list is complete, and a handler requests a rebuild.
InitialList(i) ==
  /\ i \in (informers \cup stopped) \ synced
  /\ synced' = synced \cup {i}
  /\ request' = TRUE
  /\ UNCHANGED <<served, syncer, running, health, builder, changes, errors>>

\* recordError finds the state by name, whichever instance reports.
RecordError(i) ==
  /\ i \in informers \cup stopped
  /\ Name(i) \in tracked \ degraded
  /\ errors < MaxErrors
  /\ errors' = errors + 1
  /\ degraded' = degraded \cup {Name(i)}
  /\ request' = TRUE
  /\ UNCHANGED <<served, syncer, running, synced, tracked, builder, changes>>

\* recordSuccess of a watch, likewise.
RecordSuccess(i) ==
  /\ i \in informers \cup stopped
  /\ Name(i) \in degraded
  /\ degraded' = degraded \ {Name(i)}
  /\ request' = TRUE
  /\ UNCHANGED <<served, syncer, running, synced, tracked, builder, changes, errors>>

\* The goroutines of a stopped informer have ended.
Ended(i) ==
  /\ i \in stopped
  /\ stopped' = stopped \ {i}
  /\ UNCHANGED <<served, syncer, informers, started, synced, health, request, builder,
                 changes, errors>>

-----------------------------------------------------------------------------
(* The rebuild loop, as far as optionalExternalResources is concerned.     *)

\* It copies the map under the mutex; a build may also be due to the ticker.
CopyInformers ==
  /\ ~building
  /\ pc = "idle"
  /\ request' = FALSE
  /\ building' = TRUE
  /\ copied' = informers
  /\ UNCHANGED <<served, syncer, running, synced, health, shown, changes, errors>>

\* It lists the copied informers that have synced, and the snapshot is out.
ListInformers ==
  /\ building
  /\ building' = FALSE
  /\ copied' = {}
  /\ shown' = copied \cap synced
  /\ UNCHANGED <<served, syncer, running, synced, health, request, changes, errors>>

Next ==
  \/ ServedChange
  \/ Discover
  \/ Syncer
  \/ \E i \in informers \cup stopped :
       InitialList(i) \/ RecordError(i) \/ RecordSuccess(i) \/ Ended(i)
  \/ CopyInformers
  \/ ListInformers

\* Discovery is repeated by a ticker, what has begun is finished, and a
\* requested rebuild takes place (see Watcher).  No list has to succeed.
Spec ==
  /\ Init
  /\ [][Next]_vars
  /\ WF_vars(Discover)
  /\ WF_vars(Syncer)
  /\ SF_vars(request /\ CopyInformers)
  /\ WF_vars(ListInformers)

-----------------------------------------------------------------------------
Instances == [gvr : GVRs, n : 0 .. started - 1]

\* Every variable has its type; in particular an informer that was told to stop
\* is not in the map of the running ones any more.
TypeOK ==
  /\ served \subseteq GVRs
  /\ pc \in {"idle", "stop", "start"}
  /\ wanted \subseteq GVRs
  /\ changed \in BOOLEAN
  /\ started \in Nat
  /\ informers \subseteq Instances
  /\ stopped \subseteq Instances
  /\ informers \cap stopped = {}
  /\ synced \subseteq Instances
  /\ tracked \subseteq Names
  /\ degraded \subseteq Names
  /\ request \in BOOLEAN
  /\ building \in BOOLEAN
  /\ copied \subseteq Instances
  /\ shown \subseteq Instances
  /\ unlisted \subseteq Groups
  /\ changes \in 0 .. MaxChanges
  /\ failures \in 0 .. MaxChanges
  /\ errors \in 0 .. MaxErrors

\* A group-resource never has two informers, not even while one preferred
\* version replaces another: they would share one health state, and their
\* objects would be in the topology twice.
OneInformerPerResource ==
  \A i, j \in informers : Name(i) = Name(j) => i = j

\* Health is kept for exactly the resources that have an informer: replacing
\* one does not lose the state of its successor, and a late error of a stopped
\* one does not bring back a resource that is gone.
HealthOfRunning ==
  /\ tracked = {Name(i) : i \in informers}
  /\ degraded \subseteq tracked

\* The snapshot shows the synced informers and nothing of stopped ones, or a
\* build that makes it so is under way or requested.
SnapshotFollows ==
  pc = "idle" =>
    \/ shown = informers \cap synced
    \/ request
    \/ building /\ copied \cap synced = informers \cap synced

\* When the cluster stops changing and no group fails to be listed any more,
\* the informers that run are the preferred ones of what it serves, and no
\* other's objects are shown: those that a discovery stopped because it could
\* not list their group are running again.
Converges ==
  <>[](/\ Gvrs(informers) = Preferred(served)
       /\ shown \subseteq informers)

\* A discovery that fails for a group keeps the informers of that group.
FailedDiscoveryKeepsInformers ==
  [][\A i \in informers : GroupOf[i.gvr] \in unlisted => i \in informers']_vars

=============================================================================
