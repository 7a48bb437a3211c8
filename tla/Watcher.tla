------------------------------ MODULE Watcher ------------------------------
(***************************************************************************)
(* How a change of a cached Kubernetes resource becomes a snapshot         *)
(* (internal/k8s/watcher.go and informer_health.go): the informer caches,  *)
(* the calls of rebuildAndPublishWhenReady that event handlers and the     *)
(* health tracker make, the one-slot channel w.rebuildRequests, the        *)
(* debounce timer, and Run: waiting for the caches, the first build, and   *)
(* the rebuild loop that reads the caches one after the other while they   *)
(* go on changing.                                                         *)
(*                                                                         *)
(* The content of a cache is represented by the number of changes made to  *)
(* it; the constant Topology says which contents look the same in the      *)
(* topology.  Time is not modelled: the debounce timer and the resync      *)
(* ticker may fire at any moment.  What happens to a published snapshot is *)
(* the subject of SnapshotFeed.                                            *)
(***************************************************************************)
EXTENDS Naturals, Sequences

CONSTANTS Order,        \* the resources, in the order buildSnapshot reads them
          Optional,     \* those with an optional (Gateway API or F5) informer
          Topology,     \* what is shown of each content of a cache
          Debounced,    \* rebuildDebounce is positive
          MaxChanges,   \* bound on the changes of all caches together
          MaxErrors,    \* bound on the first errors of all watches together
          MaxFailures   \* bound on the failed builds

Resources == {Order[i] : i \in 1 .. Len(Order)}
Required == Resources \ Optional
Contents == 0 .. MaxChanges

ASSUME OrderAssumption ==
  /\ Order \in Seq(Resources)
  /\ Order # <<>>
  /\ \A i, j \in 1 .. Len(Order) : Order[i] = Order[j] => i = j
ASSUME OptionalAssumption == Optional \subseteq Resources
ASSUME DebouncedAssumption == Debounced \in BOOLEAN
ASSUME BoundsAssumption ==
  MaxChanges \in Nat /\ MaxErrors \in Nat /\ MaxFailures \in Nat

VARIABLES
  \* the informers, one per resource
  cache,      \* the content of the informer's store
  synced,     \* HasSynced: the initial list is in the store
  degraded,   \* the resources whose degradedSince is set
  calls,      \* calls of rebuildAndPublishWhenReady not made yet
  \* the rebuild loop
  pc,         \* where Run is
  ready,      \* w.ready
  request,    \* w.rebuildRequests holds a value
  timer,      \* the debounce timer; "off" when debounceC is nil
  cancelled,  \* ctx is done
  \* the build in progress
  at,         \* position in Order of the next cache or flag to read
  read,       \* what the build read of each cache
  health,     \* the degraded resources it read, and those it found synced
  \* its result
  version,    \* w.version, 0 as long as there is no snapshot
  latest,     \* w.latest: the contents it was built from and its health
  failed,     \* the last build returned an error
  \* history and bounds
  complete,   \* the content of each cache when its initial list was complete
  changes, errors, failures

informers == <<cache, synced, degraded, calls, complete, changes, errors>>
loop == <<pc, ready, request, timer>>
build == <<at, read, health>>
result == <<version, latest, failed, failures>>
vars == <<informers, loop, build, result, cancelled>>

NoHealth == [degraded |-> {}, loaded |-> {}]
NothingRead == [r \in Resources |-> 0]

Init ==
  /\ cache = NothingRead
  /\ synced = [r \in Resources |-> FALSE]
  /\ degraded = {}
  /\ calls = 0
  /\ pc = "sync"
  /\ ready = FALSE
  /\ request = FALSE
  /\ timer = "off"
  /\ cancelled = FALSE
  /\ at = 1
  /\ read = NothingRead
  /\ health = NoHealth
  /\ version = 0
  /\ latest = [content |-> NothingRead, health |-> NoHealth]
  /\ failed = FALSE
  /\ complete = NothingRead
  /\ changes = 0
  /\ errors = 0
  /\ failures = 0

-----------------------------------------------------------------------------
(* The informers.                                                          *)

\* The factory starts the required informers before Run waits for them;
\* startOptionalInformers starts the others when that wait is over.  They end
\* with ctx; what they do after Run returned is of no consequence.
Running(r) == pc # "stopped" /\ (r \in Required \/ pc # "sync")

\* The store changes (an item of a list, or a watch event) and the handler of
\* the informer will be called for it.  A change may complete the initial list.
StoreChange(r) ==
  /\ Running(r)
  /\ changes < MaxChanges
  /\ changes' = changes + 1
  /\ cache' = [cache EXCEPT ![r] = @ + 1]
  /\ calls' = calls + 1
  /\ \/ UNCHANGED <<synced, complete>>
     \/ /\ ~synced[r]
        /\ synced' = [synced EXCEPT ![r] = TRUE]
        /\ complete' = [complete EXCEPT ![r] = cache[r] + 1]
  /\ UNCHANGED <<degraded, errors, loop, build, result, cancelled>>

\* The initial list is empty: the informer is synced and no handler is called.
EmptyList(r) ==
  /\ Running(r)
  /\ ~synced[r]
  /\ cache[r] = 0
  /\ synced' = [synced EXCEPT ![r] = TRUE]
  /\ UNCHANGED <<cache, degraded, calls, complete, changes, errors, loop, build, result,
                 cancelled>>

\* recordError: the first list or watch error marks the resource and reports
\* the change after h.mu is released; later ones only count.
RecordError(r) ==
  /\ Running(r)
  /\ r \notin degraded
  /\ errors < MaxErrors
  /\ errors' = errors + 1
  /\ degraded' = degraded \cup {r}
  /\ calls' = calls + 1
  /\ UNCHANGED <<cache, synced, complete, changes, loop, build, result, cancelled>>

\* Plausible bug: a recovery is not reported.
RecordSuccessSilently(r) ==
  /\ Running(r)
  /\ r \in degraded
  /\ degraded' = degraded \ {r}
  /\ UNCHANGED <<cache, synced, calls, complete, changes, errors, loop, build, result,
                 cancelled>>

\* recordSuccess with watching: a watch starts or delivers an event.
RecordSuccess(r) ==
  /\ Running(r)
  /\ r \in degraded
  /\ degraded' = degraded \ {r}
  /\ calls' = calls + 1
  /\ UNCHANGED <<cache, synced, complete, changes, errors, loop, build, result,
                 cancelled>>

\* Plausible bug: calls are ignored until there is a first snapshot.
DeliverWhenPublished ==
  /\ calls > 0
  /\ calls' = calls - 1
  /\ request' = (request \/ (ready /\ version > 0))
  /\ UNCHANGED <<cache, synced, degraded, complete, changes, errors, pc, ready,
                 timer, build, result, cancelled>>

\* rebuildAndPublishWhenReady: nothing before w.ready is set, afterwards a
\* request unless one is waiting already.
Deliver ==
  /\ calls > 0
  /\ calls' = calls - 1
  /\ request' = (request \/ ready)
  /\ UNCHANGED <<cache, synced, degraded, complete, changes, errors, pc, ready,
                 timer, build, result, cancelled>>

Informers ==
  \/ \E r \in Resources :
       StoreChange(r) \/ EmptyList(r) \/ RecordError(r) \/ RecordSuccess(r)
  \/ Deliver

-----------------------------------------------------------------------------
(* Run and its rebuild loop.                                               *)

StartBuild ==
  /\ pc' = "read"
  /\ at' = 1
  /\ read' = NothingRead
  /\ health' = NoHealth

\* waitForCacheSync returns once every required informer has synced, and the
\* optional informers are started.
SyncDone ==
  /\ pc = "sync"
  /\ \A r \in Required : synced[r]
  /\ pc' = "start"
  /\ UNCHANGED <<informers, ready, request, timer, build, result, cancelled>>

\* w.ready is set before the first build reads any cache.
SetReady ==
  /\ pc = "start"
  /\ ready' = TRUE
  /\ StartBuild
  /\ UNCHANGED <<informers, request, timer, result, cancelled>>

\* Plausible bug: a tick drops the debounced request and relies on the next.
TickWithoutBuild ==
  /\ pc = "idle"
  /\ timer' = "off"
  /\ UNCHANGED <<informers, pc, ready, request, build, result, cancelled>>

\* The resync ticker fires: a running debounce is stopped, its build is made now.
Tick ==
  /\ pc = "idle"
  /\ timer' = "off"
  /\ StartBuild
  /\ UNCHANGED <<informers, ready, request, result, cancelled>>

\* Plausible bug: the timer is stopped for the new request but not reset.
TakeRequestStopping ==
  /\ pc = "idle"
  /\ request
  /\ request' = FALSE
  /\ IF ~Debounced
       THEN StartBuild /\ UNCHANGED timer
       ELSE timer' = (IF timer = "off" THEN "armed" ELSE "off") /\ UNCHANGED <<pc, build>>
  /\ UNCHANGED <<informers, ready, result, cancelled>>

\* A request starts the debounce over, or a build if there is no debounce.
TakeRequest ==
  /\ pc = "idle"
  /\ request
  /\ request' = FALSE
  /\ IF ~Debounced
       THEN StartBuild /\ UNCHANGED timer
       ELSE timer' = "armed" /\ UNCHANGED <<pc, build>>
  /\ UNCHANGED <<informers, ready, result, cancelled>>

\* The debounce time passes, whatever the loop is doing.
TimerExpires ==
  /\ timer = "armed"
  /\ timer' = "fired"
  /\ UNCHANGED <<informers, pc, ready, request, build, result, cancelled>>

\* The loop receives from debounceC.
DebounceDone ==
  /\ pc = "idle"
  /\ timer = "fired"
  /\ timer' = "off"
  /\ StartBuild
  /\ UNCHANGED <<informers, ready, request, result, cancelled>>

\* Plausible bug: an optional cache is read before its list is complete.
ReadCacheUnsynced ==
  /\ pc = "read"
  /\ read' = [read EXCEPT ![Order[at]] = cache[Order[at]]]
  /\ IF at < Len(Order)
       THEN at' = at + 1 /\ UNCHANGED pc
       ELSE at' = 1 /\ pc' = "health"
  /\ UNCHANGED <<informers, ready, request, timer, health, result, cancelled>>

\* What a reader finds in a cache: nothing in an optional one whose initial
\* list is not complete, because optionalExternalResources skips it.
View(r) == IF r \in Optional /\ ~synced[r] THEN 0 ELSE cache[r]

\* buildSnapshot lists the next cache.  (The HasSynced test and the List of an
\* optional informer are one step: between them its content can only grow.)
ReadCache ==
  /\ pc = "read"
  /\ read' = [read EXCEPT ![Order[at]] = View(Order[at])]
  /\ IF at < Len(Order)
       THEN at' = at + 1 /\ UNCHANGED pc
       ELSE at' = 1 /\ pc' = "health"
  /\ UNCHANGED <<informers, ready, request, timer, health, result, cancelled>>

\* The build returns an error: it is counted and logged, nothing is published
\* and nothing is scheduled in its place.
BuildFail ==
  /\ pc = "read"
  /\ failures < MaxFailures
  /\ failures' = failures + 1
  /\ failed' = TRUE
  /\ pc' = "idle"
  /\ at' = 1
  /\ read' = NothingRead
  /\ UNCHANGED <<informers, ready, request, timer, health, version, latest, cancelled>>

\* snapshotHealth copies the states of all resources under h.mu ...
CopyHealth ==
  /\ pc = "health"
  /\ health' = [degraded |-> degraded, loaded |-> {}]
  /\ pc' = "flags"
  /\ UNCHANGED <<informers, ready, request, timer, at, read, result, cancelled>>

\* Plausible bug: the iteration over the resources goes one too far.
ReadFlagPastEnd ==
  /\ pc = "flags"
  /\ LET r == Order[at]
     IN  health' = IF r \in health.degraded /\ synced[r]
                   THEN [health EXCEPT !.loaded = @ \cup {r}]
                   ELSE health
  /\ IF at <= Len(Order)
       THEN at' = at + 1 /\ UNCHANGED pc
       ELSE at' = 1 /\ pc' = "publish"
  /\ UNCHANGED <<informers, ready, request, timer, read, result, cancelled>>

\* ... and asks each informer whether it has synced after releasing it.
ReadFlag ==
  /\ pc = "flags"
  /\ LET r == Order[at]
     IN  health' = IF r \in health.degraded /\ synced[r]
                   THEN [health EXCEPT !.loaded = @ \cup {r}]
                   ELSE health
  /\ IF at < Len(Order)
       THEN at' = at + 1 /\ UNCHANGED pc
       ELSE at' = 1 /\ pc' = "publish"
  /\ UNCHANGED <<informers, ready, request, timer, read, result, cancelled>>

Shown(content) == [r \in Resources |-> Topology[content[r]]]

\* Under w.mu: a snapshot like the latest one is dropped, another one gets the
\* next version.  sameHealth compares the resources and their synced flags.
Publish ==
  /\ pc = "publish"
  /\ IF version > 0 /\ Shown(latest.content) = Shown(read) /\ latest.health = health
       THEN UNCHANGED <<version, latest>>
       ELSE /\ version' = version + 1
            /\ latest' = [content |-> read, health |-> health]
  /\ failed' = FALSE
  /\ pc' = "idle"
  /\ read' = NothingRead
  /\ health' = NoHealth
  /\ UNCHANGED <<informers, ready, request, timer, at, failures, cancelled>>

\* Plausible bug: only the rebuild loop watches ctx, not the wait for the caches.
StopLoop ==
  /\ cancelled
  /\ pc = "idle"
  /\ pc' = "stopped"
  /\ timer' = "off"
  /\ UNCHANGED <<informers, ready, request, build, result, cancelled>>

\* The select of waitForCacheSync or of the loop chooses ctx.Done(); the
\* deferred stopDebounce runs.
Stop ==
  /\ cancelled
  /\ pc \in {"sync", "idle"}
  /\ pc' = "stopped"
  /\ timer' = "off"
  /\ UNCHANGED <<informers, ready, request, build, result, cancelled>>

\* The process is told to end.
Cancel ==
  /\ ~cancelled
  /\ cancelled' = TRUE
  /\ UNCHANGED <<informers, loop, build, result>>

Build == ReadCache \/ BuildFail \/ CopyHealth \/ ReadFlag \/ Publish

Loop == SyncDone \/ SetReady \/ TakeRequest \/ DebounceDone \/ Build

Next == Informers \/ Loop \/ TimerExpires \/ Tick \/ Stop \/ Cancel

\* Handlers are called, the debounce time passes, the goroutine of Run makes
\* its steps, and a select that finds ctx.Done() ready again and again chooses
\* it some day.  Nothing is assumed of the cluster: no change, list, recovery
\* or cancellation has to happen.  The resync ticker is not relied on.
Fairness ==
  /\ WF_vars(Deliver)
  /\ WF_vars(TimerExpires)
  /\ WF_vars(Loop)
  /\ SF_vars(Stop)

Spec == Init /\ [][Next]_vars /\ Fairness

\* The same with a ticker that goes on ticking.
TickingSpec == Spec /\ WF_vars(Tick)

-----------------------------------------------------------------------------
Health == [degraded : SUBSET Resources, loaded : SUBSET Resources]

\* Every variable has its type; in particular one request at most is waiting
\* and a build stays within the resources it has to read.
TypeOK ==
  /\ cache \in [Resources -> Contents]
  /\ synced \in [Resources -> BOOLEAN]
  /\ degraded \subseteq Resources
  /\ calls \in Nat
  /\ pc \in {"sync", "start", "idle", "read", "health", "flags", "publish", "stopped"}
  /\ ready \in BOOLEAN
  /\ request \in BOOLEAN
  /\ timer \in {"off", "armed", "fired"}
  /\ cancelled \in BOOLEAN
  /\ at \in 1 .. Len(Order)
  /\ read \in [Resources -> Contents]
  /\ health \in Health
  /\ version \in Nat
  /\ latest \in [content : [Resources -> Contents], health : Health]
  /\ failed \in BOOLEAN
  /\ complete \in [Resources -> Contents]
  /\ changes \in Contents
  /\ errors \in 0 .. MaxErrors
  /\ failures \in 0 .. MaxFailures

\* Something that will lead to a build from the start, or that only a resync
\* makes up for: a handler call, a request, a running debounce, a failed build.
BuildAhead ==
  \/ calls > 0
  \/ request
  \/ timer # "off"
  \/ failed

Position(r) == CHOOSE i \in 1 .. Len(Order) : Order[i] = r

\* The build in progress has read, or will read, the present content.
BuildSees(r) ==
  \/ pc = "read" /\ at <= Position(r)
  \/ /\ pc \in {"read", "health", "flags", "publish"}
     /\ Topology[read[r]] = Topology[View(r)]

\* No change is lost: whenever the latest snapshot does not show the present
\* content of a cache, a build that will is under way or still to come, whatever
\* the interleaving of events, coalesced requests, debounce and torn reads.
NoLostChange ==
  ready /\ pc # "stopped" =>
    \A r \in Resources :
      \/ version > 0 /\ Topology[latest.content[r]] = Topology[View(r)]
      \/ BuildAhead
      \/ BuildSees(r)

\* The same for watch health, which a build reads after the caches: a resource
\* that degrades or recovers does not stay wrong in the snapshot.
NoLostHealth ==
  ready /\ pc # "stopped" =>
    \/ version > 0 /\ latest.health.degraded = degraded
    \/ BuildAhead
    \/ pc \in {"read", "health"}
    \/ pc \in {"flags", "publish"} /\ health.degraded = degraded

\* A cache whose initial list is not complete never contributes to a snapshot:
\* required caches are complete before the first one, optional ones are left
\* out until they are.
NeverPartial ==
  version > 0 =>
    \A r \in Resources :
      IF r \in Required \/ latest.content[r] > 0
        THEN synced[r] /\ latest.content[r] >= complete[r]
        ELSE TRUE

\* When nothing is left to do, a degraded resource that the snapshot reports as
\* not loaded was never listed.
NotLoadedMeansNeverListed ==
  pc = "idle" /\ version > 0 /\ ~BuildAhead =>
    \A r \in latest.health.degraded \ latest.health.loaded : ~synced[r]

\* The latest snapshot shows what the caches and the watches are like now.
Fresh ==
  /\ version > 0
  /\ Shown(latest.content) = [r \in Resources |-> Topology[View(r)]]
  /\ latest.health.degraded = degraded

\* Without any help of the resync ticker the snapshot catches up with the
\* caches for good once they stop changing, unless the last build failed.
EventuallyFresh == <>[](ready => Fresh \/ failed \/ pc = "stopped")

\* With the ticker the snapshot recovers from failed builds too, and its
\* not-loaded flags become right.
EventuallyExact ==
  <>[](ready => \/ pc = "stopped"
                \/ /\ Fresh
                   /\ latest.health.loaded = {r \in degraded : synced[r]})

\* Cancellation ends Run, also while a cache never syncs.
CancelStops == cancelled ~> pc = "stopped"

=============================================================================
