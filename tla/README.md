# NorthScope: a formal model

NorthScope watches a Kubernetes cluster and shows how traffic reaches its Pods.
One Go process keeps informer caches of the cluster, builds a *topology
snapshot* from them whenever something changes, and pushes the snapshot to
browsers over WebSockets. This directory holds TLA+ modules of that process and of the
browser at the other end, the
TLC configurations that check them on small instances, and TLAPS proofs of what
matters most. Line numbers refer to the files under `src/`.

## 1. The system

```
 API server --list/watch--> informers --events--> rebuildRequests --debounce--> build
                               |                                                 |
                               +--outcomes--> informerHealth ---- health --------+
                                                                                 v
 browser <--WebSocket-- handleTopologyStream <--channel-- subscribers <-- publish (w.mu)
```

| Component | State | Operations | Interacts with | Hard parts | What makes it correct |
|---|---|---|---|---|---|
| Snapshot feed (`internal/k8s/watcher.go`) | `version`, `latest`, `subscribers` under `mu` | `Subscribe`, `unsubscribe`, publish loop of `rebuildAndPublishContext` | stream handlers receive without the lock | full channels, receivers running between two selects, close against send | the publisher never blocks, nobody misses the latest snapshot, no stream goes back |
| Rebuild loop (`watcher.go`) | `ready`, `rebuildRequests`, debounce timer, ticker | `Run`, `waitForCacheSync`, `runRebuildLoop`, `rebuildAndPublishWhenReady`, `buildSnapshot` | event handlers, health, feed | dropped and coalesced requests, torn reads, failed builds, cancellation | no change is lost; partial lists are not shown; the snapshot catches up |
| Watch health (`informer_health.go`) | per resource: `degradedSince`, last success and error, `hasSynced` | `track`, `untrack`, `recordSuccess`, `recordError`, `snapshotHealth`, `sameHealth` | reflectors, rebuild loop, optional informers | flags read after the lock, late outcomes | the snapshot tells which parts may be stale |
| Optional informers (`watcher.go`, `dynamic_resources.go`) | `optionalInformers` under `optionalResourceMu` | `syncOptionalInformers`, `runOptionalInformer`, `optionalExternalResources` | discovery, health, rebuild loop | CRDs come, go and change version; discovery fails in part | one informer per resource, health of exactly the running ones, stopped ones disappear |
| Observed watch (`informer_health.go`) | `done`, `result` | `forward`, `Stop` | reflector | goroutine leaks | every forwarder ends |
| Topology builder (`builder*.go` in `internal/k8s`) | none: a function of what the caches hold | `BuildTopologyWithOptions`, `diagnoseIngressRoute`, `collectRouteOverlaps`, endpoint statistics, controller inference | rebuild loop | lists in map order; the same facts computed in several places; Endpoints and EndpointSlices; canaries and conflicts of several Ingresses | what is shown as working can be followed to where the traffic goes; conflicts are told; the same objects give the same snapshot |
| Traffic scope (`topology_inputs.go`, `snapshot.go`) | none | `scopeTrafficInputs` before the build, `ingressScopedSnapshot` after it | builder | two filters with rules of their own | the first changes nothing that the second shows; only traffic is shown |
| HTTP server and streams (`internal/server`) | one handler per connection | `handleTopologyStream`, session, status, metrics | feed, authentication, browser | select over several sources, session expiry, peers lost without notice | handlers end with their peers and sessions |
| Authentication and login throttle (`internal/auth`) | token buckets per client and proxy; stateless sessions | sign-in, `allow`, `fail`, `issue`, `verify` | server | sign-ins running at the same time, overflow bucket, pruning, requests with older clocks | failures are bounded, Retry-After is right, only failures throttle or take tokens |
| Browser stream (`ui/src/hooks/useTopologyStream.ts`, `ui/src/auth.ts`) | snapshot, socket, timer | `acceptSnapshot`, reconnect, session probe, unmount | server | restarts and other replicas count versions from 1, unmount during a probe | never stuck on an old process, never goes back, signs in when it must |
| Browser views, chart, CI | - | rendering, packaging | - | - | not modelled |

## 2. Modules

| Module | What it is |
|---|---|
| `LatestFeed` | abstract specification: what the feed promises a client, without channels and locks |
| `SnapshotFeed` | the publish/subscribe code; implements `LatestFeed` |
| `Watcher` | caches, events, health, debounce, builds, publication or not |
| `OptionalInformers` | rediscovery and replacement of the Gateway API and F5 informers |
| `KubeObjects` | the objects in the caches, selectors, node IDs |
| `Endpoints` | the pods and addresses behind a Service, endpoint statistics |
| `Controllers` | which controller handles an Ingress, which Services are its entry |
| `RouteOverlaps` | conflicts and canaries of several Ingresses |
| `RouteDiagnosis` | what is said about one route |
| `Topology` | the build: all nodes and edges |
| `TrafficScope` | both filters, and so the contents of a snapshot |
| `TopologyBuild` | a small machine around them: relist, rebuild; the properties |
| `TopologyStream` | the WebSocket handlers of one or more processes, which may end and be replaced, and the network |
| `BrowserStream` | the page at the other end; composed with `TopologyStream` |
| `LoginThrottle` | sign-ins and both throttles |
| `..._proofs` | theorems about `SnapshotFeed`, `Watcher`, `OptionalInformers`, `BrowserStream`, `LoginThrottle`, and about the builder: `Topology`, `TrafficScope` and `TopologyBuild`, with their proofs |
| `MC...` | instances of these for TLC |

How they fit together. `Watcher` says *when* a snapshot is built and treats its
contents as opaque; `TopologyBuild` says *what* is in it and treats the time as
arbitrary. `SnapshotFeed` says how snapshots reach a handler and implements
`LatestFeed`; `TopologyStream` uses what `LatestFeed` promises (what a handler
takes is newer than before and the latest comes in the end) instead of the
channel protocol, and says how handlers live and die. `BrowserStream` extends it
by the page. `LoginThrottle` stands alone: of a sign-in the streams see only that
a new session begins.

### SnapshotFeed

`version`, `subscribers` and `channel` are `w.version`, the keys of
`w.subscribers` and their buffers; a snapshot is its version. The publisher is
the `pc` machine `range -> drop -> send` under `w.mu` (lines 450-460), one step
per `select` or send, so that `Receive`, which takes no lock, runs between any
two of them. `Subscribe` and `Unsubscribe` take the lock and need
`pc = "unlocked"`. `got` and `since` are history: what a client received last,
and the version at its subscription. A handler that returns and comes back is a
new subscription with a new channel, as in the code.

### Watcher

The content of a cache is a count of its changes; the constant `Topology` says
which contents look alike, which is what `sameTopology` compares (so a change
can be undone, or not show at all). `calls` counts calls of
`rebuildAndPublishWhenReady` that a handler or the health tracker has yet to
make: client-go updates a store first and calls handlers later, from other
goroutines, and `recordError` and `recordSuccess` report a change after they
released `h.mu`. `pc` follows `Run`: `sync` (waiting), `start`, `idle` (the
select), `read` (one step per cache, in the order of `buildSnapshot`),
`health` and `flags` (`snapshotHealth` copies the states under `h.mu` and asks
`hasSynced` afterwards, one by one), `publish`, `stopped`. `Tick`,
`TakeRequest` and `DebounceDone` are the cases of the select. A timer that was
stopped leaves no value behind (Go 1.23 and later; `go.mod` asks for a newer
version), so one variable is enough for it.

Taken together because nothing can tell them apart: `HasSynced` and `List` of one
optional informer (between them the content only grows); the load of `ready`
and the send in `rebuildAndPublishWhenReady` (`ready` is never reset).

External: the client-go informers. Assumed of them is that a store is updated
before its handlers are called, that every change leads to a call, that an
informer has synced exactly when the last item of the initial list is in the
store, and that an empty list syncs without a call.

### OptionalInformers

`syncOptionalInformers` is `Discover` (the request to the API server, before
the mutex), then `StopInformer` for each unwanted informer, then
`StartInformer` for each missing one, then `SyncDone`. An informer is an
instance, a GVR with a number, because a stopped one may still report
something while its successor runs: `stopped` holds those. `copied` is the copy
of the map a build takes under the mutex and lists after releasing it. The
sends of `rebuildAndPublishWhenReady` are one flag here; how a request becomes a
build is the subject of `Watcher`.

### The builder (`KubeObjects` to `TopologyBuild`)

These modules are operators over a *cluster*, a record of what the informers'
caches hold (described in `KubeObjects`). A graph is a pair of functions, like
`nodesByID` and `edgesByID`: from node IDs to what the node shows, and from edge
IDs (source, target, kind) to the label, so that two `addEdge` calls with one ID
overwrite each other as they do in the code. Lists whose order the builder can
observe, Ingresses and pods, are sequences; the others are sets.

Abstracted, because no property tells it apart:

* labels are sets and a selector matches when it is contained in them;
* the text matching of controller inference: a Service has a set of words (its
  name, namespace, labels and those of its pods), a class a set of identity
  tokens; the scores and thresholds are those of the code;
* `safeID` (`builder_helpers.go:359`), through which addresses go on their way into
  node IDs (lines 238-257), is treated as one-to-one on the addresses of one object.
  On IPv4 addresses it is. It writes a dash for a dot and for a colon, so in an
  EndpointSlice of host names `a.b` and `a-b` share one node, which shows the state of
  the last; `ReadyRouteHasBackend` says nothing of such a slice;
* the path of a route stands for path and path type; a route ID holds the
  position of the path in the Ingress;
* a diagnosis is the name of the finding and its severity, a node's properties
  are the fields they are printed from.

An endpoint with an empty address gets no node, but an edge (`builder_nodes.go:330,370`
against `builder.go:318-324,349-355`). The API server admits no empty address in an
EndpointSlice or Endpoints, so a cluster is assumed to have none (`Addressed`, a part of
`IsCluster`); that no edge dangles rests on it.

Kept as in the code: the order in which findings are tried, the default backend
and repeated locations of one Ingress that take no part in overlaps, the fall
back from EndpointSlices to Endpoints per Service, conditions that default when
they are not set, the reference by name that wins over the address, the watch
scope that turns a missing reference into a note, DNS nodes for the hosts of all
rules, those without paths too.

`TopologyBuild` has two actions. `Relist` puts the lists into another order, as
reading a map does; `Rebuild` is `buildSnapshot`. The initial states are the
clusters of the instance, which makes each property a statement about all of
them.

### TopologyStream and BrowserStream

A connection (`Slots`) has a handler, which is in its `select` or writing, and a
`link`, what the network makes of it. The Service gives it to any replica that
runs, `home`, each with a cache and versions of its own; a session is signed with a key
that all of them share. `Upgrade` is the handshake that the
middleware lets through, up to the loop; `Refuse` is the 401, or a process that
has ended. `Take` and `Write` are the snapshot case of the select, `Expire`
the timer of the session, `PeerGone` a failed read, write or ping or the pong
deadline; all of them end with the deferred calls in `End`. `Cut` loses a
connection without telling anybody: the server notices by the pong deadline, the
browser when its TCP gives up. `Crash` and `Start` replace a process by
another: a new instance ID, versions from 1. `seen` and `before` are history: the latest
version of each process that was shown since the page was loaded, and the processes that
had ended when one started. Sign-out clears a cookie and leaves sessions alone
(`SECURITY.md:44`); to the page it is the same as an unmount.

The page is single-threaded; each action is one event handler: `Connect`,
`OnMessage`, `OnClose` (which sends the probe), `HandleProbe` (its answer, which
may come after the page is gone), `Unmount`. `AnswerProbe` is the server's side
of `/api/session`. `SignIn` loads the page anew, with a new session; what the page shows
is gone when it is left (`Leave`).

The subscription of a handler is not a variable here: it is given back by the
deferred call in `End`, once, because each handler ends once. What is at stake is
that it ends at all, `HandlersEnd`; that a channel is not used after it was closed is
`TypeOK` of `SnapshotFeed`.

### LoginThrottle

A request reads the clock once (`Submit`), passes `allow` of the client throttle
and of the proxy throttle, compares the credentials, and then either signs in or
passes `fail` of both: each is an action of its own, because each takes the lock
of one throttle for itself. A token is divided into units, the refill of one
tick, so amounts are whole numbers. The `failures` of a bucket, `retryAt` and the
`void` mark of a request are history.

What the properties say and do not say:

* `FailuresBounded` is *burst + refills* with a slack of one failure for every
  other request that is under way, at each refill: all requests that pass `allow`
  before the first of them has failed are let in by one token
  (`auth.go:197-205`). `docs/production-access.md:58` gives the budget without
  this slack ("5 failed attempts, then one more every 30 seconds"), which is
  right for requests made one after the other. It counts the failures charged to
  a bucket since that bucket was made, and says nothing about two cases in which
  more failures pass: clients that were let in while the table had room are all
  charged to the shared bucket once the table is full; and a full bucket that one
  request prunes may be made anew by a request that read the clock earlier
  (`throttle.go:88,97`), so it is refilled for a time that had already passed.
* `RetryAfterSuffices` promises nothing to a client, nor to the clients of a
  proxy, without a bucket of its own in a full table: its bucket may be pruned when
  it is full again, and the shared one be empty.
* `OnlyFailuresCharge` compares, over each step, the tokens a client or proxy would be
  found to have, whatever bucket holds them. So it says what pruning may do: a bucket
  that is dropped before it is full would give its tokens back, and one that looks at
  the clock of a late request must not. One case is excepted: in a full table a client
  whose full bucket is dropped comes to share the overflow bucket, and may find less.
* The client of a request that comes through a trusted proxy is the address the
  proxy appended. `docs/troubleshooting.md:85` still says that clients behind an
  ingress controller share its address and its limit; `production-access.md:58`
  and the code say otherwise.

## 3. Runs

Bounds are constants of the modules (`MaxVersion`, `MaxChanges`, `MaxErrors`,
`MaxFailures`, `MaxInstances`, `MaxFaults`) and appear in the guards of the actions that
they stop. Two of them bound two things together: `MaxChanges` of `OptionalInformers`
the changes of what is served and the discoveries that fail, `MaxFaults` the lost
connections and the times a user signs in.

| Run | Instance | What it shows |
|---|---|---|
| `feed_safety` | 3 clients (symmetric), buffer 2, 4 publications | the slow path of a full channel is entered for several clients in one publication, with receivers in between; the four safety properties hold |
| `feed_live` | 2 clients, buffer 0 (raised to 1), 3 publications | every connected client catches up; the protocol implements `LatestFeed` with its fairness |
| `rebuild_safety` | one required and one optional cache, 3 changes, 1 error, 1 failed build, debounce | no change of topology or health is lost, no partial list is shown |
| `rebuild_live` | the same, 2 changes, no failure | events alone bring the snapshot up to date |
| `rebuild_ticking` | no debounce, 1 change, 1 error, 1 failure, ticker | failed builds and stale flags are repaired; cancellation ends `Run` |
| `not_loaded_flag` | expected violation | finding 1 |
| `optional_informers` | one resource in two versions, one of the other provider, 2 changes of what is served or discoveries that fail for some groups or all, 1 error | single informers, health of the running ones; snapshot and informers converge, also after a discovery that failed |
| `partial_discovery` | expected violation, the same instance | finding 2 |
| `topology` | five families of clusters, 2 to 3 Ingresses, Services and pods each, listed in every order | scoping loses nothing, no dangling edges, stable rebuilds, conflicts told, canaries drawn where they act, ready routes lead to something able to serve, references explained |
| `topology_order` | expected violation, the family with canaries | finding 3 |
| `streams` | 2 connections, 2 processes: one replica that is replaced, or two; 2 snapshots of each, 2 faults | from one process to the other and back, the page never goes back and catches up; handlers end with peer and session; signed-out pages redirect |
| `login` | 2 requests at a time, a client behind a proxy and one without, burst 2 and 3, tables full after 1 bucket, 2 ticks | failures bounded, Retry-After right, only failures throttle and take tokens |

Why these bounds are enough to be interesting. Four publications into channels
of two make a full channel, a drop, and a second drop of the same channel. In
`MCWatcher` the second change of a cache undoes the first and the third does not
show, so "changed while unpublished", "changed back" and "changed without
effect" all occur, during each step of a build, with the two positions of the
reading order on either side. Two changes of what is served are an installation
followed by a removal or an upgrade, of any subset of the resources; a change and a
failed discovery are an installation whose informers are stopped for no reason and must
come back.

The families of `MCTopology` each vary what one part of the builder looks at:
`workloads` (selectors, pods that are ready or not, share an address or have
none, six sets of slices, one with an address in two of them, with and without
legacy Endpoints), `competing` (three Ingresses that share or do not share
locations and Services, older and younger, canaries or not), `attached` (an HTTPRoute with parents, backends, grants, one or
two watched namespaces), `exposures` (a Service that may be the controller's,
known by class, annotation, words or address) and `appliances` (F5 resources).
Three Ingresses are the least with which a canary can be attached to a backend
that another location shares, and with which two canaries meet one primary.

Two connections are what one page needs: its own, and one that the server has
not given up yet. Two processes, two snapshots each, are enough for a page to
hold a version that the new process has not reached. Two faults are two lost connections,
which take a page from one replica to the other and back, or one and a new session, or
two new sessions. Two replicas one of which ends and is replaced would be three processes
and are left to the theorem about `ShownNeverGoesBack`.
In `login` the table is full
after the first bucket, so the other client meets pruning and the overflow
bucket at once; two ticks refill a whole token of the client throttle.

Deadlock is checked in the runs of `SnapshotFeed` and `OptionalInformers`, whose
receivers and whose discovery can always go on. The other configurations say
`CHECK_DEADLOCK FALSE`: `TopologyBuild`, `BrowserStream` and `LoginThrottle` end where
their bounds do (a page that was left, the last request), `Watcher` where its bounds or a
cancellation end everything. That `Run` itself does not hang is what `EventuallyFresh` and
`CancelStops` say.

### Fairness

* `SnapshotFeed`: weak fairness of the publisher (a goroutine that can run
  does) and, per client, of receiving: a handler does not sit on a snapshot for
  ever, because its writes carry a deadline (`server.go:356`); it comes back to
  the channel, or returns and unsubscribes. An idle handler need not return,
  nobody has to subscribe, and nothing has to be published.
* `Watcher`: weak fairness of handler calls, of the timer and of `Run`'s own
  steps; strong fairness of the cancellation case, since Go's select chooses
  among ready cases at random. Nothing is assumed of the cluster. The resync
  ticker is fair only in `TickingSpec`.
* `OptionalInformers`: weak fairness of discovery (a ticker), of what
  `syncOptionalInformers` has begun and of a started build; strong fairness of a
  requested build, which waits for a mutex that discovery takes again and again
  (`sync.Mutex` does not starve a waiter). No list has to succeed.
* `BrowserStream`: weak fairness of the steps of each handler, of the page's event
  handlers (which includes that the browser notices a lost connection in the
  end), of noticing a dead peer (the pong deadline) and of the restart of a
  process that ended; strong fairness of `Expire`, since select chooses at random
  among ready cases. Nobody has to publish, to expire, to sign in or to leave.
* `TopologyBuild` and `LoginThrottle` state safety only and no fairness.

## 4. Findings

1. **`(not loaded)` can be stale** (`not_loaded_flag`).
   `docs/troubleshooting.md:98` says it "means the resource was never listed".
   An empty initial list that completes while the resource is degraded (list
   allowed, watch forbidden) changes the flag without an event or a recovery, so
   the snapshot keeps it until another build, at the latest the resync tick.
   `rebuild_ticking` shows that the tick repairs it.
2. **A discovery that fails for one group stops its informers**
   (`partial_discovery`). The comment at `watcher.go:653` says that a failed
   discovery keeps the current informers; the code does so only if nothing was
   listed at all (`watcher.go:601`).

3. **The order of a list can decide what is published** (`topology_order`).
   `builder_test.go:1620` says that the same cluster state must build the same
   snapshot regardless of input order. An edge's ID has no label, so two canary
   Ingresses with different rules and one Service draw one canary edge, with the
   rule of the one that was listed last (`builder.go:255-262`); each rebuild that
   lists them in another order is published. Two pods with one IP have the same
   effect (`builder.go:115`). `StableRebuild` says that nothing
   else has: `topology` checks it, `RebuildsAreStable` proves it for every cluster.

## 5. Proofs

Six state machines are proved about, for every value of their constants, from the
assumptions that the modules name and TLC evaluates. For each, a proof module states
one inductive invariant `IInv`, the theorem `Spec => []IInv` (`Invariance`; in
`TopologyBuild_proofs` it is `Inductive`) with one step per action, and the properties
that follow. `IInv` was checked by TLC on the
instances of section 3 before it was proved. None of the properties is inductive by
itself; what has to be added to each is the interesting part:

**`SnapshotFeed_proofs`** (any clients, buffer size, number of publications; from
`BufferAssumption`, `MaxVersionAssumption`, `NoClientAssumption`).

* `StreamInOrder` needs that an unfinished subscriber holds nothing of the
  current version (otherwise a send would repeat it); `LatestReachesSubscribers`
  needs that only an unfinished subscriber is ever in the slow path (otherwise
  the drop could lose the latest snapshot); `SendNeverBlocks` needs the capacity
  bound. `PublisherInv` and `ChannelInv` say this.
* `TypeCorrect`, `PublisherNeverBlocks`, `LatestDelivered`, `StreamOrdered` are the
  four invariants of `feed_safety`; `FeedImplementsLatestFeed` adds the initial
  states and steps of `LatestFeed`.
* The argument rests on three lemmas about one channel (`SendKeepsOrder`,
  `DropKeepsOrder`, `ReceiveKeepsOrder`).

**`Watcher_proofs`** (any resources in any order of reading, any of them optional,
with or without debounce, any function from contents to topology).

* `NeverPartial` needs `ReadComplete`: once a build has read a required cache it
  holds a complete list of it, because the build started after all required caches
  had synced (`Phases`) and a cache never loses its initial list (`Counted`).
* `NoLostChange` and `NoLostHealth` need to say where in a build a change is still
  seen. `ChangesSeen`: during a build, either something that outlasts it leads to
  another one (a pending call, a request, a running timer), or the build has read,
  or has yet to read, each cache as it is; between builds the snapshot shows it or
  a build is ahead. `HealthSeen` is the same for the copy of the degraded flags.
  A failed build does not count as something that leads to another one: the flag
  is cleared by the next build that succeeds, which is why `RebuildDue` is weaker
  than the `BuildAhead` of the properties.

**`OptionalInformers_proofs`** (any table of resources and versions, any changes of
what is served).

* `OneInformerPerResource` needs `WantedOnce`: a discovery wants one version of a
  resource, and once the unwanted informers are stopped only wanted ones are left.
* `SnapshotFollows` needs `Follows`, which also speaks of a build that copied the
  map of informers before one of them was stopped or synced.
* `HealthOfRunning` is inductive together with the types.

**`BrowserStream_proofs`** (any connections, replicas, publications, restarts and
sessions; from `BoundsAssumption` and `NoneAssumption`, which says that `None` is no
connection).

* `ShownNeverGoesBack` is a statement about steps. It needs to say what may still
  arrive. `WireInv`: what is under way on a connection comes from the process that serves
  it, is sorted, and no newer than what its handler has sent. `SeenInv`: of no process the
  page has shown anything newer than what an open connection to it may still bring, and
  the process at the other end had not ended before the one that is shown began.
  `ProcessInv` gives the last part when a connection is made: what ended before some
  process began does not run. `LinkInv` is what makes the first, unseen, snapshot of a new
  connection safe: the page holds one connection at a time, and nothing is delivered from
  those it gave up.
* `SilentAfterLeaving` needs `PageInv`: which of timer, socket and probe can be
  under way on a page that is mounted or was left.

**`LoginThrottle_proofs`** (any clients, proxies and requests, any budgets, any
number of buckets, any finite number of requests at a time; from
`BudgetAssumption` and `RequestAssumption`).

* `FailuresBounded` is an amortised bound: no state says by itself how many
  failures a bucket has been charged. `Paid` adds a number `g`, how often the
  bucket was emptied while other requests it had let in were still comparing their
  credentials. The first failure uses up the token that let them in; the others, at
  most one for each other request under way, fail without a token and leave the
  bucket empty, so that a whole token must be refilled before it happens again:
  `g` is bounded by the time, and the failures by burst, time and `g`.
  `WithinBudget` says that there is such a `g`, `Side` says it of all buckets of
  one throttle, given the number of requests that each has let in.
* `OnlyFailuresThrottle` needs `Earned`: tokens that are missing were taken by
  failures, also of a bucket that is newer than the request that uses it.
* `RetryAfterSuffices` needs `Promises` (of each answer with a Retry-After, that
  the buckets it was computed from have a token by then, `Ready`) and
  `PromisesToCome` (the same of a request between the two throttles, whose
  first wait was computed before). That prune, refill and another request's `allow`
  keep a bucket ready is a lemma each.
* `OnlyFailuresCharge` needs that no bucket is ahead of the clock (`Past`, of `TypeOK`):
  then refilling it to the time of a late request changes nothing that is found later
  (`LevelKept`), and a bucket that is full to that request is full. `OnlyLowers` says what
  a step does to a table but for the key it is about, and `BalanceLowered` that a balance
  then falls only with that key, or by coming to share the overflow bucket.
* Both throttles are one set of lemmas: `AllowedOf` and `ChargeOf` say what `allow` and
  `fail` do to a table of buckets.

**`TrafficScope_proofs`** and **`Topology_proofs`** (any graph; any cluster) are about
the operators that the machine of `TopologyBuild` is made of.

* `VisitedIsReachable`: the breadth-first search of `ingressScopedSnapshot`, written
  as a recursive function on pairs of sets, returns on every finite graph the least
  set that has the roots and is closed under the edges that are followed. Each round
  takes nodes out of the finite set of those not yet seen; the theorem is about the
  fixed point, so the order in which the queue is worked through makes no difference.
* `PartsSuffice`: a part of a graph (`PartOf`) that has all its roots, and every
  followed edge that leaves a node it has, shows the same. Nothing is said of what else
  was left out, which is what makes it fit `scopeTrafficInputs`.
  `TopologyBuild_proofs` needs both halves: what is reachable is shown, and what holds
  of the roots and is kept by each step holds of all that is shown.
* A build is a union of some twenty families of nodes and as many of edges
  (`Merge`). A lemma for each says what its keys are (`WorkloadNodesAre`, ...) and
  where its edges lead. `EndsAreDrawn` matches the ones against the others, given that no endpoint address is empty;
  `EdgesByKind` and `EdgeShapes` say from an edge of the whole graph which family
  it is of.

**`TopologyBuild_proofs`** (any set of clusters that satisfies
`ClustersAssumption`). The assumption says what an informer's store guarantees: it
holds finitely many objects with finitely many parts, one for each namespace and
name, a lister returns each once, creation times and names can be compared, Services
have names, a pod is in one of the five phases of the API, the rules of an Ingress are a
list, and no endpoint address is empty. That there is one object for each kind and name
among the Gateway API and F5 resources is what `OneInformerPerResource` is for.

* `IInv` says that the caches hold such a cluster and that the published snapshot was
  built from the same objects *in some order*. The last words are needed, because
  `Relist` changes the order after a publication: "the snapshot is that of the caches"
  is not inductive. Every property is then proved of the snapshot of one list order
  against the objects of another.
* `OnlyTrafficIsShown` needs `Justified`, an invariant of the traversal and
  stronger than the property: that no Service is reached from its own load balancer or
  node port. These lead to the Service only when it is not the entry of a controller,
  and are drawn as the targets of what is followed only when it is one.
* `ConflictsAreShown`, `SplitsFollowBackends` and `WorkingCanariesAreDrawn` rest on
  `SameControllers` and `SameOverlaps`: `scopeTrafficInputs` drops Services and pods,
  but none that `inferStatusController` looks at, so every Ingress has the controller,
  and every location the competitors, that it would have in the whole cluster.
  `WorkingCanariesAreDrawn` also needs that `oldestOverlapRoute` finds one of any
  finite, non-empty set of routes (`OldestExists`).
* `ReferencesAreExplained` and `TypeCorrect` need that no two families draw nodes with
  one ID (`RouteIs`, `IngressRouteIs`): the status shown of a route is the one
  computed for it.
* `ScopingIsSafe` compares two whole builds. `ScopedIsKept` says of the scoped inputs
  what the builder can tell (`Keeps`): all Ingresses and other routes are there, each
  Service that one of them names, what the choice of controllers looks at, all slices,
  Endpoints and pods behind a kept Service, and the node of a kept pod. From `Keeps`
  alone, a lemma for each family of nodes and edges gives `KeptIsPart`: the scoped build
  is a part of the whole one in the sense of `PartsSuffice`, so the traversal shows the
  same of both.
* `RebuildsAreStable` uses the same family lemmas in both directions: a cluster and the
  same cluster listed in another order keep all of each other. What can depend on order
  are two loops that write to one key, and these are the two conditions of
  `StableRebuild`: with addresses of their own, the last pod with an address is the only
  one (`OnlyPodWithIP`); and if all canary links with one ID come from one Ingress, there
  is a last one (`LastExists`), whichever it is, and each has the rule of that Ingress.
* `ReadyRoutesAreServed` relates two computations over the same objects: the status of a
  route comes from counters (`DiagnoseEndpoints`), what can be followed from the loops
  that draw pods and endpoints. `ScopingIsSafe` lets it argue about the build from
  everything (`WholeShows`). If a Service has a selector, its counters are of pods, and a
  ready pod is drawn behind it; if not, its usable endpoints were counted among the
  slices, or among the Endpoints when it has no slices, and one that was counted is drawn
  (`UsableIsDrawn`) in the state it was counted in (`EndpointStates`).
* `UsableAreAddressed` maps what was counted into the addresses: the map is an injection
  because an address is counted once (`CountedOnce`).
* The last two, where they speak of endpoints, need `ListedOnce`: an address is listed
  once among the slices of a Service. The API allows an endpoint to be in two slices
  while it moves; `collectEndpointStats` then counts it twice, and of the two states it
  may have the node shows one. So the properties say `ListedOnce =>`; one of the slice
  sets of `workloads` violates it.

What stays with TLC, and why. The invariants of all runs that pass are proved.

* Liveness, since the prover has no ENABLED: `EventuallyCurrent` and the fairness of
  `LatestFeed`, `EventuallyFresh`, `EventuallyExact`, `CancelStops`, `Converges`, and the
  temporal properties of `streams` (`SignedOutIsRedirected`, `HandlersEnd`,
  `PageEventuallyCurrent`).
* The examples of section 4 are counterexamples and need no proof.

## 6. Not modelled

* Rendering, packaging, logging, metrics text, static files, security headers and
  Kubernetes client configuration have no behaviour worth a model.
* Error texts, counters and times of the health tracker: `sameHealth` ignores
  them. The read accessors `Latest`, `Ready`, `Metrics` and `Status` only copy.
* Of the builder: texts, hints and commands, colours, positions, TLS Secrets,
  the tokenizing of names, `firstNonEmpty` and similar choices of a label.
* Parsing of Gateway API and F5 objects from unstructured data
  (`dynamic_resources.go`), and the conversion of v1beta1 EndpointSlices
  (`endpointslice_compat.go`): field by field, without interaction.
* The format of session tokens, cookies, redirect targets and origin checks. A
  session is valid until it has expired; how that is encoded makes no difference
  to the streams.
* The polling hooks of the page for session, version and watcher status; the
  back-off delay (any time may pass before a reconnect).
* `observedWatch` and how long a debounce may be put off: see the plan.

## 7. Plan

1. `ObservedWatch`: the forwarding goroutine of a watch, its two channels and
   `Stop`, that none leaks and that events keep their order.
2. `RebuildTiming`: the debounce in discrete time; how long a change may stay
   unpublished while events keep coming.
