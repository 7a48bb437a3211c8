--------------------------- MODULE TopologyStream ---------------------------
(***************************************************************************)
(* The WebSocket streams of NorthScope (internal/server/server.go): one    *)
(* handler for each connection, which the middleware let in with a         *)
(* session, and which ends when its peer is gone, when its session         *)
(* expires, or with the process.  One or more replicas run behind a        *)
(* Service, which gives a connection to any of them; each has an informer  *)
(* cache of its own.  A process that ends is replaced by one with another  *)
(* instance ID, which counts versions from 1 again.  A session is signed   *)
(* with a key that all replicas share.                                     *)
(*                                                                         *)
(* The feed behind a handler is LatestFeed: what it takes from its channel *)
(* is newer than what it took before, and the latest comes in the end.     *)
(* The other end of the connections is in BrowserStream.                   *)
(***************************************************************************)
EXTENDS Integers, Sequences

CONSTANTS Slots,         \* connections that can exist at a time, numbered
          Replicas,      \* bound on the processes that run at a time
          MaxVersion,    \* bound on the snapshots of one process
          MaxInstances,  \* bound on the processes, replacements included
          MaxFaults      \* bound on the connections that are lost without
                         \* notice and the times a user signs in, together

ASSUME BoundsAssumption ==
  /\ Slots # {} /\ Slots \subseteq Nat
  /\ MaxVersion \in Nat \ {0} /\ MaxInstances \in Nat \ {0}
  /\ Replicas \in 1 .. MaxInstances
  /\ MaxFaults \in Nat

VARIABLES
  live,      \* the instances that are running
  started,   \* number of instances started so far
  missing,   \* number of those that ended and are not replaced yet
  before,    \* history: of each instance, those that ended before it started
  version,   \* the latest snapshot of each instance; 0 before the first
  session,   \* the session of the browser's cookie
  valid,     \* that session has not expired
  handler,   \* of each connection: "none", "select" or "writing"
  home,      \* the instance that serves it
  owner,     \* the session that authorized it, 0 without a handler
  taken,     \* what it takes from its channel is newer than this version
  link,      \* each connection as the network has it, see Links
  wire,      \* snapshots sent and not yet received, <<instance, version>>
  cuts       \* number of cuts so far

server == <<live, started, missing, before, version>>
sessions == <<session, valid>>
handlers == <<handler, home, owner, taken>>
network == <<link, wire, cuts>>
streamVars == <<server, sessions, handlers, network>>

Instances == 1 .. MaxInstances

\* "request": the handshake is on its way; "open"; "ended": closed by the
\* server; "left": closed by the browser; "cut": lost, and nobody is told;
\* "lost": the browser has given up a connection that is cut.
Links == {"idle", "request", "open", "ended", "left", "cut", "lost"}
Gone(k) == link[k] \in {"left", "cut", "lost"}

StreamInit ==
  /\ started \in 1 .. Replicas /\ live = 1 .. started /\ missing = 0
  /\ before = [i \in Instances |-> {}]
  /\ version = [i \in Instances |-> 0]
  /\ session = 1 /\ valid = TRUE
  /\ handler = [k \in Slots |-> "none"]
  /\ home = [k \in Slots |-> 1]
  /\ owner = [k \in Slots |-> 0]
  /\ taken = [k \in Slots |-> 0]
  /\ link = [k \in Slots |-> "idle"]
  /\ wire = [k \in Slots |-> <<>>]
  /\ cuts = 0

Publish(i) ==
  /\ version[i] < MaxVersion
  /\ version' = [version EXCEPT ![i] = @ + 1]
  /\ UNCHANGED <<live, started, missing, before, sessions, handlers, network>>

SessionExpires == valid /\ valid' = FALSE /\ UNCHANGED <<session, server, handlers, network>>

----------------------------------------------------------------------------
(* A handshake.  Without a valid session the middleware answers 401.       *)

\* Mutant: a new subscription may start with a snapshot from the past.
UpgradeStale(k, i) ==
  /\ valid /\ link[k] = "request"
  /\ link' = [link EXCEPT ![k] = "open"]
  /\ handler' = [handler EXCEPT ![k] = "select"]
  /\ home' = [home EXCEPT ![k] = i]
  /\ owner' = [owner EXCEPT ![k] = session]
  /\ taken' = [taken EXCEPT ![k] = 0]
  /\ UNCHANGED <<server, sessions, wire, cuts>>

\* By process i.  Subscribe puts the latest snapshot, if there is one, into the
\* channel, so the first one that is taken is not older.
Upgrade(k, i) ==
  /\ valid /\ link[k] = "request"
  /\ link' = [link EXCEPT ![k] = "open"]
  /\ handler' = [handler EXCEPT ![k] = "select"]
  /\ home' = [home EXCEPT ![k] = i]
  /\ owner' = [owner EXCEPT ![k] = session]
  /\ taken' = [taken EXCEPT ![k] = IF version[i] = 0 THEN 0 ELSE version[i] - 1]
  /\ UNCHANGED <<server, sessions, wire, cuts>>

\* The session is not valid, or the Service chose a process that has ended.
Refuse(k) ==
  /\ missing > 0 \/ ~valid
  /\ link[k] = "request"
  /\ link' = [link EXCEPT ![k] = "ended"]
  /\ UNCHANGED <<server, sessions, handlers, wire, cuts>>

----------------------------------------------------------------------------
(* The loop of handleTopologyStream.                                       *)

\* A snapshot is ready in the channel.
Take(k) ==
  /\ handler[k] = "select"
  /\ \E v \in taken[k] + 1 .. version[home[k]] :
       /\ taken' = [taken EXCEPT ![k] = v]
       /\ handler' = [handler EXCEPT ![k] = "writing"]
  /\ UNCHANGED <<server, sessions, home, owner, network>>

\* WriteJSON succeeds; on a connection that is lost the data goes nowhere.
Write(k) ==
  /\ handler[k] = "writing"
  /\ handler' = [handler EXCEPT ![k] = "select"]
  /\ wire' = IF link[k] = "open"
             THEN [wire EXCEPT ![k] = Append(@, <<home[k], taken[k]>>)] ELSE wire
  /\ UNCHANGED <<server, sessions, home, owner, taken, link, cuts>>

\* Mutant: the deferred Close is forgotten.
EndUnclosed(k) ==
  /\ handler' = [handler EXCEPT ![k] = "none"]
  /\ link' = [link EXCEPT ![k] = IF @ \in {"left", "lost"} THEN "idle" ELSE @]
  /\ owner' = [owner EXCEPT ![k] = 0] /\ taken' = [taken EXCEPT ![k] = 0]
  /\ UNCHANGED <<server, sessions, home, wire, cuts>>

\* return: the deferred calls close the connection and unsubscribe.
End(k) ==
  /\ handler' = [handler EXCEPT ![k] = "none"]
  /\ link' = [link EXCEPT ![k] = CASE @ = "open" -> "ended"
                                   [] @ \in {"left", "lost"} -> "idle"
                                   [] OTHER -> @]
  /\ owner' = [owner EXCEPT ![k] = 0] /\ taken' = [taken EXCEPT ![k] = 0]
  /\ UNCHANGED <<server, sessions, home, wire, cuts>>

\* The read fails or misses its pong deadline, or a write or ping fails.
PeerGone(k) ==
  /\ handler[k] # "none"
  /\ Gone(k)
  /\ End(k)

OwnerExpired(k) == owner[k] < session \/ ~valid

\* Mutant: the timer is dropped once a snapshot was sent.
ExpireIdle(k) ==
  /\ handler[k] = "select" /\ OwnerExpired(k) /\ taken[k] = 0
  /\ End(k)

\* The expiry timer of the session.
Expire(k) ==
  /\ handler[k] = "select" /\ OwnerExpired(k)
  /\ End(k)

----------------------------------------------------------------------------
(* Faults.                                                                 *)

Serves(i, k) == home[k] = i /\ handler[k] # "none"

\* A process ends with all its connections.
Crash(i) ==
  /\ started + missing < MaxInstances
  /\ live' = live \ {i}
  /\ missing' = missing + 1
  /\ handler' = [k \in Slots |-> IF home[k] = i THEN "none" ELSE handler[k]]
  /\ link' = [k \in Slots |-> CASE Serves(i, k) /\ link[k] = "open" -> "ended"
                                [] Serves(i, k) /\ link[k] \in {"left", "lost"} -> "idle"
                                [] OTHER -> link[k]]
  /\ owner' = [k \in Slots |-> IF home[k] = i THEN 0 ELSE owner[k]]
  /\ taken' = [k \in Slots |-> IF home[k] = i THEN 0 ELSE taken[k]]
  /\ UNCHANGED <<started, before, version, sessions, home, wire, cuts>>

\* Another one takes its place.
Start ==
  /\ missing > 0
  /\ missing' = missing - 1
  /\ started' = started + 1
  /\ live' = live \cup {started + 1}
  /\ before' = [before EXCEPT ![started + 1] = (1 .. started) \ live]
  /\ UNCHANGED <<version, sessions, handlers, network>>

\* A connection is lost in a way that neither side is told of.
Cut(k) ==
  /\ cuts + session <= MaxFaults /\ link[k] = "open"
  /\ cuts' = cuts + 1
  /\ link' = [link EXCEPT ![k] = "cut"]
  /\ wire' = [wire EXCEPT ![k] = <<>>]
  /\ UNCHANGED <<server, sessions, handlers>>
=============================================================================
