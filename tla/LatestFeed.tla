----------------------------- MODULE LatestFeed -----------------------------
(***************************************************************************)
(* What the snapshot feed of internal/k8s/watcher.go promises its clients, *)
(* without channels or locks: there is one counter of published snapshots; *)
(* a client that joins is brought to the snapshot that was the latest when *)
(* it joined or to a later one, afterwards it only moves forward, it may   *)
(* skip snapshots, and it does not stay behind the latest one for ever.    *)
(***************************************************************************)
EXTENDS Naturals

CONSTANTS Clients, MaxVersion

VARIABLES version,  \* number of snapshots published so far, 0 for none
          joined,   \* the clients listening now
          since,    \* the version that was the latest when a client joined
          at        \* the version a client saw last, 0 for none

vars == <<version, joined, since, at>>

Init ==
  /\ version = 0
  /\ joined = {}
  /\ since = [c \in Clients |-> 0]
  /\ at = [c \in Clients |-> 0]

Publish ==
  /\ version < MaxVersion
  /\ version' = version + 1
  /\ UNCHANGED <<joined, since, at>>

Join(c) ==
  /\ c \notin joined
  /\ joined' = joined \cup {c}
  /\ since' = [since EXCEPT ![c] = version]
  /\ at' = [at EXCEPT ![c] = 0]
  /\ UNCHANGED version

Leave(c) ==
  /\ c \in joined
  /\ joined' = joined \ {c}
  /\ since' = [since EXCEPT ![c] = 0]
  /\ at' = [at EXCEPT ![c] = 0]
  /\ UNCHANGED version

\* A client sees a snapshot newer than its last one and no older than the
\* snapshot it joined at.
Observe(c) ==
  /\ c \in joined
  /\ \E v \in (at[c] + 1) .. version :
       /\ v >= since[c]
       /\ at' = [at EXCEPT ![c] = v]
  /\ UNCHANGED <<version, joined, since>>

Next ==
  \/ Publish
  \/ \E c \in Clients : Join(c) \/ Leave(c) \/ Observe(c)

\* A client that stays, with something newer to see, sees something newer.
Spec ==
  /\ Init
  /\ [][Next]_vars
  /\ \A c \in Clients : WF_vars(Observe(c))

=============================================================================
