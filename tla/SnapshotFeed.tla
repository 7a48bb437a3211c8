---------------------------- MODULE SnapshotFeed ----------------------------
(***************************************************************************)
(* The publish/subscribe half of Watcher (internal/k8s/watcher.go): the    *)
(* counter w.version, the set w.subscribers of buffered channels, and the  *)
(* loop of rebuildAndPublishContext that offers a new snapshot to every    *)
(* channel while it holds w.mu.  The stream handlers of internal/server    *)
(* receive from their channel WITHOUT the mutex, so they run between any   *)
(* two steps of that loop; Subscribe and unsubscribe take the mutex.       *)
(*                                                                         *)
(* A snapshot is represented by its version: nothing here reads its data.  *)
(* One client stands for one stream handler with the channel Subscribe     *)
(* made for it; a client that leaves and joins again is a new handler with *)
(* a new channel.                                                          *)
(***************************************************************************)
EXTENDS Naturals, Sequences

CONSTANTS Clients,     \* stream handlers that may subscribe
          NoClient,    \* the publisher is not in the slow path of a channel
          Buffer,      \* the argument of Subscribe
          MaxVersion   \* bound on the number of publications

ASSUME BufferAssumption == Buffer \in Nat
ASSUME MaxVersionAssumption == MaxVersion \in Nat
ASSUME NoClientAssumption == NoClient \notin Clients

VARIABLES version,      \* w.version, and the version of w.latest (0: no snapshot)
          subscribers,  \* the keys of w.subscribers
          channel,      \* the versions buffered in each subscriber's channel
          pc,           \* the publisher: "unlocked" or a step under w.mu
          unsent,       \* subscribers the range loop has not finished with
          current,      \* the subscriber whose full channel is being handled
          got,          \* history: the version a client received last
          since         \* history: w.version when a client subscribed

vars == <<version, subscribers, channel, pc, unsent, current, got, since>>

\* Subscribe raises a buffer below one to one.
Capacity == IF Buffer < 1 THEN 1 ELSE Buffer

Init ==
  /\ version = 0
  /\ subscribers = {}
  /\ channel = [c \in Clients |-> <<>>]
  /\ pc = "unlocked"
  /\ unsent = {}
  /\ current = NoClient
  /\ got = [c \in Clients |-> 0]
  /\ since = [c \in Clients |-> 0]

-----------------------------------------------------------------------------
(* The clients.                                                            *)

\* Plausible bug: the latest snapshot is not sent to a new subscriber.
SubscribeWithoutLatest(c) ==
  /\ pc = "unlocked"
  /\ c \notin subscribers
  /\ subscribers' = subscribers \cup {c}
  /\ channel' = [channel EXCEPT ![c] = <<>>]
  /\ got' = [got EXCEPT ![c] = 0]
  /\ since' = [since EXCEPT ![c] = version]
  /\ UNCHANGED <<version, pc, unsent, current>>

\* A new channel, filled with the latest snapshot if there is one.  The send
\* under w.mu cannot block: the channel is empty and Capacity is at least one.
Subscribe(c) ==
  /\ pc = "unlocked"
  /\ c \notin subscribers
  /\ subscribers' = subscribers \cup {c}
  /\ channel' = [channel EXCEPT ![c] = IF version = 0 THEN <<>> ELSE <<version>>]
  /\ got' = [got EXCEPT ![c] = 0]
  /\ since' = [since EXCEPT ![c] = version]
  /\ UNCHANGED <<version, pc, unsent, current>>

\* Plausible bug: the channel is closed without waiting for w.mu.
UnsubscribeUnlocked(c) ==
  /\ c \in subscribers
  /\ subscribers' = subscribers \ {c}
  /\ channel' = [channel EXCEPT ![c] = <<>>]
  /\ got' = [got EXCEPT ![c] = 0]
  /\ since' = [since EXCEPT ![c] = 0]
  /\ UNCHANGED <<version, pc, unsent, current>>

\* The handler returned: its channel is deleted and closed under w.mu.
Unsubscribe(c) ==
  /\ pc = "unlocked"
  /\ c \in subscribers
  /\ subscribers' = subscribers \ {c}
  /\ channel' = [channel EXCEPT ![c] = <<>>]
  /\ got' = [got EXCEPT ![c] = 0]
  /\ since' = [since EXCEPT ![c] = 0]
  /\ UNCHANGED <<version, pc, unsent, current>>

\* The handler takes a snapshot from its channel, without w.mu.
Receive(c) ==
  /\ c \in subscribers
  /\ channel[c] # <<>>
  /\ got' = [got EXCEPT ![c] = Head(channel[c])]
  /\ channel' = [channel EXCEPT ![c] = Tail(@)]
  /\ UNCHANGED <<version, subscribers, pc, unsent, current, since>>

-----------------------------------------------------------------------------
(* The publisher.                                                          *)

\* w.mu is taken and a snapshot that differs from the latest gets the next
\* version.  (An unchanged one unlocks again: nothing here changes.)
Publish ==
  /\ pc = "unlocked"
  /\ version < MaxVersion
  /\ version' = version + 1
  /\ pc' = "range"
  /\ unsent' = subscribers
  /\ UNCHANGED <<subscribers, channel, current, got, since>>

Send(c) ==
  /\ channel' = [channel EXCEPT ![c] = Append(@, version)]
  /\ unsent' = unsent \ {c}

\* Plausible bug: a full channel is skipped instead of making room.
TrySendOrSkip(c) ==
  /\ pc = "range"
  /\ c \in unsent
  /\ unsent' = unsent \ {c}
  /\ channel' = IF Len(channel[c]) < Capacity
                THEN [channel EXCEPT ![c] = Append(@, version)]
                ELSE channel
  /\ UNCHANGED <<version, subscribers, pc, current, got, since>>

\* Plausible bug: the slow path runs after a successful send too.
TrySendAndFallThrough(c) ==
  /\ pc = "range"
  /\ c \in unsent
  /\ pc' = "drop"
  /\ current' = c
  /\ channel' = IF Len(channel[c]) < Capacity
                THEN [channel EXCEPT ![c] = Append(@, version)]
                ELSE channel
  /\ UNCHANGED <<version, subscribers, unsent, got, since>>

\* The outer select, for the next channel in the map's arbitrary order: send
\* if the buffer has room, otherwise enter the slow path.
TrySend(c) ==
  /\ pc = "range"
  /\ c \in unsent
  /\ \/ /\ Len(channel[c]) < Capacity
        /\ Send(c)
        /\ UNCHANGED <<pc, current>>
     \/ /\ Len(channel[c]) >= Capacity
        /\ pc' = "drop"
        /\ current' = c
        /\ UNCHANGED <<channel, unsent>>
  /\ UNCHANGED <<version, subscribers, got, since>>

\* Plausible bug: nothing is removed before the unconditional send.
DropNothing ==
  /\ pc = "drop"
  /\ pc' = "send"
  /\ UNCHANGED <<version, subscribers, channel, unsent, current, got, since>>

\* The inner select: remove the oldest snapshot, unless the handler has
\* emptied the channel in the meantime.
DropOldest ==
  /\ pc = "drop"
  /\ pc' = "send"
  /\ channel' = IF channel[current] = <<>>
                THEN channel
                ELSE [channel EXCEPT ![current] = Tail(@)]
  /\ UNCHANGED <<version, subscribers, unsent, current, got, since>>

\* The unconditional send after the inner select: it waits for room.
BlockingSend ==
  /\ pc = "send"
  /\ Len(channel[current]) < Capacity
  /\ Send(current)
  /\ pc' = "range"
  /\ current' = NoClient
  /\ UNCHANGED <<version, subscribers, got, since>>

\* Every channel was offered the snapshot: w.mu is released.
Unlock ==
  /\ pc = "range"
  /\ unsent = {}
  /\ pc' = "unlocked"
  /\ UNCHANGED <<version, subscribers, channel, unsent, current, got, since>>

Publisher == (\E c \in Clients : TrySend(c)) \/ DropOldest \/ BlockingSend \/ Unlock

Next ==
  \/ Publish
  \/ Publisher
  \/ \E c \in Clients : Subscribe(c) \/ Unsubscribe(c) \/ Receive(c)

\* A goroutine that can run does: the publisher finishes its critical section,
\* and a handler does not leave a snapshot in its channel for ever: it receives
\* it or, when its connection fails, returns.  An idle handler need not return.
Spec ==
  /\ Init
  /\ [][Next]_vars
  /\ WF_vars(Publisher)
  /\ \A c \in Clients : WF_vars(Receive(c))

-----------------------------------------------------------------------------
\* Every variable has its type, and the publisher only touches channels that
\* are subscribed: a send to a channel that unsubscribe has closed would panic.
TypeOK ==
  /\ version \in 0 .. MaxVersion
  /\ subscribers \subseteq Clients
  /\ channel \in [Clients -> Seq(1 .. MaxVersion)]
  /\ pc \in {"unlocked", "range", "drop", "send"}
  /\ unsent \subseteq subscribers
  /\ current \in subscribers \cup {NoClient}
  /\ got \in [Clients -> 0 .. MaxVersion]
  /\ since \in [Clients -> 0 .. MaxVersion]

\* The unconditional send of the slow path always finds room, whatever the
\* handlers receive in the meantime, so the publisher never waits for a slow
\* client while it holds w.mu (which would block every API handler).
SendNeverBlocks == pc = "send" => Len(channel[current]) < Capacity

\* The newest version a client has received or will receive from its buffer.
Newest(c) == IF channel[c] = <<>> THEN got[c] ELSE channel[c][Len(channel[c])]

\* No subscriber is left behind: once the range loop is done with a channel,
\* the latest snapshot is in it or was received from it, although a full
\* channel loses snapshots.
LatestReachesSubscribers ==
  \A c \in subscribers \ unsent : Newest(c) = version

\* A stream never goes back or repeats itself: what is buffered is strictly
\* newer than what was received, in publication order.
StreamInOrder ==
  \A c \in subscribers :
    /\ \A i \in 1 .. Len(channel[c]) : got[c] < channel[c][i]
    /\ \A i, j \in 1 .. Len(channel[c]) : i < j => channel[c][i] < channel[c][j]

\* The step of the range loop that w.mu protects, and what it has left to do.
PublisherInv ==
  /\ pc = "unlocked" => unsent = {}
  /\ pc # "unlocked" => version >= 1
  /\ IF pc \in {"drop", "send"} THEN current \in unsent ELSE current = NoClient
  /\ SendNeverBlocks

\* What a subscriber got and has buffered: at most Capacity snapshots, in
\* publication order, none older than its subscription, and the latest one
\* among them exactly when the range loop is done with the channel.
ChannelInv(c) ==
  /\ Len(channel[c]) <= Capacity
  /\ got[c] <= version
  /\ since[c] <= version
  /\ \A i \in 1 .. Len(channel[c]) :
       got[c] < channel[c][i] /\ since[c] <= channel[c][i] /\ channel[c][i] <= version
  /\ \A i, j \in 1 .. Len(channel[c]) : i < j => channel[c][i] < channel[c][j]
  /\ IF c \in unsent THEN Newest(c) < version ELSE Newest(c) = version

\* The inductive invariant behind the three properties above, which no proof
\* obtains from themselves: that an unfinished subscriber has nothing of this
\* version yet, and that only it can be the one in the slow path.
IInv ==
  /\ TypeOK
  /\ PublisherInv
  /\ \A c \in subscribers : ChannelInv(c)

\* A connected client is eventually shown the latest snapshot.
EventuallyCurrent ==
  \A c \in Clients : [](c \in subscribers => <>(got[c] = version \/ c \notin subscribers))

\* The channels, the slow path and the mutex implement the abstract feed.
Abstract == INSTANCE LatestFeed WITH joined <- subscribers, at <- got
ImplementsLatestFeed == Abstract!Spec

=============================================================================
