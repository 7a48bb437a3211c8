------------------------ MODULE SnapshotFeed_proofs ------------------------
(***************************************************************************)
(* Proofs about SnapshotFeed, for any set of clients, any buffer size and  *)
(* any number of publications.                                             *)
(***************************************************************************)
EXTENDS SnapshotFeed, SequenceTheorems, TLAPS

-----------------------------------------------------------------------------
(* One channel: what the three operations on it keep of ChannelInv.        *)

Versions == 1 .. MaxVersion

\* The order part of ChannelInv, for a buffer s of a client that got g and
\* joined at z, when v is the version of the latest snapshot.
Ordered(s, g, z, v) ==
  /\ g <= v
  /\ z <= v
  /\ \A i \in 1 .. Len(s) : g < s[i] /\ z <= s[i] /\ s[i] <= v
  /\ \A i, j \in 1 .. Len(s) : i < j => s[i] < s[j]

LastOf(s, g) == IF s = <<>> THEN g ELSE s[Len(s)]

\* Sending the latest snapshot to a channel that does not hold it yet keeps
\* the channel in order and makes the latest snapshot its newest one.
LEMMA SendKeepsOrder ==
  ASSUME MaxVersion \in Nat, NEW s \in Seq(Versions), NEW g \in Nat, NEW z \in Nat,
         NEW v \in Versions, Ordered(s, g, z, v), LastOf(s, g) < v
  PROVE  /\ Append(s, v) \in Seq(Versions)
         /\ Len(Append(s, v)) = Len(s) + 1
         /\ Ordered(Append(s, v), g, z, v)
         /\ LastOf(Append(s, v), g) = v
<1> DEFINE t == Append(s, v)
<1>1. /\ t \in Seq(Versions)
      /\ t # <<>>
      /\ Len(t) = Len(s) + 1
      /\ \A i \in 1 .. Len(s) : t[i] = s[i]
      /\ t[Len(s) + 1] = v
  BY AppendProperties
<1>2. Len(s) \in Nat /\ \A i \in 1 .. Len(s) : s[i] \in Nat
  BY DEF Versions
<1>3. \A i \in 1 .. Len(s) : s[i] < v
  <2>1. CASE s = <<>>
    BY <2>1
  <2>2. CASE s # <<>>
    <3>1. Len(s) \in 1 .. Len(s) /\ s[Len(s)] < v
      BY <1>2, <2>2, EmptySeq DEF LastOf
    <3>2. QED
      BY <3>1, <1>2 DEF Ordered, Versions
  <2>3. QED
    BY <2>1, <2>2
<1>4. g < v
  <2>1. CASE s = <<>>
    BY <2>1 DEF LastOf
  <2>2. CASE s # <<>>
    <3>1. 1 \in 1 .. Len(s)
      BY <1>2, <2>2, EmptySeq
    <3>2. QED
      BY <3>1, <1>2, <1>3 DEF Ordered, Versions
  <2>3. QED
    BY <2>1, <2>2
<1> HIDE DEF t
<1>5. Ordered(t, g, z, v)
  <2>1. \A i \in 1 .. Len(t) : g < t[i] /\ z <= t[i] /\ t[i] <= v
    <3> TAKE i \in 1 .. Len(t)
    <3>1. CASE i \in 1 .. Len(s)
      BY <3>1, <1>1 DEF Ordered
    <3>2. CASE i = Len(s) + 1
      BY <3>2, <1>1, <1>4 DEF Ordered, Versions
    <3>3. QED
      BY <3>1, <3>2, <1>1, <1>2
  <2>2. \A i, j \in 1 .. Len(t) : i < j => t[i] < t[j]
    <3> TAKE i, j \in 1 .. Len(t)
    <3> HAVE i < j
    <3>1. i \in 1 .. Len(s)
      BY <1>1, <1>2
    <3>2. CASE j \in 1 .. Len(s)
      BY <3>1, <3>2, <1>1 DEF Ordered
    <3>3. CASE j = Len(s) + 1
      BY <3>1, <3>3, <1>1, <1>3
    <3>4. QED
      BY <3>2, <3>3, <1>1, <1>2
  <2>3. QED
    BY <2>1, <2>2 DEF Ordered
<1>6. LastOf(t, g) = v
  BY <1>1 DEF LastOf
<1>7. QED
  BY <1>1, <1>5, <1>6 DEF t

\* Removing the oldest snapshot of a channel keeps it in order; its newest
\* snapshot stays older than any bound it was older than.
LEMMA DropKeepsOrder ==
  ASSUME MaxVersion \in Nat, NEW s \in Seq(Versions), NEW g \in Nat, NEW z \in Nat,
         NEW v \in Versions, Ordered(s, g, z, v), LastOf(s, g) < v, s # <<>>
  PROVE  /\ Tail(s) \in Seq(Versions)
         /\ Len(Tail(s)) = Len(s) - 1
         /\ Ordered(Tail(s), g, z, v)
         /\ LastOf(Tail(s), g) < v
<1> DEFINE t == Tail(s)
<1>1. /\ t \in Seq(Versions)
      /\ Len(t) = Len(s) - 1
      /\ \A i \in 1 .. Len(t) : t[i] = s[i + 1]
  BY HeadTailProperties
<1>2. Len(s) \in Nat \ {0} /\ \A i \in 1 .. Len(s) : s[i] \in Nat
  BY EmptySeq DEF Versions
<1>3. g < s[Len(s)] /\ s[Len(s)] < v
  BY <1>2 DEF Ordered, LastOf
<1> HIDE DEF t
<1>4. Ordered(t, g, z, v)
  <2>1. \A i \in 1 .. Len(t) : i + 1 \in 1 .. Len(s) /\ t[i] = s[i + 1]
    BY <1>1, <1>2
  <2>2. \A i \in 1 .. Len(t) : g < t[i] /\ z <= t[i] /\ t[i] <= v
    BY <2>1 DEF Ordered
  <2>3. \A i, j \in 1 .. Len(t) : i < j => t[i] < t[j]
    <3> TAKE i, j \in 1 .. Len(t)
    <3> HAVE i < j
    <3>1. i + 1 < j + 1
      BY <1>1, <1>2
    <3>2. QED
      BY <2>1, <3>1 DEF Ordered
  <2>4. QED
    BY <2>2, <2>3 DEF Ordered
<1>5. LastOf(t, g) < v
  <2>1. CASE t = <<>>
    BY <2>1, <1>2, <1>3 DEF LastOf, Versions
  <2>2. CASE t # <<>>
    <3>1. Len(t) \in 1 .. Len(t)
      BY <1>1, <1>2, <2>2, EmptySeq
    <3>2. t[Len(t)] = s[Len(s)]
      BY <3>1, <1>1, <1>2
    <3>3. QED
      BY <3>2, <2>2, <1>3 DEF LastOf
  <2>3. QED
    BY <2>1, <2>2
<1>6. QED
  BY <1>1, <1>4, <1>5 DEF t

\* Receiving the head of a channel keeps it in order and does not change the
\* newest snapshot the client got or will get.  The head is newer than what
\* the client got before, and no older than its subscription.
LEMMA ReceiveKeepsOrder ==
  ASSUME MaxVersion \in Nat, NEW s \in Seq(Versions), NEW g \in Nat, NEW z \in Nat,
         NEW v \in 0 .. MaxVersion, Ordered(s, g, z, v), s # <<>>
  PROVE  /\ Head(s) \in Versions
         /\ g < Head(s) /\ z <= Head(s) /\ Head(s) <= v
         /\ Tail(s) \in Seq(Versions)
         /\ Len(Tail(s)) = Len(s) - 1
         /\ Ordered(Tail(s), Head(s), z, v)
         /\ LastOf(Tail(s), Head(s)) = LastOf(s, g)
<1> DEFINE t == Tail(s)
           h == Head(s)
<1>1. /\ h \in Versions
      /\ t \in Seq(Versions)
      /\ Len(t) = Len(s) - 1
      /\ \A i \in 1 .. Len(t) : t[i] = s[i + 1]
  BY HeadTailProperties
<1>2. Len(s) \in Nat \ {0} /\ \A i \in 1 .. Len(s) : s[i] \in Nat
  BY EmptySeq DEF Versions
<1>3. h = s[1]
  OBVIOUS
<1> HIDE DEF t, h
<1>4. g < h /\ z <= h /\ h <= v
  BY <1>2, <1>3 DEF Ordered
<1>5. Ordered(t, h, z, v)
  <2>1. \A i \in 1 .. Len(t) : i + 1 \in 1 .. Len(s) /\ t[i] = s[i + 1]
    BY <1>1, <1>2
  <2>2. \A i \in 1 .. Len(t) : h < t[i] /\ z <= t[i] /\ t[i] <= v
    <3> TAKE i \in 1 .. Len(t)
    <3>1. 1 \in 1 .. Len(s) /\ i + 1 \in 1 .. Len(s) /\ 1 < i + 1
      BY <2>1, <1>1, <1>2
    <3>2. QED
      BY <2>1, <3>1, <1>3 DEF Ordered
  <2>3. \A i, j \in 1 .. Len(t) : i < j => t[i] < t[j]
    <3> TAKE i, j \in 1 .. Len(t)
    <3> HAVE i < j
    <3>1. i + 1 < j + 1
      BY <1>1, <1>2
    <3>2. QED
      BY <2>1, <3>1 DEF Ordered
  <2>4. QED
    BY <2>2, <2>3, <1>4 DEF Ordered
<1>6. LastOf(t, h) = LastOf(s, g)
  <2>1. CASE t = <<>>
    <3>1. Len(s) = 1
      BY <2>1, <1>1, <1>2
    <3>2. QED
      BY <3>1, <2>1, <1>3 DEF LastOf
  <2>2. CASE t # <<>>
    <3>1. Len(t) \in 1 .. Len(t)
      BY <1>1, <1>2, <2>2, EmptySeq
    <3>2. t[Len(t)] = s[Len(s)]
      BY <3>1, <1>1, <1>2
    <3>3. QED
      BY <3>2, <2>2 DEF LastOf
  <2>3. QED
    BY <2>1, <2>2
<1>7. QED
  BY <1>1, <1>4, <1>5, <1>6 DEF t, h

-----------------------------------------------------------------------------
(* The inductive invariant.                                                *)

\* Subscribe makes at least one slot, so its own send never waits.
LEMMA CapacityPositive == Capacity \in Nat \ {0}
BY BufferAssumption DEF Capacity

\* ChannelInv is the order of one channel, its capacity and its newest entry.
LEMMA ChannelInvSplit ==
  ASSUME NEW c \in Clients
  PROVE  ChannelInv(c) <=>
           /\ Len(channel[c]) <= Capacity
           /\ Ordered(channel[c], got[c], since[c], version)
           /\ IF c \in unsent THEN LastOf(channel[c], got[c]) < version
                              ELSE LastOf(channel[c], got[c]) = version
BY DEF ChannelInv, Ordered, LastOf, Newest

\* The empty watcher: no snapshot, no subscriber.
LEMMA InitInv == Init => IInv
<1> SUFFICES ASSUME Init PROVE IInv
  OBVIOUS
<1>1. TypeOK
  BY MaxVersionAssumption, EmptySeq DEF Init, TypeOK
<1>2. PublisherInv
  BY DEF Init, PublisherInv, SendNeverBlocks
<1>3. \A c \in subscribers : ChannelInv(c)
  BY DEF Init
<1>4. QED
  BY <1>1, <1>2, <1>3 DEF IInv

\* Every step of a client or of the publisher keeps the inductive invariant.
LEMMA NextInv == IInv /\ [Next]_vars => IInv'
<1> SUFFICES ASSUME IInv, [Next]_vars PROVE IInv'
  OBVIOUS
<1> USE MaxVersionAssumption, NoClientAssumption, CapacityPositive
<1>t. TypeOK /\ PublisherInv
  BY DEF IInv
<1>c. ASSUME NEW c \in subscribers
      PROVE  /\ c \in Clients
             /\ channel[c] \in Seq(Versions)
             /\ Len(channel[c]) \in Nat
             /\ got[c] \in Nat /\ since[c] \in Nat
             /\ Len(channel[c]) <= Capacity
             /\ Ordered(channel[c], got[c], since[c], version)
             /\ c \in unsent => LastOf(channel[c], got[c]) < version
             /\ c \notin unsent => LastOf(channel[c], got[c]) = version
  <2>1. c \in Clients
    BY <1>t DEF TypeOK
  <2>2. ChannelInv(c)
    BY DEF IInv
  <2>3. channel[c] \in Seq(Versions) /\ got[c] \in Nat /\ since[c] \in Nat
    BY <2>1, <1>t DEF TypeOK, Versions
  <2>4. Len(channel[c]) \in Nat
    BY <2>3
  <2>5. QED
    BY <2>1, <2>2, <2>3, <2>4, ChannelInvSplit
<1>k. ASSUME NEW c \in subscribers, c \in subscribers',
             channel[c]' = channel[c], got[c]' = got[c], since[c]' = since[c],
             version' = version, c \in unsent' <=> c \in unsent
      PROVE  ChannelInv(c)'
  <2>1. ChannelInv(c)
    BY DEF IInv
  <2>2. QED
    BY <2>1, <1>k DEF ChannelInv, Newest
<1>1. ASSUME NEW c \in Clients, Subscribe(c)
      PROVE  IInv'
  <2> USE <1>1 DEF Subscribe
  <2>1. version = 0 \/ version \in Versions
    BY <1>t DEF TypeOK, Versions
  <2>2. channel'[c] = IF version = 0 THEN <<>> ELSE <<version>>
    BY <1>t DEF TypeOK
  <2>3. channel'[c] \in Seq(Versions)
    <3>1. <<>> \in Seq(Versions)
      BY EmptySeq
    <3>2. ASSUME version \in Versions PROVE <<version>> \in Seq(Versions)
      BY <3>2
    <3>3. QED
      BY <3>1, <3>2, <2>1, <2>2
  <2>4. TypeOK'
    <3>1. channel' \in [Clients -> Seq(1 .. MaxVersion)]
      BY <2>2, <2>3, <1>t DEF TypeOK, Versions
    <3>2. QED
      BY <3>1, <1>t DEF TypeOK
  <2>5. PublisherInv'
    BY <1>t DEF PublisherInv, SendNeverBlocks
  <2>6. ASSUME NEW d \in subscribers' PROVE ChannelInv(d)'
    <3>1. CASE d = c
      <4>1. /\ version' = version /\ got'[c] = 0 /\ since'[c] = version
            /\ c \notin unsent'
        BY <1>t DEF TypeOK, PublisherInv
      <4>2. CASE version = 0
        <5>1. channel'[c] = <<>>
          BY <4>2, <2>2
        <5>2. QED
          BY <3>1, <4>1, <4>2, <5>1 DEF ChannelInv, Newest
      <4>3. CASE version \in Versions
        <5>1. /\ channel'[c] = <<version>> /\ Len(channel'[c]) = 1
              /\ channel'[c][1] = version /\ channel'[c] # <<>>
          BY <4>3, <2>2 DEF Versions
        <5>2. \A i \in 1 .. Len(channel'[c]) : i = 1 /\ channel'[c][i] = version
          <6>1. \A i \in 1 .. 1 : i = 1
            OBVIOUS
          <6>2. QED
            BY <5>1, <6>1, Zenon
        <5>3. Ordered(channel'[c], 0, version, version)
          BY <4>3, <5>2 DEF Ordered, Versions
        <5>4. Newest(c)' = version
          BY <4>1, <5>1 DEF Newest
        <5>5. Len(channel'[c]) <= Capacity
          BY <5>1
        <5>6. Ordered(channel'[c], got'[c], since'[c], version')
          BY <4>1, <5>3
        <5>7. ChannelInv(c)'
          BY <4>1, <5>4, <5>5, <5>6 DEF ChannelInv, Ordered
        <5>8. QED
          BY <3>1, <5>7
      <4>4. QED
        BY <4>2, <4>3, <2>1
    <3>2. CASE d # c
      <4>1. d \in subscribers
        BY <3>2
      <4>2. channel'[d] = channel[d] /\ got'[d] = got[d] /\ since'[d] = since[d]
        BY <3>2, <4>1, <1>t DEF TypeOK
      <4>3. QED
        BY <4>1, <4>2, <1>k
    <3>3. QED
      BY <3>1, <3>2
  <2>7. QED
    BY <2>4, <2>5, <2>6 DEF IInv
<1>2. ASSUME NEW c \in Clients, Unsubscribe(c)
      PROVE  IInv'
  <2> USE <1>2 DEF Unsubscribe
  <2>1. TypeOK'
    <3>1. channel' \in [Clients -> Seq(1 .. MaxVersion)]
      BY <1>t, EmptySeq DEF TypeOK
    <3>2. unsent = {} /\ current = NoClient
      BY <1>t DEF PublisherInv
    <3>3. QED
      BY <3>1, <3>2, <1>t DEF TypeOK
  <2>2. PublisherInv'
    BY <1>t DEF PublisherInv, SendNeverBlocks
  <2>3. ASSUME NEW d \in subscribers' PROVE ChannelInv(d)'
    <3>1. d \in subscribers /\ d # c
      OBVIOUS
    <3>2. channel'[d] = channel[d] /\ got'[d] = got[d] /\ since'[d] = since[d]
      BY <3>1, <1>t DEF TypeOK
    <3>3. QED
      BY <3>1, <3>2, <1>k
  <2>4. QED
    BY <2>1, <2>2, <2>3 DEF IInv
<1>3. ASSUME NEW c \in Clients, Receive(c)
      PROVE  IInv'
  <2> USE <1>3 DEF Receive
  <2>1. version \in 0 .. MaxVersion
    BY <1>t DEF TypeOK
  <2>2. /\ Head(channel[c]) \in Versions
        /\ Tail(channel[c]) \in Seq(Versions)
        /\ Len(Tail(channel[c])) = Len(channel[c]) - 1
        /\ Ordered(Tail(channel[c]), Head(channel[c]), since[c], version)
        /\ LastOf(Tail(channel[c]), Head(channel[c])) = LastOf(channel[c], got[c])
    BY <2>1, <1>c, ReceiveKeepsOrder
  <2>3. channel'[c] = Tail(channel[c]) /\ got'[c] = Head(channel[c])
    BY <1>t DEF TypeOK
  <2>4. TypeOK'
    BY <2>2, <1>t DEF TypeOK, Versions
  <2>5. PublisherInv'
    <3>1. SendNeverBlocks'
      <4> SUFFICES ASSUME pc = "send" PROVE Len(channel'[current]) < Capacity
        BY DEF SendNeverBlocks
      <4>1. Len(channel[current]) < Capacity /\ current \in Clients
        BY <1>t DEF PublisherInv, SendNeverBlocks, TypeOK
      <4>2. CASE current = c
        BY <4>1, <4>2, <2>2, <2>3, <1>c
      <4>3. CASE current # c
        BY <4>1, <4>3, <1>t DEF TypeOK
      <4>4. QED
        BY <4>2, <4>3
    <3>2. QED
      BY <3>1, <1>t DEF PublisherInv
  <2>6. ASSUME NEW d \in subscribers' PROVE ChannelInv(d)'
    <3>1. CASE d = c
      <4>1. Len(channel'[c]) <= Capacity
        BY <2>2, <2>3, <1>c
      <4>2. Ordered(channel'[c], got'[c], since'[c], version')
        BY <2>2, <2>3
      <4>3. IF c \in unsent' THEN LastOf(channel'[c], got'[c]) < version'
                             ELSE LastOf(channel'[c], got'[c]) = version'
        BY <2>2, <2>3, <1>c
      <4>4. QED
        BY <3>1, <4>1, <4>2, <4>3 DEF ChannelInv, Newest, Ordered, LastOf
    <3>2. CASE d # c
      BY <3>2, <1>k, <1>t DEF TypeOK
    <3>3. QED
      BY <3>1, <3>2
  <2>7. QED
    BY <2>4, <2>5, <2>6 DEF IInv
<1>4. CASE Publish
  <2> USE <1>4 DEF Publish
  <2>1. TypeOK'
    BY <1>t DEF TypeOK
  <2>2. PublisherInv'
    BY <1>t DEF PublisherInv, SendNeverBlocks, TypeOK
  <2>3. ASSUME NEW d \in subscribers' PROVE ChannelInv(d)'
    <3>1. d \in subscribers /\ d \notin unsent /\ d \in unsent'
      BY <1>t DEF PublisherInv
    <3>2. version \in Nat /\ version' = version + 1
      BY <1>t DEF TypeOK
    <3>3. \A i \in 1 .. Len(channel[d]) : channel[d][i] \in Nat
      BY <3>1, <1>c DEF Versions
    <3>4. Ordered(channel[d], got[d], since[d], version')
      BY <3>1, <3>2, <3>3, <1>c DEF Ordered
    <3>5. LastOf(channel[d], got[d]) < version'
      BY <3>1, <3>2, <1>c
    <3>6. QED
      BY <3>1, <3>4, <3>5, <1>c DEF ChannelInv, Newest, Ordered, LastOf
  <2>4. QED
    BY <2>1, <2>2, <2>3 DEF IInv
<1>s. ASSUME NEW c \in unsent, pc # "unlocked", Len(channel[c]) < Capacity, Send(c),
             UNCHANGED <<version, subscribers, got, since>>
      PROVE  /\ channel' \in [Clients -> Seq(1 .. MaxVersion)]
             /\ \A d \in subscribers' : ChannelInv(d)'
  <2> USE <1>s DEF Send
  <2>1. version \in Versions /\ c \in subscribers
    BY <1>t DEF TypeOK, PublisherInv, Versions
  <2>2. /\ Append(channel[c], version) \in Seq(Versions)
        /\ Len(Append(channel[c], version)) = Len(channel[c]) + 1
        /\ Ordered(Append(channel[c], version), got[c], since[c], version)
        /\ LastOf(Append(channel[c], version), got[c]) = version
    BY <2>1, <1>c, SendKeepsOrder
  <2>3. channel'[c] = Append(channel[c], version)
    BY <2>1, <1>t DEF TypeOK
  <2>4. channel' \in [Clients -> Seq(1 .. MaxVersion)]
    BY <2>2, <1>t DEF TypeOK, Versions
  <2>5. ASSUME NEW d \in subscribers' PROVE ChannelInv(d)'
    <3>1. CASE d = c
      <4>1. Len(channel'[c]) <= Capacity
        BY <2>1, <2>2, <2>3, <1>c
      <4>2. QED
        BY <3>1, <4>1, <2>2, <2>3 DEF ChannelInv, Newest, Ordered, LastOf
    <3>2. CASE d # c
      BY <3>2, <1>k, <1>t DEF TypeOK
    <3>3. QED
      BY <3>1, <3>2
  <2>6. QED
    BY <2>4, <2>5
<1>5. ASSUME NEW c \in Clients, TrySend(c)
      PROVE  IInv'
  <2> USE <1>5 DEF TrySend
  <2>1. c \in subscribers /\ current = NoClient
    BY <1>t DEF TypeOK, PublisherInv
  <2>2. CASE Len(channel[c]) < Capacity /\ Send(c) /\ UNCHANGED <<pc, current>>
    <3>1. /\ channel' \in [Clients -> Seq(1 .. MaxVersion)]
          /\ \A d \in subscribers' : ChannelInv(d)'
      BY <2>2, <1>s
    <3>2. TypeOK'
      BY <3>1, <2>2, <1>t DEF TypeOK, Send
    <3>3. PublisherInv'
      BY <2>1, <2>2, <1>t DEF PublisherInv, SendNeverBlocks, Send
    <3>4. QED
      BY <3>1, <3>2, <3>3 DEF IInv
  <2>3. CASE Len(channel[c]) >= Capacity /\ pc' = "drop" /\ current' = c
             /\ UNCHANGED <<channel, unsent>>
    <3>1. TypeOK'
      BY <2>1, <2>3, <1>t DEF TypeOK
    <3>2. PublisherInv'
      BY <2>1, <2>3, <1>t DEF PublisherInv, SendNeverBlocks
    <3>3. \A d \in subscribers' : ChannelInv(d)'
      BY <2>3, <1>k
    <3>4. QED
      BY <3>1, <3>2, <3>3 DEF IInv
  <2>4. QED
    BY <2>2, <2>3
<1>6. CASE DropOldest
  <2> USE <1>6 DEF DropOldest
  <2>1. current \in unsent /\ current \in subscribers /\ version \in Versions
    BY <1>t DEF TypeOK, PublisherInv, Versions
  <2>2. current \in Clients
    BY <2>1, <1>t DEF TypeOK
  <2>3. CASE channel[current] = <<>>
    <3>1. channel' = channel
      BY <2>3
    <3>2. TypeOK'
      BY <3>1, <1>t DEF TypeOK
    <3>3. PublisherInv'
      BY <3>1, <2>3, <1>t, EmptySeq DEF PublisherInv, SendNeverBlocks
    <3>4. \A d \in subscribers' : ChannelInv(d)'
      BY <3>1, <1>k
    <3>5. QED
      BY <3>2, <3>3, <3>4 DEF IInv
  <2>4. CASE channel[current] # <<>>
    <3>1. /\ Tail(channel[current]) \in Seq(Versions)
          /\ Len(Tail(channel[current])) = Len(channel[current]) - 1
          /\ Ordered(Tail(channel[current]), got[current], since[current], version)
          /\ LastOf(Tail(channel[current]), got[current]) < version
      BY <2>1, <2>4, <1>c, DropKeepsOrder
    <3>2. channel' = [channel EXCEPT ![current] = Tail(channel[current])]
      BY <2>4
    <3>3. channel'[current] = Tail(channel[current])
      BY <3>2, <2>2, <1>t DEF TypeOK
    <3>4. TypeOK'
      BY <3>1, <3>2, <1>t DEF TypeOK, Versions
    <3>5. PublisherInv'
      <4>1. Len(channel[current]) \in Nat /\ Len(channel[current]) <= Capacity
        BY <2>1, <1>c
      <4>2. Len(channel'[current]) = Len(channel[current]) - 1
        BY <3>1, <3>3
      <4>3. Len(channel'[current]) < Capacity
        BY <4>1, <4>2
      <4>4. QED
        BY <4>3, <2>1, <1>t DEF PublisherInv, SendNeverBlocks
    <3>6. ASSUME NEW d \in subscribers' PROVE ChannelInv(d)'
      <4>1. CASE d = current
        <5>1. Len(channel'[current]) <= Capacity
          BY <3>1, <3>3, <2>1, <1>c
        <5>2. QED
          BY <4>1, <5>1, <3>1, <3>3, <2>1 DEF ChannelInv, Newest, Ordered, LastOf
      <4>2. CASE d # current
        BY <4>2, <3>2, <1>k, <1>t DEF TypeOK
      <4>3. QED
        BY <4>1, <4>2
    <3>7. QED
      BY <3>4, <3>5, <3>6 DEF IInv
  <2>5. QED
    BY <2>3, <2>4
<1>7. CASE BlockingSend
  <2> USE <1>7 DEF BlockingSend
  <2>1. current \in unsent
    BY <1>t DEF PublisherInv
  <2>2. /\ channel' \in [Clients -> Seq(1 .. MaxVersion)]
        /\ \A d \in subscribers' : ChannelInv(d)'
    BY <2>1, <1>s
  <2>3. TypeOK'
    BY <2>2, <1>t DEF TypeOK, Send
  <2>4. PublisherInv'
    BY <1>t DEF PublisherInv, SendNeverBlocks
  <2>5. QED
    BY <2>2, <2>3, <2>4 DEF IInv
<1>8. CASE Unlock
  <2> USE <1>8 DEF Unlock
  <2>1. TypeOK' /\ PublisherInv'
    BY <1>t DEF TypeOK, PublisherInv, SendNeverBlocks
  <2>2. \A d \in subscribers' : ChannelInv(d)'
    BY <1>k
  <2>3. QED
    BY <2>1, <2>2 DEF IInv
<1>9. CASE UNCHANGED vars
  <2> USE <1>9 DEF vars
  <2>1. TypeOK' /\ PublisherInv'
    BY <1>t DEF TypeOK, PublisherInv, SendNeverBlocks
  <2>2. \A d \in subscribers' : ChannelInv(d)'
    BY <1>k
  <2>3. QED
    BY <2>1, <2>2 DEF IInv
<1>10. QED
  BY <1>1, <1>2, <1>3, <1>4, <1>5, <1>6, <1>7, <1>8, <1>9 DEF Next, Publisher

\* The inductive invariant holds in every reachable state.
THEOREM Invariance == Spec => []IInv
<1>1. Init => IInv
  BY InitInv
<1>2. IInv /\ [Next]_vars => IInv'
  BY NextInv
<1>3. QED
  BY <1>1, <1>2, PTL DEF Spec

-----------------------------------------------------------------------------
(* What the invariant gives a reader.                                      *)

\* Every variable keeps its type: no version past the bound is published and
\* the publisher only works on channels that are subscribed.
THEOREM TypeCorrect == Spec => []TypeOK
<1>1. IInv => TypeOK
  BY DEF IInv
<1>2. QED
  BY <1>1, Invariance, PTL

\* The send after the inner select of rebuildAndPublishContext always finds
\* room, so no client, however slow, makes the publisher hold w.mu for ever.
THEOREM PublisherNeverBlocks == Spec => []SendNeverBlocks
<1>1. IInv => SendNeverBlocks
  BY DEF IInv, PublisherInv
<1>2. QED
  BY <1>1, Invariance, PTL

\* Dropping the oldest snapshot of a full channel never costs a subscriber the
\* latest one.
THEOREM LatestDelivered == Spec => []LatestReachesSubscribers
<1>1. IInv => LatestReachesSubscribers
  BY DEF IInv, ChannelInv, LatestReachesSubscribers
<1>2. QED
  BY <1>1, Invariance, PTL

\* The snapshots of one stream are strictly newer one after the other.
THEOREM StreamOrdered == Spec => []StreamInOrder
<1>1. IInv => StreamInOrder
  BY DEF IInv, ChannelInv, StreamInOrder
<1>2. QED
  BY <1>1, Invariance, PTL

-----------------------------------------------------------------------------
(* The feed implements the safety part of LatestFeed.                      *)

\* Every step of the channels is a step of the abstract feed or none of its
\* business: Publish, Subscribe, Unsubscribe and Receive are its four actions,
\* the range loop is invisible to a client.
LEMMA FeedStep == IInv /\ [Next]_vars => [Abstract!Next]_(Abstract!vars)
<1> SUFFICES ASSUME IInv, [Next]_vars PROVE [Abstract!Next]_(Abstract!vars)
  OBVIOUS
<1> USE DEF Abstract!vars
<1>t. TypeOK
  BY DEF IInv
<1>1. ASSUME NEW c \in Clients, Subscribe(c) PROVE Abstract!Join(c)
  BY <1>1 DEF Subscribe, Abstract!Join
<1>2. ASSUME NEW c \in Clients, Unsubscribe(c) PROVE Abstract!Leave(c)
  BY <1>2 DEF Unsubscribe, Abstract!Leave
<1>3. ASSUME NEW c \in Clients, Receive(c) PROVE Abstract!Observe(c)
  <2>1. c \in subscribers /\ channel[c] # <<>> /\ ChannelInv(c)
    BY <1>3 DEF Receive, IInv
  <2>2. /\ channel[c] \in Seq(Versions) /\ version \in 0 .. MaxVersion
        /\ got[c] \in Nat /\ since[c] \in Nat
    <3>1. channel \in [Clients -> Seq(Versions)] /\ version \in 0 .. MaxVersion
      BY <1>t DEF TypeOK, Versions
    <3>2. got[c] \in Nat /\ since[c] \in Nat
      BY <1>t, MaxVersionAssumption DEF TypeOK
    <3>3. QED
      BY <3>1, <3>2
  <2>3. Ordered(channel[c], got[c], since[c], version)
    BY <2>1, ChannelInvSplit
  <2>4. /\ Head(channel[c]) \in Versions
        /\ got[c] < Head(channel[c])
        /\ since[c] <= Head(channel[c])
        /\ Head(channel[c]) <= version
    BY <2>1, <2>2, <2>3, MaxVersionAssumption, ReceiveKeepsOrder
  <2>5. Head(channel[c]) \in (got[c] + 1) .. version
    BY <2>2, <2>4 DEF Versions
  <2>6. got' = [got EXCEPT ![c] = Head(channel[c])]
    BY <1>3 DEF Receive
  <2>7. \E v \in (got[c] + 1) .. version :
          v >= since[c] /\ got' = [got EXCEPT ![c] = v]
    <3>1. Head(channel[c]) >= since[c]
      BY <2>2, <2>4 DEF Versions
    <3>2. QED
      BY <3>1, <2>5, <2>6
  <2>8. UNCHANGED <<version, subscribers, since>>
    BY <1>3 DEF Receive
  <2>9. QED
    BY <2>1, <2>7, <2>8 DEF Abstract!Observe
<1>4. ASSUME Publish PROVE Abstract!Publish
  BY <1>4 DEF Publish, Abstract!Publish
<1>5. ASSUME NEW c \in Clients, TrySend(c) PROVE UNCHANGED Abstract!vars
  BY <1>5 DEF TrySend
<1>6. ASSUME DropOldest PROVE UNCHANGED Abstract!vars
  BY <1>6 DEF DropOldest
<1>7. ASSUME BlockingSend PROVE UNCHANGED Abstract!vars
  BY <1>7 DEF BlockingSend
<1>8. ASSUME Unlock PROVE UNCHANGED Abstract!vars
  BY <1>8 DEF Unlock
<1>9. ASSUME UNCHANGED vars PROVE UNCHANGED Abstract!vars
  BY <1>9 DEF vars
<1>10. QED
  BY <1>1, <1>2, <1>3, <1>4, <1>5, <1>6, <1>7, <1>8, <1>9
     DEF Next, Publisher, Abstract!Next

\* The buffered channels, the slow path that drops snapshots and the steps under
\* w.mu implement the abstract feed's initial state and steps.
THEOREM FeedImplementsLatestFeed ==
  Spec => Abstract!Init /\ [][Abstract!Next]_(Abstract!vars)
<1>1. Init => Abstract!Init
  BY DEF Init, Abstract!Init
<1>2. IInv /\ [Next]_vars => [Abstract!Next]_(Abstract!vars)
  BY FeedStep
<1>3. QED
  BY <1>1, <1>2, Invariance, PTL DEF Spec

=============================================================================
