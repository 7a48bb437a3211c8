---------------------------- MODULE LoginThrottle ----------------------------
(***************************************************************************)
(* Sign-ins (internal/auth/auth.go) and their throttle (throttle.go): a    *)
(* token bucket for each client, which only failed sign-ins drain, and a   *)
(* wider one for each trusted proxy.  Requests run at the same time: each  *)
(* reads the clock once and then enters the throttle several times, with   *)
(* the comparison of the credentials in between.                           *)
(*                                                                         *)
(* A unit of a bucket is the refill of one tick of the clock, so a token   *)
(* has Refill units and amounts stay whole.  A bucket also has, as        *)
(* history, the number of failures charged to it since it was made.        *)
(***************************************************************************)
EXTENDS Integers, FiniteSets, FiniteSetsExt, Functions

CONSTANTS Attempts,      \* sign-in requests that can run at a time
          Requests,      \* where a request may come from, see LoginClient
          Trusted,       \* peers in a trusted proxy network
          Clients,       \* addresses that occur as the client
          Burst, Refill, ProxyBurst, ProxyRefill,
          MaxThrottled,  \* maxThrottledClients
          Overflow,      \* overflowClientKey
          MaxTime,       \* bound on the clock
          None

ASSUME BudgetAssumption ==
  /\ {Burst, Refill, ProxyBurst, ProxyRefill} \subseteq Nat \ {0}
  /\ MaxThrottled \in Nat /\ MaxTime \in Nat
  /\ Overflow \notin Clients \cup Trusted

ASSUME RequestAssumption ==
  /\ Requests \subseteq [peer : Clients, forwarded : Clients \cup {None}]
  /\ None \notin Trusted \cup {Overflow}
  /\ IsFiniteSet(Attempts) /\ Attempts # {}

VARIABLES
  clock,
  clients,  \* the buckets of the client throttle
  proxies,  \* the buckets of the proxy throttle
  attempt,  \* each request: where it is, whom it is from, its time, its wait,
            \* and, as history, that a failure has made that wait void
  retryAt   \* history: when a refused client was told to try again, or None

vars == <<clock, clients, proxies, attempt, retryAt>>

Keys == Clients \cup {Overflow}
ProxyKeys == Trusted \cup {Overflow}
Idle == [at |-> "idle", client |-> None, proxy |-> None, now |-> 0, wait |-> 0, void |-> FALSE]

Init ==
  /\ clock = 0
  /\ clients = <<>> /\ proxies = <<>>
  /\ attempt = [a \in Attempts |-> Idle]
  /\ retryAt = [request \in Requests |-> None]

----------------------------------------------------------------------------
(* The buckets of one throttle with its burst and refill.                  *)

Full(bucket, now, burst, refill) ==
  bucket.tokens + (now - bucket.updated) >= burst * refill

\* Mutant: every bucket that one attempt has refilled is dropped.
PruneReady(buckets, now, burst, refill) ==
  Restrict(buckets, {k \in DOMAIN buckets :
    buckets[k].tokens + (now - buckets[k].updated) < refill})

\* prune
Prune(buckets, now, burst, refill) ==
  Restrict(buckets, {k \in DOMAIN buckets : ~Full(buckets[k], now, burst, refill)})

\* Mutant: the number of buckets is not looked at.
RoomUnbounded(buckets, key, now, burst, refill) == [kept |-> buckets, key |-> key]

\* The first half of bucket: the buckets that are kept, and the key that
\* stands for the client.
Room(buckets, key, now, burst, refill) ==
  IF key \in DOMAIN buckets \/ Cardinality(DOMAIN buckets) < MaxThrottled
  THEN [kept |-> buckets, key |-> key]
  ELSE LET kept == Prune(buckets, now, burst, refill) IN
       [kept |-> kept,
        key |-> IF Cardinality(DOMAIN kept) < MaxThrottled THEN key ELSE Overflow]

\* Mutant: a bucket takes the time of a request that came earlier.
RefilledBack(bucket, now, burst, refill) ==
  [bucket EXCEPT !.tokens = Min({burst * refill, @ + Max({now - bucket.updated, 0})}),
                 !.updated = now]

Refilled(bucket, now, burst, refill) ==
  IF now <= bucket.updated THEN bucket
  ELSE [tokens |-> Min({burst * refill, bucket.tokens + (now - bucket.updated)}),
        updated |-> now, failures |-> bucket.failures]

Fresh(now, burst, refill) == [tokens |-> burst * refill, updated |-> now, failures |-> 0]

Drained(bucket, refill) ==
  [tokens |-> Max({bucket.tokens - refill, 0}), updated |-> bucket.updated,
   failures |-> bucket.failures + 1]

\* fail: the bucket is made when there is none.
Failed(buckets, key, now, burst, refill) ==
  LET room == Room(buckets, key, now, burst, refill)
      kept == room.kept IN
  [buckets |-> [k \in DOMAIN kept \cup {room.key} |->
      IF k # room.key THEN kept[k]
      ELSE Drained(Refilled(IF k \in DOMAIN kept THEN kept[k] ELSE Fresh(now, burst, refill),
                            now, burst, refill), refill)],
   key |-> room.key]

\* Mutant: a client that has a bucket pays for every try, not only the failed ones.
AllowedDraining(buckets, key, now, burst, refill) ==
  LET room == Room(buckets, key, now, burst, refill) IN
  IF room.key \notin DOMAIN room.kept THEN [buckets |-> room.kept, wait |-> 0]
  ELSE LET bucket == Refilled(room.kept[room.key], now, burst, refill) IN
       [buckets |-> [room.kept EXCEPT
                       ![room.key] = [bucket EXCEPT !.tokens = Max({@ - refill, 0})]],
        wait |-> IF bucket.tokens >= refill THEN 0 ELSE refill - bucket.tokens]

\* allow: the buckets after it, and the wait, 0 when the client may try.
Allowed(buckets, key, now, burst, refill) ==
  LET room == Room(buckets, key, now, burst, refill) IN
  IF room.key \notin DOMAIN room.kept THEN [buckets |-> room.kept, wait |-> 0]
  ELSE LET bucket == Refilled(room.kept[room.key], now, burst, refill) IN
       [buckets |-> [room.kept EXCEPT ![room.key] = bucket],
        wait |-> IF bucket.tokens >= refill THEN 0 ELSE refill - bucket.tokens]

----------------------------------------------------------------------------
(* handleLoginSubmit.                                                      *)

\* loginClient: the client is the address a trusted proxy appended.
LoginClient(request) ==
  IF request.peer \in Trusted /\ request.forwarded # None
  THEN [client |-> request.forwarded, proxy |-> request.peer]
  ELSE [client |-> request.peer, proxy |-> None]

From(a, request) ==
  LoginClient(request) = [client |-> attempt[a].client, proxy |-> attempt[a].proxy]

Submit(a, request) ==
  /\ attempt[a].at = "idle"
  /\ LET origin == LoginClient(request) IN
     attempt' = [attempt EXCEPT ![a] = [at |-> "allow client", client |-> origin.client,
                                        proxy |-> origin.proxy, now |-> clock, wait |-> 0,
                                        void |-> FALSE]]
  /\ UNCHANGED <<clock, clients, proxies, retryAt>>

\* allowLogin has its answer: 429 with Retry-After, or on to the credentials.
Decide(a, wait) ==
  IF wait = 0
  THEN /\ attempt' = [attempt EXCEPT ![a].at = "compare"]
       /\ UNCHANGED retryAt
  ELSE /\ attempt' = [attempt EXCEPT ![a] = Idle]
       /\ retryAt' = [r \in Requests |-> IF From(a, r) /\ ~attempt[a].void THEN clock + wait ELSE retryAt[r]]

AllowClient(a) ==
  /\ attempt[a].at = "allow client"
  /\ LET allowed == Allowed(clients, attempt[a].client, attempt[a].now, Burst, Refill) IN
     /\ clients' = allowed.buckets
     /\ IF attempt[a].proxy = None THEN Decide(a, allowed.wait)
        ELSE /\ attempt' = [attempt EXCEPT ![a].at = "allow proxy", ![a].wait = allowed.wait]
             /\ UNCHANGED retryAt
  /\ UNCHANGED <<clock, proxies>>

\* Mutant: a client that both throttles refuse is told the shorter wait.
AllowProxyShorter(a) ==
  /\ attempt[a].at = "allow proxy"
  /\ LET allowed == Allowed(proxies, attempt[a].proxy, attempt[a].now, ProxyBurst, ProxyRefill)
         waits == {attempt[a].wait, allowed.wait} IN
     /\ proxies' = allowed.buckets
     /\ Decide(a, IF 0 \in waits THEN Max(waits) ELSE Min(waits))
  /\ UNCHANGED <<clock, clients>>

AllowProxy(a) ==
  /\ attempt[a].at = "allow proxy"
  /\ LET allowed == Allowed(proxies, attempt[a].proxy, attempt[a].now, ProxyBurst, ProxyRefill) IN
     /\ proxies' = allowed.buckets
     /\ Decide(a, Max({attempt[a].wait, allowed.wait}))
  /\ UNCHANGED <<clock, clients>>

\* The credentials match: a session is issued, the throttle left alone.
SignIn(a) ==
  /\ attempt[a].at = "compare"
  /\ attempt' = [attempt EXCEPT ![a] = Idle]
  /\ UNCHANGED <<clock, clients, proxies, retryAt>>

\* They do not: both throttles are told, one after the other.  What was found
\* out or told about a wait is void when a later failure is charged to one of
\* the buckets it was found from.
Voided(a, charged) ==
  [b \in Attempts |->
     IF b = a THEN IF attempt[a].proxy # None
                   THEN [attempt[a] EXCEPT !.at = "fail proxy"] ELSE Idle
     ELSE IF attempt[b].at = "allow proxy" /\ charged \in {attempt[b].client, Overflow}
          THEN [attempt[b] EXCEPT !.void = TRUE] ELSE attempt[b]]

RetryVoided(charged, own) ==
  [r \in Requests |-> IF charged \in {LoginClient(r)[own], Overflow} THEN None ELSE retryAt[r]]

FailClient(a) ==
  /\ attempt[a].at = "compare"
  /\ LET charge == Failed(clients, attempt[a].client, attempt[a].now, Burst, Refill) IN
     /\ clients' = charge.buckets
     /\ retryAt' = RetryVoided(charge.key, "client")
     /\ attempt' = Voided(a, charge.key)
  /\ UNCHANGED <<clock, proxies>>

FailProxy(a) ==
  /\ attempt[a].at = "fail proxy"
  /\ LET charge == Failed(proxies, attempt[a].proxy, attempt[a].now, ProxyBurst, ProxyRefill) IN
     /\ proxies' = charge.buckets
     /\ retryAt' = RetryVoided(charge.key, "proxy")
     /\ attempt' = [attempt EXCEPT ![a] = Idle]
  /\ UNCHANGED <<clock, clients>>

Tick ==
  /\ clock < MaxTime
  /\ clock' = clock + 1
  /\ UNCHANGED <<clients, proxies, attempt, retryAt>>

Next ==
  \/ \E a \in Attempts :
       \/ \E request \in Requests : Submit(a, request)
       \/ AllowClient(a) \/ AllowProxy(a) \/ SignIn(a) \/ FailClient(a) \/ FailProxy(a)
  \/ Tick

Spec == Init /\ [][Next]_vars

----------------------------------------------------------------------------
Wait(request) ==
  LET origin == LoginClient(request)
      own == Allowed(clients, origin.client, clock, Burst, Refill).wait
  IN  IF origin.proxy = None THEN own
      ELSE Max({own, Allowed(proxies, origin.proxy, clock, ProxyBurst, ProxyRefill).wait})

Buckets(buckets, keys, burst, refill) ==
  /\ DOMAIN buckets \subseteq keys
  /\ Cardinality(DOMAIN buckets \ {Overflow}) <= MaxThrottled
  /\ \A k \in DOMAIN buckets : 
       buckets[k] \in [tokens : 0 .. burst * refill, updated : 0 .. clock, failures : Nat]

\* Buckets hold no more than their burst, are never ahead of the clock, and
\* but for the shared one there are no more of them than the bound.
TypeOK ==
  /\ clock \in 0 .. MaxTime
  /\ Buckets(clients, Keys, Burst, Refill)
  /\ Buckets(proxies, ProxyKeys, ProxyBurst, ProxyRefill)
  /\ \A a \in Attempts : attempt[a].now <= clock

\* The failures charged to a bucket are bounded: one at a time they are the
\* burst and one more for each refill.  Requests that run at the same time are
\* all let in by one token, so each of these may be exceeded by the others that
\* are under way (auth.go:197): the budget holds up to the number of concurrent
\* requests.  The shared bucket has no such bound, because clients that were let
\* in while the table had room are charged to it once it is full.
Bounded(buckets, burst, refill) ==
  \A k \in DOMAIN buckets \ {Overflow} :
    buckets[k].failures <= burst + Cardinality(Attempts) * (1 + clock \div refill) - 1

FailuresBounded ==
  Bounded(clients, Burst, Refill) /\ Bounded(proxies, ProxyBurst, ProxyRefill)

\* Who waits as long as Retry-After says is let in, unless a failure was
\* charged to one of its buckets after that was looked at (auth.go:201).  Who
\* has no bucket of its own in a full table is promised nothing: its bucket may
\* have been dropped since, and the shared one be empty.
RetryAfterSuffices ==
  \A r \in Requests :
    /\ retryAt[r] # None /\ retryAt[r] <= clock
    /\ Room(clients, LoginClient(r).client, clock, Burst, Refill).key # Overflow
    /\ LoginClient(r).proxy # None =>
         Room(proxies, LoginClient(r).proxy, clock, ProxyBurst, ProxyRefill).key # Overflow
    => Wait(r) = 0

\* A client is refused only when its own failures, those that share the
\* overflow bucket with it, or those of its proxy used up a whole budget since
\* that bucket was made: the typos of others do not block it (throttle.go:14).
UsedUp(buckets, key, burst) ==
  \E k \in {key, Overflow} \cap DOMAIN buckets : buckets[k].failures >= burst

OnlyFailuresThrottle ==
  \A r \in Requests : Wait(r) > 0 =>
    \/ UsedUp(clients, LoginClient(r).client, Burst)
    \/ LoginClient(r).proxy # None /\ UsedUp(proxies, LoginClient(r).proxy, ProxyBurst)

\* The tokens a client or proxy is found to have: a whole burst when there is no
\* bucket for it but room to make one.
Balance(buckets, key, now, burst, refill) ==
  LET room == Room(buckets, key, now, burst, refill) IN
  IF room.key \in DOMAIN room.kept THEN Refilled(room.kept[room.key], now, burst, refill).tokens
  ELSE burst * refill

Shares(buckets, key, now, burst, refill) ==
  Room(buckets, key, now, burst, refill).key = Overflow

ClientBalance(c) == Balance(clients, c, clock, Burst, Refill)
ProxyBalance(p) == Balance(proxies, p, clock, ProxyBurst, ProxyRefill)

\* Only time gives back what failed sign-ins took, and they take it only from
\* their own client and proxy: looking at a bucket, refilling it to the time of
\* a request that comes late and dropping it at that time (throttle.go:77, 87,
\* 97) change nobody's balance.  Only who comes to share the overflow bucket,
\* when its own full one is dropped from a table that stays full, may lose.
OnlyFailuresCharge ==
  [][/\ \A c \in Clients :
          \/ ClientBalance(c)' = ClientBalance(c)
          \/ /\ ClientBalance(c)' < ClientBalance(c)
             /\ \/ \E a \in Attempts : attempt[a].client = c /\ FailClient(a)
                \/ Shares(clients, c, clock, Burst, Refill)'
     /\ \A p \in Trusted :
          \/ ProxyBalance(p)' = ProxyBalance(p)
          \/ /\ ProxyBalance(p)' < ProxyBalance(p)
             /\ \/ \E a \in Attempts : attempt[a].proxy = p /\ FailProxy(a)
                \/ Shares(proxies, p, clock, ProxyBurst, ProxyRefill)'
    ]_<<clients, proxies>>
=============================================================================
