------------------------ MODULE LoginThrottle_proofs ------------------------
(***************************************************************************)
(* Proofs about LoginThrottle, for any clients, proxies and requests, any  *)
(* budgets, any number of buckets and any finite number of requests that   *)
(* run at the same time.                                                   *)
(***************************************************************************)
EXTENDS LoginThrottle, FiniteSetTheorems, TLAPS

-----------------------------------------------------------------------------
(* Arithmetic.                                                             *)

LEMMA MinPair ==
  ASSUME NEW x \in Int, NEW y \in Int
  PROVE  Min({x, y}) = IF x <= y THEN x ELSE y
<1> DEFINE m == IF x <= y THEN x ELSE y
<1>1. m \in {x, y} /\ \A z \in {x, y} : m <= z
  OBVIOUS
<1>2. \A n \in {x, y} : (\A z \in {x, y} : n <= z) => n = m
  OBVIOUS
<1>3. QED
  BY <1>1, <1>2 DEF Min

LEMMA MaxPair ==
  ASSUME NEW x \in Int, NEW y \in Int
  PROVE  Max({x, y}) = IF x >= y THEN x ELSE y
<1> DEFINE m == IF x >= y THEN x ELSE y
<1>1. m \in {x, y} /\ \A z \in {x, y} : m >= z
  OBVIOUS
<1>2. \A n \in {x, y} : (\A z \in {x, y} : n >= z) => n = m
  OBVIOUS
<1>3. QED
  BY <1>1, <1>2 DEF Max

LEMMA NextMultiple ==
  ASSUME NEW n \in Int, NEW r \in Int
  PROVE  n * r \in Int /\ (n + 1) * r = n * r + r
OBVIOUS

LEMMA Product ==
  ASSUME NEW n \in Nat, NEW r \in Nat
  PROVE  n * r \in Nat
OBVIOUS

LEMMA LargerProduct ==
  ASSUME NEW m \in Int, NEW n \in Int, m <= n, NEW r \in Nat
  PROVE  m * r \in Int /\ n * r \in Int /\ m * r <= n * r
OBVIOUS

LEMMA SmallerFactor ==
  ASSUME NEW m \in Int, NEW n \in Int, NEW r \in Nat \ {0}, m * r < n * r
  PROVE  m < n
<1>1. CASE n <= m
  BY <1>1, LargerProduct
<1>2. QED
  BY <1>1

-----------------------------------------------------------------------------
(* One bucket.                                                             *)

Bucket(burst, refill) == [tokens : 0 .. burst * refill, updated : Nat, failures : Nat]

LEMMA RefilledIs ==
  ASSUME NEW burst \in Nat \ {0}, NEW refill \in Nat \ {0}, NEW now \in Nat,
         NEW b \in Bucket(burst, refill)
  PROVE  LET c == Refilled(b, now, burst, refill) IN
         /\ c \in Bucket(burst, refill)
         /\ c.failures = b.failures
         /\ now <= b.updated => c = b
         /\ now > b.updated =>
              /\ c.updated = now
              /\ c.tokens = IF burst * refill <= b.tokens + (now - b.updated)
                            THEN burst * refill ELSE b.tokens + (now - b.updated)
<1>1. burst * refill \in Nat
  BY Product
<1>2. b.tokens \in Nat /\ b.updated \in Nat /\ b.tokens <= burst * refill
  BY <1>1 DEF Bucket
<1>3. CASE now <= b.updated
  <2>1. Refilled(b, now, burst, refill) = b /\ ~(now > b.updated)
    BY <1>2, <1>3 DEF Refilled
  <2>2. QED
    BY <2>1, <1>3
<1>4. CASE now > b.updated
  <2> DEFINE t == b.tokens + (now - b.updated)
             m == Min({burst * refill, t})
  <2>1. t \in Nat
    BY <1>2, <1>4
  <2>2. m = IF burst * refill <= t THEN burst * refill ELSE t
    BY <2>1, <1>1, MinPair
  <2>3. m \in 0 .. burst * refill
    BY <2>1, <2>2, <1>1
  <2>4. Refilled(b, now, burst, refill)
          = [tokens |-> m, updated |-> now, failures |-> b.failures]
    BY <1>2, <1>4 DEF Refilled
  <2> HIDE DEF m
  <2>5. QED
    BY <2>2, <2>3, <2>4, <1>2, <1>4 DEF Bucket
<1>5. now <= b.updated \/ now > b.updated
  BY <1>2
<1>6. QED
  BY <1>3, <1>4, <1>5

LEMMA DrainedIs ==
  ASSUME NEW burst \in Nat \ {0}, NEW refill \in Nat \ {0}, NEW b \in Bucket(burst, refill)
  PROVE  LET c == Drained(b, refill) IN
         /\ c \in Bucket(burst, refill)
         /\ c.failures = b.failures + 1
         /\ c.updated = b.updated
         /\ c.tokens = IF b.tokens >= refill THEN b.tokens - refill ELSE 0
<1>1. burst * refill \in Nat
  BY Product
<1>2. b.tokens \in Nat /\ b.updated \in Nat /\ b.failures \in Nat /\ b.tokens <= burst * refill
  BY <1>1 DEF Bucket
<1> DEFINE m == Max({b.tokens - refill, 0})
<1>3. m = IF b.tokens >= refill THEN b.tokens - refill ELSE 0
  BY <1>2, MaxPair
<1>4. m \in 0 .. burst * refill
  BY <1>1, <1>2, <1>3
<1>5. Drained(b, refill)
        = [tokens |-> m, updated |-> b.updated, failures |-> b.failures + 1]
  BY DEF Drained
<1> HIDE DEF m
<1>6. QED
  BY <1>2, <1>3, <1>4, <1>5 DEF Bucket

LEMMA FreshIs ==
  ASSUME NEW burst \in Nat \ {0}, NEW refill \in Nat \ {0}, NEW now \in Nat
  PROVE  /\ Fresh(now, burst, refill) \in Bucket(burst, refill)
         /\ Refilled(Fresh(now, burst, refill), now, burst, refill) = Fresh(now, burst, refill)
BY Product DEF Fresh, Bucket, Refilled

-----------------------------------------------------------------------------
(* What FailuresBounded rests on.  One token lets in any number of         *)
(* requests, but at most Together of them.  The first of them to fail uses *)
(* the token up; the others fail without a token that pays for it, and     *)
(* leave the bucket empty, so that nobody is let in before a whole token   *)
(* is refilled.  g counts the times this happened.  It is bounded by the   *)
(* time (its product with refill is), and each time there were at most     *)
(* Together - 1 failures without a token.                                  *)

Together == Cardinality(Attempts)

\* n requests that the bucket let in have not yet been answered, and the time
\* has paid for the failures so far.  First case: no token or every failure
\* had its own since the last time; second: requests let in by the last token
\* have failed without one, and the n others may.
Paid(b, g, n, burst, refill) ==
  \/ /\ g * refill <= b.updated
     /\ b.failures * refill + b.tokens
          <= burst * refill + b.updated + g * ((Together - 1) * refill)
     /\ b.tokens < refill => n < Together
  \/ /\ b.tokens < refill
     /\ g * refill + b.tokens <= refill + b.updated
     /\ b.failures * refill + b.tokens + n * refill
          <= burst * refill + b.updated + g * ((Together - 1) * refill)

WithinBudget(b, n, burst, refill) == \E g \in Nat : Paid(b, g, n, burst, refill)

LEMMA TogetherType == Together \in Nat
BY FS_CardinalityType, RequestAssumption DEF Together

\* Fewer requests under way need no more.
LEMMA FewerUnderWay ==
  ASSUME NEW burst \in Nat \ {0}, NEW refill \in Nat \ {0}, NEW b \in Bucket(burst, refill),
         NEW n \in Nat, NEW m \in Nat, m <= n, WithinBudget(b, n, burst, refill)
  PROVE  WithinBudget(b, m, burst, refill)
<1>1. PICK g \in Nat : Paid(b, g, n, burst, refill)
  BY DEF WithinBudget
<1>2. b.tokens \in Int /\ b.updated \in Int /\ b.failures \in Int
  BY Product DEF Bucket
<1> DEFINE nr == n * refill   mr == m * refill
           fr == b.failures * refill   br == burst * refill
           e == (Together - 1) * refill   ge == g * e   gr == g * refill
<1>3. nr \in Int /\ mr \in Int /\ mr <= nr
  BY LargerProduct
<1>4. e \in Int /\ br \in Int
  BY NextMultiple, TogetherType
<1>5. fr \in Int /\ gr \in Int
  BY NextMultiple, <1>2
<1>6. ge \in Int
  <2> HIDE DEF e
  <2> QED BY <1>4, NextMultiple
<1>7. Paid(b, g, m, burst, refill)
  <2>1. \/ /\ gr <= b.updated
           /\ fr + b.tokens <= br + b.updated + ge
           /\ b.tokens < refill => n < Together
        \/ /\ b.tokens < refill
           /\ gr + b.tokens <= refill + b.updated
           /\ fr + b.tokens + nr <= br + b.updated + ge
    BY <1>1 DEF Paid
  <2> HIDE DEF nr, mr, fr, br, e, ge, gr
  <2>2. \/ /\ gr <= b.updated
           /\ fr + b.tokens <= br + b.updated + ge
           /\ b.tokens < refill => m < Together
        \/ /\ b.tokens < refill
           /\ gr + b.tokens <= refill + b.updated
           /\ fr + b.tokens + mr <= br + b.updated + ge
    BY <2>1, <1>2, <1>3, <1>4, <1>5, <1>6, TogetherType
  <2> USE DEF nr, mr, fr, br, e, ge, gr
  <2>3. QED
    BY <2>2 DEF Paid
<1>8. QED
  BY <1>7 DEF WithinBudget

\* Neither does a bucket that time has refilled.
LEMMA RefillWithinBudget ==
  ASSUME NEW burst \in Nat \ {0}, NEW refill \in Nat \ {0}, NEW b \in Bucket(burst, refill),
         NEW n \in 0 .. Together, NEW now \in Nat, WithinBudget(b, n, burst, refill)
  PROVE  WithinBudget(Refilled(b, now, burst, refill), n, burst, refill)
<1>1. PICK g \in Nat : Paid(b, g, n, burst, refill)
  BY DEF WithinBudget
<1> DEFINE c == Refilled(b, now, burst, refill)
<1>2. /\ b.tokens \in Int /\ b.updated \in Int /\ b.failures \in Int
      /\ c.tokens \in Int /\ c.updated \in Int /\ c.failures = b.failures
      /\ b.tokens <= c.tokens
      /\ c.tokens - b.tokens <= c.updated - b.updated
  <2>1. /\ b.tokens \in Int /\ b.updated \in Int /\ b.failures \in Int
        /\ burst * refill \in Int /\ b.tokens <= burst * refill
        /\ c.failures = b.failures /\ c \in Bucket(burst, refill)
    BY Product, RefilledIs DEF Bucket
  <2>2. CASE now <= b.updated
    BY <2>1, <2>2, RefilledIs
  <2>3. CASE now > b.updated
    <3>1. /\ c.updated = now
          /\ c.tokens = IF burst * refill <= b.tokens + (now - b.updated)
                        THEN burst * refill ELSE b.tokens + (now - b.updated)
      BY <2>1, <2>3, RefilledIs
    <3> DEFINE br == burst * refill
    <3> HIDE DEF c, br
    <3>2. QED
      BY <2>1, <2>3, <3>1 DEF br
  <2>4. QED
    BY <2>1, <2>2, <2>3
<1> DEFINE nr == n * refill   fr == b.failures * refill   br == burst * refill
           e == (Together - 1) * refill   ge == g * e   gr == g * refill
<1>4. e \in Int /\ br \in Int /\ nr \in Int /\ nr <= Together * refill
      /\ Together * refill = e + refill
  BY NextMultiple, LargerProduct, TogetherType
<1>5. fr \in Int /\ gr \in Int
  BY NextMultiple, <1>2
<1>6. ge \in Int
  <2> HIDE DEF e
  <2> QED BY <1>4, NextMultiple
<1>7. Paid(c, g, n, burst, refill)
  <2>1. \/ /\ gr <= b.updated
           /\ fr + b.tokens <= br + b.updated + ge
           /\ b.tokens < refill => n < Together
        \/ /\ b.tokens < refill
           /\ gr + b.tokens <= refill + b.updated
           /\ fr + b.tokens + nr <= br + b.updated + ge
    BY <1>1 DEF Paid
  <2>0. nr >= 0
    BY Product
  <2> HIDE DEF nr, fr, br, e, ge, gr, c
  <2>2. \/ /\ gr <= c.updated
           /\ fr + c.tokens <= br + c.updated + ge
           /\ c.tokens < refill => n < Together
        \/ /\ c.tokens < refill
           /\ gr + c.tokens <= refill + c.updated
           /\ fr + c.tokens + nr <= br + c.updated + ge
    BY <2>0, <2>1, <1>2, <1>4, <1>5, <1>6, TogetherType
  <2>3. c.failures * refill = fr
    BY <1>2 DEF fr
  <2> HIDE <1>2
  <2>4. QED
    BY <2>2, <2>3 DEF Paid, nr, br, e, ge, gr
<1>8. QED
  BY <1>7 DEF WithinBudget

\* A bucket with a token lets one more request in.
LEMMA AdmitWithinBudget ==
  ASSUME NEW burst \in Nat \ {0}, NEW refill \in Nat \ {0}, NEW b \in Bucket(burst, refill),
         NEW n \in Nat, NEW m \in Nat, b.tokens >= refill, WithinBudget(b, n, burst, refill)
  PROVE  WithinBudget(b, m, burst, refill)
<1>1. PICK g \in Nat : Paid(b, g, n, burst, refill)
  BY DEF WithinBudget
<1>2. b.tokens \in Int /\ b.updated \in Int
  BY Product DEF Bucket
<1>3. ~(b.tokens < refill)
  BY <1>2
<1>4. Paid(b, g, m, burst, refill)
  BY <1>1, <1>3 DEF Paid
<1>5. QED
  BY <1>4 DEF WithinBudget

\* A request that was let in fails.
LEMMA FailureWithinBudget ==
  ASSUME NEW burst \in Nat \ {0}, NEW refill \in Nat \ {0}, NEW b \in Bucket(burst, refill),
         NEW n \in 1 .. Together, WithinBudget(b, n, burst, refill)
  PROVE  WithinBudget(Drained(b, refill), n - 1, burst, refill)
<1>1. PICK g \in Nat : Paid(b, g, n, burst, refill)
  BY DEF WithinBudget
<1> DEFINE c == Drained(b, refill)
<1>2. /\ b.tokens \in Nat /\ b.updated \in Int /\ b.failures \in Int
      /\ c.failures = b.failures + 1 /\ c.updated = b.updated
      /\ c.tokens = IF b.tokens >= refill THEN b.tokens - refill ELSE 0
  BY Product, DrainedIs DEF Bucket
<1> DEFINE nr == n * refill   fr == b.failures * refill   br == burst * refill
           e == (Together - 1) * refill   ge == g * e   gr == g * refill
           mr == (n - 1) * refill
<1>4. /\ e \in Int /\ br \in Int /\ nr \in Int
      /\ nr <= Together * refill /\ Together * refill = e + refill
      /\ mr \in Int /\ nr = mr + refill
  BY NextMultiple, LargerProduct, TogetherType
<1>5. fr \in Int /\ gr \in Int /\ (b.failures + 1) * refill = fr + refill
      /\ (g + 1) * refill = gr + refill
  BY NextMultiple, <1>2
<1>6. ge \in Int /\ (g + 1) * e = ge + e
  <2> HIDE DEF e
  <2> QED BY <1>4, NextMultiple
<1>7. /\ n < Together => nr <= e
      /\ mr <= e
  <2>1. n < Together => n <= Together - 1
    BY TogetherType
  <2>2. n - 1 <= Together - 1 /\ n - 1 \in Int /\ Together - 1 \in Int
    BY TogetherType
  <2>3. QED
    BY <2>1, <2>2, LargerProduct
<1>8. \/ /\ gr <= b.updated
         /\ fr + b.tokens <= br + b.updated + ge
         /\ b.tokens < refill => n < Together
      \/ /\ b.tokens < refill
         /\ gr + b.tokens <= refill + b.updated
         /\ fr + b.tokens + nr <= br + b.updated + ge
  BY <1>1 DEF Paid
<1>9. CASE b.tokens >= refill
  <2>1. Paid(c, g, n - 1, burst, refill)
    <3> HIDE DEF nr, mr, fr, br, e, ge, gr, c
    <3>1. /\ gr <= c.updated
          /\ fr + refill + c.tokens <= br + c.updated + ge
          /\ c.tokens < refill => n - 1 < Together
      BY <1>8, <1>9, <1>2, <1>4, <1>5, <1>6, TogetherType
    <3>2. c.failures * refill = fr + refill
      BY <1>2, <1>5
    <3>3. QED
      BY <3>1, <3>2 DEF Paid, br, e, ge, gr
  <2>2. QED
    BY <2>1 DEF WithinBudget
<1>10. CASE b.tokens < refill /\ gr <= b.updated /\ n < Together
            /\ fr + b.tokens <= br + b.updated + ge
  <2>1. Paid(c, g + 1, n - 1, burst, refill)
    <3> HIDE DEF nr, mr, fr, br, e, ge, gr, c
    <3>1. /\ c.tokens < refill
          /\ gr + refill + c.tokens <= refill + c.updated
          /\ fr + refill + c.tokens + mr <= br + c.updated + (ge + e)
      BY <1>10, <1>2, <1>4, <1>5, <1>6, <1>7
    <3>2. c.failures * refill = fr + refill
      BY <1>2, <1>5
    <3>3. QED
      BY <3>1, <3>2, <1>5, <1>6 DEF Paid, br, e, mr
  <2>2. QED
    BY <2>1 DEF WithinBudget
<1>11. CASE b.tokens < refill /\ gr + b.tokens <= refill + b.updated
            /\ fr + b.tokens + nr <= br + b.updated + ge
  <2>1. Paid(c, g, n - 1, burst, refill)
    <3> HIDE DEF nr, mr, fr, br, e, ge, gr, c
    <3>1. /\ c.tokens < refill
          /\ gr + c.tokens <= refill + c.updated
          /\ fr + refill + c.tokens + mr <= br + c.updated + ge
      BY <1>11, <1>2, <1>4, <1>5, <1>6
    <3>2. c.failures * refill = fr + refill
      BY <1>2, <1>5
    <3>3. QED
      BY <3>1, <3>2 DEF Paid, br, e, ge, gr, mr
  <2>2. QED
    BY <2>1 DEF WithinBudget
<1>12. QED
  BY <1>2, <1>8, <1>9, <1>10, <1>11

\* The first failure that a bucket is made for.
LEMMA FirstWithinBudget ==
  ASSUME NEW burst \in Nat \ {0}, NEW refill \in Nat \ {0}, NEW now \in Nat,
         NEW n \in Nat, n < Together
  PROVE  WithinBudget(Drained(Fresh(now, burst, refill), refill), n, burst, refill)
<1> DEFINE b == Fresh(now, burst, refill)
           c == Drained(b, refill)
           br == burst * refill
<1>1. /\ b \in Bucket(burst, refill) /\ b.tokens = br /\ b.updated = now /\ b.failures = 0
      /\ br \in Int
  BY FreshIs, Product DEF Fresh
<1>2. refill <= br
  <2>1. 1 * refill <= burst * refill
    BY LargerProduct
  <2>2. QED
    BY <2>1
<1>3. c.failures = 1 /\ c.updated = now /\ c.tokens = br - refill
  <2>1. /\ c.failures = b.failures + 1
        /\ c.updated = b.updated
        /\ c.tokens = IF b.tokens >= refill THEN b.tokens - refill ELSE 0
    BY <1>1, DrainedIs
  <2> HIDE DEF b, c, br
  <2>2. QED
    BY <2>1, <1>1, <1>2
<1>4. Paid(c, 0, n, burst, refill)
  <2>1. 0 * ((Together - 1) * refill) = 0 /\ 0 * refill = 0 /\ 1 * refill = refill
    <3> DEFINE e == (Together - 1) * refill
    <3>1. e \in Int
      BY NextMultiple, TogetherType
    <3> HIDE DEF e
    <3>2. 0 * e = 0
      BY <3>1
    <3>3. QED
      BY <3>2 DEF e
  <2> HIDE DEF c
  <2>2. QED
    BY <2>1, <1>1, <1>3 DEF Paid
<1>5. QED
  BY <1>4 DEF WithinBudget

\* What time has paid for is what FailuresBounded allows.
LEMMA Quotient ==
  ASSUME NEW t \in Nat, NEW r \in Nat \ {0}
  PROVE  t \div r \in Nat /\ (t \div r) * r <= t /\ t < (t \div r + 1) * r
OBVIOUS

LEMMA BudgetBound ==
  ASSUME NEW burst \in Nat \ {0}, NEW refill \in Nat \ {0}, NEW b \in Bucket(burst, refill),
         NEW n \in Nat, Together > 0, WithinBudget(b, n, burst, refill),
         NEW now \in Nat, b.updated <= now
  PROVE  b.failures <= burst + Together * (1 + now \div refill) - 1
<1>1. PICK g \in Nat : Paid(b, g, n, burst, refill)
  BY DEF WithinBudget
<1> DEFINE q == now \div refill
           w == Together - 1
           nr == n * refill   fr == b.failures * refill   br == burst * refill
           e == w * refill   ge == g * e   gr == g * refill
           qr == q * refill  qe == q * e
           times == Together * (1 + q)
           bound == burst + times
<1>2. b.tokens \in Nat /\ b.updated \in Int /\ b.failures \in Int
  BY Product DEF Bucket
<1>3. q \in Nat /\ qr <= now /\ now < qr + refill /\ qr \in Int
  <2>1. q \in Nat /\ qr <= now /\ now < (q + 1) * refill
    BY Quotient
  <2> HIDE DEF q
  <2>2. QED
    BY <2>1, NextMultiple
<1>4. w \in Nat /\ e \in Nat /\ br \in Int /\ nr \in Nat /\ fr \in Int /\ gr \in Int
  <2>1. w \in Nat
    BY TogetherType
  <2> HIDE DEF w
  <2>2. QED
    BY <1>2, <2>1, NextMultiple, Product
<1>5. /\ ge \in Int /\ qe \in Int
      /\ g <= q => ge <= qe
      /\ g <= q + 1 => ge <= qe + e
  <2> HIDE DEF e, q
  <2>1. (q + 1) * e = qe + e
    BY <1>3, <1>4, NextMultiple
  <2>2. QED
    BY <2>1, <1>3, <1>4, LargerProduct, NextMultiple
<1>6. \/ /\ gr <= b.updated
         /\ fr + b.tokens <= br + b.updated + ge
      \/ /\ b.tokens < refill
         /\ gr + b.tokens <= refill + b.updated
         /\ fr + b.tokens + nr <= br + b.updated + ge
  BY <1>1 DEF Paid
<1>7. fr < br + qr + refill + qe + e
  <2>1. CASE gr <= b.updated /\ fr + b.tokens <= br + b.updated + ge
    <3>1. g * refill < (q + 1) * refill
      <4>1. (q + 1) * refill = qr + refill
        BY <1>3, NextMultiple
      <4>2. gr < qr + refill
        <5> HIDE DEF gr, qr
        <5> QED BY <2>1, <1>2, <1>3, <1>4
      <4>3. QED
        BY <4>1, <4>2
    <3>2. g < q + 1
      <4> HIDE DEF q
      <4> QED BY <3>1, <1>3, SmallerFactor
    <3>3. g <= q
      BY <3>2, <1>3
    <3> HIDE DEF q, w, nr, fr, br, e, ge, gr, qr, qe
    <3>4. QED
      BY <2>1, <3>3, <1>2, <1>3, <1>4, <1>5
  <2>2. CASE /\ b.tokens < refill
             /\ gr + b.tokens <= refill + b.updated
             /\ fr + b.tokens + nr <= br + b.updated + ge
    <3>1. g * refill < (q + 2) * refill
      <4>1. (q + 2) * refill = qr + refill + refill
        <5> HIDE DEF q
        <5>1. (q + 1) * refill = q * refill + refill /\ (q + 1 + 1) * refill = (q + 1) * refill + refill
          BY <1>3, NextMultiple
        <5>2. q + 1 + 1 = q + 2
          BY <1>3
        <5>3. QED
          BY <5>1, <5>2
      <4>2. gr < qr + refill + refill
        <5> HIDE DEF q, w, nr, fr, br, e, ge, gr, qr, qe
        <5> QED BY <2>2, <1>2, <1>3, <1>4
      <4>3. QED
        BY <4>1, <4>2
    <3>2. g < q + 2
      <4> HIDE DEF q
      <4> QED BY <3>1, <1>3, SmallerFactor
    <3>3. g <= q + 1
      BY <3>2, <1>3
    <3> HIDE DEF q, w, nr, fr, br, e, ge, gr, qr, qe
    <3>4. QED
      BY <2>2, <3>3, <1>2, <1>3, <1>4, <1>5
  <2>3. QED
    BY <1>6, <2>1, <2>2
<1>8. bound \in Int /\ bound * refill = br + qr + refill + qe + e
  <2>1. Together = w + 1
    BY TogetherType
  <2> HIDE DEF q, w
  <2>2. /\ bound \in Int
        /\ bound * refill = burst * refill + (q + 1) * refill + (w * refill) * (q + 1)
    BY <2>1, <1>3, <1>4
  <2>3. QED
    BY <2>2, <1>3, <1>4
<1>9. b.failures * refill < bound * refill
  BY <1>7, <1>8
<1>10. b.failures < bound
  <2> HIDE DEF bound
  <2> QED BY <1>2, <1>8, <1>9, SmallerFactor
<1>11. b.failures <= burst + (times - 1)
  <2>1. times \in Int
    <3> HIDE DEF q
    <3> QED BY <1>3, TogetherType
  <2> HIDE DEF times
  <2>2. QED
    BY <2>1, <1>10, <1>2
<1>12. QED
  BY <1>11

-----------------------------------------------------------------------------
(* What the other two properties rest on, for one bucket.                  *)

\* What is missing from the burst was taken by failures.
Earned(b, burst, refill) == b.tokens + b.failures * refill >= burst * refill

\* A whole token is there, or will be at time t if nothing is charged.
Ready(b, t, refill) == b.tokens >= refill \/ b.tokens + (t - b.updated) >= refill

LEMMA RefillEarned ==
  ASSUME NEW burst \in Nat \ {0}, NEW refill \in Nat \ {0}, NEW b \in Bucket(burst, refill),
         NEW now \in Nat, Earned(b, burst, refill)
  PROVE  Earned(Refilled(b, now, burst, refill), burst, refill)
<1> DEFINE c == Refilled(b, now, burst, refill)
           br == burst * refill
           fr == b.failures * refill
<1>1. c.failures = b.failures /\ (c = b \/ c.tokens = br \/ c.tokens >= b.tokens)
  <2>1. b.tokens \in Nat /\ b.updated \in Nat /\ br \in Nat
    BY Product DEF Bucket
  <2>2. now <= b.updated \/ now > b.updated
    BY <2>1
  <2>3. CASE now <= b.updated
    BY <2>3, RefilledIs
  <2>4. CASE now > b.updated
    <3>1. c.tokens = (IF br <= b.tokens + (now - b.updated)
                      THEN br ELSE b.tokens + (now - b.updated))
      BY <2>4, RefilledIs
    <3>2. c.failures = b.failures
      BY RefilledIs
    <3> HIDE DEF br, c
    <3>3. QED
      BY <2>1, <2>4, <3>1, <3>2
  <2>5. QED
    BY <2>2, <2>3, <2>4
<1>2. fr \in Nat /\ br \in Nat /\ b.tokens \in Nat /\ c.tokens \in Nat
  BY RefilledIs, Product DEF Bucket
<1>3. b.tokens + fr >= br
  BY DEF Earned
<1>4. c.tokens + fr >= br
  <2> HIDE DEF c, fr, br
  <2>1. CASE c = b
    BY <2>1, <1>3
  <2>2. CASE c.tokens = br \/ c.tokens >= b.tokens
    BY <2>2, <1>2, <1>3
  <2>3. QED
    BY <1>1, <2>1, <2>2
<1>5. c.failures * refill = fr
  BY <1>1
<1>6. c.tokens + c.failures * refill >= burst * refill
  BY <1>4, <1>5
<1>7. QED
  BY <1>6 DEF Earned

LEMMA DrainEarned ==
  ASSUME NEW burst \in Nat \ {0}, NEW refill \in Nat \ {0}, NEW b \in Bucket(burst, refill),
         Earned(b, burst, refill)
  PROVE  Earned(Drained(b, refill), burst, refill)
<1> DEFINE c == Drained(b, refill)
           br == burst * refill
           fr == b.failures * refill
<1>1. /\ b.tokens \in Nat /\ b.failures \in Nat /\ br \in Nat /\ fr \in Nat
      /\ c.failures = b.failures + 1
      /\ c.tokens = IF b.tokens >= refill THEN b.tokens - refill ELSE 0
  <2>1. b.tokens \in Nat /\ b.failures \in Nat /\ br \in Nat /\ fr \in Nat
    BY Product DEF Bucket
  <2>2. QED
    BY <2>1, DrainedIs
<1>2. (b.failures + 1) * refill = fr + refill
  BY <1>1, NextMultiple
<1>3. b.tokens + fr >= br
  BY DEF Earned
<1>4. c.tokens + (fr + refill) >= br
  <2> HIDE DEF c, br, fr
  <2> QED BY <1>1, <1>3
<1>5. c.failures * refill = fr + refill
  BY <1>1, <1>2
<1>6. c.tokens + c.failures * refill >= burst * refill
  BY <1>4, <1>5
<1>7. QED
  BY <1>6 DEF Earned

LEMMA FreshEarned ==
  ASSUME NEW burst \in Nat \ {0}, NEW refill \in Nat \ {0}, NEW now \in Nat
  PROVE  Earned(Fresh(now, burst, refill), burst, refill)
<1>1. burst * refill \in Nat /\ 0 * refill = 0
  BY Product
<1>2. QED
  BY <1>1 DEF Earned, Fresh

\* A bucket without a token has had as many failures as its burst.
LEMMA EmptyUsedUp ==
  ASSUME NEW burst \in Nat \ {0}, NEW refill \in Nat \ {0}, NEW b \in Bucket(burst, refill),
         Earned(b, burst, refill), b.tokens < refill
  PROVE  b.failures >= burst
<1>1. b.tokens \in Nat /\ b.failures \in Nat
  BY Product DEF Bucket
<1>2. burst * refill < (b.failures + 1) * refill
  <2> DEFINE br == burst * refill   fr == b.failures * refill
  <2>1. br \in Nat /\ fr \in Nat /\ (b.failures + 1) * refill = fr + refill /\ b.tokens + fr >= br
    BY <1>1, Product, NextMultiple DEF Earned
  <2>2. br < fr + refill
    <3> HIDE DEF br, fr
    <3> QED BY <1>1, <2>1
  <2>3. QED
    BY <2>1, <2>2
<1>3. burst < b.failures + 1
  BY <1>1, <1>2, SmallerFactor
<1>4. QED
  BY <1>1, <1>3

LEMMA RefillReady ==
  ASSUME NEW burst \in Nat \ {0}, NEW refill \in Nat \ {0}, NEW b \in Bucket(burst, refill),
         NEW now \in Nat, NEW t \in Nat, Ready(b, t, refill)
  PROVE  Ready(Refilled(b, now, burst, refill), t, refill)
<1> DEFINE c == Refilled(b, now, burst, refill)
           br == burst * refill
<1>1. b.tokens \in Nat /\ b.updated \in Nat /\ br \in Nat /\ refill <= br
  <2>1. 1 * refill <= burst * refill
    BY LargerProduct
  <2>2. QED
    BY <2>1, Product DEF Bucket
<1>2. CASE now <= b.updated
  BY <1>2, RefilledIs
<1>3. CASE now > b.updated
  <2>1. /\ c.updated = now
        /\ c.tokens = IF br <= b.tokens + (now - b.updated)
                      THEN br ELSE b.tokens + (now - b.updated)
    BY <1>3, RefilledIs
  <2>2. Ready(c, t, refill)
    <3> HIDE DEF br, c
    <3> QED BY <2>1, <1>1, <1>3 DEF Ready
  <2>3. QED
    BY <2>2
<1>4. now <= b.updated \/ now > b.updated
  BY <1>1
<1>5. QED
  BY <1>2, <1>3, <1>4

\* When that time has come the bucket lets in.
LEMMA ReadyNow ==
  ASSUME NEW burst \in Nat \ {0}, NEW refill \in Nat \ {0}, NEW b \in Bucket(burst, refill),
         NEW now \in Nat, NEW t \in Nat, t <= now, b.updated <= now, Ready(b, t, refill)
  PROVE  Refilled(b, now, burst, refill).tokens >= refill
<1> DEFINE c == Refilled(b, now, burst, refill)
<1>1. Ready(c, t, refill)
  BY RefillReady
<1>2. c.tokens \in Nat /\ c.updated = now
  <2>1. b.updated \in Nat /\ c \in Bucket(burst, refill)
    BY RefilledIs DEF Bucket
  <2>2. CASE now = b.updated
    <3>1. now <= b.updated
      BY <2>1, <2>2
    <3>2. QED
      BY <2>1, <2>2, <3>1, RefilledIs, Product DEF Bucket
  <2>3. CASE now > b.updated
    BY <2>1, <2>3, RefilledIs, Product DEF Bucket
  <2>4. QED
    BY <2>1, <2>2, <2>3
<1>3. c.tokens >= refill
  <2> HIDE DEF c
  <2> QED BY <1>1, <1>2 DEF Ready
<1>4. QED
  BY <1>3

-----------------------------------------------------------------------------
(* The buckets of one throttle.                                            *)

Throttle(buckets, keys, burst, refill) ==
  /\ buckets \in [DOMAIN buckets -> Bucket(burst, refill)]
  /\ DOMAIN buckets \subseteq keys
  /\ IsFiniteSet(DOMAIN buckets)
  /\ Cardinality(DOMAIN buckets \ {Overflow}) <= MaxThrottled

\* Room keeps buckets as they are, drops some only when key has none, and
\* finds a key there is a bucket for or room to make one.
RoomOf(room, key, buckets, keys, burst, refill) ==
  /\ Throttle(room.kept, keys, burst, refill)
  /\ DOMAIN room.kept \subseteq DOMAIN buckets
  /\ \A k \in DOMAIN room.kept : room.kept[k] = buckets[k]
  /\ room.key \in {key, Overflow}
  /\ key \in DOMAIN buckets => room.key = key /\ room.kept = buckets
  /\ IsFiniteSet(DOMAIN room.kept \cup {room.key})
  /\ Cardinality((DOMAIN room.kept \cup {room.key}) \ {Overflow}) <= MaxThrottled

LEMMA RoomKeeps ==
  ASSUME NEW burst \in Nat \ {0}, NEW refill \in Nat \ {0}, NEW keys, Overflow \in keys,
         NEW buckets, Throttle(buckets, keys, burst, refill),
         NEW key \in keys, NEW now \in Nat
  PROVE  RoomOf(Room(buckets, key, now, burst, refill), key, buckets, keys, burst, refill)
<1>0. MaxThrottled \in Nat
  BY BudgetAssumption
<1> DEFINE room == Room(buckets, key, now, burst, refill)
           pruned == Prune(buckets, now, burst, refill)
<1>1. /\ Throttle(pruned, keys, burst, refill)
      /\ DOMAIN pruned \subseteq DOMAIN buckets
      /\ \A k \in DOMAIN pruned : pruned[k] = buckets[k]
  <2> DEFINE D == {k \in DOMAIN buckets : ~Full(buckets[k], now, burst, refill)}
  <2>1. pruned = [k \in D |-> buckets[k]] /\ D \subseteq DOMAIN buckets
    BY DEF Prune, Restrict
  <2>2. pruned \in [DOMAIN pruned -> Bucket(burst, refill)] /\ DOMAIN pruned = D
    BY <2>1 DEF Throttle
  <2> HIDE DEF D, pruned
  <2>3. IsFiniteSet(D)
    BY <2>1, FS_Subset DEF Throttle
  <2>4. Cardinality(D \ {Overflow}) <= MaxThrottled
    <3>1. D \ {Overflow} \in SUBSET (DOMAIN buckets \ {Overflow})
      BY <2>1
    <3>2. IsFiniteSet(DOMAIN buckets \ {Overflow})
      BY FS_RemoveElement DEF Throttle
    <3>3. /\ Cardinality(D \ {Overflow}) <= Cardinality(DOMAIN buckets \ {Overflow})
          /\ IsFiniteSet(D \ {Overflow})
      BY <3>1, <3>2, FS_Subset
    <3>4. /\ Cardinality(D \ {Overflow}) \in Nat
          /\ Cardinality(DOMAIN buckets \ {Overflow}) \in Nat
      BY <3>2, <3>3, FS_CardinalityType
    <3>5. QED
      BY <3>3, <3>4, <1>0 DEF Throttle
  <2>5. QED
    BY <2>1, <2>2, <2>3, <2>4 DEF Throttle
<1>2. \/ /\ key \in DOMAIN buckets \/ Cardinality(DOMAIN buckets) < MaxThrottled
         /\ room = [kept |-> buckets, key |-> key]
      \/ /\ key \notin DOMAIN buckets /\ Cardinality(DOMAIN pruned) < MaxThrottled
         /\ room = [kept |-> pruned, key |-> key]
      \/ /\ key \notin DOMAIN buckets
         /\ room = [kept |-> pruned, key |-> Overflow]
  BY DEF Room
<1> HIDE DEF room, pruned
<1>3. /\ Throttle(room.kept, keys, burst, refill)
      /\ DOMAIN room.kept \subseteq DOMAIN buckets
      /\ \A k \in DOMAIN room.kept : room.kept[k] = buckets[k]
      /\ room.key \in {key, Overflow}
      /\ key \in DOMAIN buckets => room.key = key /\ room.kept = buckets
      /\ \/ room.key \in DOMAIN room.kept \cup {Overflow}
         \/ Cardinality(DOMAIN room.kept) < MaxThrottled
  BY <1>1, <1>2
<1> DEFINE D == DOMAIN room.kept
<1>4. IsFiniteSet(D) /\ IsFiniteSet(D \cup {room.key}) /\ Cardinality(D \ {Overflow}) <= MaxThrottled
  BY <1>3, FS_AddElement DEF Throttle
<1>5. Cardinality((D \cup {room.key}) \ {Overflow}) <= MaxThrottled
  <2>1. CASE room.key \in D \cup {Overflow}
    <3>1. (D \cup {room.key}) \ {Overflow} = D \ {Overflow}
      BY <2>1
    <3>2. QED
      BY <3>1, <1>4
  <2>2. CASE Cardinality(D) < MaxThrottled
    <3>1. Cardinality(D) \in Nat /\ Cardinality(D \cup {room.key}) <= Cardinality(D) + 1
      <4>1. Cardinality(D) \in Nat
        BY <1>4, FS_CardinalityType
      <4>2. Cardinality(D \cup {room.key})
              = IF room.key \in D THEN Cardinality(D) ELSE Cardinality(D) + 1
        BY <1>4, FS_AddElement
      <4>3. QED
        BY <4>1, <4>2
    <3>2. (D \cup {room.key}) \ {Overflow} \in SUBSET (D \cup {room.key})
      OBVIOUS
    <3>3. /\ Cardinality((D \cup {room.key}) \ {Overflow}) <= Cardinality(D \cup {room.key})
          /\ IsFiniteSet((D \cup {room.key}) \ {Overflow})
      BY <1>4, <3>2, FS_Subset
    <3>4. /\ Cardinality((D \cup {room.key}) \ {Overflow}) \in Nat
          /\ Cardinality(D \cup {room.key}) \in Nat
      BY <1>4, <3>3, FS_CardinalityType
    <3>5. QED
      BY <1>0, <2>2, <3>1, <3>3, <3>4
  <2>3. QED
    BY <1>3, <2>1, <2>2
<1>6. QED
  BY <1>3, <1>4, <1>5 DEF room, RoomOf

\* What allow does to the buckets, and the wait that it finds.
AllowedOf(allowed, key, now, buckets, keys, burst, refill) ==
  /\ Throttle(allowed.buckets, keys, burst, refill)
  /\ \A k \in DOMAIN allowed.buckets :
       /\ k \in DOMAIN buckets
       /\ allowed.buckets[k] \in {buckets[k], Refilled(buckets[k], now, burst, refill)}
  /\ allowed.wait \in Nat
  /\ key \in DOMAIN allowed.buckets =>
       allowed.wait = IF allowed.buckets[key].tokens >= refill THEN 0
                      ELSE refill - allowed.buckets[key].tokens

LEMMA AllowedKeeps ==
  ASSUME NEW burst \in Nat \ {0}, NEW refill \in Nat \ {0}, NEW keys, Overflow \in keys,
         NEW buckets, Throttle(buckets, keys, burst, refill),
         NEW key \in keys, NEW now \in Nat
  PROVE  AllowedOf(Allowed(buckets, key, now, burst, refill), key, now, buckets,
                   keys, burst, refill)
<1> DEFINE allowed == Allowed(buckets, key, now, burst, refill)
           room == Room(buckets, key, now, burst, refill)
           bucket == Refilled(room.kept[room.key], now, burst, refill)
<1>1. /\ Throttle(room.kept, keys, burst, refill)
      /\ DOMAIN room.kept \subseteq DOMAIN buckets
      /\ \A k \in DOMAIN room.kept : room.kept[k] = buckets[k]
      /\ room.key \in {key, Overflow}
      /\ key \in DOMAIN buckets => room.key = key /\ room.kept = buckets
  <2>1. RoomOf(room, key, buckets, keys, burst, refill)
    BY RoomKeeps
  <2> HIDE DEF room
  <2>2. QED
    BY <2>1 DEF RoomOf
<1>2. CASE room.key \notin DOMAIN room.kept
  <2>1. allowed = [buckets |-> room.kept, wait |-> 0]
    BY <1>2 DEF Allowed
  <2>2. key \notin DOMAIN room.kept
    BY <1>1, <1>2
  <2> HIDE DEF allowed, room
  <2>3. /\ Throttle(allowed.buckets, keys, burst, refill)
        /\ \A k \in DOMAIN allowed.buckets :
             /\ k \in DOMAIN buckets
             /\ allowed.buckets[k] \in {buckets[k], Refilled(buckets[k], now, burst, refill)}
        /\ allowed.wait \in Nat
        /\ key \notin DOMAIN allowed.buckets
    BY <1>1, <2>1, <2>2
  <2>4. QED
    BY <2>3 DEF allowed, AllowedOf
<1>3. CASE room.key \in DOMAIN room.kept
  <2>1. allowed = [buckets |-> [room.kept EXCEPT ![room.key] = bucket],
                   wait |-> IF bucket.tokens >= refill THEN 0 ELSE refill - bucket.tokens]
    BY <1>3 DEF Allowed
  <2>2. room.kept[room.key] \in Bucket(burst, refill)
    BY <1>1, <1>3 DEF Throttle
  <2>3. bucket \in Bucket(burst, refill)
    BY <2>2, RefilledIs
  <2>4. bucket.tokens \in Nat
    BY <2>3, Product DEF Bucket
  <2>5. /\ room.kept \in [DOMAIN room.kept -> Bucket(burst, refill)]
        /\ DOMAIN room.kept \subseteq keys /\ IsFiniteSet(DOMAIN room.kept)
        /\ Cardinality(DOMAIN room.kept \ {Overflow}) <= MaxThrottled
    BY <1>1 DEF Throttle
  <2>6. key \in DOMAIN room.kept => room.key = key
    BY <1>1
  <2>7. bucket = Refilled(buckets[room.key], now, burst, refill)
    BY <1>1, <1>3
  <2> HIDE DEF allowed, room, bucket
  <2>8. /\ DOMAIN allowed.buckets = DOMAIN room.kept
        /\ allowed.buckets \in [DOMAIN room.kept -> Bucket(burst, refill)]
        /\ \A k \in DOMAIN room.kept :
              allowed.buckets[k] = IF k = room.key THEN bucket ELSE room.kept[k]
    BY <2>1, <2>3, <2>5
  <2>9. Throttle(allowed.buckets, keys, burst, refill)
    BY <2>5, <2>8 DEF Throttle
  <2>10. \A k \in DOMAIN allowed.buckets :
              /\ k \in DOMAIN buckets
              /\ allowed.buckets[k] \in {buckets[k], Refilled(buckets[k], now, burst, refill)}
    BY <1>1, <2>7, <2>8
  <2>11. allowed.wait \in Nat
    BY <2>1, <2>4
  <2>12. key \in DOMAIN allowed.buckets =>
              allowed.wait = IF allowed.buckets[key].tokens >= refill THEN 0
                             ELSE refill - allowed.buckets[key].tokens
    BY <1>3, <2>1, <2>6, <2>8
  <2>13. QED
    BY <2>9, <2>10, <2>11, <2>12 DEF allowed, AllowedOf
<1>4. QED
  BY <1>2, <1>3

\* What fail does: only the bucket of the key it charges is another one, and
\* that is the client's own whenever there is one.
ChargeOf(charge, key, now, buckets, keys, burst, refill) ==
  /\ Throttle(charge.buckets, keys, burst, refill)
  /\ charge.key \in {key, Overflow}
  /\ \A k \in DOMAIN charge.buckets \ {charge.key} :
       k \in DOMAIN buckets /\ charge.buckets[k] = buckets[k]
  /\ charge.key \in DOMAIN charge.buckets
  /\ \/ charge.buckets[charge.key] = Drained(Fresh(now, burst, refill), refill)
     \/ /\ charge.key \in DOMAIN buckets
        /\ charge.buckets[charge.key]
             = Drained(Refilled(buckets[charge.key], now, burst, refill), refill)

LEMMA FailedKeeps ==
  ASSUME NEW burst \in Nat \ {0}, NEW refill \in Nat \ {0}, NEW keys, Overflow \in keys,
         NEW buckets, Throttle(buckets, keys, burst, refill),
         NEW key \in keys, NEW now \in Nat
  PROVE  ChargeOf(Failed(buckets, key, now, burst, refill), key, now, buckets,
                  keys, burst, refill)
<1> DEFINE charge == Failed(buckets, key, now, burst, refill)
           room == Room(buckets, key, now, burst, refill)
           old == IF room.key \in DOMAIN room.kept THEN room.kept[room.key]
                  ELSE Fresh(now, burst, refill)
           bucket == Drained(Refilled(old, now, burst, refill), refill)
           D == DOMAIN room.kept \cup {room.key}
<1>1. /\ Throttle(room.kept, keys, burst, refill)
      /\ DOMAIN room.kept \subseteq DOMAIN buckets
      /\ \A k \in DOMAIN room.kept : room.kept[k] = buckets[k]
      /\ room.key \in {key, Overflow}
      /\ IsFiniteSet(D)
      /\ Cardinality(D \ {Overflow}) <= MaxThrottled
  <2>1. RoomOf(room, key, buckets, keys, burst, refill)
    BY RoomKeeps
  <2> HIDE DEF room
  <2>2. QED
    BY <2>1 DEF RoomOf
<1>2. charge = [buckets |-> [k \in D |->
                   IF k # room.key THEN room.kept[k]
                   ELSE Drained(Refilled(IF k \in DOMAIN room.kept THEN room.kept[k]
                                         ELSE Fresh(now, burst, refill),
                                         now, burst, refill), refill)],
                key |-> room.key]
  BY DEF Failed
<1>3. /\ charge.key = room.key
      /\ DOMAIN charge.buckets = D
      /\ charge.buckets[room.key] = bucket
      /\ \A k \in D \ {room.key} : charge.buckets[k] = room.kept[k]
      /\ charge.buckets = [k \in D |-> charge.buckets[k]]
  <2> HIDE DEF charge, room
  <2> QED BY <1>2
<1>4. old \in Bucket(burst, refill)
  BY <1>1, FreshIs DEF Throttle
<1>5. bucket \in Bucket(burst, refill)
  <2> HIDE DEF old
  <2> QED BY <1>4, RefilledIs, DrainedIs
<1>6. \/ bucket = Drained(Fresh(now, burst, refill), refill)
      \/ /\ room.key \in DOMAIN buckets
         /\ bucket = Drained(Refilled(buckets[room.key], now, burst, refill), refill)
  BY <1>1, FreshIs
<1>7. \A k \in D \ {room.key} : room.kept[k] \in Bucket(burst, refill)
  BY <1>1 DEF Throttle
<1> HIDE DEF bucket, charge, room
<1>8. charge.buckets \in [D -> Bucket(burst, refill)]
  BY <1>3, <1>5, <1>7
<1>9. D \subseteq keys
  BY <1>1 DEF Throttle
<1>10. Throttle(charge.buckets, keys, burst, refill)
  BY <1>1, <1>3, <1>8, <1>9 DEF Throttle
<1>11. \A k \in DOMAIN charge.buckets \ {charge.key} :
         k \in DOMAIN buckets /\ charge.buckets[k] = buckets[k]
  BY <1>1, <1>3
<1>12. QED
  BY <1>1, <1>3, <1>6, <1>10, <1>11 DEF charge, ChargeOf

-----------------------------------------------------------------------------
(* One throttle at a time: load[k] is the number of requests that the      *)
(* bucket of k has let in and that have not been answered.                 *)

Side(buckets, keys, burst, refill, load, time) ==
  /\ Throttle(buckets, keys, burst, refill)
  /\ \A k \in DOMAIN buckets : buckets[k].updated <= time /\ Earned(buckets[k], burst, refill)
  /\ \A k \in DOMAIN buckets \ {Overflow} : WithinBudget(buckets[k], load[k], burst, refill)

LEMMA SideLater ==
  ASSUME NEW burst \in Nat \ {0}, NEW refill \in Nat \ {0}, NEW keys, NEW buckets,
         NEW n \in [keys -> 0 .. Together], NEW m \in [keys -> 0 .. Together],
         \A k \in keys : m[k] <= n[k],
         NEW time \in Nat, NEW later \in Nat, time <= later,
         Side(buckets, keys, burst, refill, n, time)
  PROVE  Side(buckets, keys, burst, refill, m, later)
<1>1. \A k \in DOMAIN buckets : buckets[k] \in Bucket(burst, refill) /\ k \in keys
  BY DEF Side, Throttle
<1>2. ASSUME NEW k \in DOMAIN buckets
      PROVE  buckets[k].updated <= later
  <2>1. buckets[k].updated \in Nat /\ buckets[k].updated <= time
    BY <1>1 DEF Side, Bucket
  <2>2. QED
    BY <2>1
<1>3. ASSUME NEW k \in DOMAIN buckets \ {Overflow}
      PROVE  WithinBudget(buckets[k], m[k], burst, refill)
  <2>1. /\ n[k] \in Nat /\ m[k] \in Nat /\ m[k] <= n[k]
        /\ buckets[k] \in Bucket(burst, refill)
    BY <1>1, TogetherType
  <2>2. WithinBudget(buckets[k], n[k], burst, refill)
    BY DEF Side
  <2>3. QED
    BY <2>1, <2>2, FewerUnderWay
<1>4. QED
  BY <1>2, <1>3 DEF Side

\* A request is let in or refused.
LEMMA SideAllowed ==
  ASSUME NEW burst \in Nat \ {0}, NEW refill \in Nat \ {0}, NEW keys, Overflow \in keys,
         NEW buckets, NEW n \in [keys -> 0 .. Together], NEW m \in [keys -> 0 .. Together],
         NEW time \in Nat, Side(buckets, keys, burst, refill, n, time),
         NEW key \in keys \ {Overflow}, NEW now \in Nat, now <= time,
         NEW allowed, AllowedOf(allowed, key, now, buckets, keys, burst, refill),
         \A k \in keys \ {key} : m[k] <= n[k],
         allowed.wait # 0 => m[key] <= n[key]
  PROVE  Side(allowed.buckets, keys, burst, refill, m, time)
<1>1. \A k \in DOMAIN buckets : buckets[k] \in Bucket(burst, refill) /\ k \in keys
  BY DEF Side, Throttle
<1>2. \A k \in DOMAIN allowed.buckets :
        k \in DOMAIN buckets /\ allowed.buckets[k] \in Bucket(burst, refill)
  BY DEF AllowedOf, Throttle
<1>3. \A k \in DOMAIN allowed.buckets :
        allowed.buckets[k] \in {buckets[k], Refilled(buckets[k], now, burst, refill)}
  BY DEF AllowedOf
<1>4. ASSUME NEW k \in DOMAIN allowed.buckets
      PROVE  allowed.buckets[k].updated <= time /\ Earned(allowed.buckets[k], burst, refill)
  <2>1. /\ buckets[k] \in Bucket(burst, refill) /\ buckets[k].updated <= time
        /\ buckets[k].updated \in Nat /\ Earned(buckets[k], burst, refill)
    BY <1>1, <1>2 DEF Side, Bucket
  <2>2. CASE allowed.buckets[k] = buckets[k]
    BY <2>1, <2>2
  <2>3. CASE allowed.buckets[k] = Refilled(buckets[k], now, burst, refill)
    <3>1. Refilled(buckets[k], now, burst, refill).updated <= time
      <4>1. CASE now <= buckets[k].updated
        BY <2>1, <4>1, RefilledIs
      <4>2. CASE now > buckets[k].updated
        <5>1. Refilled(buckets[k], now, burst, refill).updated = now
          BY <2>1, <4>2, RefilledIs
        <5>2. QED
          BY <5>1
      <4>3. QED
        BY <2>1, <4>1, <4>2
    <3>2. Earned(Refilled(buckets[k], now, burst, refill), burst, refill)
      BY <2>1, RefillEarned
    <3>3. QED
      BY <2>3, <3>1, <3>2
  <2>4. QED
    BY <1>3, <2>2, <2>3
<1>5. ASSUME NEW k \in DOMAIN allowed.buckets \ {Overflow}
      PROVE  WithinBudget(allowed.buckets[k], m[k], burst, refill)
  <2>1. /\ buckets[k] \in Bucket(burst, refill) /\ k \in keys
        /\ WithinBudget(buckets[k], n[k], burst, refill)
        /\ n[k] \in 0 .. Together /\ m[k] \in 0 .. Together
        /\ n[k] \in Nat /\ m[k] \in Nat
    BY <1>1, <1>2, TogetherType DEF Side
  <2>2. WithinBudget(allowed.buckets[k], n[k], burst, refill)
    BY <1>3, <2>1, RefillWithinBudget
  <2>3. CASE m[k] <= n[k]
    BY <1>2, <2>1, <2>2, <2>3, FewerUnderWay
  <2>4. CASE k = key /\ allowed.wait = 0
    <3>1. allowed.buckets[k].tokens \in Nat
      BY <1>2, Product DEF Bucket
    <3>2. allowed.buckets[k].tokens >= refill
      BY <2>4, <3>1 DEF AllowedOf
    <3>3. QED
      BY <1>2, <2>1, <2>2, <3>2, AdmitWithinBudget
  <2>5. QED
    BY <2>1, <2>3, <2>4
<1>6. QED
  BY <1>4, <1>5 DEF Side, AllowedOf

\* A request that was let in fails.
LEMMA SideFailed ==
  ASSUME NEW burst \in Nat \ {0}, NEW refill \in Nat \ {0}, NEW keys, Overflow \in keys,
         NEW buckets, NEW n \in [keys -> 0 .. Together], NEW m \in [keys -> 0 .. Together],
         NEW time \in Nat, Side(buckets, keys, burst, refill, n, time),
         NEW key \in keys \ {Overflow}, NEW now \in Nat, now <= time,
         NEW charge, ChargeOf(charge, key, now, buckets, keys, burst, refill),
         \A k \in keys : m[k] <= n[k],
         m[key] < n[key]
  PROVE  Side(charge.buckets, keys, burst, refill, m, time)
<1>1. \A k \in DOMAIN buckets : buckets[k] \in Bucket(burst, refill) /\ k \in keys
  BY DEF Side, Throttle
<1>2. /\ charge.key \in {key, Overflow} /\ charge.key \in DOMAIN charge.buckets
      /\ \A k \in DOMAIN charge.buckets \ {charge.key} :
           k \in DOMAIN buckets /\ charge.buckets[k] = buckets[k]
  BY DEF ChargeOf
<1> DEFINE fresh == Fresh(now, burst, refill)
           old == buckets[charge.key]
           refilled == Refilled(old, now, burst, refill)
<1>3. \/ charge.buckets[charge.key] = Drained(fresh, refill)
      \/ charge.key \in DOMAIN buckets /\ charge.buckets[charge.key] = Drained(refilled, refill)
  BY DEF ChargeOf
<1>4. fresh \in Bucket(burst, refill) /\ fresh.updated = now /\ Earned(fresh, burst, refill)
  <2>1. fresh.updated = now
    BY DEF Fresh
  <2>2. QED
    BY <2>1, FreshIs, FreshEarned
<1>5. ASSUME charge.key \in DOMAIN buckets
      PROVE  /\ old \in Bucket(burst, refill) /\ refilled \in Bucket(burst, refill)
             /\ refilled.updated <= time /\ Earned(refilled, burst, refill)
  <2>1. /\ old \in Bucket(burst, refill) /\ old.updated <= time /\ old.updated \in Nat
        /\ Earned(old, burst, refill)
    BY <1>1, <1>5 DEF Side, Bucket
  <2>2. refilled \in Bucket(burst, refill) /\ Earned(refilled, burst, refill)
    BY <2>1, RefilledIs, RefillEarned
  <2>3. refilled.updated <= time
    <3>1. CASE now <= old.updated
      BY <2>1, <3>1, RefilledIs
    <3>2. CASE now > old.updated
      <4>1. refilled.updated = now
        BY <2>1, <3>2, RefilledIs
      <4>2. QED
        BY <4>1
    <3>3. QED
      BY <2>1, <3>1, <3>2
  <2>4. QED
    BY <2>1, <2>2, <2>3
<1> HIDE DEF fresh, refilled
<1>6. ASSUME NEW k \in DOMAIN charge.buckets
      PROVE  charge.buckets[k].updated <= time /\ Earned(charge.buckets[k], burst, refill)
  <2>1. CASE k # charge.key
    BY <1>2, <2>1 DEF Side
  <2>2. CASE k = charge.key
    <3>1. CASE charge.buckets[k] = Drained(fresh, refill)
      BY <1>4, <3>1, DrainedIs, DrainEarned
    <3>2. CASE charge.key \in DOMAIN buckets /\ charge.buckets[k] = Drained(refilled, refill)
      BY <1>5, <3>2, DrainedIs, DrainEarned
    <3>3. QED
      BY <1>3, <2>2, <3>1, <3>2
  <2>3. QED
    BY <2>1, <2>2
<1>7. ASSUME NEW k \in DOMAIN charge.buckets \ {Overflow}
      PROVE  WithinBudget(charge.buckets[k], m[k], burst, refill)
  <2>1. CASE k # charge.key
    <3>1. /\ k \in DOMAIN buckets /\ charge.buckets[k] = buckets[k]
      BY <1>2, <2>1
    <3>2. /\ buckets[k] \in Bucket(burst, refill) /\ n[k] \in Nat /\ m[k] \in Nat
          /\ m[k] <= n[k] /\ WithinBudget(buckets[k], n[k], burst, refill)
      BY <1>1, <3>1, TogetherType DEF Side
    <3>3. QED
      BY <3>1, <3>2, FewerUnderWay
  <2>2. CASE k = charge.key
    <3>1. /\ k = key /\ n[k] \in 1 .. Together /\ n[k] - 1 \in Nat
          /\ m[k] \in Nat /\ m[k] <= n[k] - 1 /\ m[k] < Together
      <4>1. k = key
        BY <1>2, <2>2
      <4>2. n[key] \in 0 .. Together /\ m[key] \in 0 .. Together
        OBVIOUS
      <4>3. QED
        BY <4>1, <4>2, TogetherType
    <3>2. CASE charge.buckets[k] = Drained(fresh, refill)
      BY <3>1, <3>2, FirstWithinBudget DEF fresh
    <3>3. CASE charge.key \in DOMAIN buckets /\ charge.buckets[k] = Drained(refilled, refill)
      <4>1. WithinBudget(old, n[k], burst, refill)
        BY <2>2, <3>3 DEF Side
      <4>2. n[k] \in 0 .. Together
        BY <3>1, TogetherType
      <4>3. WithinBudget(refilled, n[k], burst, refill)
        BY <1>5, <3>3, <4>1, <4>2, RefillWithinBudget DEF refilled
      <4>4. WithinBudget(Drained(refilled, refill), n[k] - 1, burst, refill)
        BY <1>5, <3>1, <3>3, <4>3, FailureWithinBudget
      <4>5. Drained(refilled, refill) \in Bucket(burst, refill)
        BY <1>5, <3>3, DrainedIs
      <4>6. QED
        BY <3>1, <3>3, <4>4, <4>5, FewerUnderWay
    <3>4. QED
      BY <1>3, <2>2, <3>2, <3>3
  <2>3. QED
    BY <2>1, <2>2
<1>8. QED
  BY <1>6, <1>7 DEF Side, ChargeOf

-----------------------------------------------------------------------------
(* What OnlyFailuresCharge rests on: pruning and refilling at an earlier   *)
(* time leave what every bucket amounts to now as it was.                  *)

\* The tokens of a bucket at time t, and of a key that may have no bucket.
Level(b, t, burst, refill) ==
  IF burst * refill <= b.tokens + (t - b.updated) THEN burst * refill
  ELSE b.tokens + (t - b.updated)

Holding(buckets, k, t, burst, refill) ==
  IF k \in DOMAIN buckets THEN Level(buckets[k], t, burst, refill) ELSE burst * refill

\* The keys that prune would keep at time t.
Owing(buckets, t, burst, refill) ==
  {k \in DOMAIN buckets : ~Full(buckets[k], t, burst, refill)}

Past(buckets, t) == \A k \in DOMAIN buckets : buckets[k].updated <= t

\* Refilling at time now does not change what there is at time t.
LEMMA LevelKept ==
  ASSUME NEW burst \in Nat \ {0}, NEW refill \in Nat \ {0}, NEW b \in Bucket(burst, refill),
         NEW t \in Nat, NEW now \in Nat, now <= t, b.updated <= t
  PROVE  /\ Level(b, t, burst, refill) \in 0 .. burst * refill
         /\ Full(b, t, burst, refill) <=> Level(b, t, burst, refill) = burst * refill
         /\ Full(b, now, burst, refill) => Full(b, t, burst, refill)
         /\ Refilled(b, t, burst, refill).tokens = Level(b, t, burst, refill)
         /\ Level(Refilled(b, now, burst, refill), t, burst, refill) = Level(b, t, burst, refill)
         /\ Refilled(b, now, burst, refill).updated <= t
<1>1. burst * refill \in Nat
  BY Product
<1>2. b.tokens \in Nat /\ b.updated \in Nat /\ b.tokens <= burst * refill
  BY <1>1 DEF Bucket
<1> DEFINE c == Refilled(b, now, burst, refill)
           d == Refilled(b, t, burst, refill)
           br == burst * refill
<1>3. /\ now <= b.updated => c = b
      /\ now > b.updated => c.updated = now /\ c.tokens = IF br <= b.tokens + (now - b.updated)
                                                         THEN br ELSE b.tokens + (now - b.updated)
      /\ t <= b.updated => d = b
      /\ t > b.updated => d.tokens = IF br <= b.tokens + (t - b.updated)
                                     THEN br ELSE b.tokens + (t - b.updated)
  BY RefilledIs
<1> HIDE DEF c, d, br
<1>4. Level(b, t, burst, refill) = IF br <= b.tokens + (t - b.updated) THEN br
                                   ELSE b.tokens + (t - b.updated)
  BY DEF Level, br
<1>5. Level(c, t, burst, refill) = IF br <= c.tokens + (t - c.updated) THEN br
                                   ELSE c.tokens + (t - c.updated)
  BY DEF Level, br
<1>6. /\ Full(b, t, burst, refill) <=> b.tokens + (t - b.updated) >= br
      /\ Full(b, now, burst, refill) <=> b.tokens + (now - b.updated) >= br
  BY DEF Full, br
<1>7. br \in Nat /\ b.tokens <= br
  BY <1>1, <1>2 DEF br
<1>8. /\ Level(b, t, burst, refill) \in 0 .. br
      /\ Full(b, t, burst, refill) <=> Level(b, t, burst, refill) = br
      /\ Full(b, now, burst, refill) => Full(b, t, burst, refill)
      /\ d.tokens = Level(b, t, burst, refill)
  BY <1>2, <1>3, <1>4, <1>6, <1>7
<1>9. CASE now <= b.updated
  BY <1>3, <1>8, <1>9 DEF c, d, br
<1>10. CASE now > b.updated
  <2>1. Level(c, t, burst, refill) = Level(b, t, burst, refill) /\ c.updated <= t
    BY <1>2, <1>3, <1>4, <1>5, <1>7, <1>10
  <2>2. QED
    BY <2>1, <1>8 DEF c, d, br
<1>11. QED
  BY <1>2, <1>9, <1>10

\* A failure only lowers it.
LEMMA LevelDrained ==
  ASSUME NEW burst \in Nat \ {0}, NEW refill \in Nat \ {0}, NEW b \in Bucket(burst, refill),
         NEW t \in Nat, b.updated <= t
  PROVE  /\ Level(Drained(b, refill), t, burst, refill) \in 0 .. burst * refill
         /\ Level(Drained(b, refill), t, burst, refill) <= Level(b, t, burst, refill)
<1>1. burst * refill \in Nat
  BY Product
<1>2. b.tokens \in Nat /\ b.updated \in Nat /\ b.tokens <= burst * refill
  BY <1>1 DEF Bucket
<1> DEFINE c == Drained(b, refill)
           br == burst * refill
<1>3. c.updated = b.updated /\ c.tokens = IF b.tokens >= refill THEN b.tokens - refill ELSE 0
  BY DrainedIs
<1> HIDE DEF c, br
<1>4. /\ Level(b, t, burst, refill) = IF br <= b.tokens + (t - b.updated) THEN br
                                      ELSE b.tokens + (t - b.updated)
      /\ Level(c, t, burst, refill) = IF br <= c.tokens + (t - c.updated) THEN br
                                      ELSE c.tokens + (t - c.updated)
  BY DEF Level, br
<1>5. br \in Nat
  BY <1>1 DEF br
<1>6. Level(c, t, burst, refill) \in 0 .. br /\ Level(c, t, burst, refill) <= Level(b, t, burst, refill)
  BY <1>2, <1>3, <1>4, <1>5
<1>7. QED
  BY <1>6 DEF c, br

\* The balance is what the key holds, or the shared bucket when key shares it;
\* it does when it has no bucket and those that are not full fill the table.
LEMMA BalanceIs ==
  ASSUME NEW burst \in Nat \ {0}, NEW refill \in Nat \ {0}, NEW keys, NEW buckets,
         Throttle(buckets, keys, burst, refill),
         NEW key \in keys \ {Overflow}, NEW t \in Nat, Past(buckets, t)
  PROVE  /\ Shares(buckets, key, t, burst, refill)
              => Balance(buckets, key, t, burst, refill) = Holding(buckets, Overflow, t, burst, refill)
         /\ ~Shares(buckets, key, t, burst, refill)
              => Balance(buckets, key, t, burst, refill) = Holding(buckets, key, t, burst, refill)
         /\ Shares(buckets, key, t, burst, refill)
              <=> /\ key \notin DOMAIN buckets
                  /\ ~(Cardinality(DOMAIN buckets) < MaxThrottled)
                  /\ ~(Cardinality(Owing(buckets, t, burst, refill)) < MaxThrottled)
<1> DEFINE room == Room(buckets, key, t, burst, refill)
           pruned == Prune(buckets, t, burst, refill)
           owing == Owing(buckets, t, burst, refill)
           hold(k) == Holding(buckets, k, t, burst, refill)
<1>1. /\ DOMAIN pruned = owing
      /\ \A k \in owing : pruned[k] = buckets[k]
  BY DEF Prune, Restrict, Owing
<1>2. room = IF key \in DOMAIN buckets \/ Cardinality(DOMAIN buckets) < MaxThrottled
             THEN [kept |-> buckets, key |-> key]
             ELSE [kept |-> pruned,
                   key |-> IF Cardinality(DOMAIN pruned) < MaxThrottled THEN key ELSE Overflow]
  BY DEF Room
<1>3. ASSUME NEW k \in DOMAIN buckets
      PROVE  /\ Refilled(buckets[k], t, burst, refill).tokens = hold(k)
             /\ k \notin owing => hold(k) = burst * refill
  <2>1. buckets[k] \in Bucket(burst, refill) /\ buckets[k].updated <= t /\ t <= t
    BY DEF Throttle, Past
  <2>2. /\ Refilled(buckets[k], t, burst, refill).tokens = Level(buckets[k], t, burst, refill)
        /\ Full(buckets[k], t, burst, refill)
             => Level(buckets[k], t, burst, refill) = burst * refill
    BY <2>1, LevelKept
  <2>3. QED
    BY <2>2 DEF Holding, Owing
<1>4. \A k : k \notin DOMAIN buckets => hold(k) = burst * refill
  BY DEF Holding
<1>5. owing \subseteq DOMAIN buckets
  BY DEF Owing
<1>6. Balance(buckets, key, t, burst, refill)
        = IF room.key \in DOMAIN room.kept
          THEN Refilled(room.kept[room.key], t, burst, refill).tokens ELSE burst * refill
  BY DEF Balance
<1>7. Shares(buckets, key, t, burst, refill) <=> room.key = Overflow
  BY DEF Shares
<1> HIDE DEF room, pruned, owing, hold
<1>8. CASE key \in DOMAIN buckets \/ Cardinality(DOMAIN buckets) < MaxThrottled
  <2>1. room.key = key /\ room.kept = buckets
    BY <1>2, <1>8
  <2>2. Balance(buckets, key, t, burst, refill) = hold(key)
    BY <2>1, <1>3, <1>4, <1>6
  <2>3. QED
    BY <2>1, <2>2, <1>7, <1>8 DEF hold
<1>9. CASE ~(key \in DOMAIN buckets \/ Cardinality(DOMAIN buckets) < MaxThrottled)
  <2>1. room.kept = pruned /\ room.key = IF Cardinality(owing) < MaxThrottled THEN key ELSE Overflow
    BY <1>1, <1>2, <1>9
  <2>2. Balance(buckets, key, t, burst, refill) = hold(room.key)
    <3>1. CASE room.key \in owing
      BY <3>1, <2>1, <1>1, <1>3, <1>5, <1>6
    <3>2. CASE room.key \notin owing
      BY <3>2, <2>1, <1>1, <1>3, <1>4, <1>6
    <3>3. QED
      BY <3>1, <3>2
  <2>3. QED
    BY <2>1, <2>2, <1>7, <1>9 DEF hold, owing
<1>10. QED
  BY <1>8, <1>9

\* A step that leaves alone what all keys but one hold, takes buckets only from
\* keys that hold a whole burst and makes one only when there is room.
OnlyLowers(old, new, key, keys, t, burst, refill) ==
  /\ \A k \in keys \ {key} : Holding(new, k, t, burst, refill) = Holding(old, k, t, burst, refill)
  /\ Holding(new, key, t, burst, refill) <= Holding(old, key, t, burst, refill)
  /\ DOMAIN new \subseteq DOMAIN old \cup {key}
  /\ key # Overflow => key \in DOMAIN new
  /\ key \in DOMAIN old \cup {Overflow} \/ Cardinality(DOMAIN old) < MaxThrottled
       \/ Cardinality(Owing(old, t, burst, refill)) < MaxThrottled

LEMMA OwingIs ==
  ASSUME NEW burst \in Nat \ {0}, NEW refill \in Nat \ {0}, NEW keys, NEW buckets,
         Throttle(buckets, keys, burst, refill), NEW t \in Nat, Past(buckets, t), NEW k
  PROVE  /\ Holding(buckets, k, t, burst, refill) \in 0 .. burst * refill
         /\ k \in Owing(buckets, t, burst, refill)
              <=> Holding(buckets, k, t, burst, refill) < burst * refill
<1>1. burst * refill \in Nat
  BY Product
<1>2. CASE k \in DOMAIN buckets
  <2>1. buckets[k] \in Bucket(burst, refill) /\ buckets[k].updated <= t /\ t <= t
    BY <1>2 DEF Throttle, Past
  <2>2. /\ Level(buckets[k], t, burst, refill) \in 0 .. burst * refill
        /\ Full(buckets[k], t, burst, refill)
             <=> Level(buckets[k], t, burst, refill) = burst * refill
    BY <2>1, LevelKept
  <2>3. QED
    BY <1>1, <1>2, <2>2 DEF Holding, Owing
<1>3. CASE k \notin DOMAIN buckets
  BY <1>1, <1>3 DEF Holding, Owing
<1>4. QED
  BY <1>2, <1>3

LEMMA BalanceLowered ==
  ASSUME NEW burst \in Nat \ {0}, NEW refill \in Nat \ {0}, NEW keys, Overflow \in keys,
         NEW old, Throttle(old, keys, burst, refill),
         NEW new, Throttle(new, keys, burst, refill),
         NEW t \in Nat, Past(old, t), Past(new, t), NEW charged \in keys,
         OnlyLowers(old, new, charged, keys, t, burst, refill), NEW key \in keys \ {Overflow}
  PROVE  \/ Balance(new, key, t, burst, refill) = Balance(old, key, t, burst, refill)
         \/ /\ Balance(new, key, t, burst, refill) < Balance(old, key, t, burst, refill)
            /\ key = charged \/ Shares(new, key, t, burst, refill)
<1> DEFINE br == burst * refill
           before(k) == Holding(old, k, t, burst, refill)
           after(k) == Holding(new, k, t, burst, refill)
           was == Owing(old, t, burst, refill)
           is == Owing(new, t, burst, refill)
           x == Balance(old, key, t, burst, refill)
           y == Balance(new, key, t, burst, refill)
<1>1. MaxThrottled \in Nat /\ br \in Nat
  BY BudgetAssumption, Product
<1>2. \A k : /\ before(k) \in 0 .. br /\ after(k) \in 0 .. br
             /\ k \in was <=> before(k) < br
             /\ k \in is <=> after(k) < br
  BY OwingIs
<1>3. /\ \A k \in keys \ {charged} : after(k) = before(k)
      /\ after(charged) <= before(charged)
      /\ DOMAIN new \subseteq DOMAIN old \cup {charged}
      /\ charged # Overflow => charged \in DOMAIN new
      /\ \/ charged \in DOMAIN old \cup {Overflow}
         \/ Cardinality(DOMAIN old) < MaxThrottled
         \/ Cardinality(was) < MaxThrottled
  BY DEF OnlyLowers
<1>4. /\ was \subseteq DOMAIN old /\ is \subseteq DOMAIN new
      /\ DOMAIN old \subseteq keys /\ DOMAIN new \subseteq keys
      /\ IsFiniteSet(DOMAIN old) /\ IsFiniteSet(DOMAIN new)
      /\ \A k : k \notin DOMAIN new => after(k) = br
  BY DEF Owing, Throttle, Holding
<1>5. /\ Shares(old, key, t, burst, refill) => x = before(Overflow)
      /\ ~Shares(old, key, t, burst, refill) => x = before(key)
      /\ Shares(old, key, t, burst, refill)
           <=> key \notin DOMAIN old /\ ~(Cardinality(DOMAIN old) < MaxThrottled)
                 /\ ~(Cardinality(was) < MaxThrottled)
  BY BalanceIs
<1>6. /\ Shares(new, key, t, burst, refill) => y = after(Overflow)
      /\ ~Shares(new, key, t, burst, refill) => y = after(key)
      /\ Shares(new, key, t, burst, refill)
           <=> key \notin DOMAIN new /\ ~(Cardinality(DOMAIN new) < MaxThrottled)
                 /\ ~(Cardinality(is) < MaxThrottled)
  BY BalanceIs
<1> HIDE DEF br, before, after, was, is, x, y
<1>7. was \subseteq is
  <2> SUFFICES ASSUME NEW k \in was PROVE k \in is
    OBVIOUS
  <2>1. k \in keys /\ before(k) < br
    BY <1>2, <1>4
  <2>2. after(k) <= before(k)
    BY <2>1, <1>2, <1>3
  <2>3. after(k) < br
    BY <2>1, <2>2, <1>1, <1>2
  <2>4. QED
    BY <2>3, <1>2
<1>8. IsFiniteSet(was) /\ IsFiniteSet(is)
  BY <1>4, FS_Subset
<1>9. /\ Cardinality(was) \in Nat /\ Cardinality(is) \in Nat /\ Cardinality(DOMAIN new) \in Nat
      /\ Cardinality(was) <= Cardinality(is) /\ Cardinality(is) <= Cardinality(DOMAIN new)
  BY <1>4, <1>7, <1>8, FS_Subset, FS_CardinalityType
<1>10. CASE Shares(old, key, t, burst, refill)
  <2>1. Shares(new, key, t, burst, refill)
    <3>1. charged # key
      BY <1>3, <1>5, <1>10
    <3>2. key \notin DOMAIN new
      BY <3>1, <1>3, <1>5, <1>10
    <3>3. ~(Cardinality(is) < MaxThrottled) /\ ~(Cardinality(DOMAIN new) < MaxThrottled)
      BY <1>1, <1>5, <1>9, <1>10
    <3>4. QED
      BY <3>2, <3>3, <1>6
  <2>2. x = before(Overflow) /\ y = after(Overflow)
    BY <2>1, <1>5, <1>6, <1>10
  <2>3. after(Overflow) <= before(Overflow)
    BY <1>2, <1>3
  <2>4. y = x \/ y < x
    BY <2>2, <2>3, <1>2, <1>1
  <2>5. QED
    BY <2>1, <2>4 DEF x, y
<1>11. CASE ~Shares(old, key, t, burst, refill) /\ Shares(new, key, t, burst, refill)
  <2>1. key \notin DOMAIN new /\ y = after(Overflow)
    BY <1>6, <1>11
  <2>2. key # charged /\ after(key) = br
    BY <2>1, <1>3, <1>4
  <2>3. x = br
    BY <2>2, <1>3, <1>5, <1>11
  <2>4. y = x \/ y < x
    BY <2>1, <2>3, <1>1, <1>2
  <2>5. QED
    BY <2>4, <1>11 DEF x, y
<1>12. CASE ~Shares(old, key, t, burst, refill) /\ ~Shares(new, key, t, burst, refill)
  <2>1. x = before(key) /\ y = after(key)
    BY <1>5, <1>6, <1>12
  <2>2. CASE key = charged
    <3>1. y = x \/ y < x
      BY <2>1, <2>2, <1>1, <1>2, <1>3
    <3>2. QED
      BY <3>1, <2>2 DEF x, y
  <2>3. CASE key # charged
    BY <2>1, <2>3, <1>3 DEF x, y
  <2>4. QED
    BY <2>2, <2>3
<1>13. QED
  BY <1>10, <1>11, <1>12

\* Room drops only buckets that are full, and finds a key of its own for who has
\* none only when there is room.
LEMMA RoomDrops ==
  ASSUME NEW burst \in Nat \ {0}, NEW refill \in Nat \ {0}, NEW keys, Overflow \in keys,
         NEW buckets, Throttle(buckets, keys, burst, refill), NEW key \in keys,
         NEW t \in Nat, Past(buckets, t), NEW now \in Nat, now <= t
  PROVE  LET room == Room(buckets, key, now, burst, refill) IN
         /\ \A k : Holding(room.kept, k, t, burst, refill) = Holding(buckets, k, t, burst, refill)
         /\ \/ room.key \in DOMAIN buckets \cup {Overflow}
            \/ Cardinality(DOMAIN buckets) < MaxThrottled
            \/ Cardinality(Owing(buckets, t, burst, refill)) < MaxThrottled
<1> DEFINE room == Room(buckets, key, now, burst, refill)
           pruned == Prune(buckets, now, burst, refill)
           kept == Owing(buckets, now, burst, refill)
           owing == Owing(buckets, t, burst, refill)
<1>1. DOMAIN pruned = kept /\ \A k \in kept : pruned[k] = buckets[k]
  BY DEF Prune, Restrict, Owing
<1>2. room = IF key \in DOMAIN buckets \/ Cardinality(DOMAIN buckets) < MaxThrottled
             THEN [kept |-> buckets, key |-> key]
             ELSE [kept |-> pruned,
                   key |-> IF Cardinality(DOMAIN pruned) < MaxThrottled THEN key ELSE Overflow]
  BY DEF Room
<1>3. ASSUME NEW k \in DOMAIN buckets
      PROVE  /\ k \in owing => k \in kept
             /\ k \notin kept => Holding(buckets, k, t, burst, refill) = burst * refill
  <2>1. buckets[k] \in Bucket(burst, refill) /\ buckets[k].updated <= t
    BY DEF Throttle, Past
  <2>2. /\ Full(buckets[k], now, burst, refill) => Full(buckets[k], t, burst, refill)
        /\ Full(buckets[k], t, burst, refill)
             => Level(buckets[k], t, burst, refill) = burst * refill
    BY <2>1, LevelKept
  <2>3. QED
    BY <2>2 DEF Holding, Owing
<1>4. kept \subseteq DOMAIN buckets /\ owing \subseteq DOMAIN buckets
  BY DEF Owing
<1>5. owing \subseteq kept
  BY <1>3, <1>4
<1>6. \A k : Holding(pruned, k, t, burst, refill) = Holding(buckets, k, t, burst, refill)
  <2> SUFFICES ASSUME NEW k PROVE Holding(pruned, k, t, burst, refill) = Holding(buckets, k, t, burst, refill)
    OBVIOUS
  <2> HIDE DEF pruned, kept, owing
  <2>1. CASE k \in kept
    BY <2>1, <1>1, <1>4 DEF Holding
  <2>2. CASE k \notin kept
    <3>1. Holding(pruned, k, t, burst, refill) = burst * refill
      BY <2>2, <1>1 DEF Holding
    <3>2. Holding(buckets, k, t, burst, refill) = burst * refill
      <4>1. CASE k \in DOMAIN buckets
        BY <4>1, <2>2, <1>3
      <4>2. CASE k \notin DOMAIN buckets
        BY <4>2 DEF Holding
      <4>3. QED
        BY <4>1, <4>2
    <3>3. QED
      BY <3>1, <3>2
  <2>3. QED
    BY <2>1, <2>2
<1>7. Cardinality(kept) < MaxThrottled => Cardinality(owing) < MaxThrottled
  <2> HIDE DEF kept, owing
  <2>1. IsFiniteSet(kept)
    BY <1>4, FS_Subset DEF Throttle
  <2>2. IsFiniteSet(owing) /\ Cardinality(owing) <= Cardinality(kept)
    BY <2>1, <1>5, FS_Subset
  <2>3. Cardinality(kept) \in Nat /\ Cardinality(owing) \in Nat /\ MaxThrottled \in Nat
    BY <2>1, <2>2, FS_CardinalityType, BudgetAssumption
  <2>4. QED
    BY <2>2, <2>3
<1> HIDE DEF room, pruned, kept, owing
<1>8. \A k : Holding(room.kept, k, t, burst, refill) = Holding(buckets, k, t, burst, refill)
  BY <1>2, <1>6
<1>9. \/ room.key \in DOMAIN buckets \cup {Overflow}
      \/ Cardinality(DOMAIN buckets) < MaxThrottled
      \/ Cardinality(owing) < MaxThrottled
  BY <1>1, <1>2, <1>7
<1>10. QED
  BY <1>8, <1>9 DEF room, owing

\* Looking at a bucket lowers nothing.
LEMMA AllowedLowers ==
  ASSUME NEW burst \in Nat \ {0}, NEW refill \in Nat \ {0}, NEW keys, Overflow \in keys,
         NEW buckets, Throttle(buckets, keys, burst, refill), NEW key \in keys,
         NEW t \in Nat, Past(buckets, t), NEW now \in Nat, now <= t
  PROVE  LET after == Allowed(buckets, key, now, burst, refill).buckets IN
         /\ Throttle(after, keys, burst, refill) /\ Past(after, t)
         /\ OnlyLowers(buckets, after, Overflow, keys, t, burst, refill)
<1> DEFINE allowed == Allowed(buckets, key, now, burst, refill)
           after == allowed.buckets
           room == Room(buckets, key, now, burst, refill)
           hold(k) == Holding(buckets, k, t, burst, refill)
<1>1. AllowedOf(allowed, key, now, buckets, keys, burst, refill)
  BY AllowedKeeps
<1>2. /\ Throttle(after, keys, burst, refill)
      /\ \A k \in DOMAIN after :
           k \in DOMAIN buckets /\ after[k] \in {buckets[k], Refilled(buckets[k], now, burst, refill)}
  <2> HIDE DEF allowed
  <2> QED BY <1>1 DEF AllowedOf
<1>3. DOMAIN after = DOMAIN room.kept
  <2>1. allowed = IF room.key \notin DOMAIN room.kept THEN [buckets |-> room.kept, wait |-> 0]
                  ELSE LET bucket == Refilled(room.kept[room.key], now, burst, refill) IN
                       [buckets |-> [room.kept EXCEPT ![room.key] = bucket],
                        wait |-> IF bucket.tokens >= refill THEN 0 ELSE refill - bucket.tokens]
    BY DEF Allowed
  <2>2. CASE room.key \notin DOMAIN room.kept
    <3> HIDE DEF allowed, room
    <3> QED BY <2>1, <2>2
  <2>3. CASE room.key \in DOMAIN room.kept
    <3> DEFINE bucket == Refilled(room.kept[room.key], now, burst, refill)
    <3>1. allowed.buckets = [room.kept EXCEPT ![room.key] = bucket]
      <4>1. allowed = [buckets |-> [room.kept EXCEPT ![room.key] = bucket],
                       wait |-> IF bucket.tokens >= refill THEN 0 ELSE refill - bucket.tokens]
        <5> HIDE DEF allowed, room
        <5> QED BY <2>1, <2>3
      <4> HIDE DEF allowed, room, bucket
      <4>2. QED
        BY <4>1
    <3> HIDE DEF allowed, room, bucket
    <3>2. QED
      BY <3>1
  <2>4. QED
    BY <2>2, <2>3
<1>4. \A k : Holding(room.kept, k, t, burst, refill) = hold(k)
  BY RoomDrops
<1>5. ASSUME NEW k \in DOMAIN after
      PROVE  after[k].updated <= t /\ Level(after[k], t, burst, refill) = Level(buckets[k], t, burst, refill)
  <2>1. buckets[k] \in Bucket(burst, refill) /\ buckets[k].updated <= t
    BY <1>2 DEF Throttle, Past
  <2>2. /\ Refilled(buckets[k], now, burst, refill).updated <= t
        /\ Level(Refilled(buckets[k], now, burst, refill), t, burst, refill)
             = Level(buckets[k], t, burst, refill)
    BY <2>1, LevelKept
  <2> HIDE DEF after
  <2>3. QED
    BY <1>2, <2>1, <2>2
<1> HIDE DEF allowed, room
<1>6. \A k : Holding(after, k, t, burst, refill) = hold(k)
  <2> SUFFICES ASSUME NEW k PROVE Holding(after, k, t, burst, refill) = hold(k)
    OBVIOUS
  <2>1. CASE k \in DOMAIN after
    BY <2>1, <1>2, <1>5 DEF Holding
  <2>2. CASE k \notin DOMAIN after
    <3>1. Holding(after, k, t, burst, refill) = burst * refill
      BY <2>2 DEF Holding
    <3>2. Holding(room.kept, k, t, burst, refill) = burst * refill
      BY <2>2, <1>3 DEF Holding
    <3>3. QED
      BY <3>1, <3>2, <1>4
  <2>3. QED
    BY <2>1, <2>2
<1>7. hold(Overflow) \in Int
  BY OwingIs, Product
<1>8. OnlyLowers(buckets, after, Overflow, keys, t, burst, refill)
  <2> HIDE DEF after
  <2> QED BY <1>2, <1>6, <1>7 DEF OnlyLowers
<1>9. QED
  BY <1>2, <1>5, <1>8 DEF Past, allowed

\* A failure lowers what the key it is charged to holds.
LEMMA FailedLowers ==
  ASSUME NEW burst \in Nat \ {0}, NEW refill \in Nat \ {0}, NEW keys, Overflow \in keys,
         NEW buckets, Throttle(buckets, keys, burst, refill), NEW key \in keys,
         NEW t \in Nat, Past(buckets, t), NEW now \in Nat, now <= t
  PROVE  LET charge == Failed(buckets, key, now, burst, refill) IN
         /\ Throttle(charge.buckets, keys, burst, refill) /\ Past(charge.buckets, t)
         /\ charge.key \in {key, Overflow}
         /\ OnlyLowers(buckets, charge.buckets, charge.key, keys, t, burst, refill)
<1> DEFINE charge == Failed(buckets, key, now, burst, refill)
           room == Room(buckets, key, now, burst, refill)
           after == charge.buckets
           e == charge.key
           hold(k) == Holding(buckets, k, t, burst, refill)
<1>1. ChargeOf(charge, key, now, buckets, keys, burst, refill)
  BY FailedKeeps
<1>2. /\ Throttle(after, keys, burst, refill)
      /\ e \in {key, Overflow}
      /\ \A k \in DOMAIN after \ {e} : k \in DOMAIN buckets /\ after[k] = buckets[k]
      /\ e \in DOMAIN after
      /\ \/ after[e] = Drained(Fresh(now, burst, refill), refill)
         \/ e \in DOMAIN buckets /\ after[e] = Drained(Refilled(buckets[e], now, burst, refill), refill)
  <2> HIDE DEF charge
  <2> QED BY <1>1 DEF ChargeOf
<1>3. e = room.key /\ DOMAIN after = DOMAIN room.kept \cup {room.key}
      /\ (room.key \in DOMAIN room.kept => 
            after[e] = Drained(Refilled(room.kept[room.key], now, burst, refill), refill))
  <2> DEFINE D == DOMAIN room.kept \cup {room.key}
             f == [k \in D |->
                     IF k # room.key THEN room.kept[k]
                     ELSE Drained(Refilled(IF k \in DOMAIN room.kept THEN room.kept[k]
                                           ELSE Fresh(now, burst, refill),
                                           now, burst, refill), refill)]
  <2>1. charge = [buckets |-> f, key |-> room.key]
    BY DEF Failed
  <2>2. charge.buckets = f /\ charge.key = room.key
    <3> HIDE DEF charge, room, f
    <3> QED BY <2>1
  <2> HIDE DEF charge, room
  <2>3. QED
    BY <2>2
<1>4. /\ \A k : Holding(room.kept, k, t, burst, refill) = hold(k)
      /\ \/ room.key \in DOMAIN buckets \cup {Overflow}
         \/ Cardinality(DOMAIN buckets) < MaxThrottled
         \/ Cardinality(Owing(buckets, t, burst, refill)) < MaxThrottled
  BY RoomDrops
<1>5. /\ \A k \in DOMAIN room.kept : k \in DOMAIN buckets /\ room.kept[k] = buckets[k]
      /\ key \in keys
  <2>1. RoomOf(room, key, buckets, keys, burst, refill)
    BY RoomKeeps
  <2> HIDE DEF room
  <2>2. QED
    BY <2>1 DEF RoomOf
<1> HIDE DEF charge, room
<1>6. \A k \in keys \ {e} : Holding(after, k, t, burst, refill) = hold(k)
  <2> SUFFICES ASSUME NEW k \in keys \ {e} PROVE Holding(after, k, t, burst, refill) = hold(k)
    OBVIOUS
  <2>1. CASE k \in DOMAIN after
    BY <2>1, <1>2 DEF Holding
  <2>2. CASE k \notin DOMAIN after
    <3>1. Holding(after, k, t, burst, refill) = burst * refill
      BY <2>2 DEF Holding
    <3>2. Holding(room.kept, k, t, burst, refill) = burst * refill
      BY <2>2, <1>3 DEF Holding
    <3>3. QED
      BY <3>1, <3>2, <1>4
  <2>3. QED
    BY <2>1, <2>2
<1>7. after[e].updated <= t /\ Holding(after, e, t, burst, refill) <= hold(e)
  <2>1. CASE e \in DOMAIN room.kept
    <3> DEFINE b == buckets[e]
               c == Refilled(b, now, burst, refill)
    <3>1. b \in Bucket(burst, refill) /\ b.updated <= t /\ e \in DOMAIN buckets
      BY <2>1, <1>5 DEF Throttle, Past
    <3>2. after[e] = Drained(c, refill)
      BY <2>1, <1>3, <1>5
    <3>3. c.updated <= t /\ Level(c, t, burst, refill) = Level(b, t, burst, refill)
      <4> HIDE DEF b
      <4> QED BY <3>1, LevelKept
    <3>4. c \in Bucket(burst, refill)
      <4> HIDE DEF b
      <4> QED BY <3>1, RefilledIs
    <3> HIDE DEF b, c
    <3>5. /\ Drained(c, refill).updated = c.updated
          /\ Level(Drained(c, refill), t, burst, refill) <= Level(c, t, burst, refill)
      BY <3>3, <3>4, LevelDrained, DrainedIs
    <3>6. QED
      BY <3>1, <3>2, <3>3, <3>5, <1>2 DEF Holding, b
  <2>2. CASE e \notin DOMAIN room.kept
    <3>1. hold(e) = burst * refill
      BY <2>2, <1>4 DEF Holding
    <3>2. CASE after[e] = Drained(Fresh(now, burst, refill), refill)
      <4> DEFINE c == Fresh(now, burst, refill)
      <4>1. c \in Bucket(burst, refill) /\ c.updated <= t
        BY FreshIs DEF Fresh
      <4> HIDE DEF c
      <4>2. /\ Drained(c, refill).updated = c.updated
            /\ Level(Drained(c, refill), t, burst, refill) \in 0 .. burst * refill
        BY <4>1, LevelDrained, DrainedIs
      <4>3. burst * refill \in Nat
        BY Product
      <4>4. QED
        BY <3>1, <3>2, <4>1, <4>2, <4>3, <1>2 DEF Holding, c
    <3>3. CASE e \in DOMAIN buckets /\ after[e] = Drained(Refilled(buckets[e], now, burst, refill), refill)
      <4> DEFINE b == buckets[e]
                 c == Refilled(b, now, burst, refill)
      <4>1. b \in Bucket(burst, refill) /\ b.updated <= t
        BY <3>3 DEF Throttle, Past
      <4>2. c \in Bucket(burst, refill) /\ c.updated <= t
        BY <4>1, LevelKept, RefilledIs
      <4> HIDE DEF b, c
      <4>3. /\ Drained(c, refill).updated = c.updated
            /\ Level(Drained(c, refill), t, burst, refill) \in 0 .. burst * refill
        BY <4>2, LevelDrained, DrainedIs
      <4>4. burst * refill \in Nat
        BY Product
      <4>5. QED
        BY <3>1, <3>3, <4>2, <4>3, <4>4, <1>2 DEF Holding, b, c
    <3>4. QED
      BY <3>2, <3>3, <1>2
  <2>3. QED
    BY <2>1, <2>2
<1>8. DOMAIN after \subseteq DOMAIN buckets \cup {e}
  BY <1>2
<1>9. OnlyLowers(buckets, after, e, keys, t, burst, refill)
  <2> HIDE DEF after, e
  <2> QED BY <1>2, <1>3, <1>4, <1>6, <1>7, <1>8 DEF OnlyLowers
<1>10. Past(after, t)
  <2> SUFFICES ASSUME NEW k \in DOMAIN after PROVE after[k].updated <= t
    BY DEF Past
  <2>1. CASE k = e
    BY <2>1, <1>7
  <2>2. CASE k # e
    BY <2>2, <1>2 DEF Past
  <2>3. QED
    BY <2>1, <2>2
<1>11. QED
  BY <1>2, <1>9, <1>10 DEF charge

-----------------------------------------------------------------------------
(* The inductive invariant.                                                *)

Places == {"idle", "allow client", "allow proxy", "compare", "fail proxy"}

Attempt ==
  [at : Places, client : Clients \cup {None}, proxy : Trusted \cup {None}, now : Nat,
   wait : Nat, void : BOOLEAN]

HasOrigin(att) ==
  /\ att.at # "idle" => att.client \in Clients
  /\ att.at \in {"allow proxy", "fail proxy"} => att.proxy # None

Types ==
  /\ clock \in 0 .. MaxTime
  /\ attempt \in [Attempts -> Attempt]
  /\ \A a \in Attempts : attempt[a].now <= clock /\ HasOrigin(attempt[a])
  /\ retryAt \in [Requests -> Nat \cup {None}]

\* The requests of client k that its throttle has let in, those of proxy k
\* that the throttle of the proxies has.
InFromClient(att, k) ==
  {a \in Attempts : /\ att[a].client = k
                    /\ \/ att[a].at = "compare"
                       \/ att[a].at = "allow proxy" /\ att[a].wait = 0}

InFromProxy(att, k) ==
  {a \in Attempts : att[a].proxy = k /\ att[a].at \in {"compare", "fail proxy"}}

ClientLoad(att) == [k \in Keys |-> Cardinality(InFromClient(att, k))]
ProxyLoad(att) == [k \in ProxyKeys |-> Cardinality(InFromProxy(att, k))]

\* No failure since the wait was found: the buckets are ready when it is over.
ClientReady(client, t) == client \in DOMAIN clients => Ready(clients[client], t, Refill)
ProxyReady(proxy, t) == proxy \in DOMAIN proxies \ {None} => Ready(proxies[proxy], t, ProxyRefill)

Promises ==
  \A r \in Requests : retryAt[r] # None =>
    ClientReady(LoginClient(r).client, retryAt[r]) /\ ProxyReady(LoginClient(r).proxy, retryAt[r])

PromisesToCome ==
  \A a \in Attempts : attempt[a].at = "allow proxy" /\ ~attempt[a].void =>
    ClientReady(attempt[a].client, clock + attempt[a].wait)

IInv ==
  /\ Types
  /\ Side(clients, Keys, Burst, Refill, ClientLoad(attempt), clock)
  /\ Side(proxies, ProxyKeys, ProxyBurst, ProxyRefill, ProxyLoad(attempt), clock)
  /\ Promises
  /\ PromisesToCome

LEMMA Budgets ==
  /\ Burst \in Nat \ {0} /\ Refill \in Nat \ {0}
  /\ ProxyBurst \in Nat \ {0} /\ ProxyRefill \in Nat \ {0}
  /\ MaxTime \in Nat
  /\ Overflow \in Keys /\ Overflow \in ProxyKeys /\ None \notin ProxyKeys
  /\ Clients \subseteq Keys \ {Overflow} /\ Trusted \subseteq ProxyKeys \ {Overflow}
BY BudgetAssumption, RequestAssumption DEF Keys, ProxyKeys

LEMMA Origins ==
  ASSUME NEW r \in Requests
  PROVE  LoginClient(r) \in [client : Clients, proxy : Trusted \cup {None}]
<1>1. r \in [peer : Clients, forwarded : Clients \cup {None}]
  BY RequestAssumption
<1>2. QED
  BY <1>1 DEF LoginClient

\* How loads change when the requests that are let in do.
LEMMA Subsets ==
  ASSUME NEW S \in SUBSET Attempts, NEW T \in SUBSET S
  PROVE  /\ Cardinality(S) \in 0 .. Together
         /\ Cardinality(T) \in 0 .. Together
         /\ Cardinality(T) <= Cardinality(S)
         /\ S # T => Cardinality(T) < Cardinality(S)
<1>1. IsFiniteSet(S) /\ Cardinality(S) <= Together
  BY RequestAssumption, FS_Subset DEF Together
<1>2. IsFiniteSet(T) /\ Cardinality(T) <= Cardinality(S) /\ (Cardinality(S) = Cardinality(T) => S = T)
  BY <1>1, FS_Subset
<1>3. Cardinality(S) \in Nat /\ Cardinality(T) \in Nat
  BY <1>1, <1>2, FS_CardinalityType
<1>4. QED
  BY <1>1, <1>2, <1>3, TogetherType

LEMMA Loads ==
  ASSUME NEW att
  PROVE  /\ ClientLoad(att) \in [Keys -> 0 .. Together]
         /\ ProxyLoad(att) \in [ProxyKeys -> 0 .. Together]
<1>1. \A k : InFromClient(att, k) \in SUBSET Attempts /\ InFromProxy(att, k) \in SUBSET Attempts
  BY DEF InFromClient, InFromProxy
<1>2. \A k : /\ Cardinality(InFromClient(att, k)) \in 0 .. Together
             /\ Cardinality(InFromProxy(att, k)) \in 0 .. Together
  BY <1>1, Subsets
<1>3. QED
  BY <1>2 DEF ClientLoad, ProxyLoad

\* Only a moves.
LEMMA LoadFalls ==
  ASSUME NEW att, NEW new, NEW a \in Attempts,
         \A b \in Attempts \ {a} :
           /\ new[b].client = att[b].client /\ new[b].proxy = att[b].proxy
           /\ new[b].at = att[b].at /\ new[b].wait = att[b].wait
  PROVE  /\ \A k \in Keys :
              /\ (a \in InFromClient(new, k) => a \in InFromClient(att, k))
                   => ClientLoad(new)[k] <= ClientLoad(att)[k]
              /\ a \in InFromClient(att, k) /\ a \notin InFromClient(new, k)
                   => ClientLoad(new)[k] < ClientLoad(att)[k]
         /\ \A k \in ProxyKeys :
              /\ (a \in InFromProxy(new, k) => a \in InFromProxy(att, k))
                   => ProxyLoad(new)[k] <= ProxyLoad(att)[k]
              /\ a \in InFromProxy(att, k) /\ a \notin InFromProxy(new, k)
                   => ProxyLoad(new)[k] < ProxyLoad(att)[k]
<1>1. ASSUME NEW k
      PROVE  /\ InFromClient(att, k) \in SUBSET Attempts /\ InFromProxy(att, k) \in SUBSET Attempts
             /\ InFromClient(new, k) \subseteq InFromClient(att, k) \cup {a}
             /\ InFromProxy(new, k) \subseteq InFromProxy(att, k) \cup {a}
  BY DEF InFromClient, InFromProxy
<1>2. ASSUME NEW k \in Keys, a \in InFromClient(new, k) => a \in InFromClient(att, k)
      PROVE  /\ ClientLoad(new)[k] <= ClientLoad(att)[k]
             /\ a \in InFromClient(att, k) /\ a \notin InFromClient(new, k)
                  => ClientLoad(new)[k] < ClientLoad(att)[k]
  <2>1. InFromClient(new, k) \in SUBSET InFromClient(att, k)
    BY <1>1, <1>2
  <2>2. QED
    BY <1>1, <2>1, Subsets DEF ClientLoad
<1>3. ASSUME NEW k \in ProxyKeys, a \in InFromProxy(new, k) => a \in InFromProxy(att, k)
      PROVE  /\ ProxyLoad(new)[k] <= ProxyLoad(att)[k]
             /\ a \in InFromProxy(att, k) /\ a \notin InFromProxy(new, k)
                  => ProxyLoad(new)[k] < ProxyLoad(att)[k]
  <2>1. InFromProxy(new, k) \in SUBSET InFromProxy(att, k)
    BY <1>1, <1>3
  <2>2. QED
    BY <1>1, <2>1, Subsets DEF ProxyLoad
<1>4. QED
  BY <1>2, <1>3

\* How promises fare.
LEMMA ReadyLater ==
  ASSUME NEW burst \in Nat \ {0}, NEW refill \in Nat \ {0}, NEW b \in Bucket(burst, refill),
         NEW t \in Nat, NEW later \in Nat, t <= later, Ready(b, t, refill)
  PROVE  Ready(b, later, refill)
<1>1. b.tokens \in Nat /\ b.updated \in Nat
  BY Product DEF Bucket
<1>2. QED
  BY <1>1 DEF Ready

LEMMA AllowedReady ==
  ASSUME NEW burst \in Nat \ {0}, NEW refill \in Nat \ {0}, NEW keys, NEW buckets,
         Throttle(buckets, keys, burst, refill), NEW key, NEW now \in Nat,
         NEW allowed, AllowedOf(allowed, key, now, buckets, keys, burst, refill),
         NEW k \in DOMAIN allowed.buckets
  PROVE  /\ k \in DOMAIN buckets
         /\ \A t \in Nat : Ready(buckets[k], t, refill) => Ready(allowed.buckets[k], t, refill)
<1>1. /\ k \in DOMAIN buckets
      /\ allowed.buckets[k] \in {buckets[k], Refilled(buckets[k], now, burst, refill)}
  BY DEF AllowedOf
<1>2. buckets[k] \in Bucket(burst, refill)
  BY <1>1 DEF Throttle
<1>3. QED
  BY <1>1, <1>2, RefillReady

LEMMA WaitReady ==
  ASSUME NEW burst \in Nat \ {0}, NEW refill \in Nat \ {0}, NEW keys, NEW buckets,
         NEW key, NEW now, NEW allowed, NEW load, NEW time \in Nat,
         AllowedOf(allowed, key, now, buckets, keys, burst, refill),
         Side(allowed.buckets, keys, burst, refill, load, time),
         NEW t \in Nat, time + allowed.wait <= t, key \in DOMAIN allowed.buckets
  PROVE  Ready(allowed.buckets[key], t, refill)
<1> DEFINE b == allowed.buckets[key]
<1>1. b \in Bucket(burst, refill) /\ b.updated <= time
  BY DEF Side, Throttle
<1>2. /\ allowed.wait \in Nat
      /\ allowed.wait = IF b.tokens >= refill THEN 0 ELSE refill - b.tokens
  BY DEF AllowedOf
<1>3. b.tokens \in Nat /\ b.updated \in Nat
  BY <1>1, Product DEF Bucket
<1>4. Ready(b, t, refill)
  <2> HIDE DEF b
  <2> QED BY <1>1, <1>2, <1>3 DEF Ready
<1>5. QED
  BY <1>4

-----------------------------------------------------------------------------
(* Every step keeps it.                                                    *)

LEMMA InitInv == Init => IInv
<1> SUFFICES ASSUME Init PROVE IInv
  OBVIOUS
<1>1. Types
  <2>1. Idle \in Attempt /\ HasOrigin(Idle) /\ Idle.now = 0
    BY DEF Idle, Attempt, Places, HasOrigin
  <2>2. 0 \in 0 .. MaxTime /\ 0 <= 0
    BY Budgets
  <2>3. QED
    BY <2>1, <2>2 DEF Init, Types
<1>2. Promises /\ PromisesToCome
  BY DEF Init, Promises, PromisesToCome, Idle
<1>3. ASSUME NEW keys, NEW burst, NEW refill, NEW load
      PROVE  Side(<<>>, keys, burst, refill, load, clock)
  <2>1. DOMAIN <<>> = {} /\ <<>> = [k \in {} |-> 0]
    OBVIOUS
  <2>2. <<>> \in [{} -> Bucket(burst, refill)]
    BY <2>1
  <2>3. IsFiniteSet({}) /\ Cardinality({}) = 0 /\ {} \ {Overflow} = {}
    BY FS_EmptySet
  <2>4. QED
    BY <2>1, <2>2, <2>3, BudgetAssumption DEF Side, Throttle
<1>4. QED
  BY <1>1, <1>2, <1>3 DEF Init, IInv

LEMMA ClockNat == Types => clock \in Nat /\ clock <= clock
<1>1. Types => clock \in 0 .. MaxTime
  BY DEF Types
<1>2. QED
  BY <1>1, Budgets

LEMMA LaterSum ==
  ASSUME NEW x \in Nat, NEW y \in Nat, NEW n \in Nat, x <= y
  PROVE  x + n \in Nat /\ y + n \in Nat /\ x + n <= y + n
OBVIOUS

LEMMA TickInv == IInv /\ Tick => IInv'
<1> SUFFICES ASSUME IInv, Tick PROVE IInv'
  OBVIOUS
<1>0. clock \in 0 .. MaxTime /\ clock < MaxTime /\ clock' = clock + 1
  BY DEF IInv, Types, Tick
<1>1. clock \in Nat /\ clock' \in Nat /\ clock <= clock'
  BY <1>0, Budgets
<1>2. Types'
  <2>1. ASSUME NEW a \in Attempts
        PROVE  attempt[a].now <= clock'
    <3>1. attempt[a].now <= clock /\ attempt[a].now \in Nat
      BY DEF IInv, Types, Attempt
    <3>2. QED
      BY <1>1, <3>1
  <2>2. clock' \in 0 .. MaxTime
    BY <1>0, Budgets
  <2>3. QED
    BY <2>1, <2>2 DEF IInv, Types, Tick
<1>3. Side(clients', Keys, Burst, Refill, ClientLoad(attempt'), clock')
  BY <1>1, Budgets, Loads, SideLater DEF IInv, Tick
<1>4. Side(proxies', ProxyKeys, ProxyBurst, ProxyRefill, ProxyLoad(attempt'), clock')
  BY <1>1, Budgets, Loads, SideLater DEF IInv, Tick
<1>5. Promises'
  BY DEF IInv, Promises, ClientReady, ProxyReady, Tick
<1>6. PromisesToCome'
  <2> SUFFICES ASSUME NEW a \in Attempts, attempt[a].at = "allow proxy", ~attempt[a].void,
                      attempt[a].client \in DOMAIN clients
               PROVE  Ready(clients[attempt[a].client], clock' + attempt[a].wait, Refill)
    BY DEF PromisesToCome, ClientReady, Tick
  <2>1. Ready(clients[attempt[a].client], clock + attempt[a].wait, Refill)
    BY DEF IInv, PromisesToCome, ClientReady
  <2>2. clients[attempt[a].client] \in Bucket(Burst, Refill)
    BY DEF IInv, Side, Throttle
  <2>3. attempt[a].wait \in Nat
    BY DEF IInv, Types, Attempt
  <2>4. /\ clock + attempt[a].wait \in Nat /\ clock' + attempt[a].wait \in Nat
        /\ clock + attempt[a].wait <= clock' + attempt[a].wait
    BY <1>1, <2>3, LaterSum
  <2>5. QED
    BY <2>1, <2>2, <2>4, Budgets, ReadyLater
<1>7. QED
  BY <1>2, <1>3, <1>4, <1>5, <1>6 DEF IInv

\* Only a moves.
LEMMA MoveTypes ==
  ASSUME NEW a \in Attempts, Types, NEW new \in Attempt, new.now <= clock, HasOrigin(new),
         attempt' = [attempt EXCEPT ![a] = new], clock' = clock,
         retryAt' \in [Requests -> Nat \cup {None}]
  PROVE  /\ Types'
         /\ attempt'[a] = new
         /\ \A b \in Attempts \ {a} : attempt'[b] = attempt[b]
<1>1. attempt \in [Attempts -> Attempt]
  BY DEF Types
<1>2. /\ attempt' \in [Attempts -> Attempt] /\ attempt'[a] = new
      /\ \A b \in Attempts \ {a} : attempt'[b] = attempt[b]
  BY <1>1
<1>3. QED
  BY <1>2 DEF Types

LEMMA IdleType == Idle \in Attempt /\ HasOrigin(Idle) /\ (Types => Idle.now <= clock)
<1>1. Idle \in Attempt /\ HasOrigin(Idle) /\ Idle.now = 0
  BY DEF Idle, Attempt, Places, HasOrigin
<1>2. QED
  BY <1>1, ClockNat

LEMMA SubmitInv ==
  ASSUME NEW a \in Attempts, NEW request \in Requests, IInv, Submit(a, request)
  PROVE  IInv'
<1> DEFINE origin == LoginClient(request)
           new == [at |-> "allow client", client |-> origin.client, proxy |-> origin.proxy,
                   now |-> clock, wait |-> 0, void |-> FALSE]
<1>1. /\ attempt[a].at = "idle" /\ attempt' = [attempt EXCEPT ![a] = new]
      /\ UNCHANGED <<clock, clients, proxies, retryAt>>
  BY DEF Submit
<1>0. clock \in Nat /\ clock <= clock
  BY ClockNat DEF IInv
<1>2. /\ new \in Attempt
      /\ new.client \in Clients /\ new.now = clock /\ new.at = "allow client"
  <2>1. origin \in [client : Clients, proxy : Trusted \cup {None}]
    BY Origins
  <2> HIDE DEF origin
  <2>2. QED
    BY <1>0, <2>1 DEF Attempt, Places
<1> HIDE DEF new
<1>3. new.now <= clock /\ HasOrigin(new)
  BY <1>0, <1>2 DEF HasOrigin
<1>4. Types' /\ attempt'[a] = new /\ \A b \in Attempts \ {a} : attempt'[b] = attempt[b]
  BY <1>1, <1>2, <1>3, MoveTypes DEF IInv, Types
<1>5. \A k : a \notin InFromClient(attempt', k) /\ a \notin InFromProxy(attempt', k)
  BY <1>2, <1>4 DEF InFromClient, InFromProxy
<1>6. /\ \A k \in Keys : ClientLoad(attempt')[k] <= ClientLoad(attempt)[k]
      /\ \A k \in ProxyKeys : ProxyLoad(attempt')[k] <= ProxyLoad(attempt)[k]
  BY <1>4, <1>5, LoadFalls
<1>7. /\ Side(clients', Keys, Burst, Refill, ClientLoad(attempt'), clock')
      /\ Side(proxies', ProxyKeys, ProxyBurst, ProxyRefill, ProxyLoad(attempt'), clock')
  BY <1>0, <1>1, <1>6, Budgets, Loads, SideLater DEF IInv
<1>8. Promises'
  BY <1>1 DEF IInv, Promises, ClientReady, ProxyReady
<1>9. PromisesToCome'
  BY <1>1, <1>2, <1>4 DEF IInv, PromisesToCome, ClientReady
<1>10. QED
  BY <1>4, <1>7, <1>8, <1>9 DEF IInv

LEMMA SignInInv ==
  ASSUME NEW a \in Attempts, IInv, SignIn(a)
  PROVE  IInv'
<1>1. /\ attempt[a].at = "compare" /\ attempt' = [attempt EXCEPT ![a] = Idle]
      /\ UNCHANGED <<clock, clients, proxies, retryAt>>
  BY DEF SignIn
<1>2. clock \in Nat /\ clock <= clock
  BY ClockNat DEF IInv
<1>3. Types' /\ attempt'[a] = Idle /\ \A b \in Attempts \ {a} : attempt'[b] = attempt[b]
  BY <1>1, IdleType, MoveTypes DEF IInv, Types
<1>4. Idle.at = "idle"
  BY DEF Idle
<1>5. \A k : a \notin InFromClient(attempt', k) /\ a \notin InFromProxy(attempt', k)
  BY <1>3, <1>4 DEF InFromClient, InFromProxy
<1>6. /\ \A k \in Keys : ClientLoad(attempt')[k] <= ClientLoad(attempt)[k]
      /\ \A k \in ProxyKeys : ProxyLoad(attempt')[k] <= ProxyLoad(attempt)[k]
  BY <1>3, <1>5, LoadFalls
<1>7. /\ Side(clients', Keys, Burst, Refill, ClientLoad(attempt'), clock')
      /\ Side(proxies', ProxyKeys, ProxyBurst, ProxyRefill, ProxyLoad(attempt'), clock')
  BY <1>1, <1>2, <1>6, Budgets, Loads, SideLater DEF IInv
<1>8. Promises'
  BY <1>1 DEF IInv, Promises, ClientReady, ProxyReady
<1>9. PromisesToCome'
  BY <1>1, <1>3, <1>4 DEF IInv, PromisesToCome, ClientReady
<1>10. QED
  BY <1>3, <1>7, <1>8, <1>9 DEF IInv

LEMMA DecideMoves ==
  ASSUME NEW a \in Attempts, Types, NEW wait \in Nat, Decide(a, wait), attempt[a].at # "idle"
  PROVE  /\ attempt' = [attempt EXCEPT ![a] = attempt'[a]]
         /\ attempt'[a] \in Attempt /\ attempt'[a].now <= clock /\ HasOrigin(attempt'[a])
         /\ \/ /\ wait = 0 /\ attempt'[a].at = "compare"
               /\ attempt'[a].client = attempt[a].client /\ attempt'[a].proxy = attempt[a].proxy
            \/ wait # 0 /\ attempt'[a].at = "idle"
         /\ retryAt' \in [Requests -> Nat \cup {None}]
         /\ \A r \in Requests :
              \/ retryAt'[r] = retryAt[r]
              \/ /\ ~attempt[a].void /\ retryAt'[r] = clock + wait
                 /\ LoginClient(r).client = attempt[a].client
                 /\ LoginClient(r).proxy = attempt[a].proxy
<1>1. /\ attempt \in [Attempts -> Attempt] /\ attempt[a] \in Attempt
      /\ attempt[a].now <= clock /\ HasOrigin(attempt[a])
      /\ retryAt \in [Requests -> Nat \cup {None}]
  BY DEF Types
<1>2. clock + wait \in Nat
  BY ClockNat
<1>3. CASE wait = 0
  <2> DEFINE new == [attempt[a] EXCEPT !.at = "compare"]
  <2>1. attempt' = [attempt EXCEPT ![a] = new] /\ retryAt' = retryAt
    BY <1>1, <1>3 DEF Decide
  <2>2. /\ new \in Attempt /\ new.at = "compare" /\ new.client = attempt[a].client
        /\ new.proxy = attempt[a].proxy /\ new.now = attempt[a].now
    BY <1>1 DEF Attempt, Places
  <2> HIDE DEF new
  <2>3. attempt'[a] = new
    BY <1>1, <2>1
  <2>4. new.now <= clock /\ HasOrigin(new)
    BY <1>1, <2>2 DEF HasOrigin
  <2>5. QED
    BY <1>1, <1>3, <2>1, <2>2, <2>3, <2>4
<1>4. CASE wait # 0
  <2>1. /\ attempt' = [attempt EXCEPT ![a] = Idle]
        /\ retryAt' = [r \in Requests |-> IF From(a, r) /\ ~attempt[a].void
                                         THEN clock + wait ELSE retryAt[r]]
    BY <1>4 DEF Decide
  <2>2. attempt'[a] = Idle /\ Idle.at = "idle"
    BY <1>1, <2>1 DEF Idle
  <2>3. retryAt' \in [Requests -> Nat \cup {None}]
    BY <1>1, <1>2, <2>1
  <2>4. ASSUME NEW r \in Requests, retryAt'[r] # retryAt[r]
        PROVE  /\ ~attempt[a].void /\ retryAt'[r] = clock + wait
               /\ LoginClient(r).client = attempt[a].client
               /\ LoginClient(r).proxy = attempt[a].proxy
    BY <2>1, <2>4 DEF From
  <2>5. QED
    BY <1>4, <2>1, <2>2, <2>3, <2>4, IdleType
<1>5. QED
  BY <1>3, <1>4

LEMMA AllowClientInv ==
  ASSUME NEW a \in Attempts, IInv, AllowClient(a)
  PROVE  IInv'
<1> DEFINE client == attempt[a].client
           now == attempt[a].now
           allowed == Allowed(clients, client, now, Burst, Refill)
           new == attempt'[a]
<1>1. /\ attempt[a].at = "allow client" /\ clients' = allowed.buckets
      /\ UNCHANGED <<clock, proxies>>
  BY DEF AllowClient
<1>2. /\ attempt \in [Attempts -> Attempt] /\ attempt[a] \in Attempt
      /\ now <= clock /\ HasOrigin(attempt[a]) /\ client \in Clients /\ now \in Nat
      /\ retryAt \in [Requests -> Nat \cup {None}]
  BY <1>1 DEF IInv, Types, HasOrigin, Attempt
<1>3. clock \in Nat /\ clock <= clock
  BY ClockNat DEF IInv
<1>4. /\ client \in Keys \ {Overflow} /\ Throttle(clients, Keys, Burst, Refill)
      /\ AllowedOf(allowed, client, now, clients, Keys, Burst, Refill)
  <2>1. client \in Keys \ {Overflow} /\ Throttle(clients, Keys, Burst, Refill)
    BY <1>2, Budgets DEF IInv, Side
  <2>2. QED
    BY <1>2, <2>1, Budgets, AllowedKeeps
<1>5. allowed.wait \in Nat
  BY <1>4 DEF AllowedOf
<1> HIDE DEF allowed
<1>6. /\ attempt' = [attempt EXCEPT ![a] = new]
      /\ new \in Attempt /\ new.now <= clock /\ HasOrigin(new)
      /\ \/ new.at = "compare" /\ allowed.wait = 0 /\ new.client = client /\ new.proxy = None
         \/ new.at = "idle"
         \/ new.at = "allow proxy" /\ new.wait = allowed.wait /\ new.client = client
      /\ retryAt' \in [Requests -> Nat \cup {None}]
      /\ \A r \in Requests :
           \/ retryAt'[r] = retryAt[r]
           \/ /\ retryAt'[r] = clock + allowed.wait
              /\ LoginClient(r).client = client /\ LoginClient(r).proxy = None
  <2>1. CASE attempt[a].proxy = None
    <3>1. Decide(a, allowed.wait)
      BY <2>1 DEF AllowClient, allowed
    <3>2. Types
      BY DEF IInv
    <3> HIDE DEF new
    <3>3. /\ attempt' = [attempt EXCEPT ![a] = new]
          /\ new \in Attempt /\ new.now <= clock /\ HasOrigin(new)
          /\ \/ /\ allowed.wait = 0 /\ new.at = "compare"
                /\ new.client = attempt[a].client /\ new.proxy = attempt[a].proxy
             \/ allowed.wait # 0 /\ new.at = "idle"
          /\ retryAt' \in [Requests -> Nat \cup {None}]
          /\ \A r \in Requests :
               \/ retryAt'[r] = retryAt[r]
               \/ /\ ~attempt[a].void /\ retryAt'[r] = clock + allowed.wait
                  /\ LoginClient(r).client = attempt[a].client
                  /\ LoginClient(r).proxy = attempt[a].proxy
      BY <1>1, <1>5, <3>1, <3>2, DecideMoves DEF new
    <3>4. QED
      BY <2>1, <3>3
  <2>2. CASE attempt[a].proxy # None
    <3> DEFINE next == [attempt[a] EXCEPT !.at = "allow proxy", !.wait = allowed.wait]
    <3>1. /\ attempt' = [attempt EXCEPT ![a] = next] /\ retryAt' = retryAt
      BY <1>2, <2>2 DEF AllowClient, allowed
    <3>2. /\ next \in Attempt /\ next.at = "allow proxy" /\ next.wait = allowed.wait
          /\ next.client = client /\ next.proxy = attempt[a].proxy /\ next.now = now
      BY <1>2, <1>5 DEF Attempt, Places
    <3> HIDE DEF next
    <3>3. new = next
      BY <1>2, <3>1
    <3>4. HasOrigin(next) /\ next.now <= clock
      BY <1>2, <2>2, <3>2 DEF HasOrigin
    <3>5. QED
      BY <1>2, <3>1, <3>2, <3>3, <3>4
  <2>3. QED
    BY <2>1, <2>2
<1> HIDE DEF new
<1>7. Types' /\ attempt'[a] = new /\ \A b \in Attempts \ {a} : attempt'[b] = attempt[b]
  <2>1. Types /\ clock' = clock
    BY <1>1 DEF IInv
  <2>2. QED
    BY <1>6, <2>1, MoveTypes
<1>8. /\ \A k \in Keys \ {client} : a \notin InFromClient(attempt', k)
      /\ allowed.wait # 0 => a \notin InFromClient(attempt', client)
      /\ \A k \in ProxyKeys : a \notin InFromProxy(attempt', k)
  BY <1>6, <1>7, Budgets DEF InFromClient, InFromProxy
<1>9. /\ \A k \in Keys \ {client} : ClientLoad(attempt')[k] <= ClientLoad(attempt)[k]
      /\ allowed.wait # 0 => ClientLoad(attempt')[client] <= ClientLoad(attempt)[client]
      /\ \A k \in ProxyKeys : ProxyLoad(attempt')[k] <= ProxyLoad(attempt)[k]
  BY <1>4, <1>7, <1>8, LoadFalls
<1>10. Side(clients', Keys, Burst, Refill, ClientLoad(attempt'), clock')
  <2>1. Side(allowed.buckets, Keys, Burst, Refill, ClientLoad(attempt'), clock)
    BY <1>2, <1>3, <1>4, <1>9, Budgets, Loads, SideAllowed DEF IInv
  <2>2. QED
    BY <1>1, <2>1
<1>11. Side(proxies', ProxyKeys, ProxyBurst, ProxyRefill, ProxyLoad(attempt'), clock')
  BY <1>1, <1>3, <1>9, Budgets, Loads, SideLater DEF IInv
<1>12. ASSUME NEW k \in DOMAIN clients', NEW t \in Nat
       PROVE  /\ k \in DOMAIN clients
              /\ Ready(clients[k], t, Refill) => Ready(clients'[k], t, Refill)
              /\ k = client /\ clock + allowed.wait <= t => Ready(clients'[k], t, Refill)
  <2>1. /\ k \in DOMAIN clients
        /\ Ready(clients[k], t, Refill) => Ready(clients'[k], t, Refill)
    BY <1>1, <1>2, <1>4, Budgets, AllowedReady
  <2>2. ASSUME k = client, clock + allowed.wait <= t
        PROVE  Ready(clients'[k], t, Refill)
    BY <1>1, <1>3, <1>4, <1>10, <2>2, Budgets, WaitReady
  <2>3. QED
    BY <2>1, <2>2
<1>13. Promises'
  <2> SUFFICES ASSUME NEW r \in Requests, retryAt'[r] # None
               PROVE  /\ LoginClient(r).client \in DOMAIN clients'
                           => Ready(clients'[LoginClient(r).client], retryAt'[r], Refill)
                      /\ LoginClient(r).proxy \in DOMAIN proxies \ {None}
                           => Ready(proxies[LoginClient(r).proxy], retryAt'[r], ProxyRefill)
    BY <1>1 DEF Promises, ClientReady, ProxyReady
  <2>1. retryAt'[r] \in Nat
    BY <1>6
  <2>2. CASE retryAt'[r] = retryAt[r]
    BY <1>12, <2>1, <2>2 DEF IInv, Promises, ClientReady, ProxyReady
  <2>3. CASE /\ retryAt'[r] = clock + allowed.wait
             /\ LoginClient(r).client = client /\ LoginClient(r).proxy = None
    <3>1. clock + allowed.wait <= retryAt'[r]
      BY <2>1, <2>3
    <3>2. QED
      BY <1>12, <2>1, <2>3, <3>1
  <2>4. QED
    BY <1>6, <2>2, <2>3
<1>14. PromisesToCome'
  <2> SUFFICES ASSUME NEW b \in Attempts, attempt'[b].at = "allow proxy", ~attempt'[b].void,
                      attempt'[b].client \in DOMAIN clients'
               PROVE  Ready(clients'[attempt'[b].client], clock + attempt'[b].wait, Refill)
    BY <1>1 DEF PromisesToCome, ClientReady
  <2>1. clock + attempt'[b].wait \in Nat
    BY <1>1, <1>3, <1>7, LaterSum DEF Types, Attempt
  <2>2. CASE b = a
    <3>1. attempt'[b].client = client /\ attempt'[b].wait = allowed.wait
      BY <1>6, <1>7, <2>2
    <3>2. clock + allowed.wait <= clock + attempt'[b].wait
      BY <1>3, <1>5, <3>1, LaterSum
    <3>3. QED
      BY <1>12, <2>1, <3>1, <3>2
  <2>3. CASE b # a
    <3>1. attempt'[b] = attempt[b]
      BY <1>7, <2>3
    <3>2. QED
      BY <1>12, <2>1, <3>1 DEF IInv, PromisesToCome, ClientReady
  <2>4. QED
    BY <2>2, <2>3
<1>15. QED
  BY <1>7, <1>10, <1>11, <1>13, <1>14 DEF IInv

LEMMA AllowProxyInv ==
  ASSUME NEW a \in Attempts, IInv, AllowProxy(a)
  PROVE  IInv'
<1> DEFINE proxy == attempt[a].proxy
           now == attempt[a].now
           allowed == Allowed(proxies, proxy, now, ProxyBurst, ProxyRefill)
           wait == Max({attempt[a].wait, allowed.wait})
           new == attempt'[a]
<1>1. /\ attempt[a].at = "allow proxy" /\ proxies' = allowed.buckets
      /\ Decide(a, wait) /\ UNCHANGED <<clock, clients>>
  BY DEF AllowProxy
<1>2. /\ Types /\ attempt[a] \in Attempt
      /\ now <= clock /\ HasOrigin(attempt[a]) /\ attempt[a].client \in Clients
      /\ proxy \in Trusted /\ now \in Nat /\ attempt[a].wait \in Nat
  BY <1>1 DEF IInv, Types, HasOrigin, Attempt
<1>3. clock \in Nat /\ clock <= clock
  BY ClockNat DEF IInv
<1>4. /\ proxy \in ProxyKeys \ {Overflow} /\ Throttle(proxies, ProxyKeys, ProxyBurst, ProxyRefill)
      /\ AllowedOf(allowed, proxy, now, proxies, ProxyKeys, ProxyBurst, ProxyRefill)
  <2>1. /\ proxy \in ProxyKeys \ {Overflow}
        /\ Throttle(proxies, ProxyKeys, ProxyBurst, ProxyRefill)
    BY <1>2, Budgets DEF IInv, Side
  <2>2. QED
    BY <1>2, <2>1, Budgets, AllowedKeeps
<1>5. allowed.wait \in Nat
  BY <1>4 DEF AllowedOf
<1> HIDE DEF allowed
<1>6. /\ wait \in Nat /\ attempt[a].wait <= wait /\ allowed.wait <= wait
      /\ wait = 0 => attempt[a].wait = 0 /\ allowed.wait = 0
  BY <1>2, <1>5, MaxPair
<1> HIDE DEF wait, new
<1>7. /\ attempt' = [attempt EXCEPT ![a] = new]
      /\ new \in Attempt /\ new.now <= clock /\ HasOrigin(new)
      /\ \/ /\ wait = 0 /\ new.at = "compare"
            /\ new.client = attempt[a].client /\ new.proxy = attempt[a].proxy
         \/ wait # 0 /\ new.at = "idle"
      /\ retryAt' \in [Requests -> Nat \cup {None}]
      /\ \A r \in Requests :
           \/ retryAt'[r] = retryAt[r]
           \/ /\ ~attempt[a].void /\ retryAt'[r] = clock + wait
              /\ LoginClient(r).client = attempt[a].client
              /\ LoginClient(r).proxy = attempt[a].proxy
  BY <1>1, <1>2, <1>6, DecideMoves DEF new
<1>8. Types' /\ attempt'[a] = new /\ \A b \in Attempts \ {a} : attempt'[b] = attempt[b]
  BY <1>1, <1>2, <1>7, MoveTypes
<1>9. /\ \A k \in Keys : a \in InFromClient(attempt', k) => a \in InFromClient(attempt, k)
      /\ \A k \in ProxyKeys \ {proxy} : a \notin InFromProxy(attempt', k)
      /\ allowed.wait # 0 => a \notin InFromProxy(attempt', proxy)
  BY <1>1, <1>6, <1>7, <1>8 DEF InFromClient, InFromProxy
<1>10. /\ \A k \in Keys : ClientLoad(attempt')[k] <= ClientLoad(attempt)[k]
       /\ \A k \in ProxyKeys \ {proxy} : ProxyLoad(attempt')[k] <= ProxyLoad(attempt)[k]
       /\ allowed.wait # 0 => ProxyLoad(attempt')[proxy] <= ProxyLoad(attempt)[proxy]
  BY <1>4, <1>8, <1>9, LoadFalls
<1>11. Side(clients', Keys, Burst, Refill, ClientLoad(attempt'), clock')
  BY <1>1, <1>3, <1>10, Budgets, Loads, SideLater DEF IInv
<1>12. Side(proxies', ProxyKeys, ProxyBurst, ProxyRefill, ProxyLoad(attempt'), clock')
  <2>1. Side(allowed.buckets, ProxyKeys, ProxyBurst, ProxyRefill, ProxyLoad(attempt'), clock)
    BY <1>2, <1>3, <1>4, <1>10, Budgets, Loads, SideAllowed DEF IInv
  <2>2. QED
    BY <1>1, <2>1
<1>13. ASSUME NEW k \in DOMAIN proxies', NEW t \in Nat
       PROVE  /\ k \in DOMAIN proxies
              /\ Ready(proxies[k], t, ProxyRefill) => Ready(proxies'[k], t, ProxyRefill)
              /\ k = proxy /\ clock + allowed.wait <= t => Ready(proxies'[k], t, ProxyRefill)
  <2>1. /\ k \in DOMAIN proxies
        /\ Ready(proxies[k], t, ProxyRefill) => Ready(proxies'[k], t, ProxyRefill)
    BY <1>1, <1>2, <1>4, Budgets, AllowedReady
  <2>2. ASSUME k = proxy, clock + allowed.wait <= t
        PROVE  Ready(proxies'[k], t, ProxyRefill)
    BY <1>1, <1>3, <1>4, <1>12, <2>2, Budgets, WaitReady
  <2>3. QED
    BY <2>1, <2>2
<1>14. Promises'
  <2> SUFFICES ASSUME NEW r \in Requests, retryAt'[r] # None
               PROVE  /\ LoginClient(r).client \in DOMAIN clients
                           => Ready(clients[LoginClient(r).client], retryAt'[r], Refill)
                      /\ LoginClient(r).proxy \in DOMAIN proxies' \ {None}
                           => Ready(proxies'[LoginClient(r).proxy], retryAt'[r], ProxyRefill)
    BY <1>1 DEF Promises, ClientReady, ProxyReady
  <2>1. retryAt'[r] \in Nat
    BY <1>7
  <2>2. CASE retryAt'[r] = retryAt[r]
    BY <1>13, <2>1, <2>2 DEF IInv, Promises, ClientReady, ProxyReady
  <2>3. CASE /\ ~attempt[a].void /\ retryAt'[r] = clock + wait
             /\ LoginClient(r).client = attempt[a].client /\ LoginClient(r).proxy = proxy
    <3>1. /\ clock + attempt[a].wait \in Nat
          /\ clock + attempt[a].wait <= retryAt'[r] /\ clock + allowed.wait <= retryAt'[r]
      <4>1. \A x \in Nat : x <= wait => clock + x \in Nat /\ clock + x <= clock + wait
        BY <1>3, <1>6
      <4>2. QED
        BY <1>2, <1>5, <1>6, <2>3, <4>1
    <3>2. ASSUME attempt[a].client \in DOMAIN clients
          PROVE  Ready(clients[attempt[a].client], retryAt'[r], Refill)
      <4>1. Ready(clients[attempt[a].client], clock + attempt[a].wait, Refill)
        BY <1>1, <2>3, <3>2 DEF IInv, PromisesToCome, ClientReady
      <4>2. clients[attempt[a].client] \in Bucket(Burst, Refill)
        BY <3>2 DEF IInv, Side, Throttle
      <4>3. QED
        BY <2>1, <3>1, <4>1, <4>2, Budgets, ReadyLater
    <3>3. ASSUME proxy \in DOMAIN proxies'
          PROVE  Ready(proxies'[proxy], retryAt'[r], ProxyRefill)
      BY <1>13, <2>1, <3>1, <3>3
    <3>4. QED
      BY <2>3, <3>2, <3>3
  <2>4. QED
    BY <1>7, <2>2, <2>3
<1>15. PromisesToCome'
  BY <1>1, <1>7, <1>8 DEF IInv, PromisesToCome, ClientReady
<1>16. QED
  BY <1>8, <1>11, <1>12, <1>14, <1>15 DEF IInv

\* Failures.  FailClient also marks the others, which changes nothing that
\* the loads look at.
LEMMA FailClientInv ==
  ASSUME NEW a \in Attempts, IInv, FailClient(a)
  PROVE  IInv'
<1> DEFINE client == attempt[a].client
           now == attempt[a].now
           charge == Failed(clients, client, now, Burst, Refill)
<1>1. /\ attempt[a].at = "compare" /\ clients' = charge.buckets
      /\ retryAt' = RetryVoided(charge.key, "client") /\ attempt' = Voided(a, charge.key)
      /\ UNCHANGED <<clock, proxies>>
  BY DEF FailClient
<1>2. /\ attempt \in [Attempts -> Attempt] /\ attempt[a] \in Attempt
      /\ now <= clock /\ client \in Clients /\ now \in Nat
      /\ retryAt \in [Requests -> Nat \cup {None}]
  BY <1>1 DEF IInv, Types, HasOrigin, Attempt
<1>3. clock \in Nat /\ clock <= clock
  BY ClockNat DEF IInv
<1>4. /\ client \in Keys \ {Overflow} /\ Throttle(clients, Keys, Burst, Refill)
      /\ ChargeOf(charge, client, now, clients, Keys, Burst, Refill)
  <2>1. client \in Keys \ {Overflow} /\ Throttle(clients, Keys, Burst, Refill)
    BY <1>2, Budgets DEF IInv, Side
  <2>2. QED
    BY <1>2, <2>1, Budgets, FailedKeeps
<1> HIDE DEF charge
<1>5. ASSUME NEW b \in Attempts
      PROVE  /\ attempt'[b] \in Attempt /\ attempt'[b].now <= clock /\ HasOrigin(attempt'[b])
             /\ b # a => /\ attempt'[b].at = attempt[b].at /\ attempt'[b].wait = attempt[b].wait
                         /\ attempt'[b].client = attempt[b].client
                         /\ attempt'[b].proxy = attempt[b].proxy
             /\ b # a /\ attempt[b].at = "allow proxy" /\ ~attempt'[b].void =>
                  ~attempt[b].void /\ charge.key \notin {attempt[b].client, Overflow}
             /\ b = a => \/ attempt'[b].at = "idle"
                         \/ attempt'[b].at = "fail proxy" /\ attempt'[b].proxy = attempt[b].proxy
  <2>1. attempt[b] \in Attempt /\ attempt[b].now <= clock /\ HasOrigin(attempt[b])
    BY DEF IInv, Types
  <2>2. CASE b = a /\ attempt[a].proxy # None
    <3> DEFINE new == [attempt[a] EXCEPT !.at = "fail proxy"]
    <3>1. attempt'[b] = new
      BY <1>1, <2>2 DEF Voided
    <3>2. /\ new \in Attempt /\ new.at = "fail proxy" /\ new.now = now
          /\ new.client = client /\ new.proxy = attempt[a].proxy
      BY <1>2 DEF Attempt, Places
    <3> HIDE DEF new
    <3>3. HasOrigin(new)
      BY <1>2, <2>2, <3>2 DEF HasOrigin
    <3>4. QED
      BY <1>2, <2>2, <3>1, <3>2, <3>3
  <2>3. CASE b = a /\ attempt[a].proxy = None
    <3>1. attempt'[b] = Idle /\ Idle.at = "idle"
      BY <1>1, <2>3 DEF Voided, Idle
    <3>2. QED
      BY <2>3, <3>1, IdleType DEF IInv
  <2>4. CASE b # a /\ attempt[b].at = "allow proxy" /\ charge.key \in {attempt[b].client, Overflow}
    <3> DEFINE new == [attempt[b] EXCEPT !.void = TRUE]
    <3>1. attempt'[b] = new
      BY <1>1, <2>4 DEF Voided
    <3>2. /\ new \in Attempt /\ new.at = attempt[b].at /\ new.now = attempt[b].now
          /\ new.client = attempt[b].client /\ new.proxy = attempt[b].proxy
          /\ new.wait = attempt[b].wait /\ new.void
      BY <2>1 DEF Attempt
    <3> HIDE DEF new
    <3>3. HasOrigin(new)
      BY <2>1, <3>2 DEF HasOrigin
    <3>4. QED
      BY <2>1, <2>4, <3>1, <3>2, <3>3
  <2>5. CASE b # a /\ ~(attempt[b].at = "allow proxy" /\ charge.key \in {attempt[b].client, Overflow})
    <3>1. attempt'[b] = attempt[b]
      BY <1>1, <2>5 DEF Voided
    <3>2. QED
      BY <2>1, <2>5, <3>1
  <2>6. QED
    BY <2>2, <2>3, <2>4, <2>5
<1>6. /\ retryAt' \in [Requests -> Nat \cup {None}]
      /\ \A r \in Requests : retryAt'[r] # None =>
           retryAt'[r] = retryAt[r] /\ charge.key \notin {LoginClient(r).client, Overflow}
  BY <1>1, <1>2 DEF RetryVoided
<1>7. Types'
  <2>1. attempt' \in [Attempts -> Attempt]
    <3>1. attempt' = [b \in Attempts |-> attempt'[b]]
      BY <1>1 DEF Voided
    <3>2. QED
      BY <1>5, <3>1
  <2>2. QED
    BY <1>1, <1>5, <1>6, <2>1 DEF IInv, Types
<1>8. /\ \A k \in Keys : a \notin InFromClient(attempt', k)
      /\ \A k \in ProxyKeys : a \in InFromProxy(attempt', k) => a \in InFromProxy(attempt, k)
      /\ a \in InFromClient(attempt, client)
  BY <1>1, <1>5 DEF InFromClient, InFromProxy
<1>9. /\ \A k \in Keys : ClientLoad(attempt')[k] <= ClientLoad(attempt)[k]
      /\ ClientLoad(attempt')[client] < ClientLoad(attempt)[client]
      /\ \A k \in ProxyKeys : ProxyLoad(attempt')[k] <= ProxyLoad(attempt)[k]
  BY <1>4, <1>5, <1>8, LoadFalls
<1>10. Side(clients', Keys, Burst, Refill, ClientLoad(attempt'), clock')
  <2>1. Side(charge.buckets, Keys, Burst, Refill, ClientLoad(attempt'), clock)
    BY <1>2, <1>3, <1>4, <1>9, Budgets, Loads, SideFailed DEF IInv
  <2>2. QED
    BY <1>1, <2>1
<1>11. Side(proxies', ProxyKeys, ProxyBurst, ProxyRefill, ProxyLoad(attempt'), clock')
  BY <1>1, <1>3, <1>9, Budgets, Loads, SideLater DEF IInv
<1>12. \A k \in DOMAIN clients' \ {charge.key} : k \in DOMAIN clients /\ clients'[k] = clients[k]
  BY <1>1, <1>4 DEF ChargeOf
<1>13. Promises'
  BY <1>1, <1>6, <1>12 DEF IInv, Promises, ClientReady, ProxyReady
<1>14. PromisesToCome'
  <2> SUFFICES ASSUME NEW b \in Attempts, attempt'[b].at = "allow proxy", ~attempt'[b].void,
                      attempt'[b].client \in DOMAIN clients'
               PROVE  Ready(clients'[attempt'[b].client], clock + attempt'[b].wait, Refill)
    BY <1>1 DEF PromisesToCome, ClientReady
  <2>1. b # a
    BY <1>5
  <2>2. /\ attempt[b].at = "allow proxy" /\ ~attempt[b].void
        /\ attempt'[b].client = attempt[b].client /\ attempt'[b].wait = attempt[b].wait
        /\ charge.key # attempt[b].client
    BY <1>5, <2>1
  <2>3. QED
    BY <1>12, <2>2 DEF IInv, PromisesToCome, ClientReady
<1>15. QED
  BY <1>7, <1>10, <1>11, <1>13, <1>14 DEF IInv

LEMMA FailProxyInv ==
  ASSUME NEW a \in Attempts, IInv, FailProxy(a)
  PROVE  IInv'
<1> DEFINE proxy == attempt[a].proxy
           now == attempt[a].now
           charge == Failed(proxies, proxy, now, ProxyBurst, ProxyRefill)
<1>1. /\ attempt[a].at = "fail proxy" /\ proxies' = charge.buckets
      /\ retryAt' = RetryVoided(charge.key, "proxy") /\ attempt' = [attempt EXCEPT ![a] = Idle]
      /\ UNCHANGED <<clock, clients>>
  BY DEF FailProxy
<1>2. /\ Types /\ now <= clock /\ proxy \in Trusted /\ now \in Nat
      /\ retryAt \in [Requests -> Nat \cup {None}]
  BY <1>1 DEF IInv, Types, HasOrigin, Attempt
<1>3. clock \in Nat /\ clock <= clock
  BY ClockNat DEF IInv
<1>4. /\ proxy \in ProxyKeys \ {Overflow} /\ Throttle(proxies, ProxyKeys, ProxyBurst, ProxyRefill)
      /\ ChargeOf(charge, proxy, now, proxies, ProxyKeys, ProxyBurst, ProxyRefill)
  <2>1. /\ proxy \in ProxyKeys \ {Overflow}
        /\ Throttle(proxies, ProxyKeys, ProxyBurst, ProxyRefill)
    BY <1>2, Budgets DEF IInv, Side
  <2>2. QED
    BY <1>2, <2>1, Budgets, FailedKeeps
<1> HIDE DEF charge
<1>5. /\ retryAt' \in [Requests -> Nat \cup {None}]
      /\ \A r \in Requests : retryAt'[r] # None =>
           retryAt'[r] = retryAt[r] /\ charge.key # LoginClient(r).proxy
  BY <1>1, <1>2 DEF RetryVoided
<1>6. Types' /\ attempt'[a] = Idle /\ \A b \in Attempts \ {a} : attempt'[b] = attempt[b]
  BY <1>1, <1>2, <1>5, IdleType, MoveTypes
<1>7. Idle.at = "idle"
  BY DEF Idle
<1>8. /\ \A k : a \notin InFromClient(attempt', k) /\ a \notin InFromProxy(attempt', k)
      /\ a \in InFromProxy(attempt, proxy)
  BY <1>1, <1>6, <1>7 DEF InFromClient, InFromProxy
<1>9. /\ \A k \in Keys : ClientLoad(attempt')[k] <= ClientLoad(attempt)[k]
      /\ \A k \in ProxyKeys : ProxyLoad(attempt')[k] <= ProxyLoad(attempt)[k]
      /\ ProxyLoad(attempt')[proxy] < ProxyLoad(attempt)[proxy]
  BY <1>4, <1>6, <1>8, LoadFalls
<1>10. Side(clients', Keys, Burst, Refill, ClientLoad(attempt'), clock')
  BY <1>1, <1>3, <1>9, Budgets, Loads, SideLater DEF IInv
<1>11. Side(proxies', ProxyKeys, ProxyBurst, ProxyRefill, ProxyLoad(attempt'), clock')
  <2>1. Side(charge.buckets, ProxyKeys, ProxyBurst, ProxyRefill, ProxyLoad(attempt'), clock)
    BY <1>2, <1>3, <1>4, <1>9, Budgets, Loads, SideFailed DEF IInv
  <2>2. QED
    BY <1>1, <2>1
<1>12. \A k \in DOMAIN proxies' \ {charge.key} : k \in DOMAIN proxies /\ proxies'[k] = proxies[k]
  BY <1>1, <1>4 DEF ChargeOf
<1>13. Promises'
  BY <1>1, <1>5, <1>12 DEF IInv, Promises, ClientReady, ProxyReady
<1>14. PromisesToCome'
  BY <1>1, <1>6, <1>7 DEF IInv, PromisesToCome, ClientReady
<1>15. QED
  BY <1>6, <1>10, <1>11, <1>13, <1>14 DEF IInv

LEMMA NextInv == IInv /\ [Next]_vars => IInv'
<1> SUFFICES ASSUME IInv, [Next]_vars PROVE IInv'
  OBVIOUS
<1>1. ASSUME NEW a \in Attempts, NEW request \in Requests, Submit(a, request)
      PROVE  IInv'
  BY <1>1, SubmitInv
<1>2. ASSUME NEW a \in Attempts, AllowClient(a)
      PROVE  IInv'
  BY <1>2, AllowClientInv
<1>3. ASSUME NEW a \in Attempts, AllowProxy(a)
      PROVE  IInv'
  BY <1>3, AllowProxyInv
<1>4. ASSUME NEW a \in Attempts, SignIn(a)
      PROVE  IInv'
  BY <1>4, SignInInv
<1>5. ASSUME NEW a \in Attempts, FailClient(a)
      PROVE  IInv'
  BY <1>5, FailClientInv
<1>6. ASSUME NEW a \in Attempts, FailProxy(a)
      PROVE  IInv'
  BY <1>6, FailProxyInv
<1>7. CASE Tick
  BY <1>7, TickInv
<1>8. CASE UNCHANGED vars
  BY <1>8 DEF vars, IInv, Types, Promises, PromisesToCome, ClientReady, ProxyReady
<1>9. QED
  BY <1>1, <1>2, <1>3, <1>4, <1>5, <1>6, <1>7, <1>8 DEF Next

\* The inductive invariant holds in every reachable state.
THEOREM Invariance == Spec => []IInv
<1>1. QED
  BY InitInv, NextInv, PTL DEF Spec

-----------------------------------------------------------------------------
(* The results.                                                            *)

\* No bucket holds more than its burst or is ahead of the clock, and the
\* buckets of clients and proxies never exceed their bound (throttle.go:88):
\* prune and the shared bucket keep it whatever the order of the requests.
THEOREM TypeCorrect == Spec => []TypeOK
<1>1. ASSUME NEW buckets, NEW keys, NEW burst, NEW refill, NEW load,
             clock \in Nat, burst * refill \in Nat,
             Side(buckets, keys, burst, refill, load, clock)
      PROVE  Buckets(buckets, keys, burst, refill)
  <2>1. ASSUME NEW k \in DOMAIN buckets
        PROVE  buckets[k] \in [tokens : 0 .. burst * refill, updated : 0 .. clock, failures : Nat]
    <3> DEFINE S == 0 .. burst * refill
    <3>1. buckets[k] \in [tokens : S, updated : Nat, failures : Nat] /\ buckets[k].updated <= clock
      BY <1>1 DEF Side, Throttle, Bucket
    <3> HIDE DEF S
    <3>2. buckets[k].updated \in 0 .. clock
      BY <1>1, <3>1
    <3>3. buckets[k] \in [tokens : S, updated : 0 .. clock, failures : Nat]
      BY <3>1, <3>2
    <3>4. QED
      BY <3>3 DEF S
  <2>2. QED
    BY <1>1, <2>1 DEF Side, Throttle, Buckets
<1>2. IInv => TypeOK
  <2> SUFFICES ASSUME IInv PROVE TypeOK
    OBVIOUS
  <2>1. clock \in Nat /\ Burst * Refill \in Nat /\ ProxyBurst * ProxyRefill \in Nat
    BY ClockNat, Budgets, Product DEF IInv
  <2>2. /\ Buckets(clients, Keys, Burst, Refill)
        /\ Buckets(proxies, ProxyKeys, ProxyBurst, ProxyRefill)
    BY <1>1, <2>1 DEF IInv
  <2>3. clock \in 0 .. MaxTime /\ \A a \in Attempts : attempt[a].now <= clock
    BY DEF IInv, Types
  <2>4. QED
    BY <2>2, <2>3 DEF TypeOK
<1>3. QED
  BY <1>2, Invariance, PTL

\* A bucket is charged no more failures than its burst and, for each refill
\* that has passed, one from each request that can be under way.
THEOREM BudgetHolds == Spec => []FailuresBounded
<1>1. ASSUME NEW burst \in Nat \ {0}, NEW refill \in Nat \ {0}, NEW keys, NEW buckets,
             NEW load \in [keys -> 0 .. Together], clock \in Nat, Together > 0,
             Side(buckets, keys, burst, refill, load, clock)
      PROVE  Bounded(buckets, burst, refill)
  <2> SUFFICES ASSUME NEW k \in DOMAIN buckets \ {Overflow}
               PROVE  buckets[k].failures <= burst + Together * (1 + clock \div refill) - 1
    BY DEF Bounded, Together
  <2>1. /\ buckets[k] \in Bucket(burst, refill) /\ k \in keys
        /\ buckets[k].updated <= clock
        /\ WithinBudget(buckets[k], load[k], burst, refill)
    BY <1>1 DEF Side, Throttle
  <2>2. load[k] \in Nat
    BY <2>1, TogetherType
  <2>3. QED
    BY <1>1, <2>1, <2>2, BudgetBound
<1>2. Together > 0
  BY RequestAssumption, FS_EmptySet, TogetherType DEF Together
<1>3. IInv => FailuresBounded
  <2> SUFFICES ASSUME IInv PROVE FailuresBounded
    OBVIOUS
  <2>1. clock \in Nat
    BY ClockNat DEF IInv
  <2>2. QED
    BY <1>1, <1>2, <2>1, Budgets, Loads DEF IInv, FailuresBounded
<1>4. QED
  BY <1>3, Invariance, PTL

\* The waits that allow would find now.
LEMMA NoWait ==
  ASSUME NEW burst \in Nat \ {0}, NEW refill \in Nat \ {0}, NEW keys, Overflow \in keys,
         NEW buckets, Throttle(buckets, keys, burst, refill), NEW key \in keys,
         NEW now \in Nat, Room(buckets, key, now, burst, refill).key # Overflow,
         key \in DOMAIN buckets => Refilled(buckets[key], now, burst, refill).tokens >= refill
  PROVE  Allowed(buckets, key, now, burst, refill).wait = 0
<1> DEFINE room == Room(buckets, key, now, burst, refill)
           bucket == Refilled(room.kept[room.key], now, burst, refill)
<1>1. RoomOf(room, key, buckets, keys, burst, refill)
  BY RoomKeeps
<1>2. CASE room.key \notin DOMAIN room.kept
  BY <1>2 DEF Allowed
<1>3. CASE room.key \in DOMAIN room.kept
  <2>1. Allowed(buckets, key, now, burst, refill).wait
          = IF bucket.tokens >= refill THEN 0 ELSE refill - bucket.tokens
    BY <1>3 DEF Allowed
  <2>2. room.key # Overflow
    OBVIOUS
  <2> HIDE DEF room
  <2>3. room.key = key /\ key \in DOMAIN buckets /\ room.kept[room.key] = buckets[key]
    BY <1>1, <1>3, <2>2 DEF RoomOf
  <2>4. bucket.tokens >= refill
    BY <2>3
  <2> HIDE DEF bucket
  <2>5. QED
    BY <2>1, <2>4
<1>4. QED
  BY <1>2, <1>3

LEMMA WaitUsedUp ==
  ASSUME NEW burst \in Nat \ {0}, NEW refill \in Nat \ {0}, NEW keys, Overflow \in keys,
         NEW buckets, NEW load, NEW now \in Nat, Side(buckets, keys, burst, refill, load, now),
         NEW key \in keys, Allowed(buckets, key, now, burst, refill).wait # 0
  PROVE  UsedUp(buckets, key, burst)
<1> DEFINE room == Room(buckets, key, now, burst, refill)
           old == buckets[room.key]
           bucket == Refilled(room.kept[room.key], now, burst, refill)
<1>1. RoomOf(room, key, buckets, keys, burst, refill)
  BY RoomKeeps DEF Side
<1>2. room.key \in DOMAIN room.kept
  BY DEF Allowed
<1>3. Allowed(buckets, key, now, burst, refill).wait
        = IF bucket.tokens >= refill THEN 0 ELSE refill - bucket.tokens
  BY <1>2 DEF Allowed
<1>4. ~(bucket.tokens >= refill)
  BY <1>3
<1> HIDE DEF room
<1>5. /\ room.key \in {key, Overflow} \cap DOMAIN buckets
      /\ bucket = Refilled(old, now, burst, refill)
  BY <1>1, <1>2 DEF RoomOf
<1>6. old \in Bucket(burst, refill) /\ Earned(old, burst, refill)
  BY <1>5 DEF Side, Throttle
<1> HIDE DEF bucket, old
<1>7. /\ bucket \in Bucket(burst, refill) /\ bucket.failures = old.failures
      /\ Earned(bucket, burst, refill)
  <2>1. /\ Refilled(old, now, burst, refill) \in Bucket(burst, refill)
        /\ Refilled(old, now, burst, refill).failures = old.failures
        /\ Earned(Refilled(old, now, burst, refill), burst, refill)
    BY <1>6, RefilledIs, RefillEarned
  <2>2. QED
    BY <1>5, <2>1
<1>8. bucket.tokens \in Nat
  BY <1>7, Product DEF Bucket
<1>9. bucket.failures >= burst
  BY <1>4, <1>7, <1>8, EmptyUsedUp
<1>10. QED
  BY <1>5, <1>7, <1>9 DEF UsedUp, old

\* A client that waits until the time of Retry-After is let in: what is in a
\* bucket when it refuses and the time that it names make a whole token, and
\* only a failure charged to it takes that away (auth.go:201, throttle.go:55).
THEOREM RetryAfterHolds == Spec => []RetryAfterSuffices
<1>1. IInv => RetryAfterSuffices
  <2> SUFFICES ASSUME IInv, NEW r \in Requests,
                      retryAt[r] # None, retryAt[r] <= clock,
                      Room(clients, LoginClient(r).client, clock, Burst, Refill).key # Overflow,
                      LoginClient(r).proxy # None =>
                        Room(proxies, LoginClient(r).proxy, clock, ProxyBurst, ProxyRefill).key
                          # Overflow
               PROVE  Wait(r) = 0
    BY DEF RetryAfterSuffices
  <2> DEFINE client == LoginClient(r).client
             proxy == LoginClient(r).proxy
             own == Allowed(clients, client, clock, Burst, Refill).wait
             other == Allowed(proxies, proxy, clock, ProxyBurst, ProxyRefill).wait
  <2>1. /\ client \in Keys /\ (proxy # None => proxy \in ProxyKeys)
        /\ clock \in Nat /\ retryAt[r] \in Nat
    BY Origins, Budgets, ClockNat DEF IInv, Types
  <2>2. own = 0
    <3>1. Throttle(clients, Keys, Burst, Refill)
      BY DEF IInv, Side
    <3>2. ASSUME client \in DOMAIN clients
          PROVE  Refilled(clients[client], clock, Burst, Refill).tokens >= Refill
      <4>1. clients[client] \in Bucket(Burst, Refill) /\ clients[client].updated <= clock
        BY <3>2 DEF IInv, Side, Throttle
      <4>2. Ready(clients[client], retryAt[r], Refill)
        BY <3>2 DEF IInv, Promises, ClientReady
      <4>3. QED
        BY <2>1, <4>1, <4>2, Budgets, ReadyNow
    <3>3. QED
      BY <2>1, <3>1, <3>2, Budgets, NoWait
  <2>3. ASSUME proxy # None
        PROVE  other = 0
    <3>1. Throttle(proxies, ProxyKeys, ProxyBurst, ProxyRefill)
      BY DEF IInv, Side
    <3>2. ASSUME proxy \in DOMAIN proxies
          PROVE  Refilled(proxies[proxy], clock, ProxyBurst, ProxyRefill).tokens >= ProxyRefill
      <4>1. proxies[proxy] \in Bucket(ProxyBurst, ProxyRefill) /\ proxies[proxy].updated <= clock
        BY <3>2 DEF IInv, Side, Throttle
      <4>2. Ready(proxies[proxy], retryAt[r], ProxyRefill)
        BY <2>3, <3>2 DEF IInv, Promises, ProxyReady
      <4>3. QED
        BY <2>1, <4>1, <4>2, Budgets, ReadyNow
    <3>3. QED
      BY <2>1, <2>3, <3>1, <3>2, Budgets, NoWait
  <2>4. Wait(r) = IF proxy = None THEN own ELSE Max({own, other})
    BY DEF Wait
  <2> HIDE DEF own, other
  <2>5. QED
    BY <2>2, <2>3, <2>4, MaxPair
<1>2. QED
  BY <1>1, Invariance, PTL

\* Nobody is refused unless a whole burst of failures was charged to a bucket
\* of its own, of its proxy, or to the shared one (throttle.go:14).
THEOREM OnlyFailures == Spec => []OnlyFailuresThrottle
<1>1. IInv => OnlyFailuresThrottle
  <2> SUFFICES ASSUME IInv, NEW r \in Requests, Wait(r) > 0
               PROVE  \/ UsedUp(clients, LoginClient(r).client, Burst)
                      \/ /\ LoginClient(r).proxy # None
                         /\ UsedUp(proxies, LoginClient(r).proxy, ProxyBurst)
    BY DEF OnlyFailuresThrottle
  <2> DEFINE client == LoginClient(r).client
             proxy == LoginClient(r).proxy
             own == Allowed(clients, client, clock, Burst, Refill).wait
             other == Allowed(proxies, proxy, clock, ProxyBurst, ProxyRefill).wait
  <2>1. client \in Keys /\ (proxy # None => proxy \in ProxyKeys) /\ clock \in Nat
    BY Origins, Budgets, ClockNat DEF IInv, Types
  <2>2. own # 0 \/ (proxy # None /\ other # 0)
    <3>1. Wait(r) = IF proxy = None THEN own ELSE Max({own, other})
      BY DEF Wait
    <3> HIDE DEF own, other
    <3>2. own = 0 /\ other = 0 => Max({own, other}) = 0
      BY MaxPair
    <3>3. QED
      BY <3>1, <3>2
  <2>3. CASE own # 0
    BY <2>1, <2>3, Budgets, WaitUsedUp DEF IInv
  <2>4. CASE proxy # None /\ other # 0
    BY <2>1, <2>4, Budgets, WaitUsedUp DEF IInv
  <2>5. QED
    BY <2>2, <2>3, <2>4
<1>2. QED
  BY <1>1, Invariance, PTL

\* The balances of two tables whose buckets are not ahead of the clock.
LEMMA SidePast ==
  ASSUME NEW buckets, NEW keys, NEW burst, NEW refill, NEW load, NEW t,
         Side(buckets, keys, burst, refill, load, t)
  PROVE  Throttle(buckets, keys, burst, refill) /\ Past(buckets, t)
BY DEF Side, Past

\* Only failed sign-ins take from a balance, from that of their own client and
\* proxy; requests that look at a bucket late, in any order, and the buckets
\* that are dropped meanwhile change none (throttle.go:77, 97), but for who
\* comes to share the overflow bucket; and nothing but time gives back.
THEOREM OnlyFailuresTake == Spec => OnlyFailuresCharge
<1> DEFINE Clean(c) ==
             \/ ClientBalance(c)' = ClientBalance(c)
             \/ /\ ClientBalance(c)' < ClientBalance(c)
                /\ \/ \E a \in Attempts : attempt[a].client = c /\ FailClient(a)
                   \/ Shares(clients, c, clock, Burst, Refill)'
           CleanProxy(p) ==
             \/ ProxyBalance(p)' = ProxyBalance(p)
             \/ /\ ProxyBalance(p)' < ProxyBalance(p)
                /\ \/ \E a \in Attempts : attempt[a].proxy = p /\ FailProxy(a)
                   \/ Shares(proxies, p, clock, ProxyBurst, ProxyRefill)'
           Step == (\A c \in Clients : Clean(c)) /\ (\A p \in Trusted : CleanProxy(p))
<1>1. ASSUME clients' = clients, clock' = clock, NEW c \in Clients
      PROVE  Clean(c)
  BY <1>1 DEF ClientBalance, Balance
<1>2. ASSUME proxies' = proxies, clock' = clock, NEW p \in Trusted
      PROVE  CleanProxy(p)
  BY <1>2 DEF ProxyBalance, Balance
<1>3. ASSUME IInv
      PROVE  /\ clock \in Nat
             /\ Throttle(clients, Keys, Burst, Refill) /\ Past(clients, clock)
             /\ Throttle(proxies, ProxyKeys, ProxyBurst, ProxyRefill) /\ Past(proxies, clock)
  BY <1>3, ClockNat, SidePast DEF IInv
<1>4. ASSUME IInv, NEW a \in Attempts
      PROVE  /\ attempt[a].now \in Nat /\ attempt[a].now <= clock
             /\ attempt[a].at # "idle" => attempt[a].client \in Clients
             /\ attempt[a].at \in {"allow proxy", "fail proxy"} => attempt[a].proxy \in Trusted
  BY <1>4 DEF IInv, Types, Attempt, HasOrigin
<1>5. ASSUME IInv, NEW a \in Attempts, AllowClient(a)
      PROVE  Step
  <2> DEFINE after == Allowed(clients, attempt[a].client, attempt[a].now, Burst, Refill).buckets
  <2>1. clients' = after /\ clock' = clock /\ proxies' = proxies /\ attempt[a].at # "idle"
    BY <1>5 DEF AllowClient
  <2>2. /\ Throttle(after, Keys, Burst, Refill) /\ Past(after, clock)
        /\ OnlyLowers(clients, after, Overflow, Keys, clock, Burst, Refill)
    BY <2>1, <1>3, <1>4, <1>5, Budgets, AllowedLowers
  <2> HIDE DEF after
  <2>3. ASSUME NEW c \in Clients
        PROVE  Clean(c)
    <3>1. c \in Keys \ {Overflow}
      BY Budgets
    <3>2. \/ Balance(after, c, clock, Burst, Refill) = Balance(clients, c, clock, Burst, Refill)
          \/ /\ Balance(after, c, clock, Burst, Refill) < Balance(clients, c, clock, Burst, Refill)
             /\ c = Overflow \/ Shares(after, c, clock, Burst, Refill)
      BY <3>1, <2>2, <1>3, <1>5, Budgets, BalanceLowered
    <3>3. QED
      BY <3>1, <3>2, <2>1 DEF ClientBalance
  <2>4. QED
    BY <2>1, <2>3, <1>2
<1>6. ASSUME IInv, NEW a \in Attempts, AllowProxy(a)
      PROVE  Step
  <2> DEFINE after == Allowed(proxies, attempt[a].proxy, attempt[a].now, ProxyBurst, ProxyRefill).buckets
  <2>1. proxies' = after /\ clock' = clock /\ clients' = clients /\ attempt[a].at = "allow proxy"
    BY <1>6 DEF AllowProxy
  <2>2. /\ Throttle(after, ProxyKeys, ProxyBurst, ProxyRefill) /\ Past(after, clock)
        /\ OnlyLowers(proxies, after, Overflow, ProxyKeys, clock, ProxyBurst, ProxyRefill)
    BY <2>1, <1>3, <1>4, <1>6, Budgets, AllowedLowers
  <2> HIDE DEF after
  <2>3. ASSUME NEW p \in Trusted
        PROVE  CleanProxy(p)
    <3>1. p \in ProxyKeys \ {Overflow}
      BY Budgets
    <3>2. \/ Balance(after, p, clock, ProxyBurst, ProxyRefill)
               = Balance(proxies, p, clock, ProxyBurst, ProxyRefill)
          \/ /\ Balance(after, p, clock, ProxyBurst, ProxyRefill)
                  < Balance(proxies, p, clock, ProxyBurst, ProxyRefill)
             /\ p = Overflow \/ Shares(after, p, clock, ProxyBurst, ProxyRefill)
      BY <3>1, <2>2, <1>3, <1>6, Budgets, BalanceLowered
    <3>3. QED
      BY <3>1, <3>2, <2>1 DEF ProxyBalance
  <2>4. QED
    BY <2>1, <2>3, <1>1
<1>7. ASSUME IInv, NEW a \in Attempts, FailClient(a)
      PROVE  Step
  <2> DEFINE charge == Failed(clients, attempt[a].client, attempt[a].now, Burst, Refill)
             after == charge.buckets
  <2>1. clients' = after /\ clock' = clock /\ proxies' = proxies /\ attempt[a].at # "idle"
    BY <1>7 DEF FailClient
  <2>2. /\ Throttle(after, Keys, Burst, Refill) /\ Past(after, clock)
        /\ charge.key \in {attempt[a].client, Overflow} /\ charge.key \in Keys
        /\ OnlyLowers(clients, after, charge.key, Keys, clock, Burst, Refill)
    <3>1. attempt[a].client \in Keys /\ Overflow \in Keys
      BY <2>1, <1>4, <1>7, Budgets
    <3>2. /\ Throttle(after, Keys, Burst, Refill) /\ Past(after, clock)
          /\ charge.key \in {attempt[a].client, Overflow}
          /\ OnlyLowers(clients, after, charge.key, Keys, clock, Burst, Refill)
      BY <3>1, <1>3, <1>4, <1>7, Budgets, FailedLowers
    <3> HIDE DEF charge
    <3>3. QED
      BY <3>1, <3>2
  <2> HIDE DEF charge
  <2>3. ASSUME NEW c \in Clients
        PROVE  Clean(c)
    <3>1. c \in Keys \ {Overflow}
      BY Budgets
    <3> HIDE DEF after
    <3>2. \/ Balance(after, c, clock, Burst, Refill) = Balance(clients, c, clock, Burst, Refill)
          \/ /\ Balance(after, c, clock, Burst, Refill) < Balance(clients, c, clock, Burst, Refill)
             /\ c = charge.key \/ Shares(after, c, clock, Burst, Refill)
      BY <3>1, <2>2, <1>3, <1>7, Budgets, BalanceLowered
    <3>3. c = charge.key => attempt[a].client = c
      BY <3>1, <2>2
    <3>4. QED
      BY <3>2, <3>3, <2>1, <1>7 DEF ClientBalance
  <2>4. QED
    BY <2>1, <2>3, <1>2
<1>8. ASSUME IInv, NEW a \in Attempts, FailProxy(a)
      PROVE  Step
  <2> DEFINE charge == Failed(proxies, attempt[a].proxy, attempt[a].now, ProxyBurst, ProxyRefill)
             after == charge.buckets
  <2>1. proxies' = after /\ clock' = clock /\ clients' = clients /\ attempt[a].at = "fail proxy"
    BY <1>8 DEF FailProxy
  <2>2. /\ Throttle(after, ProxyKeys, ProxyBurst, ProxyRefill) /\ Past(after, clock)
        /\ charge.key \in {attempt[a].proxy, Overflow} /\ charge.key \in ProxyKeys
        /\ OnlyLowers(proxies, after, charge.key, ProxyKeys, clock, ProxyBurst, ProxyRefill)
    <3>1. attempt[a].proxy \in ProxyKeys /\ Overflow \in ProxyKeys
      BY <2>1, <1>4, <1>8, Budgets
    <3>2. /\ Throttle(after, ProxyKeys, ProxyBurst, ProxyRefill) /\ Past(after, clock)
          /\ charge.key \in {attempt[a].proxy, Overflow}
          /\ OnlyLowers(proxies, after, charge.key, ProxyKeys, clock, ProxyBurst, ProxyRefill)
      BY <3>1, <1>3, <1>4, <1>8, Budgets, FailedLowers
    <3> HIDE DEF charge
    <3>3. QED
      BY <3>1, <3>2
  <2> HIDE DEF charge
  <2>3. ASSUME NEW p \in Trusted
        PROVE  CleanProxy(p)
    <3>1. p \in ProxyKeys \ {Overflow}
      BY Budgets
    <3> HIDE DEF after
    <3>2. \/ Balance(after, p, clock, ProxyBurst, ProxyRefill)
               = Balance(proxies, p, clock, ProxyBurst, ProxyRefill)
          \/ /\ Balance(after, p, clock, ProxyBurst, ProxyRefill)
                  < Balance(proxies, p, clock, ProxyBurst, ProxyRefill)
             /\ p = charge.key \/ Shares(after, p, clock, ProxyBurst, ProxyRefill)
      BY <3>1, <2>2, <1>3, <1>8, Budgets, BalanceLowered
    <3>3. p = charge.key => attempt[a].proxy = p
      BY <3>1, <2>2
    <3>4. QED
      BY <3>2, <3>3, <2>1, <1>8 DEF ProxyBalance
  <2>4. QED
    BY <2>1, <2>3, <1>1
<1>9. IInv /\ [Next]_vars => [Step]_<<clients, proxies>>
  <2> SUFFICES ASSUME IInv, [Next]_vars, <<clients, proxies>>' # <<clients, proxies>>
               PROVE  Step
    OBVIOUS
  <2> HIDE DEF Step
  <2>1. ASSUME NEW a \in Attempts, NEW r \in Requests, Submit(a, r)
        PROVE  FALSE
    BY <2>1 DEF Submit
  <2>2. ASSUME NEW a \in Attempts, SignIn(a)
        PROVE  FALSE
    BY <2>2 DEF SignIn
  <2>3. CASE Tick
    BY <2>3 DEF Tick
  <2>4. CASE UNCHANGED vars
    BY <2>4 DEF vars
  <2>5. QED
    BY <2>1, <2>2, <2>3, <2>4, <1>5, <1>6, <1>7, <1>8 DEF Next
<1>10. QED
  BY <1>9, Invariance, PTL DEF Spec, OnlyFailuresCharge
=============================================================================
