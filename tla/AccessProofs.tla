---------------------------- MODULE AccessProofs -----------------------------
(***************************************************************************)
(* Proofs about the parts of Access: the token buckets of RateLimiter, the *)
(* users and sessions of Sessions and the one-time codes of AdminAccess,   *)
(* each from a specification of its own which Access implements, and the   *)
(* lists of Browsing, from the specification of the composition.           *)
(***************************************************************************)
EXTENDS Access, SequenceTheorems, FiniteSetTheorems, TLAPS

-----------------------------------------------------------------------------
(* RateLimiter: every rate, length of a minute, set of keys and end of the *)
(* clock.                                                                  *)

\* The whole tokens that t units of time bring.
Worth(t) == (t * Rate) \div Minute

-----------------------------------------------------------------------------
(* Truncated division.                                                     *)

\* What \div computes.
LEMMA Quotient == ASSUME NEW n \in Nat, NEW m \in Nat \ {0}
  PROVE n \div m \in Nat /\ (n \div m) * m <= n /\ n < (n \div m) * m + m
  OBVIOUS

\* The quotient is the largest number whose product fits...
LEMMA QuotientLargest ==
  ASSUME NEW n \in Nat, NEW m \in Nat \ {0}, NEW q \in Int, q * m <= n
  PROVE q <= n \div m
<1> DEFINE d == n \div m
<1>1. d \in Nat /\ n < d * m + m
  BY Quotient
<1> HIDE DEF d
<1>2. CASE q >= d + 1
  <2>1. q * m >= (d + 1) * m
    BY <1>1, <1>2
  <2> QED
    BY <2>1, <1>1
<1> QED
  BY <1>1, <1>2 DEF d

\* ... and is below every number whose product does not.
LEMMA QuotientBelow ==
  ASSUME NEW n \in Nat, NEW m \in Nat \ {0}, NEW q \in Int, n < q * m
  PROVE n \div m < q
<1> DEFINE d == n \div m
<1>1. d \in Nat /\ d * m <= n
  BY Quotient
<1> HIDE DEF d
<1>2. CASE d >= q
  <2>1. d * m >= q * m
    BY <1>1, <1>2
  <2> QED
    BY <2>1, <1>1
<1> QED
  BY <1>1, <1>2 DEF d

LEMMA WorthNat == ASSUME NEW t \in Nat PROVE Worth(t) \in Nat
<1>1. t * Rate \in Nat
  BY RateAssumption
<1> QED
  BY <1>1, RateAssumption, Quotient DEF Worth

LEMMA WorthZero == Worth(0) = 0
<1>1. 0 * Rate = 0
  BY RateAssumption
<1> QED
  BY <1>1, RateAssumption, Quotient DEF Worth

\* What two stretches bring apart, they bring together: truncation never pays twice.
LEMMA WorthSum == ASSUME NEW a \in Nat, NEW b \in Nat
  PROVE Worth(a) + Worth(b) <= Worth(a + b)
<1> DEFINE p == Worth(a)
           q == Worth(b)
<1>1. p \in Nat /\ q \in Nat /\ a * Rate \in Nat /\ b * Rate \in Nat /\ (a + b) * Rate \in Nat
  BY WorthNat, RateAssumption
<1>2. p * Minute <= a * Rate /\ q * Minute <= b * Rate
  BY <1>1, Quotient, RateAssumption DEF Worth
<1> HIDE DEF p, q
<1>3. (p + q) * Minute <= (a + b) * Rate
  <2>1. (p + q) * Minute = p * Minute + q * Minute /\ (a + b) * Rate = a * Rate + b * Rate
    BY <1>1, RateAssumption
  <2>2. p * Minute \in Nat /\ q * Minute \in Nat
    BY <1>1, RateAssumption
  <2> QED
    BY <1>1, <1>2, <2>1, <2>2
<1>4. p + q <= Worth(a + b)
  BY <1>1, <1>3, RateAssumption, QuotientLargest DEF Worth
<1> QED
  BY <1>4 DEF p, q

\* A stretch too short for a token adds at most one to another.
LEMMA WorthStep == ASSUME NEW a \in Nat, NEW b \in Nat, b * Rate < Minute
  PROVE Worth(a + b) <= Worth(a) + 1
<1> DEFINE p == Worth(a)
<1>1. p \in Nat /\ a * Rate \in Nat /\ b * Rate \in Nat /\ (a + b) * Rate \in Nat
  BY WorthNat, RateAssumption
<1>2. a * Rate < p * Minute + Minute
  BY <1>1, Quotient, RateAssumption DEF Worth
<1> HIDE DEF p
<1>3. (a + b) * Rate < (p + 2) * Minute
  <2>1. (p + 2) * Minute = p * Minute + Minute + Minute /\ (a + b) * Rate = a * Rate + b * Rate
    BY <1>1, RateAssumption
  <2>2. p * Minute \in Nat
    BY <1>1, RateAssumption
  <2> QED
    BY <1>1, <1>2, <2>1, <2>2, RateAssumption
<1>4. Worth(a + b) < p + 2
  BY <1>1, <1>3, RateAssumption, QuotientBelow DEF Worth
<1> QED
  BY <1>1, <1>4, WorthNat DEF p

\* A stretch that brings no token is shorter than one.
LEMMA WorthNone == ASSUME NEW t \in Nat, Worth(t) = 0 PROVE t * Rate < Minute
<1>1. t * Rate \in Nat
  BY RateAssumption
<1> QED
  BY <1>1, RateAssumption, Quotient DEF Worth

-----------------------------------------------------------------------------
(* The inductive invariant.                                                *)

\* What a bucket says of the calls allowed since each time s.  Until its clock
\* was last set, the tokens that are left and the calls since s were all paid
\* for by a full bucket and the time in between.  After it, a call allowed has
\* left a token less than a full bucket, and the time up to s was too short for
\* a token: the fraction that truncation kept back is still to come.
Explained(k) ==
  LET b == buckets[k]
  IN /\ b \in Bucket /\ b.tokens < Rate /\ b.lastFill <= now
     /\ \A s \in 0 .. b.lastFill : since[k][s] + b.tokens <= Rate + Worth(b.lastFill - s)
     /\ \A s \in (b.lastFill + 1) .. MaxTime :
          \/ since[k][s] = 0
          \/ since[k][s] + b.tokens < Rate /\ (s - b.lastFill) * Rate < Minute

LimiterInv ==
  /\ now \in 0 .. MaxTime
  /\ DOMAIN buckets \subseteq Key
  /\ since \in [Key -> [0 .. MaxTime -> Nat]]
  /\ \A k \in Key : \A s \in 0 .. MaxTime :
       k \notin DOMAIN buckets \/ now < s => since[k][s] = 0
  /\ \A k \in DOMAIN buckets : Explained(k)

\* The bucket allow looks at, whichever branch it takes.
LEMMA CurrentBucket ==
  ASSUME LimiterInv, NEW k \in Key
  PROVE \/ /\ k \notin DOMAIN buckets
           /\ Current(k) = [tokens |-> Rate, lastFill |-> now]
        \/ /\ k \in DOMAIN buckets /\ Worth(now - buckets[k].lastFill) = 0
           /\ Current(k) = buckets[k]
        \/ /\ k \in DOMAIN buckets /\ Worth(now - buckets[k].lastFill) > 0
           /\ Current(k) = [tokens |-> Least(buckets[k].tokens
                                            + Worth(now - buckets[k].lastFill), Rate),
                            lastFill |-> now]
<1> USE RateAssumption, ClockAssumption
<1>1. CASE k \notin DOMAIN buckets
  <2> DEFINE b == [tokens |-> Rate, lastFill |-> now]
  <2>1. now - b.lastFill = 0
    BY DEF LimiterInv
  <2>2. AddBack(b) = 0
    BY <2>1, WorthZero DEF AddBack, Worth
  <2> QED
    BY <1>1, <2>2 DEF Current, Refilled
<1>2. CASE k \in DOMAIN buckets
  <2> DEFINE b == buckets[k]
  <2>1. b \in Bucket /\ now - b.lastFill \in Nat
    BY <1>2 DEF LimiterInv, Explained, Bucket
  <2>2. AddBack(b) = Worth(now - b.lastFill) /\ Worth(now - b.lastFill) \in Nat
    BY <2>1, WorthNat DEF AddBack, Worth
  <2> QED
    BY <1>2, <2>2 DEF Current, Refilled
<1> QED
  BY <1>1, <1>2

LEMMA LimiterInitInv == ClockInit /\ LimiterInit => LimiterInv
BY ClockAssumption DEF ClockInit, LimiterInit, LimiterInv

\* Time passing explains whatever was explained before.
LEMMA TickInv == LimiterInv /\ Tick /\ UNCHANGED limiterVars => LimiterInv'
<1> SUFFICES ASSUME LimiterInv, Tick, UNCHANGED limiterVars PROVE LimiterInv'
  OBVIOUS
<1> USE ClockAssumption, RateAssumption DEF limiterVars
<1>1. now' \in 0 .. MaxTime /\ now \in 0 .. MaxTime /\ now < now'
  BY DEF LimiterInv, Tick
<1>2. ASSUME NEW k \in DOMAIN buckets'
      PROVE  Explained(k)'
  <2>1. Explained(k) /\ buckets[k].lastFill \in 0 .. MaxTime
    BY <1>2 DEF LimiterInv, Explained, Bucket
  <2>2. buckets[k].lastFill <= now'
    BY <1>1, <2>1 DEF Explained
  <2>3. UNCHANGED <<buckets, since>>
    OBVIOUS
  <2> HIDE DEF limiterVars
  <2> QED
    BY <2>1, <2>2, <2>3 DEF Explained, Worth
<1> QED
  BY <1>1, <1>2 DEF LimiterInv

\* A call that is refused has found its bucket empty and no token come.
LEMMA DenyInv ==
  ASSUME LimiterInv, NEW k \in Key, Deny(k), UNCHANGED now
  PROVE LimiterInv'
<1> USE RateAssumption, ClockAssumption
<1>1. k \in DOMAIN buckets /\ Current(k) = buckets[k]
  <2>1. CASE k \notin DOMAIN buckets
    BY <2>1, CurrentBucket DEF Deny
  <2>2. CASE k \in DOMAIN buckets /\ Worth(now - buckets[k].lastFill) > 0
    <3>1. buckets[k].tokens \in Nat /\ Worth(now - buckets[k].lastFill) \in Nat
      BY <2>2, WorthNat DEF LimiterInv, Explained, Bucket
    <3>2. Least(buckets[k].tokens + Worth(now - buckets[k].lastFill), Rate) \in Nat \ {0}
      BY <2>2, <3>1 DEF Least
    <3>3. Current(k).tokens = Least(buckets[k].tokens + Worth(now - buckets[k].lastFill), Rate)
      BY <2>2, CurrentBucket
    <3>4. Current(k).tokens <= 0
      BY DEF Deny
    <3> QED
      BY <3>2, <3>3, <3>4
  <2> QED
    BY <2>1, <2>2, CurrentBucket
<1>2. DOMAIN buckets' = DOMAIN buckets /\ \A j \in DOMAIN buckets : buckets'[j] = buckets[j]
  BY <1>1 DEF Deny, SetBucket
<1>3. \A j \in DOMAIN buckets' : Explained(j)'
  BY <1>2 DEF Deny, LimiterInv, Explained, Worth
<1> QED
  BY <1>2, <1>3 DEF Deny, LimiterInv

\* A call that is allowed is paid for: by a new bucket, by a token that was left,
\* or out of what the time since the bucket's clock was set has brought.
LEMMA AllowInv ==
  ASSUME LimiterInv, NEW k \in Key, Allow(k), UNCHANGED now
  PROVE LimiterInv'
<1> USE RateAssumption, ClockAssumption
<1> DEFINE c == Current(k)
<1>1. now \in 0 .. MaxTime /\ now' = now /\ c.tokens > 0
  BY DEF LimiterInv, Allow
<1>2. /\ DOMAIN buckets' = DOMAIN buckets \cup {k}
      /\ buckets'[k] = [c EXCEPT !.tokens = @ - 1]
      /\ \A j \in DOMAIN buckets : j # k => buckets'[j] = buckets[j]
  BY DEF Allow, SetBucket
<1>3. /\ since' \in [Key -> [0 .. MaxTime -> Nat]]
      /\ \A s \in 0 .. MaxTime :
           since'[k][s] = IF s <= now THEN since[k][s] + 1 ELSE since[k][s]
      /\ \A j \in Key : j # k => since'[j] = since[j]
  BY <1>1 DEF Allow, LimiterInv
<1>4. \A s \in 0 .. MaxTime : since[k][s] \in Nat
  BY DEF LimiterInv
<1>5. \A j \in DOMAIN buckets' : j # k => Explained(j)'
  BY <1>1, <1>2, <1>3 DEF LimiterInv, Explained, Worth
<1>6. Explained(k)'
  <2>1. CASE k \notin DOMAIN buckets /\ c = [tokens |-> Rate, lastFill |-> now]
    <3>1. buckets'[k] = [tokens |-> Rate - 1, lastFill |-> now]
      BY <1>2, <2>1
    <3>2. \A s \in 0 .. now : since'[k][s] = 1 /\ Worth(now - s) \in Nat
      <4> SUFFICES ASSUME NEW s \in 0 .. now
                   PROVE since'[k][s] = 1 /\ Worth(now - s) \in Nat
        OBVIOUS
      <4>1. s \in 0 .. MaxTime /\ s <= now /\ now - s \in Nat
        BY <1>1
      <4>2. since[k][s] = 0
        BY <2>1, <4>1 DEF LimiterInv
      <4>3. since'[k][s] = 1
        BY <1>3, <4>1, <4>2
      <4> QED
        BY <4>1, <4>3, WorthNat
    <3>3. \A s \in (now + 1) .. MaxTime : since'[k][s] = 0
      BY <1>1, <1>3, <2>1 DEF LimiterInv
    <3> QED
      BY <1>1, <3>1, <3>2, <3>3 DEF Explained, Bucket, Worth
  <2>2. CASE k \in DOMAIN buckets /\ Worth(now - buckets[k].lastFill) = 0 /\ c = buckets[k]
    <3> DEFINE b == buckets[k]
    <3>1. b \in Bucket /\ b.tokens < Rate /\ b.lastFill <= now
      BY <2>2 DEF LimiterInv, Explained
    <3>2. buckets'[k] = [tokens |-> b.tokens - 1, lastFill |-> b.lastFill]
      BY <1>2, <2>2, <3>1 DEF Bucket
    <3>3. \A s \in 0 .. b.lastFill :
            since'[k][s] + (b.tokens - 1) <= Rate + Worth(b.lastFill - s)
      <4> SUFFICES ASSUME NEW s \in 0 .. b.lastFill
                   PROVE since'[k][s] + (b.tokens - 1) <= Rate + Worth(b.lastFill - s)
        OBVIOUS
      <4>1. since[k][s] + b.tokens <= Rate + Worth(b.lastFill - s)
        BY <2>2 DEF LimiterInv, Explained
      <4>2. since'[k][s] = since[k][s] + 1 /\ since[k][s] \in Nat
        BY <1>1, <1>3, <1>4, <3>1 DEF Bucket
      <4>3. Worth(b.lastFill - s) \in Nat
        BY <3>1, WorthNat DEF Bucket
      <4> QED
        BY <3>1, <4>1, <4>2, <4>3 DEF Bucket
    <3>4. \A s \in (b.lastFill + 1) .. MaxTime :
            \/ since'[k][s] = 0
            \/ since'[k][s] + (b.tokens - 1) < Rate /\ (s - b.lastFill) * Rate < Minute
      <4> SUFFICES ASSUME NEW s \in (b.lastFill + 1) .. MaxTime
                   PROVE \/ since'[k][s] = 0
                         \/ /\ since'[k][s] + (b.tokens - 1) < Rate
                            /\ (s - b.lastFill) * Rate < Minute
        OBVIOUS
      <4>1. \/ since[k][s] = 0
            \/ since[k][s] + b.tokens < Rate /\ (s - b.lastFill) * Rate < Minute
        BY <2>2 DEF LimiterInv, Explained
      <4>2. s \in 0 .. MaxTime /\ since[k][s] \in Nat /\ b.tokens \in Nat
        BY <1>4, <3>1 DEF Bucket
      <4>3. CASE now < s
        <5>1. since[k][s] = 0
          BY <4>2, <4>3 DEF LimiterInv
        <5> QED
          BY <1>1, <1>3, <4>2, <4>3, <5>1
      <4>4. CASE s <= now
        <5>1. (now - b.lastFill) * Rate < Minute
          BY <1>1, <2>2, <3>1, WorthNone DEF Bucket
        <5>2. (s - b.lastFill) * Rate <= (now - b.lastFill) * Rate
          BY <1>1, <3>1, <4>2, <4>4 DEF Bucket
        <5>3. (s - b.lastFill) * Rate < Minute
          BY <1>1, <3>1, <4>2, <5>1, <5>2 DEF Bucket
        <5>4. since'[k][s] = since[k][s] + 1
          BY <1>1, <1>3, <4>2, <4>4
        <5> QED
          BY <3>1, <4>1, <4>2, <5>3, <5>4
      <4> QED
        BY <1>1, <4>2, <4>3, <4>4
    <3>5. buckets'[k].tokens = b.tokens - 1 /\ buckets'[k].lastFill = b.lastFill
      BY <3>2
    <3>6. buckets'[k] \in Bucket /\ b.tokens - 1 < Rate
      BY <1>1, <2>2, <3>1, <3>2 DEF Bucket
    <3> HIDE DEF b
    <3> QED
      BY <1>1, <3>1, <3>3, <3>4, <3>5, <3>6 DEF Explained, Worth
  <2> DEFINE a == Worth(now - buckets[k].lastFill)
  <2>3. CASE /\ k \in DOMAIN buckets /\ a > 0
             /\ c = [tokens |-> Least(buckets[k].tokens + a, Rate), lastFill |-> now]
    <3> DEFINE b == buckets[k]
               t == Least(b.tokens + a, Rate)
    <3>1. /\ b \in Bucket /\ b.tokens < Rate /\ b.lastFill <= now
          /\ b.lastFill \in Nat /\ now - b.lastFill \in Nat /\ b.tokens \in Nat
      BY <1>1, <2>3 DEF LimiterInv, Explained, Bucket
    <3>2. a \in Nat
      BY <3>1, WorthNat
    <3>3. t \in 1 .. Rate /\ t <= b.tokens + a
      BY <2>3, <3>1, <3>2 DEF Least
    <3>4. buckets'[k] = [tokens |-> t - 1, lastFill |-> now]
      BY <1>2, <2>3
    <3> HIDE DEF a, t
    <3>5. \A s \in 0 .. now : since'[k][s] + (t - 1) <= Rate + Worth(now - s)
      <4> SUFFICES ASSUME NEW s \in 0 .. now
                   PROVE since'[k][s] + (t - 1) <= Rate + Worth(now - s)
        OBVIOUS
      <4>1. s \in 0 .. MaxTime /\ since'[k][s] = since[k][s] + 1 /\ since[k][s] \in Nat
        BY <1>1, <1>3, <1>4
      <4>2. now - s \in Nat /\ Worth(now - s) \in Nat
        BY <1>1, WorthNat
      <4>3. CASE s <= b.lastFill
        <5>1. since[k][s] + b.tokens <= Rate + Worth(b.lastFill - s)
          BY <2>3, <3>1, <4>1, <4>3 DEF LimiterInv, Explained
        <5>2. b.lastFill - s \in Nat /\ Worth(b.lastFill - s) \in Nat
          BY <3>1, <4>1, <4>3, WorthNat
        <5>3. Worth(b.lastFill - s) + Worth(now - b.lastFill)
                <= Worth((b.lastFill - s) + (now - b.lastFill))
          BY <3>1, <5>2, WorthSum
        <5>4. (b.lastFill - s) + (now - b.lastFill) = now - s
          BY <1>1, <3>1, <4>1
        <5>5. Worth(b.lastFill - s) + a <= Worth(now - s)
          BY <5>3, <5>4 DEF a
        <5> QED
          BY <3>1, <3>2, <3>3, <4>1, <4>2, <5>1, <5>2, <5>5
      <4>4. CASE b.lastFill < s
        <5>1. CASE since[k][s] = 0
          BY <3>3, <4>1, <4>2, <5>1
        <5>2. CASE since[k][s] + b.tokens < Rate /\ (s - b.lastFill) * Rate < Minute
          <6>1. s - b.lastFill \in Nat
            BY <3>1, <4>1, <4>4
          <6>2. Worth((now - s) + (s - b.lastFill)) <= Worth(now - s) + 1
            BY <4>2, <5>2, <6>1, WorthStep
          <6>3. (now - s) + (s - b.lastFill) = now - b.lastFill
            BY <1>1, <3>1, <4>1
          <6>4. a <= Worth(now - s) + 1
            BY <6>2, <6>3 DEF a
          <6>5. since[k][s] + b.tokens < Rate
            BY <5>2
          <6> QED
            BY <3>1, <3>2, <3>3, <4>1, <4>2, <6>4, <6>5
        <5>3. since[k][s] = 0
                \/ (since[k][s] + b.tokens < Rate /\ (s - b.lastFill) * Rate < Minute)
          <6>1. Explained(k) /\ s \in b.lastFill + 1 .. MaxTime
            BY <1>1, <2>3, <3>1, <4>1, <4>4 DEF LimiterInv, ClockAssumption
          <6> QED
            BY <6>1 DEF Explained
        <5> QED
          BY <5>1, <5>2, <5>3
      <4> QED
        BY <3>1, <4>1, <4>3, <4>4
    <3>6. \A s \in (now + 1) .. MaxTime : since'[k][s] = 0
      BY <1>1, <1>3 DEF LimiterInv
    <3> QED
      BY <1>1, <3>3, <3>4, <3>5, <3>6 DEF Explained, Bucket, Worth
  <2> QED
    BY <2>1, <2>2, <2>3, CurrentBucket
<1>7. \A j \in Key : \A s \in 0 .. MaxTime :
        j \notin DOMAIN buckets' \/ now' < s => since'[j][s] = 0
  BY <1>1, <1>2, <1>3 DEF LimiterInv
<1> QED
  BY <1>1, <1>2, <1>3, <1>5, <1>6, <1>7 DEF LimiterInv

-----------------------------------------------------------------------------
(* The theorems.                                                           *)

\* The invariant above holds in every reachable state, for any rate and clock.
THEOREM LimiterInvariant == LimiterSpec => []LimiterInv
<1>1. ClockInit /\ LimiterInit => LimiterInv
  BY LimiterInitInv
<1>2. LimiterInv /\ [LimiterNext \/ (Tick /\ UNCHANGED limiterVars)]_<<now, limiterVars>>
        => LimiterInv'
  <2> SUFFICES ASSUME LimiterInv,
                      [LimiterNext \/ (Tick /\ UNCHANGED limiterVars)]_<<now, limiterVars>>
               PROVE LimiterInv'
    OBVIOUS
  <2>1. ASSUME NEW k \in Key, Allow(k), UNCHANGED now PROVE LimiterInv'
    BY <2>1, AllowInv
  <2>2. ASSUME NEW k \in Key, Deny(k), UNCHANGED now PROVE LimiterInv'
    BY <2>2, DenyInv
  <2>3. CASE Tick /\ UNCHANGED limiterVars
    BY <2>3, TickInv
  <2>4. CASE UNCHANGED <<now, limiterVars>>
    BY <2>4 DEF LimiterInv, Explained, Worth, limiterVars
  <2> QED
    BY <2>1, <2>2, <2>3, <2>4 DEF LimiterNext
<1> QED
  BY <1>1, <1>2, PTL DEF LimiterSpec

\* Buckets hold no more than the rate and their clocks are not ahead.
THEOREM LimiterTypeCorrect == LimiterSpec => []LimiterTypeOK
<1>1. LimiterInv => LimiterTypeOK
  BY DEF LimiterInv, Explained, LimiterTypeOK
<1> QED
  BY <1>1, LimiterInvariant, PTL

\* No stretch of time up to now allows more calls of a key than a full bucket and
\* the whole tokens of that stretch.
THEOREM RateKept == LimiterSpec => []RateBound
<1>1. LimiterInv => RateBound
  <2> SUFFICES ASSUME LimiterInv, NEW k \in Key, NEW s \in 0 .. now
               PROVE since[k][s] <= Rate + Worth(now - s)
    BY DEF RateBound, Worth
  <2> USE RateAssumption, ClockAssumption
  <2>1. s \in 0 .. MaxTime /\ now \in 0 .. MaxTime /\ since[k][s] \in Nat /\ now - s \in Nat
    BY DEF LimiterInv
  <2>2. Worth(now - s) \in Nat
    BY <2>1, WorthNat
  <2>3. CASE k \notin DOMAIN buckets
    BY <2>1, <2>2, <2>3 DEF LimiterInv
  <2>4. CASE k \in DOMAIN buckets
    <3> DEFINE b == buckets[k]
    <3> Explained(k)
      BY <2>4 DEF LimiterInv
    <3>1. b.tokens \in Nat /\ b.lastFill \in Nat /\ b.lastFill <= now
      BY DEF Explained, Bucket
    <3>2. CASE s <= b.lastFill
      <4>1. since[k][s] + b.tokens <= Rate + Worth(b.lastFill - s)
        BY <2>1, <3>2 DEF Explained
      <4>2. b.lastFill - s \in Nat /\ now - b.lastFill \in Nat
            /\ Worth(b.lastFill - s) \in Nat /\ Worth(now - b.lastFill) \in Nat
        BY <2>1, <3>1, <3>2, WorthNat
      <4>3. Worth(b.lastFill - s) + Worth(now - b.lastFill)
              <= Worth((b.lastFill - s) + (now - b.lastFill))
        BY <4>2, WorthSum
      <4>4. (b.lastFill - s) + (now - b.lastFill) = now - s
        BY <2>1, <3>1
      <4>5. Worth(b.lastFill - s) <= Worth(now - s)
        BY <2>2, <4>2, <4>3, <4>4
      <4> QED
        BY <2>1, <2>2, <3>1, <4>1, <4>2, <4>5
    <3>3. CASE b.lastFill < s
      <4>1. since[k][s] = 0 \/ since[k][s] + b.tokens < Rate
        BY <2>1, <3>1, <3>3 DEF Explained
      <4> QED
        BY <2>1, <2>2, <3>1, <4>1
    <3> QED
      BY <2>1, <3>1, <3>2, <3>3
  <2> QED
    BY <2>3, <2>4
<1> QED
  BY <1>1, LimiterInvariant, PTL

-----------------------------------------------------------------------------
(* Browsing: lists of any length, limits of any size, any number of changes. *)
(* First the order of a list, by places counted from its top.              *)

\* The order of a list whose rows have these keys: by key, then newest first.
Above(key, g, h) == IF key[g] # key[h] THEN key[g] < key[h] ELSE g > h
AllAbove(L, key, g) == {h \in L : Above(key, h, g)}
Place(L, key, g) == Cardinality(AllAbove(L, key, g))

\* A finite list, and its first n rows.
Listed(L, key) == IsFiniteSet(L) /\ L \subseteq Int /\ \A g \in L : key[g] \in Int
Top(L, key, n) == {g \in L : Place(L, key, g) < n}

\* A row further up has a smaller rank.
LEMMA PlaceGrows ==
  ASSUME NEW L, NEW key, Listed(L, key), NEW g \in L, NEW h \in L, Above(key, h, g)
  PROVE  Place(L, key, h) < Place(L, key, g)
<1>1. AllAbove(L, key, h) \subseteq AllAbove(L, key, g)
  <2>1. ASSUME NEW z \in L, Above(key, z, h)
        PROVE  Above(key, z, g)
    <3>1. z \in Int /\ h \in Int /\ g \in Int /\ key[z] \in Int /\ key[h] \in Int /\ key[g] \in Int
      BY DEF Listed
    <3> QED
      BY <2>1, <3>1 DEF Above
  <2> QED
    BY <2>1 DEF AllAbove
<1>0. h \in AllAbove(L, key, g) /\ h \notin AllAbove(L, key, h)
  BY DEF AllAbove, Above, Listed
<1>2. IsFiniteSet(AllAbove(L, key, g)) /\ IsFiniteSet(AllAbove(L, key, h))
  BY FS_Subset DEF AllAbove, Listed
<1>3. /\ Cardinality(AllAbove(L, key, h)) <= Cardinality(AllAbove(L, key, g))
      /\ Cardinality(AllAbove(L, key, h)) # Cardinality(AllAbove(L, key, g))
  BY <1>1, <1>2, <1>0, FS_Subset
<1>4. Cardinality(AllAbove(L, key, h)) \in Nat /\ Cardinality(AllAbove(L, key, g)) \in Nat
  BY <1>2, FS_CardinalityType
<1> QED
  BY <1>3, <1>4 DEF Place

LEMMA PlaceNat ==
  ASSUME NEW L, NEW key, Listed(L, key), NEW g
  PROVE  Place(L, key, g) \in Nat
<1>1. IsFiniteSet(AllAbove(L, key, g))
  BY FS_Subset DEF AllAbove, Listed
<1> QED
  BY <1>1, FS_CardinalityType DEF Place

\* No two rows have the same rank.
LEMMA PlacesDiffer ==
  ASSUME NEW L, NEW key, Listed(L, key), NEW g \in L, NEW h \in L, g # h
  PROVE  Place(L, key, h) # Place(L, key, g)
<1>1. Above(key, g, h) \/ Above(key, h, g)
  BY DEF Above, Listed
<1>2. Place(L, key, h) \in Nat /\ Place(L, key, g) \in Nat
  BY PlaceNat
<1> QED
  BY <1>1, <1>2, PlaceGrows

\* There are at most n rows among the first n...
LEMMA TopAtMost ==
  ASSUME NEW L, NEW key, Listed(L, key), NEW n \in Nat
  PROVE  IsFiniteSet(Top(L, key, n)) /\ Cardinality(Top(L, key, n)) <= n
<1> DEFINE f == [g \in Top(L, key, n) |-> Place(L, key, g)]
<1>1. \A g \in Top(L, key, n) : g \in L /\ Place(L, key, g) \in 0 .. n - 1
  BY PlaceNat DEF Top
<1>2. f \in Injection(Top(L, key, n), 0 .. n - 1)
  BY <1>1, PlacesDiffer DEF Injection, IsInjective
<1>3. IsFiniteSet(0 .. n - 1) /\ Cardinality(0 .. n - 1) = n
  BY FS_Interval
<1> QED
  BY <1>2, <1>3, FS_Injection

\* ... and n, if there is a row after them.
LEMMA TopFull ==
  ASSUME NEW L, NEW key, Listed(L, key), NEW n \in Nat, NEW g \in L, Place(L, key, g) >= n
  PROVE  Cardinality(Top(L, key, n)) = n
<1> DEFINE P == AllAbove(L, key, g)
           r == Place(L, key, g)
           f == [h \in P |-> Place(L, key, h)]
           k == [h \in Top(L, key, n) |-> Place(L, key, h)]
<1>1. IsFiniteSet(P) /\ r \in Nat /\ n <= r
  <2>1. IsFiniteSet(P)
    BY FS_Subset DEF AllAbove, Listed
  <2> QED
    BY <2>1, FS_CardinalityType DEF Place
<1>2. \A h \in P : h \in L /\ Place(L, key, h) \in 0 .. r - 1
  <2>1. ASSUME NEW h \in P
        PROVE  h \in L /\ Above(key, h, g)
    BY DEF AllAbove
  <2>2. ASSUME NEW h \in P
        PROVE  Place(L, key, h) \in Nat /\ Place(L, key, h) < r
    BY <2>1, <2>2, PlaceGrows, PlaceNat
  <2> QED
    BY <1>1, <2>1, <2>2
<1>3. f \in Injection(P, 0 .. r - 1)
  BY <1>2, PlacesDiffer DEF Injection, IsInjective
<1>4. IsFiniteSet(0 .. r - 1) /\ Cardinality(0 .. r - 1) = r
  <2>1. \A m \in Nat : IsFiniteSet(0 .. m - 1) /\ Cardinality(0 .. m - 1) = m
    BY FS_Interval
  <2>2. r \in Nat
    BY <1>1
  <2> QED
    BY <2>1, <2>2
<1>5. f \in Surjection(P, 0 .. r - 1)
  BY <1>1, <1>3, <1>4, FS_Injection DEF Place
<1>6. \A i \in 0 .. n - 1 : \E h \in P : Place(L, key, h) = i
  <2>1. \A i \in 0 .. n - 1 : i \in 0 .. r - 1
    BY <1>1
  <2>2. \A i \in 0 .. r - 1 : \E h \in P : f[h] = i
    BY <1>5 DEF Surjection
  <2> QED
    BY <2>1, <2>2
<1>7. \A i \in 0 .. n - 1 : \E h \in Top(L, key, n) : k[h] = i
  BY <1>2, <1>6 DEF Top
<1>8. k \in Surjection(Top(L, key, n), 0 .. n - 1)
  <2>1. \A h \in Top(L, key, n) : Place(L, key, h) \in 0 .. n - 1
    BY PlaceNat DEF Top
  <2> QED
    BY <1>7, <2>1 DEF Surjection
<1>9. Cardinality(0 .. n - 1) = n
  BY FS_Interval
<1>10. IsFiniteSet(Top(L, key, n)) /\ Cardinality(Top(L, key, n)) <= n
  BY TopAtMost
<1>11. Cardinality(0 .. n - 1) <= Cardinality(Top(L, key, n))
  BY <1>8, <1>10, FS_Surjection
<1>12. Cardinality(Top(L, key, n)) \in Nat
  BY <1>10, FS_CardinalityType
<1> QED
  BY <1>9, <1>10, <1>11, <1>12

\* When rows leave a list and others join it, no more of those that stay move
\* up among the first n than rows leave.
LEMMA MovedUp ==
  ASSUME NEW L, NEW key, Listed(L, key), NEW M, NEW kez, Listed(M, kez), NEW n \in Nat,
         NEW S, S \subseteq L, S \subseteq M, \A g \in S : kez[g] = key[g],
         NEW X, X \subseteq {g \in S : g \in Top(M, kez, n) /\ g \notin Top(L, key, n)}
  PROVE  /\ IsFiniteSet(X) /\ IsFiniteSet(L \ S)
         /\ Cardinality(X) <= Cardinality(L \ S)
<1> DEFINE F == Top(L, key, n)
<1>1. IsFiniteSet(L \ S) /\ IsFiniteSet(X) /\ IsFiniteSet(F \cap S) /\ IsFiniteSet(F)
  <2>1. IsFiniteSet(L) /\ X \in SUBSET L /\ F \in SUBSET L /\ F \cap S \in SUBSET L
        /\ L \ S \in SUBSET L
    BY DEF Listed, Top
  <2> QED
    BY <2>1, FS_Subset
<1>2. Cardinality(L \ S) \in Nat /\ Cardinality(X) \in Nat
  BY <1>1, FS_CardinalityType
<1>3. CASE X = {}
  BY <1>1, <1>2, <1>3, FS_EmptySet
<1>4. CASE X # {}
  <2>1. PICK x \in X : TRUE
    BY <1>4
  <2>2. x \in S /\ x \in L /\ x \in M /\ x \in Top(M, kez, n) /\ x \notin F
    BY <2>1
  <2>3. Place(L, key, x) \in Nat /\ Place(L, key, x) >= n /\ Place(M, kez, x) < n
    BY <2>2, PlaceNat DEF Top
  <2>4. Cardinality(F) = n
    BY <2>2, <2>3, TopFull
  <2>5. \A y \in F \cap S : y \in Top(M, kez, n)
    <3>1. TAKE y \in F \cap S
    <3>2. y \in L /\ y \in M /\ Place(L, key, y) \in Nat /\ Place(L, key, y) < n
      BY PlaceNat DEF Top
    <3>3. ~Above(key, x, y) /\ x # y
      BY <2>2, <2>3, <3>2, PlaceGrows
    <3>4. Above(key, y, x)
      BY <2>2, <3>2, <3>3 DEF Above, Listed
    <3>5. Above(kez, y, x)
      BY <2>2, <3>1, <3>4 DEF Above
    <3>6. Place(M, kez, y) < Place(M, kez, x)
      BY <2>2, <3>2, <3>5, PlaceGrows
    <3>7. Place(M, kez, y) \in Nat /\ Place(M, kez, x) \in Nat
      BY PlaceNat
    <3> QED
      BY <2>3, <3>2, <3>6, <3>7 DEF Top
  <2>6. (F \cap S) \cup X \in SUBSET Top(M, kez, n) /\ (F \cap S) \cap X = {}
    BY <2>5
  <2>7. IsFiniteSet(Top(M, kez, n)) /\ Cardinality(Top(M, kez, n)) <= n
    BY TopAtMost
  <2>8. Cardinality((F \cap S) \cup X) <= Cardinality(Top(M, kez, n))
    BY <2>6, <2>7, FS_Subset
  <2>9. Cardinality((F \cap S) \cup X)
          = Cardinality(F \cap S) + Cardinality(X) - Cardinality((F \cap S) \cap X)
    BY <1>1, FS_Union
  <2>10. Cardinality((F \cap S) \cap X) = 0
    BY <2>6, FS_EmptySet
  <2>11. /\ Cardinality(F \ S) = Cardinality(F) - Cardinality(F \cap S)
         /\ IsFiniteSet(F \ S)
    BY <1>1, FS_Difference
  <2>12. Cardinality(F \ S) <= Cardinality(L \ S)
    <3>1. F \ S \in SUBSET (L \ S)
      BY DEF Top
    <3> QED
      BY <1>1, <3>1, FS_Subset
  <2>13. /\ Cardinality(F \cap S) \in Nat /\ Cardinality(F \ S) \in Nat
         /\ Cardinality(Top(M, kez, n)) \in Nat
    BY <1>1, <2>7, <2>11, FS_CardinalityType
  <2> HIDE DEF F
  <2>14. Cardinality(F \cap S) + Cardinality(X) <= n
    BY <1>2, <2>7, <2>8, <2>9, <2>10, <2>13
  <2> QED
    BY <1>1, <1>2, <2>4, <2>11, <2>12, <2>13, <2>14
<1> QED
  BY <1>3, <1>4

-----------------------------------------------------------------------------
(* A reader.                                                               *)

\* The keys the list is ordered by.
Keys == [g \in DOMAIN goods |-> IF walk.list = "shop" THEN goods[g].sort ELSE 0]

\* The rows and the reader are of their kinds.
Shelves ==
  /\ IsFiniteSet(DOMAIN goods) /\ DOMAIN goods \subseteq Nat
  /\ \A g \in DOMAIN goods : goods[g] \in Good
  /\ walk \in [list : {"shop", "pool"}, limit : Int, keyword : BOOLEAN, page : Nat]

\* Rows that stayed and moved over the line between what was read and what was
\* not: those that no page showed and none will, and those that will be met again.
PassedBy == {g \in stayed : seen[g] = 0 /\ Rank(g) < Offset}
Returning == {g \in stayed : seen[g] > 0 /\ Rank(g) >= Offset}

\* The rows missed or met again so far, and those that will be, are paid for by
\* the rows that left the list and those that joined it.
WalkPaid ==
  IF Reading
  THEN Cardinality(PassedBy) <= gone /\ Cardinality(Again) + Cardinality(Returning) <= come
  ELSE Cardinality(Missed) <= gone /\ Cardinality(Again) <= come

\* The inductive invariant.
BrowsingInv ==
  /\ Shelves
  /\ changes \in Nat /\ gone \in Nat /\ come \in Nat
  /\ stayed \subseteq Listing \cap DOMAIN seen
  /\ \A g \in DOMAIN seen : seen[g] \in Nat
  /\ ~(walk.list = "shop" /\ walk.keyword) => WalkPaid

\* Ranks are places in the order of the keys, before a step and after it.
LEMMA RanksNow ==
  ASSUME Shelves
  PROVE  /\ Listed(Listing, Keys)
         /\ \A g \in Listing : Rank(g) = Place(Listing, Keys, g)
<1>1. ASSUME NEW g \in DOMAIN goods
      PROVE  g \in Int /\ Keys[g] \in Int
  <2>1. goods[g].sort \in Sorts
    BY DEF Shelves, Good
  <2>2. g \in Int /\ Sorts \subseteq Int
    BY BrowsingAssumption DEF Shelves
  <2>3. Keys[g] = IF walk.list = "shop" THEN goods[g].sort ELSE 0
    BY DEF Keys
  <2>4. CASE walk.list = "shop"
    BY <2>1, <2>2, <2>3, <2>4
  <2>5. CASE walk.list # "shop"
    <3>1. Keys[g] = 0
      BY <2>3, <2>5
    <3> QED
      BY <2>2, <3>1
  <2> QED
    BY <2>4, <2>5
<1>2. Listing \in SUBSET DOMAIN goods
  BY DEF Listing
<1>3. Listed(Listing, Keys)
  BY <1>1, <1>2, FS_Subset DEF Listed, Shelves
<1>4. ASSUME NEW g \in Listing
      PROVE  {h \in Listing : Before(h, g)} = AllAbove(Listing, Keys, g)
  <2>1. \A h \in Listing : Before(h, g) <=> Above(Keys, h, g)
    BY <1>2, <1>4 DEF Before, Above, Keys
  <2> QED
    BY <2>1 DEF AllAbove
<1> QED
  BY <1>3, <1>4 DEF Rank, Place

LEMMA RanksNext ==
  ASSUME Shelves'
  PROVE  /\ Listed(Listing', Keys')
         /\ \A g \in Listing' : Rank(g)' = Place(Listing', Keys', g)
<1>1. ASSUME NEW g \in DOMAIN goods'
      PROVE  g \in Int /\ Keys'[g] \in Int
  <2>1. goods'[g].sort \in Sorts
    BY DEF Shelves, Good
  <2>2. g \in Int /\ Sorts \subseteq Int
    BY BrowsingAssumption DEF Shelves
  <2>3. Keys'[g] = IF walk'.list = "shop" THEN goods'[g].sort ELSE 0
    BY DEF Keys
  <2>4. CASE walk'.list = "shop"
    BY <2>1, <2>2, <2>3, <2>4
  <2>5. CASE walk'.list # "shop"
    <3>1. Keys'[g] = 0
      BY <2>3, <2>5
    <3> QED
      BY <2>2, <3>1
  <2> QED
    BY <2>4, <2>5
<1>2. Listing' \in SUBSET DOMAIN goods'
  BY DEF Listing
<1>3. Listed(Listing', Keys')
  BY <1>1, <1>2, FS_Subset DEF Listed, Shelves
<1>4. ASSUME NEW g \in Listing'
      PROVE  {h \in Listing' : Before(h, g)'} = AllAbove(Listing', Keys', g)
  <2>1. \A h \in Listing' : Before(h, g)' <=> Above(Keys', h, g)
    BY <1>2, <1>4 DEF Before, Above, Keys
  <2> QED
    BY <2>1 DEF AllAbove
<1> QED
  BY <1>3, <1>4 DEF Rank, Place

\* A page has at least one place; the next begins where it ends.
LEMMA Pages ==
  ASSUME Shelves
  PROVE  /\ Clamp(walk.limit) \in Nat \ {0}
         /\ Reading => Offset \in Nat
<1>1. Clamp(walk.limit) \in Nat \ {0}
  BY BrowsingAssumption DEF Shelves, Clamp
<1>2. \A p, c \in Nat : p > 0 => (p - 1) * c \in Nat
  OBVIOUS
<1> QED
  BY <1>1, <1>2 DEF Offset, Reading, Shelves

\* The sets that are counted are finite.
LEMMA CountedNow ==
  ASSUME BrowsingInv
  PROVE  /\ IsFiniteSet(stayed) /\ IsFiniteSet(Missed) /\ IsFiniteSet(PassedBy)
         /\ IsFiniteSet(Returning) /\ IsFiniteSet(Again)
         /\ Cardinality(Returning) \in Nat /\ Cardinality(Again) \in Nat
         /\ Cardinality(PassedBy) \in Nat /\ Cardinality(Missed) \in Nat
<1>1. IsFiniteSet(stayed)
  BY FS_Subset DEF BrowsingInv, Shelves, Listing
<1>2. IsFiniteSet(Missed) /\ IsFiniteSet(PassedBy) /\ IsFiniteSet(Returning)
  BY <1>1, FS_Subset DEF Missed, PassedBy, Returning
<1>3. IsFiniteSet(Again)
  <2>1. IsFiniteSet(1 .. MaxChanges + 1)
    BY BrowsingAssumption, FS_Interval
  <2>2. IsFiniteSet(stayed \X (1 .. MaxChanges + 1))
    BY <1>1, <2>1, FS_Product
  <2>3. Again \in SUBSET (stayed \X (1 .. MaxChanges + 1))
    BY DEF Again
  <2> QED
    BY <2>2, <2>3, FS_Subset
<1> QED
  BY <1>1, <1>2, <1>3, FS_CardinalityType

LEMMA BrowsingInitInv == BrowsingInit \/ NobodyReads => BrowsingInv
<1>1. ASSUME BrowsingInit PROVE BrowsingInv
  <2>1. PICK n \in 0 .. MaxGoods : goods \in [1 .. n -> {r \in Good : r.shelved /\ r.named}]
    BY <1>1 DEF BrowsingInit
  <2>2. Shelves
    <3>1. n \in Int /\ IsFiniteSet(1 .. n)
      BY FS_Interval
    <3>2. walk \in [list : {"shop", "pool"}, limit : Int, keyword : BOOLEAN, page : Nat]
      <4>1. walk \in [list : {"shop", "pool"}, limit : Limits, keyword : BOOLEAN, page : {1}]
        BY <1>1 DEF BrowsingInit
      <4>2. Limits \subseteq Int
        BY BrowsingAssumption
      <4>3. walk = [list |-> walk.list, limit |-> walk.limit, keyword |-> walk.keyword, page |-> 1]
        BY <4>1
      <4>4. walk.list \in {"shop", "pool"} /\ walk.limit \in Limits /\ walk.keyword \in BOOLEAN
        BY <4>1
      <4> QED
        BY <4>2, <4>3, <4>4
    <3> QED
      BY <2>1, <3>1, <3>2 DEF Shelves
  <2>3. walk.page = 1 /\ stayed = Listing /\ seen = [g \in Listing |-> 0]
    BY <1>1 DEF BrowsingInit
  <2>4. Reading /\ Offset = 0
    <3>1. Clamp(walk.limit) \in Nat
      BY <2>2, Pages
    <3> QED
      BY <2>3, <3>1 DEF Reading, Offset
  <2>5. PassedBy = {} /\ Again = {} /\ Returning = {}
    <3>1. \A g \in Listing : Rank(g) \in Nat
      BY <2>2, RanksNow, PlaceNat
    <3> QED
      BY <2>3, <2>4, <3>1 DEF PassedBy, Again, Returning
  <2> QED
    BY <1>1, <2>2, <2>3, <2>4, <2>5, FS_EmptySet DEF BrowsingInit, BrowsingInv, WalkPaid
<1>2. ASSUME NobodyReads PROVE BrowsingInv
  <2>1. Shelves
    BY <1>2, FS_EmptySet DEF NobodyReads, Shelves
  <2>2. Missed = {} /\ Again = {}
    BY <1>2 DEF NobodyReads, Missed, Again
  <2> QED
    BY <1>2, <2>1, <2>2, FS_EmptySet DEF NobodyReads, BrowsingInv, WalkPaid, Reading
<1> QED
  BY <1>1, <1>2

\* A page moves what it showed from one side of the line to the other.  When it is
\* empty, all that is listed was passed.
LEMMA ReadInv ==
  ASSUME BrowsingInv, ReadPage
  PROVE  BrowsingInv'
<1> DEFINE c == Clamp(walk.limit)
<1>1. /\ Shelves /\ c \in Nat \ {0} /\ Offset \in Nat /\ walk.page \in Nat /\ walk.page > 0
      /\ walk \in [list : {"shop", "pool"}, limit : Int, keyword : BOOLEAN, page : Nat]
  BY Pages DEF BrowsingInv, ReadPage, Reading, Shelves
<1>2. walk' = [walk EXCEPT !.page = IF Shown = {} THEN 0 ELSE walk.page + 1]
  BY DEF ReadPage
<1>3. /\ walk'.list = walk.list /\ walk'.limit = walk.limit /\ walk'.keyword = walk.keyword
      /\ walk'.page = (IF Shown = {} THEN 0 ELSE walk.page + 1)
      /\ walk' \in [list : {"shop", "pool"}, limit : Int, keyword : BOOLEAN, page : Nat]
  BY <1>1, <1>2
<1>4. UNCHANGED <<goods, changes, stayed, gone, come>>
  BY DEF ReadPage
<1>5. Listing' = Listing /\ \A g \in Listing : Rank(g)' = Rank(g) /\ Rank(g) \in Nat
  <2>1. Listing' = Listing
    BY <1>3, <1>4 DEF Listing, Lists
  <2>2. \A g, h : Before(h, g)' <=> Before(h, g)
    BY <1>3, <1>4 DEF Before
  <2>3. \A g : Rank(g)' = Rank(g)
    BY <2>1, <2>2 DEF Rank
  <2> QED
    BY <1>1, <2>1, <2>3, RanksNow, PlaceNat
<1>6. /\ DOMAIN seen' = DOMAIN seen
      /\ \A g \in DOMAIN seen : seen'[g] = (IF g \in Shown THEN seen[g] + 1 ELSE seen[g])
      /\ \A g \in DOMAIN seen : seen[g] \in Nat /\ seen'[g] \in Nat
  BY DEF ReadPage, BrowsingInv
<1>7. stayed \subseteq Listing /\ stayed \subseteq DOMAIN seen
  BY DEF BrowsingInv
<1>8. ASSUME ~(walk.list = "shop" /\ walk.keyword)
      PROVE  WalkPaid'
  <2>1. /\ Shown = Page /\ Reading
        /\ Cardinality(PassedBy) <= gone /\ Cardinality(Again) + Cardinality(Returning) <= come
    BY <1>8 DEF Shown, BrowsingInv, WalkPaid, ReadPage
  <2>2. \A g \in Listing : g \in Page <=> Offset <= Rank(g) /\ Rank(g) < Offset + c
    BY DEF Page
  <2>3. CASE Page = {}
    <3>1. ~Reading' /\ \A g \in DOMAIN seen : seen'[g] = seen[g]
      BY <1>3, <1>6, <2>1, <2>3 DEF Reading
    <3>2. \A g \in Listing : Rank(g) < Offset
      <4> SUFFICES ASSUME NEW g \in Listing, Rank(g) >= Offset
                   PROVE  FALSE
        BY <1>1, <1>5
      <4> DEFINE n == Offset
                 m == Offset + c
      <4>1. Listed(Listing, Keys) /\ \A h \in Listing : Rank(h) = Place(Listing, Keys, h)
        BY <1>1, RanksNow
      <4>2. Rank(g) >= Offset + c
        BY <1>1, <1>5, <2>2, <2>3
      <4>3. Top(Listing, Keys, m) = Top(Listing, Keys, n)
        <5>1. \A h \in Listing : Rank(h) < m <=> Rank(h) < n
          BY <1>1, <1>5, <2>2, <2>3
        <5> QED
          BY <4>1, <5>1 DEF Top
      <4>4. n \in Nat /\ m \in Nat /\ n < m
        BY <1>1
      <4> HIDE DEF n, m
      <4>5. Cardinality(Top(Listing, Keys, n)) <= n
        BY <4>1, <4>4, TopAtMost
      <4>6. Cardinality(Top(Listing, Keys, m)) = m
        BY <4>1, <4>2, <4>4, TopFull DEF m
      <4> QED
        BY <4>3, <4>4, <4>5, <4>6
    <3>3. Missed' = PassedBy /\ Again' = Again
      BY <1>4, <1>7, <3>1, <3>2 DEF Missed, PassedBy, Again
    <3> QED
      BY <1>4, <2>1, <3>1, <3>3, CountedNow DEF WalkPaid, BrowsingInv
  <2>4. CASE Page # {}
    <3>1. Reading' /\ Offset' = Offset + c
      <4>1. PICK d : d = c
        OBVIOUS
      <4>2. walk'.page = walk.page + 1
        BY <1>3, <2>1, <2>4
      <4>3. \A e : e = Clamp(walk.limit)' => e = d
        BY <1>3, <4>1 DEF Clamp
      <4>4. \A e : e = Clamp(walk.limit)' => Offset' = (walk'.page - 1) * e
        BY DEF Offset
      <4>5. Offset' = (walk'.page - 1) * d
        BY <4>3, <4>4
      <4>6. Offset = (walk.page - 1) * d /\ d \in Nat
        BY <1>1, <4>1 DEF Offset
      <4>7. \A p, e \in Nat : (p + 1 - 1) * e = (p - 1) * e + e
        OBVIOUS
      <4>8. Offset' = Offset + d
        BY <1>1, <4>2, <4>5, <4>6, <4>7
      <4> QED
        BY <1>1, <4>1, <4>2, <4>8 DEF Reading
    <3>2. PassedBy' \in SUBSET PassedBy
      BY <1>1, <1>4, <1>5, <1>6, <1>7, <2>1, <2>2, <3>1 DEF PassedBy
    <3>3. Cardinality(PassedBy') <= Cardinality(PassedBy) /\ Cardinality(PassedBy') \in Nat
      BY <3>2, CountedNow, FS_Subset, FS_CardinalityType
    <3> DEFINE met == Returning \cap Page
               more == {p \in Again' : p \notin Again}
               f == [p \in more |-> p[1]]
    <3>4. Returning' = Returning \ Page
      BY <1>1, <1>4, <1>5, <1>6, <1>7, <2>1, <2>2, <3>1 DEF Returning
    <3>5. ASSUME NEW p \in more
          PROVE  p = <<p[1], seen[p[1]]>> /\ p[1] \in met
      <4>1. /\ p \in stayed \X (1 .. MaxChanges + 1) /\ seen'[p[1]] > p[2]
            /\ ~(seen[p[1]] > p[2])
        BY <1>4, <3>5 DEF Again
      <4>2. p[1] \in stayed /\ p[1] \in DOMAIN seen /\ p[2] \in Nat \ {0} /\ p = <<p[1], p[2]>>
        BY <1>7, <4>1, BrowsingAssumption
      <4>3. p[1] \in Page /\ seen[p[1]] = p[2]
        BY <1>6, <2>1, <4>1, <4>2
      <4> QED
        BY <1>1, <1>5, <1>7, <2>2, <4>2, <4>3 DEF Returning
    <3>6. f \in Injection(more, met)
      BY <3>5 DEF Injection, IsInjective
    <3>7. IsFiniteSet(met) /\ IsFiniteSet(more) /\ Cardinality(more) <= Cardinality(met)
      BY <3>6, CountedNow, FS_Injection, FS_Intersection
    <3>8. Again' \in SUBSET (Again \cup more)
      OBVIOUS
    <3> HIDE DEF more, met, f
    <3>9. /\ IsFiniteSet(Again \cup more)
          /\ Cardinality(Again \cup more)
               = Cardinality(Again) + Cardinality(more) - Cardinality(Again \cap more)
          /\ IsFiniteSet(Again \cap more)
      BY <3>7, CountedNow, FS_Union, FS_Intersection
    <3>10. Cardinality(Again') <= Cardinality(Again \cup more) /\ Cardinality(Again') \in Nat
      BY <3>8, <3>9, FS_Subset, FS_CardinalityType
    <3>11. Cardinality(Returning \ Page) = Cardinality(Returning) - Cardinality(met)
      BY CountedNow, FS_Difference DEF met
    <3>12. /\ Cardinality(Again \cap more) \in Nat /\ Cardinality(more) \in Nat
           /\ Cardinality(met) \in Nat /\ Cardinality(Returning) \in Nat /\ Cardinality(Again) \in Nat
      BY <3>7, <3>9, CountedNow, FS_CardinalityType
    <3>13. Cardinality(Again') + Cardinality(Returning') <= come'
      <4>1. come \in Nat /\ come' = come
        BY <1>4 DEF BrowsingInv
      <4>2. Cardinality(Returning') = Cardinality(Returning) - Cardinality(met)
        BY <3>4, <3>11
      <4> QED
        BY <2>1, <3>7, <3>9, <3>10, <3>12, <4>1, <4>2
    <3>14. Cardinality(PassedBy') <= gone'
      <4>1. gone \in Nat /\ gone' = gone
        BY <1>4 DEF BrowsingInv
      <4> QED
        BY <2>1, <3>3, <4>1, CountedNow
    <3> QED
      BY <3>1, <3>13, <3>14 DEF WalkPaid
  <2> QED
    BY <2>3, <2>4
<1>9. Shelves'
  BY <1>1, <1>3, <1>4 DEF Shelves
<1> QED
  BY <1>3, <1>4, <1>5, <1>6, <1>8, <1>9 DEF BrowsingInv

\* Rows that stay keep their keys, so that those which cross the line are paid for
\* by those that leave or join.
LEMMA ChangeInv ==
  ASSUME BrowsingInv, NEW new, IsFiniteSet(DOMAIN new), DOMAIN new \subseteq Nat,
         \A g \in DOMAIN new : new[g] \in Good,
         ChangeTo(new)
  PROVE  BrowsingInv'
<1> DEFINE stay == {g \in Listing \cap Listing' : Keys'[g] = Keys[g]}
<1>1. /\ goods' = new /\ changes' = changes + 1
      /\ UNCHANGED <<walk, seen>> /\ Reading
  BY DEF ChangeTo
<1>2. Shelves /\ Shelves' /\ Offset \in Nat
  BY <1>1, Pages DEF BrowsingInv, Shelves
<1>3. /\ Listed(Listing, Keys) /\ Listed(Listing', Keys')
      /\ \A g \in Listing : Rank(g) = Place(Listing, Keys, g)
      /\ \A g \in Listing' : Rank(g)' = Place(Listing', Keys', g)
  BY <1>2, RanksNow, RanksNext
<1>4. PICK moved : /\ moved = {g \in DOMAIN goods \cap DOMAIN new :
                             walk.list = "shop" /\ goods[g].sort # new[g].sort}
                   /\ stayed' = stayed \ (Listing \ (Listing' \ moved))
                   /\ gone' = gone + Cardinality(Listing \ (Listing' \ moved))
                   /\ come' = come + Cardinality(Listing' \ (Listing \ moved))
  BY DEF ChangeTo
<1>5. Listing' \subseteq DOMAIN new /\ Listing \subseteq DOMAIN goods
  BY <1>1 DEF Listing
<1>6. \A g \in Listing \cap Listing' : g \in moved <=> Keys'[g] # Keys[g]
  BY <1>1, <1>4, <1>5 DEF Keys
<1>7. /\ Listing \ (Listing' \ moved) = Listing \ stay
      /\ Listing' \ (Listing \ moved) = Listing' \ stay
  BY <1>6
<1>8. /\ IsFiniteSet(Listing \ stay) /\ IsFiniteSet(Listing' \ stay)
      /\ Cardinality(Listing \ stay) \in Nat /\ Cardinality(Listing' \ stay) \in Nat
  <2>1. Listing \ stay \in SUBSET Listing /\ Listing' \ stay \in SUBSET Listing'
    OBVIOUS
  <2> QED
    BY <1>3, <2>1, FS_Subset, FS_CardinalityType DEF Listed
<1>9. /\ stayed' = stayed \ (Listing \ stay)
      /\ gone' = gone + Cardinality(Listing \ stay)
      /\ come' = come + Cardinality(Listing' \ stay)
  BY <1>4, <1>7
<1>10. /\ stay \subseteq Listing /\ stay \subseteq Listing'
       /\ \A g \in stay : Keys'[g] = Keys[g]
       /\ stayed' \subseteq stay /\ stayed' \subseteq stayed
  BY <1>9 DEF BrowsingInv
<1> HIDE DEF stay
<1>11. /\ \A g \in stayed' : Rank(g) = Place(Listing, Keys, g) /\ Rank(g) \in Nat
       /\ \A g \in stayed' : Rank(g)' = Place(Listing', Keys', g) /\ Rank(g)' \in Nat
  BY <1>3, <1>10, PlaceNat
<1>12. /\ gone \in Nat /\ come \in Nat /\ gone' \in Nat /\ come' \in Nat
       /\ stayed' \subseteq DOMAIN seen /\ \A g \in DOMAIN seen : seen[g] \in Nat
  BY <1>8, <1>9 DEF BrowsingInv
<1>13. ASSUME ~(walk.list = "shop" /\ walk.keyword)
       PROVE  WalkPaid'
  <2>1. Cardinality(PassedBy) <= gone /\ Cardinality(Again) + Cardinality(Returning) <= come
    BY <1>1, <1>13 DEF BrowsingInv, WalkPaid
  <2>2. Reading' /\ Offset' = Offset
    BY <1>1 DEF Reading, Offset, Clamp
  <2> DEFINE n == Offset
             down == {g \in PassedBy' : g \notin PassedBy}
             up == {g \in Returning' : g \notin Returning}
  <2>3. down \subseteq {g \in stay : g \in Top(Listing', Keys', n) /\ g \notin Top(Listing, Keys, n)}
    BY <1>1, <1>2, <1>10, <1>11, <2>2 DEF PassedBy, Top
  <2>4. up \subseteq {g \in stay : g \in Top(Listing, Keys, n) /\ g \notin Top(Listing', Keys', n)}
    BY <1>1, <1>2, <1>10, <1>11, <2>2 DEF Returning, Top
  <2> HIDE DEF n, down, up
  <2>5. n \in Nat
    BY <1>2 DEF n
  <2>6. IsFiniteSet(down) /\ Cardinality(down) <= Cardinality(Listing \ stay)
    BY <1>3, <1>10, <2>3, <2>5, MovedUp
  <2>7. IsFiniteSet(up) /\ Cardinality(up) <= Cardinality(Listing' \ stay)
    BY <1>3, <1>10, <2>4, <2>5, MovedUp
  <2>8. /\ PassedBy' \in SUBSET (PassedBy \cup down)
        /\ Returning' \in SUBSET (Returning \cup up)
    BY DEF down, up
  <2>9. Again' \in SUBSET Again
    BY <1>1, <1>10 DEF Again
  <2>10. /\ IsFiniteSet(PassedBy \cup down)
         /\ Cardinality(PassedBy \cup down)
              = Cardinality(PassedBy) + Cardinality(down) - Cardinality(PassedBy \cap down)
         /\ IsFiniteSet(PassedBy \cap down)
    BY <2>6, CountedNow, FS_Union, FS_Intersection
  <2>11. /\ IsFiniteSet(Returning \cup up)
         /\ Cardinality(Returning \cup up)
              = Cardinality(Returning) + Cardinality(up) - Cardinality(Returning \cap up)
         /\ IsFiniteSet(Returning \cap up)
    BY <2>7, CountedNow, FS_Union, FS_Intersection
  <2>12. /\ Cardinality(down) \in Nat /\ Cardinality(PassedBy \cap down) \in Nat
         /\ Cardinality(up) \in Nat /\ Cardinality(Returning \cap up) \in Nat
    BY <2>6, <2>7, <2>10, <2>11, FS_CardinalityType
  <2>13. /\ Cardinality(PassedBy') <= Cardinality(PassedBy \cup down)
         /\ Cardinality(PassedBy') \in Nat
    BY <2>8, <2>10, FS_Subset, FS_CardinalityType
  <2>14. /\ Cardinality(Returning') <= Cardinality(Returning \cup up)
         /\ Cardinality(Returning') \in Nat
    BY <2>8, <2>11, FS_Subset, FS_CardinalityType
  <2>15. Cardinality(Again') <= Cardinality(Again) /\ Cardinality(Again') \in Nat
    BY <2>9, CountedNow, FS_Subset, FS_CardinalityType
  <2>16. /\ Cardinality(PassedBy) \in Nat /\ Cardinality(Returning) \in Nat
         /\ Cardinality(Again) \in Nat
    BY CountedNow
  <2>17. Cardinality(PassedBy') <= gone'
    BY <1>8, <1>9, <1>12, <2>1, <2>6, <2>10, <2>12, <2>13, <2>16
  <2>18. Cardinality(Again') + Cardinality(Returning') <= come'
    BY <1>8, <1>9, <1>12, <2>1, <2>7, <2>11, <2>12, <2>14, <2>15, <2>16
  <2> QED
    BY <2>2, <2>17, <2>18 DEF WalkPaid
<1> QED
  BY <1>1, <1>2, <1>10, <1>12, <1>13 DEF BrowsingInv

\* Every page and every change keeps the invariant.
LEMMA BrowsingNextInv ==
  ASSUME BrowsingInv, BrowsingNext \/ UNCHANGED browsingVars
  PROVE  BrowsingInv'
<1> USE DEF BrowsingInv, Shelves
<1>1. CASE ReadPage
  BY <1>1, ReadInv
<1>2. ASSUME AddGood(MaxGoods + changes + 1)
      PROVE  BrowsingInv'
  <2>1. PICK id : id = MaxGoods + changes + 1
    OBVIOUS
  <2>2. id \in Nat
    BY <2>1, BrowsingAssumption
  <2>3. PICK r \in Good :
          ChangeTo([g \in DOMAIN goods \cup {id} |-> IF g = id THEN r ELSE goods[g]])
    BY <1>2, <2>1 DEF AddGood
  <2>4. IsFiniteSet(DOMAIN goods \cup {id})
    BY FS_AddElement
  <2> QED
    BY <2>2, <2>3, <2>4, ChangeInv
<1>3. ASSUME NEW g \in DOMAIN goods, RemoveGood(g)
      PROVE  BrowsingInv'
  <2>1. IsFiniteSet(DOMAIN goods \ {g})
    BY FS_RemoveElement
  <2> QED
    BY <1>3, <2>1, ChangeInv DEF RemoveGood
<1>4. ASSUME NEW g \in DOMAIN goods, NEW r \in Good, ChangeTo([goods EXCEPT ![g] = r])
      PROVE  BrowsingInv'
  BY <1>4, ChangeInv
<1>5. ASSUME NEW g \in DOMAIN goods, Reshelve(g) \/ Rename(g) \/ Resort(g)
      PROVE  BrowsingInv'
  <2>1. goods[g] \in Good
    OBVIOUS
  <2>2. CASE Reshelve(g)
    <3>1. PICK r : r = [goods[g] EXCEPT !.shelved = ~ @]
      OBVIOUS
    <3>2. r \in Good
      BY <2>1, <3>1 DEF Good
    <3> QED
      BY <1>4, <1>5, <2>2, <3>1, <3>2 DEF Reshelve
  <2>3. CASE Rename(g)
    <3>1. PICK r : r = [goods[g] EXCEPT !.named = ~ @]
      OBVIOUS
    <3>2. r \in Good
      BY <2>1, <3>1 DEF Good
    <3> QED
      BY <1>4, <1>5, <2>3, <3>1, <3>2 DEF Rename
  <2>4. CASE Resort(g)
    <3>1. PICK k \in Sorts : ChangeTo([goods EXCEPT ![g].sort = k])
      BY <2>4 DEF Resort
    <3>2. PICK r : r = [goods[g] EXCEPT !.sort = k]
      OBVIOUS
    <3>3. r \in Good
      BY <2>1, <3>1, <3>2 DEF Good
    <3> QED
      BY <1>4, <1>5, <3>1, <3>2, <3>3
  <2> QED
    BY <1>5, <2>2, <2>3, <2>4
<1>6. CASE UNCHANGED browsingVars
  BY <1>6 DEF browsingVars, Listing, Lists, WalkPaid, Reading, PassedBy, Again, Returning, Missed,
     Offset, Clamp, Rank, Before
<1> QED
  BY <1>1, <1>2, <1>3, <1>5, <1>6 DEF BrowsingNext

-----------------------------------------------------------------------------
(* Sessions: any browsers, tabs and names, and any length of a session.    *)

USE ClockAssumption, SessionsAssumption

TabState ==
  [pc : {"idle"}] \cup [pc : {"create"}, name : Name, email : Typed]
  \cup [pc : {"issue"}, user : Nat] \cup [pc : {"answer"}, cookie : Nat]
  \cup [pc : {"ask"}, token : Nat, route : Route]
  \cup [pc : {"serve"}, user : Nat \ {Guest}, token : Nat, at : Nat]
  \cup [pc : {"serve"}, user : {Guest}, route : {"open"}]

\* What a request knows is true of the tables, and stays so.
Known(r) ==
  /\ r \in TabState
  /\ r.pc = "issue" => r.user \in 1 .. Len(users)
  /\ r.pc = "answer" => r.cookie \in 0 .. Len(proved)
  /\ r.pc = "ask" => r.token \in 0 .. Len(proved)
  /\ r.pc = "serve" /\ r.user # Guest =>
       /\ r.token \in 1 .. Len(proved) /\ r.user = proved[r.token] /\ r.at <= now
       /\ r.token \in DOMAIN sessions => r.at <= sessions[r.token].expires
       /\ r.token \in DOMAIN ended => r.at <= ended[r.token]

\* username is UNIQUE.
Unique == \A u, v \in 1 .. Len(users) : users[u].name = users[v].name => u = v

\* A row of user_sessions is of the user whose password was known, and a token
\* that was logged out never comes back.
Issued ==
  /\ proved \in Seq(Nat) /\ \A k \in 1 .. Len(proved) : proved[k] \in 1 .. Len(users)
  /\ DOMAIN sessions \subseteq 1 .. Len(proved)
  /\ \A k \in DOMAIN sessions :
       sessions[k] \in [user : Nat, expires : Nat] /\ sessions[k].user = proved[k]
  /\ DOMAIN ended \subseteq 1 .. Len(proved) \ DOMAIN sessions
  /\ \A k \in DOMAIN ended : ended[k] \in Nat /\ ended[k] <= now

\* The inductive invariant.
SessionsInv ==
  /\ now \in Nat
  /\ users \in Seq([name : Name, email : Typed])
  /\ Unique
  /\ Issued
  /\ cookies \in [Browsers -> 0 .. Len(proved)]
  /\ tab = [t \in Tab |-> tab[t]]
  /\ \A t \in Tab : Known(tab[t])

LEMMA UserRows ==
  SessionsInv =>
    /\ Users = 1 .. Len(users) /\ Len(users) \in Nat
    /\ \A u \in 1 .. Len(users) : users[u].name \in Name /\ users[u].email \in Typed
<1> SUFFICES ASSUME SessionsInv
             PROVE /\ Users = 1 .. Len(users) /\ Len(users) \in Nat
                   /\ \A u \in 1 .. Len(users) : users[u].name \in Name /\ users[u].email \in Typed
  OBVIOUS
<1> DEFINE Rows == [name : Name, email : Typed]
<1>1. users \in Seq(Rows)
  BY DEF SessionsInv
<1>2. Len(users) \in Nat /\ DOMAIN users = 1 .. Len(users) /\ users \in [1 .. Len(users) -> Rows]
  <2> HIDE DEF Rows
  <2> QED
    BY <1>1, LenProperties
<1> QED
  BY <1>2 DEF Users

LEMMA IdleKnown == Known(IdleTab)
BY DEF Known, TabState, IdleTab

LEMMA SessionsInitInv == ClockInit /\ SessionsInit => SessionsInv
BY IdleKnown DEF ClockInit, SessionsInit, SessionsInv, Unique, Issued, NoToken

\* One request goes on, and the tables stay.
LEMMA OneTab ==
  ASSUME SessionsInv, NEW t \in Tab, NEW r, Known(r), tab' = [tab EXCEPT ![t] = r],
         UNCHANGED <<users, sessions, cookies, proved, ended, now>>
  PROVE SessionsInv'
<1>1. tab' = [u \in Tab |-> IF u = t THEN r ELSE tab[u]]
  BY DEF SessionsInv
<1>2. \A u \in Tab : Known(tab'[u])
  BY <1>1 DEF SessionsInv
<1>3. \A u \in Tab : Known(tab[u])'
  BY <1>2 DEF Known
<1> QED
  BY <1>1, <1>3 DEF SessionsInv, Unique, Issued

\* What a request knows it still knows when tables grow and time passes.
LEMMA StillKnown ==
  ASSUME SessionsInv, NEW r, Known(r), now' \in Nat, now <= now',
         Len(users) <= Len(users'), Len(proved) <= Len(proved'), Len(users') \in Nat,
         Len(proved') \in Nat,
         \A k \in 1 .. Len(proved) : proved'[k] = proved[k],
         \A k \in DOMAIN sessions' \cap 1 .. Len(proved) :
           k \in DOMAIN sessions /\ sessions'[k] = sessions[k],
         \A k \in DOMAIN ended' : \/ k \in DOMAIN ended /\ ended'[k] = ended[k]
                                  \/ ended'[k] = now
  PROVE /\ r \in TabState
        /\ r.pc = "issue" => r.user \in 1 .. Len(users')
        /\ r.pc = "answer" => r.cookie \in 0 .. Len(proved')
        /\ r.pc = "ask" => r.token \in 0 .. Len(proved')
        /\ r.pc = "serve" /\ r.user # Guest =>
             /\ r.token \in 1 .. Len(proved') /\ r.user = proved'[r.token] /\ r.at <= now'
             /\ r.token \in DOMAIN sessions' => r.at <= sessions'[r.token].expires
             /\ r.token \in DOMAIN ended' => r.at <= ended'[r.token]
<1>1. Len(users) \in Nat /\ Len(proved) \in Nat /\ now \in Nat
  BY DEF SessionsInv, Issued
<1>2. r \in TabState
  BY DEF Known
<1>3. CASE r.pc = "serve" /\ r.user # Guest
  <2>1. r.token \in 1 .. Len(proved) /\ r.user = proved[r.token] /\ r.at <= now /\ r.at \in Nat
    BY <1>3 DEF Known, TabState
  <2>2. r.token \in 1 .. Len(proved') /\ r.user = proved'[r.token] /\ r.at <= now'
    BY <1>1, <2>1
  <2>3. r.token \in DOMAIN sessions' => r.at <= sessions'[r.token].expires
    BY <1>3, <2>1 DEF Known
  <2>4. r.token \in DOMAIN ended' => r.at <= ended'[r.token]
    BY <1>3, <2>1 DEF Known
  <2> QED
    BY <1>2, <1>3, <2>2, <2>3, <2>4
<1>4. CASE ~ (r.pc = "serve" /\ r.user # Guest)
  BY <1>1, <1>2, <1>4 DEF Known
<1> QED
  BY <1>3, <1>4

-----------------------------------------------------------------------------
(* The actions.                                                            *)

LEMMA TypedLower == \A e \in Typed : Lower[e] \in Typed
OBVIOUS

LEMMA RegisterInv ==
  ASSUME SessionsInv, NEW t \in Tab, Register(t), UNCHANGED now
  PROVE SessionsInv'
<1>1. PICK n \in Name, e \in Typed :
        tab' = [tab EXCEPT ![t] = [pc |-> "create", name |-> n, email |-> Lower[e]]]
  BY DEF Register
<1>2. Known([pc |-> "create", name |-> n, email |-> Lower[e]])
  BY TypedLower DEF Known, TabState
<1> QED
  BY <1>1, <1>2, OneTab DEF Register

\* What Taken does not find is unique in the table afterwards.
LEMMA CreateInv ==
  ASSUME SessionsInv, NEW t \in Tab, Create(t), UNCHANGED now
  PROVE SessionsInv'
<1>1. CASE Taken(tab[t].name)
  BY <1>1, IdleKnown, OneTab DEF Create, Answered
<1>2. CASE ~ Taken(tab[t].name)
  <2> DEFINE row == [name |-> tab[t].name, email |-> tab[t].email]
             r == [pc |-> "issue", user |-> Len(users) + 1]
  <2>1. row \in [name : Name, email : Typed]
    <3>1. tab[t].pc = "create" /\ tab[t] \in TabState
      BY DEF Create, At, SessionsInv, Known
    <3>2. tab[t].name \in Name /\ tab[t].email \in Typed
      BY <3>1 DEF TabState
    <3> QED
      BY <3>2
  <2>2. users' = Append(users, row) /\ tab' = [tab EXCEPT ![t] = r]
    BY <1>2 DEF Create
  <2>3. users \in Seq([name : Name, email : Typed]) /\ Len(users) \in Nat
    BY DEF SessionsInv
  <2>4. /\ users' \in Seq([name : Name, email : Typed]) /\ Len(users') = Len(users) + 1
        /\ users'[Len(users) + 1] = row
        /\ \A u \in 1 .. Len(users) : users'[u] = users[u]
    BY <2>1, <2>2, <2>3
  <2>5. Unique'
    <3>1. \A u \in 1 .. Len(users) : users[u].name # row.name
      BY <1>2, UserRows DEF Taken
    <3> HIDE DEF row
    <3> SUFFICES ASSUME NEW u \in 1 .. Len(users'), NEW v \in 1 .. Len(users'),
                        users'[u].name = users'[v].name
                 PROVE u = v
      BY DEF Unique
    <3>2. CASE u \in 1 .. Len(users) /\ v \in 1 .. Len(users)
      BY <2>4, <3>2 DEF SessionsInv, Unique
    <3>3. CASE u = Len(users) + 1 \/ v = Len(users) + 1
      BY <2>3, <2>4, <3>1, <3>3
    <3> QED
      BY <2>3, <2>4, <3>2, <3>3
  <2> HIDE DEF row
  <2>6. Issued'
    BY <2>3, <2>4 DEF Create, SessionsInv, Issued
  <2>7. tab' = [u \in Tab |-> IF u = t THEN r ELSE tab[u]]
    BY <2>2 DEF SessionsInv
  <2>8. Known(tab[t])'
    BY <2>3, <2>4, <2>7 DEF Known, TabState
  <2>9. ASSUME NEW u \in Tab, u # t PROVE Known(tab[u])'
    <3>1. Known(tab[u]) /\ tab'[u] = tab[u]
      BY <2>7, <2>9 DEF SessionsInv
    <3>2. Len(proved) \in Nat /\ now \in Nat
      BY DEF SessionsInv, Issued
    <3>3. UNCHANGED <<proved, sessions, ended, now>>
      BY DEF Create
    <3> QED
      BY <2>3, <2>4, <3>1, <3>2, <3>3, StillKnown DEF Known
  <2> QED
    BY <2>4, <2>5, <2>6, <2>7, <2>8, <2>9 DEF SessionsInv, Create
<1> QED
  BY <1>1, <1>2

LEMMA LoginInv ==
  ASSUME SessionsInv, NEW t \in Tab, Login(t), UNCHANGED now
  PROVE SessionsInv'
<1>1. PICK u \in 1 .. Len(users) : tab' = [tab EXCEPT ![t] = [pc |-> "issue", user |-> u]]
  BY UserRows DEF Login, Matches
<1>2. Known([pc |-> "issue", user |-> u])
  BY DEF Known, TabState, SessionsInv
<1> QED
  BY <1>1, <1>2, OneTab DEF Login

\* The new token is nobody's: neither a session nor a logged out one has it.
LEMMA IssueInv ==
  ASSUME SessionsInv, NEW t \in Tab, Issue(t), UNCHANGED now
  PROVE SessionsInv'
<1> DEFINE k == Len(proved) + 1
           r == [pc |-> "answer", cookie |-> k]
<1>1. tab[t].pc = "issue" /\ tab[t].user \in 1 .. Len(users) /\ tab[t].user \in Nat
  BY DEF Issue, At, SessionsInv, Known
<1>2. /\ sessions' = [j \in DOMAIN sessions \cup {k} |->
                         IF j = k THEN [user |-> tab[t].user, expires |-> now + Life]
                         ELSE sessions[j]]
      /\ proved' = Append(proved, tab[t].user)
      /\ tab' = [tab EXCEPT ![t] = r]
      /\ UNCHANGED <<users, cookies, ended>>
  BY DEF Issue
<1>3. proved \in Seq(Nat) /\ Len(proved) \in Nat /\ Len(users) \in Nat /\ now \in Nat
  BY DEF SessionsInv, Issued
<1>4. /\ proved' \in Seq(Nat) /\ Len(proved') = k /\ proved'[k] = tab[t].user
      /\ \A j \in 1 .. Len(proved) : proved'[j] = proved[j]
  BY <1>1, <1>2, <1>3
<1>5. k \notin DOMAIN sessions /\ k \notin DOMAIN ended
  BY <1>3 DEF SessionsInv, Issued
<1>6. Issued'
  <2>1. \A j \in 1 .. Len(proved') : proved'[j] \in 1 .. Len(users')
    BY <1>1, <1>2, <1>3, <1>4 DEF SessionsInv, Issued
  <2>2. DOMAIN sessions' \subseteq 1 .. Len(proved')
    BY <1>2, <1>3, <1>4 DEF SessionsInv, Issued
  <2>3. \A j \in DOMAIN sessions' :
          sessions'[j] \in [user : Nat, expires : Nat] /\ sessions'[j].user = proved'[j]
    BY <1>1, <1>2, <1>3, <1>4 DEF SessionsInv, Issued
  <2>4. DOMAIN ended' \subseteq 1 .. Len(proved') \ DOMAIN sessions'
    BY <1>2, <1>3, <1>4, <1>5 DEF SessionsInv, Issued
  <2> QED
    BY <1>2, <1>4, <2>1, <2>2, <2>3, <2>4 DEF SessionsInv, Issued
<1>7. tab' = [u \in Tab |-> IF u = t THEN r ELSE tab[u]]
  BY <1>2 DEF SessionsInv
<1>8. Known(tab[t])'
  BY <1>3, <1>4, <1>7 DEF Known, TabState
<1>9. ASSUME NEW u \in Tab, u # t PROVE Known(tab[u])'
  <2>1. Known(tab[u]) /\ tab'[u] = tab[u]
    BY <1>7, <1>9 DEF SessionsInv
  <2>2. \A j \in DOMAIN sessions' \cap 1 .. Len(proved) :
          j \in DOMAIN sessions /\ sessions'[j] = sessions[j]
    BY <1>2, <1>3
  <2> QED
    BY <1>2, <1>3, <1>4, <2>1, <2>2, StillKnown DEF Known
<1>10. cookies' \in [Browsers -> 0 .. Len(proved')]
  BY <1>2, <1>3, <1>4 DEF SessionsInv
<1> QED
  BY <1>2, <1>6, <1>7, <1>8, <1>9, <1>10 DEF SessionsInv, Unique

LEMMA SetCookieInv ==
  ASSUME SessionsInv, NEW t \in Tab, SetCookie(t), UNCHANGED now
  PROVE SessionsInv'
<1>1. tab[t].pc = "answer" /\ tab[t].cookie \in 0 .. Len(proved)
  BY DEF SetCookie, At, SessionsInv, Known
<1>2. cookies' \in [Browsers -> 0 .. Len(proved)]
  BY <1>1 DEF SetCookie, SessionsInv, Browsers
<1>3. tab' = [u \in Tab |-> IF u = t THEN IdleTab ELSE tab[u]]
  BY DEF SetCookie, Answered, SessionsInv
<1>4. \A u \in Tab : Known(tab'[u])
  BY <1>3, IdleKnown DEF SessionsInv
<1>5. \A u \in Tab : Known(tab[u])'
  BY <1>4 DEF Known, SetCookie
<1> QED
  BY <1>2, <1>3, <1>5 DEF SessionsInv, Unique, Issued, SetCookie

LEMMA AnsweredInv ==
  ASSUME SessionsInv, NEW t \in Tab, IssueFails(t) \/ Serve(t), UNCHANGED now
  PROVE SessionsInv'
BY IdleKnown, OneTab DEF IssueFails, Serve, Answered

\* A token whose session a logout deleted has none, and its end is not before any
\* visit.  A logout that deletes nothing only clears the cookie.
LEMMA LogoutInv ==
  ASSUME SessionsInv, NEW t \in Tab, Logout(t), UNCHANGED now
  PROVE SessionsInv'
<1> DEFINE k == cookies[Browser[t]]
           r == [pc |-> "answer", cookie |-> NoToken]
<1>1. /\ tab' = [tab EXCEPT ![t] = r]
      /\ UNCHANGED <<users, cookies, proved, now>>
  BY DEF Logout
<1>2. Known(r)
  BY DEF Known, TabState, NoToken, SessionsInv, Issued
<1>3. CASE UNCHANGED <<sessions, ended>>
  BY <1>1, <1>2, <1>3, OneTab
<1>4. CASE /\ k # NoToken
           /\ sessions' = [j \in DOMAIN sessions \ {k} |-> sessions[j]]
           /\ ended' = [j \in DOMAIN ended \cup {k} |-> IF j \in DOMAIN ended THEN ended[j]
                                                        ELSE now]
  <2>1. k \in 1 .. Len(proved) /\ Len(proved) \in Nat /\ Len(users) \in Nat /\ now \in Nat
    BY <1>4 DEF SessionsInv, Issued, Browsers, NoToken
  <2> HIDE DEF k
  <2>2. Issued'
    BY <1>1, <1>4, <2>1 DEF SessionsInv, Issued
  <2>3. tab' = [u \in Tab |-> IF u = t THEN r ELSE tab[u]]
    BY <1>1 DEF SessionsInv
  <2>4. Known(tab[t])'
    BY <1>1, <2>1, <2>3 DEF Known, TabState, NoToken
  <2>5. ASSUME NEW u \in Tab, u # t PROVE Known(tab[u])'
    <3>1. Known(tab[u]) /\ tab'[u] = tab[u]
      BY <2>3, <2>5 DEF SessionsInv
    <3>2. \A j \in DOMAIN sessions' \cap 1 .. Len(proved) :
            j \in DOMAIN sessions /\ sessions'[j] = sessions[j]
      BY <1>4
    <3>3. \A j \in DOMAIN ended' : \/ j \in DOMAIN ended /\ ended'[j] = ended[j]
                                   \/ ended'[j] = now
      BY <1>4
    <3> QED
      BY <1>1, <2>1, <3>1, <3>2, <3>3, StillKnown DEF Known
  <2> QED
    BY <1>1, <1>4, <2>2, <2>3, <2>4, <2>5 DEF SessionsInv, Unique
<1> QED
  BY <1>3, <1>4 DEF Logout

LEMMA VisitInv ==
  ASSUME SessionsInv, NEW t \in Tab, Visit(t), UNCHANGED now
  PROVE SessionsInv'
<1>1. PICK route \in Route :
        tab' = [tab EXCEPT ![t] = [pc |-> "ask", token |-> cookies[Browser[t]], route |-> route]]
  BY DEF Visit
<1>2. cookies[Browser[t]] \in 0 .. Len(proved) /\ Len(proved) \in Nat
  BY DEF SessionsInv, Issued, Browsers
<1>3. Known([pc |-> "ask", token |-> cookies[Browser[t]], route |-> route])
  BY <1>2 DEF Known, TabState
<1> QED
  BY <1>1, <1>3, OneTab DEF Visit

\* Who is let in as a user now has a session, which is not over and was not
\* ended; who is let in without one is a guest, at an open route.
LEMMA RequireUserInv ==
  ASSUME SessionsInv, NEW t \in Tab, RequireUser(t), UNCHANGED now
  PROVE SessionsInv'
<1> DEFINE k == tab[t].token
           r == [pc |-> "serve", user |-> sessions[k].user, token |-> k, at |-> now]
           g == [pc |-> "serve", user |-> Guest, route |-> "open"]
<1>1. CASE Answered(t)
  BY <1>1, IdleKnown, OneTab DEF RequireUser, Answered
<1>2. CASE Lives(k) /\ tab' = [tab EXCEPT ![t] = r]
  <2>1. k \in DOMAIN sessions /\ now <= sessions[k].expires
    BY <1>2 DEF Lives
  <2>2. /\ k \in 1 .. Len(proved) /\ k \in Nat /\ k \notin DOMAIN ended /\ now \in Nat
        /\ sessions[k].user \in Nat /\ sessions[k].user = proved[k]
        /\ sessions[k].user \in 1 .. Len(users)
    BY <2>1 DEF SessionsInv, Issued
  <2> HIDE DEF k
  <2>3. Known(r)
    BY <2>1, <2>2, UserRows DEF Known, TabState, Guest
  <2> QED
    BY <1>2, <2>3, OneTab DEF RequireUser
<1>3. CASE tab' = [tab EXCEPT ![t] = g]
  <2>1. Known(g)
    BY DEF Known, TabState
  <2> QED
    BY <1>3, <2>1, OneTab DEF RequireUser
<1> QED
  BY <1>1, <1>2, <1>3 DEF RequireUser

LEMMA SessionsTickInv ==
  ASSUME SessionsInv, Tick \/ UNCHANGED now, UNCHANGED sessionVars
  PROVE SessionsInv'
<1>1. now \in Nat /\ now' \in Nat /\ now <= now'
  BY DEF SessionsInv, Tick
<1>2. Len(users) \in Nat /\ Len(proved) \in Nat
  BY DEF SessionsInv, Issued
<1>3. ASSUME NEW u \in Tab PROVE Known(tab[u])'
  <2>1. Known(tab[u]) /\ tab'[u] = tab[u]
    BY DEF SessionsInv, sessionVars
  <2> QED
    BY <1>1, <1>2, <2>1, StillKnown DEF Known, sessionVars
<1>4. Issued'
  BY <1>1 DEF SessionsInv, Issued, sessionVars
<1> QED
  BY <1>1, <1>3, <1>4 DEF SessionsInv, Unique, sessionVars

-----------------------------------------------------------------------------
(* The theorems.                                                           *)

\* The invariant above holds in every reachable state.
THEOREM SessionsInvariant == SessionsSpec => []SessionsInv
<1>1. ClockInit /\ SessionsInit => SessionsInv
  BY SessionsInitInv
<1>2. SessionsInv /\ [SessionsNext \/ (Tick /\ UNCHANGED sessionVars)]_<<now, sessionVars>>
        => SessionsInv'
  <2> SUFFICES ASSUME SessionsInv,
                      [SessionsNext \/ (Tick /\ UNCHANGED sessionVars)]_<<now, sessionVars>>
               PROVE SessionsInv'
    OBVIOUS
  <2>1. ASSUME NEW t \in Tab, UNCHANGED now,
               \/ Register(t) \/ Create(t) \/ Login(t) \/ Issue(t) \/ IssueFails(t)
               \/ SetCookie(t) \/ Logout(t) \/ Visit(t) \/ RequireUser(t) \/ Serve(t)
        PROVE SessionsInv'
    BY <2>1, RegisterInv, CreateInv, LoginInv, IssueInv, AnsweredInv, SetCookieInv,
       LogoutInv, VisitInv, RequireUserInv
  <2>2. CASE (Tick \/ UNCHANGED now) /\ UNCHANGED sessionVars
    BY <2>2, SessionsTickInv
  <2> QED
    BY <2>1, <2>2 DEF SessionsNext
<1> QED
  BY <1>1, <1>2, PTL DEF SessionsSpec

\* Users, sessions, cookies and requests are of their kinds.
THEOREM SessionsTypeCorrect == SessionsSpec => []SessionsTypeOK
<1>1. SessionsInv => SessionsTypeOK
  <2> SUFFICES ASSUME SessionsInv PROVE SessionsTypeOK
    OBVIOUS
  <2>1. Users = 1 .. Len(users) /\ DOMAIN proved = 1 .. Len(proved) /\ proved \in Seq(Users)
    <3>1. Users = 1 .. Len(users) /\ proved \in Seq(Nat)
      BY UserRows DEF SessionsInv, Issued
    <3>2. \A k \in 1 .. Len(proved) : proved[k] \in Users
      BY <3>1 DEF SessionsInv, Issued
    <3> QED
      BY <3>1, <3>2
  <2>2. \A k \in DOMAIN sessions : sessions[k] \in [user : Users, expires : Nat]
    <3>1. ASSUME NEW k \in DOMAIN sessions
          PROVE  sessions[k] \in [user : Users, expires : Nat]
      <4>1. sessions[k] \in [user : Nat, expires : Nat] /\ sessions[k].user = proved[k]
        BY DEF SessionsInv, Issued
      <4>2. proved[k] \in Users
        BY <2>1 DEF SessionsInv, Issued
      <4> QED
        BY <4>1, <4>2
    <3> QED
      BY <3>1
  <2>3. cookies \in [Browsers -> DOMAIN proved \cup {NoToken}]
    <3>1. Len(proved) \in Nat /\ 0 .. Len(proved) = DOMAIN proved \cup {NoToken}
      BY <2>1 DEF SessionsInv, Issued, NoToken
    <3> QED
      BY <3>1 DEF SessionsInv
  <2>4. \A t \in Tab : tab[t].pc \in {"idle", "create", "issue", "answer", "ask", "serve"}
    BY DEF SessionsInv, Known, TabState
  <2> QED
    BY <2>1, <2>2, <2>3, <2>4 DEF SessionsTypeOK, SessionsInv, Issued
<1> QED
  BY <1>1, SessionsInvariant, PTL

\* At most one user answers to a name, however registrations overlap.
THEOREM NamesUnambiguous == SessionsSpec => []NameUnambiguous
<1>1. SessionsInv => NameUnambiguous
  <2> SUFFICES ASSUME SessionsInv, NEW n \in Name
               PROVE Cardinality(Matches(n)) <= 1
    BY DEF NameUnambiguous
  <2>1. \A u, v \in Matches(n) : u = v
    <3> SUFFICES ASSUME NEW u \in Matches(n), NEW v \in Matches(n) PROVE u = v
      OBVIOUS
    <3>1. /\ u \in 1 .. Len(users) /\ users[u].email \in Typed
          /\ v \in 1 .. Len(users) /\ users[v].email \in Typed
      BY UserRows DEF Matches
    <3>2. users[u].name = n /\ users[v].name = n
      BY <3>1 DEF Matches
    <3> QED
      BY <3>1, <3>2 DEF SessionsInv, Unique
  <2>2. CASE Matches(n) = {}
    BY <2>2, FS_EmptySet
  <2>3. CASE Matches(n) # {}
    <3>1. PICK u : u \in Matches(n)
      BY <2>3
    <3>2. Matches(n) = {u}
      BY <2>1, <3>1
    <3>3. Cardinality({u}) = 1
      BY FS_Singleton
    <3> QED
      BY <3>2, <3>3
  <2> QED
    BY <2>2, <2>3
<1> QED
  BY <1>1, SessionsInvariant, PTL

\* A request is served as the user who logged in, within the session's time and
\* not after a logout deleted it, whatever other tabs have done since, or as a
\* guest where guests are served.
THEOREM VisitsAreExplained == SessionsSpec => []VisitsExplained
<1>1. SessionsInv => VisitsExplained
  <2> SUFFICES ASSUME SessionsInv, NEW t \in Tab, tab[t].pc = "serve"
               PROVE  IF tab[t].user = Guest THEN tab[t].route = "open"
                      ELSE LET k == tab[t].token
                           IN /\ tab[t].user = proved[k]
                              /\ k \in DOMAIN sessions => tab[t].at <= sessions[k].expires
                              /\ k \in DOMAIN ended => tab[t].at <= ended[k]
    BY DEF VisitsExplained, At
  <2>1. Known(tab[t])
    BY DEF SessionsInv
  <2>2. CASE tab[t].user = Guest
    BY <2>1, <2>2 DEF Known, TabState
  <2>3. CASE tab[t].user # Guest
    BY <2>1, <2>3 DEF Known
  <2> QED
    BY <2>2, <2>3
<1> QED
  BY <1>1, SessionsInvariant, PTL

-----------------------------------------------------------------------------
(* AdminAccess: any number of tabs, secrets and time steps.                *)

DeskState ==
  [pc : {"gate", "setup", "confirm", "disable", "guarded", "activate", "clear", "off"},
   then : {"setup", "confirm", "disable", "guarded"},
   code : [secret : Nat, step : Int], read : Nat]

\* A request knows secrets that were generated; one that is about to activate a
\* secret has seen a code of it.
Sound(r) ==
  /\ r \in {IdleDesk} \cup DeskState
  /\ r # IdleDesk =>
       /\ r.code.secret \in 0 .. generated /\ r.read \in 0 .. generated
       /\ r.pc \in {"activate", "clear", "off"} => r.read # NoSecret
       /\ r.pc = "activate" => r.read \in confirmed

\* The inductive invariant: requests are sound, and so is the active secret.
AdminInv ==
  /\ now \in 0 .. MaxTime
  /\ generated \in 0 .. MaxSecrets
  /\ active \in 0 .. generated /\ pending \in 0 .. generated
  /\ expires \in {NoCookie} \cup 0 .. MaxTime + MaxAge
  /\ confirmed \subseteq 1 .. generated
  /\ DOMAIN desk = Desk
  /\ desk = [d \in Desk |-> desk[d]]
  /\ \A d \in Desk : Sound(desk[d])
  /\ ActiveWasConfirmed

USE AdminAssumption

LEMMA StepIsInt == AdminInv => StepOf(now) \in Int
BY DEF AdminInv, StepOf

\* One request changes, and the rest of the state does not.
LEMMA OneRequest ==
  ASSUME AdminInv, NEW d \in Desk, NEW r, Sound(r), desk' = [desk EXCEPT ![d] = r],
         UNCHANGED <<active, pending, generated, expires, confirmed, now>>
  PROVE AdminInv'
<1>1. desk' = [e \in Desk |-> IF e = d THEN r ELSE desk[e]]
  BY DEF AdminInv
<1>2. \A e \in Desk : Sound(desk'[e])
  BY <1>1 DEF AdminInv
<1>3. \A e \in Desk : Sound(desk[e])'
  BY <1>2 DEF Sound
<1> QED
  BY <1>1, <1>3 DEF AdminInv, ActiveWasConfirmed

LEMMA IdleIsSound == Sound(IdleDesk)
BY DEF Sound

LEMMA AdminInitInv == ClockInit /\ AdminInit => AdminInv
BY IdleIsSound DEF ClockInit, AdminInit, AdminInv, NoSecret, NoCookie, ActiveWasConfirmed

LEMMA SessionInv ==
  ASSUME AdminInv, AdminLogin \/ AdminLogout, UNCHANGED now
  PROVE AdminInv'
BY DEF AdminInv, AdminLogin, AdminLogout, Sound, ActiveWasConfirmed, NoCookie

LEMMA AdminTickInv ==
  ASSUME AdminInv, Tick \/ UNCHANGED now, UNCHANGED adminVars
  PROVE AdminInv'
BY DEF AdminInv, Tick, adminVars, Sound, ActiveWasConfirmed, NoCookie

\* A request of a tab on its way to a handler.
LEMMA RequestInv ==
  ASSUME AdminInv, NEW d \in Desk, Request(d), UNCHANGED now
  PROVE AdminInv'
<1>1. PICK pc \in {"setup", "confirm", "disable", "guarded"}, s \in {NoSecret} \cup Secret :
        desk' = [desk EXCEPT ![d] =
          [pc |-> IF pc \in {"disable", "guarded"} THEN "gate" ELSE pc,
           then |-> pc, code |-> [secret |-> s, step |-> StepOf(now)], read |-> NoSecret]]
  BY DEF Request
<1> DEFINE r == [pc |-> IF pc \in {"disable", "guarded"} THEN "gate" ELSE pc,
                 then |-> pc, code |-> [secret |-> s, step |-> StepOf(now)], read |-> NoSecret]
<1>2. s \in Nat /\ s \in 0 .. generated
  BY DEF AdminInv, NoSecret, Secret
<1>3. r.pc \in {"gate", "setup", "confirm"}
  OBVIOUS
<1>4. r \in DeskState
  BY <1>2, <1>3, StepIsInt DEF DeskState, NoSecret
<1>5. Sound(r)
  BY <1>2, <1>3, <1>4 DEF Sound, AdminInv, NoSecret
<1> QED
  BY <1>1, <1>5, OneRequest DEF Request

\* What a tab with a request has there.
LEMMA BusyRow ==
  ASSUME AdminInv, NEW d \in Desk, NEW pc, On(d, pc), pc # "idle"
  PROVE desk[d] \in DeskState /\ desk[d] # IdleDesk /\ Sound(desk[d])
BY DEF AdminInv, Sound, On, IdleDesk

LEMMA GateInv ==
  ASSUME AdminInv, NEW d \in Desk, Gate(d) \/ Guarded(d), UNCHANGED now
  PROVE AdminInv'
<1>1. CASE Gate(d) /\ Goes(d, desk[d].then)
  <2> DEFINE r == [desk[d] EXCEPT !.pc = desk[d].then]
  <2>1. desk[d] \in DeskState /\ desk[d] # IdleDesk /\ Sound(desk[d])
    BY <1>1, BusyRow DEF Gate
  <2>2. r \in DeskState /\ r.pc = desk[d].then /\ r.code = desk[d].code /\ r.read = desk[d].read
    BY <2>1 DEF DeskState
  <2>3. r.pc \notin {"activate", "clear", "off"}
    BY <2>1, <2>2 DEF DeskState
  <2>4. Sound(r)
    BY <2>1, <2>2, <2>3 DEF Sound
  <2> QED
    BY <1>1, <2>4, OneRequest DEF Gate, Goes
<1>2. CASE (Gate(d) \/ Guarded(d)) /\ Closed(d)
  BY <1>2, IdleIsSound, OneRequest DEF Gate, Guarded, Closed
<1> QED
  BY <1>1, <1>2 DEF Gate, Guarded

\* A new secret: what was generated before still is.
LEMMA SetupInv ==
  ASSUME AdminInv, NEW d \in Desk, Setup(d), UNCHANGED now
  PROVE AdminInv'
<1>1. desk' = [e \in Desk |-> IF e = d THEN IdleDesk ELSE desk[e]]
  BY DEF AdminInv, Setup, Closed
<1>2. generated' \in 0 .. MaxSecrets /\ generated' = generated + 1 /\ generated \in Nat
  BY DEF AdminInv, Setup
<1>3. \A e \in Desk : Sound(desk[e])'
  BY <1>1, <1>2 DEF AdminInv, Setup, Sound
<1> QED
  BY <1>1, <1>2, <1>3 DEF AdminInv, Setup, ActiveWasConfirmed, NoCookie

\* A confirmation that has seen a code of the pending secret.
LEMMA ConfirmInv ==
  ASSUME AdminInv, NEW d \in Desk, Confirm(d), UNCHANGED now
  PROVE AdminInv'
<1>1. CASE Closed(d) /\ UNCHANGED confirmed
  BY <1>1, IdleIsSound, OneRequest DEF Confirm, Closed
<1>2. CASE /\ pending # NoSecret
           /\ desk' = [desk EXCEPT ![d].pc = "activate", ![d].read = pending]
           /\ confirmed' = confirmed \cup {pending}
  <2> DEFINE r == [[desk[d] EXCEPT !.pc = "activate"] EXCEPT !.read = pending]
  <2>1. desk[d] \in DeskState /\ desk[d] # IdleDesk /\ Sound(desk[d])
    BY BusyRow DEF Confirm
  <2>2. desk' = [e \in Desk |-> IF e = d THEN r ELSE desk[e]]
    BY <1>2, <2>1 DEF AdminInv, DeskState
  <2>3. pending \in 1 .. generated /\ pending \in Nat
    BY <1>2 DEF AdminInv, NoSecret
  <2>4. r \in DeskState /\ r.pc = "activate" /\ r.read = pending /\ r.code = desk[d].code
    BY <2>1, <2>3 DEF DeskState
  <2>5. \A e \in Desk : Sound(desk[e])'
    <3>1. desk'[d] = r /\ generated' = generated /\ pending \in confirmed'
      BY <1>2, <2>2 DEF Confirm
    <3> HIDE DEF r
    <3>2. \A e \in Desk : Sound(desk[e]) => (e # d => Sound(desk[e])')
      BY <1>2, <2>2 DEF Confirm, Sound
    <3>3. r.code.secret \in 0 .. generated /\ r # IdleDesk
      BY <2>1, <2>4 DEF Sound, IdleDesk, DeskState
    <3>4. Sound(desk[d])'
      BY <1>2, <2>3, <2>4, <3>1, <3>3 DEF Sound
    <3> QED
      BY <3>2, <3>4 DEF AdminInv
  <2>6. confirmed' \subseteq 1 .. generated
    BY <1>2, <2>3 DEF AdminInv
  <2> QED
    BY <1>2, <2>2, <2>5, <2>6 DEF AdminInv, Confirm, ActiveWasConfirmed, NoCookie
<1> QED
  BY <1>1, <1>2 DEF Confirm

\* The secret that becomes active was confirmed when its code was seen, however
\* the settings have changed since.
LEMMA ActivateInv ==
  ASSUME AdminInv, NEW d \in Desk, Activate(d), UNCHANGED now
  PROVE AdminInv'
<1> DEFINE r == [desk[d] EXCEPT !.pc = "clear"]
<1>1. desk[d] \in DeskState /\ desk[d] # IdleDesk /\ Sound(desk[d]) /\ desk[d].pc = "activate"
  BY BusyRow DEF Activate, On
<1>2. desk[d].read \in confirmed /\ desk[d].read \in 1 .. generated
  BY <1>1 DEF Sound, AdminInv
<1>3. r \in DeskState /\ r.pc = "clear" /\ r.read = desk[d].read /\ r.code = desk[d].code
  BY <1>1 DEF DeskState
<1>4. Sound(r)
  BY <1>1, <1>2, <1>3 DEF Sound, NoSecret, AdminInv
<1>5. desk' = [e \in Desk |-> IF e = d THEN r ELSE desk[e]]
  BY <1>1 DEF AdminInv, Activate, Goes
<1>6. active' \in 0 .. generated /\ ActiveWasConfirmed'
  BY <1>2 DEF Activate, Confirmed, AdminInv, ActiveWasConfirmed, NoSecret
<1>7. \A e \in Desk : Sound(desk[e])'
  BY <1>4, <1>5 DEF AdminInv, Activate, Sound
<1> QED
  BY <1>5, <1>6, <1>7 DEF AdminInv, Activate, NoCookie

LEMMA ClearPendingInv ==
  ASSUME AdminInv, NEW d \in Desk, ClearPending(d), UNCHANGED now
  PROVE AdminInv'
<1>1. desk' = [e \in Desk |-> IF e = d THEN IdleDesk ELSE desk[e]]
  BY DEF AdminInv, ClearPending, Closed
<1>2. \A e \in Desk : Sound(desk[e])'
  BY <1>1 DEF AdminInv, ClearPending, Sound
<1> QED
  BY <1>1, <1>2 DEF AdminInv, ClearPending, ActiveWasConfirmed, NoSecret, NoCookie

LEMMA DisableInv ==
  ASSUME AdminInv, NEW d \in Desk, Disable(d), UNCHANGED now
  PROVE AdminInv'
<1>1. CASE Closed(d)
  BY <1>1, IdleIsSound, OneRequest DEF Disable, Closed
<1>2. CASE active # NoSecret /\ desk' = [desk EXCEPT ![d].pc = "off", ![d].read = active]
  <2> DEFINE r == [[desk[d] EXCEPT !.pc = "off"] EXCEPT !.read = active]
  <2>1. desk[d] \in DeskState /\ desk[d] # IdleDesk /\ Sound(desk[d])
    BY BusyRow DEF Disable
  <2>2. active \in Nat /\ active \in 0 .. generated
    BY DEF AdminInv
  <2>3. r \in DeskState /\ r.pc = "off" /\ r.read = active /\ r.code = desk[d].code
    BY <2>1, <2>2 DEF DeskState
  <2>4. Sound(r)
    BY <1>2, <2>1, <2>2, <2>3 DEF Sound
  <2>5. desk' = [desk EXCEPT ![d] = r]
    BY <1>2, <2>1 DEF AdminInv, DeskState
  <2> QED
    BY <2>4, <2>5, OneRequest DEF Disable
<1> QED
  BY <1>1, <1>2 DEF Disable

LEMMA OffInv ==
  ASSUME AdminInv, NEW d \in Desk, Off(d), UNCHANGED now
  PROVE AdminInv'
<1>1. desk' = [e \in Desk |-> IF e = d THEN IdleDesk ELSE desk[e]]
  BY DEF AdminInv, Off, Closed
<1>2. \A e \in Desk : Sound(desk[e])'
  BY <1>1 DEF AdminInv, Off, Sound
<1> QED
  BY <1>1, <1>2 DEF AdminInv, Off, ActiveWasConfirmed, NoSecret, NoCookie

\* The invariant above holds in every reachable state.
THEOREM AdminInvariant == AdminSpec => []AdminInv
<1>1. ClockInit /\ AdminInit => AdminInv
  BY AdminInitInv
<1>2. AdminInv /\ [AdminNext \/ (Tick /\ UNCHANGED adminVars)]_<<now, adminVars>> => AdminInv'
  <2> SUFFICES ASSUME AdminInv, [AdminNext \/ (Tick /\ UNCHANGED adminVars)]_<<now, adminVars>>
               PROVE AdminInv'
    OBVIOUS
  <2>1. CASE (AdminLogin \/ AdminLogout) /\ UNCHANGED now
    BY <2>1, SessionInv
  <2>2. ASSUME NEW d \in Desk, UNCHANGED now,
               \/ Request(d) \/ Gate(d) \/ Guarded(d) \/ Setup(d) \/ Confirm(d)
               \/ Activate(d) \/ ClearPending(d) \/ Disable(d) \/ Off(d)
        PROVE AdminInv'
    BY <2>2, RequestInv, GateInv, SetupInv, ConfirmInv, ActivateInv, ClearPendingInv,
       DisableInv, OffInv
  <2>3. CASE (Tick \/ UNCHANGED now) /\ UNCHANGED adminVars
    BY <2>3, AdminTickInv
  <2> QED
    BY <2>1, <2>2, <2>3 DEF AdminNext
<1> QED
  BY <1>1, <1>2, PTL DEF AdminSpec

\* Settings, cookie and requests hold what was generated.
THEOREM AdminTypeCorrect == AdminSpec => []AdminTypeOK
<1>1. AdminInv => AdminTypeOK
  BY DEF AdminInv, Sound, AdminTypeOK, Secret, NoSecret, NoCookie, On, IdleDesk
<1> QED
  BY <1>1, AdminInvariant, PTL

\* The secret whose codes the back office asks for is one a confirmation has seen
\* a code of, for any number of overlapping tabs.
THEOREM OnlyConfirmedActive == AdminSpec => []ActiveWasConfirmed
<1>1. AdminInv => ActiveWasConfirmed
  BY DEF AdminInv
<1> QED
  BY <1>1, AdminInvariant, PTL

-----------------------------------------------------------------------------
(* Access: the composition of the three with the pages of Browsing.        *)

\* The rate limiter of Access is that of LimiterSpec.
LEMMA LimiterIsPart == AccessSpec => LimiterSpec
<1>1. AccessInit => ClockInit /\ LimiterInit
  BY DEF AccessInit
<1>2. [AccessNext]_accessVars
        => [LimiterNext \/ (Tick /\ UNCHANGED limiterVars)]_<<now, limiterVars>>
  BY DEF AccessNext, accessVars, SessionsNext, AdminNext, limiterVars
<1> QED
  BY <1>1, <1>2, PTL DEF AccessSpec, LimiterSpec

\* Its users and sessions are those of SessionsSpec.
LEMMA SessionsArePart == AccessSpec => SessionsSpec
<1>1. AccessInit => ClockInit /\ SessionsInit
  BY DEF AccessInit
<1>2. [AccessNext]_accessVars
        => [SessionsNext \/ (Tick /\ UNCHANGED sessionVars)]_<<now, sessionVars>>
  BY DEF AccessNext, accessVars, LimiterNext, AdminNext, sessionVars
<1> QED
  BY <1>1, <1>2, PTL DEF AccessSpec, SessionsSpec

\* Its one-time codes are those of AdminSpec.
LEMMA AdminIsPart == AccessSpec => AdminSpec
<1>1. AccessInit => ClockInit /\ AdminInit
  BY DEF AccessInit
<1>2. [AccessNext]_accessVars
        => [AdminNext \/ (Tick /\ UNCHANGED adminVars)]_<<now, adminVars>>
  BY DEF AccessNext, accessVars, LimiterNext, SessionsNext, adminVars
<1> QED
  BY <1>1, <1>2, PTL DEF AccessSpec, AdminSpec

\* Its lists are Browsing's: the inductive invariant holds of them.
THEOREM BrowsingInvariant == AccessSpec => []BrowsingInv
<1>1. AccessInit => BrowsingInv
  BY BrowsingInitInv DEF AccessInit
<1>2. BrowsingInv /\ [AccessNext]_accessVars => BrowsingInv'
  <2>1. [AccessNext]_accessVars => BrowsingNext \/ UNCHANGED browsingVars
    BY DEF AccessNext, accessVars, browsingVars
  <2> QED
    BY <2>1, BrowsingNextInv
<1> QED
  BY <1>1, <1>2, PTL DEF AccessSpec

\* However rows come, go and move while somebody reads page after page, the rows
\* missed and met again are explained by those that left and joined.
THEOREM WalksExplained == AccessSpec => []WalkExplained
<1>1. BrowsingInv => WalkExplained
  <2> SUFFICES ASSUME BrowsingInv PROVE WalkExplained
    OBVIOUS
  <2>1. Cardinality(Again) \in Nat /\ Cardinality(Returning) \in Nat /\ come \in Nat
    BY CountedNow DEF BrowsingInv
  <2>2. Cardinality(Again) + Cardinality(Returning) <= come => Cardinality(Again) <= come
    BY <2>1
  <2> QED
    BY <2>2 DEF BrowsingInv, WalkPaid, WalkExplained
<1> QED
  BY <1>1, BrowsingInvariant, PTL

\* Tables, maps and requests of all four are what their code makes of them.
THEOREM AccessTypeCorrect == AccessSpec => []AccessTypeOK
<1>1. BrowsingInv => BrowsingTypeOK
  BY DEF BrowsingInv, Shelves, BrowsingTypeOK, Listing
<1>2. LimiterTypeOK /\ SessionsTypeOK /\ AdminTypeOK /\ BrowsingTypeOK => AccessTypeOK
  BY DEF AccessTypeOK
<1> QED
  BY <1>1, <1>2, LimiterIsPart, LimiterTypeCorrect, SessionsArePart, SessionsTypeCorrect,
     AdminIsPart, AdminTypeCorrect, BrowsingInvariant, PTL

\* What the parts promise, the composition keeps: the rate of every key, the user
\* behind every name and every visit, the secret behind the codes.
THEOREM PartsKeepPromises ==
  AccessSpec => [](RateBound /\ NameUnambiguous /\ VisitsExplained /\ ActiveWasConfirmed)
BY LimiterIsPart, RateKept, SessionsArePart, NamesUnambiguous, VisitsAreExplained,
   AdminIsPart, OnlyConfirmedActive, PTL
=============================================================================
