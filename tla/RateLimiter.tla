----------------------------- MODULE RateLimiter -----------------------------
(***************************************************************************)
(* The token buckets of internal/api/middleware.go, which limit the public *)
(* API by address and the checkout by user.  allow holds the mutex from    *)
(* its reading of the clock to its answer, so a call is one step.          *)
(***************************************************************************)
EXTENDS Clock

CONSTANTS
  Key,          \* addresses, or routes of users
  Rate,         \* tokens a minute, and the size of a bucket
  Minute        \* units of the clock in a minute

ASSUME RateAssumption == Rate \in Nat \ {0} /\ Minute \in Nat \ {0}

VARIABLES
  buckets,      \* the map: a function from the keys seen to buckets
  since         \* history: how many calls of each key were allowed from each time on

limiterVars == <<buckets, since>>

Bucket == [tokens : 0 .. Rate, lastFill : 0 .. MaxTime]

LimiterInit ==
  /\ buckets = [k \in {} |-> 0]
  /\ since = [k \in Key |-> [t \in 0 .. MaxTime |-> 0]]

Least(a, b) == IF a < b THEN a ELSE b

\* Tokens come in whole ones only, and the bucket's clock stands still until
\* one has come.
AddBack(b) == ((now - b.lastFill) * Rate) \div Minute

\* Defects: what idle minutes bring is not capped; the bucket's clock stands still.
Overfilled(b) ==
  IF AddBack(b) > 0 THEN [tokens |-> b.tokens + AddBack(b), lastFill |-> now] ELSE b
RefilledAgain(b) == [b EXCEPT !.tokens = Least(@ + AddBack(b), Rate)]

Refilled(b) ==
  IF AddBack(b) > 0
  THEN [tokens |-> Least(b.tokens + AddBack(b), Rate), lastFill |-> now]
  ELSE b

\* The bucket allow looks at: a key not seen before gets a full one.
Current(k) ==
  Refilled(IF k \in DOMAIN buckets THEN buckets[k] ELSE [tokens |-> Rate, lastFill |-> now])

SetBucket(k, b) ==
  buckets' = [j \in DOMAIN buckets \cup {k} |-> IF j = k THEN b ELSE buckets[j]]

\* allow, when a token is left and when none is.
Allow(k) ==
  /\ Current(k).tokens > 0
  /\ SetBucket(k, [Current(k) EXCEPT !.tokens = @ - 1])
  /\ since' = [since EXCEPT ![k] = [s \in 0 .. MaxTime |-> IF s <= now THEN @[s] + 1 ELSE @[s]]]
Deny(k) ==
  /\ Current(k).tokens <= 0
  /\ SetBucket(k, Current(k))
  /\ UNCHANGED since

LimiterNext == \E k \in Key : (Allow(k) \/ Deny(k)) /\ UNCHANGED now

LimiterSpec ==
  /\ ClockInit /\ LimiterInit
  /\ [][LimiterNext \/ (Tick /\ UNCHANGED limiterVars)]_<<now, limiterVars>>

-----------------------------------------------------------------------------
LimiterTypeOK ==
  /\ DOMAIN buckets \subseteq Key
  /\ \A k \in DOMAIN buckets : buckets[k] \in Bucket /\ buckets[k].lastFill <= now
  /\ since \in [Key -> [0 .. MaxTime -> Nat]]

\* However calls and ticks fall, no stretch of time allows a key more calls than
\* a full bucket and the tokens of that stretch: what truncation keeps back in
\* the bucket's clock is never paid out twice.
RateBound ==
  \A k \in Key : \A s \in 0 .. now : since[k][s] <= Rate + ((now - s) * Rate) \div Minute
=============================================================================
