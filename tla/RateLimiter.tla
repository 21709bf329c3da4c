---------------------------- MODULE RateLimiter ------------------------------
(***************************************************************************)
(* The token bucket of internal/api/ratelimit.go: one bucket for each key  *)
(* that has been seen, refilled for the time since its last request and    *)
(* dropped when it has been idle for long.  Allow holds the limiter's      *)
(* mutex, so one call is one step.                                         *)
(*                                                                         *)
(* Tokens are counted in fractions of which Unit make a whole one; the     *)
(* rounding of floating point is left out.                                 *)
(***************************************************************************)
EXTENDS Integers

CONSTANTS
  Keys,                      \* client addresses, with or without a path
  Burst,                     \* whole tokens
  Rate,                      \* fractions of a token for each tick
  Unit,
  SweepInterval, BucketTTL,
  MaxNow                     \* bound on the clock

\* All four limits of the program are full again before a bucket is dropped.
ASSUME RateLimiterAssumption ==
  /\ Burst \in Nat \ {0} /\ Rate \in Nat /\ Unit \in Nat \ {0}
  /\ SweepInterval \in Nat /\ BucketTTL \in Nat
  /\ BucketTTL * Rate >= Burst * Unit
  /\ MaxNow \in Nat

VARIABLES
  now,
  buckets,         \* [keys with a bucket -> Bucket]
  lastSweep,
  since            \* for each key and moment, the requests allowed since then

limiter == <<buckets, lastSweep, since>>

Full == Burst * Unit
Bucket == [tokens : 0 .. Full, lastSeen : Nat]
Moments == 0 .. MaxNow

LimiterInit ==
  /\ now = 0
  /\ buckets = [k \in {} |-> 0]
  /\ lastSweep = -SweepInterval
  /\ since = [k \in Keys |-> [t \in Moments |-> 0]]

SweepDue == now - lastSweep >= SweepInterval

\* Mutant: a bucket is dropped as soon as it is idle.
Kept_Busy == {k \in DOMAIN buckets : SweepDue => buckets[k].lastSeen = now}
\* sweepLocked: the keys whose bucket survives.
Kept ==
  {k \in DOMAIN buckets : SweepDue => now - buckets[k].lastSeen <= BucketTTL}

\* What the key has to spend now.
Tokens(k) ==
  IF k \notin Kept THEN Full
  ELSE LET refilled == buckets[k].tokens + (now - buckets[k].lastSeen) * Rate
       IN  IF refilled < Full THEN refilled ELSE Full

\* Allow, for a request that may proceed (spent = Unit) or not (spent = 0).
Spend(k, spent) ==
  /\ buckets' = [x \in Kept \cup {k} |->
       IF x = k THEN [tokens |-> Tokens(k) - spent, lastSeen |-> now] ELSE buckets[x]]
  /\ lastSweep' = IF SweepDue THEN now ELSE lastSweep

Allow(k) ==
  /\ Tokens(k) >= Unit
  /\ Spend(k, Unit)
  /\ since' = [since EXCEPT ![k] = [t \in Moments |-> IF t <= now THEN @[t] + 1 ELSE @[t]]]

Refuse(k) == Tokens(k) < Unit /\ Spend(k, 0) /\ UNCHANGED since

LimiterTypeOK ==
  /\ now \in Nat
  /\ DOMAIN buckets \subseteq Keys
  /\ \A k \in DOMAIN buckets : buckets[k] \in Bucket
  /\ lastSweep \in Int
  /\ since \in [Keys -> [Moments -> Nat]]

\* Over any stretch of time that ends now, a key was allowed no more than the
\* burst and what the rate adds, wherever in the stretch its bucket was
\* dropped and made anew.
NoMoreThanTheRate ==
  \A k \in Keys : \A t \in 0 .. now :
    since[k][t] * Unit <= Full + Rate * (now - t)
==============================================================================
