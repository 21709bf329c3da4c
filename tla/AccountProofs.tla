---------------------------- MODULE AccountProofs ----------------------------
(***************************************************************************)
(* Accounts: proofs about LoginBrakes, with the RateLimiter it is built on *)
(* (who may try to log in), and about Onboarding (how organizations and    *)
(* accounts come to be), for any number of calls, addresses,               *)
(* organizations, accounts and subjects, any rates, thresholds, durations  *)
(* and bounds. The two share no variable; each part has an invariant of    *)
(* its own, BrakesIInv and OnboardingIInv.                                 *)
(***************************************************************************)
EXTENDS Onboarding, LoginBrakes, TLAPS

-----------------------------------------------------------------------------
(***************************************************************************)
(* The brakes on logging in.                                               *)
(*                                                                         *)
(* The argument for the rate: what a key may still spend, added to what it *)
(* has been allowed since any moment, is within the burst and what the     *)
(* rate has added since (Budget). Dropping an idle bucket does not change  *)
(* what the key may spend, because by then it was full (TokensAreTheRest). *)
(***************************************************************************)

(* What the key may spend now, had nothing been swept.                      *)
Rest(k) ==
  IF k \notin DOMAIN buckets THEN Full
  ELSE LET refilled == buckets[k].tokens + (now - buckets[k].lastSeen) * Rate
       IN  IF refilled < Full THEN refilled ELSE Full

Budget ==
  \A k \in Keys :
    /\ \A t \in 0 .. now : since[k][t] * Unit + Rest(k) <= Full + Rate * (now - t)
    /\ \A t \in Moments : t > now => since[k][t] = 0

Clock ==
  /\ now <= MaxNow
  /\ \A k \in DOMAIN buckets : buckets[k].lastSeen <= now

Limiter == LimiterTypeOK /\ Clock /\ Budget

Windows ==
  /\ \A c \in Calls : at[c] <= now
  /\ \A c \in Calls : until[c] <= now + MaxLockoutDuration
  /\ \A c \in Calls : pc[c] = "locking" => until[c] # 0

Straddling == Locked => PastCheck \subseteq straddlers

BrakesIInv ==
  /\ TypeOK /\ Limiter /\ Windows /\ ThresholdLocks /\ LockIsCapped /\ Straddling
-----------------------------------------------------------------------------
(* The token bucket.                                                        *)

LEMMA ProductsAreNaturals ==
  ASSUME NEW a \in Nat, NEW b \in Nat
  PROVE  a * b \in Nat
OBVIOUS

LEMMA ProductsGrow ==
  ASSUME NEW a \in Nat, NEW b \in Nat, NEW r \in Nat, a <= b
  PROVE  a * r <= b * r
OBVIOUS

LEMMA OneMore ==
  ASSUME NEW a \in Int, NEW r \in Int
  PROVE  (a + 1) * r = a * r + r /\ r * (a + 1) = r * a + r
OBVIOUS

LEMMA Constants ==
  /\ Full \in Nat /\ Rate \in Nat /\ Unit \in Nat /\ BucketTTL \in Nat
  /\ MaxNow \in Nat /\ BucketTTL * Rate >= Full
BY RateLimiterAssumption, ProductsAreNaturals DEF Full

LEMMA Buckets ==
  ASSUME LimiterTypeOK, Clock, NEW k \in DOMAIN buckets
  PROVE  /\ buckets[k].tokens \in Nat /\ buckets[k].tokens <= Full
         /\ buckets[k].lastSeen \in Nat /\ now - buckets[k].lastSeen \in Nat
         /\ (now - buckets[k].lastSeen) * Rate \in Nat
<1>1. /\ buckets[k].tokens \in 0 .. Full /\ buckets[k].lastSeen \in Nat
      /\ buckets[k].lastSeen <= now /\ now \in Nat
  BY DEF LimiterTypeOK, Clock, Bucket
<1>2. now - buckets[k].lastSeen \in Nat
  BY <1>1
<1>3. (now - buckets[k].lastSeen) * Rate \in Nat
  BY <1>2, Constants, ProductsAreNaturals
<1> QED BY <1>1, <1>2, <1>3, Constants

LEMMA RestIsWithin ==
  ASSUME LimiterTypeOK, Clock, NEW k
  PROVE  Rest(k) \in Nat /\ Rest(k) <= Full
<1>1. CASE k \in DOMAIN buckets
  BY <1>1, Buckets, Constants DEF Rest
<1>2. CASE k \notin DOMAIN buckets
  BY <1>2, Constants DEF Rest
<1> QED BY <1>1, <1>2

(* The sweep drops a bucket only when it is full, so what a key has to      *)
(* spend is what it had without the sweep.                                  *)
LEMMA SweptWereFull ==
  ASSUME LimiterTypeOK, Clock, NEW k \in DOMAIN buckets, k \notin Kept
  PROVE  Rest(k) = Full
<1> DEFINE idle == now - buckets[k].lastSeen
<1>1. idle \in Nat /\ idle * Rate \in Nat /\ buckets[k].tokens \in Nat
  BY Buckets
<1>2. ~(idle <= BucketTTL)
  BY DEF Kept
<1> HIDE DEF idle
<1>3. BucketTTL * Rate <= idle * Rate /\ BucketTTL * Rate \in Nat
  BY <1>1, <1>2, Constants, ProductsGrow, ProductsAreNaturals
<1>4. ~(buckets[k].tokens + idle * Rate < Full)
  BY <1>1, <1>3, Constants
<1> QED BY <1>4 DEF Rest, idle

LEMMA TokensAreTheRest ==
  ASSUME LimiterTypeOK, Clock, NEW k
  PROVE  Tokens(k) = Rest(k)
<1>1. Kept \subseteq DOMAIN buckets
  BY DEF Kept
<1>2. CASE k \in Kept
  BY <1>1, <1>2 DEF Tokens, Rest
<1>3. CASE k \in DOMAIN buckets \ Kept
  BY <1>3, SweptWereFull DEF Tokens
<1>4. CASE k \notin DOMAIN buckets
  BY <1>1, <1>4 DEF Tokens, Rest
<1> QED BY <1>2, <1>3, <1>4

(* Spending takes from the key's own rest and from nobody else's.           *)
LEMMA SpendTakes ==
  ASSUME LimiterTypeOK, Clock, NEW k \in Keys, NEW n \in Nat, n <= Tokens(k),
         Spend(k, n), now' = now
  PROVE  /\ now' \in Nat /\ DOMAIN buckets' \subseteq Keys
         /\ \A x \in DOMAIN buckets' : buckets'[x] \in Bucket
         /\ lastSweep' \in Int
         /\ Clock'
         /\ Rest(k)' = Rest(k) - n
         /\ \A x \in Keys \ {k} : Rest(x)' = Rest(x)
<1> DEFINE left == Tokens(k) - n
<1>1. Tokens(k) = Rest(k) /\ Rest(k) \in Nat /\ Rest(k) <= Full /\ now \in Nat
  BY TokensAreTheRest, RestIsWithin DEF LimiterTypeOK
<1>2. left \in 0 .. Full
  BY <1>1, Constants
<1>3. /\ DOMAIN buckets' = Kept \cup {k}
      /\ buckets'[k] = [tokens |-> left, lastSeen |-> now]
      /\ \A x \in Kept \ {k} : buckets'[x] = buckets[x]
      /\ lastSweep' = IF SweepDue THEN now ELSE lastSweep
  BY DEF Spend
<1>4. Kept \subseteq DOMAIN buckets /\ DOMAIN buckets \subseteq Keys
  BY DEF Kept, LimiterTypeOK
<1> HIDE DEF left
<1>5. [tokens |-> left, lastSeen |-> now] \in Bucket
  BY <1>1, <1>2 DEF Bucket
<1>6. \A x \in DOMAIN buckets' : buckets'[x] \in Bucket
  BY <1>3, <1>4, <1>5 DEF LimiterTypeOK
<1>7. Clock'
  BY <1>1, <1>3, <1>4 DEF Clock
<1>8. Rest(k)' = Rest(k) - n
  <2>1. (now - now) * Rate = 0
    BY <1>1, Constants
  <2>2. left + 0 = left /\ (left < Full \/ left = Full)
    BY <1>2, Constants
  <2>3. Full' = Full
    BY DEF Full
  <2>4. Rest(k)' = left
    BY <1>3, <2>1, <2>2, <2>3 DEF Rest
  <2> QED BY <1>1, <2>4 DEF left
<1>9. ASSUME NEW x \in Keys \ {k}
      PROVE  Rest(x)' = Rest(x)
  <2>1. Full' = Full
    BY DEF Full
  <2>2. CASE x \in Kept
    BY <1>3, <1>4, <2>1, <2>2 DEF Rest
  <2>3. CASE x \in DOMAIN buckets \ Kept
    <3>1. Rest(x) = Full
      BY <2>3, SweptWereFull
    <3> QED BY <1>3, <2>1, <2>3, <3>1 DEF Rest
  <2>4. CASE x \notin DOMAIN buckets
    BY <1>3, <1>4, <2>1, <2>4 DEF Rest
  <2> QED BY <2>2, <2>3, <2>4
<1> QED BY <1>1, <1>3, <1>4, <1>6, <1>7, <1>8, <1>9 DEF LimiterTypeOK

LEMMA RefusePreserves ==
  ASSUME Limiter, NEW k \in Keys, Refuse(k), now' = now
  PROVE  Limiter'
<1>1. Spend(k, 0) /\ since' = since
  BY DEF Refuse
<1>2. Rest(k) \in Nat /\ Tokens(k) = Rest(k)
  BY RestIsWithin, TokensAreTheRest DEF Limiter
<1>3. /\ now' \in Nat /\ DOMAIN buckets' \subseteq Keys
      /\ \A x \in DOMAIN buckets' : buckets'[x] \in Bucket
      /\ lastSweep' \in Int
      /\ Clock'
      /\ Rest(k)' = Rest(k) - 0
      /\ \A x \in Keys \ {k} : Rest(x)' = Rest(x)
  BY <1>1, <1>2, SpendTakes DEF Limiter
<1>4. \A x \in Keys : Rest(x)' = Rest(x)
  BY <1>2, <1>3
<1>5. LimiterTypeOK'
  BY <1>1, <1>3 DEF Limiter, LimiterTypeOK
<1>6. Budget'
  <2> SUFFICES ASSUME NEW x \in Keys
               PROVE  /\ \A t \in 0 .. now :
                           since[x][t] * Unit + Rest(x) <= (Full + Rate * (now - t))'
                      /\ \A t \in Moments : t > now => since[x][t] = 0
    BY <1>1, <1>4 DEF Budget
  <2> QED BY DEF Full, Limiter, Budget
<1> QED BY <1>3, <1>5, <1>6 DEF Limiter

(* A request that is allowed takes one token, which is one more request     *)
(* since every moment up to now.                                            *)
LEMMA AllowPreserves ==
  ASSUME Limiter, NEW k \in Keys, Allow(k), now' = now
  PROVE  Limiter'
<1>1. /\ Tokens(k) >= Unit /\ Spend(k, Unit)
      /\ since' = [since EXCEPT ![k] =
           [t \in Moments |-> IF t <= now THEN since[k][t] + 1 ELSE since[k][t]]]
  BY DEF Allow
<1>2. /\ Rest(k) \in Nat /\ Rest(k) <= Full /\ Tokens(k) = Rest(k)
      /\ now \in Nat /\ now <= MaxNow
      /\ since \in [Keys -> [Moments -> Nat]]
  BY RestIsWithin, TokensAreTheRest DEF Limiter, LimiterTypeOK, Clock
<1>3. /\ now' \in Nat /\ DOMAIN buckets' \subseteq Keys
      /\ \A x \in DOMAIN buckets' : buckets'[x] \in Bucket
      /\ lastSweep' \in Int
      /\ Clock'
      /\ Rest(k)' = Rest(k) - Unit
      /\ \A x \in Keys \ {k} : Rest(x)' = Rest(x)
  BY <1>1, <1>2, Constants, SpendTakes DEF Limiter
<1>4. /\ since' \in [Keys -> [Moments -> Nat]]
      /\ \A x \in Keys \ {k} : since'[x] = since[x]
      /\ \A t \in Moments : since'[k][t] = IF t <= now THEN since[k][t] + 1 ELSE since[k][t]
  BY <1>1, <1>2
<1>5. LimiterTypeOK'
  BY <1>3, <1>4 DEF LimiterTypeOK
<1>6. Full' = Full
  BY DEF Full
<1>7. ASSUME NEW t \in 0 .. now
      PROVE  since'[k][t] * Unit + Rest(k)' <= Full + Rate * (now - t)
  <2>1. t \in Moments /\ t <= now /\ now - t \in Nat
    BY <1>2, Constants DEF Moments
  <2>2. since[k][t] \in Nat
    BY <1>2, <2>1
  <2>3. since'[k][t] * Unit = since[k][t] * Unit + Unit
    BY <1>4, <2>1, <2>2, Constants, OneMore
  <2>4. since[k][t] * Unit \in Nat /\ Rate * (now - t) \in Nat
    BY <2>1, <2>2, Constants, ProductsAreNaturals
  <2>5. since[k][t] * Unit + Rest(k) <= Full + Rate * (now - t)
    BY <2>1 DEF Limiter, Budget
  <2> QED BY <1>2, <1>3, <2>3, <2>4, <2>5, Constants
<1>8. \A t \in Moments : t > now => since'[k][t] = 0
  BY <1>2, <1>4, Constants DEF Limiter, Budget, Moments
<1>9. Budget'
  <2> SUFFICES ASSUME NEW x \in Keys
               PROVE  /\ \A t \in 0 .. now :
                           since'[x][t] * Unit + Rest(x)' <= Full + Rate * (now - t)
                      /\ \A t \in Moments : t > now => since'[x][t] = 0
    BY <1>6 DEF Budget
  <2>1. CASE x = k
    BY <2>1, <1>7, <1>8
  <2>2. CASE x # k
    BY <2>2, <1>3, <1>4 DEF Limiter, Budget
  <2> QED BY <2>1, <2>2
<1> QED BY <1>3, <1>5, <1>9 DEF Limiter

(* A tick adds what the rate adds.                                          *)
LEMMA LimiterTicks ==
  ASSUME Limiter, now < MaxNow, now' = now + 1, UNCHANGED limiter
  PROVE  Limiter'
<1>1. /\ UNCHANGED <<buckets, lastSweep, since>> /\ now \in Nat
      /\ since \in [Keys -> [Moments -> Nat]] /\ Full' = Full
  BY DEF limiter, Limiter, LimiterTypeOK, Full
<1>2. LimiterTypeOK'
  BY <1>1 DEF Limiter, LimiterTypeOK
<1>3. Clock'
  BY <1>1, Buckets, Constants DEF Limiter, Clock
<1>4. ASSUME NEW x \in Keys
      PROVE  /\ Rest(x) \in Nat /\ Rest(x)' \in Nat /\ Rest(x)' <= Full
             /\ Rest(x)' <= Rest(x) + Rate
  <2>1. Rest(x) \in Nat /\ Rest(x) <= Full
    BY RestIsWithin DEF Limiter
  <2>2. CASE x \notin DOMAIN buckets
    BY <1>1, <2>1, <2>2, Constants DEF Rest
  <2>3. CASE x \in DOMAIN buckets
    <3> DEFINE idle == now - buckets[x].lastSeen
               have == buckets[x].tokens
    <3>1. idle \in Nat /\ idle * Rate \in Nat /\ have \in Nat
      BY <2>3, Buckets DEF Limiter
    <3>2. now' - buckets'[x].lastSeen = idle + 1
      BY <1>1, <2>3, Buckets DEF Limiter
    <3>3. (idle + 1) * Rate = idle * Rate + Rate
      BY <3>1, Constants, OneMore
    <3>4. Rest(x) = IF have + idle * Rate < Full THEN have + idle * Rate ELSE Full
      BY <2>3 DEF Rest
    <3>5. Rest(x)' = IF have + (idle + 1) * Rate < Full THEN have + (idle + 1) * Rate ELSE Full
      BY <1>1, <2>3, <3>2 DEF Rest
    <3> HIDE DEF idle, have
    <3> QED BY <2>1, <3>1, <3>3, <3>4, <3>5, Constants
  <2> QED BY <2>1, <2>2, <2>3
<1>5. Budget'
  <2> SUFFICES ASSUME NEW x \in Keys
               PROVE  /\ \A t \in 0 .. now + 1 :
                           since[x][t] * Unit + Rest(x)' <= Full + Rate * (now + 1 - t)
                      /\ \A t \in Moments : t > now + 1 => since[x][t] = 0
    BY <1>1 DEF Budget
  <2>1. ASSUME NEW t \in 0 .. now
        PROVE  since[x][t] * Unit + Rest(x)' <= Full + Rate * (now + 1 - t)
    <3>1. now - t \in Nat /\ now + 1 - t = (now - t) + 1 /\ t \in Moments
      BY <1>1, Constants DEF Moments
    <3>2. since[x][t] * Unit \in Nat /\ Rate * (now - t) \in Nat
      BY <1>1, <3>1, Constants, ProductsAreNaturals
    <3>3. Rate * ((now - t) + 1) = Rate * (now - t) + Rate
      BY <3>1, Constants, OneMore
    <3>4. since[x][t] * Unit + Rest(x) <= Full + Rate * (now - t)
      BY DEF Limiter, Budget
    <3> QED BY <1>4, <3>1, <3>2, <3>3, <3>4, Constants
  <2>2. since[x][now + 1] * Unit + Rest(x)' <= Full + Rate * (now + 1 - (now + 1))
    <3>1. since[x][now + 1] = 0
      BY <1>1, Constants DEF Limiter, Budget, Moments
    <3>2. Rate * (now + 1 - (now + 1)) = 0 /\ 0 * Unit = 0
      BY <1>1, Constants
    <3> QED BY <1>4, <3>1, <3>2, Constants
  <2>3. \A t \in 0 .. now + 1 : t \in 0 .. now \/ t = now + 1
    BY <1>1
  <2>4. \A t \in Moments : t > now + 1 => since[x][t] = 0
    BY <1>1, Constants DEF Limiter, Budget, Moments
  <2> QED BY <2>1, <2>2, <2>3, <2>4
<1> QED BY <1>2, <1>3, <1>5 DEF Limiter

-----------------------------------------------------------------------------
(* The lock.                                                                *)

LEMMA CallMoves ==
  ASSUME TypeOK, NEW c \in Calls, NEW p \in Steps, pc' = [pc EXCEPT ![c] = p]
  PROVE  /\ pc' \in [Calls -> Steps] /\ pc'[c] = p
         /\ \A d \in Calls \ {c} : pc'[d] = pc[d]
BY DEF TypeOK

LEMMA CallEnds ==
  ASSUME TypeOK, NEW c \in Calls, Done(c, pc[c])
  PROVE  /\ pc' \in [Calls -> Steps] /\ pc'[c] = "idle"
         /\ \A d \in Calls \ {c} : pc'[d] = pc[d]
         /\ at' \in [Calls -> Nat] /\ until' \in [Calls -> Nat]
         /\ \A d \in Calls : at'[d] \in {at[d], 0} /\ until'[d] \in {until[d], 0}
         /\ \A d \in Calls \ {c} : until'[d] = until[d]
<1>1. pc' = [pc EXCEPT ![c] = "idle"] /\ at' = [at EXCEPT ![c] = 0]
      /\ until' = [until EXCEPT ![c] = 0]
  BY DEF Done, Goto
<1>2. /\ pc' \in [Calls -> Steps] /\ pc'[c] = "idle"
      /\ \A d \in Calls \ {c} : pc'[d] = pc[d]
  BY <1>1, CallMoves DEF Steps
<1> QED BY <1>1, <1>2 DEF TypeOK

LEMMA NoAttemptsAreAttempts ==
  NoAttempts \in Attempts /\ NoAttempts.count = 0 /\ NoAttempts.locked = 0
BY DEF NoAttempts, Attempts

(* The window of a lock is never shorter than the first and never longer    *)
(* than the cap.                                                            *)
LEMMA LockoutIsCapped ==
  ASSUME NEW n \in Nat
  PROVE  Lockout(n) \in Nat /\ 0 < Lockout(n) /\ Lockout(n) <= MaxLockoutDuration
BY LoginBrakesAssumption DEF Lockout

(* The limiter is not concerned.                                            *)
LEMMA LimiterStays ==
  ASSUME Limiter, UNCHANGED <<now, limiter>>
  PROVE  Limiter'
BY DEF limiter, Limiter, LimiterTypeOK, Clock, Budget, Rest, Full

(* A call ends or goes on, and the record is what it was or is cleared.     *)
LEMMA QuietPreserves ==
  ASSUME BrakesIInv, Limiter', UNCHANGED <<now, straddlers>>,
         NEW c \in Calls, NEW p \in Steps \ {"locking"},
         pc' = [pc EXCEPT ![c] = p],
         at' \in [Calls -> Nat], until' \in [Calls -> Nat],
         \A d \in Calls : at'[d] \in {at[d], 0, now} /\ until'[d] \in {until[d], 0},
         \A d \in Calls \ {c} : until'[d] = until[d],
         attempts' \in {attempts, NoAttempts},
         Locked => pc[c] \in {"checked", "failed", "locking", "verified"}
                   \/ p \notin {"checked", "failed", "locking", "verified"},
         unlocked' = (unlocked \/ pc[c] = "locking")
  PROVE  BrakesIInv'
<1>1. /\ pc' \in [Calls -> Steps] /\ pc'[c] = p
      /\ \A d \in Calls \ {c} : pc'[d] = pc[d]
  BY CallMoves DEF BrakesIInv
<1>2. attempts' \in Attempts /\ unlocked' \in BOOLEAN
  BY NoAttemptsAreAttempts DEF BrakesIInv, TypeOK
<1>3. TypeOK'
  BY <1>1, <1>2 DEF BrakesIInv, TypeOK, Limiter
<1>4. Windows'
  <2>1. now \in Nat /\ MaxLockoutDuration \in Nat
    BY LoginBrakesAssumption DEF BrakesIInv, TypeOK, LimiterTypeOK
  <2>2. \A d \in Calls : at'[d] <= now /\ until'[d] <= now + MaxLockoutDuration
    BY <2>1 DEF BrakesIInv, Windows
  <2>3. \A d \in Calls : pc'[d] = "locking" => until'[d] # 0
    BY <1>1 DEF BrakesIInv, Windows
  <2> QED BY <2>2, <2>3 DEF Windows
<1>5. ThresholdLocks'
  <2> SUFFICES ASSUME attempts'.count >= MaxFailedAttempts, attempts'.locked = 0,
                      \A d \in Calls : pc'[d] # "locking"
               PROVE  unlocked'
    BY DEF ThresholdLocks
  <2>1. attempts' = attempts
    BY NoAttemptsAreAttempts, LoginBrakesAssumption
  <2>2. CASE unlocked
    BY <2>2
  <2>3. ASSUME NEW d \in Calls, pc[d] = "locking"
        PROVE  unlocked'
    <3>1. d = c
      BY <1>1, <2>3
    <3> QED BY <2>3, <3>1
  <2>4. unlocked \/ \E d \in Calls : pc[d] = "locking"
    BY <2>1 DEF BrakesIInv, ThresholdLocks
  <2> QED BY <2>2, <2>3, <2>4
<1>6. LockIsCapped'
  <2>1. now \in Nat /\ MaxLockoutDuration \in Nat
    BY LoginBrakesAssumption DEF BrakesIInv, TypeOK, LimiterTypeOK
  <2> QED BY <2>1, NoAttemptsAreAttempts DEF BrakesIInv, LockIsCapped
<1>7. Straddling'
  <2> SUFFICES ASSUME Locked', NEW d \in PastCheck' PROVE d \in straddlers
    BY DEF Straddling
  <2>1. Locked
    BY NoAttemptsAreAttempts DEF Locked, BrakesIInv, TypeOK, LimiterTypeOK
  <2>2. d \in PastCheck
    BY <1>1, <2>1 DEF PastCheck
  <2> QED BY <2>1, <2>2 DEF BrakesIInv, Straddling
<1> QED BY <1>3, <1>4, <1>5, <1>6, <1>7 DEF BrakesIInv

LEMMA ArrivePreserves ==
  ASSUME BrakesIInv, NEW c \in Calls, NEW k \in Keys, Arrive(c, k)
  PROVE  BrakesIInv'
<1>1. /\ UNCHANGED <<now, attempts, at, until, straddlers, unlocked>>
      /\ pc[c] = "idle"
      /\ Allow(k) \/ Refuse(k)
  BY DEF Arrive, Goto
<1>2. Limiter'
  BY <1>1, AllowPreserves, RefusePreserves DEF BrakesIInv
<1>3. PICK p \in {"idle", "let in"} : pc' = [pc EXCEPT ![c] = p]
  BY <1>1 DEF Arrive, Goto, BrakesIInv, TypeOK
<1>4. at \in [Calls -> Nat] /\ until \in [Calls -> Nat] /\ unlocked \in BOOLEAN
  BY DEF BrakesIInv, TypeOK
<1>5. unlocked' = (unlocked \/ pc[c] = "locking")
  BY <1>1, <1>4
<1> QED BY <1>1, <1>2, <1>3, <1>4, <1>5, QuietPreserves DEF Steps

(* Of the lock check, the password and the end of a call, whichever way.    *)
LEMMA GoingOnPreserves ==
  ASSUME BrakesIInv, NEW c \in Calls,
         \/ CheckLock(c) \/ Verify(c) \/ ClearLoginAttempts(c)
         \/ Reset(c) \/ Unlock(c) \/ GiveUp(c)
  PROVE  BrakesIInv'
<1>1. Limiter'
  BY LimiterStays DEF CheckLock, Verify, ClearLoginAttempts, Reset, Unlock, GiveUp, BrakesIInv
<1>2. /\ at \in [Calls -> Nat] /\ until \in [Calls -> Nat] /\ unlocked \in BOOLEAN
      /\ now \in Nat /\ TypeOK
  BY DEF BrakesIInv, TypeOK, LimiterTypeOK
<1>3. CASE CheckLock(c) /\ ~Locked
  <2>1. /\ pc[c] = "let in" /\ pc' = [pc EXCEPT ![c] = "checked"]
        /\ at' = [at EXCEPT ![c] = now]
        /\ UNCHANGED <<now, until, attempts, straddlers, unlocked>>
    BY <1>3 DEF CheckLock, Goto
  <2>2. at' \in [Calls -> Nat] /\ \A d \in Calls : at'[d] \in {at[d], 0, now}
    BY <1>2, <2>1
  <2>3. unlocked' = (unlocked \/ pc[c] = "locking")
    BY <1>2, <2>1
  <2> QED BY <1>1, <1>2, <1>3, <2>1, <2>2, <2>3, QuietPreserves DEF Steps
<1>4. CASE Verify(c) \/ Reset(c)
  <2>1. /\ pc[c] \in {"checked", "idle"}
        /\ \E p \in {"verified", "failed", "resetting"} :
             /\ pc' = [pc EXCEPT ![c] = p]
             /\ pc[c] = "checked" \/ p = "resetting"
        /\ UNCHANGED <<now, at, until, attempts, straddlers, unlocked>>
    BY <1>4 DEF Verify, Reset, Goto
  <2>2. unlocked' = (unlocked \/ pc[c] = "locking")
    BY <1>2, <2>1
  <2> QED BY <1>1, <1>2, <2>1, <2>2, QuietPreserves DEF Steps
<1>5. CASE \/ CheckLock(c) /\ Locked
           \/ ClearLoginAttempts(c) \/ Unlock(c) \/ GiveUp(c)
  <2>1. /\ Done(c, pc[c]) /\ pc' = [pc EXCEPT ![c] = "idle"]
        /\ attempts' \in {attempts, NoAttempts}
        /\ UNCHANGED <<now, straddlers>>
    BY <1>5 DEF CheckLock, ClearLoginAttempts, Unlock, GiveUp, Done, Goto
  <2>2. unlocked' = (unlocked \/ pc[c] = "locking")
    <3>1. CASE GiveUp(c)
      BY <3>1 DEF GiveUp
    <3>2. CASE ~GiveUp(c)
      <4>1. pc[c] # "locking" /\ unlocked' = unlocked
        BY <1>5, <3>2 DEF CheckLock, ClearLoginAttempts, Unlock, Done, Goto
      <4> QED BY <4>1, <1>2
    <3> QED BY <3>1, <3>2
  <2>3. /\ at' \in [Calls -> Nat] /\ until' \in [Calls -> Nat]
        /\ \A d \in Calls : at'[d] \in {at[d], 0} /\ until'[d] \in {until[d], 0}
        /\ \A d \in Calls \ {c} : until'[d] = until[d]
    BY <1>2, <2>1, CallEnds
  <2> QED BY <1>1, <2>1, <2>2, <2>3, QuietPreserves DEF Steps
<1> QED BY <1>3, <1>4, <1>5

(* A failure is counted; past the threshold the call comes to the lock.     *)
LEMMA RecordPreserves ==
  ASSUME BrakesIInv, NEW c \in Calls, RecordFailedLogin(c)
  PROVE  BrakesIInv'
<1> DEFINE count == attempts.count + 1
<1>1. /\ pc[c] = "failed" /\ UNCHANGED <<now, limiter, straddlers, unlocked>>
      /\ attempts' = [count |-> count, locked |-> 0, failed |-> at[c]]
  BY DEF RecordFailedLogin, Done, Goto
<1>2. /\ at \in [Calls -> Nat] /\ until \in [Calls -> Nat] /\ now \in Nat
      /\ attempts.count \in Nat /\ TypeOK /\ at[c] \in Nat /\ at[c] <= now
      /\ MaxLockoutDuration \in Nat /\ MaxFailedAttempts \in Nat
  BY LoginBrakesAssumption DEF BrakesIInv, TypeOK, LimiterTypeOK, Attempts, Windows
<1>3. Limiter'
  BY <1>1, LimiterStays DEF BrakesIInv
<1>4. /\ attempts' \in Attempts /\ attempts'.locked = 0 /\ attempts'.count = count
      /\ count \in Nat
  BY <1>1, <1>2 DEF Attempts
<1>5. ~Locked' /\ LockIsCapped' /\ Straddling'
  BY <1>1, <1>2, <1>4 DEF Locked, LockIsCapped, Straddling
<1>6. CASE count >= MaxFailedAttempts
  <2>1. /\ pc' = [pc EXCEPT ![c] = "locking"] /\ at' = at
        /\ until' = [until EXCEPT ![c] = at[c] + Lockout(count)]
    BY <1>6 DEF RecordFailedLogin, Goto
  <2>2. /\ pc' \in [Calls -> Steps] /\ pc'[c] = "locking"
        /\ \A d \in Calls \ {c} : pc'[d] = pc[d]
    BY <1>2, <2>1, CallMoves DEF Steps
  <2>3. Lockout(count) \in Nat /\ 0 < Lockout(count) /\ Lockout(count) <= MaxLockoutDuration
    BY <1>4, LockoutIsCapped
  <2>4. /\ until' \in [Calls -> Nat] /\ until'[c] = at[c] + Lockout(count)
        /\ \A d \in Calls \ {c} : until'[d] = until[d]
    BY <1>2, <2>1, <2>3
  <2>5. until'[c] # 0 /\ until'[c] <= now + MaxLockoutDuration
    BY <1>2, <2>3, <2>4
  <2>6. Windows'
    BY <1>1, <2>1, <2>2, <2>4, <2>5 DEF BrakesIInv, Windows
  <2>7. ThresholdLocks'
    BY <2>2 DEF ThresholdLocks
  <2>8. TypeOK'
    BY <1>1, <1>3, <1>4, <2>1, <2>2, <2>4 DEF BrakesIInv, TypeOK, Limiter
  <2> QED BY <1>3, <1>5, <2>6, <2>7, <2>8 DEF BrakesIInv
<1>7. CASE ~(count >= MaxFailedAttempts)
  <2>1. Done(c, pc[c])
    BY <1>1, <1>7 DEF RecordFailedLogin
  <2>2. /\ pc' \in [Calls -> Steps] /\ pc'[c] = "idle"
        /\ \A d \in Calls \ {c} : pc'[d] = pc[d]
        /\ at' \in [Calls -> Nat] /\ until' \in [Calls -> Nat]
        /\ \A d \in Calls : at'[d] \in {at[d], 0} /\ until'[d] \in {until[d], 0}
        /\ \A d \in Calls \ {c} : until'[d] = until[d]
    BY <1>2, <2>1, CallEnds
  <2>3. Windows'
    BY <1>1, <1>2, <2>2 DEF BrakesIInv, Windows
  <2>4. ThresholdLocks'
    BY <1>4, <1>7 DEF ThresholdLocks
  <2>5. TypeOK'
    BY <1>1, <1>3, <1>4, <2>2 DEF BrakesIInv, TypeOK, Limiter
  <2> QED BY <1>3, <1>5, <2>3, <2>4, <2>5 DEF BrakesIInv
<1> QED BY <1>6, <1>7

(* The lock is written, and who is past the check is remembered.            *)
LEMMA LockPreserves ==
  ASSUME BrakesIInv, NEW c \in Calls, LockLogin(c)
  PROVE  BrakesIInv'
<1>1. /\ pc[c] = "locking" /\ UNCHANGED <<now, limiter>> /\ Done(c, pc[c])
  BY DEF LockLogin, Done, Goto
<1>2. /\ at \in [Calls -> Nat] /\ until \in [Calls -> Nat] /\ now \in Nat /\ TypeOK
      /\ until[c] # 0 /\ until[c] <= now + MaxLockoutDuration
      /\ MaxLockoutDuration \in Nat /\ MaxFailedAttempts \in Nat \ {0}
      /\ attempts \in Attempts
  BY <1>1, LoginBrakesAssumption DEF BrakesIInv, TypeOK, LimiterTypeOK, Windows
<1>3. /\ pc' \in [Calls -> Steps] /\ pc'[c] = "idle"
      /\ \A d \in Calls \ {c} : pc'[d] = pc[d]
      /\ at' \in [Calls -> Nat] /\ until' \in [Calls -> Nat]
      /\ \A d \in Calls : at'[d] \in {at[d], 0} /\ until'[d] \in {until[d], 0}
      /\ \A d \in Calls \ {c} : until'[d] = until[d]
  BY <1>1, <1>2, CallEnds
<1>4. Limiter'
  BY <1>1, LimiterStays DEF BrakesIInv
<1>5. Windows'
  BY <1>1, <1>2, <1>3 DEF BrakesIInv, Windows
<1>6. PastCheck' \subseteq PastCheck \ {c}
  BY <1>1, <1>3 DEF PastCheck
<1>7. CASE attempts.count > 0
  <2>1. /\ attempts' = [attempts EXCEPT !.locked = until[c]]
        /\ straddlers' = PastCheck \ {c} /\ unlocked' = FALSE
    BY <1>7 DEF LockLogin
  <2>2. attempts' \in Attempts /\ attempts'.locked = until[c]
    BY <1>2, <2>1 DEF Attempts
  <2>3. straddlers' \subseteq Calls /\ unlocked' \in BOOLEAN
    BY <2>1 DEF PastCheck
  <2>4. TypeOK'
    BY <1>1, <1>3, <1>4, <2>2, <2>3 DEF TypeOK, Limiter
  <2>5. ThresholdLocks' /\ LockIsCapped' /\ Straddling'
    BY <1>1, <1>2, <1>6, <2>1, <2>2 DEF ThresholdLocks, LockIsCapped, Straddling
  <2> QED BY <1>4, <1>5, <2>4, <2>5 DEF BrakesIInv
<1>8. CASE ~(attempts.count > 0)
  <2>1. UNCHANGED <<attempts, straddlers, unlocked>>
    BY <1>8 DEF LockLogin
  <2>2. TypeOK'
    BY <1>1, <1>3, <1>4, <2>1 DEF BrakesIInv, TypeOK, Limiter
  <2>3. attempts.count = 0
    BY <1>2, <1>8 DEF Attempts
  <2>4. ThresholdLocks'
    BY <1>2, <2>1, <2>3 DEF ThresholdLocks
  <2>5. LockIsCapped' /\ Straddling'
    BY <1>1, <1>6, <2>1 DEF BrakesIInv, LockIsCapped, Straddling, Locked
  <2> QED BY <1>4, <1>5, <2>2, <2>4, <2>5 DEF BrakesIInv
<1> QED BY <1>7, <1>8

LEMMA SweepPreserves ==
  ASSUME BrakesIInv, Sweep
  PROVE  BrakesIInv'
<1>1. UNCHANGED <<now, limiter, pc, at, until, straddlers, unlocked>> /\ attempts' = NoAttempts
  BY DEF Sweep, calls
<1>2. Limiter'
  BY <1>1, LimiterStays DEF BrakesIInv
<1>3. TypeOK' /\ Windows'
  BY <1>1, <1>2, NoAttemptsAreAttempts DEF BrakesIInv, TypeOK, Windows, Limiter
<1>4. ThresholdLocks'
  BY <1>1, NoAttemptsAreAttempts, LoginBrakesAssumption DEF ThresholdLocks
<1>5. now \in Nat /\ MaxLockoutDuration \in Nat
  BY LoginBrakesAssumption DEF BrakesIInv, TypeOK, LimiterTypeOK
<1>6. LockIsCapped' /\ Straddling'
  BY <1>1, <1>5, NoAttemptsAreAttempts DEF LockIsCapped, Straddling, Locked
<1> QED BY <1>2, <1>3, <1>4, <1>6 DEF BrakesIInv

LEMMA TickPreserves ==
  ASSUME BrakesIInv, Tick
  PROVE  BrakesIInv'
<1>1. /\ UNCHANGED <<limiter, attempts, pc, at, until, straddlers, unlocked>>
      /\ now < MaxNow /\ now' = now + 1
  BY DEF Tick, calls
<1>2. Limiter'
  BY <1>1, LimiterTicks DEF BrakesIInv
<1>3. /\ now \in Nat /\ MaxLockoutDuration \in Nat /\ at \in [Calls -> Nat]
      /\ until \in [Calls -> Nat] /\ attempts.locked \in Nat
  BY LoginBrakesAssumption DEF BrakesIInv, TypeOK, LimiterTypeOK, Attempts
<1>4. TypeOK'
  BY <1>1, <1>2 DEF BrakesIInv, TypeOK, Limiter
<1>5. Windows'
  BY <1>1, <1>3 DEF BrakesIInv, Windows
<1>6. ThresholdLocks'
  BY <1>1 DEF BrakesIInv, ThresholdLocks
<1>7. LockIsCapped'
  BY <1>1, <1>3 DEF BrakesIInv, LockIsCapped
<1>8. Straddling'
  <2>1. Locked' => Locked
    BY <1>1, <1>3 DEF Locked
  <2> QED BY <1>1, <2>1 DEF BrakesIInv, Straddling, PastCheck
<1> QED BY <1>2, <1>4, <1>5, <1>6, <1>7, <1>8 DEF BrakesIInv

-----------------------------------------------------------------------------
LEMMA InitHolds ==
  ASSUME Init
  PROVE  BrakesIInv
<1>1. LimiterTypeOK /\ Clock
  BY Constants, RateLimiterAssumption
  DEF Init, LimiterInit, LimiterTypeOK, Clock, Moments
<1>2. Budget
  <2> SUFFICES ASSUME NEW k \in Keys
               PROVE  /\ \A t \in 0 .. now : since[k][t] * Unit + Rest(k) <= Full + Rate * (now - t)
                      /\ \A t \in Moments : t > now => since[k][t] = 0
    BY DEF Budget
  <2>1. /\ now = 0 /\ \A t \in Moments : since[k][t] = 0
        /\ Rest(k) = Full
    BY DEF Init, LimiterInit, Rest
  <2>2. 0 \in Moments /\ 0 * Unit = 0 /\ Rate * (0 - 0) = 0
    BY Constants DEF Moments
  <2> QED BY <2>1, <2>2, Constants
<1>3. TypeOK
  BY <1>1, NoAttemptsAreAttempts DEF Init, TypeOK, Steps
<1>4. Windows
  BY LoginBrakesAssumption DEF Init, LimiterInit, Windows
<1>5. ThresholdLocks /\ LockIsCapped /\ Straddling
  BY NoAttemptsAreAttempts, LoginBrakesAssumption
  DEF Init, LimiterInit, ThresholdLocks, LockIsCapped, Straddling, Locked
<1> QED BY <1>1, <1>2, <1>3, <1>4, <1>5 DEF BrakesIInv, Limiter

LEMMA NextPreserves ==
  ASSUME BrakesIInv, [Next]_vars
  PROVE  BrakesIInv'
<1>1. CASE Next
  <2>1. ASSUME NEW c \in Calls, NEW k \in Keys, Arrive(c, k)
        PROVE  BrakesIInv'
    BY <2>1, ArrivePreserves
  <2>2. ASSUME NEW c \in Calls,
               \/ CheckLock(c) \/ Verify(c) \/ ClearLoginAttempts(c)
               \/ Reset(c) \/ Unlock(c) \/ GiveUp(c)
        PROVE  BrakesIInv'
    BY <2>2, GoingOnPreserves
  <2>3. ASSUME NEW c \in Calls, RecordFailedLogin(c)
        PROVE  BrakesIInv'
    BY <2>3, RecordPreserves
  <2>4. ASSUME NEW c \in Calls, LockLogin(c)
        PROVE  BrakesIInv'
    BY <2>4, LockPreserves
  <2>5. CASE Sweep
    BY <2>5, SweepPreserves
  <2>6. CASE Tick
    BY <2>6, TickPreserves
  <2> QED BY <1>1, <2>1, <2>2, <2>3, <2>4, <2>5, <2>6 DEF Next
<1>2. CASE UNCHANGED vars
  <2>1. UNCHANGED <<now, limiter, attempts, pc, at, until, straddlers, unlocked>>
    BY <1>2 DEF vars, calls
  <2>2. Limiter'
    BY <2>1, LimiterStays DEF BrakesIInv
  <2> QED BY <2>1, <2>2 DEF BrakesIInv, TypeOK, Limiter, Windows, ThresholdLocks, LockIsCapped,
                            Straddling, Locked, PastCheck
<1> QED BY <1>1, <1>2

(* The inductive invariant: the type, what the buckets hold against what    *)
(* was allowed, the times the calls carry, and who is past a lock in force. *)
THEOREM Inductive == Spec => []BrakesIInv
BY InitHolds, NextPreserves, PTL DEF Spec

(* The state of the limiter, of the failure record and of every call has    *)
(* its type.                                                                *)
THEOREM TypeCorrect == Spec => []TypeOK
<1>1. BrakesIInv => TypeOK
  BY DEF BrakesIInv
<1> QED BY <1>1, Inductive, PTL

(* No key is allowed more than the burst and what the rate adds, over any   *)
(* stretch of time and whenever idle buckets are dropped.                   *)
THEOREM RateHolds == Spec => []NoMoreThanTheRate
<1>1. ASSUME BrakesIInv
      PROVE  NoMoreThanTheRate
  <2> SUFFICES ASSUME NEW k \in Keys, NEW t \in 0 .. now
               PROVE  since[k][t] * Unit <= Full + Rate * (now - t)
    BY DEF NoMoreThanTheRate
  <2>1. Rest(k) \in Nat /\ now \in Nat /\ now <= MaxNow
    BY <1>1, RestIsWithin DEF BrakesIInv, Limiter, LimiterTypeOK, Clock
  <2>2. since[k][t] \in Nat /\ now - t \in Nat
    BY <1>1, <2>1, Constants DEF BrakesIInv, TypeOK, LimiterTypeOK, Moments
  <2>3. since[k][t] * Unit \in Nat /\ Rate * (now - t) \in Nat
    BY <2>2, Constants, ProductsAreNaturals
  <2>4. since[k][t] * Unit + Rest(k) <= Full + Rate * (now - t)
    BY <1>1 DEF BrakesIInv, Limiter, Budget
  <2> QED BY <2>1, <2>3, <2>4, Constants
<1> QED BY <1>1, Inductive, PTL

(* An account that has reached the threshold is locked, but for a call that *)
(* stands between the count and the lock or failed there, and no lock lasts *)
(* longer than the cap.                                                     *)
THEOREM ReachingItLocks == Spec => []LocksHold
<1>1. BrakesIInv => LocksHold
  BY DEF BrakesIInv, LocksHold
<1> QED BY <1>1, Inductive, PTL

(* A lock in force is cut short by a call that was past the check when it   *)
(* was set, or by the administrator's reset, and by nothing else.           *)
THEOREM OnlyStraddlersYield == Spec => LocksYieldOnlyToStraddlers
<1> DEFINE Cut == Locked /\ attempts'.locked < attempts.locked
           ByStraddler == \E c \in Calls :
             pc'[c] # pc[c] /\ (c \in straddlers \/ pc[c] = "resetting")
<1>1. ASSUME BrakesIInv, [Next]_vars, Cut
      PROVE  ByStraddler
  <2>1. /\ attempts.locked \in Nat /\ now \in Nat /\ attempts.locked > now
        /\ attempts' # attempts /\ PastCheck \subseteq straddlers /\ TypeOK
    BY <1>1 DEF BrakesIInv, TypeOK, LimiterTypeOK, Attempts, Locked, Straddling
  <2>2. Next /\ ~Sweep /\ ~Tick
    BY <1>1, <2>1 DEF vars, Sweep, Tick
  <2>3. PICK c \in Calls :
          \/ RecordFailedLogin(c) \/ LockLogin(c) \/ ClearLoginAttempts(c) \/ Unlock(c)
    BY <2>1, <2>2 DEF Next, Arrive, CheckLock, Verify, Reset, GiveUp
  <2>4. /\ pc[c] \in {"failed", "locking", "verified", "resetting"}
        /\ \E p \in {"idle", "locking"} : pc' = [pc EXCEPT ![c] = p] /\ p # pc[c]
    BY <2>3 DEF RecordFailedLogin, LockLogin, ClearLoginAttempts, Unlock, Done, Goto
  <2>5. pc'[c] # pc[c]
    BY <2>1, <2>4 DEF TypeOK
  <2>6. c \in straddlers \/ pc[c] = "resetting"
    BY <2>1, <2>4 DEF PastCheck
  <2> QED BY <2>5, <2>6
<1>2. BrakesIInv /\ [Next]_vars => [Cut => ByStraddler]_vars
  BY <1>1
<1> QED BY <1>2, Inductive, PTL DEF Spec, LocksYieldOnlyToStraddlers

-----------------------------------------------------------------------------
(***************************************************************************)
(* Organizations and accounts.                                             *)
(*                                                                         *)
(* What a call goes on to do rests on what it holds at each statement      *)
(* (Placed), and on nothing being unmade by anybody (Lasting). An          *)
(* organization without users is one a call is still counting or creating  *)
(* for; who found users there relies on somebody making the administrator  *)
(* (Governed). A sign-on that no other crosses is the only one, so what it *)
(* has read still holds when it writes (AloneHolds).                       *)
(***************************************************************************)

SigningStages == {"looking up", "loading", "address", "matching", "provisioning", "linking",
                  "linking new", "granting", "clearing", "setting", "grouping"}
AtAccount == {"making admin", "loading", "address", "linking", "linking new", "granting",
              "clearing", "setting", "grouping"}
Unlinked == {"matching", "provisioning", "linking", "linking new"}

(* What a call holds at each of its statements.                             *)
Placed(c) ==
  /\ stage[c] = "idle" => job[c].kind = "none"
  /\ stage[c] = "claiming" => job[c].kind = "setup" /\ job[c].email \in Emails
  /\ stage[c] \in MakingFirst =>
       job[c].kind \in {"setup", "command"} /\ job[c].email \in Emails /\ job[c].org \in orgs
  /\ stage[c] \in SigningStages =>
       job[c].kind = "sign-on" /\ job[c].subject \in Subjects /\ Home \in orgs
  /\ stage[c] = "address" => job[c].email \in Emails
  /\ stage[c] \in AtAccount => job[c].account \in Made
  /\ stage[c] = "making admin" => accounts[job[c].account].org = job[c].org

AllPlaced ==
  /\ \A c \in Requests : Placed(c)
  /\ \A a \in Made : accounts[a].org \in orgs

(* A server claims at most one organization at a time, and none while there *)
(* is one.                                                                  *)
OneClaimant ==
  /\ \A c, d \in Requests :
       job[c].kind = "setup" /\ job[d].kind = "setup" /\ ServerOf[c] = ServerOf[d] => c = d
  /\ \A c \in Requests, o \in Orgs : stage[c] = "claiming" => <<ServerOf[c], o>> \notin claims
  /\ claims # {} => orgs # {}

HasAdmin(o) == \E a \in Members(o) : accounts[a].role = "admin"
IsAt(stages, o) == \E c \in Requests : stage[c] \in stages /\ job[c].org = o

(* An organization without users is about to get its first, one with users  *)
(* has its administrator or is about to, and who found users there, will.   *)
Governed ==
  /\ \A o \in orgs :
       \/ o \in headless
       \/ IF Members(o) = {} THEN IsAt({"counting", "creating"}, o)
          ELSE HasAdmin(o) \/ IsAt({"making admin"}, o)
  /\ \A c \in Requests : stage[c] = "creating" /\ ~job[c].first => Members(job[c].org) # {}

(* What a sign-on that runs alone has read still holds.                     *)
Alone(c) == job[c].kind = "sign-on" /\ ~job[c].crossed
AloneHolds ==
  \A c \in Requests : Alone(c) =>
    LET a == accounts[job[c].account] IN
    /\ SigningOn = {c}
    /\ stage[c] \in Unlinked => job[c].subject \notin DOMAIN link
    /\ stage[c] = "address" => a.version = job[c].version
    /\ stage[c] = "setting" =>
         job[c].left \subseteq job[c].attributes /\ a.attributes = job[c].attributes \ job[c].left
    /\ stage[c] = "grouping" =>
         /\ a.attributes = job[c].attributes
         /\ job[c].left = (job[c].groups \ a.groups) \cup (a.groups \ job[c].groups)

SettledAlone == settled.account # NoAccount => SigningOn = {}

OnboardingIInv ==
  /\ OnboardingTypeOK /\ AllPlaced /\ OneClaimant /\ ClaimedOnce /\ Governed
  /\ SignsOnAsItself /\ NobodyIsStranded /\ AloneHolds /\ SettledAlone /\ SignOnsHeal
-----------------------------------------------------------------------------
(* What the helpers of the actions do.                                      *)

Others(c) == \A d \in Requests \ {c} : stage'[d] = stage[d] /\ job'[d] = job[d]
Moved(c, from, to) == stage[c] = from /\ stage'[c] = to /\ Others(c)
Keeps(c, fields) == \A f \in fields : job'[c][f] = job[c][f]
Stays(a, fields) == \A f \in fields : accounts'[a][f] = accounts[a][f]

LEMMA Empty == NoJob \in Job
BY OnboardingAssumption DEF NoJob, Job

LEMMA JobParts ==
  ASSUME OnboardingTypeOK, NEW c \in Requests
  PROVE  /\ job[c] \in Job /\ job[c].org \in Orgs /\ job[c].email \in Emails \cup {NoEmail}
         /\ job[c].first \in BOOLEAN /\ job[c].account \in Accounts \cup {NoAccount}
         /\ job[c].groups \subseteq Groups /\ job[c].attributes \subseteq Attributes
         /\ job[c].left \subseteq Groups \cup Attributes /\ job[c].crossed \in BOOLEAN
         /\ job[c].version \in 0 .. MaxVersion /\ job[c].subject \in Subjects \cup {NoSubject}
BY DEF OnboardingTypeOK, Job

LEMMA AccountParts ==
  ASSUME OnboardingTypeOK, NEW a \in Made
  PROVE  /\ accounts[a] \in Account /\ accounts[a].org \in Orgs /\ accounts[a].email \in Emails
         /\ accounts[a].version \in 0 .. MaxVersion
         /\ accounts[a].groups \subseteq Groups /\ accounts[a].attributes \subseteq Attributes
BY DEF OnboardingTypeOK, Account

LEMMA AdvanceDoes ==
  ASSUME OnboardingTypeOK, NEW c \in Requests, NEW from, NEW to \in Stages, Advance(c, from, to)
  PROVE  /\ stage' \in [Requests -> Stages] /\ stage[c] = from /\ stage'[c] = to
         /\ \A d \in Requests \ {c} : stage'[d] = stage[d]
BY DEF OnboardingTypeOK, Advance

LEMMA EndsDoes ==
  ASSUME OnboardingTypeOK, NEW c \in Requests, NEW from, Ends(c, from)
  PROVE  /\ Moved(c, from, "idle") /\ job'[c] = NoJob
         /\ stage' \in [Requests -> Stages] /\ job' \in [Requests -> Job]
BY Empty DEF OnboardingTypeOK, Ends, Advance, Moved, Others, Stages

(* The fields of a call that a statement writes.                            *)
LEMMA OrgSet ==
  ASSUME OnboardingTypeOK, NEW c \in Requests, NEW v \in Orgs, job' = [job EXCEPT ![c].org = v]
  PROVE  /\ job' \in [Requests -> Job] /\ job'[c].org = v
         /\ Keeps(c, {"kind", "email", "first", "account", "subject", "version", "groups",
                      "attributes", "left", "crossed"})
<1>1. job[c] \in Job /\ job'[c] = [job[c] EXCEPT !.org = v]
  BY DEF OnboardingTypeOK
<1>2. job'[c] \in Job
  BY <1>1 DEF Job
<1>3. job' \in [Requests -> Job]
  BY <1>2 DEF OnboardingTypeOK
<1> QED BY <1>1, <1>3 DEF Job, Keeps

LEMMA FirstSet ==
  ASSUME OnboardingTypeOK, NEW c \in Requests, NEW v \in BOOLEAN, job' = [job EXCEPT ![c].first = v]
  PROVE  /\ job' \in [Requests -> Job] /\ job'[c].first = v
         /\ Keeps(c, {"kind", "email", "org", "account", "subject", "version", "groups",
                      "attributes", "left", "crossed"})
<1>1. job[c] \in Job /\ job'[c] = [job[c] EXCEPT !.first = v]
  BY DEF OnboardingTypeOK
<1>2. job'[c] \in Job
  BY <1>1 DEF Job
<1>3. job' \in [Requests -> Job]
  BY <1>2 DEF OnboardingTypeOK
<1> QED BY <1>1, <1>3 DEF Job, Keeps

LEMMA AccountSet ==
  ASSUME OnboardingTypeOK, NEW c \in Requests, NEW v \in Accounts,
         job' = [job EXCEPT ![c].account = v]
  PROVE  /\ job' \in [Requests -> Job] /\ job'[c].account = v
         /\ Keeps(c, {"kind", "email", "org", "first", "subject", "version", "groups",
                      "attributes", "left", "crossed"})
<1>1. job[c] \in Job /\ job'[c] = [job[c] EXCEPT !.account = v]
  BY DEF OnboardingTypeOK
<1>2. job'[c] \in Job
  BY <1>1 DEF Job
<1>3. job' \in [Requests -> Job]
  BY <1>2 DEF OnboardingTypeOK
<1> QED BY <1>1, <1>3 DEF Job, Keeps

LEMMA VersionSet ==
  ASSUME OnboardingTypeOK, NEW c \in Requests, NEW v \in 0 .. MaxVersion,
         job' = [job EXCEPT ![c].version = v]
  PROVE  /\ job' \in [Requests -> Job] /\ job'[c].version = v
         /\ Keeps(c, {"kind", "email", "org", "first", "subject", "account", "groups",
                      "attributes", "left", "crossed"})
<1>1. job[c] \in Job /\ job'[c] = [job[c] EXCEPT !.version = v]
  BY DEF OnboardingTypeOK
<1>2. job'[c] \in Job
  BY <1>1 DEF Job
<1>3. job' \in [Requests -> Job]
  BY <1>2 DEF OnboardingTypeOK
<1> QED BY <1>1, <1>3 DEF Job, Keeps

LEMMA LeftSet ==
  ASSUME OnboardingTypeOK, NEW c \in Requests, NEW v \in SUBSET (Groups \cup Attributes),
         job' = [job EXCEPT ![c].left = v]
  PROVE  /\ job' \in [Requests -> Job] /\ job'[c].left = v
         /\ Keeps(c, {"kind", "email", "org", "first", "subject", "account", "groups",
                      "attributes", "version", "crossed"})
<1>1. job[c] \in Job /\ job'[c] = [job[c] EXCEPT !.left = v]
  BY DEF OnboardingTypeOK
<1>2. job'[c] \in Job
  BY <1>1 DEF Job
<1>3. job' \in [Requests -> Job]
  BY <1>2 DEF OnboardingTypeOK
<1> QED BY <1>1, <1>3 DEF Job, Keeps

LEMMA AttributesSet ==
  ASSUME OnboardingTypeOK, NEW c \in Requests, NEW v \in SUBSET Attributes,
         NEW w \in SUBSET (Groups \cup Attributes),
         job' = [job EXCEPT ![c].attributes = v, ![c].left = w]
  PROVE  /\ job' \in [Requests -> Job] /\ job'[c].attributes = v /\ job'[c].left = w
         /\ Keeps(c, {"kind", "email", "org", "first", "subject", "account", "groups",
                      "version", "crossed"})
<1> DEFINE j == job[c]
           r == job'[c]
<1>1. j \in Job /\ r = [j EXCEPT !.attributes = v, !.left = w]
  BY DEF OnboardingTypeOK
<1> HIDE DEF j, r
<1>2. r \in Job /\ r.attributes = v /\ r.left = w
  BY <1>1 DEF Job
<1>3. \A f \in {"kind", "email", "org", "first", "subject", "account", "groups",
               "version", "crossed"} : r[f] = j[f]
  BY <1>1 DEF Job
<1>4. job' \in [Requests -> Job]
  BY <1>2 DEF OnboardingTypeOK, r
<1> QED BY <1>2, <1>3, <1>4 DEF Keeps, r, j

LEMMA GroupsSet ==
  ASSUME OnboardingTypeOK, NEW c \in Requests, NEW v \in SUBSET Groups,
         NEW w \in SUBSET (Groups \cup Attributes),
         job' = [job EXCEPT ![c].groups = v, ![c].left = w]
  PROVE  /\ job' \in [Requests -> Job] /\ job'[c].groups = v /\ job'[c].left = w
         /\ Keeps(c, {"kind", "email", "org", "first", "subject", "account", "attributes",
                      "version", "crossed"})
<1> DEFINE j == job[c]
           r == job'[c]
<1>1. j \in Job /\ r = [j EXCEPT !.groups = v, !.left = w]
  BY DEF OnboardingTypeOK
<1> HIDE DEF j, r
<1>2. r \in Job /\ r.groups = v /\ r.left = w
  BY <1>1 DEF Job
<1>3. \A f \in {"kind", "email", "org", "first", "subject", "account", "attributes",
               "version", "crossed"} : r[f] = j[f]
  BY <1>1 DEF Job
<1>4. job' \in [Requests -> Job]
  BY <1>2 DEF OnboardingTypeOK, r
<1> QED BY <1>2, <1>3, <1>4 DEF Keeps, r, j
(* The columns of an account that a statement writes.                       *)
LEMMA NewAccountDoes ==
  ASSUME OnboardingTypeOK, NEW a \in Accounts \ Made, NEW o \in Orgs, NEW e \in Emails,
         NEW how \in {"call", "sign-on"}, NewAccount(a, o, e, how)
  PROVE  /\ Made' = Made \cup {a} /\ Made' \subseteq Accounts
         /\ accounts'[a] = [org |-> o, email |-> e, version |-> 0, role |-> "none", made |-> how,
                            groups |-> {}, attributes |-> {}]
         /\ \A x \in Made : accounts'[x] = accounts[x]
         /\ \A x \in Made' : accounts'[x] \in Account
<1>1. /\ Made' = Made \cup {a} /\ Made' \subseteq Accounts
      /\ accounts'[a] = [org |-> o, email |-> e, version |-> 0, role |-> "none", made |-> how,
                         groups |-> {}, attributes |-> {}]
      /\ \A x \in Made : accounts'[x] = accounts[x]
  BY DEF NewAccount, Made, OnboardingTypeOK
<1>2. accounts'[a] \in Account
  BY <1>1, OnboardingAssumption DEF Account
<1> QED BY <1>1, <1>2 DEF OnboardingTypeOK

LEMMA PromotedDoes ==
  ASSUME OnboardingTypeOK, NEW a \in Made, NEW role \in {"none", "member", "admin"},
         accounts' = Promoted(a, role)
  PROVE  /\ Made' = Made /\ \A x \in Made : accounts'[x] \in Account
         /\ \A x \in Made \ {a} : accounts'[x] = accounts[x]
         /\ accounts'[a].role = IF accounts[a].role = "admin" \/ role = "none"
                                THEN accounts[a].role ELSE role
         /\ Stays(a, {"org", "email", "version", "made", "groups", "attributes"})
<1> DEFINE v == IF accounts[a].role = "admin" \/ role = "none" THEN accounts[a].role ELSE role
           r == accounts[a]
<1>1. /\ accounts'[a] = [r EXCEPT !.role = v] /\ Made' = Made
      /\ \A x \in Made \ {a} : accounts'[x] = accounts[x]
  BY DEF Promoted, Made
<1>2. r \in Account /\ v \in {"none", "member", "admin"}
  BY AccountParts DEF Account
<1> HIDE DEF v, r
<1>3. accounts'[a] \in Account /\ accounts'[a].role = v
  BY <1>1, <1>2 DEF Account
<1>4. \A f \in {"org", "email", "version", "made", "groups", "attributes"} : accounts'[a][f] = r[f]
  BY <1>1, <1>2 DEF Account
<1> QED BY <1>1, <1>3, <1>4 DEF Stays, v, r, OnboardingTypeOK

LEMMA AddressWritten ==
  ASSUME OnboardingTypeOK, NEW a \in Made, NEW e \in Emails, accounts[a].version < MaxVersion,
         accounts' = [accounts EXCEPT ![a].email = e, ![a].version = @ + 1]
  PROVE  /\ Made' = Made /\ \A x \in Made : accounts'[x] \in Account
         /\ \A x \in Made \ {a} : accounts'[x] = accounts[x]
         /\ accounts'[a].email = e
         /\ Stays(a, {"org", "role", "made", "groups", "attributes"})
<1> DEFINE r == accounts[a]
           w == accounts[a].version + 1
<1>1. /\ accounts'[a] = [r EXCEPT !.email = e, !.version = w] /\ Made' = Made
      /\ \A x \in Made \ {a} : accounts'[x] = accounts[x]
  BY DEF Made
<1>2. r \in Account /\ w \in 0 .. MaxVersion
  <2>1. r \in Account /\ accounts[a].version \in 0 .. MaxVersion /\ MaxVersion \in Nat
    BY AccountParts, OnboardingAssumption DEF OnboardingAssumption
  <2> QED BY <2>1
<1> HIDE DEF r, w
<1> DEFINE q == accounts'[a]
<1>5. q = [r EXCEPT !.email = e, !.version = w]
  BY <1>1
<1> HIDE DEF q
<1>3. accounts'[a] \in Account /\ accounts'[a].email = e
  <2>1. q \in Account
    BY <1>5, <1>2 DEF Account
  <2>2. q.email = e
    BY <1>5, <1>2 DEF Account
  <2> QED BY <2>1, <2>2 DEF q
<1>4. \A f \in {"org", "role", "made", "groups", "attributes"} : accounts'[a][f] = r[f]
  BY <1>1, <1>2 DEF Account
<1> QED BY <1>1, <1>3, <1>4 DEF Stays, r, OnboardingTypeOK

LEMMA AttributesWritten ==
  ASSUME OnboardingTypeOK, NEW a \in Made, NEW K \in SUBSET Attributes,
         accounts' = [accounts EXCEPT ![a].attributes = K]
  PROVE  /\ Made' = Made /\ \A x \in Made : accounts'[x] \in Account
         /\ \A x \in Made \ {a} : accounts'[x] = accounts[x]
         /\ accounts'[a].attributes = K
         /\ Stays(a, {"org", "email", "version", "role", "made", "groups"})
<1> DEFINE r == accounts[a]
<1>1. /\ accounts'[a] = [r EXCEPT !.attributes = K] /\ Made' = Made
      /\ \A x \in Made \ {a} : accounts'[x] = accounts[x]
  BY DEF Made
<1>2. r \in Account
  BY AccountParts
<1> HIDE DEF r
<1>3. accounts'[a] \in Account /\ accounts'[a].attributes = K
  BY <1>1, <1>2 DEF Account
<1>4. \A f \in {"org", "email", "version", "role", "made", "groups"} : accounts'[a][f] = r[f]
  BY <1>1, <1>2 DEF Account
<1> QED BY <1>1, <1>3, <1>4 DEF Stays, r, OnboardingTypeOK

LEMMA GroupsWritten ==
  ASSUME OnboardingTypeOK, NEW a \in Made, NEW G \in SUBSET Groups,
         accounts' = [accounts EXCEPT ![a].groups = G]
  PROVE  /\ Made' = Made /\ \A x \in Made : accounts'[x] \in Account
         /\ \A x \in Made \ {a} : accounts'[x] = accounts[x]
         /\ accounts'[a].groups = G
         /\ Stays(a, {"org", "email", "version", "role", "made", "attributes"})
<1> DEFINE r == accounts[a]
<1>1. /\ accounts'[a] = [r EXCEPT !.groups = G] /\ Made' = Made
      /\ \A x \in Made \ {a} : accounts'[x] = accounts[x]
  BY DEF Made
<1>2. r \in Account
  BY AccountParts
<1> HIDE DEF r
<1>3. accounts'[a] \in Account /\ accounts'[a].groups = G
  BY <1>1, <1>2 DEF Account
<1>4. \A f \in {"org", "email", "version", "role", "made", "attributes"} : accounts'[a][f] = r[f]
  BY <1>1, <1>2 DEF Account
<1> QED BY <1>1, <1>3, <1>4 DEF Stays, r, OnboardingTypeOK
-----------------------------------------------------------------------------
(* What each action does to the call that takes it.                         *)
Typed == stage' \in [Requests -> Stages] /\ job' \in [Requests -> Job]

LEMMA InitializeDoes ==
  ASSUME OnboardingTypeOK, NEW c \in Requests, Initialize(c)
  PROVE  /\ Typed /\ Moved(c, "idle", "claiming")
         /\ job'[c].kind = "setup" /\ job'[c].email \in Emails
         /\ orgs = {} /\ \A d \in Requests : job[d].kind = "setup" => ServerOf[d] # ServerOf[c]
         /\ UNCHANGED <<orgs, accounts, link, history>>
<1>1. PICK e \in Emails : job' = [job EXCEPT ![c] = [NoJob EXCEPT !.kind = "setup", !.email = e]]
  BY DEF Initialize
<1>2. /\ [NoJob EXCEPT !.kind = "setup", !.email = e] \in Job
      /\ [NoJob EXCEPT !.kind = "setup", !.email = e].kind = "setup"
      /\ [NoJob EXCEPT !.kind = "setup", !.email = e].email = e
  BY Empty DEF Job, NoJob
<1>3. /\ job' \in [Requests -> Job] /\ job'[c].kind = "setup" /\ job'[c].email = e
      /\ \A d \in Requests \ {c} : job'[d] = job[d]
  BY <1>1, <1>2 DEF OnboardingTypeOK
<1> QED BY <1>3, AdvanceDoes DEF Initialize, Initialized, Typed, Moved, Others, Stages

LEMMA OrganizationDoes ==
  ASSUME OnboardingTypeOK, NEW c \in Requests, NEW o \in Orgs, CreateOrganization(c, o)
  PROVE  /\ Typed /\ UNCHANGED <<accounts, link, settled, headless, stranded, stumbled>>
         /\ \/ /\ Moved(c, "claiming", "idle") /\ job'[c] = NoJob /\ UNCHANGED <<orgs, claims>>
            \/ /\ Moved(c, "claiming", "counting")
               /\ o \notin orgs /\ orgs' = orgs \cup {o}
               /\ claims' = claims \cup {<<ServerOf[c], o>>}
               /\ job'[c].org = o /\ Keeps(c, {"kind", "email"})
<1>1. UNCHANGED <<accounts, link, settled, headless, stranded, stumbled>>
  BY DEF CreateOrganization
<1>2. CASE o \in orgs
  BY <1>1, <1>2, EndsDoes DEF CreateOrganization, Typed
<1>3. CASE o \notin orgs
  <2>1. /\ Advance(c, "claiming", "counting") /\ job' = [job EXCEPT ![c].org = o]
        /\ orgs' = orgs \cup {o} /\ claims' = claims \cup {<<ServerOf[c], o>>}
    BY <1>3 DEF CreateOrganization
  <2>2. job' \in [Requests -> Job] /\ job'[c].org = o /\ Keeps(c, {"kind", "email"})
    BY <2>1, OrgSet DEF Keeps
  <2>3. Moved(c, "claiming", "counting") /\ stage' \in [Requests -> Stages]
    BY <2>1, AdvanceDoes DEF Moved, Others, Stages, OnboardingTypeOK
  <2> QED BY <1>1, <1>3, <2>1, <2>2, <2>3 DEF Typed
<1> QED BY <1>2, <1>3

LEMMA CommandDoes ==
  ASSUME OnboardingTypeOK, NEW c \in Requests, NEW o \in Orgs, NEW e \in Emails,
         CreateUserCommand(c, o, e)
  PROVE  /\ Typed /\ Moved(c, "idle", "counting") /\ orgs' = orgs \cup {o}
         /\ job'[c].kind = "command" /\ job'[c].org = o /\ job'[c].email = e
         /\ UNCHANGED <<accounts, link, history>>
<1> DEFINE j == [NoJob EXCEPT !.kind = "command", !.org = o, !.email = e]
<1>1. j \in Job /\ j.kind = "command" /\ j.org = o /\ j.email = e
  BY Empty DEF Job, NoJob
<1>2. job' = [job EXCEPT ![c] = j] /\ Advance(c, "idle", "counting")
  BY DEF CreateUserCommand
<1> HIDE DEF j
<1>3. job' \in [Requests -> Job] /\ job'[c] = j /\ \A d \in Requests \ {c} : job'[d] = job[d]
  BY <1>1, <1>2 DEF OnboardingTypeOK
<1>4. orgs' = orgs \cup {o} /\ UNCHANGED <<accounts, link, history>>
  BY DEF CreateUserCommand
<1>5. stage' \in [Requests -> Stages] /\ Moved(c, "idle", "counting")
  BY <1>2, <1>3, AdvanceDoes DEF Moved, Others, Stages
<1> QED BY <1>1, <1>3, <1>4, <1>5 DEF Typed

LEMMA CountDoes ==
  ASSUME OnboardingTypeOK, NEW c \in Requests, CountUsers(c)
  PROVE  /\ Typed /\ Moved(c, "counting", "creating") /\ Keeps(c, {"kind", "email", "org"})
         /\ job'[c].first = (Members(job[c].org) = {})
         /\ headless' = IF Members(job[c].org) = {} THEN headless \ {job[c].org} ELSE headless
         /\ UNCHANGED <<orgs, accounts, link, claims, settled, stranded, stumbled>>
<1> DEFINE v == Members(job[c].org) = {}
<1>1. job' = [job EXCEPT ![c].first = v] /\ Advance(c, "counting", "creating")
  BY DEF CountUsers
<1>2. v \in BOOLEAN
  OBVIOUS
<1>3. /\ headless' = IF Members(job[c].org) = {} THEN headless \ {job[c].org} ELSE headless
      /\ UNCHANGED <<orgs, accounts, link, claims, settled, stranded, stumbled>>
  BY DEF CountUsers
<1> HIDE DEF v
<1>4. /\ job' \in [Requests -> Job] /\ job'[c].first = v /\ Keeps(c, {"kind", "email", "org"})
  BY <1>1, <1>2, FirstSet DEF Keeps
<1>5. stage' \in [Requests -> Stages] /\ Moved(c, "counting", "creating")
  BY <1>1, AdvanceDoes DEF Moved, Others, Stages, OnboardingTypeOK
<1> QED BY <1>3, <1>4, <1>5 DEF Typed, v

(* What a new account starts with.                                          *)
Fresh(a, o, how) ==
  /\ a \in Accounts \ Made /\ Made' = Made \cup {a}
  /\ accounts'[a].org = o /\ accounts'[a].role = "none" /\ accounts'[a].made = how
  /\ \A x \in Made : accounts'[x] = accounts[x]
TypedAccounts == Made' \subseteq Accounts /\ \A x \in Made' : accounts'[x] \in Account

LEMMA FreshDoes ==
  ASSUME OnboardingTypeOK, NEW a \in Accounts \ Made, NEW o \in Orgs, NEW e \in Emails,
         NEW how \in {"call", "sign-on"}, NewAccount(a, o, e, how)
  PROVE  TypedAccounts /\ Fresh(a, o, how)
<1>1. TypedAccounts
  BY NewAccountDoes DEF TypedAccounts
<1>2. Made' = Made \cup {a} /\ \A x \in Made : accounts'[x] = accounts[x]
  BY NewAccountDoes
<1>3. accounts'[a] = [org |-> o, email |-> e, version |-> 0, role |-> "none", made |-> how,
                      groups |-> {}, attributes |-> {}]
  BY DEF NewAccount, Made
<1>4. accounts'[a].org = o /\ accounts'[a].role = "none" /\ accounts'[a].made = how
  BY <1>3
<1> QED BY <1>1, <1>2, <1>4 DEF Fresh

LEMMA CreateDoes ==
  ASSUME OnboardingTypeOK, AllPlaced, NEW c \in Requests, CreateUser(c)
  PROVE  /\ Typed /\ TypedAccounts /\ UNCHANGED <<orgs, link, history>>
         /\ \/ /\ Taken(job[c].org, job[c].email) /\ UNCHANGED accounts
               /\ Moved(c, "creating", "idle") /\ job'[c] = NoJob
            \/ /\ ~job[c].first /\ Moved(c, "creating", "idle") /\ job'[c] = NoJob
               /\ \E a \in Accounts : Fresh(a, job[c].org, "call")
            \/ /\ Moved(c, "creating", "making admin") /\ Keeps(c, {"kind", "email", "org"})
               /\ Fresh(job'[c].account, job[c].org, "call")
<1>1. UNCHANGED <<orgs, link, history>> /\ stage[c] = "creating"
  BY DEF CreateUser, Ends, Advance
<1>2. CASE Taken(job[c].org, job[c].email)
  <2>1. Ends(c, "creating") /\ UNCHANGED accounts
    BY <1>2 DEF CreateUser
  <2> QED BY <1>1, <1>2, <2>1, EndsDoes DEF Typed, TypedAccounts, OnboardingTypeOK, Made
<1>3. CASE ~Taken(job[c].org, job[c].email)
  <2>1. PICK a \in Accounts \ Made :
          /\ NewAccount(a, job[c].org, job[c].email, "call")
          /\ IF job[c].first
             THEN Advance(c, "creating", "making admin") /\ job' = [job EXCEPT ![c].account = a]
             ELSE Ends(c, "creating")
    BY <1>3 DEF CreateUser
  <2>2. job[c].org \in Orgs /\ job[c].email \in Emails
    BY <1>1, JobParts DEF AllPlaced, Placed, MakingFirst
  <2>3. TypedAccounts /\ Fresh(a, job[c].org, "call")
    BY <2>1, <2>2, FreshDoes
  <2>4. CASE job[c].first
    <3>1. /\ job' \in [Requests -> Job] /\ job'[c].account = a
          /\ Keeps(c, {"kind", "email", "org"})
      BY <2>1, <2>4, AccountSet DEF Keeps
    <3>2. stage' \in [Requests -> Stages] /\ Moved(c, "creating", "making admin")
      BY <2>1, <2>4, AdvanceDoes DEF Moved, Others, Stages, OnboardingTypeOK
    <3> QED BY <1>1, <2>3, <3>1, <3>2 DEF Typed
  <2>5. CASE ~job[c].first
    BY <1>1, <2>1, <2>3, <2>5, EndsDoes DEF Typed
  <2> QED BY <2>4, <2>5
<1> QED BY <1>2, <1>3

(* A statement that writes one account, and what of it stays.               *)
Writes(a, fields) ==
  /\ a \in Made /\ Made' = Made /\ Stays(a, fields)
  /\ \A x \in Made \ {a} : accounts'[x] = accounts[x]

LEMMA AdminDoes ==
  ASSUME OnboardingTypeOK, AllPlaced, NEW c \in Requests, MakeAdmin(c)
  PROVE  LET a == job[c].account IN
         /\ Typed /\ TypedAccounts /\ UNCHANGED <<orgs, link, history>>
         /\ Moved(c, "making admin", "idle") /\ job'[c] = NoJob
         /\ accounts'[a].role = "admin"
         /\ Writes(a, {"org", "email", "version", "made", "groups", "attributes"})
<1>1. UNCHANGED <<orgs, link, history>> /\ Ends(c, "making admin")
  BY DEF MakeAdmin
<1>2. Typed /\ Moved(c, "making admin", "idle") /\ job'[c] = NoJob
  BY <1>1, EndsDoes DEF Typed
<1>3. job[c].account \in Made
  BY <1>2 DEF Moved, AllPlaced, Placed, AtAccount
<1>4. accounts' = Promoted(job[c].account, "admin")
  BY DEF MakeAdmin
<1> QED BY <1>1, <1>2, <1>3, <1>4, PromotedDoes DEF TypedAccounts, OnboardingTypeOK, Writes
(* Another sign-on only marks those that are running.                       *)
SameBut(d) ==
  \A f \in {"kind", "org", "email", "first", "account", "subject", "version", "groups",
            "attributes", "left"} : job'[d][f] = job[d][f]

LEMMA SignOnDoes ==
  ASSUME OnboardingTypeOK, NEW c \in Requests, NEW s \in Subjects, SignOn(c, s), AllPlaced
  PROVE  /\ Typed /\ Home \in orgs /\ stage[c] = "idle" /\ stage'[c] = "looking up"
         /\ job'[c].kind = "sign-on" /\ job'[c].subject = s /\ job'[c].crossed = (SigningOn # {})
         /\ \A d \in Requests \ {c} :
              /\ stage'[d] = stage[d] /\ SameBut(d)
              /\ job'[d].crossed = (job[d].crossed \/ job[d].kind = "sign-on")
         /\ settled' = NotSettled
         /\ UNCHANGED <<orgs, accounts, link, claims, headless, stranded, stumbled>>
<1>1. /\ Home \in orgs /\ Advance(c, "idle", "looking up") /\ settled' = NotSettled
      /\ UNCHANGED <<orgs, accounts, link, claims, headless, stranded, stumbled>>
  BY DEF SignOn
<1>2. PICK e \in Emails \cup {NoEmail} :
        job' = [d \in Requests |->
          IF d = c THEN [NoJob EXCEPT !.kind = "sign-on", !.subject = s, !.email = e,
                                      !.crossed = SigningOn # {}]
          ELSE IF d \in SigningOn THEN [job[d] EXCEPT !.crossed = TRUE] ELSE job[d]]
  BY DEF SignOn
<1> DEFINE x == SigningOn # {}
           j == [NoJob EXCEPT !.kind = "sign-on", !.subject = s, !.email = e, !.crossed = x]
<1>3. x \in BOOLEAN
  OBVIOUS
<1>4. job'[c] = j
  BY <1>2
<1> HIDE DEF x
<1>6. j \in Job
  BY <1>3, Empty DEF Job, NoJob
<1>7. j.kind = "sign-on" /\ j.subject = s /\ j.crossed = x
  BY DEF NoJob
<1> HIDE DEF j
<1>8. ASSUME NEW d \in Requests \ {c}
      PROVE  /\ job'[d] \in Job /\ SameBut(d)
             /\ job'[d].crossed = (job[d].crossed \/ job[d].kind = "sign-on")
  <2>1. job[d] \in Job /\ job[d].crossed \in BOOLEAN
    BY JobParts
  <2>2. CASE job[d].kind = "sign-on"
    <3> DEFINE k == job[d]
               r == job'[d]
    <3>1. k \in Job /\ r = [k EXCEPT !.crossed = TRUE]
      BY <1>2, <2>1, <2>2 DEF SigningOn
    <3> HIDE DEF k, r
    <3>2. r \in Job /\ r.crossed = TRUE
      BY <3>1 DEF Job
    <3>3. \A f \in {"kind", "org", "email", "first", "account", "subject", "version", "groups",
                    "attributes", "left"} : r[f] = k[f]
      BY <3>1 DEF Job
    <3> QED BY <2>2, <3>2, <3>3 DEF SameBut, k, r
  <2>3. CASE job[d].kind # "sign-on"
    <3>1. job'[d] = job[d]
      BY <1>2, <2>3 DEF SigningOn
    <3> QED BY <2>1, <2>3, <3>1 DEF SameBut
  <2> QED BY <2>2, <2>3
<1>9. job' \in [Requests -> Job]
  <2>1. \A d \in Requests : job'[d] \in Job
    BY <1>4, <1>6, <1>8
  <2>2. job' = [d \in Requests |-> job'[d]]
    BY <1>2
  <2> QED BY <2>1, <2>2
<1>10. /\ stage' \in [Requests -> Stages] /\ stage[c] = "idle" /\ stage'[c] = "looking up"
       /\ \A d \in Requests \ {c} : stage'[d] = stage[d]
  BY <1>1, AdvanceDoes DEF Stages
<1>11. job'[c].kind = "sign-on" /\ job'[c].subject = s /\ job'[c].crossed = (SigningOn # {})
  BY <1>4, <1>7 DEF x
<1> QED BY <1>1, <1>8, <1>9, <1>10, <1>11 DEF Typed

LEMMA FindDoes ==
  ASSUME OnboardingTypeOK, NEW c \in Requests, FindFederatedIdentity(c)
  PROVE  LET s == job[c].subject IN
         /\ Typed /\ UNCHANGED <<orgs, accounts, link, history>>
         /\ \/ /\ s \in DOMAIN link /\ Moved(c, "looking up", "loading")
               /\ job'[c].account = link[s] /\ Keeps(c, {"kind", "email", "subject", "crossed"})
            \/ /\ s \notin DOMAIN link /\ job' = job
               /\ Moved(c, "looking up", "matching") \/ Moved(c, "looking up", "provisioning")
            \/ Moved(c, "looking up", "idle") /\ job'[c] = NoJob
<1> DEFINE s == job[c].subject
           v == link[s]
<1>1. UNCHANGED <<orgs, accounts, link, history>>
  BY DEF FindFederatedIdentity
<1>2. CASE s \in DOMAIN link
  <2>1. Advance(c, "looking up", "loading") /\ job' = [job EXCEPT ![c].account = v]
    BY <1>2 DEF FindFederatedIdentity
  <2>2. v \in Accounts
    BY <1>2 DEF OnboardingTypeOK
  <2> HIDE DEF v
  <2>3. /\ job' \in [Requests -> Job] /\ job'[c].account = v
        /\ Keeps(c, {"kind", "email", "subject", "crossed"})
    <3>1. /\ job' \in [Requests -> Job] /\ job'[c].account = v
          /\ Keeps(c, {"kind", "email", "org", "first", "subject", "version", "groups",
                       "attributes", "left", "crossed"})
      BY <2>1, <2>2, AccountSet
    <3> QED BY <3>1 DEF Keeps
  <2>4. stage' \in [Requests -> Stages] /\ Moved(c, "looking up", "loading")
    BY <2>1, AdvanceDoes DEF Moved, Others, Stages, OnboardingTypeOK
  <2> QED BY <1>1, <1>2, <2>3, <2>4 DEF Typed, v
<1>3. CASE s \notin DOMAIN link
  <2>1. \/ Advance(c, "looking up", "matching") /\ job' = job
        \/ Advance(c, "looking up", "provisioning") /\ job' = job
        \/ Ends(c, "looking up")
    BY <1>3 DEF FindFederatedIdentity
  <2>2. CASE Ends(c, "looking up")
    BY <1>1, <2>2, EndsDoes DEF Typed
  <2>3. CASE Advance(c, "looking up", "matching") /\ job' = job
    BY <1>1, <1>3, <2>3, AdvanceDoes DEF Typed, Moved, Others, Stages, OnboardingTypeOK
  <2>4. CASE Advance(c, "looking up", "provisioning") /\ job' = job
    BY <1>1, <1>3, <2>4, AdvanceDoes DEF Typed, Moved, Others, Stages, OnboardingTypeOK
  <2> QED BY <2>1, <2>2, <2>3, <2>4
<1> QED BY <1>2, <1>3

LEMMA LoadDoes ==
  ASSUME OnboardingTypeOK, AllPlaced, NEW c \in Requests, LoadUser(c)
  PROVE  /\ Typed /\ UNCHANGED <<orgs, accounts, link, history>>
         /\ \/ Moved(c, "loading", "clearing")
            \/ Moved(c, "loading", "address") /\ job[c].email \in Emails
         /\ job[c].account \in Made /\ job'[c].version = accounts[job[c].account].version
         /\ Keeps(c, {"kind", "email", "account", "subject", "crossed"})
<1> DEFINE a == job[c].account
           v == accounts[a].version
<1>1. /\ UNCHANGED <<orgs, accounts, link, history>>
      /\ \/ Advance(c, "loading", "clearing")
         \/ Advance(c, "loading", "address") /\ job[c].email # NoEmail
  BY DEF LoadUser
<1>7. job' = [job EXCEPT ![c].version = v]
  BY DEF LoadUser
<1>2. a \in Made
  BY <1>1 DEF AllPlaced, Placed, AtAccount, Advance
<1>3. v \in 0 .. MaxVersion
  BY <1>2, AccountParts
<1> HIDE DEF v
<1>4. /\ job' \in [Requests -> Job] /\ job'[c].version = v
      /\ Keeps(c, {"kind", "email", "account", "subject", "crossed"})
  <2>1. /\ job' \in [Requests -> Job] /\ job'[c].version = v
        /\ Keeps(c, {"kind", "email", "org", "first", "subject", "account", "groups",
                     "attributes", "left", "crossed"})
    BY <1>3, <1>7, VersionSet
  <2> QED BY <2>1 DEF Keeps
<1>5. CASE Advance(c, "loading", "clearing")
  <2>1. stage' \in [Requests -> Stages] /\ Moved(c, "loading", "clearing")
    BY <1>5, <1>7, AdvanceDoes DEF Moved, Others, Stages, OnboardingTypeOK
  <2> QED BY <1>1, <1>2, <1>4, <2>1 DEF Typed, v
<1>6. CASE Advance(c, "loading", "address") /\ job[c].email # NoEmail
  <2>1. stage' \in [Requests -> Stages] /\ Moved(c, "loading", "address")
    BY <1>6, <1>7, AdvanceDoes DEF Moved, Others, Stages, OnboardingTypeOK
  <2>2. job[c].email \in Emails
    BY <1>6, JobParts
  <2> QED BY <1>1, <1>2, <1>4, <2>1, <2>2 DEF Typed, v
<1> QED BY <1>1, <1>5, <1>6
LEMMA GoesOn ==
  ASSUME OnboardingTypeOK, NEW c \in Requests, NEW from, NEW to \in Stages, Advance(c, from, to),
         job' = job
  PROVE  Typed /\ Moved(c, from, to)
BY AdvanceDoes DEF Typed, Moved, Others, OnboardingTypeOK

LEMMA EmailDoes ==
  ASSUME OnboardingTypeOK, AllPlaced, NEW c \in Requests, SyncEmail(c)
  PROVE  LET a == job[c].account IN
         /\ Typed /\ TypedAccounts /\ UNCHANGED <<orgs, link, claims, settled, headless, stranded>>
         /\ \/ /\ accounts[a].version # job[c].version
               /\ Moved(c, "address", "idle") /\ job'[c] = NoJob /\ UNCHANGED accounts
               /\ stumbled' = (stumbled \/ ~job[c].crossed)
            \/ /\ Moved(c, "address", "clearing") /\ job' = job /\ UNCHANGED stumbled
               /\ UNCHANGED accounts \/ Writes(a, {"org", "role", "made", "groups", "attributes"})
<1> DEFINE a == job[c].account
<1>1. CASE accounts[a].version # job[c].version
  <2>1. Ends(c, "address") /\ UNCHANGED <<orgs, accounts, link, claims, settled, headless, stranded>>
    BY <1>1 DEF SyncEmail, Collide
  <2>2. stumbled' = (stumbled \/ ~job[c].crossed)
    BY <1>1 DEF SyncEmail, Collide
  <2> QED BY <1>1, <2>1, <2>2, EndsDoes DEF Typed, TypedAccounts, Made, OnboardingTypeOK
<1>2. CASE accounts[a].version = job[c].version
  <2>1. Advance(c, "address", "clearing") /\ UNCHANGED <<orgs, link, job, history>>
    BY <1>2 DEF SyncEmail
  <2>2. Typed /\ Moved(c, "address", "clearing")
    BY <2>1, GoesOn DEF Stages
  <2>3. a \in Made /\ job[c].email \in Emails
    BY <2>1 DEF Advance, AllPlaced, Placed, AtAccount
  <2>4. CASE Taken(Home, job[c].email)
    <3>1. UNCHANGED accounts
      BY <1>2, <2>4 DEF SyncEmail
    <3>2. TypedAccounts
      BY <3>1 DEF TypedAccounts, Made, OnboardingTypeOK
    <3> QED BY <2>1, <2>2, <3>1, <3>2 DEF history
  <2>5. CASE ~Taken(Home, job[c].email)
    <3> DEFINE e == job[c].email
    <3>1. /\ accounts[a].version < MaxVersion
          /\ accounts' = [accounts EXCEPT ![a].email = e, ![a].version = @ + 1]
      BY <1>2, <2>5 DEF SyncEmail
    <3> HIDE DEF a, e
    <3>2. /\ Made' = Made /\ \A x \in Made : accounts'[x] \in Account
          /\ \A x \in Made \ {a} : accounts'[x] = accounts[x]
          /\ Stays(a, {"org", "role", "made", "groups", "attributes"})
      BY <2>3, <3>1, AddressWritten DEF a, e
    <3>3. TypedAccounts /\ Writes(a, {"org", "role", "made", "groups", "attributes"})
      BY <2>3, <3>2 DEF TypedAccounts, Writes, a, OnboardingTypeOK
    <3> QED BY <2>1, <2>2, <3>3 DEF history, a
  <2> QED BY <2>4, <2>5
<1> QED BY <1>1, <1>2

LEMMA MatchDoes ==
  ASSUME OnboardingTypeOK, NEW c \in Requests, MatchEmail(c)
  PROVE  /\ Typed /\ UNCHANGED <<orgs, accounts, link, history>>
         /\ \/ /\ Moved(c, "matching", "linking") /\ job'[c].account \in Made
               /\ Keeps(c, {"kind", "email", "subject", "crossed"})
            \/ Moved(c, "matching", "provisioning") /\ job' = job
            \/ Moved(c, "matching", "idle") /\ job'[c] = NoJob
<1>1. UNCHANGED <<orgs, accounts, link, history>>
  BY DEF MatchEmail
<1>2. CASE Advance(c, "matching", "provisioning") /\ job' = job
  BY <1>1, <1>2, GoesOn DEF Stages
<1>3. CASE Ends(c, "matching")
  BY <1>1, <1>3, EndsDoes DEF Typed
<1>4. ASSUME NEW a \in Members(Home), Advance(c, "matching", "linking"),
             job' = [job EXCEPT ![c].account = a]
      PROVE  /\ Typed /\ Moved(c, "matching", "linking") /\ job'[c].account = a /\ a \in Made
             /\ Keeps(c, {"kind", "email", "subject", "crossed"})
  <2>1. a \in Made /\ a \in Accounts
    BY DEF Members, OnboardingTypeOK
  <2>2. /\ job' \in [Requests -> Job] /\ job'[c].account = a
        /\ Keeps(c, {"kind", "email", "org", "first", "subject", "version", "groups",
                     "attributes", "left", "crossed"})
    BY <1>4, <2>1, AccountSet
  <2>3. stage' \in [Requests -> Stages] /\ Moved(c, "matching", "linking")
    BY <1>4, AdvanceDoes DEF Moved, Others, Stages, OnboardingTypeOK
  <2>4. Keeps(c, {"kind", "email", "subject", "crossed"})
    BY <2>2 DEF Keeps
  <2> QED BY <2>1, <2>2, <2>3, <2>4 DEF Typed
<1> QED BY <1>1, <1>2, <1>3, <1>4 DEF MatchEmail

LEMMA ProvisionDoes ==
  ASSUME OnboardingTypeOK, NEW c \in Requests, Provision(c)
  PROVE  /\ Typed /\ TypedAccounts /\ UNCHANGED <<orgs, link, claims, settled, stranded, stumbled>>
         /\ \/ /\ Moved(c, "provisioning", "idle") /\ job'[c] = NoJob
               /\ UNCHANGED <<accounts, headless>>
            \/ /\ Moved(c, "provisioning", "linking new")
               /\ Fresh(job'[c].account, Home, "sign-on")
               /\ Keeps(c, {"kind", "email", "subject", "crossed"})
               /\ headless' = IF Members(Home) = {} THEN headless \cup {Home} ELSE headless
<1>1. UNCHANGED <<orgs, link, claims, settled, stranded, stumbled>>
  BY DEF Provision
<1>2. CASE job[c].email = NoEmail \/ Taken(Home, job[c].email)
  <2>1. Ends(c, "provisioning") /\ UNCHANGED <<accounts, headless>>
    BY <1>2 DEF Provision
  <2> QED BY <1>1, <2>1, EndsDoes DEF Typed, TypedAccounts, Made, OnboardingTypeOK
<1>3. CASE ~(job[c].email = NoEmail \/ Taken(Home, job[c].email))
  <2>1. PICK a \in Accounts \ Made :
          /\ NewAccount(a, Home, job[c].email, "sign-on")
          /\ Advance(c, "provisioning", "linking new")
          /\ job' = [job EXCEPT ![c].account = a]
          /\ headless' = IF Members(Home) = {} THEN headless \cup {Home} ELSE headless
    BY <1>3 DEF Provision
  <2>2. job[c].email \in Emails
    BY <1>3, JobParts
  <2>3. TypedAccounts /\ Fresh(a, Home, "sign-on")
    BY <2>1, <2>2, FreshDoes, OnboardingAssumption
  <2>4. /\ job' \in [Requests -> Job] /\ job'[c].account = a
        /\ Keeps(c, {"kind", "email", "org", "first", "subject", "version", "groups",
                     "attributes", "left", "crossed"})
    BY <2>1, AccountSet
  <2>5. stage' \in [Requests -> Stages] /\ Moved(c, "provisioning", "linking new")
    BY <2>1, AdvanceDoes DEF Moved, Others, Stages, OnboardingTypeOK
  <2>6. Keeps(c, {"kind", "email", "subject", "crossed"})
    BY <2>4 DEF Keeps
  <2> QED BY <1>1, <2>1, <2>3, <2>4, <2>5, <2>6 DEF Typed
<1> QED BY <1>2, <1>3

LEMMA LinkDoes ==
  ASSUME OnboardingTypeOK, AllPlaced, NEW c \in Requests, NEW from \in {"linking", "linking new"},
         NEW to \in Stages, LinkFederatedIdentity(c, from, to)
  PROVE  LET s == job[c].subject IN
         /\ Typed /\ UNCHANGED <<orgs, accounts, claims, settled, headless>>
         /\ s \in Subjects /\ job[c].account \in Made
         /\ \/ /\ s \in DOMAIN link /\ Moved(c, from, "idle") /\ job'[c] = NoJob
               /\ UNCHANGED link /\ stumbled' = (stumbled \/ ~job[c].crossed)
               /\ stranded' = IF from = "linking new" /\ job[c].crossed
                              THEN stranded \cup {job[c].account} ELSE stranded
            \/ /\ s \notin DOMAIN link /\ Moved(c, from, to) /\ job' = job
               /\ UNCHANGED <<stranded, stumbled>>
               /\ DOMAIN link' = DOMAIN link \cup {s} /\ link'[s] = job[c].account
               /\ \A x \in DOMAIN link : link'[x] = link[x]
<1> DEFINE s == job[c].subject
<1>1. stage[c] = from
  BY DEF LinkFederatedIdentity, Collide, Ends, Advance
<1>2. s \in Subjects /\ job[c].account \in Made
  BY <1>1 DEF AllPlaced, Placed, SigningStages, AtAccount
<1>3. CASE s \in DOMAIN link
  <2>1. Ends(c, from) /\ UNCHANGED <<orgs, accounts, link, claims, settled, headless>>
    BY <1>3 DEF LinkFederatedIdentity, Collide
  <2>2. stumbled' = (stumbled \/ ~job[c].crossed)
    BY <1>3 DEF LinkFederatedIdentity, Collide
  <2>3. stranded' = IF from = "linking new" /\ job[c].crossed
                    THEN stranded \cup {job[c].account} ELSE stranded
    BY <1>3 DEF LinkFederatedIdentity
  <2> QED BY <1>2, <1>3, <2>1, <2>2, <2>3, EndsDoes DEF Typed
<1>4. CASE s \notin DOMAIN link
  <2>1. /\ Advance(c, from, to) /\ job' = job /\ UNCHANGED <<orgs, accounts, history>>
        /\ link' = [x \in DOMAIN link \cup {s} |-> IF x = s THEN job[c].account ELSE link[x]]
    BY <1>4 DEF LinkFederatedIdentity
  <2>2. Typed /\ Moved(c, from, to)
    BY <2>1, GoesOn
  <2>3. DOMAIN link' = DOMAIN link \cup {s} /\ link'[s] = job[c].account
    BY <2>1
  <2>4. \A x \in DOMAIN link : link'[x] = link[x]
    BY <1>4, <2>1
  <2> QED BY <1>2, <1>4, <2>1, <2>2, <2>3, <2>4 DEF history
<1> QED BY <1>3, <1>4
LEMMA GrantDoes ==
  ASSUME OnboardingTypeOK, AllPlaced, NEW c \in Requests, GrantDefaultRole(c)
  PROVE  LET a == job[c].account IN
         /\ Typed /\ TypedAccounts /\ UNCHANGED <<orgs, link, history>>
         /\ Moved(c, "granting", "clearing") /\ job' = job
         /\ Writes(a, {"org", "email", "version", "made", "groups", "attributes"})
         /\ accounts'[a].role = IF accounts[a].role = "admin" \/ DefaultRole = "none"
                                THEN accounts[a].role ELSE DefaultRole
<1>1. Advance(c, "granting", "clearing") /\ UNCHANGED <<orgs, link, job, history>>
  BY DEF GrantDefaultRole
<1>2. Typed /\ Moved(c, "granting", "clearing")
  BY <1>1, GoesOn DEF Stages
<1>3. job[c].account \in Made
  BY <1>2 DEF Moved, AllPlaced, Placed, AtAccount
<1> DEFINE a == job[c].account
<1>4. accounts' = Promoted(a, DefaultRole) /\ DefaultRole \in {"none", "member", "admin"}
  BY OnboardingAssumption DEF GrantDefaultRole
<1> HIDE DEF a
<1>5. /\ TypedAccounts /\ Writes(a, {"org", "email", "version", "made", "groups", "attributes"})
      /\ accounts'[a].role = IF accounts[a].role = "admin" \/ DefaultRole = "none"
                             THEN accounts[a].role ELSE DefaultRole
  BY <1>3, <1>4, PromotedDoes DEF TypedAccounts, OnboardingTypeOK, Writes, a
<1> QED BY <1>1, <1>2, <1>5 DEF a

LEMMA ClearDoes ==
  ASSUME OnboardingTypeOK, AllPlaced, NEW c \in Requests, ClearAttributes(c)
  PROVE  LET a == job[c].account IN
         /\ Typed /\ TypedAccounts /\ UNCHANGED <<orgs, link, history>>
         /\ Moved(c, "clearing", "setting") /\ job'[c].left = job'[c].attributes
         /\ Keeps(c, {"kind", "email", "account", "subject", "crossed"})
         /\ Writes(a, {"org", "email", "version", "role", "made", "groups"})
         /\ accounts'[a].attributes = {}
<1> DEFINE a == job[c].account
           none == {}
<1>1. Advance(c, "clearing", "setting") /\ UNCHANGED <<orgs, link, history>>
  BY DEF ClearAttributes
<1>2. PICK K \in SUBSET Attributes : job' = [job EXCEPT ![c].attributes = K, ![c].left = K]
  BY DEF ClearAttributes
<1>3. accounts' = [accounts EXCEPT ![a].attributes = none] /\ none \in SUBSET Attributes
  BY DEF ClearAttributes
<1>4. a \in Made
  BY <1>1 DEF Advance, AllPlaced, Placed, AtAccount
<1>5. K \in SUBSET (Groups \cup Attributes)
  OBVIOUS
<1>6. /\ job' \in [Requests -> Job] /\ job'[c].attributes = K /\ job'[c].left = K
      /\ Keeps(c, {"kind", "email", "org", "first", "subject", "account", "groups",
                   "version", "crossed"})
  BY <1>2, <1>5, AttributesSet
<1>7. Keeps(c, {"kind", "email", "account", "subject", "crossed"})
  BY <1>6 DEF Keeps
<1>8. stage' \in [Requests -> Stages] /\ Moved(c, "clearing", "setting")
  BY <1>1, <1>2, AdvanceDoes DEF Moved, Others, Stages, OnboardingTypeOK
<1> HIDE DEF a, none
<1>9. /\ TypedAccounts /\ Writes(a, {"org", "email", "version", "role", "made", "groups"})
      /\ accounts'[a].attributes = none
  BY <1>3, <1>4, AttributesWritten DEF TypedAccounts, Writes, OnboardingTypeOK
<1> QED BY <1>1, <1>6, <1>7, <1>8, <1>9 DEF Typed, a, none

LEMMA LeftDoes ==
  ASSUME OnboardingTypeOK, NEW c \in Requests, NEW x, job' = [job EXCEPT ![c].left = @ \ {x}],
         stage' = stage
  PROVE  /\ Typed /\ Others(c) /\ job'[c].left = job[c].left \ {x}
         /\ Keeps(c, {"kind", "email", "account", "subject", "groups", "attributes", "crossed"})
<1> DEFINE v == job[c].left \ {x}
<1>1. job' = [job EXCEPT ![c].left = v] /\ v \in SUBSET (Groups \cup Attributes)
  BY JobParts
<1> HIDE DEF v
<1>2. /\ job' \in [Requests -> Job] /\ job'[c].left = v
      /\ Keeps(c, {"kind", "email", "org", "first", "subject", "account", "groups",
                   "attributes", "version", "crossed"})
  BY <1>1, LeftSet
<1>3. Keeps(c, {"kind", "email", "account", "subject", "groups", "attributes", "crossed"})
  BY <1>2 DEF Keeps
<1> QED BY <1>1, <1>2, <1>3 DEF Typed, Others, v, OnboardingTypeOK

LEMMA SetDoes ==
  ASSUME OnboardingTypeOK, AllPlaced, NEW c \in Requests, NEW k \in Attributes, SetAttribute(c, k)
  PROVE  LET a == job[c].account IN
         /\ Typed /\ TypedAccounts /\ UNCHANGED <<orgs, link, history>>
         /\ stage[c] = "setting" /\ stage' = stage /\ Others(c)
         /\ k \in job[c].left /\ job'[c].left = job[c].left \ {k}
         /\ Keeps(c, {"kind", "email", "account", "subject", "groups", "attributes", "crossed"})
         /\ Writes(a, {"org", "email", "version", "role", "made", "groups"})
         /\ accounts'[a].attributes = accounts[a].attributes \cup {k}
<1> DEFINE a == job[c].account
           K == accounts[a].attributes \cup {k}
<1>1. stage[c] = "setting" /\ k \in job[c].left /\ UNCHANGED <<orgs, link, stage, history>>
  BY DEF SetAttribute
<1>2. job' = [job EXCEPT ![c].left = @ \ {k}]
  BY DEF SetAttribute
<1>3. accounts' = [accounts EXCEPT ![a].attributes = K]
  BY DEF SetAttribute
<1>4. a \in Made
  BY <1>1 DEF AllPlaced, Placed, AtAccount
<1>5. K \in SUBSET Attributes
  BY <1>4, AccountParts
<1>6. /\ Typed /\ Others(c) /\ job'[c].left = job[c].left \ {k}
      /\ Keeps(c, {"kind", "email", "account", "subject", "groups", "attributes", "crossed"})
  BY <1>1, <1>2, LeftDoes
<1> HIDE DEF a, K
<1>7. /\ TypedAccounts /\ Writes(a, {"org", "email", "version", "role", "made", "groups"})
      /\ accounts'[a].attributes = K
  BY <1>3, <1>4, <1>5, AttributesWritten DEF TypedAccounts, Writes, OnboardingTypeOK
<1> QED BY <1>1, <1>6, <1>7 DEF a, K

LEMMA ListDoes ==
  ASSUME OnboardingTypeOK, AllPlaced, NEW c \in Requests, ListGroups(c)
  PROVE  LET have == accounts[job[c].account].groups IN
         /\ Typed /\ UNCHANGED <<orgs, accounts, link, history>>
         /\ Moved(c, "setting", "grouping") /\ job[c].left = {} /\ job[c].account \in Made
         /\ Keeps(c, {"kind", "email", "account", "subject", "attributes", "crossed"})
         /\ job'[c].left = (job'[c].groups \ have) \cup (have \ job'[c].groups)
<1> DEFINE have == accounts[job[c].account].groups
<1>1. /\ Advance(c, "setting", "grouping") /\ job[c].left = {}
      /\ UNCHANGED <<orgs, accounts, link, history>>
  BY DEF ListGroups
<1>2. PICK G \in SUBSET Groups :
        job' = [job EXCEPT ![c].groups = G, ![c].left = (G \ have) \cup (have \ G)]
  BY DEF ListGroups
<1>3. job[c].account \in Made
  BY <1>1 DEF Advance, AllPlaced, Placed, AtAccount
<1>4. have \in SUBSET Groups
  BY <1>3, AccountParts
<1> HIDE DEF have
<1> DEFINE w == (G \ have) \cup (have \ G)
<1>5. w \in SUBSET (Groups \cup Attributes) /\ job' = [job EXCEPT ![c].groups = G, ![c].left = w]
  BY <1>2, <1>4
<1> HIDE DEF w
<1>6. /\ job' \in [Requests -> Job] /\ job'[c].groups = G /\ job'[c].left = w
      /\ Keeps(c, {"kind", "email", "org", "first", "subject", "account", "attributes",
                   "version", "crossed"})
  BY <1>5, GroupsSet
<1>7. Keeps(c, {"kind", "email", "account", "subject", "attributes", "crossed"})
  BY <1>6 DEF Keeps
<1>8. stage' \in [Requests -> Stages] /\ Moved(c, "setting", "grouping")
  BY <1>1, <1>2, AdvanceDoes DEF Moved, Others, Stages, OnboardingTypeOK
<1> QED BY <1>1, <1>3, <1>6, <1>7, <1>8 DEF Typed, w, have

LEMMA AddDoes ==
  ASSUME OnboardingTypeOK, AllPlaced, NEW c \in Requests, NEW g \in Groups, AddMember(c, g)
  PROVE  LET a == job[c].account IN
         /\ Typed /\ TypedAccounts /\ UNCHANGED <<orgs, link, history>>
         /\ stage[c] = "grouping" /\ stage' = stage /\ Others(c)
         /\ g \in job[c].left \cap job[c].groups /\ job'[c].left = job[c].left \ {g}
         /\ Keeps(c, {"kind", "email", "account", "subject", "groups", "attributes", "crossed"})
         /\ Writes(a, {"org", "email", "version", "role", "made", "attributes"})
         /\ accounts'[a].groups = accounts[a].groups \cup {g}
<1> DEFINE a == job[c].account
           G == accounts[a].groups \cup {g}
<1>1. /\ stage[c] = "grouping" /\ g \in job[c].left \cap job[c].groups
      /\ UNCHANGED <<orgs, link, stage, history>>
  BY DEF AddMember
<1>2. job' = [job EXCEPT ![c].left = @ \ {g}]
  BY DEF AddMember
<1>3. accounts' = [accounts EXCEPT ![a].groups = G]
  BY DEF AddMember
<1>4. a \in Made
  BY <1>1 DEF AllPlaced, Placed, AtAccount
<1>5. G \in SUBSET Groups
  BY <1>4, AccountParts
<1>6. /\ Typed /\ Others(c) /\ job'[c].left = job[c].left \ {g}
      /\ Keeps(c, {"kind", "email", "account", "subject", "groups", "attributes", "crossed"})
  BY <1>1, <1>2, LeftDoes
<1> HIDE DEF a, G
<1>7. /\ TypedAccounts /\ Writes(a, {"org", "email", "version", "role", "made", "attributes"})
      /\ accounts'[a].groups = G
  BY <1>3, <1>4, <1>5, GroupsWritten DEF TypedAccounts, Writes, OnboardingTypeOK
<1> QED BY <1>1, <1>6, <1>7 DEF a, G

LEMMA RemoveDoes ==
  ASSUME OnboardingTypeOK, AllPlaced, NEW c \in Requests, NEW g \in Groups, RemoveMember(c, g)
  PROVE  LET a == job[c].account IN
         /\ Typed /\ TypedAccounts /\ UNCHANGED <<orgs, link, claims, settled, headless, stranded>>
         /\ stage[c] = "grouping" /\ g \in job[c].left /\ job[c].left \cap job[c].groups = {}
         /\ \/ /\ g \notin accounts[a].groups /\ UNCHANGED accounts
               /\ Moved(c, "grouping", "idle") /\ job'[c] = NoJob
               /\ stumbled' = (stumbled \/ ~job[c].crossed)
            \/ /\ stage' = stage /\ Others(c) /\ UNCHANGED stumbled
               /\ job'[c].left = job[c].left \ {g}
               /\ Keeps(c, {"kind", "email", "account", "subject", "groups", "attributes", "crossed"})
               /\ Writes(a, {"org", "email", "version", "role", "made", "attributes"})
               /\ accounts'[a].groups = accounts[a].groups \ {g}
<1> DEFINE a == job[c].account
           G == accounts[a].groups \ {g}
<1>1. stage[c] = "grouping" /\ g \in job[c].left /\ job[c].left \cap job[c].groups = {}
  BY DEF RemoveMember
<1>2. a \in Made
  BY <1>1 DEF AllPlaced, Placed, AtAccount
<1>3. CASE g \notin accounts[a].groups
  <2>1. Ends(c, "grouping") /\ UNCHANGED <<orgs, accounts, link, claims, settled, headless, stranded>>
    BY <1>3 DEF RemoveMember, Collide
  <2>2. stumbled' = (stumbled \/ ~job[c].crossed)
    BY <1>3 DEF RemoveMember, Collide
  <2> QED BY <1>1, <1>3, <2>1, <2>2, EndsDoes DEF Typed, TypedAccounts, Made, OnboardingTypeOK
<1>4. CASE g \in accounts[a].groups
  <2>1. UNCHANGED <<orgs, link, stage, history>>
    BY <1>4 DEF RemoveMember
  <2>2. job' = [job EXCEPT ![c].left = @ \ {g}]
    BY <1>4 DEF RemoveMember
  <2>3. accounts' = [accounts EXCEPT ![a].groups = G]
    BY <1>4 DEF RemoveMember
  <2>4. G \in SUBSET Groups
    BY <1>2, AccountParts
  <2>5. /\ Typed /\ Others(c) /\ job'[c].left = job[c].left \ {g}
        /\ Keeps(c, {"kind", "email", "account", "subject", "groups", "attributes", "crossed"})
    BY <2>1, <2>2, LeftDoes
  <2> HIDE DEF a, G
  <2>6. /\ TypedAccounts /\ Writes(a, {"org", "email", "version", "role", "made", "attributes"})
        /\ accounts'[a].groups = G
    BY <1>2, <2>3, <2>4, GroupsWritten DEF TypedAccounts, Writes, OnboardingTypeOK
  <2> QED BY <1>1, <2>1, <2>5, <2>6 DEF a, G, history
<1> QED BY <1>3, <1>4

LEMMA SignedDoes ==
  ASSUME OnboardingTypeOK, AllPlaced, NEW c \in Requests, SignedOn(c)
  PROVE  /\ Typed /\ UNCHANGED <<orgs, accounts, link, claims, headless, stranded, stumbled>>
         /\ Moved(c, "grouping", "idle") /\ job'[c] = NoJob /\ job[c].left = {}
         /\ job[c].account \in Made
         /\ settled' = IF job[c].crossed THEN NotSettled
                       ELSE [account |-> job[c].account, groups |-> job[c].groups,
                             attributes |-> job[c].attributes]
<1>1. /\ Ends(c, "grouping") /\ job[c].left = {}
      /\ UNCHANGED <<orgs, accounts, link, claims, headless, stranded, stumbled>>
  BY DEF SignedOn
<1>2. settled' = IF job[c].crossed THEN NotSettled
                 ELSE [account |-> job[c].account, groups |-> job[c].groups,
                       attributes |-> job[c].attributes]
  BY DEF SignedOn
<1>3. Typed /\ Moved(c, "grouping", "idle") /\ job'[c] = NoJob
  BY <1>1, EndsDoes DEF Typed
<1>4. job[c].account \in Made
  BY <1>3 DEF Moved, AllPlaced, Placed, AtAccount
<1> QED BY <1>1, <1>2, <1>3, <1>4

LEMMA AbortDoes ==
  ASSUME OnboardingTypeOK, AllPlaced, NEW c \in Requests, Abort(c)
  PROVE  /\ Typed /\ UNCHANGED <<orgs, accounts, link, claims, settled, stumbled>>
         /\ stage[c] # "idle" /\ Moved(c, stage[c], "idle") /\ job'[c] = NoJob
         /\ headless' = IF stage[c] \in MakingFirst THEN headless \cup {job[c].org} ELSE headless
         /\ stranded' = IF stage[c] \in {"linking new", "granting"}
                        THEN stranded \cup {job[c].account} ELSE stranded
         /\ stage[c] \in {"linking new", "granting"} => job[c].account \in Made
<1>1. /\ Ends(c, stage[c]) /\ stage[c] # "idle"
      /\ UNCHANGED <<orgs, accounts, link, claims, settled, stumbled>>
      /\ headless' = IF stage[c] \in MakingFirst THEN headless \cup {job[c].org} ELSE headless
      /\ stranded' = IF stage[c] \in {"linking new", "granting"}
                     THEN stranded \cup {job[c].account} ELSE stranded
  BY DEF Abort
<1>2. Typed /\ Moved(c, stage[c], "idle") /\ job'[c] = NoJob
  BY <1>1, EndsDoes DEF Typed
<1>3. stage[c] \in {"linking new", "granting"} => job[c].account \in Made
  BY DEF AllPlaced, Placed, AtAccount
<1> QED BY <1>1, <1>2, <1>3
-----------------------------------------------------------------------------
(* Types.                                                                   *)
LEMMA Unwritten ==
  ASSUME OnboardingTypeOK, UNCHANGED accounts
  PROVE  TypedAccounts /\ Made' = Made
BY DEF OnboardingTypeOK, TypedAccounts, Made

LEMMA TypedStep ==
  ASSUME OnboardingTypeOK, Typed, TypedAccounts, Made \subseteq Made', orgs' \subseteq Orgs,
         claims' \subseteq Servers \X Orgs, headless' \subseteq Orgs, stranded' \subseteq Made',
         stumbled' \in BOOLEAN, DOMAIN link' \subseteq Subjects,
         \A s \in DOMAIN link' : link'[s] \in Made',
         settled'.account \in Made' \cup {NoAccount},
         settled'.groups \subseteq Groups, settled'.attributes \subseteq Attributes
  PROVE  OnboardingTypeOK'
BY DEF OnboardingTypeOK, Typed, TypedAccounts

LEMMA QuietStep ==
  ASSUME OnboardingTypeOK, Typed, TypedAccounts, Made \subseteq Made', orgs' \subseteq Orgs,
         headless' \subseteq Orgs, stranded' \subseteq Made', stumbled' \in BOOLEAN,
         UNCHANGED <<link, claims, settled>>
  PROVE  OnboardingTypeOK'
BY TypedStep DEF OnboardingTypeOK

(* A step of one call.                                                      *)
Takes(c) ==
  \/ Initialize(c)
  \/ \E o \in Orgs : CreateOrganization(c, o) \/ \E e \in Emails : CreateUserCommand(c, o, e)
  \/ CountUsers(c) \/ CreateUser(c) \/ MakeAdmin(c)
  \/ \E s \in Subjects : SignOn(c, s)
  \/ FindFederatedIdentity(c) \/ LoadUser(c) \/ SyncEmail(c) \/ MatchEmail(c)
  \/ Provision(c) \/ LinkExisting(c) \/ LinkNew(c) \/ GrantDefaultRole(c)
  \/ ClearAttributes(c) \/ \E k \in Attributes : SetAttribute(c, k)
  \/ ListGroups(c) \/ \E g \in Groups : AddMember(c, g) \/ RemoveMember(c, g)
  \/ SignedOn(c)
  \/ Abort(c)

LEMMA Takers ==
  ASSUME [OnboardingNext]_onboarding
  PROVE  UNCHANGED onboarding \/ \E c \in Requests : Takes(c)
BY DEF OnboardingNext, Takes

LEMMA OnboardingTyped ==
  ASSUME OnboardingTypeOK, AllPlaced, [OnboardingNext]_onboarding
  PROVE  OnboardingTypeOK'
<1>90. CASE UNCHANGED onboarding
  BY <1>90 DEF OnboardingTypeOK, onboarding, history, Made
<1> SUFFICES ASSUME NEW c \in Requests, Takes(c)
             PROVE  OnboardingTypeOK'
  BY <1>90, Takers
<1>0. /\ orgs \subseteq Orgs /\ headless \subseteq Orgs /\ stranded \subseteq Made
      /\ DOMAIN link \subseteq Subjects /\ \A s \in DOMAIN link : link[s] \in Made
      /\ claims \subseteq Servers \X Orgs /\ settled.account \in Made \cup {NoAccount}
      /\ settled.groups \subseteq Groups /\ settled.attributes \subseteq Attributes
  BY DEF OnboardingTypeOK
<1>00. stumbled \in BOOLEAN /\ \A x : (stumbled \/ ~job[x].crossed) \in BOOLEAN
  BY DEF OnboardingTypeOK
<1>1. CASE Initialize(c)
  BY <1>0, <1>00, <1>1, InitializeDoes, Unwritten, QuietStep DEF history
<1>2. ASSUME NEW o \in Orgs, CreateOrganization(c, o)
      PROVE  OnboardingTypeOK'
  <2>1. ServerOf[c] \in Servers
    BY OnboardingAssumption
  <2>2. /\ Typed /\ UNCHANGED <<accounts, link, settled, headless, stranded, stumbled>>
        /\ orgs' \subseteq orgs \cup {o} /\ claims' \subseteq claims \cup {<<ServerOf[c], o>>}
    BY <1>2, OrganizationDoes
  <2> QED BY <1>0, <1>00, <2>1, <2>2, Unwritten, TypedStep
<1>3. ASSUME NEW o \in Orgs, NEW e \in Emails, CreateUserCommand(c, o, e)
      PROVE  OnboardingTypeOK'
  BY <1>0, <1>00, <1>3, CommandDoes, Unwritten, QuietStep DEF history
<1>4. CASE CountUsers(c)
  BY <1>0, <1>00, <1>4, CountDoes, Unwritten, QuietStep
<1>5. CASE CreateUser(c)
  <2>1. Typed /\ TypedAccounts /\ UNCHANGED <<orgs, link, history>>
    BY <1>5, CreateDoes
  <2>2. Made \subseteq Made'
    BY <1>5, CreateDoes, Unwritten DEF Fresh
  <2> QED BY <1>0, <1>00, <2>1, <2>2, QuietStep DEF history
<1>6. CASE MakeAdmin(c)
  BY <1>0, <1>00, <1>6, AdminDoes, QuietStep DEF history, Writes
<1>7. ASSUME NEW s \in Subjects, SignOn(c, s)
      PROVE  OnboardingTypeOK'
  <2>1. settled' = NotSettled
    BY <1>7, SignOnDoes
  <2>2. settled'.account = NoAccount /\ settled'.groups = {} /\ settled'.attributes = {}
    BY <2>1 DEF NotSettled
  <2> QED BY <1>0, <1>00, <1>7, <2>2, SignOnDoes, Unwritten, TypedStep
<1>8. CASE FindFederatedIdentity(c)
  BY <1>0, <1>00, <1>8, FindDoes, Unwritten, QuietStep DEF history
<1>9. CASE LoadUser(c)
  BY <1>0, <1>00, <1>9, LoadDoes, Unwritten, QuietStep DEF history
<1>10. CASE SyncEmail(c)
  <2>1. Typed /\ TypedAccounts /\ UNCHANGED <<orgs, link, claims, settled, headless, stranded>>
    BY <1>10, EmailDoes
  <2>2. Made' = Made
    BY <1>10, EmailDoes, Unwritten DEF Writes
  <2>3. stumbled' \in BOOLEAN
    BY <1>00, <1>10, EmailDoes
  <2> QED BY <1>0, <2>1, <2>2, <2>3, QuietStep
<1>11. CASE MatchEmail(c)
  BY <1>0, <1>00, <1>11, MatchDoes, Unwritten, QuietStep DEF history
<1>12. CASE Provision(c)
  <2>1. Typed /\ TypedAccounts /\ UNCHANGED <<orgs, link, claims, settled, stranded, stumbled>>
    BY <1>12, ProvisionDoes
  <2>2. Made \subseteq Made' /\ headless' \subseteq headless \cup {Home}
    BY <1>12, ProvisionDoes, Unwritten DEF Fresh
  <2> QED BY <1>0, <1>00, <2>1, <2>2, QuietStep, OnboardingAssumption
<1>13. ASSUME NEW from \in {"linking", "linking new"}, NEW to \in Stages,
              LinkFederatedIdentity(c, from, to)
       PROVE  OnboardingTypeOK'
  <2>1. /\ Typed /\ UNCHANGED <<orgs, accounts, claims, settled, headless>>
        /\ job[c].subject \in Subjects /\ job[c].account \in Made
    BY <1>13, LinkDoes
  <2>2. stumbled' \in BOOLEAN
    BY <1>00, <1>13, LinkDoes
  <2>3. stranded' \subseteq stranded \cup {job[c].account}
    BY <1>13, LinkDoes
  <2>4. DOMAIN link' \subseteq Subjects /\ \A s \in DOMAIN link' : link'[s] \in Made
    BY <1>0, <1>13, <2>1, LinkDoes
  <2> QED BY <1>0, <2>1, <2>2, <2>3, <2>4, Unwritten, TypedStep
<1>14. CASE LinkExisting(c)
  BY <1>13, <1>14 DEF LinkExisting, Stages
<1>15. CASE LinkNew(c)
  BY <1>13, <1>15 DEF LinkNew, Stages
<1>16. CASE GrantDefaultRole(c)
  BY <1>0, <1>00, <1>16, GrantDoes, QuietStep DEF history, Writes
<1>17. CASE ClearAttributes(c)
  BY <1>0, <1>00, <1>17, ClearDoes, QuietStep DEF history, Writes
<1>18. ASSUME NEW k \in Attributes, SetAttribute(c, k)
       PROVE  OnboardingTypeOK'
  BY <1>0, <1>00, <1>18, SetDoes, QuietStep DEF history, Writes
<1>19. CASE ListGroups(c)
  BY <1>0, <1>00, <1>19, ListDoes, Unwritten, QuietStep DEF history
<1>20. ASSUME NEW g \in Groups, AddMember(c, g)
       PROVE  OnboardingTypeOK'
  BY <1>0, <1>00, <1>20, AddDoes, QuietStep DEF history, Writes
<1>21. ASSUME NEW g \in Groups, RemoveMember(c, g)
       PROVE  OnboardingTypeOK'
  <2>1. Typed /\ TypedAccounts /\ UNCHANGED <<orgs, link, claims, settled, headless, stranded>>
    BY <1>21, RemoveDoes
  <2>2. Made' = Made
    BY <1>21, RemoveDoes, Unwritten DEF Writes
  <2>3. stumbled' \in BOOLEAN
    BY <1>00, <1>21, RemoveDoes
  <2> QED BY <1>0, <2>1, <2>2, <2>3, QuietStep
<1>22. CASE SignedOn(c)
  <2>1. /\ Typed /\ UNCHANGED <<orgs, accounts, link, claims, headless, stranded, stumbled>>
        /\ job[c].account \in Made
    BY <1>22, SignedDoes
  <2>2. CASE job[c].crossed
    <3>1. settled' = NotSettled
      BY <1>22, <2>2, SignedDoes
    <3>2. settled'.account = NoAccount /\ settled'.groups = {} /\ settled'.attributes = {}
      BY <3>1 DEF NotSettled
    <3> QED BY <1>0, <1>00, <2>1, <3>2, Unwritten, TypedStep
  <2>3. CASE ~job[c].crossed
    <3>1. /\ settled'.account = job[c].account /\ settled'.groups = job[c].groups
          /\ settled'.attributes = job[c].attributes
      BY <1>22, <2>3, SignedDoes
    <3> QED BY <1>0, <1>00, <2>1, <3>1, JobParts, Unwritten, TypedStep
  <2> QED BY <2>2, <2>3
<1>23. CASE Abort(c)
  <2>1. /\ Typed /\ UNCHANGED <<orgs, accounts, link, claims, settled, stumbled>>
        /\ headless' \subseteq headless \cup {job[c].org} /\ stranded' \subseteq Made
    BY <1>0, <1>23, AbortDoes
  <2> QED BY <1>0, <1>00, <2>1, JobParts, Unwritten, QuietStep
<1> QED BY <1>1, <1>2, <1>3, <1>4, <1>5, <1>6, <1>7, <1>8, <1>9, <1>10, <1>11, <1>12, <1>14,
           <1>15, <1>16, <1>17, <1>18, <1>19, <1>20, <1>21, <1>22, <1>23 DEF Takes
-----------------------------------------------------------------------------
(* Nothing is unmade: organizations, accounts, links and roles stay.        *)
Lasting ==
  /\ orgs \subseteq orgs' /\ Made \subseteq Made'
  /\ \A a \in Made :
       /\ Stays(a, {"org", "made"})
       /\ accounts[a].role = "admin" => accounts'[a].role = "admin"
       /\ accounts[a].role # "none" => accounts'[a].role # "none"
  /\ DOMAIN link \subseteq DOMAIN link' /\ \A s \in DOMAIN link : link'[s] = link[s]

LEMMA WritingLasts ==
  ASSUME NEW a, Writes(a, {"org", "made"}),
         accounts[a].role = "admin" => accounts'[a].role = "admin",
         accounts[a].role # "none" => accounts'[a].role # "none"
  PROVE  /\ Made \subseteq Made'
         /\ \A x \in Made :
              /\ Stays(x, {"org", "made"})
              /\ accounts[x].role = "admin" => accounts'[x].role = "admin"
              /\ accounts[x].role # "none" => accounts'[x].role # "none"
BY DEF Writes, Stays

LEMMA FreshLasts ==
  ASSUME NEW a, NEW o, NEW how, Fresh(a, o, how)
  PROVE  Made \subseteq Made' /\ \A x \in Made : accounts'[x] = accounts[x]
BY DEF Fresh

LEMMA KeptLasts ==
  ASSUME OnboardingTypeOK, Made \subseteq Made' /\ \A x \in Made : accounts'[x] = accounts[x],
         orgs \subseteq orgs', link' = link
  PROVE  Lasting
BY DEF Lasting, Stays

LEMMA RolesLast ==
  ASSUME NEW a, Writes(a, {"org", "made", "role"}), orgs' = orgs, link' = link
  PROVE  Lasting
BY DEF Writes, Stays, Lasting

LEMMA Lasts ==
  ASSUME OnboardingTypeOK, AllPlaced, [OnboardingNext]_onboarding
  PROVE  Lasting
<1>1. CASE UNCHANGED onboarding
  BY <1>1, KeptLasts DEF onboarding, Made
<1> SUFFICES ASSUME NEW c \in Requests, Takes(c)
             PROVE  Lasting
  BY <1>1, Takers
<1> DEFINE a == job[c].account
<1>2. CASE accounts' = accounts /\ orgs \subseteq orgs' /\ link' = link
  BY <1>2, KeptLasts, Unwritten
<1>3. CASE Initialize(c) \/ CountUsers(c)
  BY <1>2, <1>3, InitializeDoes, CountDoes
<1>4. ASSUME NEW o \in Orgs, CreateOrganization(c, o) \/ \E e \in Emails : CreateUserCommand(c, o, e)
      PROVE  Lasting
  <2>1. accounts' = accounts /\ link' = link /\ orgs \subseteq orgs'
    BY <1>4, OrganizationDoes, CommandDoes
  <2> QED BY <1>2, <2>1
<1>5. CASE CreateUser(c)
  <2>1. UNCHANGED <<orgs, link>> /\ (accounts' = accounts \/ \E x, o, how : Fresh(x, o, how))
    BY <1>5, CreateDoes
  <2> QED BY <1>2, <2>1, FreshLasts, KeptLasts
<1>6. CASE MakeAdmin(c) \/ GrantDefaultRole(c)
  <2>1. /\ UNCHANGED <<orgs, link>>
        /\ Writes(a, {"org", "email", "version", "made", "groups", "attributes"})
        /\ \/ accounts'[a].role = "admin"
           \/ accounts'[a].role = IF accounts[a].role = "admin" \/ DefaultRole = "none"
                                  THEN accounts[a].role ELSE DefaultRole
    BY <1>6, AdminDoes, GrantDoes
  <2>2. Writes(a, {"org", "made"})
    BY <2>1 DEF Writes, Stays
  <2> HIDE DEF a
  <2> QED BY <2>1, <2>2, WritingLasts DEF Lasting
<1>7. ASSUME NEW s \in Subjects, SignOn(c, s)
      PROVE  Lasting
  BY <1>2, <1>7, SignOnDoes
<1>8. CASE FindFederatedIdentity(c) \/ LoadUser(c) \/ MatchEmail(c) \/ ListGroups(c)
  BY <1>2, <1>8, FindDoes, LoadDoes, MatchDoes, ListDoes
<1>9. CASE SignedOn(c) \/ Abort(c)
  BY <1>2, <1>9, SignedDoes, AbortDoes
<1>10. CASE SyncEmail(c)
  <2>1. UNCHANGED <<orgs, link>>
    BY <1>10, EmailDoes
  <2>2. accounts' = accounts \/ Writes(a, {"org", "role", "made", "groups", "attributes"})
    BY <1>10, EmailDoes
  <2>3. accounts' = accounts \/ Writes(a, {"org", "made", "role"})
    BY <2>2 DEF Writes, Stays
  <2> HIDE DEF a
  <2> QED BY <1>2, <2>1, <2>3, RolesLast
<1>11. CASE Provision(c)
  <2>1. UNCHANGED <<orgs, link>> /\ (accounts' = accounts \/ \E x, o, how : Fresh(x, o, how))
    BY <1>11, ProvisionDoes
  <2> QED BY <1>2, <2>1, FreshLasts, KeptLasts
<1>12. ASSUME NEW from \in {"linking", "linking new"}, NEW to \in Stages,
              LinkFederatedIdentity(c, from, to)
       PROVE  Lasting
  <2>1. /\ UNCHANGED <<orgs, accounts>> /\ DOMAIN link \subseteq DOMAIN link'
        /\ \A s \in DOMAIN link : link'[s] = link[s]
    BY <1>12, LinkDoes
  <2> QED BY <2>1, Unwritten DEF Lasting, Stays
<1>13. CASE LinkExisting(c) \/ LinkNew(c)
  BY <1>12, <1>13 DEF LinkExisting, LinkNew, Stages
<1>14. CASE ClearAttributes(c) \/ \E k \in Attributes : SetAttribute(c, k)
  <2>1. UNCHANGED <<orgs, link>> /\ Writes(a, {"org", "email", "version", "role", "made", "groups"})
    BY <1>14, ClearDoes, SetDoes
  <2>2. Writes(a, {"org", "made", "role"})
    BY <2>1 DEF Writes, Stays
  <2> HIDE DEF a
  <2> QED BY <2>1, <2>2, RolesLast
<1>15. CASE \E g \in Groups : AddMember(c, g) \/ RemoveMember(c, g)
  <2>1. UNCHANGED <<orgs, link>>
    BY <1>15, AddDoes, RemoveDoes
  <2>2. accounts' = accounts \/ Writes(a, {"org", "email", "version", "role", "made", "attributes"})
    BY <1>15, AddDoes, RemoveDoes
  <2>3. accounts' = accounts \/ Writes(a, {"org", "made", "role"})
    BY <2>2 DEF Writes, Stays
  <2> HIDE DEF a
  <2> QED BY <1>2, <2>1, <2>3, RolesLast
<1> QED BY <1>3, <1>4, <1>5, <1>6, <1>7, <1>8, <1>9, <1>10, <1>11, <1>13, <1>14, <1>15 DEF Takes
-----------------------------------------------------------------------------
(* Where the calls are.                                                     *)
LEMMA StaysPlaced ==
  ASSUME AllPlaced, Lasting, NEW d \in Requests, stage'[d] = stage[d],
         Keeps(d, {"kind", "email", "org", "subject", "account"})
  PROVE  Placed(d)'
<1>1. Placed(d)
  BY DEF AllPlaced
<1>2. stage[d] \in AtAccount => accounts'[job[d].account].org = accounts[job[d].account].org
  BY <1>1 DEF Placed, Lasting, Stays
<1>3. /\ job'[d].kind = job[d].kind /\ job'[d].email = job[d].email /\ job'[d].org = job[d].org
      /\ job'[d].subject = job[d].subject /\ job'[d].account = job[d].account
  BY DEF Keeps
<1> QED BY <1>1, <1>2, <1>3 DEF Placed, Lasting, AtAccount

LEMMA IdlePlaced ==
  ASSUME NEW c, stage'[c] = "idle", job'[c] = NoJob
  PROVE  Placed(c)'
<1>1. job'[c].kind = "none"
  BY DEF NoJob
<1> QED BY <1>1 DEF Placed, MakingFirst, SigningStages, AtAccount

LEMMA SigningPlaced ==
  ASSUME NEW c, stage'[c] \in SigningStages, job'[c].kind = "sign-on",
         job'[c].subject \in Subjects, Home \in orgs',
         stage'[c] = "address" => job'[c].email \in Emails,
         stage'[c] \in AtAccount => job'[c].account \in Made'
  PROVE  Placed(c)'
BY DEF Placed, MakingFirst, SigningStages

LEMMA MakersOnly ==
  ASSUME OnboardingTypeOK, AllPlaced, NEW c \in Requests, Takes(c), ~CreateUser(c), ~Provision(c)
  PROVE  Made' = Made
<1>1. CASE Initialize(c) \/ CountUsers(c) \/ \E s \in Subjects : SignOn(c, s)
  BY <1>1, InitializeDoes, CountDoes, SignOnDoes, Unwritten
<1>2. CASE \E o \in Orgs :
             CreateOrganization(c, o) \/ \E e \in Emails : CreateUserCommand(c, o, e)
  BY <1>2, OrganizationDoes, CommandDoes, Unwritten
<1>3. CASE MakeAdmin(c) \/ GrantDefaultRole(c)
  BY <1>3, AdminDoes, GrantDoes DEF Writes
<1>4. CASE FindFederatedIdentity(c) \/ LoadUser(c) \/ MatchEmail(c) \/ ListGroups(c)
  BY <1>4, FindDoes, LoadDoes, MatchDoes, ListDoes, Unwritten
<1>5. CASE SignedOn(c) \/ Abort(c)
  BY <1>5, SignedDoes, AbortDoes, Unwritten
<1>6. CASE SyncEmail(c)
  BY <1>6, EmailDoes, Unwritten DEF Writes
<1>7. CASE LinkExisting(c) \/ LinkNew(c)
  BY <1>7, LinkDoes, Unwritten DEF LinkExisting, LinkNew, Stages
<1>8. CASE ClearAttributes(c) \/ \E k \in Attributes : SetAttribute(c, k)
  BY <1>8, ClearDoes, SetDoes DEF Writes
<1>9. CASE \E g \in Groups : AddMember(c, g) \/ RemoveMember(c, g)
  BY <1>9, AddDoes, RemoveDoes, Unwritten DEF Writes
<1> QED BY <1>1, <1>2, <1>3, <1>4, <1>5, <1>6, <1>7, <1>8, <1>9 DEF Takes

LEMMA OrgsPlaced ==
  ASSUME OnboardingTypeOK, AllPlaced, [OnboardingNext]_onboarding
  PROVE  \A a \in Made' : accounts'[a].org \in orgs'
<1>1. Lasting
  BY Lasts
<1>2. \A a \in Made : accounts'[a].org \in orgs'
  BY <1>1 DEF Lasting, Stays, AllPlaced
<1> SUFFICES ASSUME NEW a \in Made' \ Made
             PROVE  accounts'[a].org \in orgs'
  BY <1>2
<1>3. CASE Made' = Made
  BY <1>3
<1>4. ASSUME NEW c \in Requests, CreateUser(c)
      PROVE  accounts'[a].org \in orgs'
  <2>1. job[c].org \in orgs
    BY <1>4 DEF CreateUser, Ends, Advance, AllPlaced, Placed, MakingFirst
  <2>2. accounts' = accounts \/ \E x : Fresh(x, job[c].org, "call")
    BY <1>4, CreateDoes
  <2> QED BY <1>1, <2>1, <2>2, Unwritten DEF Fresh, Lasting
<1>5. ASSUME NEW c \in Requests, Provision(c)
      PROVE  accounts'[a].org \in orgs'
  <2>1. Home \in orgs
    BY <1>5, ProvisionDoes DEF Moved, AllPlaced, Placed, SigningStages
  <2>2. accounts' = accounts \/ \E x : Fresh(x, Home, "sign-on")
    BY <1>5, ProvisionDoes
  <2> QED BY <1>1, <2>1, <2>2, Unwritten DEF Fresh, Lasting
<1>6. CASE UNCHANGED onboarding
  BY <1>3, <1>6 DEF onboarding, Made
<1> QED BY <1>3, <1>4, <1>5, <1>6, Takers, MakersOnly

(* Every call but the one that takes the step stays as it is, except that a *)
(* new sign-on crosses those that are running.                              *)
Bystander(d) ==
  /\ stage'[d] = stage[d] /\ SameBut(d)
  /\ job[d].crossed => job'[d].crossed

LEMMA OthersStand ==
  ASSUME OnboardingTypeOK, AllPlaced, NEW c \in Requests, Takes(c), NEW d \in Requests \ {c}
  PROVE  Bystander(d)
<1>1. ASSUME Others(c)
      PROVE  Bystander(d)
  <2>1. stage'[d] = stage[d] /\ job'[d] = job[d]
    BY <1>1 DEF Others
  <2>2. SameBut(d)
    BY <2>1 DEF SameBut
  <2>3. job[d].crossed => job'[d].crossed
    BY <2>1, Zenon
  <2> QED BY <2>1, <2>2, <2>3 DEF Bystander
<1>2. CASE Initialize(c) \/ CountUsers(c) \/ CreateUser(c) \/ MakeAdmin(c)
  BY <1>1, <1>2, InitializeDoes, CountDoes, CreateDoes, AdminDoes DEF Moved
<1>3. CASE \E o \in Orgs :
             CreateOrganization(c, o) \/ \E e \in Emails : CreateUserCommand(c, o, e)
  BY <1>1, <1>3, OrganizationDoes, CommandDoes DEF Moved
<1>4. ASSUME NEW s \in Subjects, SignOn(c, s)
      PROVE  Bystander(d)
  <2>1. stage'[d] = stage[d] /\ SameBut(d)
    BY <1>4, SignOnDoes
  <2>2. job'[d].crossed = (job[d].crossed \/ job[d].kind = "sign-on")
    BY <1>4, SignOnDoes
  <2>3. job[d].crossed => job'[d].crossed
    BY <2>2, Zenon
  <2> QED BY <2>1, <2>3 DEF Bystander
<1>5. CASE FindFederatedIdentity(c) \/ LoadUser(c) \/ SyncEmail(c) \/ MatchEmail(c) \/ Provision(c)
  BY <1>1, <1>5, FindDoes, LoadDoes, EmailDoes, MatchDoes, ProvisionDoes DEF Moved
<1>6. CASE LinkExisting(c) \/ LinkNew(c)
  BY <1>1, <1>6, LinkDoes DEF LinkExisting, LinkNew, Stages, Moved
<1>7. CASE GrantDefaultRole(c) \/ ClearAttributes(c) \/ ListGroups(c) \/ SignedOn(c) \/ Abort(c)
  BY <1>1, <1>7, GrantDoes, ClearDoes, ListDoes, SignedDoes, AbortDoes DEF Moved
<1>8. CASE \E k \in Attributes : SetAttribute(c, k)
  BY <1>1, <1>8, SetDoes
<1>9. CASE \E g \in Groups : AddMember(c, g) \/ RemoveMember(c, g)
  BY <1>1, <1>9, AddDoes, RemoveDoes DEF Moved
<1> QED BY <1>2, <1>3, <1>4, <1>5, <1>6, <1>7, <1>8, <1>9 DEF Takes
LEMMA TakerPlaced ==
  ASSUME OnboardingTypeOK, AllPlaced, NEW c \in Requests, Takes(c)
  PROVE  Placed(c)'
<1>0. Placed(c) /\ Lasting
  BY Lasts DEF AllPlaced, Takes, OnboardingNext
<1>1. ASSUME NEW from, Moved(c, from, "idle"), job'[c] = NoJob
      PROVE  Placed(c)'
  BY <1>1, IdlePlaced DEF Moved
<1>2. ASSUME stage[c] \in SigningStages, stage'[c] \in SigningStages,
             Keeps(c, {"kind", "email", "subject", "crossed"}),
             stage'[c] = "address" => job[c].email \in Emails,
             stage'[c] \in AtAccount => job'[c].account \in Made'
      PROVE  Placed(c)'
  <2>1. job'[c].kind = "sign-on" /\ job'[c].subject \in Subjects /\ job'[c].email = job[c].email
    BY <1>0, <1>2 DEF Placed, Keeps
  <2>2. Home \in orgs'
    BY <1>0, <1>2 DEF Placed, Lasting
  <2> QED BY <1>2, <2>1, <2>2, SigningPlaced
<1>3. ASSUME stage[c] \in SigningStages, stage'[c] \in SigningStages,
             Keeps(c, {"kind", "email", "account", "subject", "crossed"}),
             stage'[c] = "address" => job[c].email \in Emails,
             stage'[c] \in AtAccount => job[c].account \in Made
      PROVE  Placed(c)'
  <2>1. /\ Keeps(c, {"kind", "email", "subject", "crossed"})
        /\ stage'[c] \in AtAccount => job'[c].account \in Made'
    BY <1>0, <1>3 DEF Keeps, Lasting
  <2> QED BY <1>2, <1>3, <2>1
<1>4. ASSUME stage[c] \in SigningStages, stage'[c] \in SigningStages, job' = job,
             stage'[c] = "address" => job[c].email \in Emails,
             stage'[c] \in AtAccount => job[c].account \in Made
      PROVE  Placed(c)'
  BY <1>3, <1>4 DEF Keeps
<1>5. CASE Initialize(c)
  <2>1. stage'[c] = "claiming" /\ job'[c].kind = "setup" /\ job'[c].email \in Emails
    BY <1>5, InitializeDoes DEF Moved
  <2> QED BY <2>1 DEF Placed, MakingFirst, SigningStages, AtAccount
<1>6. ASSUME NEW o \in Orgs, CreateOrganization(c, o), Moved(c, "claiming", "counting")
      PROVE  Placed(c)'
  <2>1. /\ stage[c] = "claiming" /\ stage'[c] = "counting" /\ orgs' = orgs \cup {o}
        /\ job'[c].org = o /\ Keeps(c, {"kind", "email"})
    BY <1>6, OrganizationDoes DEF Moved
  <2>2. job'[c].kind = "setup" /\ job'[c].email \in Emails
    BY <1>0, <2>1 DEF Placed, Keeps
  <2> QED BY <2>1, <2>2 DEF Placed, MakingFirst, SigningStages, AtAccount
<1>7. ASSUME NEW o \in Orgs, CreateOrganization(c, o)
      PROVE  Placed(c)'
  BY <1>1, <1>6, <1>7, OrganizationDoes
<1>8. ASSUME NEW o \in Orgs, NEW e \in Emails, CreateUserCommand(c, o, e)
      PROVE  Placed(c)'
  <2>1. /\ stage'[c] = "counting" /\ orgs' = orgs \cup {o}
        /\ job'[c].kind = "command" /\ job'[c].org = o /\ job'[c].email = e
    BY <1>8, CommandDoes DEF Moved
  <2> QED BY <2>1 DEF Placed, MakingFirst, SigningStages, AtAccount
<1>9. CASE CountUsers(c)
  <2>1. /\ stage[c] = "counting" /\ stage'[c] = "creating" /\ Keeps(c, {"kind", "email", "org"})
        /\ orgs' = orgs
    BY <1>9, CountDoes DEF Moved
  <2>2. /\ job'[c].kind \in {"setup", "command"} /\ job'[c].email \in Emails
        /\ job'[c].org \in orgs
    BY <1>0, <2>1 DEF Placed, MakingFirst, Keeps
  <2> QED BY <2>1, <2>2 DEF Placed, MakingFirst, SigningStages, AtAccount
<1>10. ASSUME CreateUser(c), Moved(c, "creating", "making admin"),
              Keeps(c, {"kind", "email", "org"}), Fresh(job'[c].account, job[c].org, "call")
       PROVE  Placed(c)'
  <2>1. stage[c] = "creating" /\ stage'[c] = "making admin" /\ orgs' = orgs
    BY <1>10, CreateDoes DEF Moved
  <2>2. /\ job'[c].kind \in {"setup", "command"} /\ job'[c].email \in Emails
        /\ job'[c].org \in orgs /\ job'[c].org = job[c].org
    BY <1>0, <1>10, <2>1 DEF Placed, MakingFirst, Keeps
  <2>3. job'[c].account \in Made' /\ accounts'[job'[c].account].org = job'[c].org
    BY <1>10, <2>2 DEF Fresh
  <2> QED BY <2>1, <2>2, <2>3 DEF Placed, MakingFirst, SigningStages
<1>11. CASE CreateUser(c)
  BY <1>1, <1>10, <1>11, CreateDoes
<1>12. CASE MakeAdmin(c)
  BY <1>1, <1>12, AdminDoes
<1>13. ASSUME NEW s \in Subjects, SignOn(c, s)
       PROVE  Placed(c)'
  <2>1. /\ stage'[c] = "looking up" /\ job'[c].kind = "sign-on" /\ job'[c].subject = s
        /\ Home \in orgs'
    BY <1>13, SignOnDoes
  <2>2. stage'[c] \in SigningStages /\ stage'[c] \notin AtAccount /\ stage'[c] # "address"
    BY <2>1 DEF SigningStages, AtAccount
  <2> QED BY <2>1, <2>2, SigningPlaced
<1>14. CASE FindFederatedIdentity(c)
  <2>1. CASE Moved(c, "looking up", "idle") /\ job'[c] = NoJob
    BY <1>1, <2>1
  <2>2. CASE job' = job /\ (Moved(c, "looking up", "matching") \/ Moved(c, "looking up", "provisioning"))
    BY <1>4, <2>2 DEF Moved, SigningStages, AtAccount
  <2>3. CASE /\ job[c].subject \in DOMAIN link /\ Moved(c, "looking up", "loading")
             /\ job'[c].account = link[job[c].subject]
             /\ Keeps(c, {"kind", "email", "subject", "crossed"})
    <3>1. job'[c].account \in Made'
      BY <1>0, <2>3 DEF OnboardingTypeOK, Lasting
    <3> QED BY <1>2, <2>3, <3>1 DEF Moved, SigningStages
  <2> QED BY <1>14, <2>1, <2>2, <2>3, FindDoes
<1>15. CASE LoadUser(c)
  <2>1. /\ stage[c] = "loading" /\ job[c].account \in Made
        /\ stage'[c] = "clearing" \/ (stage'[c] = "address" /\ job[c].email \in Emails)
        /\ Keeps(c, {"kind", "email", "account", "subject", "crossed"})
    BY <1>15, LoadDoes DEF Moved
  <2> QED BY <1>3, <2>1 DEF SigningStages
<1>16. CASE SyncEmail(c)
  <2>1. CASE Moved(c, "address", "idle") /\ job'[c] = NoJob
    BY <1>1, <2>1
  <2>2. CASE Moved(c, "address", "clearing") /\ job' = job
    <3>1. job[c].account \in Made
      BY <1>0, <2>2 DEF Placed, Moved, AtAccount
    <3> QED BY <1>4, <2>2, <3>1 DEF Moved, SigningStages
  <2> QED BY <1>16, <2>1, <2>2, EmailDoes
<1>17. CASE MatchEmail(c)
  <2>1. CASE Moved(c, "matching", "idle") /\ job'[c] = NoJob
    BY <1>1, <2>1
  <2>2. CASE Moved(c, "matching", "provisioning") /\ job' = job
    BY <1>4, <2>2 DEF Moved, SigningStages, AtAccount
  <2>3. CASE /\ Moved(c, "matching", "linking") /\ job'[c].account \in Made
             /\ Keeps(c, {"kind", "email", "subject", "crossed"})
    BY <1>0, <1>2, <2>3 DEF Moved, SigningStages, Lasting
  <2> QED BY <1>17, <2>1, <2>2, <2>3, MatchDoes
<1>18. CASE Provision(c)
  <2>1. CASE Moved(c, "provisioning", "idle") /\ job'[c] = NoJob
    BY <1>1, <2>1
  <2>2. CASE /\ Moved(c, "provisioning", "linking new")
             /\ Fresh(job'[c].account, Home, "sign-on")
             /\ Keeps(c, {"kind", "email", "subject", "crossed"})
    <3>1. job'[c].account \in Made'
      BY <2>2 DEF Fresh
    <3> QED BY <1>2, <2>2, <3>1 DEF Moved, SigningStages
  <2> QED BY <1>18, <2>1, <2>2, ProvisionDoes
<1>19. ASSUME NEW from \in {"linking", "linking new"}, NEW to \in {"clearing", "granting"},
              LinkFederatedIdentity(c, from, to)
       PROVE  Placed(c)'
  <2>1. CASE Moved(c, from, "idle") /\ job'[c] = NoJob
    BY <1>1, <2>1
  <2>2. CASE Moved(c, from, to) /\ job' = job
    <3>1. job[c].account \in Made
      BY <1>0, <2>2 DEF Placed, Moved, AtAccount
    <3> QED BY <1>4, <2>2, <3>1 DEF Moved, SigningStages
  <2> QED BY <1>19, <2>1, <2>2, LinkDoes DEF Stages
<1>20. CASE LinkExisting(c) \/ LinkNew(c)
  BY <1>19, <1>20 DEF LinkExisting, LinkNew
<1>21. CASE GrantDefaultRole(c) \/ ClearAttributes(c)
  <2>1. /\ stage[c] \in {"granting", "clearing"} /\ stage'[c] \in {"clearing", "setting"}
        /\ Keeps(c, {"kind", "email", "account", "subject", "crossed"})
    BY <1>21, GrantDoes, ClearDoes DEF Moved, Keeps
  <2>2. job[c].account \in Made
    BY <1>0, <2>1 DEF Placed, AtAccount
  <2> QED BY <1>3, <2>1, <2>2 DEF SigningStages
<1>22. CASE ListGroups(c)
  <2>1. /\ stage[c] = "setting" /\ stage'[c] = "grouping" /\ job[c].account \in Made
        /\ Keeps(c, {"kind", "email", "account", "subject", "crossed"})
    BY <1>22, ListDoes DEF Moved, Keeps
  <2> QED BY <1>3, <2>1 DEF SigningStages
<1>23. ASSUME stage[c] \in {"setting", "grouping"}, stage' = stage,
              Keeps(c, {"kind", "email", "account", "subject", "groups", "attributes", "crossed"})
       PROVE  Placed(c)'
  <2>1. /\ Keeps(c, {"kind", "email", "account", "subject", "crossed"})
        /\ job[c].account \in Made
    BY <1>0, <1>23 DEF Keeps, Placed, AtAccount
  <2> QED BY <1>3, <1>23, <2>1 DEF SigningStages
<1>24. CASE \E k \in Attributes : SetAttribute(c, k)
  BY <1>23, <1>24, SetDoes
<1>25. CASE \E g \in Groups : AddMember(c, g) \/ RemoveMember(c, g)
  BY <1>1, <1>23, <1>25, AddDoes, RemoveDoes
<1>26. CASE SignedOn(c) \/ Abort(c)
  BY <1>1, <1>26, SignedDoes, AbortDoes
<1> QED BY <1>5, <1>7, <1>8, <1>9, <1>11, <1>12, <1>13, <1>14, <1>15, <1>16, <1>17, <1>18,
           <1>20, <1>21, <1>22, <1>24, <1>25, <1>26 DEF Takes

LEMMA PlacedHolds ==
  ASSUME OnboardingTypeOK, AllPlaced, [OnboardingNext]_onboarding
  PROVE  AllPlaced'
<1>1. \A a \in Made' : accounts'[a].org \in orgs'
  BY OrgsPlaced
<1>2. Lasting
  BY Lasts
<1>3. CASE UNCHANGED onboarding
  BY <1>1, <1>2, <1>3, StaysPlaced DEF onboarding, AllPlaced, Keeps
<1>4. ASSUME NEW c \in Requests, Takes(c), NEW d \in Requests
      PROVE  Placed(d)'
  <2>1. CASE d = c
    BY <1>4, <2>1, TakerPlaced
  <2>2. CASE d # c
    <3>1. stage'[d] = stage[d] /\ Keeps(d, {"kind", "email", "org", "subject", "account"})
      BY <1>4, <2>2, OthersStand DEF Bystander, SameBut, Keeps
    <3> QED BY <1>2, <3>1, StaysPlaced
  <2> QED BY <2>1, <2>2
<1> QED BY <1>1, <1>3, <1>4, Takers DEF AllPlaced
-----------------------------------------------------------------------------
(* Claiming.                                                                *)

(* All steps but those of a setup leave the claims alone.                   *)
NoSetup ==
  /\ claims' = claims
  /\ \A d \in Requests : /\ job'[d].kind = "setup" => job[d].kind = "setup"
                         /\ stage'[d] = "claiming" => stage[d] = "claiming"

LEMMA SetupsAlone ==
  ASSUME OnboardingTypeOK, AllPlaced, NEW c \in Requests, Takes(c), ~Initialize(c),
         \A o \in Orgs : ~CreateOrganization(c, o)
  PROVE  NoSetup
<1>1. ASSUME NEW d \in Requests \ {c}
      PROVE  job'[d].kind = job[d].kind /\ stage'[d] = stage[d]
  BY <1>1, OthersStand DEF Bystander, SameBut
<1>2. ASSUME claims' = claims, stage'[c] # "claiming",
             job'[c].kind # "setup" \/ job'[c].kind = job[c].kind
      PROVE  NoSetup
  BY <1>1, <1>2 DEF NoSetup
<1>3. NoJob.kind = "none"
  BY DEF NoJob
<1>4. CASE CountUsers(c)
  BY <1>2, <1>4, CountDoes DEF Moved, Keeps
<1>5. CASE \E o \in Orgs, e \in Emails : CreateUserCommand(c, o, e)
  BY <1>2, <1>5, CommandDoes DEF Moved, history
<1>6. CASE CreateUser(c) \/ MakeAdmin(c)
  BY <1>2, <1>3, <1>6, CreateDoes, AdminDoes DEF Moved, Keeps, history
<1>7. CASE \E s \in Subjects : SignOn(c, s)
  BY <1>2, <1>7, SignOnDoes
<1>8. CASE FindFederatedIdentity(c) \/ LoadUser(c)
  BY <1>2, <1>3, <1>8, FindDoes, LoadDoes DEF Moved, Keeps, history
<1>9. CASE SyncEmail(c) \/ MatchEmail(c) \/ Provision(c)
  BY <1>2, <1>3, <1>9, EmailDoes, MatchDoes, ProvisionDoes DEF Moved, Keeps, history
<1>10. ASSUME NEW from \in {"linking", "linking new"}, NEW to \in {"clearing", "granting"},
              LinkFederatedIdentity(c, from, to)
       PROVE  NoSetup
  BY <1>2, <1>3, <1>10, LinkDoes DEF Moved, Stages
<1>11. CASE LinkExisting(c) \/ LinkNew(c)
  BY <1>10, <1>11 DEF LinkExisting, LinkNew
<1>12. CASE GrantDefaultRole(c) \/ ClearAttributes(c) \/ ListGroups(c)
  BY <1>2, <1>3, <1>12, GrantDoes, ClearDoes, ListDoes DEF Moved, Keeps, history
<1>13. CASE SignedOn(c) \/ Abort(c)
  BY <1>2, <1>3, <1>13, SignedDoes, AbortDoes DEF Moved
<1>14. CASE \E k \in Attributes : SetAttribute(c, k)
  BY <1>2, <1>14, SetDoes DEF Keeps, history
<1>15. CASE \E g \in Groups : AddMember(c, g) \/ RemoveMember(c, g)
  BY <1>2, <1>3, <1>15, AddDoes, RemoveDoes DEF Moved, Keeps, history
<1> QED BY <1>4, <1>5, <1>6, <1>7, <1>8, <1>9, <1>11, <1>12, <1>13, <1>14, <1>15 DEF Takes

LEMMA ClaimsHold ==
  ASSUME OnboardingTypeOK, AllPlaced, OneClaimant, ClaimedOnce, [OnboardingNext]_onboarding
  PROVE  OneClaimant' /\ ClaimedOnce'
<1>1. CASE NoSetup
  <2>1. orgs \subseteq orgs'
    BY Lasts DEF Lasting
  <2>2. OneClaimant'
    BY <1>1, <2>1 DEF NoSetup, OneClaimant
  <2> QED BY <1>1, <2>2 DEF NoSetup, ClaimedOnce
<1>2. CASE UNCHANGED onboarding
  BY <1>1, <1>2 DEF NoSetup, onboarding, history
<1>3. ASSUME NEW c \in Requests, Initialize(c)
      PROVE  OneClaimant' /\ ClaimedOnce'
  <2>1. /\ orgs = {} /\ orgs' = orgs /\ claims' = claims /\ Others(c)
        /\ \A d \in Requests : job[d].kind = "setup" => ServerOf[d] # ServerOf[c]
    BY <1>3, InitializeDoes DEF Moved, history
  <2>2. claims = {}
    BY <2>1 DEF OneClaimant
  <2>3. ASSUME NEW d \in Requests, NEW e \in Requests, job'[d].kind = "setup",
               job'[e].kind = "setup", ServerOf[d] = ServerOf[e]
        PROVE  d = e
    BY <2>1, <2>3 DEF Others, OneClaimant
  <2> QED BY <2>1, <2>2, <2>3 DEF OneClaimant, ClaimedOnce
<1>4. ASSUME NEW c \in Requests, NEW o \in Orgs, CreateOrganization(c, o)
      PROVE  OneClaimant' /\ ClaimedOnce'
  <2>1. CASE Moved(c, "claiming", "idle") /\ job'[c] = NoJob /\ UNCHANGED <<orgs, claims>>
    <3>1. job'[c].kind = "none"
      BY <2>1 DEF NoJob
    <3>2. NoSetup
      BY <2>1, <3>1 DEF NoSetup, Moved, Others
    <3> QED BY <1>1, <3>2
  <2>2. CASE /\ Moved(c, "claiming", "counting") /\ orgs' = orgs \cup {o}
             /\ claims' = claims \cup {<<ServerOf[c], o>>} /\ Keeps(c, {"kind", "email"})
    <3>1. /\ stage[c] = "claiming" /\ stage'[c] = "counting" /\ job'[c].kind = job[c].kind
          /\ \A d \in Requests \ {c} : stage'[d] = stage[d] /\ job'[d] = job[d]
      BY <2>2 DEF Moved, Others, Keeps
    <3>2. \A x \in Orgs : <<ServerOf[c], x>> \notin claims
      BY <3>1 DEF OneClaimant
    <3>3. ClaimedOnce'
      BY <2>2, <3>2 DEF ClaimedOnce
    <3>4. ASSUME NEW d \in Requests, stage'[d] = "claiming"
          PROVE  d # c /\ ServerOf[d] # ServerOf[c]
      <4>1. d # c /\ stage[d] = "claiming"
        BY <3>1, <3>4
      <4>2. job[d].kind = "setup" /\ job[c].kind = "setup"
        BY <3>1, <4>1 DEF AllPlaced, Placed
      <4> QED BY <4>1, <4>2 DEF OneClaimant
    <3>5. ASSUME NEW d \in Requests, NEW x \in Orgs, stage'[d] = "claiming"
          PROVE  <<ServerOf[d], x>> \notin claims'
      <4>1. stage[d] = "claiming" /\ ServerOf[d] # ServerOf[c]
        BY <3>1, <3>4, <3>5
      <4> QED BY <2>2, <4>1 DEF OneClaimant
    <3>6. ASSUME NEW d \in Requests, NEW e \in Requests, job'[d].kind = "setup",
                 job'[e].kind = "setup", ServerOf[d] = ServerOf[e]
          PROVE  d = e
      <4>1. job[d].kind = "setup" /\ job[e].kind = "setup"
        BY <3>1, <3>6
      <4> QED BY <3>6, <4>1 DEF OneClaimant
    <3>7. orgs' # {}
      BY <2>2
    <3> QED BY <3>3, <3>5, <3>6, <3>7 DEF OneClaimant
  <2> QED BY <1>4, <2>1, <2>2, OrganizationDoes
<1> QED BY <1>1, <1>2, <1>3, <1>4, Takers, SetupsAlone
-----------------------------------------------------------------------------
(* Administrators.                                                          *)
LEMMA SameMembers ==
  ASSUME Lasting, Made' = Made, NEW o
  PROVE  Members(o)' = Members(o)
BY DEF Lasting, Stays, Members

LEMMA MoreMembers ==
  ASSUME Lasting, NEW a, NEW h, NEW how, Fresh(a, h, how)
  PROVE  /\ \A o : o # h => Members(o)' = Members(o)
         /\ Members(h)' = Members(h) \cup {a}
BY DEF Lasting, Stays, Members, Fresh

LEMMA AdminsLast ==
  ASSUME Lasting, NEW o, HasAdmin(o)
  PROVE  HasAdmin(o)'
BY DEF Lasting, Stays, Members, HasAdmin

LEMMA StaysAt ==
  ASSUME OnboardingTypeOK, AllPlaced, NEW c \in Requests, Takes(c), NEW o, NEW S, IsAt(S, o),
         stage[c] \in S /\ job[c].org = o => stage'[c] \in S /\ job'[c].org = o
  PROVE  IsAt(S, o)'
<1>1. \A d \in Requests \ {c} : stage'[d] = stage[d] /\ job'[d].org = job[d].org
  BY OthersStand DEF Bystander, SameBut
<1> QED BY <1>1 DEF IsAt

(* What Governed says of one organization, and of one call.                 *)
Led(o) ==
  \/ o \in headless
  \/ Members(o) = {} /\ IsAt({"counting", "creating"}, o)
  \/ Members(o) # {} /\ (HasAdmin(o) \/ IsAt({"making admin"}, o))
Counted(c) == stage[c] = "creating" /\ ~job[c].first => Members(job[c].org) # {}

LEMMA GovernedParts == Governed <=> (\A o \in orgs : Led(o)) /\ (\A c \in Requests : Counted(c))
BY DEF Governed, Led, Counted

LEMMA StaysLed ==
  ASSUME OnboardingTypeOK, AllPlaced, NEW c \in Requests, Takes(c), NEW o, Led(o),
         Members(o)' = Members(o), o \in headless => o \in headless',
         stage[c] \in MakingFirst /\ job[c].org = o => o \in headless' \/ HasAdmin(o)'
  PROVE  Led(o)'
<1>1. Lasting
  BY Lasts DEF Takes, OnboardingNext
<1>2. CASE stage[c] \in MakingFirst /\ job[c].org = o
  <2>1. HasAdmin(o)' => Members(o)' # {}
    BY DEF HasAdmin
  <2> QED BY <1>2, <2>1 DEF Led
<1>3. CASE ~(stage[c] \in MakingFirst /\ job[c].org = o)
  <2>1. \A S \in SUBSET MakingFirst : IsAt(S, o) => IsAt(S, o)'
    BY <1>3, StaysAt
  <2>2. {"counting", "creating"} \in SUBSET MakingFirst /\ {"making admin"} \in SUBSET MakingFirst
    BY DEF MakingFirst
  <2> QED BY <1>1, <2>1, <2>2, AdminsLast DEF Led
<1> QED BY <1>2, <1>3

LEMMA StaysCounted ==
  ASSUME OnboardingTypeOK, AllPlaced, NEW c \in Requests, Takes(c), NEW d \in Requests \ {c},
         Counted(d)
  PROVE  Counted(d)'
<1>1. stage'[d] = stage[d] /\ job'[d].org = job[d].org /\ job'[d].first = job[d].first
  BY OthersStand DEF Bystander, SameBut
<1>2. Lasting
  BY Lasts DEF Takes, OnboardingNext
<1>3. \A o : Members(o) # {} => Members(o)' # {}
  BY <1>2 DEF Lasting, Stays, Members
<1> QED BY <1>1, <1>3 DEF Counted
LEMMA GovernedStep ==
  ASSUME OnboardingTypeOK, AllPlaced, Governed, NEW c \in Requests, Takes(c), Made' = Made,
         orgs' = orgs, headless \subseteq headless', stage'[c] \notin MakingFirst,
         \A o \in orgs : stage[c] \in MakingFirst /\ job[c].org = o =>
                           o \in headless' \/ HasAdmin(o)'
  PROVE  Governed'
<1>1. (\A o \in orgs : Led(o)) /\ (\A d \in Requests : Counted(d))
  BY GovernedParts
<1>2. Lasting
  BY Lasts DEF Takes, OnboardingNext
<1>3. ASSUME NEW o \in orgs
      PROVE  Led(o)'
  <2>1. Members(o)' = Members(o)
    BY <1>2, SameMembers
  <2> QED BY <1>1, <2>1, StaysLed
<1>4. Counted(c)'
  BY DEF Counted, MakingFirst
<1>5. \A d \in Requests : Counted(d)'
  BY <1>1, <1>4, StaysCounted
<1> QED BY <1>3, <1>5 DEF Governed, Led, Counted

LEMMA GovernedHolds ==
  ASSUME OnboardingTypeOK, AllPlaced, Governed, [OnboardingNext]_onboarding
  PROVE  Governed'
<1>1. CASE UNCHANGED onboarding
  BY <1>1 DEF Governed, onboarding, history, Members, HasAdmin, IsAt, Made
<1> SUFFICES ASSUME NEW c \in Requests, Takes(c)
             PROVE  Governed'
  BY <1>1, Takers
<1>2. Lasting
  BY Lasts
<1>3. (\A o \in orgs : Led(o)) /\ (\A d \in Requests : Counted(d))
  BY GovernedParts
<1>4. ASSUME \A o \in orgs' : Led(o)', Counted(c)'
      PROVE  Governed'
  <2>1. \A d \in Requests : Counted(d)'
    BY <1>3, <1>4, StaysCounted
  <2> QED BY <1>4, <2>1 DEF Governed, Led, Counted
<1>5. ASSUME Made' = Made, orgs' = orgs, headless' = headless, stage'[c] \notin MakingFirst,
             stage[c] \notin MakingFirst
      PROVE  Governed'
  BY <1>5, GovernedStep
(* An organization that is made has no users, and the call that makes it    *)
(* goes on to count them.                                                   *)
<1>6. ASSUME NEW o \in Orgs, Made' = Made, headless' = headless, orgs' = orgs \cup {o},
             stage[c] \in {"idle", "claiming"}, stage'[c] = "counting", job'[c].org = o
      PROVE  Governed'
  <2>1. ASSUME NEW x \in orgs
        PROVE  Led(x)'
    <3>1. Members(x)' = Members(x)
      BY <1>2, <1>6, SameMembers
    <3> QED BY <1>3, <1>6, <3>1, StaysLed DEF MakingFirst
  <2>2. o \notin orgs => Members(o) = {}
    BY DEF AllPlaced, Members
  <2>3. Members(o)' = Members(o) /\ IsAt({"counting", "creating"}, o)'
    BY <1>2, <1>6, SameMembers DEF IsAt
  <2>4. Led(o)'
    BY <2>1, <2>2, <2>3 DEF Led
  <2>5. Counted(c)'
    BY <1>6 DEF Counted
  <2> QED BY <1>4, <1>6, <2>1, <2>4, <2>5
<1>7. CASE Initialize(c)
  BY <1>5, <1>7, InitializeDoes, Unwritten DEF Moved, history, MakingFirst
<1>8. ASSUME NEW o \in Orgs, CreateOrganization(c, o)
      PROVE  Governed'
  BY <1>5, <1>6, <1>8, OrganizationDoes, Unwritten DEF Moved, MakingFirst
<1>9. ASSUME NEW o \in Orgs, NEW e \in Emails, CreateUserCommand(c, o, e)
      PROVE  Governed'
  BY <1>6, <1>9, CommandDoes, Unwritten DEF Moved, history
<1>10. CASE CountUsers(c)
  <2> DEFINE o == job[c].org
  <2>1. /\ stage[c] = "counting" /\ stage'[c] = "creating" /\ job'[c].org = o /\ Made' = Made
        /\ job'[c].first = (Members(o) = {}) /\ orgs' = orgs
        /\ headless' = IF Members(o) = {} THEN headless \ {o} ELSE headless
    BY <1>10, CountDoes, Unwritten DEF Moved, Keeps
  <2> HIDE DEF o
  <2>2. \A x : Members(x)' = Members(x)
    BY <1>2, <2>1, SameMembers
  <2>3. Counted(c)'
    BY <2>1, <2>2 DEF Counted
  <2>4. ASSUME NEW x \in orgs
        PROVE  Led(x)'
    <3>1. IsAt({"counting", "creating"}, x) => IsAt({"counting", "creating"}, x)'
      BY <2>1, StaysAt DEF o
    <3>2. IsAt({"making admin"}, x) => IsAt({"making admin"}, x)'
      BY <2>1, StaysAt
    <3>3. CASE x = o /\ Members(o) = {}
      <4>1. IsAt({"counting", "creating"}, x)'
        BY <2>1, <3>3 DEF IsAt
      <4> QED BY <2>2, <3>3, <4>1 DEF Led
    <3>4. CASE ~(x = o /\ Members(o) = {})
      <4>1. x \in headless => x \in headless'
        BY <2>1, <3>4
      <4> QED BY <1>2, <1>3, <2>2, <3>1, <3>2, <4>1, AdminsLast DEF Led
    <3> QED BY <3>3, <3>4
  <2> QED BY <1>4, <2>1, <2>3, <2>4
<1>11. CASE CreateUser(c)
  <2>0. PICK o : o = job[c].org
    OBVIOUS
  <2>1. orgs' = orgs /\ headless' = headless /\ stage[c] = "creating"
    BY <1>11, CreateDoes DEF Moved, history
  <2>2. ASSUME NEW x \in orgs, x # o \/ Members(x) # {}, Members(x) # {} => Members(x)' # {},
               x # o => Members(x)' = Members(x)
        PROVE  Led(x)'
    <3>1. CASE x # o
      BY <1>3, <2>0, <2>1, <2>2, <3>1, StaysLed
    <3>2. CASE x = o
      <4>1. IsAt({"making admin"}, x) => IsAt({"making admin"}, x)'
        BY <2>1, StaysAt
      <4> QED BY <1>2, <1>3, <2>1, <2>2, <3>2, <4>1, AdminsLast DEF Led
    <3> QED BY <3>1, <3>2
  <2>3. CASE Taken(o, job[c].email) /\ accounts' = accounts /\ stage'[c] = "idle"
    <3>1. Members(o) # {}
      BY <2>3 DEF Taken
    <3>2. \A x : Members(x)' = Members(x)
      BY <1>2, <2>3, SameMembers, Unwritten
    <3>3. \A x \in orgs' : Led(x)'
      BY <2>1, <2>2, <3>1, <3>2
    <3> QED BY <1>4, <2>3, <3>3 DEF Counted
  <2>4. ASSUME NEW a, Fresh(a, o, "call"), ~job[c].first, stage'[c] = "idle"
        PROVE  Governed'
    <3>1. Members(o) # {}
      BY <1>3, <2>0, <2>1, <2>4 DEF Counted
    <3>2. Members(o)' # {} /\ \A x : x # o => Members(x)' = Members(x)
      BY <1>2, <2>4, MoreMembers
    <3>3. \A x \in orgs' : Led(x)'
      BY <2>1, <2>2, <3>1, <3>2
    <3> QED BY <1>4, <2>4, <3>3 DEF Counted
  <2>5. ASSUME NEW a, Fresh(a, o, "call"), stage'[c] = "making admin", job'[c].org = o
        PROVE  Governed'
    <3>0. /\ Members(o)' = Members(o) \cup {a}
          /\ \A x : x # o => Members(x)' = Members(x)
      BY <1>2, <2>5, MoreMembers
    <3>1. Members(o)' # {} /\ \A x : x # o => Members(x)' = Members(x)
      BY <3>0
    <3>2. IsAt({"making admin"}, o)'
      BY <2>5 DEF IsAt
    <3>3. Led(o)'
      BY <3>1, <3>2 DEF Led
    <3>4. \A x \in orgs' : Led(x)'
      BY <2>1, <2>2, <3>1, <3>3
    <3> QED BY <1>4, <2>5, <3>4 DEF Counted
  <2> QED BY <1>11, <2>0, <2>3, <2>4, <2>5, CreateDoes DEF Moved, Keeps
<1>12. CASE MakeAdmin(c)
  <2>0. PICK a, o : a = job[c].account /\ o = job[c].org
    OBVIOUS
  <2>1. /\ orgs' = orgs /\ headless' = headless /\ stage[c] = "making admin" /\ stage'[c] = "idle"
        /\ Made' = Made /\ a \in Made /\ accounts'[a].role = "admin"
    BY <1>12, <2>0, AdminDoes DEF Moved, history, Writes
  <2>2. accounts'[a].org = o
    BY <1>2, <2>0, <2>1 DEF AllPlaced, Placed, Lasting, Stays
  <2>3. HasAdmin(o)'
    BY <2>1, <2>2 DEF HasAdmin, Members
  <2> QED BY <2>0, <2>1, <2>3, GovernedStep DEF MakingFirst
<1>13. CASE Provision(c)
  <2>1. /\ orgs' = orgs /\ stage[c] = "provisioning" /\ stage'[c] \in {"idle", "linking new"}
        /\ headless' = headless \/ headless' = headless \cup {Home}
    BY <1>13, ProvisionDoes DEF Moved
  <2>2. CASE accounts' = accounts /\ headless' = headless
    BY <1>5, <2>1, <2>2, Unwritten DEF MakingFirst
  <2>3. ASSUME NEW a, Fresh(a, Home, "sign-on"),
               headless' = IF Members(Home) = {} THEN headless \cup {Home} ELSE headless
        PROVE  Governed'
    <3>1. Members(Home)' # {} /\ \A x : x # Home => Members(x)' = Members(x)
      BY <1>2, <2>3, MoreMembers
    <3>2. ASSUME NEW x \in orgs, x # Home
          PROVE  Led(x)'
      BY <1>3, <2>1, <3>1, <3>2, StaysLed DEF MakingFirst
    <3>3. Home \in orgs => Led(Home)'
      <4>1. IsAt({"making admin"}, Home) => IsAt({"making admin"}, Home)'
        BY <2>1, StaysAt
      <4> QED BY <1>2, <1>3, <2>3, <3>1, <4>1, AdminsLast DEF Led
    <3>4. Counted(c)'
      BY <2>1 DEF Counted
    <3> QED BY <1>4, <2>1, <3>2, <3>3, <3>4
  <2> QED BY <1>13, <2>2, <2>3, ProvisionDoes
<1>14. CASE Abort(c)
  <2>1. /\ orgs' = orgs /\ accounts' = accounts /\ stage'[c] = "idle"
        /\ headless' = IF stage[c] \in MakingFirst THEN headless \cup {job[c].org} ELSE headless
    BY <1>14, AbortDoes DEF Moved
  <2> QED BY <2>1, Unwritten, GovernedStep DEF MakingFirst
<1>15. ASSUME orgs' = orgs, headless' = headless, Made' = Made, stage[c] \in SigningStages \cup {"idle"},
              stage'[c] \in SigningStages \cup {"idle"}
       PROVE  Governed'
  BY <1>5, <1>15 DEF SigningStages, MakingFirst
<1>16. CASE \E s \in Subjects : SignOn(c, s)
  BY <1>15, <1>16, SignOnDoes, Unwritten DEF SigningStages
<1>17. CASE FindFederatedIdentity(c) \/ LoadUser(c)
  BY <1>15, <1>17, FindDoes, LoadDoes, Unwritten DEF SigningStages, Moved, history
<1>18. CASE SyncEmail(c)
  BY <1>15, <1>18, EmailDoes, Unwritten DEF SigningStages, Moved, Writes
<1>19. CASE MatchEmail(c) \/ ListGroups(c)
  BY <1>15, <1>19, MatchDoes, ListDoes, Unwritten DEF SigningStages, Moved, history
<1>20. ASSUME NEW from \in {"linking", "linking new"}, NEW to \in {"clearing", "granting"},
              LinkFederatedIdentity(c, from, to)
       PROVE  Governed'
  BY <1>15, <1>20, LinkDoes, Unwritten DEF SigningStages, Moved, Stages
<1>21. CASE LinkExisting(c) \/ LinkNew(c)
  BY <1>20, <1>21 DEF LinkExisting, LinkNew
<1>22. CASE GrantDefaultRole(c) \/ ClearAttributes(c)
  BY <1>15, <1>22, GrantDoes, ClearDoes DEF SigningStages, Moved, Writes, history
<1>23. CASE \E k \in Attributes : SetAttribute(c, k)
  BY <1>15, <1>23, SetDoes DEF SigningStages, Writes, history
<1>24. CASE \E g \in Groups : AddMember(c, g)
  BY <1>15, <1>24, AddDoes DEF SigningStages, Writes, history
<1>25. CASE \E g \in Groups : RemoveMember(c, g)
  BY <1>15, <1>25, RemoveDoes, Unwritten DEF SigningStages, Moved, Writes
<1>26. CASE SignedOn(c)
  BY <1>15, <1>26, SignedDoes, Unwritten DEF SigningStages, Moved
<1> QED BY <1>7, <1>8, <1>9, <1>10, <1>11, <1>12, <1>13, <1>14, <1>16, <1>17, <1>18, <1>19,
           <1>21, <1>22, <1>23, <1>24, <1>25, <1>26 DEF Takes
-----------------------------------------------------------------------------
(* Sign-ons and accounts.                                                   *)
LinkedStages == Syncing \cup {"loading", "address", "granting"}
AsItself(c) ==
  stage[c] \in LinkedStages =>
    job[c].subject \in DOMAIN link /\ link[job[c].subject] = job[c].account

LEMMA StaysItself ==
  ASSUME Lasting, NEW d, AsItself(d), stage'[d] \in LinkedStages => stage[d] \in LinkedStages,
         job'[d].subject = job[d].subject, job'[d].account = job[d].account
  PROVE  AsItself(d)'
BY DEF Lasting, AsItself

LEMMA AsItselfHolds ==
  ASSUME OnboardingTypeOK, AllPlaced, SignsOnAsItself, [OnboardingNext]_onboarding
  PROVE  SignsOnAsItself'
<1>1. CASE UNCHANGED onboarding
  BY <1>1 DEF SignsOnAsItself, onboarding
<1> SUFFICES ASSUME NEW c \in Requests, Takes(c)
             PROVE  SignsOnAsItself'
  BY <1>1, Takers
<1>2. Lasting
  BY Lasts
<1>3. \A d \in Requests : AsItself(d)
  BY DEF SignsOnAsItself, AsItself, LinkedStages
<1>4. ASSUME AsItself(c)'
      PROVE  SignsOnAsItself'
  <2>1. ASSUME NEW d \in Requests \ {c}
        PROVE  AsItself(d)'
    <3>1. /\ stage'[d] = stage[d] /\ job'[d].subject = job[d].subject
          /\ job'[d].account = job[d].account
      BY OthersStand DEF Bystander, SameBut
    <3> QED BY <1>2, <1>3, <3>1, StaysItself
  <2> QED BY <1>4, <2>1 DEF SignsOnAsItself, AsItself, LinkedStages
<1>5. ASSUME stage'[c] \notin LinkedStages
      PROVE  SignsOnAsItself'
  BY <1>4, <1>5 DEF AsItself
<1>6. ASSUME stage[c] \in LinkedStages, job'[c].subject = job[c].subject,
             job'[c].account = job[c].account
      PROVE  SignsOnAsItself'
  BY <1>2, <1>3, <1>4, <1>6, StaysItself
<1>7. CASE Initialize(c) \/ CountUsers(c)
  BY <1>5, <1>7, InitializeDoes, CountDoes DEF Moved, LinkedStages, Syncing
<1>8. CASE \E o \in Orgs : CreateOrganization(c, o) \/ \E e \in Emails : CreateUserCommand(c, o, e)
  BY <1>5, <1>8, OrganizationDoes, CommandDoes DEF Moved, LinkedStages, Syncing
<1>9. CASE CreateUser(c) \/ MakeAdmin(c)
  BY <1>5, <1>9, CreateDoes, AdminDoes DEF Moved, LinkedStages, Syncing
<1>10. CASE \E s \in Subjects : SignOn(c, s)
  BY <1>5, <1>10, SignOnDoes DEF LinkedStages, Syncing
<1>11. CASE FindFederatedIdentity(c)
  <2>1. CASE stage'[c] \in {"matching", "provisioning", "idle"}
    BY <1>5, <2>1 DEF LinkedStages, Syncing
  <2>2. CASE /\ job[c].subject \in DOMAIN link /\ job'[c].account = link[job[c].subject]
             /\ Keeps(c, {"kind", "email", "subject", "crossed"})
    <3>1. job'[c].subject = job[c].subject
      BY <2>2 DEF Keeps
    <3>2. AsItself(c)'
      BY <1>2, <2>2, <3>1 DEF AsItself, Lasting
    <3> QED BY <1>4, <3>2
  <2> QED BY <1>11, <2>1, <2>2, FindDoes DEF Moved
<1>12. CASE LoadUser(c)
  <2>1. /\ stage[c] = "loading" /\ job'[c].subject = job[c].subject
        /\ job'[c].account = job[c].account
    BY <1>12, LoadDoes DEF Moved, Keeps
  <2> QED BY <1>6, <2>1 DEF LinkedStages
<1>13. CASE SyncEmail(c)
  <2>1. stage[c] = "address" /\ (stage'[c] = "idle" \/ job' = job)
    BY <1>13, EmailDoes DEF Moved
  <2> QED BY <1>5, <1>6, <2>1 DEF LinkedStages, Syncing
<1>14. CASE MatchEmail(c) \/ Provision(c)
  BY <1>5, <1>14, MatchDoes, ProvisionDoes DEF Moved, LinkedStages, Syncing
<1>15. ASSUME NEW from \in {"linking", "linking new"}, NEW to \in {"clearing", "granting"},
              LinkFederatedIdentity(c, from, to)
       PROVE  SignsOnAsItself'
  <2>1. CASE stage'[c] = "idle"
    BY <1>5, <2>1 DEF LinkedStages, Syncing
  <2>2. CASE /\ job' = job /\ DOMAIN link' = DOMAIN link \cup {job[c].subject}
             /\ link'[job[c].subject] = job[c].account
    BY <1>4, <2>2 DEF AsItself
  <2> QED BY <1>15, <2>1, <2>2, LinkDoes DEF Moved, Stages
<1>16. CASE LinkExisting(c) \/ LinkNew(c)
  BY <1>15, <1>16 DEF LinkExisting, LinkNew
<1>17. CASE GrantDefaultRole(c)
  BY <1>6, <1>17, GrantDoes DEF Moved, LinkedStages
<1>18. CASE ClearAttributes(c) \/ ListGroups(c)
  <2>1. /\ stage[c] \in {"clearing", "setting"} /\ job'[c].subject = job[c].subject
        /\ job'[c].account = job[c].account
    BY <1>18, ClearDoes, ListDoes DEF Moved, Keeps
  <2> QED BY <1>6, <2>1 DEF LinkedStages, Syncing
<1>19. CASE \E k \in Attributes : SetAttribute(c, k)
  <2>1. /\ stage[c] = "setting" /\ job'[c].subject = job[c].subject
        /\ job'[c].account = job[c].account
    BY <1>19, SetDoes DEF Keeps
  <2> QED BY <1>6, <2>1 DEF LinkedStages, Syncing
<1>20. CASE \E g \in Groups : AddMember(c, g) \/ RemoveMember(c, g)
  <2>1. /\ stage[c] = "grouping"
        /\ \/ stage'[c] = "idle"
           \/ job'[c].subject = job[c].subject /\ job'[c].account = job[c].account
    BY <1>20, AddDoes, RemoveDoes DEF Moved, Keeps
  <2> QED BY <1>5, <1>6, <2>1 DEF LinkedStages, Syncing
<1>21. CASE SignedOn(c) \/ Abort(c)
  BY <1>5, <1>21, SignedDoes, AbortDoes DEF Moved, LinkedStages, Syncing
<1> QED BY <1>7, <1>8, <1>9, <1>10, <1>11, <1>12, <1>13, <1>14, <1>16, <1>17, <1>18, <1>19,
           <1>20, <1>21 DEF Takes
(* Only the link of a new account, its role and a failure take a call from  *)
(* where its account is not finished.                                       *)
AtNew == {"linking new", "granting"}

LEMMA StrandedGrows ==
  ASSUME OnboardingTypeOK, AllPlaced, NEW c \in Requests, Takes(c)
  PROVE  /\ stranded \subseteq stranded'
         /\ stage[c] \in AtNew => LinkNew(c) \/ GrantDefaultRole(c) \/ Abort(c)
<1>1. CASE Initialize(c) \/ CountUsers(c)
  BY <1>1, InitializeDoes, CountDoes DEF Moved, AtNew, history
<1>2. CASE \E o \in Orgs : CreateOrganization(c, o) \/ \E e \in Emails : CreateUserCommand(c, o, e)
  BY <1>2, OrganizationDoes, CommandDoes DEF Moved, AtNew, history
<1>3. CASE CreateUser(c) \/ MakeAdmin(c)
  BY <1>3, CreateDoes, AdminDoes DEF Moved, AtNew, history
<1>4. CASE \E s \in Subjects : SignOn(c, s)
  BY <1>4, SignOnDoes DEF AtNew
<1>5. CASE FindFederatedIdentity(c) \/ LoadUser(c)
  BY <1>5, FindDoes, LoadDoes DEF Moved, AtNew, history
<1>6. CASE SyncEmail(c) \/ MatchEmail(c) \/ Provision(c)
  BY <1>6, EmailDoes, MatchDoes, ProvisionDoes DEF Moved, AtNew, history
<1>7. CASE LinkExisting(c)
  <2>1. LinkFederatedIdentity(c, "linking", "clearing") /\ "clearing" \in Stages
    BY <1>7 DEF LinkExisting, Stages
  <2> QED BY <2>1, LinkDoes DEF Moved, AtNew
<1>8. CASE LinkNew(c)
  <2>1. LinkFederatedIdentity(c, "linking new", "granting") /\ "granting" \in Stages
    BY <1>8 DEF LinkNew, Stages
  <2> QED BY <1>8, <2>1, LinkDoes
<1>9. CASE GrantDefaultRole(c) \/ Abort(c)
  BY <1>9, GrantDoes, AbortDoes DEF history
<1>10. CASE ClearAttributes(c) \/ ListGroups(c) \/ SignedOn(c)
  BY <1>10, ClearDoes, ListDoes, SignedDoes DEF Moved, AtNew, history
<1>11. CASE \E k \in Attributes : SetAttribute(c, k)
  BY <1>11, SetDoes DEF AtNew, history
<1>12. CASE \E g \in Groups : AddMember(c, g) \/ RemoveMember(c, g)
  BY <1>12, AddDoes, RemoveDoes DEF AtNew, history
<1> QED BY <1>1, <1>2, <1>3, <1>4, <1>5, <1>6, <1>7, <1>8, <1>9, <1>10, <1>11, <1>12 DEF Takes

(* What NobodyIsStranded says of one account.                               *)
Finished(a) ==
  /\ \E s \in DOMAIN link : link[s] = a
  /\ DefaultRole # "none" => accounts[a].role # "none"
Worked(a) == \E c \in Requests : stage[c] \in AtNew /\ job[c].account = a

LEMMA StrandedHolds ==
  ASSUME OnboardingTypeOK, AllPlaced, SignsOnAsItself, NobodyIsStranded, AloneHolds,
         [OnboardingNext]_onboarding
  PROVE  NobodyIsStranded'
<1>1. CASE UNCHANGED onboarding
  BY <1>1 DEF NobodyIsStranded, onboarding, history, Made
<1> SUFFICES ASSUME NEW c \in Requests, Takes(c)
             PROVE  NobodyIsStranded'
  BY <1>1, Takers
<1>2. Lasting /\ stranded \subseteq stranded'
  BY Lasts, StrandedGrows
<1> SUFFICES ASSUME NEW a \in Made', accounts'[a].made = "sign-on"
             PROVE  Finished(a)' \/ a \in stranded' \/ Worked(a)'
  BY DEF NobodyIsStranded, Finished, Worked, AtNew
<1>3. CASE a \notin Made
  <2>1. ~CreateUser(c)
    <3>1. ASSUME NEW x, NEW o, Fresh(x, o, "call")
          PROVE  FALSE
      BY <1>3, <3>1 DEF Fresh
    <3> QED BY <1>3, <3>1, CreateDoes, Unwritten
  <2>2. Provision(c)
    BY <1>3, <2>1, MakersOnly
  <2>3. Fresh(job'[c].account, Home, "sign-on") /\ stage'[c] = "linking new"
    BY <1>3, <2>2, ProvisionDoes, Unwritten DEF Moved
  <2>4. job'[c].account = a
    BY <1>3, <2>3 DEF Fresh
  <2> QED BY <2>3, <2>4 DEF Worked, AtNew
<1>4. CASE a \in Made
  <2>1. accounts[a].made = "sign-on"
    BY <1>2, <1>4 DEF Lasting, Stays
  <2>2. Finished(a) \/ a \in stranded \/ Worked(a)
    BY <1>4, <2>1 DEF NobodyIsStranded, Finished, Worked, AtNew
  <2>3. Finished(a) => Finished(a)'
    BY <1>2, <1>4 DEF Finished, Lasting
  <2>4. ASSUME NEW d \in Requests, stage[d] \in AtNew, job[d].account = a, d # c
        PROVE  Worked(a)'
    <3>1. stage'[d] = stage[d] /\ job'[d].account = job[d].account
      BY <2>4, OthersStand DEF Bystander, SameBut
    <3> QED BY <2>4, <3>1 DEF Worked
  <2>5. ASSUME stage[c] \in AtNew, job[c].account = a
        PROVE  Finished(a)' \/ a \in stranded' \/ Worked(a)'
    <3>1. CASE LinkNew(c)
      <4>1. LinkFederatedIdentity(c, "linking new", "granting") /\ "granting" \in Stages
        BY <3>1 DEF LinkNew, Stages
      <4>2. CASE Moved(c, "linking new", "granting") /\ job' = job
        BY <2>5, <4>2 DEF Worked, AtNew, Moved
      <4>3. CASE /\ job[c].subject \in DOMAIN link /\ Moved(c, "linking new", "idle")
                 /\ stranded' = IF job[c].crossed THEN stranded \cup {job[c].account} ELSE stranded
        <5>1. job[c].kind = "sign-on" /\ stage[c] \in Unlinked
          BY <4>3 DEF Moved, AllPlaced, Placed, SigningStages, Unlinked
        <5>2. job[c].crossed
          BY <4>3, <5>1 DEF AloneHolds, Alone
        <5> QED BY <2>5, <4>3, <5>2
      <4> QED BY <4>1, <4>2, <4>3, LinkDoes
    <3>2. CASE GrantDefaultRole(c)
      <4>1. /\ stage[c] = "granting" /\ UNCHANGED link
            /\ accounts'[a].role = IF accounts[a].role = "admin" \/ DefaultRole = "none"
                                   THEN accounts[a].role ELSE DefaultRole
        BY <2>5, <3>2, GrantDoes DEF Moved
      <4>2. job[c].subject \in DOMAIN link /\ link[job[c].subject] = a
        BY <2>5, <4>1 DEF SignsOnAsItself
      <4> QED BY <4>1, <4>2 DEF Finished
    <3>3. CASE Abort(c)
      BY <2>5, <3>3, AbortDoes DEF AtNew
    <3> QED BY <2>5, <3>1, <3>2, <3>3, StrandedGrows
  <2> QED BY <1>2, <2>2, <2>3, <2>4, <2>5 DEF Worked
<1> QED BY <1>3, <1>4
-----------------------------------------------------------------------------
(* Sign-ons that run alone.                                                 *)
Begins(c) == \E s \in Subjects : SignOn(c, s)
Fields == {"version", "groups", "attributes"}

(* What is not single sign-on leaves all of it alone.                       *)
LEMMA AsideStep ==
  ASSUME OnboardingTypeOK, AllPlaced, NEW c \in Requests, Takes(c), job[c].kind # "sign-on",
         ~Begins(c)
  PROVE  /\ link' = link /\ settled' = settled /\ stumbled' = stumbled
         /\ job'[c].kind # "sign-on" /\ \A a \in Made : Stays(a, Fields)
<1>0. stage[c] \notin SigningStages
  BY DEF AllPlaced, Placed
<1>1. accounts' = accounts => \A a \in Made : Stays(a, Fields)
  BY DEF Stays
<1>2. NoJob.kind = "none"
  BY DEF NoJob
<1>3. CASE Initialize(c) \/ CountUsers(c)
  BY <1>1, <1>3, InitializeDoes, CountDoes DEF Keeps, history
<1>4. ASSUME NEW o \in Orgs, CreateOrganization(c, o)
      PROVE  /\ link' = link /\ settled' = settled /\ stumbled' = stumbled /\ accounts' = accounts
             /\ job'[c].kind # "sign-on"
  BY <1>2, <1>4, OrganizationDoes DEF Keeps
<1>5. ASSUME NEW o \in Orgs, NEW e \in Emails, CreateUserCommand(c, o, e)
      PROVE  /\ link' = link /\ settled' = settled /\ stumbled' = stumbled /\ accounts' = accounts
             /\ job'[c].kind # "sign-on"
  BY <1>5, CommandDoes DEF history
<1>6. CASE CreateUser(c)
  <2>1. /\ link' = link /\ settled' = settled /\ stumbled' = stumbled
        /\ job'[c].kind # "sign-on"
    BY <1>2, <1>6, CreateDoes DEF Keeps, history
  <2>2. accounts' = accounts \/ \E x, o, how : Fresh(x, o, how)
    BY <1>6, CreateDoes
  <2> QED BY <2>1, <2>2, FreshLasts DEF Stays
<1>7. CASE MakeAdmin(c)
  <2>1. /\ link' = link /\ settled' = settled /\ stumbled' = stumbled
        /\ job'[c].kind # "sign-on"
        /\ Writes(job[c].account, {"org", "email", "version", "made", "groups", "attributes"})
    BY <1>2, <1>7, AdminDoes DEF history
  <2> QED BY <2>1 DEF Stays, Writes, Fields
<1>8. CASE Abort(c)
  BY <1>1, <1>2, <1>8, AbortDoes
<1>9. ~FindFederatedIdentity(c) /\ ~LoadUser(c) /\ ~SyncEmail(c)
  BY <1>0, FindDoes, LoadDoes, EmailDoes DEF Moved, SigningStages
<1>10. ~MatchEmail(c) /\ ~Provision(c) /\ ~GrantDefaultRole(c)
  BY <1>0, MatchDoes, ProvisionDoes, GrantDoes DEF Moved, SigningStages
<1>11. ~LinkExisting(c) /\ ~LinkNew(c)
  <2>1. ASSUME NEW from \in {"linking", "linking new"}, NEW to \in Stages,
               LinkFederatedIdentity(c, from, to)
        PROVE  FALSE
    BY <1>0, <2>1, LinkDoes DEF Moved, SigningStages
  <2> QED BY <2>1 DEF LinkExisting, LinkNew, Stages
<1>12. ~ClearAttributes(c) /\ ~ListGroups(c) /\ ~SignedOn(c)
  BY <1>0, ClearDoes, ListDoes, SignedDoes DEF Moved, SigningStages
<1>13. /\ \A k \in Attributes : ~SetAttribute(c, k)
       /\ \A g \in Groups : ~AddMember(c, g) /\ ~RemoveMember(c, g)
  BY <1>0, SetDoes, AddDoes, RemoveDoes DEF SigningStages
<1> QED BY <1>1, <1>3, <1>4, <1>5, <1>6, <1>7, <1>8, <1>9, <1>10, <1>11, <1>12, <1>13
           DEF Takes, Begins

(* What AloneHolds says of a call that runs alone, the others apart.        *)
Sees(c) ==
  LET a == accounts[job[c].account] IN
  /\ stage[c] \in Unlinked => job[c].subject \notin DOMAIN link
  /\ stage[c] = "address" => a.version = job[c].version
  /\ stage[c] = "setting" =>
       job[c].left \subseteq job[c].attributes /\ a.attributes = job[c].attributes \ job[c].left
  /\ stage[c] = "grouping" =>
       /\ a.attributes = job[c].attributes
       /\ job[c].left = (job[c].groups \ a.groups) \cup (a.groups \ job[c].groups)

LEMMA AloneParts == AloneHolds <=> \A c \in Requests : Alone(c) => SigningOn = {c} /\ Sees(c)
BY DEF AloneHolds, Sees

LEMMA StartsElsewhere ==
  ASSUME OnboardingTypeOK, AllPlaced, NEW c \in Requests, stage[c] \in SigningStages
  PROVE  /\ ~Initialize(c) /\ \A o \in Orgs : ~CreateOrganization(c, o)
         /\ \A o \in Orgs, e \in Emails : ~CreateUserCommand(c, o, e)
         /\ ~CountUsers(c) /\ ~CreateUser(c) /\ ~MakeAdmin(c) /\ ~Begins(c)
<1>1. ~Initialize(c) /\ ~Begins(c)
  BY InitializeDoes, SignOnDoes DEF Moved, SigningStages, Begins
<1>2. /\ \A o \in Orgs : ~CreateOrganization(c, o)
      /\ \A o \in Orgs, e \in Emails : ~CreateUserCommand(c, o, e)
  BY OrganizationDoes, CommandDoes DEF Moved, SigningStages
<1>3. ~CountUsers(c) /\ ~CreateUser(c) /\ ~MakeAdmin(c)
  BY CountDoes, CreateDoes, AdminDoes DEF Moved, SigningStages
<1> QED BY <1>1, <1>2, <1>3

(* A sign-on that runs alone goes on knowing what it knows.                 *)
LEMMA TakerSees ==
  ASSUME OnboardingTypeOK, AllPlaced, NEW c \in Requests, Takes(c), job[c].kind = "sign-on",
         Sees(c), job'[c].kind = "sign-on"
  PROVE  Sees(c)'
<1>0. stage[c] \in SigningStages
  BY DEF AllPlaced, Placed, OnboardingTypeOK, Stages, MakingFirst, SigningStages
<1>1. NoJob.kind = "none" /\ job'[c] # NoJob
  BY DEF NoJob
<1>2. ASSUME stage'[c] \in {"loading", "clearing", "granting", "idle"}
      PROVE  Sees(c)'
  BY <1>2 DEF Sees, Unlinked
<1>3. ASSUME stage'[c] \in {"matching", "provisioning", "linking", "linking new"},
             job[c].subject \notin DOMAIN link, link' = link,
             job'[c].subject = job[c].subject
      PROVE  Sees(c)'
  BY <1>3 DEF Sees, Unlinked
<1>4. /\ ~Initialize(c) /\ \A o \in Orgs : ~CreateOrganization(c, o)
      /\ \A o \in Orgs, e \in Emails : ~CreateUserCommand(c, o, e)
      /\ ~CountUsers(c) /\ ~CreateUser(c) /\ ~MakeAdmin(c) /\ ~Begins(c)
  BY <1>0, StartsElsewhere
<1>5. ~SignedOn(c) /\ ~Abort(c)
  BY <1>1, SignedDoes, AbortDoes
<1>6. CASE FindFederatedIdentity(c)
  <2>1. CASE Moved(c, "looking up", "loading") /\ Keeps(c, {"kind", "email", "subject", "crossed"})
    BY <1>2, <2>1 DEF Moved, Keeps
  <2>2. CASE /\ job[c].subject \notin DOMAIN link /\ job' = job
             /\ Moved(c, "looking up", "matching") \/ Moved(c, "looking up", "provisioning")
    BY <1>3, <1>6, <2>2, FindDoes DEF Moved
  <2> QED BY <1>1, <1>6, <2>1, <2>2, FindDoes
<1>7. CASE LoadUser(c)
  <2>1. /\ stage'[c] \in {"clearing", "address"}
        /\ job'[c].version = accounts[job[c].account].version /\ accounts' = accounts
        /\ job'[c].account = job[c].account
    BY <1>7, LoadDoes DEF Moved, Keeps
  <2> QED BY <2>1 DEF Sees, Unlinked
<1>8. CASE SyncEmail(c)
  BY <1>1, <1>2, <1>8, EmailDoes DEF Moved
<1>9. CASE MatchEmail(c)
  <2>1. job[c].subject \notin DOMAIN link
    BY <1>9, MatchDoes DEF Moved, Sees, Unlinked
  <2>2. CASE Moved(c, "matching", "linking") /\ Keeps(c, {"kind", "email", "subject", "crossed"})
    BY <1>3, <1>9, <2>1, <2>2, MatchDoes DEF Moved, Keeps
  <2>3. CASE Moved(c, "matching", "provisioning") /\ job' = job
    BY <1>3, <1>9, <2>1, <2>3, MatchDoes DEF Moved
  <2> QED BY <1>1, <1>9, <2>2, <2>3, MatchDoes
<1>10. CASE Provision(c)
  <2>1. /\ stage[c] = "provisioning" /\ stage'[c] = "linking new" /\ link' = link
        /\ job'[c].subject = job[c].subject
    BY <1>1, <1>10, ProvisionDoes DEF Moved, Keeps
  <2> QED BY <1>3, <2>1 DEF Sees, Unlinked
<1>11. ASSUME NEW from \in {"linking", "linking new"}, NEW to \in {"clearing", "granting"},
              LinkFederatedIdentity(c, from, to)
       PROVE  Sees(c)'
  BY <1>1, <1>2, <1>11, LinkDoes DEF Moved, Stages
<1>12. CASE LinkExisting(c) \/ LinkNew(c)
  BY <1>11, <1>12 DEF LinkExisting, LinkNew
<1>13. CASE GrantDefaultRole(c)
  BY <1>2, <1>13, GrantDoes DEF Moved
<1>14. CASE ClearAttributes(c)
  <2>1. /\ stage'[c] = "setting" /\ job'[c].left = job'[c].attributes
        /\ job'[c].account = job[c].account /\ accounts'[job[c].account].attributes = {}
    BY <1>14, ClearDoes DEF Moved, Keeps
  <2> QED BY <2>1 DEF Sees, Unlinked
<1>15. ASSUME NEW k \in Attributes, SetAttribute(c, k)
       PROVE  Sees(c)'
  <2>1. /\ stage[c] = "setting" /\ stage'[c] = "setting" /\ k \in job[c].left
        /\ job'[c].left = job[c].left \ {k} /\ job'[c].attributes = job[c].attributes
        /\ job'[c].account = job[c].account
        /\ accounts'[job[c].account].attributes = accounts[job[c].account].attributes \cup {k}
    BY <1>15, SetDoes DEF Keeps
  <2> QED BY <2>1 DEF Sees, Unlinked
<1>16. CASE ListGroups(c)
  <2>1. /\ stage[c] = "setting" /\ stage'[c] = "grouping" /\ job[c].left = {}
        /\ job'[c].left = (job'[c].groups \ accounts[job[c].account].groups)
                            \cup (accounts[job[c].account].groups \ job'[c].groups)
        /\ job'[c].attributes = job[c].attributes /\ accounts' = accounts
        /\ job'[c].account = job[c].account
    BY <1>16, ListDoes DEF Moved, Keeps
  <2> QED BY <2>1 DEF Sees, Unlinked
<1>17. ASSUME NEW g \in Groups, AddMember(c, g) \/ RemoveMember(c, g)
       PROVE  Sees(c)'
  <2> DEFINE a == job[c].account
  <2>1. /\ stage[c] = "grouping" /\ stage'[c] = "grouping" /\ g \in job[c].left
        /\ job'[c].left = job[c].left \ {g}
        /\ Keeps(c, {"kind", "email", "account", "subject", "groups", "attributes", "crossed"})
        /\ Writes(a, {"org", "email", "version", "role", "made", "attributes"})
    BY <1>1, <1>17, AddDoes, RemoveDoes
  <2>2. /\ job'[c].groups = job[c].groups /\ job'[c].attributes = job[c].attributes
        /\ job'[c].account = a
        /\ accounts'[a].attributes = accounts[a].attributes
    BY <2>1 DEF Keeps, Writes, Stays
  <2>3. \/ g \in job[c].groups /\ accounts'[a].groups = accounts[a].groups \cup {g}
        \/ /\ job[c].left \cap job[c].groups = {}
           /\ accounts'[a].groups = accounts[a].groups \ {g}
    BY <1>1, <1>17, AddDoes, RemoveDoes
  <2> QED BY <2>1, <2>2, <2>3 DEF Sees, Unlinked
<1> QED BY <1>4, <1>5, <1>6, <1>7, <1>8, <1>9, <1>10, <1>12, <1>13, <1>14, <1>15, <1>16, <1>17
           DEF Takes, Begins

LEMMA TakerCrossed ==
  ASSUME OnboardingTypeOK, AllPlaced, NEW c \in Requests, Takes(c), job[c].kind = "sign-on",
         job'[c].kind = "sign-on", job[c].crossed
  PROVE  job'[c].crossed
<1>0. stage[c] \in SigningStages
  BY DEF AllPlaced, Placed, OnboardingTypeOK, Stages, MakingFirst, SigningStages
<1>1. NoJob.kind = "none" /\ job'[c] # NoJob
  BY DEF NoJob
<1> SUFFICES job'[c].crossed = job[c].crossed
  BY Zenon
<1>2. /\ ~Initialize(c) /\ \A o \in Orgs : ~CreateOrganization(c, o)
      /\ \A o \in Orgs, e \in Emails : ~CreateUserCommand(c, o, e)
      /\ ~CountUsers(c) /\ ~CreateUser(c) /\ ~MakeAdmin(c) /\ ~Begins(c)
  BY <1>0, StartsElsewhere
<1>3. CASE FindFederatedIdentity(c) \/ LoadUser(c) \/ SyncEmail(c)
  BY <1>1, <1>3, FindDoes, LoadDoes, EmailDoes DEF Keeps
<1>4. CASE MatchEmail(c) \/ Provision(c) \/ GrantDefaultRole(c)
  BY <1>1, <1>4, MatchDoes, ProvisionDoes, GrantDoes DEF Keeps
<1>5. ASSUME NEW from \in {"linking", "linking new"}, NEW to \in {"clearing", "granting"},
              LinkFederatedIdentity(c, from, to)
       PROVE  job'[c].crossed = job[c].crossed
  BY <1>1, <1>5, LinkDoes DEF Stages
<1>6. CASE LinkExisting(c) \/ LinkNew(c)
  BY <1>5, <1>6 DEF LinkExisting, LinkNew
<1>7. CASE ClearAttributes(c) \/ ListGroups(c)
  BY <1>7, ClearDoes, ListDoes DEF Keeps
<1>8. CASE \E k \in Attributes : SetAttribute(c, k)
  BY <1>8, SetDoes DEF Keeps
<1>9. CASE \E g \in Groups : AddMember(c, g) \/ RemoveMember(c, g)
  BY <1>1, <1>9, AddDoes, RemoveDoes DEF Keeps
<1>10. ~SignedOn(c) /\ ~Abort(c)
  BY <1>1, SignedDoes, AbortDoes
<1> QED BY <1>2, <1>3, <1>4, <1>6, <1>7, <1>8, <1>9, <1>10 DEF Takes, Begins

LEMMA AloneHolding ==
  ASSUME OnboardingTypeOK, AllPlaced, AloneHolds, [OnboardingNext]_onboarding
  PROVE  AloneHolds'
<1>1. CASE UNCHANGED onboarding
  BY <1>1 DEF AloneHolds, Alone, SigningOn, onboarding
<1> SUFFICES ASSUME NEW c \in Requests, Takes(c), NEW d \in Requests, Alone(d)'
             PROVE  SigningOn' = {d} /\ Sees(d)'
  BY <1>1, Takers DEF AloneHolds, Sees
<1>2. \A x \in Requests : Alone(x) => SigningOn = {x} /\ Sees(x)
  BY AloneParts
<1>3. \A x \in Requests \ {c} : Bystander(x)
  BY OthersStand
<1>4. \A x \in Requests \ {c} : job'[x].kind = job[x].kind
  BY <1>3 DEF Bystander, SameBut
<1>5. CASE Begins(c)
  <2>1. PICK s \in Subjects : SignOn(c, s)
    BY <1>5 DEF Begins
  <2>2. \A x \in Requests \ {c} : job'[x].crossed = (job[x].crossed \/ job[x].kind = "sign-on")
    BY <2>1, SignOnDoes
  <2>3. /\ stage'[c] = "looking up" /\ job'[c].kind = "sign-on"
        /\ job'[c].crossed = (SigningOn # {})
    BY <2>1, SignOnDoes
  <2>4. d = c
    <3>1. ASSUME d # c
          PROVE  FALSE
      <4>1. job[d].kind = "sign-on"
        BY <1>4, <3>1 DEF Alone
      <4>2. job'[d].crossed = (job[d].crossed \/ job[d].kind = "sign-on")
        BY <2>2, <3>1
      <4>3. job'[d].crossed
        BY <4>1, <4>2, Zenon
      <4> QED BY <4>3 DEF Alone
    <3> QED BY <3>1
  <2>5. SigningOn = {}
    BY <2>3, <2>4 DEF Alone
  <2>6. SigningOn' = {c}
    BY <1>4, <2>3, <2>5 DEF SigningOn
  <2> QED BY <2>3, <2>4, <2>6 DEF Sees, Unlinked
<1>6. CASE ~Begins(c) /\ d = c
  <2>1. ASSUME job[c].kind # "sign-on"
        PROVE  FALSE
    BY <1>6, <2>1, AsideStep DEF Alone
  <2>2. job[c].kind = "sign-on" /\ job'[c].kind = "sign-on"
    BY <1>6, <2>1 DEF Alone
  <2>3. CASE job[c].crossed
    <3>1. job'[c].crossed
      BY <2>2, <2>3, TakerCrossed
    <3> QED BY <1>6, <3>1 DEF Alone
  <2>4. CASE ~job[c].crossed
    <3>1. SigningOn = {c} /\ Sees(c)
      BY <1>2, <2>2, <2>4 DEF Alone
    <3>2. Sees(c)'
      BY <2>2, <3>1, TakerSees
    <3>3. SigningOn' = {c}
      BY <1>4, <2>2, <3>1 DEF SigningOn
    <3> QED BY <1>6, <3>2, <3>3
  <2> QED BY <2>3, <2>4
<1>7. CASE ~Begins(c) /\ d # c
  <2>1. Bystander(d)
    BY <1>3, <1>7
  <2>2. /\ stage'[d] = stage[d] /\ job'[d].kind = job[d].kind /\ job'[d].subject = job[d].subject
        /\ job'[d].account = job[d].account /\ job'[d].version = job[d].version
        /\ job'[d].groups = job[d].groups /\ job'[d].attributes = job[d].attributes
        /\ job'[d].left = job[d].left
    BY <2>1 DEF Bystander, SameBut
  <2>3. Alone(d)
    BY <2>1, <2>2 DEF Alone, Bystander
  <2>4. SigningOn = {d} /\ Sees(d)
    BY <1>2, <2>3
  <2>5. job[c].kind # "sign-on"
    BY <1>7, <2>4 DEF SigningOn
  <2>6. link' = link /\ job'[c].kind # "sign-on" /\ \A a \in Made : Stays(a, Fields)
    BY <1>7, <2>5, AsideStep
  <2>7. SigningOn' = {d}
    <3>1. \A x \in Requests : job'[x].kind = "sign-on" <=> job[x].kind = "sign-on"
      BY <1>4, <2>5, <2>6
    <3>2. SigningOn' = SigningOn
      BY <3>1 DEF SigningOn
    <3> QED BY <2>4, <3>2
  <2>8. Sees(d)'
    <3>1. stage[d] \in AtAccount => Stays(job[d].account, Fields)
      BY <2>6 DEF AllPlaced, Placed
    <3> QED BY <2>2, <2>4, <2>6, <3>1 DEF Sees, Stays, Fields, AtAccount
  <2> QED BY <2>7, <2>8
<1> QED BY <1>5, <1>6, <1>7
(* Nothing has begun since the sign-on that settled, so what it left is     *)
(* still there; and what one that runs alone knows is what it needs.        *)
LEMMA SettledHolds ==
  ASSUME OnboardingTypeOK, AllPlaced, AloneHolds, SettledAlone, SignOnsHeal,
         [OnboardingNext]_onboarding
  PROVE  SettledAlone' /\ LoneSignOnSettles'
<1>1. CASE UNCHANGED onboarding
  BY <1>1 DEF SettledAlone, SigningOn, SignOnsHeal, LoneSignOnSettles, onboarding, history
<1> SUFFICES ASSUME NEW c \in Requests, Takes(c)
             PROVE  SettledAlone' /\ LoneSignOnSettles'
  BY <1>1, Takers
<1>2. \A x \in Requests \ {c} : job'[x].kind = job[x].kind
  BY OthersStand DEF Bystander, SameBut
<1>3. NotSettled.account = NoAccount
  BY DEF NotSettled
<1>4. CASE settled' = NotSettled
  BY <1>3, <1>4 DEF SettledAlone, LoneSignOnSettles
<1>5. CASE Begins(c)
  BY <1>4, <1>5, SignOnDoes DEF Begins
<1>6. CASE SignedOn(c) /\ ~job[c].crossed
  <2>1. /\ stage[c] = "grouping" /\ job'[c] = NoJob /\ job[c].left = {} /\ accounts' = accounts
        /\ job[c].account \in Made
    BY <1>6, SignedDoes DEF Moved
  <2>2. /\ settled'.account = job[c].account /\ settled'.groups = job[c].groups
        /\ settled'.attributes = job[c].attributes
    BY <1>6, SignedDoes
  <2>3. Alone(c)
    BY <1>6, <2>1 DEF Alone, AllPlaced, Placed, SigningStages
  <2>4. SigningOn = {c} /\ Sees(c)
    BY <2>3, AloneParts
  <2>5. job'[c].kind = "none"
    BY <2>1 DEF NoJob
  <2>6. SettledAlone'
    BY <1>2, <2>4, <2>5 DEF SettledAlone, SigningOn
  <2>7. /\ accounts[job[c].account].groups = job[c].groups
        /\ accounts[job[c].account].attributes = job[c].attributes
    BY <2>1, <2>4 DEF Sees
  <2> QED BY <2>1, <2>2, <2>6, <2>7 DEF LoneSignOnSettles
<1>7. CASE settled' = settled /\ ~Begins(c)
  <2> SUFFICES ASSUME settled.account # NoAccount
               PROVE  SettledAlone' /\ LoneSignOnSettles'
    BY <1>7 DEF SettledAlone, LoneSignOnSettles
  <2>1. SigningOn = {} /\ settled.account \in Made
    BY DEF SettledAlone, OnboardingTypeOK
  <2>2. job[c].kind # "sign-on"
    BY <2>1 DEF SigningOn
  <2>3. job'[c].kind # "sign-on" /\ Stays(settled.account, Fields)
    BY <1>7, <2>1, <2>2, AsideStep
  <2>4. SigningOn' = {}
    BY <1>2, <2>1, <2>3 DEF SigningOn
  <2> QED BY <1>7, <2>3, <2>4 DEF SettledAlone, SignOnsHeal, LoneSignOnSettles, Stays, Fields
<1>8. CASE Initialize(c) \/ CountUsers(c)
  BY <1>5, <1>7, <1>8, InitializeDoes, CountDoes DEF history
<1>9. CASE \E o \in Orgs : CreateOrganization(c, o) \/ \E e \in Emails : CreateUserCommand(c, o, e)
  BY <1>5, <1>7, <1>9, OrganizationDoes, CommandDoes DEF history
<1>10. CASE CreateUser(c) \/ MakeAdmin(c) \/ GrantDefaultRole(c)
  BY <1>5, <1>7, <1>10, CreateDoes, AdminDoes, GrantDoes DEF history
<1>11. CASE FindFederatedIdentity(c) \/ LoadUser(c) \/ SyncEmail(c)
  BY <1>5, <1>7, <1>11, FindDoes, LoadDoes, EmailDoes DEF history
<1>12. CASE MatchEmail(c) \/ Provision(c)
  BY <1>5, <1>7, <1>12, MatchDoes, ProvisionDoes DEF history
<1>13. CASE LinkExisting(c) \/ LinkNew(c)
  BY <1>5, <1>7, <1>13, LinkDoes DEF LinkExisting, LinkNew, Stages
<1>14. CASE ClearAttributes(c) \/ ListGroups(c) \/ Abort(c)
  BY <1>5, <1>7, <1>14, ClearDoes, ListDoes, AbortDoes DEF history
<1>15. CASE \E k \in Attributes : SetAttribute(c, k)
  BY <1>5, <1>7, <1>15, SetDoes DEF history
<1>16. CASE \E g \in Groups : AddMember(c, g) \/ RemoveMember(c, g)
  BY <1>5, <1>7, <1>16, AddDoes, RemoveDoes DEF history
<1>17. CASE SignedOn(c)
  BY <1>4, <1>6, <1>17, SignedDoes
<1> QED BY <1>5, <1>8, <1>9, <1>10, <1>11, <1>12, <1>13, <1>14, <1>15, <1>16, <1>17
           DEF Takes, Begins

LEMMA NeverStumbles ==
  ASSUME OnboardingTypeOK, AllPlaced, AloneHolds, CollisionsNeedCrossing,
         [OnboardingNext]_onboarding
  PROVE  CollisionsNeedCrossing'
<1>1. CASE stumbled' = stumbled
  BY <1>1 DEF CollisionsNeedCrossing
<1>2. CASE UNCHANGED onboarding
  BY <1>1, <1>2 DEF onboarding, history
<1> SUFFICES ASSUME NEW c \in Requests, Takes(c)
             PROVE  CollisionsNeedCrossing'
  BY <1>2, Takers
<1>3. ASSUME stage[c] \in SigningStages, ~job[c].crossed
      PROVE  Sees(c)
  BY <1>3, AloneParts DEF Alone, AllPlaced, Placed
<1>4. ASSUME job[c].crossed, stumbled' = (stumbled \/ ~job[c].crossed)
      PROVE  CollisionsNeedCrossing'
  BY <1>4, Zenon DEF CollisionsNeedCrossing
<1>5. CASE SyncEmail(c)
  <2>1. CASE /\ accounts[job[c].account].version # job[c].version /\ stage[c] = "address"
             /\ stumbled' = (stumbled \/ ~job[c].crossed)
    <3>1. job[c].crossed
      BY <1>3, <2>1 DEF Sees, SigningStages
    <3> QED BY <1>4, <2>1, <3>1
  <2> QED BY <1>1, <1>5, <2>1, EmailDoes DEF Moved
<1>6. ASSUME NEW from \in {"linking", "linking new"}, NEW to \in {"clearing", "granting"},
             LinkFederatedIdentity(c, from, to)
      PROVE  CollisionsNeedCrossing'
  <2>1. CASE /\ job[c].subject \in DOMAIN link /\ stage[c] = from
             /\ stumbled' = (stumbled \/ ~job[c].crossed)
    <3>1. job[c].crossed
      BY <1>3, <2>1 DEF Sees, SigningStages, Unlinked
    <3> QED BY <1>4, <2>1, <3>1
  <2> QED BY <1>1, <1>6, <2>1, LinkDoes DEF Moved, Stages
<1>7. ASSUME NEW g \in Groups, RemoveMember(c, g)
      PROVE  CollisionsNeedCrossing'
  <2>1. stage[c] = "grouping" /\ g \in job[c].left /\ job[c].left \cap job[c].groups = {}
    BY <1>7, RemoveDoes
  <2>2. CASE /\ g \notin accounts[job[c].account].groups
             /\ stumbled' = (stumbled \/ ~job[c].crossed)
    <3>1. job[c].crossed
      <4>1. ASSUME ~job[c].crossed
            PROVE  FALSE
        BY <1>3, <2>1, <2>2, <4>1 DEF Sees, SigningStages
      <4> QED BY <4>1
    <3> QED BY <1>4, <2>2, <3>1
  <2> QED BY <1>1, <1>7, <2>2, RemoveDoes
<1>8. CASE Initialize(c) \/ CountUsers(c)
  BY <1>1, <1>8, InitializeDoes, CountDoes DEF history
<1>9. CASE \E o \in Orgs : CreateOrganization(c, o) \/ \E e \in Emails : CreateUserCommand(c, o, e)
  BY <1>1, <1>9, OrganizationDoes, CommandDoes DEF history
<1>10. CASE CreateUser(c) \/ MakeAdmin(c) \/ GrantDefaultRole(c)
  BY <1>1, <1>10, CreateDoes, AdminDoes, GrantDoes DEF history
<1>11. CASE FindFederatedIdentity(c) \/ LoadUser(c) \/ MatchEmail(c) \/ Provision(c)
  BY <1>1, <1>11, FindDoes, LoadDoes, MatchDoes, ProvisionDoes DEF history
<1>12. CASE LinkExisting(c) \/ LinkNew(c)
  BY <1>6, <1>12 DEF LinkExisting, LinkNew
<1>13. CASE ClearAttributes(c) \/ ListGroups(c) \/ SignedOn(c) \/ Abort(c)
  BY <1>1, <1>13, ClearDoes, ListDoes, SignedDoes, AbortDoes DEF history
<1>14. CASE \E s \in Subjects : SignOn(c, s)
  BY <1>1, <1>14, SignOnDoes
<1>15. CASE \E k \in Attributes : SetAttribute(c, k)
  BY <1>1, <1>15, SetDoes DEF history
<1>16. CASE \E g \in Groups : AddMember(c, g)
  BY <1>1, <1>16, AddDoes DEF history
<1> QED BY <1>5, <1>7, <1>8, <1>9, <1>10, <1>11, <1>12, <1>13, <1>14, <1>15, <1>16 DEF Takes
-----------------------------------------------------------------------------
(* Together.                                                                *)
LEMMA OnboardingStarts ==
  ASSUME OnboardingInit
  PROVE  OnboardingIInv
<1>1. /\ orgs = {} /\ Made = {} /\ DOMAIN link = {} /\ claims = {} /\ headless = {}
      /\ stranded = {} /\ stumbled = FALSE /\ settled = NotSettled
      /\ stage = [c \in Requests |-> "idle"] /\ job = [c \in Requests |-> NoJob]
  BY DEF OnboardingInit, Made
<1>2. /\ NotSettled.account = NoAccount /\ NotSettled.groups = {} /\ NotSettled.attributes = {}
      /\ NoJob.kind = "none"
  BY DEF NotSettled, NoJob
<1>3. \A c \in Requests : stage[c] = "idle" /\ job[c].kind = "none"
  BY <1>1, <1>2
<1>4. OnboardingTypeOK
  BY <1>1, <1>2, Empty DEF OnboardingTypeOK, Stages
<1>5. AllPlaced /\ OneClaimant /\ ClaimedOnce
  BY <1>1, <1>3 DEF AllPlaced, Placed, MakingFirst, SigningStages, AtAccount, OneClaimant,
                    ClaimedOnce
<1>6. Governed
  BY <1>1, <1>3 DEF Governed
<1>7. SignsOnAsItself /\ NobodyIsStranded
  BY <1>1, <1>3 DEF SignsOnAsItself, Syncing, NobodyIsStranded
<1>8. AloneHolds /\ SettledAlone
  BY <1>1, <1>2, <1>3 DEF AloneHolds, Alone, SettledAlone
<1>9. SignOnsHeal
  BY <1>1, <1>2 DEF SignOnsHeal, LoneSignOnSettles, CollisionsNeedCrossing
<1> QED BY <1>4, <1>5, <1>6, <1>7, <1>8, <1>9 DEF OnboardingIInv

LEMMA OnboardingKeeps ==
  ASSUME OnboardingIInv, [OnboardingNext]_onboarding
  PROVE  OnboardingIInv'
<1>1. /\ OnboardingTypeOK /\ AllPlaced /\ OneClaimant /\ ClaimedOnce /\ Governed
      /\ SignsOnAsItself /\ NobodyIsStranded /\ AloneHolds /\ SettledAlone /\ SignOnsHeal
  BY DEF OnboardingIInv
<1>2. OnboardingTypeOK' /\ AllPlaced'
  BY <1>1, OnboardingTyped, PlacedHolds
<1>3. OneClaimant' /\ ClaimedOnce' /\ Governed'
  BY <1>1, ClaimsHold, GovernedHolds
<1>4. SignsOnAsItself' /\ NobodyIsStranded'
  BY <1>1, AsItselfHolds, StrandedHolds
<1>5. AloneHolds' /\ SettledAlone' /\ LoneSignOnSettles'
  BY <1>1, AloneHolding, SettledHolds
<1>6. CollisionsNeedCrossing'
  BY <1>1, NeverStumbles DEF SignOnsHeal
<1> QED BY <1>2, <1>3, <1>4, <1>5, <1>6 DEF OnboardingIInv, SignOnsHeal

LEMMA OnboardingInvariant == OnboardingSpec => []OnboardingIInv
<1>1. OnboardingInit => OnboardingIInv
  BY OnboardingStarts
<1>2. OnboardingIInv /\ [OnboardingNext]_onboarding => OnboardingIInv'
  BY OnboardingKeeps
<1> QED BY <1>1, <1>2, PTL DEF OnboardingSpec

(* The tables, the calls and what is remembered of them keep their types.   *)
THEOREM OnboardingTypeCorrect == OnboardingSpec => []OnboardingTypeOK
<1>1. OnboardingIInv => OnboardingTypeOK
  BY DEF OnboardingIInv
<1> QED BY <1>1, OnboardingInvariant, PTL

(* Of the setup forms that are posted to a server at once, however many and *)
(* wherever they fail, one makes an organization, for every number of forms *)
(* and servers (the mutex of setup.Initialize).                             *)
THEOREM AServerClaimsOnce == OnboardingSpec => []ClaimedOnce
<1>1. OnboardingIInv => ClaimedOnce
  BY DEF OnboardingIInv
<1> QED BY <1>1, OnboardingInvariant, PTL

(* A sign-on writes to the account its subject is linked to, whatever other *)
(* sign-ons of the subject do between its statements (oidc.Provision).      *)
THEOREM ASignOnIsItself == OnboardingSpec => []SignsOnAsItself
<1>1. OnboardingIInv => SignsOnAsItself
  BY DEF OnboardingIInv
<1> QED BY <1>1, OnboardingInvariant, PTL

(* Every organization has its administrator or is known to have been left   *)
(* without one, and every account that single sign-on made has its subject  *)
(* and its role or is known to be stranded (the first-user rule, and        *)
(* oidc.Provision).                                                         *)
THEOREM NobodyLeftBehind == OnboardingSpec => []NobodyIsForgotten
<1>1. OnboardingIInv => SomebodyAdministers
  <2> SUFFICES ASSUME OnboardingIInv, NEW o \in orgs
               PROVE  \/ \E a \in Members(o) : accounts[a].role = "admin"
                      \/ o \in headless
                      \/ \E c \in Requests : stage[c] \in MakingFirst /\ job[c].org = o
    BY DEF SomebodyAdministers
  <2> QED BY GovernedParts DEF OnboardingIInv, Led, HasAdmin, IsAt, MakingFirst
<1>2. OnboardingIInv => NobodyIsForgotten
  BY <1>1 DEF OnboardingIInv, NobodyIsForgotten
<1> QED BY <1>2, OnboardingInvariant, PTL

(* A sign-on that runs alone leaves the groups and attributes that the      *)
(* provider claims and never fails by what earlier ones left behind         *)
(* (syncEmail, syncAttributes, syncGroups of oidc.Provision).               *)
THEOREM ALoneSignOnHeals == OnboardingSpec => []SignOnsHeal
<1>1. OnboardingIInv => SignOnsHeal
  BY DEF OnboardingIInv
<1> QED BY <1>1, OnboardingInvariant, PTL
==============================================================================
