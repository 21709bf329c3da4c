---------------------------- MODULE LoginBrakes ------------------------------
(***************************************************************************)
(* What slows the guessing of one account's password: the rate limit on    *)
(* the login endpoint, and the failure counter with the lock it brings.    *)
(* handleLogin of internal/api/auth.go behind WithRateLimit, Login up to   *)
(* StartSession and recordFailure of internal/auth/service.go, Sweep,      *)
(* pivot admin reset-password, and the statements of                       *)
(* internal/store/repo/login_attempts.go.                                  *)
(*                                                                         *)
(* Every call is a sequence of statements, each atomic, and calls          *)
(* interleave between them.  Whether a password is right is a choice; an   *)
(* unknown address differs only in always failing.                         *)
(***************************************************************************)
EXTENDS RateLimiter, FiniteSets

CONSTANTS
  Calls,                     \* logins and resets in flight
  MaxFailedAttempts, LockoutDuration, MaxLockoutDuration,
  Retain,                    \* how long Sweep leaves a failure record
  MaxFailures                \* bound on the count

ASSUME LoginBrakesAssumption ==
  /\ MaxFailedAttempts \in Nat \ {0}
  /\ LockoutDuration \in Nat \ {0} /\ MaxLockoutDuration \in Nat
  /\ LockoutDuration <= MaxLockoutDuration
  /\ Retain \in Nat /\ MaxFailures \in Nat

VARIABLES
  attempts,        \* the login_attempts row; a count of 0 is no row
  pc, at,          \* of the calls; at is the clock read at the start
  until,           \* the end of the lock that a call is about to write
  straddlers,      \* calls past the check when the lock was last set
  unlocked         \* a call counted its failure and never came to the lock

calls == <<pc, at, until>>
vars == <<now, limiter, attempts, calls, straddlers, unlocked>>

\* A lock until 0 is no lock.
Attempts == [count : Nat, locked : Nat, failed : Nat]
NoAttempts == [count |-> 0, locked |-> 0, failed |-> 0]

Steps == {"idle", "let in", "checked", "failed", "locking", "verified", "resetting"}

Init ==
  /\ LimiterInit
  /\ attempts = NoAttempts
  /\ pc = [c \in Calls |-> "idle"]
  /\ at = [c \in Calls |-> 0]
  /\ until = [c \in Calls |-> 0]
  /\ straddlers = {}
  /\ unlocked = FALSE

Goto(c, from, to) == pc[c] = from /\ pc' = [pc EXCEPT ![c] = to]

\* A call that is over keeps nothing.
Done(c, from) ==
  /\ Goto(c, from, "idle")
  /\ at' = [at EXCEPT ![c] = 0]
  /\ until' = [until EXCEPT ![c] = 0]

Locked == attempts.locked > now
PastCheck == {c \in Calls : pc[c] \in {"checked", "failed", "locking", "verified"}}

\* WithRateLimit.
Arrive(c, k) ==
  /\ \/ Allow(k) /\ Goto(c, "idle", "let in")
     \/ Refuse(k) /\ pc[c] = "idle" /\ UNCHANGED pc
  /\ UNCHANGED <<now, attempts, at, until, straddlers, unlocked>>

\* Mutant: the lock is looked at only after the password.
CheckLock_Never(c) ==
  /\ Goto(c, "let in", "checked")
  /\ at' = [at EXCEPT ![c] = now]
  /\ UNCHANGED <<now, limiter, attempts, until, straddlers, unlocked>>
\* LockedUntil with the clock read at the start: a locked account is refused
\* before the password is looked at, and nothing is written.
CheckLock(c) ==
  /\ IF Locked THEN Done(c, "let in")
     ELSE /\ Goto(c, "let in", "checked")
          /\ at' = [at EXCEPT ![c] = now]
          /\ UNCHANGED until
  /\ UNCHANGED <<now, limiter, attempts, straddlers, unlocked>>

\* GetByEmail and VerifyPassword.
Verify(c) ==
  /\ Goto(c, "checked", "verified") \/ Goto(c, "checked", "failed")
  /\ UNCHANGED <<now, limiter, attempts, at, until, straddlers, unlocked>>

\* Mutant: the window doubles without end.
Lockout_NoCap(count) == LockoutDuration * 2 ^ (count - MaxFailedAttempts)
\* The loop doubles the window for each failure past the threshold and stops
\* at the cap.  It never makes the window shorter.
Lockout(count) ==
  LET doubled == LockoutDuration * 2 ^ (count - MaxFailedAttempts)
  IN  IF doubled \in LockoutDuration .. MaxLockoutDuration
      THEN doubled ELSE MaxLockoutDuration

\* Mutant: only the very failure that reaches the threshold locks.
RecordFailedLogin_Once(c) ==
  LET count == attempts.count + 1 IN
  /\ count <= MaxFailures
  /\ attempts' = [count |-> count, locked |-> 0, failed |-> at[c]]
  /\ IF count = MaxFailedAttempts
     THEN /\ Goto(c, "failed", "locking")
          /\ until' = [until EXCEPT ![c] = at[c] + Lockout(count)]
          /\ UNCHANGED at
     ELSE Done(c, "failed")
  /\ UNCHANGED <<now, limiter, straddlers, unlocked>>
\* The upsert of recordFailure counts, and takes a lock that is there away.
RecordFailedLogin(c) ==
  LET count == attempts.count + 1 IN
  /\ count <= MaxFailures
  /\ attempts' = [count |-> count, locked |-> 0, failed |-> at[c]]
  /\ IF count >= MaxFailedAttempts
     THEN /\ Goto(c, "failed", "locking")
          /\ until' = [until EXCEPT ![c] = at[c] + Lockout(count)]
          /\ UNCHANGED at
     ELSE Done(c, "failed")
  /\ UNCHANGED <<now, limiter, straddlers, unlocked>>

\* Updates the row that is there; a row cleared meanwhile is not made again.
LockLogin(c) ==
  /\ Done(c, "locking")
  /\ IF attempts.count > 0
     THEN /\ attempts' = [attempts EXCEPT !.locked = until[c]]
          /\ straddlers' = PastCheck \ {c}
          /\ unlocked' = FALSE
     ELSE UNCHANGED <<attempts, straddlers, unlocked>>
  /\ UNCHANGED <<now, limiter>>

\* ClearLoginAttempts, whose failure is only logged; the session follows.
ClearLoginAttempts(c) ==
  /\ Done(c, "verified")
  /\ attempts' \in {NoAttempts, attempts}
  /\ UNCHANGED <<now, limiter, straddlers, unlocked>>

\* reset-password, from its first statement on: SetPassword, then the lock is
\* lifted.  A failure of that is a warning.
Reset(c) ==
  /\ Goto(c, "idle", "resetting")
  /\ UNCHANGED <<now, limiter, attempts, at, until, straddlers, unlocked>>
Unlock(c) ==
  /\ Done(c, "resetting")
  /\ attempts' \in {NoAttempts, attempts}
  /\ UNCHANGED <<now, limiter, straddlers, unlocked>>

\* A statement fails, or the process dies.
GiveUp(c) ==
  /\ pc[c] # "idle"
  /\ Done(c, pc[c])
  /\ unlocked' = (unlocked \/ pc[c] = "locking")
  /\ UNCHANGED <<now, limiter, attempts, straddlers>>

\* Sweep, when any server starts.
Sweep ==
  /\ attempts.failed < now - Retain
  /\ attempts.locked < now
  /\ attempts' = NoAttempts
  /\ UNCHANGED <<now, limiter, calls, straddlers, unlocked>>

Tick ==
  /\ now < MaxNow
  /\ now' = now + 1
  /\ UNCHANGED <<limiter, attempts, calls, straddlers, unlocked>>

Next ==
  \/ \E c \in Calls :
       \/ \E k \in Keys : Arrive(c, k)
       \/ CheckLock(c) \/ Verify(c) \/ RecordFailedLogin(c) \/ LockLogin(c)
       \/ ClearLoginAttempts(c) \/ Reset(c) \/ Unlock(c) \/ GiveUp(c)
  \/ Sweep
  \/ Tick

Spec == Init /\ [][Next]_vars

-----------------------------------------------------------------------------
(* Properties.                                                              *)

TypeOK ==
  /\ LimiterTypeOK
  /\ attempts \in Attempts
  /\ pc \in [Calls -> Steps]
  /\ at \in [Calls -> Nat] /\ until \in [Calls -> Nat]
  /\ straddlers \subseteq Calls
  /\ unlocked \in BOOLEAN

\* The failure is counted in one statement, which takes the lock away, and the
\* lock set in another.  Once the count has reached the threshold the account
\* is without a lock only while a call stands between the two, or because one
\* failed there.
ThresholdLocks ==
  attempts.count >= MaxFailedAttempts =>
    attempts.locked # 0 \/ unlocked \/ \E c \in Calls : pc[c] = "locking"

\* A lock in force is cut short by a call that was past the check before the
\* lock was set, or by the administrator's reset; by no login that began under
\* the lock, and by no sweep.
LocksYieldOnlyToStraddlers ==
  [][Locked /\ attempts'.locked < attempts.locked =>
       \E c \in Calls : pc'[c] # pc[c] /\ (c \in straddlers \/ pc[c] = "resetting")]_vars

\* Nobody is locked out for longer than the cap, however many failures there
\* were and in whatever order the locks are written.
LockIsCapped == attempts.locked <= now + MaxLockoutDuration

\* The counting and the locking of concurrent failures, taken together.
LocksHold == ThresholdLocks /\ LockIsCapped
==============================================================================
