------------------------------ MODULE Sessions -------------------------------
(***************************************************************************)
(* The sessions of one account and the password they were begun with:      *)
(* Login from the user's row on, StartSession, Authenticate, Logout,       *)
(* SetPassword, ChangePassword and Sweep of internal/auth/service.go, the  *)
(* handlers of internal/api that call them, pivot admin reset-password,    *)
(* and the statements of internal/store/repo/sessions.go.                  *)
(*                                                                         *)
(* Every call is a sequence of statements, each atomic, and calls          *)
(* interleave between them.  A password is the number of the write that    *)
(* stored it.  The account is active: nothing the program runs makes a     *)
(* user inactive.                                                          *)
(***************************************************************************)
EXTENDS Integers, FiniteSets

CONSTANTS
  Calls,                     \* requests and commands in flight
  SessionIds, NoSession,     \* each id is used once
  IdleTimeout, AbsoluteTimeout, TouchInterval,
  Slowest,                   \* ticks from a clock reading to the write that uses it
  MaxNow, MaxPasswords       \* bounds on the clock and on password writes

ASSUME SessionsAssumption ==
  /\ NoSession \notin SessionIds
  /\ IdleTimeout \in Nat \ {0} /\ AbsoluteTimeout \in Nat \ {0}
  /\ TouchInterval \in Nat /\ Slowest \in Nat
  /\ MaxNow \in Nat /\ MaxPasswords \in Nat

VARIABLES
  now,
  password,
  sessions,        \* [SessionIds -> Session]
  pc, job,         \* of the calls
  unrevoked        \* the password in force was stored and its revocation failed

calls == <<pc, job>>
vars == <<now, password, sessions, calls, unrevoked>>

\* with is the latest password that the holder has proved to know, used the
\* start of the latest request that counts as activity.  A revoked row and a
\* deleted one are both "ended": no statement tells them apart.
Session == [status : {"unused", "live", "ended"}, with : Nat, straddled : BOOLEAN,
            expires : Nat, absolute : Nat, seen : Nat, used : Nat]
Unused == [status |-> "unused", with |-> 0, straddled |-> FALSE,
           expires |-> 0, absolute |-> 0, seen |-> 0, used |-> 0]
Gone == [Unused EXCEPT !.status = "ended"]

\* with: the password verified, or stored, by the call.
Job == [at : Nat, with : Nat, session : SessionIds \cup {NoSession}]
NoJob == [at |-> 0, with |-> 0, session |-> NoSession]

Steps == {"idle", "verified", "starting", "touching", "in", "changing", "revoking"}

Init ==
  /\ now = 0
  /\ password = 0
  /\ sessions = [s \in SessionIds |-> Unused]
  /\ pc = [c \in Calls |-> "idle"]
  /\ job = [c \in Calls |-> NoJob]
  /\ unrevoked = FALSE

Live(s) == sessions[s].status = "live"
Goto(c, from, to) == pc[c] = from /\ pc' = [pc EXCEPT ![c] = to]
Done(c, from) == Goto(c, from, "idle") /\ job' = [job EXCEPT ![c] = NoJob]

-----------------------------------------------------------------------------
(* Beginning.                                                               *)

\* Login reads the user and finds the password right.
Verify(c) ==
  /\ Goto(c, "idle", "verified")
  /\ job' = [job EXCEPT ![c] = [NoJob EXCEPT !.with = password]]
  /\ UNCHANGED <<now, password, sessions, unrevoked>>

\* StartSession reads the clock; single sign-on comes here with no password,
\* for the user as it is now.
StartSession(c) ==
  /\ \/ Goto(c, "verified", "starting") /\ job' = [job EXCEPT ![c].at = now]
     \/ /\ Goto(c, "idle", "starting")
        /\ job' = [job EXCEPT ![c] = [at |-> now, with |-> password, session |-> NoSession]]
  /\ UNCHANGED <<now, password, sessions, unrevoked>>

\* The database stamps last_seen_at; the expiries come from the clock reading.
CreateSession(c) ==
  /\ Done(c, "starting")
  /\ \E s \in SessionIds :
       /\ sessions[s].status = "unused"
       /\ sessions' = [sessions EXCEPT ![s] =
            [status |-> "live", with |-> job[c].with,
             straddled |-> job[c].with # password,
             expires |-> job[c].at + IdleTimeout,
             absolute |-> job[c].at + AbsoluteTimeout,
             seen |-> now, used |-> job[c].at]]
  /\ UNCHANGED <<now, password, unrevoked>>

-----------------------------------------------------------------------------
(* Being used.                                                              *)

Usable(s) ==
  /\ Live(s)
  /\ sessions[s].expires > now
  /\ sessions[s].absolute > now

Used(s, at) == IF at > sessions[s].used THEN at ELSE sessions[s].used

Touched(s, at) ==
  [sessions[s] EXCEPT !.seen = at, !.expires = at + IdleTimeout, !.used = Used(s, at)]

\* Mutant: the idle timeout is taken for the interval.
TouchIsDue_Idle(s) == now - sessions[s].seen > IdleTimeout
TouchIsDue(s) == now - sessions[s].seen > TouchInterval

\* Authenticate as far as the touch.  A refusal writes nothing.
Resolve(c, s) ==
  /\ Usable(s)
  /\ IF TouchIsDue(s)
     THEN /\ Goto(c, "idle", "touching") /\ UNCHANGED sessions
          /\ job' = [job EXCEPT ![c] = [at |-> now, with |-> 0, session |-> s]]
     ELSE /\ Goto(c, "idle", "in")
          /\ job' = [job EXCEPT ![c] = [NoJob EXCEPT !.session = s]]
          /\ sessions' = [sessions EXCEPT ![s].used = Used(s, now)]
  /\ UNCHANGED <<now, password, unrevoked>>

\* A session revoked since is refused; a statement that fails lets the request
\* in, but its activity is lost.
Touch(c) ==
  LET s == job[c].session IN
  /\ pc[c] = "touching"
  /\ IF Live(s)
     THEN /\ Goto(c, "touching", "in")
          /\ job' = [job EXCEPT ![c].at = 0]
          /\ sessions' \in {sessions, [sessions EXCEPT ![s] = Touched(s, job[c].at)]}
     ELSE Done(c, "touching") /\ UNCHANGED sessions
  /\ UNCHANGED <<now, password, unrevoked>>

\* The handler does something else with the request, or refuses it.
Serve(c) == Done(c, "in") /\ UNCHANGED <<now, password, sessions, unrevoked>>

-----------------------------------------------------------------------------
(* Ending.                                                                  *)

Ended(S) == [s \in SessionIds |-> IF s \in S /\ Live(s) THEN Gone ELSE sessions[s]]

\* Logout ends its own session, the two revoke endpoints the one they name.
Revoke(c, s) ==
  /\ Done(c, "in")
  /\ sessions' = Ended({s})
  /\ UNCHANGED <<now, password, unrevoked>>

\* Sweep, when any server starts.
Sweep ==
  /\ sessions' = Ended({s \in SessionIds : sessions[s].absolute < now})
  /\ UNCHANGED <<now, password, calls, unrevoked>>

\* ChangePassword verifies the current password.  reset-password verifies
\* nothing and has no session.  Neither looks at the stored hash again.
BeginChange(c) ==
  /\ Goto(c, "in", "changing") \/ Goto(c, "idle", "changing")
  /\ UNCHANGED <<now, password, sessions, job, unrevoked>>

\* Mutant: the sessions are revoked first, and the password stored last.
SetPassword_Last(c) ==
  /\ password < MaxPasswords
  /\ Done(c, "changing")
  /\ sessions' = Ended(SessionIds \ {job[c].session})
  /\ password' = password + 1
  /\ UNCHANGED <<now, unrevoked>>
SetPassword(c) ==
  /\ password < MaxPasswords
  /\ Goto(c, "changing", "revoking")
  /\ password' = password + 1
  /\ job' = [job EXCEPT ![c].with = password + 1]
  /\ unrevoked' = FALSE
  /\ UNCHANGED <<now, sessions>>

\* RevokeAllForUserExcept, which keeps the session the change was made in, or
\* RevokeAllForUser.
RevokeOthers(c) ==
  LET own == job[c].session
      chosen == job[c].with
      rest == Ended(SessionIds \ {own})
  IN  /\ Done(c, "revoking")
      /\ sessions' = [s \in SessionIds |->
           IF s = own /\ rest[s].with < chosen THEN [rest[s] EXCEPT !.with = chosen]
                                               ELSE rest[s]]
      /\ UNCHANGED <<now, password, unrevoked>>

-----------------------------------------------------------------------------
\* A statement fails, or the process dies.
GiveUp(c) ==
  /\ pc[c] \notin {"idle", "in"}
  /\ Done(c, pc[c])
  /\ unrevoked' = (unrevoked \/ (pc[c] = "revoking" /\ job[c].with = password))
  /\ UNCHANGED <<now, password, sessions>>

Tick ==
  /\ now < MaxNow
  /\ \A c \in Calls : pc[c] \in {"touching", "starting"} => now < job[c].at + Slowest
  /\ now' = now + 1
  /\ UNCHANGED <<password, sessions, calls, unrevoked>>

Next ==
  \/ \E c \in Calls :
       \/ Verify(c) \/ StartSession(c) \/ CreateSession(c)
       \/ Touch(c) \/ Serve(c) \/ BeginChange(c) \/ SetPassword(c) \/ RevokeOthers(c)
       \/ GiveUp(c)
       \/ \E s \in SessionIds : Resolve(c, s) \/ Revoke(c, s)
  \/ Sweep
  \/ Tick

Spec == Init /\ [][Next]_vars

-----------------------------------------------------------------------------
(* Properties.                                                              *)

TypeOK ==
  /\ now \in Nat /\ password \in Nat
  /\ sessions \in [SessionIds -> Session]
  /\ pc \in [Calls -> Steps]
  /\ job \in [Calls -> Job]
  /\ unrevoked \in BOOLEAN

\* A session whose holder has not proved the password in force lives on only
\* while the change that stored it is under way or after its revocation
\* failed, or when its login read the old hash before the change and created
\* the session after it.  The change's own session is no exception: its holder
\* chose the new password.
OnlyStraddlersSurvive ==
  \A s \in SessionIds : Live(s) /\ sessions[s].with # password =>
    \/ sessions[s].straddled
    \/ unrevoked
    \/ \E c \in Calls : pc[c] = "revoking" /\ job[c].with = password

\* The idle window follows the activity: it never reaches further than one
\* timeout past the latest use, and however requests overtake each other it
\* falls short of that by at most the touch interval and one slow write.  No
\* use comes as late as the cap that the login set.
WindowFollowsUse ==
  \A s \in SessionIds : Live(s) =>
    /\ sessions[s].expires <= sessions[s].used + IdleTimeout
    /\ sessions[s].used + IdleTimeout <= sessions[s].expires + TouchInterval + Slowest
    /\ sessions[s].used < sessions[s].absolute
==============================================================================
