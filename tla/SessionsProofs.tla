--------------------------- MODULE SessionsProofs ----------------------------
(***************************************************************************)
(* What holds of Sessions for any number of calls and sessions, any        *)
(* timeouts and any bounds: a session outlives the password it was begun   *)
(* with only as OnlyStraddlersSurvive says, and its idle window follows    *)
(* its use.                                                                *)
(*                                                                         *)
(* Nobody has proved a password newer than the one in force (Proved), a    *)
(* clock reading is written before Slowest has passed (Readings), and what *)
(* a touch will write belongs to the session it was read for (Touches).    *)
(***************************************************************************)
EXTENDS Sessions, TLAPS

Proved ==
  /\ \A s \in SessionIds : sessions[s].with <= password
  /\ \A c \in Calls : job[c].with <= password

Readings ==
  \A c \in Calls : pc[c] \in {"touching", "starting"} =>
    job[c].at <= now /\ now <= job[c].at + Slowest

Marks ==
  \A s \in SessionIds : Live(s) =>
    /\ sessions[s].used <= now
    /\ sessions[s].seen + IdleTimeout <= sessions[s].expires + Slowest

Touches ==
  \A c \in Calls : pc[c] = "touching" =>
    /\ job[c].session \in SessionIds
    /\ sessions[job[c].session].status # "unused"
    /\ Live(job[c].session) => job[c].at < sessions[job[c].session].absolute

IInv ==
  /\ TypeOK /\ Proved /\ Readings /\ Marks /\ Touches
  /\ OnlyStraddlersSurvive /\ WindowFollowsUse
-----------------------------------------------------------------------------
(* What the helpers return.                                                 *)

LEMMA GoneIsASession ==
  /\ Gone \in Session /\ Unused \in Session
  /\ Gone.status = "ended" /\ Gone.with = 0 /\ Unused.status = "unused" /\ Unused.with = 0
BY DEF Gone, Unused, Session

LEMMA NoJobIsAJob ==
  /\ NoJob \in Job /\ NoJob.at = 0 /\ NoJob.with = 0 /\ NoJob.session = NoSession
BY DEF NoJob, Job

(* Ending leaves a row alone or empties it, and empties those it names.     *)
LEMMA EndedEnds ==
  ASSUME TypeOK, NEW S
  PROVE  /\ Ended(S) \in [SessionIds -> Session]
         /\ \A s \in SessionIds :
              /\ Ended(S)[s] \in {sessions[s], Gone}
              /\ sessions[s].status = "unused" => Ended(S)[s] = sessions[s]
              /\ s \in S => Ended(S)[s].status # "live"
              /\ s \notin S => Ended(S)[s] = sessions[s]
<1>1. \A s \in SessionIds : sessions[s] \in Session
  BY DEF TypeOK
<1> QED BY <1>1, GoneIsASession DEF Ended, Live

(* A call that is over, or goes elsewhere with nothing, keeps the job's     *)
(* type.                                                                    *)
LEMMA CallsMove ==
  ASSUME TypeOK, NEW c \in Calls, NEW p \in Steps, NEW j \in Job,
         pc' = [pc EXCEPT ![c] = p], job' = [job EXCEPT ![c] = j]
  PROVE  /\ pc' \in [Calls -> Steps] /\ job' \in [Calls -> Job]
         /\ pc'[c] = p /\ job'[c] = j
         /\ \A d \in Calls \ {c} : pc'[d] = pc[d] /\ job'[d] = job[d]
BY DEF TypeOK

-----------------------------------------------------------------------------
(* The steps.                                                               *)

(* A call stops, or goes to a place where it holds no clock reading, while  *)
(* no row changes but to be ended.  It was not revoking for the password in *)
(* force, unless the failure of that is recorded.                           *)
LEMMA LeavingPreserves ==
  ASSUME IInv, NEW c \in Calls, NEW p \in {"idle", "in", "verified", "changing"}, NEW j \in Job,
         pc' = [pc EXCEPT ![c] = p], job' = [job EXCEPT ![c] = j],
         j.with <= password,
         sessions' \in [SessionIds -> Session],
         \A s \in SessionIds :
           sessions'[s] \in {sessions[s], Gone}
           /\ (sessions[s].status = "unused" => sessions'[s] = sessions[s]),
         unrevoked' \in BOOLEAN, unrevoked => unrevoked',
         pc[c] = "revoking" /\ job[c].with = password => unrevoked',
         UNCHANGED <<now, password>>
  PROVE  IInv'
<1>1. /\ pc' \in [Calls -> Steps] /\ job' \in [Calls -> Job]
      /\ pc'[c] = p /\ job'[c] = j
      /\ \A d \in Calls \ {c} : pc'[d] = pc[d] /\ job'[d] = job[d]
  BY CallsMove DEF IInv, Steps
<1>2. \A s \in SessionIds : sessions'[s].status = "live" => Live(s) /\ sessions'[s] = sessions[s]
  BY GoneIsASession DEF Live
<1>3. TypeOK'
  BY <1>1 DEF IInv, TypeOK
<1>4. Proved'
  <2>1. \A s \in SessionIds : sessions'[s].with <= password
    BY GoneIsASession DEF IInv, Proved, TypeOK
  <2> QED BY <2>1, <1>1 DEF IInv, Proved
<1>5. Readings'
  BY <1>1 DEF IInv, Readings
<1>6. Marks' /\ WindowFollowsUse'
  BY <1>2 DEF IInv, Marks, WindowFollowsUse, Live
<1>7. Touches'
  <2> SUFFICES ASSUME NEW d \in Calls, pc'[d] = "touching"
               PROVE  /\ job'[d].session \in SessionIds
                      /\ sessions'[job'[d].session].status # "unused"
                      /\ sessions'[job'[d].session].status = "live" =>
                           job'[d].at < sessions'[job'[d].session].absolute
    BY DEF Touches, Live
  <2>1. pc[d] = "touching" /\ job'[d] = job[d]
    BY <1>1
  <2>2. job[d].session \in SessionIds /\ sessions[job[d].session].status # "unused"
    BY <2>1 DEF IInv, Touches
  <2>3. sessions'[job[d].session].status # "unused"
    BY <2>2, GoneIsASession
  <2>4. Live(job[d].session) => job[d].at < sessions[job[d].session].absolute
    BY <2>1 DEF IInv, Touches
  <2> QED BY <2>1, <2>2, <2>3, <2>4, <1>2
<1>8. OnlyStraddlersSurvive'
  <2> SUFFICES ASSUME NEW s \in SessionIds, Live(s)', sessions'[s].with # password
               PROVE  \/ sessions'[s].straddled
                      \/ unrevoked'
                      \/ \E d \in Calls : pc'[d] = "revoking" /\ job'[d].with = password
    BY DEF OnlyStraddlersSurvive
  <2>1. Live(s) /\ sessions'[s] = sessions[s]
    BY <1>2 DEF Live
  <2>2. CASE sessions[s].straddled
    BY <2>1, <2>2
  <2>4. CASE unrevoked
    BY <2>4
  <2>3. ASSUME NEW d \in Calls, pc[d] = "revoking", job[d].with = password
        PROVE  unrevoked' \/ (pc'[d] = "revoking" /\ job'[d].with = password)
    BY <2>3, <1>1
  <2>5. \/ sessions[s].straddled
        \/ unrevoked
        \/ \E d \in Calls : pc[d] = "revoking" /\ job[d].with = password
    BY <2>1 DEF IInv, OnlyStraddlersSurvive
  <2> QED BY <2>2, <2>3, <2>4, <2>5
<1> QED BY <1>3, <1>4, <1>5, <1>6, <1>7, <1>8 DEF IInv

(* A call reads the clock, to begin a session or to touch one that is live. *)
LEMMA ReadingPreserves ==
  ASSUME IInv, NEW c \in Calls, NEW p \in {"starting", "touching"}, NEW j \in Job,
         pc' = [pc EXCEPT ![c] = p], job' = [job EXCEPT ![c] = j],
         pc[c] # "revoking",
         j.at = now, j.with <= password,
         p = "touching" => /\ j.session \in SessionIds /\ Live(j.session)
                           /\ now < sessions[j.session].absolute,
         UNCHANGED <<now, password, sessions, unrevoked>>
  PROVE  IInv'
<1>1. /\ pc' \in [Calls -> Steps] /\ job' \in [Calls -> Job]
      /\ pc'[c] = p /\ job'[c] = j
      /\ \A d \in Calls \ {c} : pc'[d] = pc[d] /\ job'[d] = job[d]
  BY CallsMove DEF IInv, Steps
<1>2. TypeOK' /\ Proved'
  BY <1>1 DEF IInv, TypeOK, Proved
<1>3. Readings'
  BY <1>1, SessionsAssumption DEF IInv, Readings, TypeOK
<1>4. Marks' /\ WindowFollowsUse'
  BY DEF IInv, Marks, WindowFollowsUse, Live
<1>5. Touches'
  BY <1>1 DEF IInv, Touches, Live
<1>6. OnlyStraddlersSurvive'
  BY <1>1 DEF IInv, OnlyStraddlersSurvive, Live
<1> QED BY <1>2, <1>3, <1>4, <1>5, <1>6 DEF IInv

(* A call writes one row: a new one, or one that is live and keeps its cap  *)
(* and its password.                                                        *)
LEMMA WritingPreserves ==
  ASSUME IInv, NEW c \in Calls, NEW p \in {"idle", "in"}, NEW j \in Job,
         pc' = [pc EXCEPT ![c] = p], job' = [job EXCEPT ![c] = j],
         pc[c] # "revoking", j.with <= password,
         NEW s \in SessionIds, NEW r \in Session,
         sessions' = [sessions EXCEPT ![s] = r],
         r.status = "live", r.with <= password,
         \/ sessions[s].status = "unused" /\ (r.with = password \/ r.straddled)
         \/ /\ Live(s) /\ r.absolute = sessions[s].absolute
            /\ r.with = sessions[s].with /\ r.straddled = sessions[s].straddled,
         r.used <= now, r.seen + IdleTimeout <= r.expires + Slowest,
         r.expires <= r.used + IdleTimeout,
         r.used + IdleTimeout <= r.expires + TouchInterval + Slowest,
         r.used < r.absolute,
         UNCHANGED <<now, password, unrevoked>>
  PROVE  IInv'
<1>1. /\ pc' \in [Calls -> Steps] /\ job' \in [Calls -> Job]
      /\ pc'[c] = p /\ job'[c] = j
      /\ \A d \in Calls \ {c} : pc'[d] = pc[d] /\ job'[d] = job[d]
  BY CallsMove DEF IInv, Steps
<1>2. /\ sessions' \in [SessionIds -> Session] /\ sessions'[s] = r
      /\ \A t \in SessionIds \ {s} : sessions'[t] = sessions[t]
  BY DEF IInv, TypeOK
<1>3. TypeOK'
  BY <1>1, <1>2 DEF IInv, TypeOK
<1>4. Proved'
  BY <1>1, <1>2 DEF IInv, Proved
<1>5. Readings'
  BY <1>1 DEF IInv, Readings
<1>6. Marks'
  BY <1>2 DEF IInv, Marks, Live
<1>7. WindowFollowsUse'
  BY <1>2 DEF IInv, WindowFollowsUse, Live
<1>8. Touches'
  <2> SUFFICES ASSUME NEW d \in Calls, pc'[d] = "touching"
               PROVE  /\ job'[d].session \in SessionIds
                      /\ sessions'[job'[d].session].status # "unused"
                      /\ sessions'[job'[d].session].status = "live" =>
                           job'[d].at < sessions'[job'[d].session].absolute
    BY DEF Touches, Live
  <2>1. pc[d] = "touching" /\ job'[d] = job[d]
    BY <1>1
  <2>2. /\ job[d].session \in SessionIds
        /\ sessions[job[d].session].status # "unused"
        /\ sessions[job[d].session].status = "live" =>
             job[d].at < sessions[job[d].session].absolute
    BY <2>1 DEF IInv, Touches, Live
  <2>3. CASE job[d].session = s
    BY <2>1, <2>2, <2>3, <1>2 DEF Live
  <2>4. CASE job[d].session # s
    BY <2>1, <2>2, <2>4, <1>2
  <2> QED BY <2>3, <2>4
<1>9. OnlyStraddlersSurvive'
  <2> SUFFICES ASSUME NEW t \in SessionIds, Live(t)', sessions'[t].with # password
               PROVE  \/ sessions'[t].straddled
                      \/ unrevoked
                      \/ \E d \in Calls : pc'[d] = "revoking" /\ job'[d].with = password
    BY DEF OnlyStraddlersSurvive
  <2>1. CASE t = s /\ sessions[s].status = "unused"
    BY <2>1, <1>2 DEF Live
  <2>2. CASE ~(t = s /\ sessions[s].status = "unused")
    <3>1. /\ Live(t) /\ sessions'[t].with = sessions[t].with
          /\ sessions'[t].straddled = sessions[t].straddled
      BY <2>2, <1>2 DEF Live
    <3>2. \A d \in Calls : pc[d] = "revoking" => pc'[d] = pc[d] /\ job'[d] = job[d]
      BY <1>1
    <3>3. \/ sessions[t].straddled
          \/ unrevoked
          \/ \E d \in Calls : pc[d] = "revoking" /\ job[d].with = password
      BY <3>1 DEF IInv, OnlyStraddlersSurvive
    <3> QED BY <3>1, <3>2, <3>3
  <2> QED BY <2>1, <2>2
<1> QED BY <1>3, <1>4, <1>5, <1>6, <1>7, <1>8, <1>9 DEF IInv

LEMMA VerifyPreserves ==
  ASSUME IInv, NEW c \in Calls, Verify(c)
  PROVE  IInv'
<1> DEFINE j == [NoJob EXCEPT !.with = password]
<1>1. j \in Job /\ j.with = password /\ password \in Nat
  BY NoJobIsAJob DEF Job, IInv, TypeOK
<1>2. pc[c] = "idle" /\ pc' = [pc EXCEPT ![c] = "verified"] /\ job' = [job EXCEPT ![c] = j]
  BY DEF Verify, Goto
<1>3. UNCHANGED <<now, password, sessions, unrevoked>>
  BY DEF Verify
<1>4. sessions \in [SessionIds -> Session] /\ unrevoked \in BOOLEAN
  BY DEF IInv, TypeOK
<1> HIDE DEF j
<1>5. /\ j.with <= password /\ unrevoked' \in BOOLEAN /\ (unrevoked => unrevoked')
      /\ sessions' \in [SessionIds -> Session]
  BY <1>1, <1>3, <1>4
<1> QED BY <1>1, <1>2, <1>3, <1>5, LeavingPreserves

LEMMA StartPreserves ==
  ASSUME IInv, NEW c \in Calls, StartSession(c)
  PROVE  IInv'
<1>1. PICK j \in Job :
        /\ job' = [job EXCEPT ![c] = j]
        /\ j.at = now /\ j.with <= password
  <2>1. CASE job' = [job EXCEPT ![c].at = now]
    <3> DEFINE j == [job[c] EXCEPT !.at = now]
    <3>1. job[c] \in Job /\ now \in Nat /\ job[c].with <= password
      BY DEF IInv, TypeOK, Proved
    <3>2. j \in Job /\ j.at = now /\ j.with <= password
      BY <3>1 DEF Job
    <3> QED BY <2>1, <3>2
  <2>2. CASE job' = [job EXCEPT ![c] = [at |-> now, with |-> password, session |-> NoSession]]
    <3> DEFINE j == [at |-> now, with |-> password, session |-> NoSession]
    <3>1. j \in Job /\ j.at = now /\ j.with <= password
      BY DEF NoJob, Job, IInv, TypeOK
    <3> QED BY <2>2, <3>1
  <2> QED BY <2>1, <2>2 DEF StartSession
<1>2. pc[c] \in {"idle", "verified"} /\ pc' = [pc EXCEPT ![c] = "starting"]
  BY DEF StartSession, Goto
<1>3. UNCHANGED <<now, password, sessions, unrevoked>>
  BY DEF StartSession
<1> QED BY <1>1, <1>2, <1>3, ReadingPreserves

LEMMA CreatePreserves ==
  ASSUME IInv, NEW c \in Calls, CreateSession(c)
  PROVE  IInv'
<1>1. PICK s \in SessionIds :
        /\ sessions[s].status = "unused"
        /\ sessions' = [sessions EXCEPT ![s] =
             [status |-> "live", with |-> job[c].with,
              straddled |-> job[c].with # password,
              expires |-> job[c].at + IdleTimeout,
              absolute |-> job[c].at + AbsoluteTimeout,
              seen |-> now, used |-> job[c].at]]
  BY DEF CreateSession
<1> DEFINE r == [status |-> "live", with |-> job[c].with,
                 straddled |-> job[c].with # password,
                 expires |-> job[c].at + IdleTimeout,
                 absolute |-> job[c].at + AbsoluteTimeout,
                 seen |-> now, used |-> job[c].at]
<1>2. /\ pc[c] = "starting" /\ pc' = [pc EXCEPT ![c] = "idle"]
      /\ job' = [job EXCEPT ![c] = NoJob]
      /\ UNCHANGED <<now, password, unrevoked>>
  BY DEF CreateSession, Done, Goto
<1>3. /\ job[c].at \in Nat /\ job[c].with \in Nat /\ now \in Nat /\ password \in Nat
      /\ job[c].with <= password
      /\ job[c].at <= now /\ now <= job[c].at + Slowest
  BY <1>2 DEF IInv, TypeOK, Job, Proved, Readings
<1>4. r \in Session
  BY <1>3, SessionsAssumption DEF Session
<1>5. /\ r.status = "live" /\ r.with <= password
      /\ r.used <= now /\ r.seen + IdleTimeout <= r.expires + Slowest
      /\ r.expires <= r.used + IdleTimeout
      /\ r.used + IdleTimeout <= r.expires + TouchInterval + Slowest
      /\ r.used < r.absolute
  BY <1>3, SessionsAssumption
<1>8. r.with = password \/ r.straddled
  OBVIOUS
<1>6. sessions' = [sessions EXCEPT ![s] = r]
  BY <1>1
<1> HIDE DEF r
<1>7. NoJob \in Job /\ NoJob.with <= password
  BY <1>3, NoJobIsAJob
<1> QED BY <1>1, <1>2, <1>4, <1>5, <1>6, <1>7, <1>8, WritingPreserves

LEMMA ResolvePreserves ==
  ASSUME IInv, NEW c \in Calls, NEW s \in SessionIds, Resolve(c, s)
  PROVE  IInv'
<1>1. /\ Live(s) /\ sessions[s].expires > now /\ sessions[s].absolute > now
      /\ pc[c] = "idle" /\ UNCHANGED <<now, password, unrevoked>>
  BY DEF Resolve, Usable, Goto
<1>2. now \in Nat /\ password \in Nat /\ sessions[s] \in Session
  BY DEF IInv, TypeOK
<1>3. CASE TouchIsDue(s)
  <2> DEFINE j == [at |-> now, with |-> 0, session |-> s]
  <2>1. j \in Job /\ j.at = now /\ j.with <= password /\ j.session = s
    BY <1>2 DEF NoJob, Job
  <2>2. /\ pc' = [pc EXCEPT ![c] = "touching"] /\ job' = [job EXCEPT ![c] = j]
        /\ UNCHANGED sessions
    BY <1>3 DEF Resolve, Goto
  <2>3. now < sessions[s].absolute
    BY <1>1, <1>2 DEF Session
  <2> HIDE DEF j
  <2> QED BY <1>1, <2>1, <2>2, <2>3, ReadingPreserves
<1>4. CASE ~TouchIsDue(s)
  <2> DEFINE j == [NoJob EXCEPT !.session = s]
             r == [sessions[s] EXCEPT !.used = Used(s, now)]
  <2>1. j \in Job /\ j.with <= password
    BY <1>2, NoJobIsAJob DEF Job
  <2>2. /\ pc' = [pc EXCEPT ![c] = "in"] /\ job' = [job EXCEPT ![c] = j]
        /\ sessions' = [sessions EXCEPT ![s] = r]
    BY <1>4 DEF Resolve, Goto
  <2>3. Used(s, now) = now
    BY <1>1, <1>2 DEF Used, IInv, Marks, Session
  <2>4. r \in Session /\ r.status = "live"
    BY <1>1, <1>2, <2>3 DEF Session, Live
  <2>5. /\ r.with = sessions[s].with /\ r.straddled = sessions[s].straddled
        /\ r.absolute = sessions[s].absolute /\ r.seen = sessions[s].seen
        /\ r.expires = sessions[s].expires /\ r.used = now
    BY <1>2, <2>3 DEF Session
  <2>6. now - sessions[s].seen <= TouchInterval
    BY <1>2, <1>4, SessionsAssumption DEF TouchIsDue, Session
  <2>7. /\ sessions[s].used <= now
        /\ sessions[s].seen + IdleTimeout <= sessions[s].expires + Slowest
        /\ sessions[s].expires <= sessions[s].used + IdleTimeout
        /\ sessions[s].with <= password
    BY <1>1 DEF IInv, Marks, WindowFollowsUse, Proved
  <2>8. /\ sessions[s].seen \in Nat /\ sessions[s].used \in Nat
        /\ sessions[s].expires \in Nat /\ sessions[s].absolute \in Nat
        /\ IdleTimeout \in Nat /\ Slowest \in Nat /\ TouchInterval \in Nat
    BY <1>2, SessionsAssumption DEF Session
  <2> HIDE DEF j, r
  <2>9. /\ r.used <= now /\ r.seen + IdleTimeout <= r.expires + Slowest
        /\ r.expires <= r.used + IdleTimeout
        /\ r.used + IdleTimeout <= r.expires + TouchInterval + Slowest
        /\ r.used < r.absolute /\ r.with <= password
    BY <1>1, <1>2, <2>5, <2>6, <2>7, <2>8
  <2> QED BY <1>1, <2>1, <2>2, <2>4, <2>5, <2>9, WritingPreserves
<1> QED BY <1>3, <1>4

LEMMA TouchPreserves ==
  ASSUME IInv, NEW c \in Calls, Touch(c)
  PROVE  IInv'
<1> DEFINE s == job[c].session
<1>1. pc[c] = "touching" /\ UNCHANGED <<now, password, unrevoked>>
  BY DEF Touch
<1>2. s \in SessionIds /\ (Live(s) => job[c].at < sessions[s].absolute)
  BY <1>1 DEF IInv, Touches
<1>3. /\ now \in Nat /\ password \in Nat /\ job[c] \in Job
      /\ sessions \in [SessionIds -> Session] /\ unrevoked \in BOOLEAN
      /\ job[c].at <= now /\ now <= job[c].at + Slowest /\ job[c].with <= password
  BY <1>1 DEF IInv, TypeOK, Readings, Proved
<1> HIDE DEF s
<1>4. CASE ~Live(s)
  <2>1. /\ pc' = [pc EXCEPT ![c] = "idle"] /\ job' = [job EXCEPT ![c] = NoJob]
        /\ UNCHANGED sessions
    BY <1>4 DEF Touch, Done, Goto, s
  <2>2. NoJob \in Job /\ NoJob.with <= password
    BY <1>3, NoJobIsAJob
  <2> QED BY <1>1, <1>3, <2>1, <2>2, LeavingPreserves
<1>5. CASE Live(s)
  <2> DEFINE j == [job[c] EXCEPT !.at = 0]
             r == Touched(s, job[c].at)
  <2>1. j \in Job /\ j.with <= password
    BY <1>3 DEF Job
  <2>2. pc' = [pc EXCEPT ![c] = "in"] /\ job' = [job EXCEPT ![c] = j]
    BY <1>5 DEF Touch, Goto, s
  <2>3. CASE UNCHANGED sessions
    <3> HIDE DEF j
    <3> QED BY <1>1, <1>3, <2>1, <2>2, <2>3, LeavingPreserves
  <2>4. CASE sessions' = [sessions EXCEPT ![s] = r]
    <3>1. sessions[s] \in Session /\ job[c].at \in Nat
      BY <1>2, <1>3 DEF Job
    <3>2. /\ sessions[s].used \in Nat /\ sessions[s].absolute \in Nat
          /\ IdleTimeout \in Nat /\ Slowest \in Nat /\ TouchInterval \in Nat
      BY <3>1, SessionsAssumption DEF Session
    <3>3. Used(s, job[c].at) \in Nat /\ job[c].at <= Used(s, job[c].at)
          /\ Used(s, job[c].at) <= now
          /\ Used(s, job[c].at) < sessions[s].absolute
      BY <1>2, <1>3, <1>5, <3>1, <3>2 DEF Used, IInv, Marks, WindowFollowsUse
    <3>4. /\ r \in Session /\ r.status = "live"
          /\ r.with = sessions[s].with /\ r.straddled = sessions[s].straddled
          /\ r.absolute = sessions[s].absolute /\ r.seen = job[c].at
          /\ r.expires = job[c].at + IdleTimeout /\ r.used = Used(s, job[c].at)
      <4> DEFINE u == Used(s, job[c].at)
                 e == job[c].at + IdleTimeout
      <4>1. u \in Nat /\ e \in Nat
        BY <3>1, <3>2, <3>3
      <4>2. r = [sessions[s] EXCEPT !.seen = job[c].at, !.expires = e, !.used = u]
        BY DEF Touched
      <4> HIDE DEF u, e, r
      <4>3. /\ r \in Session /\ r.status = sessions[s].status
            /\ r.with = sessions[s].with /\ r.straddled = sessions[s].straddled
            /\ r.absolute = sessions[s].absolute /\ r.seen = job[c].at
            /\ r.expires = e /\ r.used = u
        BY <3>1, <4>1, <4>2 DEF Session
      <4> QED BY <1>5, <4>3 DEF Live, u, e
    <3>5. r.with <= password
      BY <1>2, <3>4 DEF IInv, Proved
    <3> HIDE DEF j, r
    <3>6. /\ r.used <= now /\ r.seen + IdleTimeout <= r.expires + Slowest
          /\ r.expires <= r.used + IdleTimeout
          /\ r.used + IdleTimeout <= r.expires + TouchInterval + Slowest
          /\ r.used < r.absolute
      BY <1>3, <3>1, <3>2, <3>3, <3>4
    <3> QED BY <1>1, <1>2, <1>5, <2>1, <2>2, <2>4, <3>4, <3>5, <3>6, WritingPreserves
  <2> QED BY <1>5, <2>3, <2>4 DEF Touch, s
<1> QED BY <1>4, <1>5

(* Serving, revoking, beginning a change and giving up.                     *)
LEMMA EndingPreserves ==
  ASSUME IInv, NEW c \in Calls,
         Serve(c) \/ BeginChange(c) \/ GiveUp(c) \/ \E s \in SessionIds : Revoke(c, s)
  PROVE  IInv'
<1>1. /\ NoJob \in Job /\ NoJob.with <= password
      /\ sessions \in [SessionIds -> Session] /\ unrevoked \in BOOLEAN
      /\ job[c] \in Job /\ job[c].with <= password /\ job = [job EXCEPT ![c] = job[c]]
  BY NoJobIsAJob DEF IInv, TypeOK, Proved
<1>2. CASE Serve(c)
  BY <1>1, <1>2, LeavingPreserves DEF Serve, Done, Goto
<1>3. CASE BeginChange(c)
  <2>1. pc' = [pc EXCEPT ![c] = "changing"] /\ pc[c] # "revoking"
    BY <1>3 DEF BeginChange, Goto
  <2> QED BY <1>1, <1>3, <2>1, LeavingPreserves DEF BeginChange
<1>4. CASE GiveUp(c)
  <2>1. /\ pc' = [pc EXCEPT ![c] = "idle"] /\ job' = [job EXCEPT ![c] = NoJob]
        /\ UNCHANGED <<now, password, sessions>>
        /\ unrevoked' = (unrevoked \/ (pc[c] = "revoking" /\ job[c].with = password))
    BY <1>4 DEF GiveUp, Done, Goto
  <2>2. unrevoked' \in BOOLEAN /\ (unrevoked => unrevoked')
        /\ (pc[c] = "revoking" /\ job[c].with = password => unrevoked')
    BY <2>1
  <2> QED BY <1>1, <2>1, <2>2, LeavingPreserves
<1>5. ASSUME NEW s \in SessionIds, Revoke(c, s) PROVE IInv'
  <2>1. /\ pc[c] = "in" /\ pc' = [pc EXCEPT ![c] = "idle"]
        /\ job' = [job EXCEPT ![c] = NoJob]
        /\ sessions' = Ended({s}) /\ UNCHANGED <<now, password, unrevoked>>
    BY <1>5 DEF Revoke, Done, Goto
  <2>2. /\ sessions' \in [SessionIds -> Session]
        /\ \A t \in SessionIds : /\ sessions'[t] \in {sessions[t], Gone}
                                 /\ sessions[t].status = "unused" => sessions'[t] = sessions[t]
    BY <2>1, EndedEnds DEF IInv
  <2> QED BY <1>1, <2>1, <2>2, LeavingPreserves
<1> QED BY <1>2, <1>3, <1>4, <1>5

(* The change stores the new password: it is now the one that answers for   *)
(* every session begun with an older one.                                   *)
LEMMA SetPreserves ==
  ASSUME IInv, NEW c \in Calls, SetPassword(c)
  PROVE  IInv'
<1> DEFINE j == [job[c] EXCEPT !.with = password + 1]
<1>1. /\ pc[c] = "changing" /\ pc' = [pc EXCEPT ![c] = "revoking"]
      /\ job' = [job EXCEPT ![c] = j]
      /\ password' = password + 1 /\ unrevoked' = FALSE /\ UNCHANGED <<now, sessions>>
  BY DEF SetPassword, Goto
<1>2. j \in Job /\ j.with = password + 1
  BY DEF IInv, TypeOK, Job
<1> HIDE DEF j
<1>3. /\ pc' \in [Calls -> Steps] /\ job' \in [Calls -> Job]
      /\ pc'[c] = "revoking" /\ job'[c] = j
      /\ \A d \in Calls \ {c} : pc'[d] = pc[d] /\ job'[d] = job[d]
  BY <1>1, <1>2, CallsMove DEF IInv, Steps
<1>4. TypeOK'
  <2>1. unrevoked' \in BOOLEAN
    BY <1>1
  <2>2. now' \in Nat /\ password' \in Nat /\ sessions' \in [SessionIds -> Session]
    BY <1>1 DEF IInv, TypeOK
  <2> QED BY <1>3, <2>1, <2>2 DEF TypeOK
<1>5. Proved'
  <2>1. password \in Nat
        /\ \A s \in SessionIds : sessions[s].with \in Nat /\ sessions[s].with <= password
    BY DEF IInv, TypeOK, Proved, Session
  <2>2. \A d \in Calls : job[d].with \in Nat /\ job[d].with <= password
    BY DEF IInv, TypeOK, Proved, Job
  <2> QED BY <1>1, <1>2, <1>3, <2>1, <2>2 DEF Proved
<1>6. Readings'
  BY <1>1, <1>3 DEF IInv, Readings
<1>7. Marks' /\ WindowFollowsUse'
  BY <1>1 DEF IInv, Marks, WindowFollowsUse, Live
<1>8. Touches'
  BY <1>1, <1>3 DEF IInv, Touches, Live
<1>9. OnlyStraddlersSurvive'
  BY <1>1, <1>2, <1>3 DEF OnlyStraddlersSurvive
<1> QED BY <1>4, <1>5, <1>6, <1>7, <1>8, <1>9 DEF IInv

(* The revocation: for the password in force it leaves only the session     *)
(* whose holder chose it.  For one that another change has replaced it      *)
(* settles nothing, and whatever answered for the survivors still does.     *)
LEMMA RevokePreserves ==
  ASSUME IInv, NEW c \in Calls, RevokeOthers(c)
  PROVE  IInv'
<1> DEFINE own == job[c].session
           chosen == job[c].with
           rest == Ended(SessionIds \ {own})
<1>1. /\ pc[c] = "revoking" /\ pc' = [pc EXCEPT ![c] = "idle"]
      /\ job' = [job EXCEPT ![c] = NoJob]
      /\ sessions' = [s \in SessionIds |->
           IF s = own /\ rest[s].with < chosen THEN [rest[s] EXCEPT !.with = chosen]
                                               ELSE rest[s]]
      /\ UNCHANGED <<now, password, unrevoked>>
  BY DEF RevokeOthers, Done, Goto
<1>2. /\ pc' \in [Calls -> Steps] /\ job' \in [Calls -> Job]
      /\ pc'[c] = "idle" /\ job'[c] = NoJob
      /\ \A d \in Calls \ {c} : pc'[d] = pc[d] /\ job'[d] = job[d]
  BY <1>1, NoJobIsAJob, CallsMove DEF IInv, Steps
<1>3. chosen \in Nat /\ chosen <= password /\ password \in Nat
  BY DEF IInv, TypeOK, Job, Proved
<1>4. /\ rest \in [SessionIds -> Session]
      /\ \A s \in SessionIds : rest[s].status = "live" => s = own /\ rest[s] = sessions[s]
      /\ \A s \in SessionIds : rest[s] \in {sessions[s], Gone}
      /\ \A s \in SessionIds : sessions[s].status = "unused" => rest[s] = sessions[s]
  BY EndedEnds, GoneIsASession DEF IInv
<1> HIDE DEF rest, own, chosen
<1>5. ASSUME NEW s \in SessionIds
      PROVE  /\ sessions'[s] \in Session
             /\ sessions'[s].status = rest[s].status
             /\ sessions'[s].straddled = rest[s].straddled
             /\ sessions'[s].expires = rest[s].expires
             /\ sessions'[s].absolute = rest[s].absolute
             /\ sessions'[s].seen = rest[s].seen
             /\ sessions'[s].used = rest[s].used
             /\ sessions'[s].with \in {rest[s].with, chosen}
             /\ s = own => sessions'[s].with >= chosen
  <2>1. rest[s] \in Session
    BY <1>4
  <2>2. CASE s = own /\ rest[s].with < chosen
    <3>1. sessions'[s] = [rest[s] EXCEPT !.with = chosen]
      BY <1>1, <2>2
    <3> QED BY <3>1, <2>1, <1>3 DEF Session
  <2>3. CASE ~(s = own /\ rest[s].with < chosen)
    <3>1. sessions'[s] = rest[s]
      BY <1>1, <2>3
    <3> QED BY <3>1, <2>1, <2>3, <1>3 DEF Session
  <2> QED BY <2>2, <2>3
<1>6. ASSUME NEW s \in SessionIds, sessions'[s].status = "live"
      PROVE  /\ s = own /\ Live(s)
             /\ sessions'[s].straddled = sessions[s].straddled
             /\ sessions'[s].expires = sessions[s].expires
             /\ sessions'[s].absolute = sessions[s].absolute
             /\ sessions'[s].seen = sessions[s].seen
             /\ sessions'[s].used = sessions[s].used
             /\ sessions'[s].with \in {sessions[s].with, chosen}
  BY <1>4, <1>5, <1>6 DEF Live
<1>7. TypeOK'
  <2>1. sessions' \in [SessionIds -> Session]
    BY <1>1, <1>5
  <2> QED BY <1>1, <1>2, <2>1 DEF IInv, TypeOK
<1>8. Proved'
  <2>1. \A s \in SessionIds : sessions'[s].with <= password
    BY <1>3, <1>4, <1>5, GoneIsASession DEF IInv, Proved
  <2>2. \A d \in Calls : job'[d].with <= password
    BY <1>2, <1>3, NoJobIsAJob DEF IInv, Proved
  <2> QED BY <1>1, <2>1, <2>2 DEF Proved
<1>9. Readings'
  BY <1>1, <1>2 DEF IInv, Readings
<1>10. Marks' /\ WindowFollowsUse'
  <2>1. Marks'
    BY <1>1, <1>6 DEF IInv, Marks, Live
  <2>2. WindowFollowsUse'
    BY <1>6 DEF IInv, WindowFollowsUse, Live
  <2> QED BY <2>1, <2>2
<1>11. Touches'
  <2> SUFFICES ASSUME NEW d \in Calls, pc'[d] = "touching"
               PROVE  /\ job'[d].session \in SessionIds
                      /\ sessions'[job'[d].session].status # "unused"
                      /\ sessions'[job'[d].session].status = "live" =>
                           job'[d].at < sessions'[job'[d].session].absolute
    BY DEF Touches, Live
  <2>1. pc[d] = "touching" /\ job'[d] = job[d]
    BY <1>2
  <2>2. /\ job[d].session \in SessionIds
        /\ sessions[job[d].session].status # "unused"
        /\ sessions[job[d].session].status = "live" =>
             job[d].at < sessions[job[d].session].absolute
    BY <2>1 DEF IInv, Touches, Live
  <2>3. sessions'[job[d].session].status # "unused"
    BY <2>2, <1>4, <1>5, GoneIsASession
  <2> QED BY <2>1, <2>2, <2>3, <1>6 DEF Live
<1>12. OnlyStraddlersSurvive'
  <2> SUFFICES ASSUME NEW s \in SessionIds, Live(s)', sessions'[s].with # password
               PROVE  \/ sessions'[s].straddled
                      \/ unrevoked
                      \/ \E d \in Calls : pc'[d] = "revoking" /\ job'[d].with = password
    BY <1>1 DEF OnlyStraddlersSurvive
  <2>1. /\ s = own /\ Live(s) /\ sessions'[s].straddled = sessions[s].straddled
        /\ sessions'[s].with \in {sessions[s].with, chosen}
    BY <1>6 DEF Live
  <2>2. chosen # password
    <3>1. sessions'[s].with >= chosen /\ sessions'[s].with <= password
          /\ sessions'[s].with \in Nat
      BY <1>1, <1>5, <1>8, <2>1 DEF Proved, Session
    <3> QED BY <3>1, <1>3
  <2>3. sessions[s].with # password
    <3>1. /\ sessions[s].with \in Nat /\ sessions[s].with <= password
          /\ rest[s] = sessions[s]
      BY <1>4, <1>5, <2>1 DEF IInv, TypeOK, Session, Live, Proved
    <3>2. CASE s = own /\ sessions[s].with < chosen
      BY <3>1, <3>2, <1>3
    <3>3. CASE ~(s = own /\ sessions[s].with < chosen)
      <4>1. sessions'[s] = sessions[s]
        BY <1>1, <3>1, <3>3
      <4> QED BY <4>1, <2>1
    <3> QED BY <3>2, <3>3
  <2>4. \/ sessions[s].straddled
        \/ unrevoked
        \/ \E d \in Calls : pc[d] = "revoking" /\ job[d].with = password
    BY <2>1, <2>3 DEF IInv, OnlyStraddlersSurvive
  <2>5. ASSUME NEW d \in Calls, pc[d] = "revoking", job[d].with = password
        PROVE  pc'[d] = "revoking" /\ job'[d].with = password
    <3>1. d # c
      BY <2>2, <2>5 DEF chosen
    <3> QED BY <3>1, <2>5, <1>2
  <2> QED BY <2>1, <2>4, <2>5
<1> QED BY <1>7, <1>8, <1>9, <1>10, <1>11, <1>12 DEF IInv

LEMMA SweepPreserves ==
  ASSUME IInv, Sweep
  PROVE  IInv'
<1>1. /\ UNCHANGED <<now, password, pc, job, unrevoked>>
      /\ sessions' \in [SessionIds -> Session]
      /\ \A s \in SessionIds :
           /\ sessions'[s] \in {sessions[s], Gone}
           /\ sessions[s].status = "unused" => sessions'[s] = sessions[s]
  BY EndedEnds DEF Sweep, calls, IInv
<1>2. \A s \in SessionIds : sessions'[s].status = "live" => Live(s) /\ sessions'[s] = sessions[s]
  BY <1>1, GoneIsASession DEF Live
<1>3. \A s \in SessionIds : sessions[s].status # "unused" => sessions'[s].status # "unused"
  BY <1>1, GoneIsASession
<1>4. TypeOK'
  BY <1>1 DEF IInv, TypeOK
<1>5. Proved'
  <2>1. \A s \in SessionIds : sessions'[s].with <= password
    BY <1>1, GoneIsASession DEF IInv, Proved, TypeOK
  <2> QED BY <2>1, <1>1 DEF IInv, Proved
<1>6. Readings'
  BY <1>1 DEF IInv, Readings
<1>7. Marks' /\ WindowFollowsUse'
  BY <1>1, <1>2 DEF IInv, Marks, WindowFollowsUse, Live
<1>8. Touches'
  BY <1>1, <1>2, <1>3 DEF IInv, Touches, Live
<1>9. OnlyStraddlersSurvive'
  BY <1>1, <1>2 DEF IInv, OnlyStraddlersSurvive, Live
<1> QED BY <1>4, <1>5, <1>6, <1>7, <1>8, <1>9 DEF IInv

LEMMA TickPreserves ==
  ASSUME IInv, Tick
  PROVE  IInv'
<1>1. /\ now' = now + 1 /\ UNCHANGED <<password, sessions, pc, job, unrevoked>>
      /\ \A c \in Calls : pc[c] \in {"touching", "starting"} => now < job[c].at + Slowest
  BY DEF Tick, calls
<1>2. TypeOK' /\ Proved'
  BY <1>1 DEF IInv, TypeOK, Proved
<1>3. Readings'
  <2>1. \A c \in Calls : job[c].at \in Nat /\ now \in Nat /\ Slowest \in Nat
    BY SessionsAssumption DEF IInv, TypeOK, Job
  <2> QED BY <1>1, <2>1 DEF IInv, Readings
<1>4. Marks'
  <2>1. \A s \in SessionIds : sessions[s].used \in Nat /\ now \in Nat
    BY DEF IInv, TypeOK, Session
  <2> QED BY <1>1, <2>1 DEF IInv, Marks, Live
<1>5. WindowFollowsUse' /\ Touches' /\ OnlyStraddlersSurvive'
  BY <1>1 DEF IInv, WindowFollowsUse, Touches, OnlyStraddlersSurvive, Live
<1> QED BY <1>2, <1>3, <1>4, <1>5 DEF IInv

-----------------------------------------------------------------------------
(* The invariant, and what follows from it.                                 *)

(* The inductive invariant of sessions that are used, revoked and outlived  *)
(* by their passwords.                                                      *)
THEOREM Inductive == Spec => []IInv
<1>1. Init => IInv
  <2> SUFFICES ASSUME Init PROVE IInv
    OBVIOUS
  <2>1. TypeOK
    BY GoneIsASession, NoJobIsAJob DEF Init, TypeOK, Steps
  <2>2. \A s \in SessionIds : ~Live(s) /\ sessions[s].with = 0
    BY DEF Init, Live, Unused
  <2>3. Proved
    BY <2>2 DEF Init, Proved, NoJob
  <2> QED BY <2>1, <2>2, <2>3 DEF Init, IInv, Readings, Marks, Touches,
                                  OnlyStraddlersSurvive, WindowFollowsUse
<1>2. IInv /\ [Next]_vars => IInv'
  <2> SUFFICES ASSUME IInv, [Next]_vars PROVE IInv'
    OBVIOUS
  <2>1. ASSUME NEW c \in Calls,
               \/ Verify(c) \/ StartSession(c) \/ CreateSession(c) \/ Touch(c)
               \/ \E s \in SessionIds : Resolve(c, s)
        PROVE  IInv'
    BY <2>1, VerifyPreserves, StartPreserves, CreatePreserves, TouchPreserves,
       ResolvePreserves
  <2>2. ASSUME NEW c \in Calls,
               \/ Serve(c) \/ BeginChange(c) \/ GiveUp(c)
               \/ \E s \in SessionIds : Revoke(c, s)
        PROVE  IInv'
    BY <2>2, EndingPreserves
  <2>3. ASSUME NEW c \in Calls, SetPassword(c) \/ RevokeOthers(c)
        PROVE  IInv'
    BY <2>3, SetPreserves, RevokePreserves
  <2>4. CASE Sweep \/ Tick
    BY <2>4, SweepPreserves, TickPreserves
  <2>5. CASE UNCHANGED vars
    BY <2>5 DEF vars, calls, IInv, TypeOK, Proved, Readings, Marks, Touches,
                OnlyStraddlersSurvive, WindowFollowsUse, Live
  <2> QED BY <2>1, <2>2, <2>3, <2>4, <2>5 DEF Next
<1> QED BY <1>1, <1>2, PTL DEF Spec

(* Every variable keeps its type.                                           *)
THEOREM TypeCorrect == Spec => []TypeOK
<1>1. IInv => TypeOK
  BY DEF IInv
<1> QED BY <1>1, Inductive, PTL

(* A session outlives the password its holder proved only while the change  *)
(* is under way, after a revocation that failed, or by a login that         *)
(* straddled the change.                                                    *)
THEOREM OldPasswordsEnd == Spec => []OnlyStraddlersSurvive
<1>1. IInv => OnlyStraddlersSurvive
  BY DEF IInv
<1> QED BY <1>1, Inductive, PTL

(* The idle window follows the latest use, and no use comes after the cap.  *)
THEOREM TheWindowFollows == Spec => []WindowFollowsUse
<1>1. IInv => WindowFollowsUse
  BY DEF IInv
<1> QED BY <1>1, Inductive, PTL
==============================================================================
