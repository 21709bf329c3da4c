--------------------------- MODULE QueryLifecycle ----------------------------
(***************************************************************************)
(* One execution from admission to the end of Close, the log row that      *)
(* accounts for it, and the supervisor that carries kills and heartbeats:  *)
(* internal/query/executor.go, logged_stream.go, monitor.go, supervisor.go *)
(* and the statements of query_log.sql in internal/store/queries.          *)
(*                                                                         *)
(* A query is one execution, owned by the process it runs in; the token    *)
(* that names a process is minted at its start and never used again, so a  *)
(* process that crashes does not come back under its old name.             *)
(*                                                                         *)
(*   idle       not begun                                                  *)
(*   admitted   holds its slot                                             *)
(*   opened     the connector is open                                      *)
(*   logged     the row is written, the query not yet watched              *)
(*   starting   watched, inside connector.Stream                           *)
(*   reading    the caller has the stream                                  *)
(*   ended      Next has returned false or failed, Close not yet called    *)
(*   finish, unwatch, release, close        the statements of Close left   *)
(*   f_finish, f_close, f_release           those of a failed execute left *)
(*   replay, r_finish                       the same for a cache hit       *)
(*   over                                                                  *)
(*   dead       its process crashed                                        *)
(***************************************************************************)
EXTENDS Integers, FiniteSets

CONSTANTS
  Queries, Owners, OwnerOf,
  StaleAfter,                \* in heartbeat intervals
  MaxNow                     \* bound on the clock

ASSUME LifecycleAssumption ==
  /\ OwnerOf \in [Queries -> Owners]
  /\ StaleAfter \in Nat \ {0}
  /\ MaxNow \in Nat

VARIABLES
  row, asked,    \* the log: state, and cancel_requested_at being set
  seen,          \* [Queries -> Nat]: heartbeat_at, or started_at before one
  pc,            \* [Queries -> Phases]
  err,           \* what the stream reports: "none", "failed", "canceled"
  cause,         \* of the query's context: "live" until it is canceled
  watched,       \* Monitor.running of every process
  held, open,    \* queries that hold a slot, that have a connector open
  up,            \* processes that have not crashed
  todo, grabbed, \* [Owners -> SUBSET Queries]: deliverKills' ids still to
                 \* kill, and the one whose cancel Kill holds
  beaten,        \* processes whose beat in this interval has happened
  told,          \* [Owners -> when it was told to stop, or -1]
  now

logVars == <<row, asked, seen>>
supVars == <<todo, grabbed, beaten, told>>
vars == <<row, asked, seen, pc, err, cause, watched, held, open, up, todo,
          grabbed, beaten, told, now>>

Closing == {"finish", "unwatch", "release", "close"}
Failing == {"f_finish", "f_close", "f_release"}
Phases == {"idle", "admitted", "opened", "logged", "starting", "reading",
           "ended", "replay", "r_finish", "over", "dead"} \cup Closing \cup Failing

Init ==
  /\ row = [q \in Queries |-> "absent"]
  /\ asked = {}
  /\ seen = [q \in Queries |-> 0]
  /\ pc = [q \in Queries |-> "idle"]
  /\ err = [q \in Queries |-> "none"]
  /\ cause = [q \in Queries |-> "none"]
  /\ watched = {}
  /\ held = {}
  /\ open = {}
  /\ up = Owners
  /\ todo = [p \in Owners |-> {}]
  /\ grabbed = [p \in Owners |-> {}]
  /\ beaten = {}
  /\ told = [p \in Owners |-> -1]
  /\ now = 0

Alive(q) == OwnerOf[q] \in up
Own(p) == {q \in Queries : OwnerOf[q] = p}

Step(q, from, to) ==
  /\ Alive(q)
  /\ pc[q] = from
  /\ pc' = [pc EXCEPT ![q] = to]

(* Canceling a context that is already canceled changes nothing.            *)
Canceled(q, why) ==
  cause' = [cause EXCEPT ![q] = IF @ = "live" THEN why ELSE @]

(* QueryLog.Start: the row, running, stamped with this process's token.     *)
Insert(q) ==
  /\ row' = [row EXCEPT ![q] = "running"]
  /\ seen' = [seen EXCEPT ![q] = now]
  /\ UNCHANGED asked

-----------------------------------------------------------------------------
(* Executor.execute.                                                        *)

(* Admission, with Governor's detail left to that module.                   *)
Admit(q) ==
  /\ Step(q, "idle", "admitted")
  /\ held' = held \cup {q}
  /\ cause' = [cause EXCEPT ![q] = "live"]
  /\ UNCHANGED <<logVars, err, watched, open, up, supVars, now>>

Open(q) ==
  /\ \/ Step(q, "admitted", "opened") /\ open' = open \cup {q}
     \/ Step(q, "admitted", "f_release") /\ UNCHANGED open
  /\ UNCHANGED <<logVars, err, cause, watched, held, up, supVars, now>>

(* QueryLog.Start; a query that cannot be recorded is refused.              *)
Log(q) ==
  /\ \/ Step(q, "opened", "logged") /\ Insert(q) /\ UNCHANGED open
     \/ Step(q, "opened", "f_release") /\ open' = open \ {q} /\ UNCHANGED logVars
  /\ UNCHANGED <<err, cause, watched, held, up, supVars, now>>

(* WithCancelCause and Monitor.watch.                                       *)
Watch(q) ==
  /\ Step(q, "logged", "starting")
  /\ watched' = watched \cup {q}
  /\ UNCHANGED <<logVars, err, cause, held, open, up, supVars, now>>

(* connector.Stream hands back the stream.                                  *)
Started(q) ==
  /\ Step(q, "starting", "reading")
  /\ UNCHANGED <<logVars, err, cause, watched, held, open, up, supVars, now>>

(* What a call into the source can fail with: its own trouble, or, when the *)
(* query's context has been canceled, that.                                 *)
Trouble(q) == {"failed"} \cup (IF cause[q] = "live" THEN {} ELSE {"canceled"})

(* connector.Stream fails: unwatch, cancel(nil).                            *)
StartFails(q) ==
  /\ Step(q, "starting", "f_finish")
  /\ \E e \in Trouble(q) : err' = [err EXCEPT ![q] = e]
  /\ watched' = watched \ {q}
  /\ Canceled(q, "done")
  /\ UNCHANGED <<logVars, held, open, up, supVars, now>>

(* FinishQueryLog, or its failure, which is logged and swallowed.           *)
Record(q, outcome) ==
  /\ \/ row' = [row EXCEPT ![q] = outcome]
     \/ UNCHANGED row
  /\ UNCHANGED <<asked, seen>>

(* finish on the failure's path.  It is given the caller's context, whose   *)
(* cause is never a kill.                                                   *)
FinishFailed(q) ==
  /\ Step(q, "f_finish", "f_close")
  /\ Record(q, err[q])
  /\ UNCHANGED <<err, cause, watched, held, open, up, supVars, now>>

CloseFailed(q) ==
  /\ Step(q, "f_close", "f_release")
  /\ open' = open \ {q}
  /\ UNCHANGED <<logVars, err, cause, watched, held, up, supVars, now>>

(* Mutant: execute's failure is returned without the release.               *)
ReleaseFailed_Forgets(q) ==
  /\ Step(q, "f_release", "over")
  /\ Canceled(q, "done")
  /\ UNCHANGED <<logVars, err, watched, held, open, up, supVars, now>>
(* Execute gives the slot back when execute failed.                         *)
ReleaseFailed(q) ==
  /\ Step(q, "f_release", "over")
  /\ held' = held \ {q}
  /\ Canceled(q, "done")
  /\ UNCHANGED <<logVars, err, watched, open, up, supVars, now>>

-----------------------------------------------------------------------------
(* The caller and loggedStream.                                             *)

(* Next returns false: at the end of the rows, or with an error.            *)
Ends(q) ==
  /\ Step(q, "reading", "ended")
  /\ \E e \in {"none"} \cup Trouble(q) : err' = [err EXCEPT ![q] = e]
  /\ UNCHANGED <<logVars, cause, watched, held, open, up, supVars, now>>

(* Close: Stream.Close, which can report an error the reading did not, and  *)
(* whatever store keeps.  The caller may close before the end.              *)
(* Mutant: it is not guarded against a second call.                         *)
Close_NotOnce(q) ==
  /\ \E from \in {"reading", "ended", "over"} : Step(q, from, "finish")
  /\ \/ UNCHANGED err
     \/ err[q] = "none" /\ \E e \in Trouble(q) : err' = [err EXCEPT ![q] = e]
  /\ UNCHANGED <<logVars, cause, watched, held, open, up, supVars, now>>
Close(q) ==
  /\ \E from \in {"reading", "ended"} : Step(q, from, "finish")
  /\ \/ UNCHANGED err
     \/ err[q] = "none" /\ \E e \in Trouble(q) : err' = [err EXCEPT ![q] = e]
  /\ UNCHANGED <<logVars, cause, watched, held, open, up, supVars, now>>

(* finish, given the query's own context.                                   *)
Outcome(q) ==
  IF err[q] # "none" /\ cause[q] = "killed" THEN "killed"
  ELSE IF err[q] = "none" THEN "succeeded" ELSE err[q]

Finish(q) ==
  /\ Step(q, "finish", "unwatch")
  /\ Record(q, Outcome(q))
  /\ UNCHANGED <<err, cause, watched, held, open, up, supVars, now>>

Unwatch(q) ==
  /\ Step(q, "unwatch", "release")
  /\ watched' = watched \ {q}
  /\ UNCHANGED <<logVars, err, cause, held, open, up, supVars, now>>

Release(q) ==
  /\ Step(q, "release", "close")
  /\ held' = held \ {q}
  /\ Canceled(q, "done")
  /\ UNCHANGED <<logVars, err, watched, open, up, supVars, now>>

CloseConnector(q) ==
  /\ Step(q, "close", "over")
  /\ open' = open \ {q}
  /\ UNCHANGED <<logVars, err, cause, watched, held, up, supVars, now>>

(* The caller's context ends, for whatever reason of theirs.                *)
Leave(q) ==
  /\ Alive(q)
  /\ cause[q] = "live"
  /\ Canceled(q, "left")
  /\ UNCHANGED <<logVars, pc, err, watched, held, open, up, supVars, now>>

(* serveFromCache: logged like any execution, and nothing else.             *)
Serve(q) ==
  /\ \/ Step(q, "idle", "replay") /\ Insert(q)
     \/ Step(q, "idle", "over") /\ UNCHANGED logVars
  /\ UNCHANGED <<err, cause, watched, held, open, up, supVars, now>>

(* Mutant: it waits for a connector that a hit has not opened.              *)
CloseReplay_NeedsConnector(q) ==
  /\ q \in open
  /\ Step(q, "replay", "r_finish")
  /\ UNCHANGED <<logVars, err, cause, watched, held, open, up, supVars, now>>
CloseReplay(q) ==
  /\ Step(q, "replay", "r_finish")
  /\ UNCHANGED <<logVars, err, cause, watched, held, open, up, supVars, now>>

FinishReplay(q) ==
  /\ Step(q, "r_finish", "over")
  /\ Record(q, "succeeded")
  /\ UNCHANGED <<err, cause, watched, held, open, up, supVars, now>>

-----------------------------------------------------------------------------
(* Kills.                                                                   *)

(* RequestCancel, by anybody with the database: only a running row.         *)
Ask(q) ==
  /\ row[q] = "running"
  /\ q \notin asked
  /\ asked' = asked \cup {q}
  /\ UNCHANGED <<row, seen, pc, err, cause, watched, held, open, up, supVars, now>>

\* Supervisor.Run is at its select, and does not return from it.
Idle(p) == p \in up /\ told[p] < 0 /\ todo[p] = {} /\ grabbed[p] = {}
Holds(p) == watched \cap Own(p) # {}

(* deliverKills reads the requests against this process's rows.  When it    *)
(* cannot read them nothing happens until the next tick.                    *)
Poll(p) ==
  /\ Idle(p) /\ Holds(p)
  /\ todo' = [todo EXCEPT ![p] =
       {q \in Own(p) : row[q] = "running" /\ q \in asked}]
  /\ UNCHANGED <<logVars, pc, err, cause, watched, held, open, up, grabbed, beaten, told, now>>

(* Monitor.Kill finds the query, or does not, under the lock.               *)
(* Mutant: gives up on the rest when one is not found.                      *)
Lookup_GivesUp(p) ==
  /\ p \in up /\ grabbed[p] = {}
  /\ \E q \in todo[p] :
       /\ todo' = [todo EXCEPT ![p] = IF q \in watched THEN @ \ {q} ELSE {}]
       /\ grabbed' = [grabbed EXCEPT ![p] = {q} \cap watched]
  /\ UNCHANGED <<logVars, pc, err, cause, watched, held, open, up, beaten, told, now>>
Lookup(p) ==
  /\ p \in up /\ grabbed[p] = {}
  /\ \E q \in todo[p] :
       /\ todo' = [todo EXCEPT ![p] = @ \ {q}]
       /\ grabbed' = [grabbed EXCEPT ![p] = {q} \cap watched]
  /\ UNCHANGED <<logVars, pc, err, cause, watched, held, open, up, beaten, told, now>>

(* And calls the cancel it found once the lock is released.                 *)
Kill(p) ==
  /\ p \in up
  /\ \E q \in grabbed[p] : Canceled(q, "killed")
  /\ grabbed' = [grabbed EXCEPT ![p] = {}]
  /\ UNCHANGED <<logVars, pc, err, watched, held, open, up, todo, beaten, told, now>>

-----------------------------------------------------------------------------
(* Heartbeats, crashes and time.                                            *)

(* Mutant: a beat does nothing while kills were asked for.                  *)
Beat_OnlyUnasked(p) ==
  /\ Idle(p) /\ p \notin beaten /\ now < MaxNow
  /\ beaten' = beaten \cup {p}
  /\ seen' = [q \in Queries |->
       IF Holds(p) /\ q \in Own(p) /\ row[q] = "running" /\ q \notin asked
       THEN now ELSE seen[q]]
  /\ UNCHANGED <<row, asked, pc, err, cause, watched, held, open, up, todo, grabbed, told, now>>
(* beat: every row of this owner that says running, unless this process is  *)
(* watching nothing.  Nothing depends on a beat in the last interval.       *)
Beat(p) ==
  /\ Idle(p) /\ p \notin beaten /\ now < MaxNow
  /\ beaten' = beaten \cup {p}
  /\ seen' = [q \in Queries |->
       IF Holds(p) /\ q \in Own(p) /\ row[q] = "running" THEN now ELSE seen[q]]
  /\ UNCHANGED <<row, asked, pc, err, cause, watched, held, open, up, todo, grabbed, told, now>>

(* The signal to stop reaches a process.  Its supervisor returns when the   *)
(* kills in its hands are delivered; its server takes requests a while yet, *)
(* then drains them for at most a time, cuts off those that are left and    *)
(* the process exits: callers leave, records fail and the process crashes.  *)
Signal(p) ==
  /\ p \in up /\ told[p] < 0
  /\ told' = [told EXCEPT ![p] = now]
  /\ UNCHANGED <<logVars, pc, err, cause, watched, held, open, up, todo, grabbed, beaten, now>>

(* A process stops without notice: everything it held in memory is gone.    *)
Crash(p) ==
  /\ p \in up
  /\ up' = up \ {p}
  /\ pc' = [q \in Queries |-> IF q \in Own(p) THEN "dead" ELSE pc[q]]
  /\ watched' = watched \ Own(p)
  /\ held' = held \ Own(p)
  /\ open' = open \ Own(p)
  /\ todo' = [todo EXCEPT ![p] = {}]
  /\ grabbed' = [grabbed EXCEPT ![p] = {}]
  /\ told' = [told EXCEPT ![p] = -1]
  /\ err' = [q \in Queries |-> IF q \in Own(p) THEN "none" ELSE err[q]]
  /\ cause' = [q \in Queries |-> IF q \in Own(p) THEN "none" ELSE cause[q]]
  /\ beaten' = beaten \ {p}
  /\ UNCHANGED <<logVars, now>>

(* An interval passes.  A process that is up has beaten in it, unless it is *)
(* to stop, and none is between writing a row and watching the query, where *)
(* the code does not wait: tickers and scheduling are taken to be punctual  *)
(* to an interval.                                                          *)
Tick ==
  /\ now < MaxNow
  /\ \A p \in up : p \in beaten \/ told[p] >= 0
  /\ \A q \in Queries : pc[q] # "logged"
  /\ now' = now + 1
  /\ beaten' = {}
  /\ UNCHANGED <<logVars, pc, err, cause, watched, held, open, up, todo, grabbed, told>>

Execute(q) ==
  \/ Open(q) \/ Log(q) \/ Watch(q) \/ Started(q) \/ StartFails(q)
  \/ FinishFailed(q) \/ CloseFailed(q) \/ ReleaseFailed(q)
Drain(q) ==
  \/ Ends(q) \/ Close(q) \/ Finish(q) \/ Unwatch(q) \/ Release(q)
  \/ CloseConnector(q) \/ CloseReplay(q) \/ FinishReplay(q)
Supervise(p) == Poll(p) \/ Lookup(p) \/ Kill(p)

Next ==
  \/ \E q \in Queries : \/ Admit(q) \/ Serve(q) \/ Execute(q) \/ Drain(q)
                        \/ Leave(q) \/ Ask(q)
  \/ \E p \in Owners : Supervise(p) \/ Beat(p) \/ Signal(p) \/ Crash(p)
  \/ Tick

Spec == Init /\ [][Next]_vars

(* The supervisor's loop runs while its process does.  Nothing is assumed   *)
(* of callers and sources: a stream may stay open for ever.                 *)
LiveSpec ==
  /\ Spec
  /\ \A p \in Owners : WF_vars(Poll(p)) /\ WF_vars(Lookup(p)) /\ WF_vars(Kill(p))

(* The code runs its own statements, the source answers, by itself or by    *)
(* its query timeout where one is set, and the caller closes in the end.    *)
CodeRuns == \A q \in Queries : WF_vars(Execute(q)) /\ WF_vars(Drain(q))
-----------------------------------------------------------------------------
Outcomes == {"succeeded", "failed", "canceled", "killed"}

TypeOK ==
  /\ row \in [Queries -> {"absent", "running"} \cup Outcomes]
  /\ asked \subseteq Queries
  /\ seen \in [Queries -> 0 .. MaxNow]
  /\ pc \in [Queries -> Phases]
  /\ err \in [Queries -> {"none", "failed", "canceled"}]
  /\ cause \in [Queries -> {"none", "live", "left", "killed", "done"}]
  /\ watched \subseteq Queries /\ held \subseteq Queries /\ open \subseteq Queries
  /\ up \subseteq Owners /\ beaten \subseteq Owners
  /\ todo \in [Owners -> SUBSET Queries]
  /\ grabbed \in [Owners -> SUBSET Queries]
  /\ told \in [Owners -> -1 .. MaxNow]
  /\ now \in 0 .. MaxNow

AtTheSource == {"starting", "reading", "ended"}
WorkIsAccountedFor ==
  \A q \in Queries : pc[q] \in AtTheSource =>
    /\ row[q] = "running"
    /\ q \in held
    /\ q \in open

NothingLeftBehind ==
  \A q \in Queries : pc[q] = "over" =>
    q \notin held /\ q \notin open /\ q \notin watched /\ cause[q] # "live"

(* The source works only for an execution that is on record and that holds  *)
(* a slot and a connector, from the call of connector.Stream until the      *)
(* stream is closed; and an execution that is over, whichever way it failed *)
(* or was closed, has left no slot, no connector, no registration and no    *)
(* live context behind.                                                     *)
EverythingIsAccountedFor == WorkIsAccountedFor /\ NothingLeftBehind

(* A kill stops only what an administrator asked to stop, through polls     *)
(* that read the requests long before they act on them.                     *)
KillsWereAsked == \A q \in Queries : cause[q] = "killed" => q \in asked

(* The log keeps the promise of ExecutionLog.                               *)
Log_ == INSTANCE ExecutionLog
LogPromise == Log_!Spec

(* Under punctual tickers no query that its process is watching looks       *)
(* abandoned to a reader of the log, until its process has been stopping    *)
(* for as long as a query may stay silent: nobody beats through a drain.    *)
IsStale(q) == now - seen[q] > StaleAfter
Stopping(q) == told[OwnerOf[q]] >= 0
WatchedLookAlive ==
  \A q \in Queries :
    (q \in watched /\ row[q] = "running" /\ IsStale(q)) =>
      Stopping(q) /\ now - told[OwnerOf[q]] >= StaleAfter

(* While a process lives and is not stopping, a kill asked for one of the   *)
(* queries it watches arrives, unless the query ends first.                 *)
KillsArrive ==
  \A q \in Queries :
    (q \in asked /\ q \in watched /\ row[q] = "running")
      ~> (cause[q] # "live" \/ q \notin watched \/ row[q] # "running" \/ Stopping(q))

(* Every execution that is begun in a process that lives comes to its end.  *)
EveryExecutionEnds ==
  CodeRuns => \A q \in Queries :
    (pc[q] \notin {"idle", "over", "dead"}) ~> (pc[q] \in {"over", "dead"})
==============================================================================
