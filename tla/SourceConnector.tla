--------------------------- MODULE SourceConnector ----------------------------
(***************************************************************************)
(* The connector of a source that can stop a statement only when told to:  *)
(* OpenSQL, Stream, borrow and watchCancel of                              *)
(* internal/connectors/sqlbase.go and stream.go, and the two statements of *)
(* mysql.go.  A call borrows a connection, asks for its session, runs its  *)
(* statement there and gives the connection back; a watcher beside it      *)
(* sends a KILL on a connection of its own when the call's context ends.   *)
(*                                                                         *)
(* The statement runs at the source, which may finish it, stop it, or never *)
(* answer.  A KILL stops whatever its session is running, and nothing if it *)
(* is idle.                                                                *)
(***************************************************************************)
EXTENDS Integers, FiniteSets

CONSTANTS
  Calls, Nobody,
  Sessions, NoSession,       \* the source gives each number once
  MaxOpenConns

ASSUME SourceConnectorAssumption ==
  /\ Nobody \notin Calls /\ NoSession \notin Sessions
  /\ MaxOpenConns \in Nat \ {0}

VARIABLES
  opened,          \* the sessions there have ever been
  pool, idle,      \* the open connections, and those nobody has borrowed
  broken,          \* the borrowed ones that the driver has closed
  pc, conn,        \* of the calls
  ended,           \* the calls whose context has ended
  watcher, target, \* of the calls: the watcher and the session it would kill
  control,         \* who has the control connection
  late,            \* sessions with a KILL under way that nobody waits for
  statement,       \* [Sessions -> whose statement it is running]
  walkedAway,      \* sessions left, in their latest use, without an answered KILL
  stray            \* a KILL hit a statement that was not its own

connections == <<opened, pool, idle, broken>>
killing == <<control, late, statement, walkedAway, stray>>
vars == <<connections, pc, conn, ended, watcher, target, killing>>

Steps == {"idle", "borrowing", "identifying", "querying", "reading", "stopping", "waiting"}

Init ==
  /\ opened = {} /\ pool = {} /\ idle = {} /\ broken = {}
  /\ pc = [c \in Calls |-> "idle"]
  /\ conn = [c \in Calls |-> NoSession]
  /\ ended = {}
  /\ watcher = [c \in Calls |-> "none"]
  /\ target = [c \in Calls |-> NoSession]
  /\ control = Nobody /\ late = {}
  /\ statement = [s \in Sessions |-> Nobody]
  /\ walkedAway = {} /\ stray = FALSE

Goto(c, from, to) == pc[c] = from /\ pc' = [pc EXCEPT ![c] = to]

\* The call is over.
Over(c, from) ==
  /\ Goto(c, from, "idle")
  /\ conn' = [conn EXCEPT ![c] = NoSession]
  /\ ended' = ended \ {c}

\* conn.Close: the connection goes back to the pool, unless it has broken.
GiveBack(s) ==
  /\ IF s \in broken THEN pool' = pool \ {s} /\ UNCHANGED idle
                     ELSE idle' = idle \cup {s} /\ UNCHANGED pool
  /\ broken' = broken \ {s}
  /\ UNCHANGED opened

-----------------------------------------------------------------------------
(* The call.                                                                *)

\* The name of a call is used again when its watcher is gone.
Begin(c) ==
  /\ watcher[c] = "none"
  /\ Goto(c, "idle", "borrowing")
  /\ UNCHANGED <<connections, conn, ended, watcher, target, killing>>

\* The query timeout passes, or the caller goes away.
EndContext(c) ==
  /\ pc[c] # "idle" /\ c \notin ended
  /\ ended' = ended \cup {c}
  /\ UNCHANGED <<connections, pc, conn, watcher, target, killing>>

\* db.Conn: an idle connection if there is one, else a new one if there is room.
Borrow(c) ==
  /\ Goto(c, "borrowing", "identifying")
  /\ \E s \in Sessions :
       /\ conn' = [conn EXCEPT ![c] = s]
       /\ walkedAway' = walkedAway \ {s}
       /\ \/ /\ s \in idle
             /\ idle' = idle \ {s} /\ UNCHANGED <<pool, opened>>
          \/ /\ idle = {} /\ Cardinality(pool) < MaxOpenConns
             /\ s \notin opened
             /\ opened' = opened \cup {s} /\ pool' = pool \cup {s} /\ UNCHANGED idle
  /\ UNCHANGED <<broken, ended, watcher, target, control, late, statement, stray>>

\* The context ends first, or the source cannot be reached.
BorrowFails(c) ==
  /\ Over(c, "borrowing")
  /\ UNCHANGED <<connections, watcher, target, killing>>

\* Mutant: a call goes on without a watcher.
Identify_NoWatcher(c) ==
  /\ Goto(c, "identifying", "querying")
  /\ UNCHANGED <<connections, conn, ended, watcher, target, killing>>
\* SessionID, and the watcher begins.
Identify(c) ==
  /\ Goto(c, "identifying", "querying")
  /\ watcher' = [watcher EXCEPT ![c] = "watching"]
  /\ target' = [target EXCEPT ![c] = conn[c]]
  /\ UNCHANGED <<connections, conn, ended, killing>>

\* Mutant: the connection is not closed when its session cannot be told.
IdentifyFails_Leaks(c) ==
  /\ Over(c, "identifying")
  /\ UNCHANGED <<connections, watcher, target, killing>>
IdentifyFails(c) ==
  /\ Over(c, "identifying")
  /\ \/ GiveBack(conn[c])
     \/ pool' = pool \ {conn[c]} /\ UNCHANGED <<opened, idle, broken>>
  /\ UNCHANGED <<watcher, target, killing>>

\* QueryContext, which sends nothing once the context has ended.
Query(c) ==
  /\ \/ /\ c \notin ended
        /\ Goto(c, "querying", "reading")
        /\ statement' = [statement EXCEPT ![conn[c]] = c]
     \/ Goto(c, "querying", "stopping") /\ UNCHANGED statement
  /\ UNCHANGED <<connections, conn, ended, watcher, target, control, late, walkedAway, stray>>

\* rows.Close reads what is left: the connection is good again when the
\* statement is over.
ReadToEnd(c) ==
  /\ pc[c] = "reading" /\ statement[conn[c]] # c
  /\ Goto(c, "reading", "stopping")
  /\ UNCHANGED <<connections, conn, ended, watcher, target, killing>>

\* When the context ends the driver closes the socket, and knows no more of the
\* statement.  The connection is not one for the pool again.
HangUp(c) ==
  /\ c \in ended
  /\ Goto(c, "reading", "stopping")
  /\ broken' = broken \cup {conn[c]}
  /\ UNCHANGED <<opened, pool, idle, conn, ended, watcher, target, killing>>

\* release: done is closed.
Stop(c) ==
  /\ Goto(c, "stopping", "waiting")
  /\ UNCHANGED <<connections, conn, ended, watcher, target, killing>>

\* Mutant: the connection goes back while the watcher may still be killing.
Return_NoWait(c) ==
  /\ watcher[c] # "watching"
  /\ Over(c, "waiting")
  /\ GiveBack(conn[c])
  /\ UNCHANGED <<watcher, target, killing>>
\* The watcher has finished.  The connection goes back, then the call's own
\* context ends, which nobody watches any more.
Return(c) ==
  /\ watcher[c] = "none"
  /\ Over(c, "waiting")
  /\ GiveBack(conn[c])
  /\ UNCHANGED <<watcher, target, killing>>

-----------------------------------------------------------------------------
(* The watcher.                                                             *)

Watch(c, from, to) ==
  /\ watcher[c] = from
  /\ watcher' = [watcher EXCEPT ![c] = to]
  /\ UNCHANGED <<connections, pc, conn, ended, target>>

\* The select takes either case when both are ready: a watcher that is slow to
\* run may find that the context has ended and the read too, and kill nothing.
Dismiss(c) ==
  /\ pc[c] = "waiting"
  /\ Watch(c, "watching", "none")
  /\ walkedAway' = IF c \in ended THEN walkedAway \cup {target[c]} ELSE walkedAway
  /\ UNCHANGED <<control, late, statement, stray>>
Wake(c) == c \in ended /\ Watch(c, "watching", "killing") /\ UNCHANGED killing

\* Mutant: the KILL goes out on a connection of the pool.
SendKill_SharedPool(c) ==
  /\ control = Nobody
  /\ idle # {} \/ Cardinality(pool) < MaxOpenConns
  /\ control' = c
  /\ Watch(c, "killing", "sent")
  /\ UNCHANGED <<late, statement, walkedAway, stray>>
SendKill(c) ==
  /\ control = Nobody
  /\ control' = c
  /\ Watch(c, "killing", "sent")
  /\ UNCHANGED <<late, statement, walkedAway, stray>>

\* The source kills, and answers.
ExecuteKill(c) ==
  /\ Watch(c, "sent", "none")
  /\ statement' = [statement EXCEPT ![target[c]] = Nobody]
  /\ stray' = (stray \/ statement[target[c]] \notin {c, Nobody})
  /\ control' = Nobody
  /\ UNCHANGED <<late, walkedAway>>

\* Mutant: only the wait for the control connection is limited.
KillTimesOut_Queued(c) ==
  /\ Watch(c, "killing", "none")
  /\ walkedAway' = walkedAway \cup {target[c]}
  /\ UNCHANGED <<control, late, statement, stray>>
\* The watcher stops waiting after killTimeout, or the KILL fails.  One that is
\* out may still arrive.
KillTimesOut(c) ==
  /\ \/ Watch(c, "killing", "none") /\ UNCHANGED <<control, late>>
     \/ /\ Watch(c, "sent", "none")
        /\ control' = Nobody
        /\ late' \in {late, late \cup {target[c]}}
  /\ walkedAway' = walkedAway \cup {target[c]}
  /\ UNCHANGED <<statement, stray>>

-----------------------------------------------------------------------------
(* The source.                                                              *)

Finish(s) ==
  /\ statement[s] # Nobody
  /\ statement' = [statement EXCEPT ![s] = Nobody]
  /\ UNCHANGED <<connections, pc, conn, ended, watcher, target, control, late, walkedAway, stray>>

LateKill(s) ==
  /\ s \in late
  /\ late' = late \ {s}
  /\ statement' = [statement EXCEPT ![s] = Nobody]
  /\ UNCHANGED <<connections, pc, conn, ended, watcher, target, control, walkedAway, stray>>

Next ==
  \/ \E c \in Calls :
       \/ Begin(c) \/ EndContext(c) \/ Borrow(c) \/ BorrowFails(c)
       \/ Identify(c) \/ IdentifyFails(c) \/ Query(c) \/ ReadToEnd(c) \/ HangUp(c)
       \/ Stop(c) \/ Return(c)
       \/ Dismiss(c) \/ Wake(c) \/ SendKill(c) \/ ExecuteKill(c) \/ KillTimesOut(c)
  \/ \E s \in Sessions : Finish(s) \/ LateKill(s)

Spec == Init /\ [][Next]_vars

\* Every call runs on, its timeout passes, and so does its watcher.  Nothing is
\* assumed of the source.
Proceed(c) ==
  (c \in ended /\ BorrowFails(c)) \/ Identify(c) \/ Query(c) \/ HangUp(c) \/ Stop(c) \/ Return(c)

Fairness ==
  \A c \in Calls :
    /\ WF_vars(EndContext(c)) /\ WF_vars(Proceed(c))
    /\ WF_vars(Dismiss(c) \/ Wake(c)) /\ SF_vars(SendKill(c))

LiveSpec == Spec /\ Fairness

-----------------------------------------------------------------------------
(* Properties.                                                              *)

Holds(c) == conn[c] \in pool
Running(c) == target[c] \in Sessions /\ statement[target[c]] = c

TypeOK ==
  /\ opened \subseteq Sessions /\ pool \subseteq opened /\ idle \subseteq pool
  /\ broken \subseteq pool \ idle
  /\ pc \in [Calls -> Steps]
  /\ conn \in [Calls -> Sessions \cup {NoSession}]
  /\ ended \subseteq Calls /\ walkedAway \subseteq Sessions
  /\ watcher \in [Calls -> {"none", "watching", "killing", "sent"}]
  /\ target \in [Calls -> Sessions \cup {NoSession}]
  /\ control \in Calls \cup {Nobody}
  /\ late \subseteq Sessions
  /\ statement \in [Sessions -> Calls \cup {Nobody}]
  /\ stray \in BOOLEAN

\* A KILL whose sender still waits for it stops the statement of its own call
\* or none, though the connection is shared by many calls in turn and the
\* context may end just as the statement does.  One that came after the sender
\* gave up may hit another's.
KillsHitTheirOwn == ~stray

\* On every path, failures included, a connection that is open is idle or held
\* by exactly one call, and the pool is never larger than it may be.
NoConnectionLeaks ==
  /\ Cardinality(pool) <= MaxOpenConns
  /\ pool \ idle = {conn[c] : c \in {d \in Calls : Holds(d)}}
  /\ \A c, d \in Calls : Holds(c) /\ conn[c] = conn[d] => c = d

\* A call returns whatever the source does: its own timeout ends the read, and
\* the timeout of the KILL ends the wait for the watcher.
EveryCallReturns ==
  (\A c \in Calls : WF_vars(KillTimesOut(c))) => \A c \in Calls : pc[c] # "idle" ~> pc[c] = "idle"

\* Cancellation is not walking away.  While a statement runs at the source a
\* watcher is there to stop it, unless its KILL was not answered in time or the
\* watcher was dismissed though the context had ended.
NothingRunsUnattended ==
  \A s \in Sessions : statement[s] # Nobody =>
    s \in walkedAway \/ \E c \in Calls : target[c] = s /\ watcher[c] # "none"

\* If the source acts on the KILLs that reach it, a KILL the watcher has decided
\* on stops the statement, however many connections are busy with statements
\* that never end, or is given up.
KillsGoThrough ==
  (\A c \in Calls : WF_vars(ExecuteKill(c))) =>
    \A c \in Calls :
      (watcher[c] = "killing" /\ Running(c)) ~> (~Running(c) \/ target[c] \in walkedAway)
==============================================================================
