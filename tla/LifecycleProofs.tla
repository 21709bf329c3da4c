-------------------------- MODULE LifecycleProofs ----------------------------
(***************************************************************************)
(* What holds of QueryLifecycle for any number of executions and           *)
(* processes: types, that work at the source is accounted for, that        *)
(* nothing is left behind, that only what was asked for is killed, that    *)
(* the log keeps its promise, and that a watched query looks alive.        *)
(*                                                                         *)
(* The invariant says of each resource at exactly which statements an      *)
(* execution holds it, what its row says there, that kills under way were  *)
(* asked for, and how old a heartbeat can be in each part of an interval.  *)
(***************************************************************************)
EXTENDS QueryLifecycle, TLAPS

WithStream == {"starting", "reading", "ended", "finish", "unwatch"}
WithSlot == {"admitted", "opened", "logged", "release",
             "f_finish", "f_close", "f_release"} \cup WithStream
WithConnector == {"opened", "logged", "release", "close", "f_finish", "f_close"}
                 \cup WithStream
Unwritten == {"idle", "admitted", "opened"}
Unfinished == {"logged", "starting", "reading", "ended", "finish", "f_finish",
               "replay", "r_finish"}

Resources ==
  \A q \in Queries :
    /\ q \in held <=> pc[q] \in WithSlot
    /\ q \in open <=> pc[q] \in WithConnector
    /\ q \in watched <=> pc[q] \in WithStream

Rows ==
  \A q \in Queries :
    /\ pc[q] \in Unwritten => row[q] = "absent"
    /\ pc[q] \in Unfinished => row[q] = "running"
    /\ pc[q] = "f_finish" => err[q] # "none"

Contexts ==
  \A q \in Queries :
    (cause[q] = "live" /\ pc[q] # "dead") => pc[q] \in WithSlot

Kills ==
  /\ KillsWereAsked
  /\ \A p \in Owners : todo[p] \subseteq asked /\ grabbed[p] \subseteq asked

(* A row is written in the interval in which its query becomes watched, and *)
(* beaten for once in every later interval until its process is to stop.    *)
Beats ==
  \A q \in Queries :
    /\ pc[q] = "logged" => seen[q] = now
    /\ (q \in watched /\ row[q] = "running") =>
         /\ ~Stopping(q) => seen[q] >= now - 1
         /\ ~Stopping(q) /\ OwnerOf[q] \in beaten => seen[q] = now
         /\ Stopping(q) => seen[q] >= told[OwnerOf[q]] - 1
    /\ q \in watched => Alive(q)
    /\ told[OwnerOf[q]] <= now

IInv == TypeOK /\ Resources /\ Rows /\ Contexts /\ Kills /\ Beats

-----------------------------------------------------------------------------
(* A step of q takes q from one statement to the next, and nobody else.     *)
LEMMA StepMoves ==
  ASSUME pc \in [Queries -> Phases], NEW q \in Queries, NEW from,
         NEW to \in Phases, Step(q, from, to)
  PROVE  /\ pc[q] = from /\ pc'[q] = to /\ pc' \in [Queries -> Phases]
         /\ \A x \in Queries \ {q} : pc'[x] = pc[x]
         /\ OwnerOf[q] \in up
BY DEF Step, Alive

(* Canceling takes only a live context, and only q's.                       *)
LEMMA CanceledOnly ==
  ASSUME TypeOK, NEW q \in Queries, NEW why \in {"left", "killed", "done"},
         Canceled(q, why)
  PROVE  /\ cause' \in [Queries -> {"none", "live", "left", "killed", "done"}]
         /\ cause'[q] # "live"
         /\ cause'[q] \in {cause[q], why}
         /\ \A x \in Queries \ {q} : cause'[x] = cause[x]
BY DEF Canceled, TypeOK

LEMMA AdmitPreserves ==
  ASSUME IInv, NEW q \in Queries, Admit(q)
  PROVE  IInv'
<1>1. /\ pc[q] = "idle" /\ pc'[q] = "admitted" /\ pc' \in [Queries -> Phases]
      /\ \A x \in Queries \ {q} : pc'[x] = pc[x]
  BY StepMoves DEF Admit, IInv, TypeOK, Phases
<1>2. /\ held' = held \cup {q}
      /\ cause' = [cause EXCEPT ![q] = "live"]
      /\ UNCHANGED <<row, asked, seen, err, watched, open, up, todo, grabbed,
                     beaten, told, now>>
  BY DEF Admit, logVars, supVars
<1>3. TypeOK'
  BY <1>1, <1>2 DEF IInv, TypeOK
<1>4. Resources'
  BY <1>1, <1>2 DEF IInv, Resources, WithSlot, WithStream, WithConnector
<1>5. Rows'
  BY <1>1, <1>2 DEF IInv, Rows, Unwritten, Unfinished
<1>6. Contexts' /\ Kills'
  BY <1>1, <1>2 DEF IInv, TypeOK, Contexts, Kills, KillsWereAsked, WithSlot, WithStream
<1>7. Beats'
  BY <1>1, <1>2 DEF IInv, Beats, Alive, Stopping
<1> QED BY <1>3, <1>4, <1>5, <1>6, <1>7 DEF IInv

LEMMA OpenPreserves ==
  ASSUME IInv, NEW q \in Queries, Open(q)
  PROVE  IInv'
<1>1. /\ pc[q] = "admitted" /\ pc' \in [Queries -> Phases]
      /\ \/ pc'[q] = "opened" /\ open' = open \cup {q}
         \/ pc'[q] = "f_release" /\ open' = open
      /\ \A x \in Queries \ {q} : pc'[x] = pc[x]
  BY StepMoves DEF Open, IInv, TypeOK, Phases, Failing
<1>2. UNCHANGED <<row, asked, seen, err, cause, watched, held, up, todo, grabbed,
                  beaten, told, now>>
  BY DEF Open, logVars, supVars
<1>3. TypeOK'
  BY <1>1, <1>2 DEF IInv, TypeOK
<1>4. Resources'
  BY <1>1, <1>2 DEF IInv, Resources, WithSlot, WithStream, WithConnector
<1>5. Rows'
  BY <1>1, <1>2 DEF IInv, Rows, Unwritten, Unfinished
<1>6. Contexts' /\ Kills'
  BY <1>1, <1>2 DEF IInv, Contexts, Kills, KillsWereAsked, WithSlot, WithStream
<1>7. Beats'
  BY <1>1, <1>2 DEF IInv, Beats, Alive, Stopping
<1> QED BY <1>3, <1>4, <1>5, <1>6, <1>7 DEF IInv

LEMMA LogPreserves ==
  ASSUME IInv, NEW q \in Queries, Log(q)
  PROVE  IInv'
<1>1. /\ pc[q] = "opened" /\ pc' \in [Queries -> Phases]
      /\ \/ /\ pc'[q] = "logged" /\ open' = open
            /\ row' = [row EXCEPT ![q] = "running"]
            /\ seen' = [seen EXCEPT ![q] = now]
         \/ /\ pc'[q] = "f_release" /\ open' = open \ {q}
            /\ row' = row /\ seen' = seen
      /\ \A x \in Queries \ {q} : pc'[x] = pc[x]
  BY StepMoves DEF Log, Insert, logVars, IInv, TypeOK, Phases, Failing
<1>2. UNCHANGED <<asked, err, cause, watched, held, up, todo, grabbed, beaten, told, now>>
  BY DEF Log, Insert, logVars, supVars
<1>3. TypeOK'
  BY <1>1, <1>2 DEF IInv, TypeOK
<1>4. Resources'
  BY <1>1, <1>2 DEF IInv, Resources, WithSlot, WithStream, WithConnector
<1>5. Rows'
  BY <1>1, <1>2 DEF IInv, TypeOK, Rows, Unwritten, Unfinished
<1>6. Contexts' /\ Kills'
  BY <1>1, <1>2 DEF IInv, Contexts, Kills, KillsWereAsked, WithSlot, WithStream
<1>7. Beats'
  BY <1>1, <1>2 DEF IInv, TypeOK, Beats, Alive, Stopping, Resources, WithStream
<1> QED BY <1>3, <1>4, <1>5, <1>6, <1>7 DEF IInv

LEMMA WatchPreserves ==
  ASSUME IInv, NEW q \in Queries, Watch(q)
  PROVE  IInv'
<1>1. /\ pc[q] = "logged" /\ pc'[q] = "starting" /\ pc' \in [Queries -> Phases]
      /\ \A x \in Queries \ {q} : pc'[x] = pc[x]
      /\ OwnerOf[q] \in up
  BY StepMoves DEF Watch, IInv, TypeOK, Phases, Closing, Failing
<1>2. /\ UNCHANGED <<row, asked, seen, err, cause, held, open, up, todo,
                  grabbed, beaten, told, now>>
      /\ watched' = watched \cup {q}
  BY DEF Watch, logVars, supVars
<1>3. TypeOK'
  BY <1>1, <1>2 DEF IInv, TypeOK
<1>4. Resources'
  BY <1>1, <1>2 DEF IInv, Resources, WithSlot, WithStream, WithConnector
<1>5. Rows'
  BY <1>1, <1>2 DEF IInv, TypeOK, Rows, Unwritten, Unfinished
<1>6. Contexts' /\ Kills'
  BY <1>1, <1>2 DEF IInv, TypeOK, Contexts, Kills, KillsWereAsked, WithSlot, WithStream
<1>7. Beats'
  BY <1>1, <1>2 DEF IInv, TypeOK, Beats, Alive, Stopping, Resources, WithStream
<1> QED BY <1>3, <1>4, <1>5, <1>6, <1>7 DEF IInv

LEMMA StartedPreserves ==
  ASSUME IInv, NEW q \in Queries, Started(q)
  PROVE  IInv'
<1>1. /\ pc[q] = "starting" /\ pc'[q] = "reading" /\ pc' \in [Queries -> Phases]
      /\ \A x \in Queries \ {q} : pc'[x] = pc[x]
  BY StepMoves DEF Started, IInv, TypeOK, Phases, Closing, Failing
<1>2. /\ UNCHANGED <<row, asked, seen, err, cause, watched, held, open, up,
                  todo, grabbed, beaten, told, now>>
  BY DEF Started, logVars, supVars
<1>3. TypeOK'
  BY <1>1, <1>2 DEF IInv, TypeOK
<1>4. Resources'
  BY <1>1, <1>2 DEF IInv, Resources, WithSlot, WithStream, WithConnector
<1>5. Rows'
  BY <1>1, <1>2 DEF IInv, TypeOK, Rows, Unwritten, Unfinished
<1>6. Contexts' /\ Kills'
  BY <1>1, <1>2 DEF IInv, TypeOK, Contexts, Kills, KillsWereAsked, WithSlot, WithStream
<1>7. Beats'
  BY <1>1, <1>2 DEF IInv, TypeOK, Beats, Alive, Stopping, Resources, WithStream
<1> QED BY <1>3, <1>4, <1>5, <1>6, <1>7 DEF IInv

LEMMA StartFailsPreserves ==
  ASSUME IInv, NEW q \in Queries, StartFails(q)
  PROVE  IInv'
<1>1. /\ pc[q] = "starting" /\ pc'[q] = "f_finish" /\ pc' \in [Queries -> Phases]
      /\ \A x \in Queries \ {q} : pc'[x] = pc[x]
  BY StepMoves DEF StartFails, IInv, TypeOK, Phases, Closing, Failing
<1>2. /\ UNCHANGED <<row, asked, seen, held, open, up, todo, grabbed, beaten,
                  told, now>>
      /\ \E e \in Trouble(q) : err' = [err EXCEPT ![q] = e]
      /\ watched' = watched \ {q}
      /\ cause' \in [Queries -> {"none", "live", "left", "killed", "done"}]
      /\ cause'[q] # "live" /\ cause'[q] \in {cause[q], "done"}
      /\ \A x \in Queries \ {q} : cause'[x] = cause[x]
  BY CanceledOnly DEF StartFails, logVars, supVars, IInv
<1>3. TypeOK'
  BY <1>1, <1>2 DEF IInv, TypeOK, Trouble
<1>4. Resources'
  BY <1>1, <1>2 DEF IInv, Resources, WithSlot, WithStream, WithConnector
<1>5. Rows'
  BY <1>1, <1>2 DEF IInv, TypeOK, Rows, Unwritten, Unfinished, Trouble
<1>6. Contexts' /\ Kills'
  BY <1>1, <1>2 DEF IInv, TypeOK, Contexts, Kills, KillsWereAsked, WithSlot, WithStream
<1>7. Beats'
  BY <1>1, <1>2 DEF IInv, TypeOK, Beats, Alive, Stopping, Resources, WithStream
<1> QED BY <1>3, <1>4, <1>5, <1>6, <1>7 DEF IInv

LEMMA FinishFailedPreserves ==
  ASSUME IInv, NEW q \in Queries, FinishFailed(q)
  PROVE  IInv'
<1>1. /\ pc[q] = "f_finish" /\ pc'[q] = "f_close" /\ pc' \in [Queries -> Phases]
      /\ \A x \in Queries \ {q} : pc'[x] = pc[x]
  BY StepMoves DEF FinishFailed, IInv, TypeOK, Phases, Closing, Failing
<1>2. /\ UNCHANGED <<asked, seen, err, cause, watched, held, open, up, todo,
                  grabbed, beaten, told, now>>
      /\ row' = [row EXCEPT ![q] = err[q]] \/ row' = row
  BY DEF FinishFailed, logVars, supVars, Record
<1>3. TypeOK'
  BY <1>1, <1>2 DEF IInv, TypeOK, Outcomes, Rows
<1>4. Resources'
  BY <1>1, <1>2 DEF IInv, Resources, WithSlot, WithStream, WithConnector
<1>5. Rows'
  BY <1>1, <1>2 DEF IInv, TypeOK, Rows, Unwritten, Unfinished
<1>6. Contexts' /\ Kills'
  BY <1>1, <1>2 DEF IInv, TypeOK, Contexts, Kills, KillsWereAsked, WithSlot, WithStream
<1>7. Beats'
  BY <1>1, <1>2 DEF IInv, TypeOK, Beats, Alive, Stopping, Resources, WithStream
<1> QED BY <1>3, <1>4, <1>5, <1>6, <1>7 DEF IInv

LEMMA CloseFailedPreserves ==
  ASSUME IInv, NEW q \in Queries, CloseFailed(q)
  PROVE  IInv'
<1>1. /\ pc[q] = "f_close" /\ pc'[q] = "f_release" /\ pc' \in [Queries -> Phases]
      /\ \A x \in Queries \ {q} : pc'[x] = pc[x]
  BY StepMoves DEF CloseFailed, IInv, TypeOK, Phases, Closing, Failing
<1>2. /\ UNCHANGED <<row, asked, seen, err, cause, watched, held, up, todo,
                  grabbed, beaten, told, now>>
      /\ open' = open \ {q}
  BY DEF CloseFailed, logVars, supVars
<1>3. TypeOK'
  BY <1>1, <1>2 DEF IInv, TypeOK
<1>4. Resources'
  BY <1>1, <1>2 DEF IInv, Resources, WithSlot, WithStream, WithConnector
<1>5. Rows'
  BY <1>1, <1>2 DEF IInv, TypeOK, Rows, Unwritten, Unfinished
<1>6. Contexts' /\ Kills'
  BY <1>1, <1>2 DEF IInv, TypeOK, Contexts, Kills, KillsWereAsked, WithSlot, WithStream
<1>7. Beats'
  BY <1>1, <1>2 DEF IInv, TypeOK, Beats, Alive, Stopping, Resources, WithStream
<1> QED BY <1>3, <1>4, <1>5, <1>6, <1>7 DEF IInv

LEMMA ReleaseFailedPreserves ==
  ASSUME IInv, NEW q \in Queries, ReleaseFailed(q)
  PROVE  IInv'
<1>1. /\ pc[q] = "f_release" /\ pc'[q] = "over" /\ pc' \in [Queries -> Phases]
      /\ \A x \in Queries \ {q} : pc'[x] = pc[x]
  BY StepMoves DEF ReleaseFailed, IInv, TypeOK, Phases, Closing, Failing
<1>2. /\ UNCHANGED <<row, asked, seen, err, watched, open, up, todo, grabbed,
                  beaten, told, now>>
      /\ held' = held \ {q}
      /\ cause' \in [Queries -> {"none", "live", "left", "killed", "done"}]
      /\ cause'[q] # "live" /\ cause'[q] \in {cause[q], "done"}
      /\ \A x \in Queries \ {q} : cause'[x] = cause[x]
  BY CanceledOnly DEF ReleaseFailed, logVars, supVars, IInv
<1>3. TypeOK'
  BY <1>1, <1>2 DEF IInv, TypeOK
<1>4. Resources'
  BY <1>1, <1>2 DEF IInv, Resources, WithSlot, WithStream, WithConnector
<1>5. Rows'
  BY <1>1, <1>2 DEF IInv, TypeOK, Rows, Unwritten, Unfinished
<1>6. Contexts' /\ Kills'
  BY <1>1, <1>2 DEF IInv, TypeOK, Contexts, Kills, KillsWereAsked, WithSlot, WithStream
<1>7. Beats'
  BY <1>1, <1>2 DEF IInv, TypeOK, Beats, Alive, Stopping, Resources, WithStream
<1> QED BY <1>3, <1>4, <1>5, <1>6, <1>7 DEF IInv

LEMMA EndsPreserves ==
  ASSUME IInv, NEW q \in Queries, Ends(q)
  PROVE  IInv'
<1>1. /\ pc[q] = "reading" /\ pc'[q] = "ended" /\ pc' \in [Queries -> Phases]
      /\ \A x \in Queries \ {q} : pc'[x] = pc[x]
  BY StepMoves DEF Ends, IInv, TypeOK, Phases, Closing, Failing
<1>2. /\ UNCHANGED <<row, asked, seen, cause, watched, held, open, up, todo,
                  grabbed, beaten, told, now>>
      /\ \E e \in {"none"} \cup Trouble(q) : err' = [err EXCEPT ![q] = e]
  BY DEF Ends, logVars, supVars
<1>3. TypeOK'
  BY <1>1, <1>2 DEF IInv, TypeOK, Trouble
<1>4. Resources'
  BY <1>1, <1>2 DEF IInv, Resources, WithSlot, WithStream, WithConnector
<1>5. Rows'
  BY <1>1, <1>2 DEF IInv, TypeOK, Rows, Unwritten, Unfinished, Trouble
<1>6. Contexts' /\ Kills'
  BY <1>1, <1>2 DEF IInv, TypeOK, Contexts, Kills, KillsWereAsked, WithSlot, WithStream
<1>7. Beats'
  BY <1>1, <1>2 DEF IInv, TypeOK, Beats, Alive, Stopping, Resources, WithStream
<1> QED BY <1>3, <1>4, <1>5, <1>6, <1>7 DEF IInv

LEMMA ClosePreserves ==
  ASSUME IInv, NEW q \in Queries, Close(q)
  PROVE  IInv'
<1>1. /\ pc[q] \in {"reading", "ended"} /\ pc'[q] = "finish" /\ pc' \in [Queries -> Phases]
      /\ \A x \in Queries \ {q} : pc'[x] = pc[x]
  BY StepMoves DEF Close, IInv, TypeOK, Phases, Closing, Failing
<1>2. /\ UNCHANGED <<row, asked, seen, cause, watched, held, open, up, todo,
                  grabbed, beaten, told, now>>
      /\ err' = err \/ \E e \in Trouble(q) : err' = [err EXCEPT ![q] = e]
  BY DEF Close, logVars, supVars
<1>3. TypeOK'
  BY <1>1, <1>2 DEF IInv, TypeOK, Trouble
<1>4. Resources'
  BY <1>1, <1>2 DEF IInv, Resources, WithSlot, WithStream, WithConnector
<1>5. Rows'
  BY <1>1, <1>2 DEF IInv, TypeOK, Rows, Unwritten, Unfinished, Trouble
<1>6. Contexts' /\ Kills'
  BY <1>1, <1>2 DEF IInv, TypeOK, Contexts, Kills, KillsWereAsked, WithSlot, WithStream
<1>7. Beats'
  BY <1>1, <1>2 DEF IInv, TypeOK, Beats, Alive, Stopping, Resources, WithStream
<1> QED BY <1>3, <1>4, <1>5, <1>6, <1>7 DEF IInv

LEMMA FinishPreserves ==
  ASSUME IInv, NEW q \in Queries, Finish(q)
  PROVE  IInv'
<1>1. /\ pc[q] = "finish" /\ pc'[q] = "unwatch" /\ pc' \in [Queries -> Phases]
      /\ \A x \in Queries \ {q} : pc'[x] = pc[x]
  BY StepMoves DEF Finish, IInv, TypeOK, Phases, Closing, Failing
<1>2. /\ UNCHANGED <<asked, seen, err, cause, watched, held, open, up, todo,
                  grabbed, beaten, told, now>>
      /\ row' = [row EXCEPT ![q] = Outcome(q)] \/ row' = row
  BY DEF Finish, logVars, supVars, Record
<1>3. TypeOK'
  BY <1>1, <1>2 DEF IInv, TypeOK, Outcomes, Outcome
<1>4. Resources'
  BY <1>1, <1>2 DEF IInv, Resources, WithSlot, WithStream, WithConnector
<1>5. Rows'
  BY <1>1, <1>2 DEF IInv, TypeOK, Rows, Unwritten, Unfinished
<1>6. Contexts' /\ Kills'
  BY <1>1, <1>2 DEF IInv, TypeOK, Contexts, Kills, KillsWereAsked, WithSlot, WithStream
<1>7. Beats'
  BY <1>1, <1>2 DEF IInv, TypeOK, Beats, Alive, Stopping, Rows, Unfinished
<1> QED BY <1>3, <1>4, <1>5, <1>6, <1>7 DEF IInv

LEMMA UnwatchPreserves ==
  ASSUME IInv, NEW q \in Queries, Unwatch(q)
  PROVE  IInv'
<1>1. /\ pc[q] = "unwatch" /\ pc'[q] = "release" /\ pc' \in [Queries -> Phases]
      /\ \A x \in Queries \ {q} : pc'[x] = pc[x]
  BY StepMoves DEF Unwatch, IInv, TypeOK, Phases, Closing, Failing
<1>2. /\ UNCHANGED <<row, asked, seen, err, cause, held, open, up, todo,
                  grabbed, beaten, told, now>>
      /\ watched' = watched \ {q}
  BY DEF Unwatch, logVars, supVars
<1>3. TypeOK'
  BY <1>1, <1>2 DEF IInv, TypeOK
<1>4. Resources'
  BY <1>1, <1>2 DEF IInv, Resources, WithSlot, WithStream, WithConnector
<1>5. Rows'
  BY <1>1, <1>2 DEF IInv, TypeOK, Rows, Unwritten, Unfinished
<1>6. Contexts' /\ Kills'
  BY <1>1, <1>2 DEF IInv, TypeOK, Contexts, Kills, KillsWereAsked, WithSlot, WithStream
<1>7. Beats'
  BY <1>1, <1>2 DEF IInv, TypeOK, Beats, Alive, Stopping, Resources, WithStream
<1> QED BY <1>3, <1>4, <1>5, <1>6, <1>7 DEF IInv

LEMMA ReleasePreserves ==
  ASSUME IInv, NEW q \in Queries, Release(q)
  PROVE  IInv'
<1>1. /\ pc[q] = "release" /\ pc'[q] = "close" /\ pc' \in [Queries -> Phases]
      /\ \A x \in Queries \ {q} : pc'[x] = pc[x]
  BY StepMoves DEF Release, IInv, TypeOK, Phases, Closing, Failing
<1>2. /\ UNCHANGED <<row, asked, seen, err, watched, open, up, todo, grabbed,
                  beaten, told, now>>
      /\ held' = held \ {q}
      /\ cause' \in [Queries -> {"none", "live", "left", "killed", "done"}]
      /\ cause'[q] # "live" /\ cause'[q] \in {cause[q], "done"}
      /\ \A x \in Queries \ {q} : cause'[x] = cause[x]
  BY CanceledOnly DEF Release, logVars, supVars, IInv
<1>3. TypeOK'
  BY <1>1, <1>2 DEF IInv, TypeOK
<1>4. Resources'
  BY <1>1, <1>2 DEF IInv, Resources, WithSlot, WithStream, WithConnector
<1>5. Rows'
  BY <1>1, <1>2 DEF IInv, TypeOK, Rows, Unwritten, Unfinished
<1>6. Contexts' /\ Kills'
  BY <1>1, <1>2 DEF IInv, TypeOK, Contexts, Kills, KillsWereAsked, WithSlot, WithStream
<1>7. Beats'
  BY <1>1, <1>2 DEF IInv, TypeOK, Beats, Alive, Stopping, Resources, WithStream
<1> QED BY <1>3, <1>4, <1>5, <1>6, <1>7 DEF IInv

LEMMA CloseConnectorPreserves ==
  ASSUME IInv, NEW q \in Queries, CloseConnector(q)
  PROVE  IInv'
<1>1. /\ pc[q] = "close" /\ pc'[q] = "over" /\ pc' \in [Queries -> Phases]
      /\ \A x \in Queries \ {q} : pc'[x] = pc[x]
  BY StepMoves DEF CloseConnector, IInv, TypeOK, Phases, Closing, Failing
<1>2. /\ UNCHANGED <<row, asked, seen, err, cause, watched, held, up, todo,
                  grabbed, beaten, told, now>>
      /\ open' = open \ {q}
  BY DEF CloseConnector, logVars, supVars
<1>3. TypeOK'
  BY <1>1, <1>2 DEF IInv, TypeOK
<1>4. Resources'
  BY <1>1, <1>2 DEF IInv, Resources, WithSlot, WithStream, WithConnector
<1>5. Rows'
  BY <1>1, <1>2 DEF IInv, TypeOK, Rows, Unwritten, Unfinished
<1>6. Contexts' /\ Kills'
  BY <1>1, <1>2 DEF IInv, TypeOK, Contexts, Kills, KillsWereAsked, WithSlot, WithStream
<1>7. Beats'
  BY <1>1, <1>2 DEF IInv, TypeOK, Beats, Alive, Stopping, Resources, WithStream
<1> QED BY <1>3, <1>4, <1>5, <1>6, <1>7 DEF IInv

LEMMA CloseReplayPreserves ==
  ASSUME IInv, NEW q \in Queries, CloseReplay(q)
  PROVE  IInv'
<1>1. /\ pc[q] = "replay" /\ pc'[q] = "r_finish" /\ pc' \in [Queries -> Phases]
      /\ \A x \in Queries \ {q} : pc'[x] = pc[x]
  BY StepMoves DEF CloseReplay, IInv, TypeOK, Phases, Closing, Failing
<1>2. /\ UNCHANGED <<row, asked, seen, err, cause, watched, held, open, up,
                  todo, grabbed, beaten, told, now>>
  BY DEF CloseReplay, logVars, supVars
<1>3. TypeOK'
  BY <1>1, <1>2 DEF IInv, TypeOK
<1>4. Resources'
  BY <1>1, <1>2 DEF IInv, Resources, WithSlot, WithStream, WithConnector
<1>5. Rows'
  BY <1>1, <1>2 DEF IInv, TypeOK, Rows, Unwritten, Unfinished
<1>6. Contexts' /\ Kills'
  BY <1>1, <1>2 DEF IInv, TypeOK, Contexts, Kills, KillsWereAsked, WithSlot, WithStream
<1>7. Beats'
  BY <1>1, <1>2 DEF IInv, TypeOK, Beats, Alive, Stopping, Resources, WithStream
<1> QED BY <1>3, <1>4, <1>5, <1>6, <1>7 DEF IInv

LEMMA FinishReplayPreserves ==
  ASSUME IInv, NEW q \in Queries, FinishReplay(q)
  PROVE  IInv'
<1>1. /\ pc[q] = "r_finish" /\ pc'[q] = "over" /\ pc' \in [Queries -> Phases]
      /\ \A x \in Queries \ {q} : pc'[x] = pc[x]
  BY StepMoves DEF FinishReplay, IInv, TypeOK, Phases, Closing, Failing
<1>2. /\ UNCHANGED <<asked, seen, err, cause, watched, held, open, up, todo,
                  grabbed, beaten, told, now>>
      /\ row' = [row EXCEPT ![q] = "succeeded"] \/ row' = row
  BY DEF FinishReplay, logVars, supVars, Record
<1>3. TypeOK'
  BY <1>1, <1>2 DEF IInv, TypeOK, Outcomes
<1>4. Resources'
  BY <1>1, <1>2 DEF IInv, Resources, WithSlot, WithStream, WithConnector
<1>5. Rows'
  BY <1>1, <1>2 DEF IInv, TypeOK, Rows, Unwritten, Unfinished
<1>6. Contexts' /\ Kills'
  BY <1>1, <1>2 DEF IInv, TypeOK, Contexts, Kills, KillsWereAsked, WithSlot, WithStream
<1>7. Beats'
  BY <1>1, <1>2 DEF IInv, TypeOK, Beats, Alive, Stopping, Resources, WithStream
<1> QED BY <1>3, <1>4, <1>5, <1>6, <1>7 DEF IInv

LEMMA ServePreserves ==
  ASSUME IInv, NEW q \in Queries, Serve(q)
  PROVE  IInv'
<1>1. /\ pc[q] = "idle" /\ pc' \in [Queries -> Phases]
      /\ \/ /\ pc'[q] = "replay"
            /\ row' = [row EXCEPT ![q] = "running"]
            /\ seen' = [seen EXCEPT ![q] = now]
         \/ pc'[q] = "over" /\ row' = row /\ seen' = seen
      /\ \A x \in Queries \ {q} : pc'[x] = pc[x]
  BY StepMoves DEF Serve, Insert, logVars, IInv, TypeOK, Phases
<1>2. UNCHANGED <<asked, err, cause, watched, held, open, up, todo, grabbed,
                  beaten, told, now>>
  BY DEF Serve, Insert, logVars, supVars
<1>3. TypeOK'
  BY <1>1, <1>2 DEF IInv, TypeOK
<1>4. Resources'
  BY <1>1, <1>2 DEF IInv, Resources, WithSlot, WithStream, WithConnector
<1>5. Rows'
  BY <1>1, <1>2 DEF IInv, TypeOK, Rows, Unwritten, Unfinished
<1>6. Contexts' /\ Kills'
  BY <1>1, <1>2 DEF IInv, Contexts, Kills, KillsWereAsked, WithSlot, WithStream
<1>7. Beats'
  BY <1>1, <1>2 DEF IInv, TypeOK, Beats, Alive, Stopping, Resources, WithStream
<1> QED BY <1>3, <1>4, <1>5, <1>6, <1>7 DEF IInv

(* A caller who leaves, and a kill that lands, take the context and nothing *)
(* else of an execution.                                                    *)
LEMMA LeavePreserves ==
  ASSUME IInv, NEW q \in Queries, Leave(q)
  PROVE  IInv'
<1>1. /\ cause' \in [Queries -> {"none", "live", "left", "killed", "done"}]
      /\ cause'[q] # "live" /\ cause'[q] \in {cause[q], "left"}
      /\ \A x \in Queries \ {q} : cause'[x] = cause[x]
  BY CanceledOnly DEF Leave, IInv
<1>2. UNCHANGED <<row, asked, seen, pc, err, watched, held, open, up, todo,
                  grabbed, beaten, told, now>>
  BY DEF Leave, logVars, supVars
<1>3. TypeOK' /\ Resources' /\ Rows' /\ Beats'
  BY <1>1, <1>2 DEF IInv, TypeOK, Resources, Rows, Beats, Alive, Stopping
<1>4. Contexts' /\ Kills'
  BY <1>1, <1>2 DEF IInv, TypeOK, Contexts, Kills, KillsWereAsked
<1> QED BY <1>3, <1>4 DEF IInv

LEMMA AskPreserves ==
  ASSUME IInv, NEW q \in Queries, Ask(q)
  PROVE  IInv'
<1>1. /\ asked' = asked \cup {q}
      /\ UNCHANGED <<row, seen, pc, err, cause, watched, held, open, up, todo,
                     grabbed, beaten, told, now>>
  BY DEF Ask, supVars
<1> QED BY <1>1 DEF IInv, TypeOK, Resources, Rows, Contexts, Kills, KillsWereAsked,
                    Beats, Alive, Stopping

LEMMA PollPreserves ==
  ASSUME IInv, NEW p \in Owners, Poll(p)
  PROVE  IInv'
<1>1. /\ todo' = [todo EXCEPT ![p] =
           {q \in Own(p) : row[q] = "running" /\ q \in asked}]
      /\ UNCHANGED <<row, asked, seen, pc, err, cause, watched, held, open, up,
                     grabbed, beaten, told, now>>
  BY DEF Poll, logVars
<1>2. {q \in Own(p) : row[q] = "running" /\ q \in asked} \subseteq Queries \cap asked
  BY DEF Own
<1>3. TypeOK'
  BY <1>1, <1>2 DEF IInv, TypeOK
<1>4. Kills'
  BY <1>1, <1>2 DEF IInv, TypeOK, Kills, KillsWereAsked
<1>5. Resources' /\ Rows' /\ Contexts' /\ Beats'
  BY <1>1 DEF IInv, Resources, Rows, Contexts, Beats, Alive, Stopping
<1> QED BY <1>3, <1>4, <1>5 DEF IInv

LEMMA LookupPreserves ==
  ASSUME IInv, NEW p \in Owners, Lookup(p)
  PROVE  IInv'
<1>1. PICK q \in todo[p] :
        /\ todo' = [todo EXCEPT ![p] = @ \ {q}]
        /\ grabbed' = [grabbed EXCEPT ![p] = {q} \cap watched]
  BY DEF Lookup
<1>2. UNCHANGED <<row, asked, seen, pc, err, cause, watched, held, open, up,
                  beaten, told, now>>
  BY DEF Lookup, logVars
<1>3. q \in asked /\ q \in Queries /\ todo[p] \subseteq Queries
  BY DEF IInv, TypeOK, Kills
<1>4. TypeOK'
  BY <1>1, <1>2, <1>3 DEF IInv, TypeOK
<1>5. Kills'
  BY <1>1, <1>2, <1>3 DEF IInv, TypeOK, Kills, KillsWereAsked
<1>6. Resources' /\ Rows' /\ Contexts' /\ Beats'
  BY <1>2 DEF IInv, Resources, Rows, Contexts, Beats, Alive, Stopping
<1> QED BY <1>4, <1>5, <1>6 DEF IInv

LEMMA KillPreserves ==
  ASSUME IInv, NEW p \in Owners, Kill(p)
  PROVE  IInv'
<1>1. PICK q \in grabbed[p] : Canceled(q, "killed")
  BY DEF Kill
<1>2. /\ grabbed' = [grabbed EXCEPT ![p] = {}]
      /\ UNCHANGED <<row, asked, seen, pc, err, watched, held, open, up, todo,
                     beaten, told, now>>
  BY DEF Kill, logVars
<1>3. q \in Queries /\ q \in asked
  BY DEF IInv, TypeOK, Kills
<1>4. /\ cause' \in [Queries -> {"none", "live", "left", "killed", "done"}]
      /\ cause'[q] # "live" /\ cause'[q] \in {cause[q], "killed"}
      /\ \A x \in Queries \ {q} : cause'[x] = cause[x]
  BY <1>1, <1>3, CanceledOnly DEF IInv
<1>5. TypeOK'
  BY <1>2, <1>4 DEF IInv, TypeOK
<1>6. Contexts'
  BY <1>2, <1>3, <1>4 DEF IInv, Contexts
<1>7. Kills'
  BY <1>2, <1>3, <1>4 DEF IInv, TypeOK, Kills, KillsWereAsked
<1>8. Resources' /\ Rows' /\ Beats'
  BY <1>2 DEF IInv, Resources, Rows, Beats, Alive, Stopping
<1> QED BY <1>5, <1>6, <1>7, <1>8 DEF IInv

LEMMA BeatPreserves ==
  ASSUME IInv, NEW p \in Owners, Beat(p)
  PROVE  IInv'
<1>1. /\ beaten' = beaten \cup {p}
      /\ seen' = [q \in Queries |->
           IF Holds(p) /\ q \in Own(p) /\ row[q] = "running" THEN now ELSE seen[q]]
      /\ UNCHANGED <<row, asked, pc, err, cause, watched, held, open, up, todo,
                     grabbed, told, now>>
  BY DEF Beat
<1>2. TypeOK'
  BY <1>1 DEF IInv, TypeOK
<1>3. ASSUME NEW q \in Queries
      PROVE  /\ pc'[q] = "logged" => seen'[q] = now'
             /\ (q \in watched' /\ row'[q] = "running") =>
                  /\ ~Stopping(q)' => seen'[q] >= now' - 1
                  /\ ~Stopping(q)' /\ OwnerOf[q] \in beaten' => seen'[q] = now'
                  /\ Stopping(q)' => seen'[q] >= told'[OwnerOf[q]] - 1
             /\ q \in watched' => Alive(q)'
             /\ told'[OwnerOf[q]] <= now'
  <2>1. now \in Int /\ seen'[q] \in {now, seen[q]}
    BY <1>1 DEF IInv, TypeOK
  <2>2. (q \in watched /\ OwnerOf[q] = p) => Holds(p) /\ q \in Own(p)
    BY DEF Holds, Own
  <2>3. told'[OwnerOf[q]] <= now' /\ (q \in watched' => Alive(q)')
    BY <1>1 DEF IInv, Beats, Alive
  <2>4. pc'[q] = "logged" => seen'[q] = now'
    BY <1>1, <2>1 DEF IInv, Beats
  <2>5. ASSUME q \in watched, row[q] = "running"
        PROVE  /\ ~Stopping(q)' => seen'[q] >= now' - 1
               /\ ~Stopping(q)' /\ OwnerOf[q] \in beaten' => seen'[q] = now'
               /\ Stopping(q)' => seen'[q] >= told'[OwnerOf[q]] - 1
    <3>1. told[OwnerOf[q]] \in Int /\ seen[q] \in Int /\ told[OwnerOf[q]] <= now
      BY LifecycleAssumption DEF IInv, TypeOK, Beats
    <3>2. CASE OwnerOf[q] = p
      BY <1>1, <2>1, <2>2, <2>5, <3>1, <3>2
    <3>3. CASE OwnerOf[q] # p
      BY <1>1, <2>1, <2>5, <3>1, <3>3 DEF IInv, Beats, Stopping, Own
    <3> QED BY <3>2, <3>3
  <2> QED BY <1>1, <2>3, <2>4, <2>5
<1>4. Beats'
  BY <1>3 DEF Beats
<1>5. Resources' /\ Rows' /\ Contexts' /\ Kills'
  BY <1>1 DEF IInv, Resources, Rows, Contexts, Kills, KillsWereAsked
<1> QED BY <1>2, <1>4, <1>5 DEF IInv

LEMMA SignalPreserves ==
  ASSUME IInv, NEW p \in Owners, Signal(p)
  PROVE  IInv'
<1>1. /\ told' = [told EXCEPT ![p] = now] /\ told[p] < 0
      /\ UNCHANGED <<row, asked, seen, pc, err, cause, watched, held, open, up, todo,
                     grabbed, beaten, now>>
  BY DEF Signal, logVars
<1>2. now \in Nat /\ TypeOK'
  BY <1>1 DEF IInv, TypeOK
<1>3. ASSUME NEW q \in Queries
      PROVE  /\ (q \in watched /\ row[q] = "running") =>
                  /\ ~Stopping(q)' => seen[q] >= now - 1
                  /\ ~Stopping(q)' /\ OwnerOf[q] \in beaten => seen[q] = now
                  /\ Stopping(q)' => seen[q] >= told'[OwnerOf[q]] - 1
             /\ told'[OwnerOf[q]] <= now
  <2>1. OwnerOf[q] \in Owners /\ seen[q] \in Int
    BY LifecycleAssumption DEF IInv, TypeOK
  <2>2. CASE OwnerOf[q] = p
    BY <1>1, <1>2, <2>1, <2>2 DEF IInv, Beats, Stopping, TypeOK
  <2>3. CASE OwnerOf[q] # p
    BY <1>1, <1>2, <2>1, <2>3 DEF IInv, Beats, Stopping, TypeOK
  <2> QED BY <2>2, <2>3
<1>4. Beats'
  BY <1>1, <1>3 DEF IInv, Beats, Alive, Stopping
<1>5. Resources' /\ Rows' /\ Contexts' /\ Kills'
  BY <1>1 DEF IInv, Resources, Rows, Contexts, Kills, KillsWereAsked
<1> QED BY <1>2, <1>4, <1>5 DEF IInv

LEMMA CrashPreserves ==
  ASSUME IInv, NEW p \in Owners, Crash(p)
  PROVE  IInv'
<1>1. /\ up' = up \ {p}
      /\ pc' = [q \in Queries |-> IF q \in Own(p) THEN "dead" ELSE pc[q]]
      /\ watched' = watched \ Own(p)
      /\ held' = held \ Own(p)
      /\ open' = open \ Own(p)
      /\ todo' = [todo EXCEPT ![p] = {}]
      /\ grabbed' = [grabbed EXCEPT ![p] = {}]
      /\ told' = [told EXCEPT ![p] = -1]
      /\ err' = [q \in Queries |-> IF q \in Own(p) THEN "none" ELSE err[q]]
      /\ cause' = [q \in Queries |-> IF q \in Own(p) THEN "none" ELSE cause[q]]
      /\ beaten' = beaten \ {p}
      /\ UNCHANGED <<row, asked, seen, now>>
  BY DEF Crash, logVars
<1>2. \A q \in Queries : q \in Own(p) <=> OwnerOf[q] = p
  BY DEF Own
<1>3. TypeOK'
  <2>1. told' \in [Owners -> -1 .. MaxNow]
    BY <1>1, LifecycleAssumption DEF IInv, TypeOK
  <2>2. /\ err' \in [Queries -> {"none", "failed", "canceled"}]
        /\ cause' \in [Queries -> {"none", "live", "left", "killed", "done"}]
        /\ pc' \in [Queries -> Phases]
    BY <1>1 DEF IInv, TypeOK, Phases
  <2> QED BY <1>1, <2>1, <2>2 DEF IInv, TypeOK
<1>4. Resources'
  BY <1>1 DEF IInv, Resources, WithSlot, WithStream, WithConnector
<1>5. Rows'
  BY <1>1 DEF IInv, Rows, Unwritten, Unfinished
<1>6. Contexts' /\ Kills'
  BY <1>1 DEF IInv, TypeOK, Contexts, Kills, KillsWereAsked
<1>7. ASSUME NEW q \in Queries
      PROVE  /\ pc'[q] = "logged" => seen[q] = now
             /\ (q \in watched' /\ row[q] = "running") =>
                  /\ ~Stopping(q)' => seen[q] >= now - 1
                  /\ ~Stopping(q)' /\ OwnerOf[q] \in beaten' => seen[q] = now
                  /\ Stopping(q)' => seen[q] >= told'[OwnerOf[q]] - 1
             /\ q \in watched' => Alive(q)'
             /\ told'[OwnerOf[q]] <= now
  <2>1. OwnerOf[q] \in Owners /\ now \in Nat
    BY LifecycleAssumption DEF IInv, TypeOK
  <2>2. CASE OwnerOf[q] = p
    <3>1. q \notin watched' /\ pc'[q] = "dead" /\ told'[OwnerOf[q]] = -1
      BY <1>1, <1>2, <2>1, <2>2 DEF IInv, TypeOK
    <3> QED BY <2>1, <3>1
  <2>3. CASE OwnerOf[q] # p
    <3>1. /\ pc'[q] = pc[q] /\ told'[OwnerOf[q]] = told[OwnerOf[q]]
          /\ q \in watched' <=> q \in watched
          /\ OwnerOf[q] \in beaten' <=> OwnerOf[q] \in beaten
          /\ Alive(q)' <=> Alive(q)
      BY <1>1, <1>2, <2>1, <2>3 DEF IInv, TypeOK, Alive
    <3> QED BY <1>1, <3>1 DEF IInv, Beats, Stopping
  <2> QED BY <2>2, <2>3
<1>8. Beats'
  BY <1>1, <1>7 DEF Beats
<1> QED BY <1>3, <1>4, <1>5, <1>6, <1>8 DEF IInv

LEMMA TickPreserves ==
  ASSUME IInv, Tick
  PROVE  IInv'
<1>1. /\ now < MaxNow /\ \A p \in up : p \in beaten \/ told[p] >= 0
      /\ \A q \in Queries : pc[q] # "logged"
      /\ now' = now + 1 /\ beaten' = {}
      /\ UNCHANGED <<row, asked, seen, pc, err, cause, watched, held, open, up,
                     todo, grabbed, told>>
  BY DEF Tick, logVars
<1>2. now \in Nat /\ now' \in 0 .. MaxNow
  BY <1>1, LifecycleAssumption DEF IInv, TypeOK
<1>3. TypeOK'
  BY <1>1, <1>2 DEF IInv, TypeOK
<1>4. ASSUME NEW q \in Queries
      PROVE  /\ (q \in watched /\ row[q] = "running") =>
                  /\ ~Stopping(q) => seen[q] >= now' - 1
                  /\ Stopping(q) => seen[q] >= told[OwnerOf[q]] - 1
             /\ q \in watched => Alive(q)
             /\ told[OwnerOf[q]] <= now'
  <2>1. OwnerOf[q] \in Owners /\ seen[q] \in Int /\ told[OwnerOf[q]] \in Int
    BY LifecycleAssumption DEF IInv, TypeOK
  <2>2. told[OwnerOf[q]] <= now /\ (q \in watched => Alive(q))
    BY DEF IInv, Beats
  <2>3. ASSUME q \in watched, row[q] = "running", ~Stopping(q)
        PROVE  seen[q] = now
    BY <1>1, <2>1, <2>2, <2>3 DEF IInv, Beats, Alive, Stopping
  <2>4. ASSUME q \in watched, row[q] = "running", Stopping(q)
        PROVE  seen[q] >= told[OwnerOf[q]] - 1
    BY <2>4 DEF IInv, Beats
  <2> QED BY <1>1, <1>2, <2>1, <2>2, <2>3, <2>4
<1>5. Beats'
  BY <1>1, <1>4 DEF Beats, Alive, Stopping
<1>6. Resources' /\ Rows' /\ Contexts' /\ Kills'
  BY <1>1 DEF IInv, Resources, Rows, Contexts, Kills, KillsWereAsked
<1> QED BY <1>3, <1>5, <1>6 DEF IInv

LEMMA StutterPreserves ==
  ASSUME IInv, UNCHANGED vars
  PROVE  IInv'
BY DEF vars, IInv, TypeOK, Resources, Rows, Contexts, Kills, KillsWereAsked, Beats, Alive, Stopping
-----------------------------------------------------------------------------
(* The invariant and what follows from it.                                  *)

LEMMA InitiallyInv ==
  ASSUME Init
  PROVE  IInv
<1>1. TypeOK
  BY LifecycleAssumption DEF Init, TypeOK, Phases
<1>2. Resources /\ Rows /\ Contexts
  BY DEF Init, Resources, Rows, Contexts, WithSlot, WithStream, WithConnector,
         Unwritten, Unfinished
<1>3. Kills /\ Beats
  BY LifecycleAssumption DEF Init, Kills, KillsWereAsked, Beats, Stopping
<1> QED BY <1>1, <1>2, <1>3 DEF IInv

LEMMA NextPreserves ==
  ASSUME IInv, [Next]_vars
  PROVE  IInv'
<1>1. ASSUME NEW q \in Queries, Execute(q)
      PROVE  IInv'
  BY <1>1, OpenPreserves, LogPreserves, WatchPreserves, StartedPreserves,
     StartFailsPreserves, FinishFailedPreserves, CloseFailedPreserves,
     ReleaseFailedPreserves DEF Execute
<1>2. ASSUME NEW q \in Queries, Drain(q)
      PROVE  IInv'
  BY <1>2, EndsPreserves, ClosePreserves, FinishPreserves, UnwatchPreserves,
     ReleasePreserves, CloseConnectorPreserves, CloseReplayPreserves,
     FinishReplayPreserves DEF Drain
<1>3. ASSUME NEW q \in Queries, Admit(q) \/ Serve(q) \/ Leave(q) \/ Ask(q)
      PROVE  IInv'
  BY <1>3, AdmitPreserves, ServePreserves, LeavePreserves, AskPreserves
<1>4. ASSUME NEW p \in Owners, Supervise(p) \/ Beat(p) \/ Signal(p) \/ Crash(p)
      PROVE  IInv'
  BY <1>4, PollPreserves, LookupPreserves, KillPreserves, BeatPreserves,
     SignalPreserves, CrashPreserves DEF Supervise
<1>5. CASE Tick
  BY <1>5, TickPreserves
<1>6. CASE UNCHANGED vars
  BY <1>6, StutterPreserves
<1> QED BY <1>1, <1>2, <1>3, <1>4, <1>5, <1>6 DEF Next

(* The inductive invariant of executions, their log and the supervisor.     *)
THEOREM Inductive == Spec => []IInv
<1>1. Init => IInv
  BY InitiallyInv
<1>2. IInv /\ [Next]_vars => IInv'
  BY NextPreserves
<1> QED BY <1>1, <1>2, PTL DEF Spec

(* Every variable keeps its type.                                           *)
THEOREM TypeCorrect == Spec => []TypeOK
<1>1. IInv => TypeOK
  BY DEF IInv
<1> QED BY <1>1, Inductive, PTL

(* The source works only for executions on record that hold a slot and a    *)
(* connector, and an execution that is over holds nothing.                  *)
THEOREM AllAccountedFor == Spec => []EverythingIsAccountedFor
<1>1. IInv => WorkIsAccountedFor
  BY DEF IInv, Resources, Rows, WorkIsAccountedFor, AtTheSource, WithSlot,
         WithStream, WithConnector, Unfinished
<1>2. IInv => NothingLeftBehind
  BY DEF IInv, Resources, Contexts, NothingLeftBehind, WithSlot, WithStream,
         WithConnector
<1> QED BY <1>1, <1>2, Inductive, PTL DEF EverythingIsAccountedFor

(* Only what an administrator asked to stop is killed.                      *)
THEOREM OnlyTheAsked == Spec => []KillsWereAsked
<1>1. IInv => KillsWereAsked
  BY DEF IInv, Kills
<1> QED BY <1>1, Inductive, PTL

(* With punctual tickers, a watched query never looks abandoned, whatever   *)
(* the threshold, before its process has been stopping for that long.       *)
THEOREM TheWatchedLookAlive == Spec => []WatchedLookAlive
<1>1. IInv => WatchedLookAlive
  <2> SUFFICES ASSUME IInv, NEW q \in Queries, q \in watched, row[q] = "running",
                      IsStale(q)
               PROVE  Stopping(q) /\ now - told[OwnerOf[q]] >= StaleAfter
    BY DEF WatchedLookAlive
  <2>1. seen[q] \in Int /\ now \in Int /\ told[OwnerOf[q]] \in Int
    BY LifecycleAssumption DEF IInv, TypeOK
  <2>2. Stopping(q)
    BY <2>1, LifecycleAssumption DEF IInv, Beats, IsStale
  <2>3. seen[q] >= told[OwnerOf[q]] - 1
    BY <2>2 DEF IInv, Beats
  <2> QED BY <2>1, <2>2, <2>3, LifecycleAssumption DEF IsStale
<1> QED BY <1>1, Inductive, PTL

(* What a step does to the log is a step of ExecutionLog: an execution is   *)
(* begun once, settled once, and settled as killed only when asked.         *)
THEOREM KeepsThePromise == Spec => LogPromise
<1>1. Init => Log_!Init
  BY DEF Init, Log_!Init
<1>2. ASSUME IInv, [Next]_vars
      PROVE  [Log_!Next]_<<row, asked>>
  <2>1. ASSUME NEW q \in Queries, row[q] = "absent",
               row' = [row EXCEPT ![q] = "running"], asked' = asked
        PROVE  Log_!Next
    BY <2>1 DEF Log_!Next, Log_!Begin
  <2>2. ASSUME NEW q \in Queries, row[q] = "running", asked' = asked,
               NEW o \in Log_!Outcomes, o = "killed" => q \in asked,
               row' = [row EXCEPT ![q] = o]
        PROVE  Log_!Next
    BY <2>2 DEF Log_!Next, Log_!Settle
  <2>3. ASSUME NEW q \in Queries, Log(q) \/ Serve(q)
        PROVE  [Log_!Next]_<<row, asked>>
    <3>1. row[q] = "absent"
      BY <1>2, <2>3 DEF Log, Serve, Step, IInv, Rows, Unwritten
    <3> QED BY <2>1, <2>3, <3>1 DEF Log, Serve, Insert, logVars
  <2>4. ASSUME NEW q \in Queries, FinishFailed(q)
        PROVE  [Log_!Next]_<<row, asked>>
    <3>1. row[q] = "running" /\ err[q] \in {"failed", "canceled"}
      BY <1>2, <2>4 DEF FinishFailed, Step, IInv, TypeOK, Rows, Unfinished
    <3> QED BY <2>2, <2>4, <3>1 DEF FinishFailed, Record, Log_!Outcomes
  <2>5. ASSUME NEW q \in Queries, Finish(q)
        PROVE  [Log_!Next]_<<row, asked>>
    <3>1. row[q] = "running" /\ err[q] \in {"none", "failed", "canceled"}
      BY <1>2, <2>5 DEF Finish, Step, IInv, TypeOK, Rows, Unfinished
    <3>2. Outcome(q) \in Log_!Outcomes
      BY <3>1 DEF Outcome, Log_!Outcomes
    <3>3. Outcome(q) = "killed" => q \in asked
      BY <1>2, <3>1 DEF Outcome, IInv, Kills, KillsWereAsked
    <3> QED BY <2>2, <2>5, <3>1, <3>2, <3>3 DEF Finish, Record
  <2>6. ASSUME NEW q \in Queries, FinishReplay(q)
        PROVE  [Log_!Next]_<<row, asked>>
    <3>1. row[q] = "running"
      BY <1>2, <2>6 DEF FinishReplay, Step, IInv, Rows, Unfinished
    <3> QED BY <2>2, <2>6, <3>1 DEF FinishReplay, Record, Log_!Outcomes
  <2>7. ASSUME NEW q \in Queries, Ask(q)
        PROVE  [Log_!Next]_<<row, asked>>
    BY <2>7 DEF Ask, Log_!Next, Log_!Ask
  <2>8. ASSUME NEW q \in Queries,
               \/ Admit(q) \/ Leave(q) \/ Open(q) \/ Watch(q) \/ Started(q)
               \/ StartFails(q) \/ CloseFailed(q) \/ ReleaseFailed(q)
               \/ Ends(q) \/ Close(q) \/ Unwatch(q) \/ Release(q)
               \/ CloseConnector(q) \/ CloseReplay(q)
        PROVE  UNCHANGED <<row, asked>>
    BY <2>8 DEF Admit, Leave, Open, Watch, Started, StartFails, CloseFailed,
         ReleaseFailed, Ends, Close, Unwatch, Release, CloseConnector, CloseReplay,
         logVars
  <2>9. ASSUME NEW p \in Owners, Supervise(p) \/ Beat(p) \/ Signal(p) \/ Crash(p)
        PROVE  UNCHANGED <<row, asked>>
    BY <2>9 DEF Supervise, Poll, Lookup, Kill, Beat, Signal, Crash, logVars
  <2>10. CASE Tick \/ UNCHANGED vars
    BY <2>10 DEF Tick, vars, logVars
  <2> QED BY <1>2, <2>3, <2>4, <2>5, <2>6, <2>7, <2>8, <2>9, <2>10
          DEF Next, Execute, Drain
<1> QED BY <1>1, <1>2, Inductive, PTL DEF Spec, LogPromise, Log_!Spec
==============================================================================
