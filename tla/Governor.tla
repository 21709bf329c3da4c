------------------------------ MODULE Governor -------------------------------
(***************************************************************************)
(* internal/query/governor.go: who gets to run a query, and who waits.     *)
(*                                                                         *)
(* A slot is a Go channel of struct{} used as a semaphore: a send takes a  *)
(* place, a receive gives one back.  A send that finds the channel full    *)
(* parks its goroutine in the channel's queue, first come first served,    *)
(* and a receive from a full channel with parked senders hands the place   *)
(* to the first of them in the same step.  A parked goroutine also waits   *)
(* on its context and on its timer, and leaves the queue when either is    *)
(* first.                                                                  *)
(*                                                                         *)
(* One call of Admit takes the user's slot, then the connection's; pc says *)
(* where the call is.  A request identity is used again once its call and  *)
(* its query are over, so the arrivals never end.                          *)
(*                                                                         *)
(*   idle                      no call                                     *)
(*   u_try, c_try              about to try the user's, the connection's   *)
(*                             slot without waiting (first select)         *)
(*   u_slow, c_slow            found it full, timer set, about to wait     *)
(*   u_wait, c_wait            parked in the slot's queue                  *)
(*   refund                    failed on the connection's slot, the user's *)
(*                             not yet given back                          *)
(*   granted                   holds both, Admit about to return           *)
(*   running                   the caller has the release                  *)
(*   unwind                    release gave back the connection's slot,    *)
(*                             not yet the user's                          *)
(***************************************************************************)
EXTENDS Integers, Sequences, FiniteSets

CONSTANTS
  Requests, Users, Connections,
  UserOf, ConnOf,            \* who a request is for, and what it queries
  MaxPerUser, MaxPerConnection,
  Wait                       \* ticks an acquire waits before it is refused

ASSUME GovernorAssumption ==
  /\ IsFiniteSet(Requests)
  /\ UserOf \in [Requests -> Users]
  /\ ConnOf \in [Requests -> Connections]
  /\ MaxPerUser \in Nat \ {0}
  /\ MaxPerConnection \in Nat \ {0}
  /\ Wait \in Nat \ {0}

VARIABLES
  pc,        \* [Requests -> Phases]
  used,      \* [Slots -> Nat]: len(channel)
  waitq,     \* [Slots -> Seq(Requests)]: the senders parked on the channel
  gone,      \* [Requests -> BOOLEAN]: the caller's context has ended
  waited     \* [Requests -> Nat]: ticks in the current acquire

vars == <<pc, used, waitq, gone, waited>>

UserPhases == {"u_try", "u_slow", "u_wait"}
ConnPhases == {"c_try", "c_slow", "c_wait"}
Acquiring  == UserPhases \cup ConnPhases
Parked     == {"u_wait", "c_wait"}
Phases     == Acquiring \cup {"idle", "refund", "granted", "running", "unwind"}

\* The map keys of the code: u|org|user|connection and c|org|connection.  A
\* connection belongs to one organization, so the organization adds nothing.
Anybody == "anybody"
UserSlot(r) == <<"u", UserOf[r], ConnOf[r]>>
ConnSlot(r) == <<"c", Anybody, ConnOf[r]>>

Slots == {UserSlot(r) : r \in Requests} \cup {ConnSlot(r) : r \in Requests}

\* Mutants: one limit for both slots; one place too many.
Capacity_OneLimit(s) == MaxPerConnection
Capacity_OffByOne(s) == IF s[1] = "u" THEN MaxPerUser + 1 ELSE MaxPerConnection

Capacity(s) == IF s[1] = "u" THEN MaxPerUser ELSE MaxPerConnection

Free(s) == used[s] < Capacity(s)

\* The slot r is acquiring, and where it goes when it has it or has failed.
Wanted(r) == IF pc[r] \in UserPhases THEN UserSlot(r) ELSE ConnSlot(r)
Gained(r) == IF pc[r] \in UserPhases THEN "c_try" ELSE "granted"

\* Mutant: the user's slot is forgotten when the connection's is refused.
Failed_ForgetsUser(r)  == "idle"

Failed(r) == IF pc[r] \in UserPhases THEN "idle" ELSE "refund"

-----------------------------------------------------------------------------
Init ==
  /\ pc     = [r \in Requests |-> "idle"]
  /\ used   = [s \in Slots |-> 0]
  /\ waitq  = [s \in Slots |-> <<>>]
  /\ gone   = [r \in Requests |-> FALSE]
  /\ waited = [r \in Requests |-> 0]

\* A call of Admit.
Admit(r) ==
  /\ pc[r] = "idle"
  /\ pc' = [pc EXCEPT ![r] = "u_try"]
  /\ gone' = [gone EXCEPT ![r] = FALSE]
  /\ UNCHANGED <<used, waitq, waited>>

\* The send succeeds at once.
Take(r) ==
  /\ Free(Wanted(r))
  /\ used' = [used EXCEPT ![Wanted(r)] = @ + 1]
  /\ pc' = [pc EXCEPT ![r] = Gained(r)]
  /\ UNCHANGED <<waitq, gone, waited>>

\* The first select of acquire: the context is not among its cases, so a
\* caller that has already left takes a free slot like any other.
TryFast(r) ==
  /\ pc[r] \in {"u_try", "c_try"}
  /\ \/ Take(r)
     \/ /\ ~Free(Wanted(r))
        /\ pc' = [pc EXCEPT ![r] = IF @ = "u_try" THEN "u_slow" ELSE "c_slow"]
        /\ UNCHANGED <<used, waitq, gone, waited>>

\* The second select of acquire finds a case ready, and picks any that is, or
\* parks.
Select(r) ==
  /\ pc[r] \in {"u_slow", "c_slow"}
  /\ \/ Take(r)
     \/ /\ gone[r]
        /\ pc' = [pc EXCEPT ![r] = Failed(r)]
        /\ UNCHANGED <<used, waitq, gone, waited>>
     \/ /\ ~Free(Wanted(r))
        /\ ~gone[r]
        /\ waitq' = [waitq EXCEPT ![Wanted(r)] = Append(@, r)]
        /\ pc' = [pc EXCEPT ![r] = IF @ = "u_slow" THEN "u_wait" ELSE "c_wait"]
        /\ UNCHANGED <<used, gone, waited>>

\* A queue without its i-th member.
Without(q, i) == [j \in 1 .. Len(q) - 1 |-> IF j < i THEN q[j] ELSE q[j + 1]]

\* A parked goroutine is woken by something other than the slot.
Leave(r) ==
  /\ \E i \in DOMAIN waitq[Wanted(r)] :
        /\ waitq[Wanted(r)][i] = r
        /\ waitq' = [waitq EXCEPT ![Wanted(r)] = Without(@, i)]
  /\ pc' = [pc EXCEPT ![r] = Failed(r)]
  /\ waited' = [waited EXCEPT ![r] = 0]
  /\ UNCHANGED <<used, gone>>

\* Mutant: only the first acquire has a timer.
Timeout_UserOnly(r) ==
  /\ pc[r] = "u_wait"
  /\ waited[r] >= Wait
  /\ Leave(r)

Timeout(r) ==
  /\ pc[r] \in Parked
  /\ waited[r] >= Wait
  /\ Leave(r)

Abandon(r) ==
  /\ pc[r] \in Parked
  /\ gone[r]
  /\ Leave(r)

\* The caller's context ends while Admit is working.
Cancel(r) ==
  /\ pc[r] \in Acquiring
  /\ ~gone[r]
  /\ gone' = [gone EXCEPT ![r] = TRUE]
  /\ UNCHANGED <<pc, used, waitq, waited>>

\* Admit returns the release.
Admitted(r) ==
  /\ pc[r] = "granted"
  /\ pc' = [pc EXCEPT ![r] = "running"]
  /\ UNCHANGED <<used, waitq, gone, waited>>

\* Mutant: the place is freed past the parked.
Receive_IgnoresParked(s, r, next) ==
  /\ used' = [used EXCEPT ![s] = @ - 1]
  /\ pc' = [pc EXCEPT ![r] = next]
  /\ UNCHANGED <<waitq, waited>>

\* <-slot by r, which moves on to next: the first parked sender has the place,
\* or the channel has one more free.
Receive(s, r, next) ==
  \/ /\ waitq[s] = <<>>
     /\ used' = [used EXCEPT ![s] = @ - 1]
     /\ pc' = [pc EXCEPT ![r] = next]
     /\ UNCHANGED <<waitq, waited>>
  \/ /\ waitq[s] # <<>>
     /\ LET h == Head(waitq[s]) IN
        /\ waitq' = [waitq EXCEPT ![s] = Tail(@)]
        /\ pc' = [pc EXCEPT ![r] = next, ![h] = Gained(h)]
        /\ waited' = [waited EXCEPT ![h] = 0]
     /\ UNCHANGED used

\* The release returned by Admit, the connection's slot first.  sync.Once runs
\* it for the first of the calls only, so the later ones are no steps at all.
ReleaseConn(r) ==
  /\ pc[r] = "running"
  /\ Receive(ConnSlot(r), r, "unwind")
  /\ UNCHANGED gone

\* releaseUser, after the connection's slot was released or never had.
ReleaseUser(r) ==
  /\ pc[r] \in {"unwind", "refund"}
  /\ Receive(UserSlot(r), r, "idle")
  /\ UNCHANGED gone

\* Time passes for everybody parked.  A timer that is due fires before the
\* next tick.
Tick ==
  /\ \E r \in Requests : pc[r] \in Parked
  /\ \A r \in Requests : pc[r] \in Parked => waited[r] < Wait
  /\ waited' = [r \in Requests |-> IF pc[r] \in Parked THEN waited[r] + 1 ELSE waited[r]]
  /\ UNCHANGED <<pc, used, waitq, gone>>

Step(r) ==
  \/ Admit(r)    \/ TryFast(r)     \/ Select(r)
  \/ Timeout(r)  \/ Abandon(r)     \/ Cancel(r)
  \/ Admitted(r) \/ ReleaseConn(r) \/ ReleaseUser(r)

Next == Tick \/ \E r \in Requests : Step(r)

Spec == Init /\ [][Next]_vars

\* What the Go runtime guarantees: a goroutine that can run does run.
Scheduling(r) ==
  /\ WF_vars(TryFast(r))  /\ WF_vars(Select(r)) /\ WF_vars(Abandon(r))
  /\ WF_vars(Admitted(r)) /\ WF_vars(ReleaseUser(r))

LiveSpec == Spec /\ \A r \in Requests : Scheduling(r)

\* Timers fire.
Timers == WF_vars(Tick) /\ \A r \in Requests : WF_vars(Timeout(r))

\* Queries end.
Releases == \A r \in Requests : WF_vars(ReleaseConn(r))
-----------------------------------------------------------------------------
TypeOK ==
  /\ pc \in [Requests -> Phases]
  /\ used \in [Slots -> Nat]
  /\ waitq \in [Slots -> Seq(Requests)]
  /\ gone \in [Requests -> BOOLEAN]
  /\ waited \in [Requests -> Nat]

\* Who has a place in a slot, by where their code is.
HasUserSlot(r) == pc[r] \notin UserPhases \cup {"idle"}
HasConnSlot(r) == pc[r] \in {"granted", "running"}

Holds(r, s) ==
  \/ s = UserSlot(r) /\ HasUserSlot(r)
  \/ s = ConnSlot(r) /\ HasConnSlot(r)

Holders(s) == {r \in Requests : Holds(r, s)}

\* Who is parked for a slot.
ParkedFor(r, s) ==
  \/ s = UserSlot(r) /\ pc[r] = "u_wait"
  \/ s = ConnSlot(r) /\ pc[r] = "c_wait"

\* No slot is leaked and none is returned twice: what each channel holds is
\* exactly the requests whose code still owes it a receive, on every path out
\* of Admit and of the query, and never more than the limit.
SlotAccounting ==
  \A s \in Slots :
    /\ used[s] = Cardinality(Holders(s))
    /\ used[s] <= Capacity(s)

\* A free place and somebody parked for it never coexist: no wakeup is lost
\* between the two selects, by a timer or by a caller that leaves.
WorkConserving ==
  \A s \in Slots : waitq[s] # <<>> => ~Free(s)

\* Each parked request is once in the queue of the slot it wants, and nobody
\* else is in any queue.
QueueIsTheParked(s) ==
  /\ \A i \in DOMAIN waitq[s] : ParkedFor(waitq[s][i], s)
  /\ \A i, j \in DOMAIN waitq[s] : waitq[s][i] = waitq[s][j] => i = j
  /\ \A r \in Requests : ParkedFor(r, s) => \E i \in DOMAIN waitq[s] : waitq[s][i] = r

QueuesAreTheParked == \A s \in Slots : QueueIsTheParked(s)

\* The per-user limit protects everybody else: while it is the smaller limit,
\* whoever queues for a connection queues behind at least two people.
NobodyTakesAConnectionAlone ==
  MaxPerUser < MaxPerConnection =>
    \A r \in Requests : pc[r] = "c_wait" =>
      \E a, b \in Holders(ConnSlot(r)) : UserOf[a] # UserOf[b]

\* Somebody at their own limit sits on none of the connection's capacity: what
\* one user has running on, or queued for, a connection is within the limit.
UserFootprint ==
  \A r \in Requests :
    Cardinality({q \in Requests :
                   /\ UserSlot(q) = UserSlot(r)
                   /\ pc[q] \in ConnPhases \cup {"granted", "running"}}) <= MaxPerUser

\* The queue is a queue: nobody parked behind another is served before them.
NoOvertaking ==
  [][\A s \in Slots : \A i, j \in DOMAIN waitq[s] :
       LET ahead == waitq[s][i]  behind == waitq[s][j] IN
       i < j /\ pc'[behind] = Gained(behind) => pc'[ahead] # pc[ahead]]_vars

\* However long the queries that hold the slots run, every call of Admit
\* returns: admitted, refused or abandoned.
EveryCallReturns ==
  Timers => \A r \in Requests : pc[r] \in Acquiring ~> pc[r] \in {"idle", "granted"}

\* While queries end, a caller that stays is admitted, however many others
\* keep arriving, unless its own timer comes due: when time stands still
\* nothing but the slots themselves can help it.
EveryWaiterServed ==
  Releases => \A r \in Requests :
    pc[r] \in Acquiring ~> (pc[r] = "granted" \/ gone[r] \/ waited[r] >= Wait)

\* The timers and the slots, taken together.
CallsAreServed == EveryCallReturns /\ EveryWaiterServed

\* The promise of Admission, with a call of Admit as the waiting.
Phase(p) == IF p = "running" THEN "running"
            ELSE IF p \in {"idle", "unwind"} THEN "idle" ELSE "waiting"

phaseOf == [r \in Requests |-> Phase(pc[r])]

Promise == INSTANCE Admission WITH phase <- phaseOf
Refinement == Promise!Spec
==============================================================================
