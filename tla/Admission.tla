------------------------------ MODULE Admission ------------------------------
(***************************************************************************)
(* What query admission promises, whatever queues and semaphores are used  *)
(* to keep the promise: a query that was let in finds room under both of   *)
(* its limits, a query that is waiting can be let in or turned away, and   *)
(* nothing is ever taken from a query that is running except by that query *)
(* ending.                                                                 *)
(*                                                                         *)
(* Governor implements this specification (see Governor!Refinement).       *)
(***************************************************************************)
EXTENDS Integers, FiniteSets

CONSTANTS
  Requests,          \* the executions that ask for admission
  Users,             \* who asks: an actor, or the background actor
  Connections,       \* what they ask to query
  UserOf,            \* [Requests -> Users]
  ConnOf,            \* [Requests -> Connections]
  MaxPerUser,        \* queries one user may run on one connection
  MaxPerConnection   \* queries anybody may run on one connection

VARIABLE phase       \* [Requests -> {"idle", "waiting", "running"}]

Running == {r \in Requests : phase[r] = "running"}

OnConnection(c)    == {r \in Running : ConnOf[r] = c}
OfUser(u, c)       == {r \in OnConnection(c) : UserOf[r] = u}

Init == phase = [r \in Requests |-> "idle"]

Ask(r) ==
  /\ phase[r] = "idle"
  /\ phase' = [phase EXCEPT ![r] = "waiting"]

LetIn(r) ==
  /\ phase[r] = "waiting"
  /\ Cardinality(OnConnection(ConnOf[r])) < MaxPerConnection
  /\ Cardinality(OfUser(UserOf[r], ConnOf[r])) < MaxPerUser
  /\ phase' = [phase EXCEPT ![r] = "running"]

TurnAway(r) ==
  /\ phase[r] = "waiting"
  /\ phase' = [phase EXCEPT ![r] = "idle"]

End(r) ==
  /\ phase[r] = "running"
  /\ phase' = [phase EXCEPT ![r] = "idle"]

Next == \E r \in Requests : Ask(r) \/ LetIn(r) \/ TurnAway(r) \/ End(r)

Spec == Init /\ [][Next]_phase
==============================================================================
