---------------------------- MODULE ExecutionLog -----------------------------
(***************************************************************************)
(* What the query log promises its readers, whatever the processes that    *)
(* write it do: an execution is begun once, ends once with one outcome     *)
(* that never changes, and is recorded as stopped by an administrator only *)
(* if somebody asked for that while it was running.                        *)
(***************************************************************************)
CONSTANTS Queries

VARIABLES row, asked

Outcomes == {"succeeded", "failed", "canceled", "killed"}

TypeOK ==
  /\ row \in [Queries -> {"absent", "running"} \cup Outcomes]
  /\ asked \subseteq Queries

Init ==
  /\ row = [q \in Queries |-> "absent"]
  /\ asked = {}

Begin(q) ==
  /\ row[q] = "absent"
  /\ row' = [row EXCEPT ![q] = "running"]
  /\ UNCHANGED asked

Ask(q) ==
  /\ row[q] = "running"
  /\ asked' = asked \cup {q}
  /\ UNCHANGED row

Settle(q, outcome) ==
  /\ row[q] = "running"
  /\ outcome = "killed" => q \in asked
  /\ row' = [row EXCEPT ![q] = outcome]
  /\ UNCHANGED asked

Next == \E q \in Queries :
          Begin(q) \/ Ask(q) \/ \E outcome \in Outcomes : Settle(q, outcome)

Spec == Init /\ [][Next]_<<row, asked>>
==============================================================================
