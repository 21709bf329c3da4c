----------------------------- MODULE MCGovernor ------------------------------
(***************************************************************************)
(* Instances of Governor for TLC.                                          *)
(*                                                                         *)
(* Four executions on one connection: ann has two, bob and cy one each, so *)
(* that with one place per user and two per connection ann queues behind   *)
(* herself and everybody behind the connection.                            *)
(***************************************************************************)
EXTENDS Governor, TLC

CONSTANTS r1, r2, r3, r4, ann, bob, cy, warehouse

MCRequests    == {r1, r2, r3, r4}
MCUsers       == {ann, bob, cy}
MCConnections == {warehouse}
MCUserOf == (r1 :> ann) @@ (r2 :> ann) @@ (r3 :> bob) @@ (r4 :> cy)
MCConnOf == [r \in MCRequests |-> warehouse]
==============================================================================
