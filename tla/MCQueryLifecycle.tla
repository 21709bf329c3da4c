-------------------------- MODULE MCQueryLifecycle ---------------------------
(* Instances of QueryLifecycle for TLC.                                     *)
EXTENDS QueryLifecycle, TLC

CONSTANTS q1, q2, p1

MCQueries == {q1, q2}
MCOne     == {p1}
MCSameOwner == [q \in MCQueries |-> p1]
Symmetry == Permutations(MCQueries)
==============================================================================
