---------------------------- MODULE MCSessions -------------------------------
(* Instances of Sessions for TLC: two calls, two sessions.                  *)
EXTENDS Sessions, TLC

CONSTANTS c1, c2, s1, s2

MCCalls == {c1, c2}
MCSessionIds == {s1, s2}
Symmetry == Permutations(MCCalls) \cup Permutations(MCSessionIds)
==============================================================================
