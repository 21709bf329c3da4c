---------------------------- MODULE MCLoginBrakes ----------------------------
(* Instances of LoginBrakes for TLC: two calls from one address.            *)
EXTENDS LoginBrakes, TLC

CONSTANTS c1, c2, k1

MCCalls == {c1, c2}
MCKeys == {k1}
Symmetry == Permutations(MCCalls)
==============================================================================
