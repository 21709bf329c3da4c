---------------------------- MODULE MCOnboarding -----------------------------
(* Instances of Onboarding for TLC: two calls at one server, one subject.    *)
EXTENDS Onboarding, TLC

CONSTANTS c1, c2, server, home, other, a1, a2, e1, e2, ada, g1, g2, k1

MCRequests == {c1, c2}
MCServers == {server}
MCServerOf == [c \in MCRequests |-> server]
MCOrgs == {home, other}
MCAccounts == {a1, a2}
MCEmails == {e1, e2}
MCSubjects == {ada}
MCGroups == {g1}
MCAttributes == {k1}
Symmetry ==
  Permutations(MCRequests) \cup Permutations(MCAccounts) \cup Permutations(MCEmails)
==============================================================================
