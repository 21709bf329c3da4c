-------------------------- MODULE MCAuthorization ----------------------------
(* Instances of Authorization for TLC: the founder, and two groups of which *)
(* one is the other's child.                                                *)
EXTENDS Authorization, TLC

CONSTANTS ann, team, staff, c1, h1, h2

MCUsers  == {ann}
MCGroups == {team, staff}
MCParent == (team :> staff) @@ (staff :> NoGroup)
MCChecks   == {c1}
MCHandlers == {h1, h2}
Symmetry == Permutations(MCHandlers)
==============================================================================
