--------------------------- MODULE MCResultCache -----------------------------
(* Instances of ResultCache for TLC.                                        *)
EXTENDS ResultCache, TLC

CONSTANTS x1, x2, c1, p1, p2, q1

MCTwo   == {x1, x2}
MCConn  == {c1}
MCPrints == {p1, p2}
MCQuestion  == {q1}

Identities == Permutations({x1, x2})
Symmetry == Identities \cup Permutations({p1, p2})
==============================================================================
