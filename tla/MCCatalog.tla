----------------------------- MODULE MCCatalog -------------------------------
(* Instances of Catalog for TLC: one table with a column, one relationship   *)
(* of two columns, the job and a command.                                   *)
EXTENDS Catalog, TLC

CONSTANTS t1, x1, k1, k2, r1, y1, y2

MCTables == {t1}
MCColumns == {x1}
MCKeyRows == {k1, k2}
MCRelations == {r1}
MCTableOf == x1 :> t1
MCRelationOf == [k \in MCKeyRows |-> r1]
MCSyncs == {y1, y2}
Symmetry == Permutations(MCSyncs) \cup Permutations(MCKeyRows)
==============================================================================
