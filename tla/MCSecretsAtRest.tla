--------------------------- MODULE MCSecretsAtRest ----------------------------
(* Instances of SecretsAtRest for TLC.                                      *)
EXTENDS SecretsAtRest, TLC

CONSTANTS p1, p2, k1, k2, k3, idp1, idp2, warehouse

MCProcesses   == {p1, p2}
MCKeys        == {k1, k2, k3}
MCProviders   == {idp1, idp2}
MCConnections == {warehouse}
MCOneProvider == {idp1}
Symmetry == Permutations(MCProcesses) \cup Permutations(MCKeys) \cup Permutations(MCProviders)
==============================================================================
