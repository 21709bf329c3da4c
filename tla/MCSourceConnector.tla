-------------------------- MODULE MCSourceConnector --------------------------
(* Instances of SourceConnector for TLC: two calls and a pool of two.          *)
EXTENDS SourceConnector, TLC

CONSTANTS c1, c2, s1, s2

MCCalls == {c1, c2}
MCSessions == {s1, s2}
==============================================================================
