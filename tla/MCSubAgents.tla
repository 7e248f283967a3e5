---------------------------- MODULE MCSubAgents ----------------------------
(* Small instances of SubAgents for TLC.                                   *)
EXTENDS SubAgents, TLC

CONSTANTS t1, t2, h1, h2, m1, m2, m3

Interchangeable == Permutations(Calls)
=============================================================================
