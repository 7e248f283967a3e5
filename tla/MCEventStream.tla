--------------------------- MODULE MCEventStream ---------------------------
(* Small instances of EventStream for TLC.                                 *)
EXTENDS EventStream, TLC

CONSTANTS x1, o1, c1
=============================================================================
