--------------------------- MODULE MCEngineDaemon ---------------------------
(* Instances of EngineDaemon for TLC. *)
EXTENDS EngineDaemon, TLC

CONSTANTS c1, c2, d1, d2
=============================================================================
