---------------------------- MODULE MCFreshness ----------------------------
(* Instances of Freshness for TLC. *)
EXTENDS Freshness, TLC

CONSTANTS f1, g1, q1, w1
=============================================================================
