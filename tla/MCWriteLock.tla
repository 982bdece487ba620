----------------------------- MODULE MCWriteLock -----------------------------
(* Two processes of two threads, either of which may be the other's child. *)
EXTENDS WriteLock

CONSTANTS p1, p2, t1, t2
=============================================================================
