-------------------------------- MODULE Mutex --------------------------------
(***************************************************************************)
(* What src/sot_graph/locking.py promises its callers: one owner at a      *)
(* time, re-entrant for that owner, free again when the owner has left as  *)
(* many blocks as it entered or is gone.                                   *)
(***************************************************************************)
EXTENDS Naturals

CONSTANTS Agents, Nobody

VARIABLES owner, depth

Init == owner = Nobody /\ depth = 0

Acquire(a) == owner = Nobody /\ owner' = a /\ depth' = 1
Nest       == owner # Nobody /\ depth' = depth + 1 /\ UNCHANGED owner
Leave      == owner # Nobody /\ depth > 1 /\ depth' = depth - 1 /\ UNCHANGED owner
Free       == owner # Nobody /\ depth = 1 /\ owner' = Nobody /\ depth' = 0
Die        == owner # Nobody /\ owner' = Nobody /\ depth' = 0

Next == (\E a \in Agents : Acquire(a)) \/ Nest \/ Leave \/ Free \/ Die

Spec == Init /\ [][Next]_<<owner, depth>>
=============================================================================
