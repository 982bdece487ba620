---------------------------- MODULE SealedIndex ----------------------------
(***************************************************************************)
(* What src/sot_graph/providers/managed.py promises about the index of a   *)
(* managed engine: it is changed only by a declared sync, a sync that does *)
(* not end with complete content seals the profile, and nothing ever opens *)
(* a sealed profile again.                                                 *)
(***************************************************************************)
VARIABLES
    phase,    \* "none", "READY", "SYNCING", "QUARANTINED"
    content,  \* "none", "partial", "complete"
    vouched   \* queries may be answered from the content

vars == <<phase, content, vouched>>

Init == phase = "none" /\ content = "none" /\ vouched = FALSE

Create == phase = "none" /\ phase' = "READY" /\ UNCHANGED <<content, vouched>>

Open == phase = "READY" /\ phase' = "SYNCING" /\ UNCHANGED <<content, vouched>>

Work ==
    /\ phase \in {"SYNCING", "QUARANTINED"}
    /\ content' \in {"partial", "complete"}
    /\ UNCHANGED <<phase, vouched>>

Vouch ==
    /\ phase = "SYNCING" => content = "complete"
    /\ phase \in {"SYNCING", "QUARANTINED"}
    /\ vouched' = TRUE
    /\ UNCHANGED <<phase, content>>

Close ==
    /\ phase = "SYNCING" /\ content = "complete"
    /\ phase' = "READY"
    /\ UNCHANGED <<content, vouched>>

Seal == phase # "none" /\ phase' = "QUARANTINED" /\ UNCHANGED <<content, vouched>>

Next == Create \/ Open \/ Work \/ Vouch \/ Close \/ Seal

Spec == Init /\ [][Next]_vars
=============================================================================
