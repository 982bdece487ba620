------------------------------ MODULE Registry ------------------------------
(***************************************************************************)
(* What src/sot_graph/providers/artifacts.py promises about an artifact    *)
(* name: a digest appears once and whole, nothing installed is ever        *)
(* rewritten or removed, only an installed digest is selected, and only a  *)
(* request for the selected digest itself deselects it.                    *)
(***************************************************************************)
CONSTANTS Digests, NoDigest

VARIABLES
    whole,     \* installed digests whose files are as pinned
    lost,      \* installed digests damaged from outside
    selected,  \* the promoted digest, or NoDigest
    asked      \* digests somebody is asking to uninstall

vars == <<whole, lost, selected, asked>>

Init == whole = {} /\ lost = {} /\ selected = NoDigest /\ asked = {}

Install ==
    /\ \E d \in Digests \ (whole \cup lost) : whole' = whole \cup {d}
    /\ UNCHANGED <<lost, selected>>

Select ==
    /\ selected' \in whole \cup lost
    /\ UNCHANGED <<whole, lost>>

Deselect ==
    /\ selected \in asked
    /\ selected' = NoDigest
    /\ UNCHANGED <<whole, lost>>

Damage ==
    /\ \E d \in whole : whole' = whole \ {d} /\ lost' = lost \cup {d}
    /\ UNCHANGED selected

Wait == UNCHANGED <<whole, lost, selected>>

\* Requests come and go at any time.
Next ==
    /\ Install \/ Select \/ Deselect \/ Damage \/ Wait
    /\ asked' \in SUBSET Digests

Spec == Init /\ [][Next]_vars
=============================================================================
