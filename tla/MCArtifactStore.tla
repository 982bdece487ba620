-------------------------- MODULE MCArtifactStore ---------------------------
(* Instances of ArtifactStore for TLC. *)
EXTENDS ArtifactStore, TLC

CONSTANTS s, p1, p2, d1, d2
=============================================================================
