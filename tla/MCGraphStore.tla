------------------------------ MODULE MCGraphStore ------------------------------
(* Instances of GraphStore for TLC: a hub that re-exports a symbol or defines *)
(* it, a library, and a caller that names the hub, the library or neither.    *)
EXTENDS GraphStore, TLC

CONSTANTS hub, lib, app, s

Ref(rel, name, module) == [rel |-> rel, name |-> name, module |-> module]
Content(defs, refs) == [defs |-> defs, refs |-> refs]

MCVersions ==
    [f \in Files |->
        CASE f = hub -> {Content({}, {Ref("imports", s, lib)}), Content({s}, {})}
          [] f = lib -> {Content({}, {}), Content({s}, {})}
          [] f = app -> {Content({}, {Ref("uses", s, hub), Ref("imports", lib, lib)}),
                         Content({}, {Ref("uses", s, NoHint), Ref("imports", s, hub)}),
                         Content({}, {Ref("imports", s, lib), Ref("imports", lib, lib)}),
                         Content({s}, {Ref("uses", s, NoHint)})}]

MCDir == [f \in Files |-> f = lib]

Symmetry == Permutations(Writers)
=============================================================================
