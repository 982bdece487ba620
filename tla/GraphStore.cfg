SPECIFICATION Spec
CONSTANTS
    hub = hub
    lib = lib
    app = app
    s = s
    Files = {hub, lib, app}
    Symbols = {s}
    NoHint = NoHint
    Absent = Absent
    Versions <- MCVersions
    Dir <- MCDir
    Writers = {w1, w2}
    MaxPublications = 6
    MaxFaults = 2
SYMMETRY Symmetry
INVARIANTS TypeOK RowsAreReferences OneRowPerReference NoDanglingAtRest LinksAreKept
CHECK_DEADLOCK FALSE
