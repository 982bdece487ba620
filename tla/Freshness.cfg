SPECIFICATION Spec
CONSTANTS
    f1 = f1
    g1 = g1
    q1 = q1
    w1 = w1
    Files = {f1, g1}
    EngineFiles = {f1}
    Queries = {q1}
    Workers = {w1}
    NoWorker = NoWorker
    FastMax = 1
    MaxEdits = 3
    MaxFaults = 1
INVARIANTS TypeOK CurrentBarringRaces
PROPERTIES SnapshotNeverGoesBack Converges
