SPECIFICATION MCSpec
CONSTANTS
    w1 = w1
    w2 = w2
    f1 = f1
    f2 = f2
    a = a
    b = b
    Writers = {w1, w2}
    Files = {f1}
    Contents = {a, b}
    Absent = Absent
    NoRow = NoRow
    NoRecord = NoRecord
    Free = Free
    Forcers = {w1}
    Callers = {w2}
    MaxEdits = 2
    MaxFaults = 1
    MaxGeneration = 2
INVARIANTS TypeOK StampVouches
PROPERTIES NeverGoesBack CleanRunIsInSync Converges
CHECK_DEADLOCK FALSE
