SPECIFICATION WatchFairSpec
CONSTANTS
    f1 = f1
    f2 = f2
    Files = {f1, f2}
    Absent = Absent
    NoPath = NoPath
    MaxEdits = 3
    MaxFaults = 2
INVARIANTS WatchTypeOK NothingForgotten
PROPERTY PollingCatchesUp
CHECK_DEADLOCK FALSE
