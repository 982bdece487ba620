SPECIFICATION FairSpec
CONSTANTS
    p1 = p1
    p2 = p2
    t1 = t1
    t2 = t2
    Procs = {p1, p2}
    Threads = {t1, t2}
    Inodes = {i1, i2, i3}
    MaxNest = 2
    NoInode = NoInode
    NoThread = NoThread
    NotHeld = NotHeld
INVARIANTS
    TypeOK
    MutualExclusion
    HolderGuardsPath
    DepthCountsBlocks
    NoLeakedFlock
PROPERTIES
    OnlyOwnerUnlocks
    ImplementsMutex
    AcquireReturns
CHECK_DEADLOCK FALSE
