SPECIFICATION Spec
CONSTANTS
    c1 = c1
    c2 = c2
    d1 = d1
    d2 = d2
    Clients = {c1}
    Daemons = {d1}
    NoDaemon = NoDaemon
    MaxCalls = 1
    MaxFaults = 1
CHECK_DEADLOCK FALSE
INVARIANT NoiseIsSkipped
