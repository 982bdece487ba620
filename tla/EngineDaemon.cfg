SPECIFICATION Spec
CONSTANTS
    c1 = c1
    c2 = c2
    d1 = d1
    d2 = d2
    Clients = {c1, c2}
    Daemons = {d1, d2}
    NoDaemon = NoDaemon
    MaxCalls = 1
    MaxFaults = 1
CHECK_DEADLOCK FALSE
INVARIANTS TypeOK AnswersAreOwn ReplaysAreBounded
PROPERTIES CallsReturn DaemonsLeave
