SPECIFICATION Spec
CONSTANTS
    h = h
    m1 = m1
    m2 = m2
    Home = h
    Callers = {m1, m2}
    Untracked = {m2}
    Others = 0
    Attached <- MCNoReport
    MaxEdits = 2
    Unsaid = Unsaid
    NoReport = NoReport
INVARIANTS TypeOK
PROPERTIES AbsenceIsReal NoKnownCallerIsLeft Closes
