SPECIFICATION Spec
CONSTANTS
    h = h
    m1 = m1
    m2 = m2
    Home = h
    Callers = {m1}
    Untracked = {}
    Others = 0
    Attached <- MCReports
    MaxEdits = 1
    Unsaid = Unsaid
    NoReport = NoReport
INVARIANTS FailureClaimsBlock
