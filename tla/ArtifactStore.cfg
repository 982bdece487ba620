SPECIFICATION FairSpec
CONSTANTS
    s = s
    p1 = p1
    p2 = p2
    d1 = d1
    d2 = d2
    Procs = {s, p1, p2}
    Setup = s
    Pin = d1
    Digests = {d1, d2}
    NoDigest = NoDigest
    NoOne = NoOne
    MaxCalls = 2
    MaxFaults = 2
INVARIANT TypeOK
PROPERTIES ImplementsRegistry NeverWedged
