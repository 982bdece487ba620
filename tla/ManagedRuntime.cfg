SPECIFICATION Spec
CONSTANTS
    i1 = i1
    i2 = i2
    Instances = {i1, i2}
    NoOne = NoOne
    NoMarker = NoMarker
    MaxChanges = 3
    MaxFaults = 3
SYMMETRY Symmetry
INVARIANTS TypeOK ServedFromCompleteIndex
PROPERTIES ImplementsSealedIndex
