SPECIFICATION Spec
CONSTANTS
    Thread = {t1, t2}
    NoThread = noThread
    NoSeg = noSeg
    Ended = ended
    Segment = {s1}
    Slices = 4
    Info = 1
    MaxOffset = 1
    Counts = {1, 2}
    HugeCounts = {2, 4}
    Options <- AllOptions
SYMMETRY Symmetry
INVARIANTS SpansValid MasksValid OneOwner
PROPERTIES ImplementsPool
