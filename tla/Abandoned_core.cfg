SPECIFICATION Spec
CONSTANTS
    Thread = {t1, t2}
    NoThread = noThread
    Segment = {s1, s2, s3}
    Null = null
    Tags = 3
SYMMETRY Symmetry
INVARIANTS ReadersSafe DrainedWhenAlone
PROPERTIES ImplementsSet
