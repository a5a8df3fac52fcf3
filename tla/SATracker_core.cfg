SPECIFICATION Spec
CONSTANTS
    Thread = {t1, t2}
    Owner = {o1, o2}
    Global = o1
    NoOwner = noOwner
    MemOwner = {o2}
    Addr = {a1, a2}
    Count = {1}
    MutexSize = 2
    Word = 8
    MaxPointers = 3
    NoThread = noThread
    CallocFails = TRUE
INVARIANTS NoDangling MallocatorKnows
PROPERTIES SharedSurvives
