SPECIFICATION Spec
CONSTANTS
    t1 = t1  t2 = t2  t3 = t3
    Thread = {t1, t2, t3}
    Main = t1
    Td = {d1, d2, d3}
    Tld <- MCTld
    HeapMain = HeapMain
    HeapEmpty = HeapEmpty
    Null = Null
    NoThread = NoThread
    Absent = Absent
    Bogus = Bogus
    Options <- MCOptions
    Initial <- MCInitial
    Environments <- MCEnvironments
    MaxDelay = 4
    PrefixLen = 1
    TextLen = 2
    Slots = 1
    Iterations = 2
    Programs <- MCPrograms
    MaxCalls = 2
    MaxLives = 2
    MaxFails = 1
    Settings <- MCSettings
SYMMETRY Symmetry
CHECK_DEADLOCK FALSE
INVARIANT ThreadDataSound
 
INVARIANT BufferSound
INVARIANT ThreadsCounted
