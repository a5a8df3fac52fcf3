SPECIFICATION Spec
CONSTANTS
    Thread = {t1, t2}
    Blocks = 3
    Counts = {1, 2}
    Options <- AllOptions
SYMMETRY Threads
INVARIANTS ClaimsAccounted MemidIsTrue CommittedIsReal
PROPERTIES ImplementsPool
