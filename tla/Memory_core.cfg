SPECIFICATION Spec
CONSTANTS
    Thread = {t1, t2}
    Pages = 9
    Block = 2
    HugeArea = 4
    Retry = 1
    DEBUG = TRUE
    Width = 2
    Calls <- MCCalls
    MaxCalls = 3
    MaxArenas = 2
    Spare = 1
    Reserve <- MCReserve
    NumaNode <- MCNumaNode
SYMMETRY Symmetry
CHECK_DEADLOCK FALSE
INVARIANT Accounted
INVARIANT Accessible
 
 
