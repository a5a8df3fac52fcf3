SPECIFICATION Spec
CONSTANTS
    Thread = {t1, t2}
    Bits = 3
    Fields = 3
    Blocks = 7
    Counts = {2, 3, 5}
    Starts = {0, 1}
    MaxHeld = 2
SYMMETRY Threads
INVARIANTS IInv AssertionsHold
PROPERTIES ImplementsPool SearchIsComplete
