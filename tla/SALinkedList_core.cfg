SPECIFICATION Spec
CONSTANTS
    Object = {n1, n2, n3, n4}
    Cell = {c1, c2, c3}
    This = this
    Null = null
    MaxDepth = 2
    HeadOnly = TRUE
 
PROPERTY ImplementsSequence
CHECK_DEADLOCK FALSE
