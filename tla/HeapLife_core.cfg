SPECIFICATION Spec
CONSTANTS
    t1 = t1  t2 = t2  t3 = t3
    h1 = h1  h2 = h2  h3 = h3
    s1 = s1  s2 = s2
    p1 = p1  p2 = p2  p3 = p3
    b1 = b1  b2 = b2  b3 = b3
    Thread = {t1, t2}
    Heap = {h1, h2, h3}
    Segment = {s1}
    Page = {p1}
    Block = {b1, b2}
    Backing <- MCBacking
    Main = t1
    SegmentOf <- OneSegment
    PageOf <- OnePage
    NoThread = noThread
    NoHeap = noHeap
    NoSegment = noSegment
    NoPage = noPage
    NoBlock = noBlock
    Calls <- EveryCall
INVARIANTS FullInv NothingLost AssertionsHold OwnersAgree
PROPERTIES ImplementsPool FlagKept
