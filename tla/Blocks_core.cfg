SPECIFICATION Spec
CONSTANTS
    BlockSizes = {16, 32}
    Reserved <- OneSmall
    Requests = {0, 4, 24}
    Alignments = {16}
    Offsets = {0, 8}
    MaxLive = 2
INVARIANTS PointersSound PaddingIntact 
