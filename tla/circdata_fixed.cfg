SPECIFICATION Spec
CONSTANTS
    BufferSize = 7
    Sizes = {1}
    QueueSize = 7
    MaxBlocks = 7
INVARIANTS
    TypeOK
    NoOverlap
    NeverStarved
