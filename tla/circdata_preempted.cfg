SPECIFICATION PreemptedSpec
CONSTANTS
    BufferSize = 3
    Sizes = {1}
    QueueSize = 3
    MaxBlocks = 3
INVARIANTS
    NoOverlap
