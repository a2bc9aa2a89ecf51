CONSTANTS
    Base = 2
    kDiscardableSize = 2
    InitialSize = 2
    ExtraSize = 2
    MaxReadable = 4
    Chunk <- MCChunk
SPECIFICATION Spec
INVARIANTS TypeOK AssertionsHold PrependedIntIsRead
PROPERTIES GrowthBounded QueueSpec
