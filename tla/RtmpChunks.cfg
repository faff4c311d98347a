CONSTANTS
    Channels = {4, 5}
    Kinds = {"AUDIO"}
    Sizes = {0, 1, 3}
    Times = {0, 1, 2}
    InitialChunk = 2
    ChunkSizes = {1, 3}
    Interleave = TRUE
    MaxSent = 3
    None = None
SPECIFICATION ChunksSpec
INVARIANTS
    ChunksTypeOK
    InStep
    DeliveredWhole
    TimesKept
PROPERTY AllDelivered
CHECK_DEADLOCK FALSE
