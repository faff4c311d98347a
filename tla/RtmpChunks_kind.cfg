CONSTANTS
    Channels = {5}
    Kinds = {"AUDIO", "VIDEO"}
    Sizes = {1, 2}
    Times = {0, 1, 2}
    InitialChunk = 2
    ChunkSizes = {1, 3}
    Interleave = FALSE
    MaxSent = 2
    None = None
SPECIFICATION ChunksSpec
INVARIANT KindKept
CHECK_DEADLOCK FALSE
