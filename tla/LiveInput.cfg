SPECIFICATION Spec
CONSTANTS
    Capacity = 2
    Counters = {"receivedBytes", "droppedChunks", "malformedLines"}
    CounterMax = 2
    MaxQueuedChunks = 2
    MaxQueuedBytes = 2
    MaxBatch = 2
    ChunkSizes = {1, 2, 3}
    MaxGeneration = 3
    MaxChunk = 3
    MaxLaterChunk = 2
INVARIANTS
    DrainsAreCoalesced
    StopAccountsForAll
    NothingUntold
PROPERTIES
    OldestFirst
    InputIsServed
