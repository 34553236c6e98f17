SPECIFICATION Spec
CONSTANTS
    MaxLineBytes = 2
    MaxChunks = 2
    MaxBytes = 3
    MaxBatch = 2
    Streams <- MCStreams
    ChunkSizes = {1, 2, 4}
    MaxStarts = 2
INVARIANTS
    QueueKept
    NeverSpliced
    StopDrains
PROPERTY
    WorkerAnswers
