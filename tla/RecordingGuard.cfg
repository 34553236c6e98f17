\* One question at a time, and no editor opened while a save runs.
CONSTANTS
    MaxSession = 3
    MaxRevision = 2
    MaxDialogs = 2
    MaxLoadGeneration = 3
    NestedQuestions = FALSE
    EditsWhileSaving = FALSE
SPECIFICATION Spec
INVARIANTS
    SavedMeansWritten
    MarkersStayWithRecording
PROPERTY
    NothingDroppedUnasked
\* The program ends when the window has closed.
CHECK_DEADLOCK FALSE
