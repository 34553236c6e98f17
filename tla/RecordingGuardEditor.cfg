\* An event editor may be opened while the save before a replacement runs.
CONSTANTS
    MaxSession = 3
    MaxRevision = 2
    MaxDialogs = 1
    MaxLoadGeneration = 3
    NestedQuestions = FALSE
    EditsWhileSaving = TRUE
SPECIFICATION Spec
INVARIANT
    MarkersStayWithRecording
CHECK_DEADLOCK FALSE
