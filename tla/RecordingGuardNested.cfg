\* Quitting asks its question over one that is already open.
CONSTANTS
    MaxSession = 3
    MaxRevision = 1
    MaxDialogs = 2
    MaxLoadGeneration = 0
    NestedQuestions = TRUE
    EditsWhileSaving = FALSE
SPECIFICATION Spec
PROPERTY
    NothingDroppedUnasked
CHECK_DEADLOCK FALSE
