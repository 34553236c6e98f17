SPECIFICATION Spec
CONSTANTS
    Jobs = {j1, j2}
    Names = {"mars", "Mars"}
    SameName = {{"mars", "Mars"}}
    Versions = {v1}
    Windows = {w1}
    MaxFailures = 2
    MaxCrashes = 1
CHECK_DEADLOCK FALSE
INVARIANT OneSkinPerName
PROPERTY NothingIsLost ReadersSeeWhole
