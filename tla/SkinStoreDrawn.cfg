SPECIFICATION Spec
CONSTANTS
    Jobs = {j1}
    Names = {"mars", "Mars"}
    SameName = {{"mars", "Mars"}}
    Versions = {v1, v2}
    Windows = {w1}
    MaxFailures = 0
    MaxCrashes = 0
CHECK_DEADLOCK FALSE
INVARIANT DrawnWithItsTextures
