SPECIFICATION Spec
CONSTANTS
    Descriptors = {0, 1}
    MaxOpens = 3
    MaxSelfStops = 2
CHECK_DEADLOCK FALSE
INVARIANT
    FilesAreItsOwn
PROPERTIES
    SilentAfterSelfStop
    JoinsReturnUnlessBlocked
