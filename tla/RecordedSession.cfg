SPECIFICATION Spec
CONSTANTS
    Magic <- Sign
    LengthMark <- Digit
    PayloadChars = 1
    Recordings <- TwoRecordings
    Capacity = 2
    Period = 8
    MaxElapsed = 4
    MaxKinds = 2
    MaxStarts = 2
INVARIANTS
    TotalsAddUp
    TimelineIsTrue
    ThreadsInTurn
PROPERTIES
    CallbacksInOrder
    SessionEnds
