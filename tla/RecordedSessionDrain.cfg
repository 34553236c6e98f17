SPECIFICATION Spec
CONSTANTS
    Magic <- Sign
    LengthMark <- Digit
    PayloadChars = 1
    Recordings <- OneRecording
    Capacity = 1
    Period = 8
    MaxElapsed = 4
    MaxKinds = 2
    MaxStarts = 2
INVARIANT
    StopDrains
