SPECIFICATION FilesSpec
CONSTANTS
    file = file
    Paths = {file}
    MaxRecordings = 3
    MaxSamples = 1
    Second = 2
    Bounds <- MCBounds
INVARIANTS AnnotationsBelong SavedSurvives RecoveryIsTrue
