SPECIFICATION MapSpec
CONSTANTS
    kMaxGapMs = 3
    Quarter = 18
    Recordings <- MCRecordings
    NoSession = NoSession
    kMap2DPointBudget = 3
    kMap3DPointBudget = 2
    kMaxMapSampleCount = 4
    Sky <- MCSky
INVARIANT PageShowsTheFlight
PROPERTY AlignedSamplesStay UpdatesArePublished LoadsEnd
