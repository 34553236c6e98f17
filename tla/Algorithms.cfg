SPECIFICATION Spec
CONSTANTS
    kMaxThemeBytes = 3
    kMaxImageBytes = 2
    TextureFiles <- MCTextureFiles
    kMaxArchiveBytes = 24
    kMaxEntries = 3
    kMaxExpandedBytes = 4
    Backslashed = {"back"}
    InvalidNames <- MCInvalidNames
    CaseFolded <- MCCaseFolded
    kMaxImageDimension = 3
    kMaxDecodedImagePixels = 5
    DefaultPalette <- MCDefaultPalette
    DefaultTraces <- MCBrightTraces
    BrightTraces <- MCBrightTraces
    DarkTraces <- MCDarkTraces
    MAXIMUM_TELEMETRY_MAGNITUDE = 20
    MaxTimestamp = 2000
    MaxLatitude = 3
    MaxLongitude = 6
    kMaxXlsxFileBytes = 400
    kMaxXlsxEntryBytes = 40
    kMaxXlsxColumns = 7
    kMaxXlsxRows = 5
    Letters = 3
    SheetPaths <- MCSheetPaths
    Period = 5
    Magic <- TwoLetters
    LengthMark <- TwoDigits
    PayloadChars = 1
    Alphabet = {"T", "E", "sp", "2", "nl", "x"}
    MaxStream = 7
    kBlockSize = 2
    Missing = Missing
    MaxDelta = 6
    kMaxLineSegments = 2
    kMaxGapMs = 3
    Quarter = 18
CHECK_DEADLOCK FALSE
INVARIANT ArchivesMeanTheirFiles ThemesAreSound LoadsMeanTheirFiles CapturesAreTheirPackets PreviewsAreTrue
