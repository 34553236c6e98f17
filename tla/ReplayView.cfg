SPECIFICATION ViewSpec
CONSTANTS
    long = long
    short = short
    Flights = {long, short}
    NoFlight = NoFlight
    Timeline <- Times
    MinSpeed = 1
    NormalSpeed = 2
    MaxSpeed = 4
    AskedSpeeds = {0, 4, 9}
    PointBudget = 2
    MaxPosted = 2
    MaxLive = 1
INVARIANTS TrailBehindHead ControlsTellTheTruth NothingStaysStale
PROPERTIES KeepsTime PlaybackEnds
