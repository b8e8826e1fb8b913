SPECIFICATION FairSpec
CHECK_DEADLOCK FALSE
CONSTANTS
    db = db
    http = http
    Sidecars <- BothSidecars
    Tests <- FaultTests
    Mocks <- FaultMocks
    HitKey <- FaultKeys
    Calls <- FaultCalls
    Call <- FaultCall
    Attempts = 2
    MaxTicks = 1
    MaxCrashes = 1
    NoMock = NoMock
    NoReading = NoReading
INVARIANT HostNeverAhead
PROPERTY EveryTestJudged
