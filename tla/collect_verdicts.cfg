SPECIFICATION Spec
CHECK_DEADLOCK FALSE
CONSTANTS
    db = db
    http = http
    Sidecars <- BothSidecars
    Tests <- SuiteTests
    Mocks <- SuiteMocks
    HitKey <- SuiteKeys
    Calls <- SuiteCalls
    Call <- SuiteCall
    Attempts = 2
    MaxTicks = 1
    MaxCrashes = 0
    NoMock = NoMock
    NoReading = NoReading
INVARIANT PassMeansCalled
PROPERTIES
    PassMeansClean
    WellBehavedPasses
