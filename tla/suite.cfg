SPECIFICATION Spec
CONSTANTS
    r1 = r1
    r2 = r2
    users = users
    orders = orders
    None = None
    Runs <- MCRuns
    Services <- MCServices
    Service <- MCService
    Files <- MCFiles
    Explicit = {"network", "app"}
    Faults = {"start", "reuse", "remove", "interrupt"}
    MaxFaults = 1
    Edits = {"tables"}
    MaxEdits = 1
    Attempts = 2
INVARIANTS NothingLeft SpecRunsOnItsOwn
PROPERTIES OnlyOwnRemoved RunsEnd
