SPECIFICATION Spec
CONSTANTS
    None = None
    Configs <- TwoOpen
INVARIANT
    StatementKeepsItsSide
CHECK_DEADLOCK FALSE
