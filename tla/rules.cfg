SPECIFICATION Spec
CHECK_DEADLOCK FALSE
CONSTANTS
    Cases <- MCCases
    None = None
    Width <- MCWidth
    Base = 100
    Like <- MCLike
    NameOrder <- MCNames
    KnownTables <- MCTables
    Variables <- MCVariables
INVARIANTS
    RowsReadBack
    SpecKeepsClauses
