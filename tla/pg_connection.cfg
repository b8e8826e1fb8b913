SPECIFICATION Spec
CONSTANTS
    Conns <- MCConns
    Configs <- PgConfigs
INVARIANTS
    RepliesAsPostgres
    ServerKnowsNames
    Accounted
    FreshAfterReload
PROPERTIES
    EveryRequestAnswered
    ResetEndsHandlers
CHECK_DEADLOCK FALSE
