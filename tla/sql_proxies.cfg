SPECIFICATION ProxySpec
CHECK_DEADLOCK FALSE
SYMMETRY Symmetry
CONSTANTS
    Conns = {c1, c2}
    NoRequest = NoRequest
    Decl <- ProxyDecl
    Requests <- ProxyRequests
    Seeds <- NoSeeds
    GRPCUpstream = TRUE
    MaxRequests = 3
INVARIANTS
    ExpectsSpentOnce
    ServedAsDeclared
    BestMatchServed
    NegativesReported
    ReportedUnderHostKey
PROPERTY LedgerSpec
