SPECIFICATION MessagingSpec
CHECK_DEADLOCK FALSE
SYMMETRY Symmetry
CONSTANTS
    Conns = {c1, c2}
    NoRequest = NoRequest
    Decl <- MessagingDecl
    Requests <- MessagingRequests
    Seeds <- MessageSeeds
    GRPCUpstream = FALSE
    MaxRequests = 4
INVARIANTS
    TypeOK
    NegativesReported
    BypassesRecorded
    ArrivalOrderIrrelevant
