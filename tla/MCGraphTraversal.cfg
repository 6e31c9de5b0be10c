\* Every graph of three sites over three declarations, started at declaration 2
\* and at sites 1 and 3, one limit at a time.
SPECIFICATION MCSpec
\* A request ends.
CHECK_DEADLOCK FALSE
CONSTANTS
    Node = {1, 2, 3}
    Site = {1, 2, 3}
    KindOf <- TwoKinds
    Evidence = {"direct", "name", "omitted"}
    MaxCandidates = 2
    Requests <- AllRequests
INVARIANTS
    TraceIsExact
    ImpactIsConservative
