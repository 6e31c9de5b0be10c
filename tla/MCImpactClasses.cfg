\* Impacts over four declarations related by four unambiguous sites.
SPECIFICATION MCSpec
\* A request ends.
CHECK_DEADLOCK FALSE
CONSTANTS
    Node = {1, 2, 3, 4}
    Site = {1, 2, 3, 4}
    KindOf <- OneKind
    Evidence = {"direct", "name"}
    MaxCandidates = 1
    Requests <- CompleteImpact
INVARIANTS
    PossibleMeansOnlyPossible
