\* Two operations on one database, over two sessions: three pairs of kinds.
SPECIFICATION FairMutationSpec
CONSTANTS
    a = a
    b = b
    None = None
    Caller = {a, b}
    Assignment <- Pairs
    MaxSession = 2
    MaxCrashes = 1
    Permits = 1
INVARIANTS
    MutationTypeOK
    ReportsAreHonest
    ResponsesAreHonest
    TasksHoldPermits
    QueuedBehindUnresolvedNeverCommits
PROPERTIES
    LeaseFencesEarlierSessions
    EverythingEnds
