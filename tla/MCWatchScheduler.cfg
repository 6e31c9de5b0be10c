\* A backend that reports paths; any event may be lost.
SPECIFICATION Spec
\* The service may end.
CHECK_DEADLOCK FALSE
CONSTANTS
    Debounce = 1
    Periodic = 5
    RetryDelay = 2
    MaxRetries = 1
    PollInterval = 3
    MaxPerTurn = 2
    MaxHintPaths = 1
    MaxQueue = 2
    Path <- TwoPaths
    None = None
INVARIANTS
    WatchTypeOK
    RunnerSurvives
    ObservationsRemembered
    BoundedIdleness
PROPERTIES
    BackoffUnlessProvoked
    EveryChangeReconciled
    StopsWhenAsked
