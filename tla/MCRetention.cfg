\* One repository, four generations, a floor of one retained generation.
SPECIFICATION RetentionSpec
CONSTANTS
    r1 = r1
    s1 = s1
    s2 = s2
    a1 = a1
    a2 = a2
    a3 = a3
    None = None
    Repo = {r1}
    ConfiguredSlot = {}
    ConfiguredWorkspace = {}
    MaxEpoch = 3
    MaxGeneration = 4
    Keep = 1
    Snapshot = {s1, s2}
    ArtifactsOf <- MCArtifactsOf
    SlotRank <- MCSlotRank
    OverlayRows = 12
    MaxCandidates = 2
    MaxRows = 31
    MaxEstimate = 25
    PinSets = {{}, {1}}
    MaxRecords = 1
    MaxProjections = 1
    MaxUnpublished = 1
    MaxOverlays = 1
    MaxAudits = 2
INVARIANTS
    ReferencesIntact
PROPERTIES
    ApplyDoesWhatWasShown
    ReservationsSuffice
