\* A workspace of two repositories refreshed under edits and faults.
SPECIFICATION FairConnectedSpec
CONSTANTS
    r1 = r1
    r2 = r2
    s1 = s1
    s2 = s2
    w1 = w1
    None = None
    Repo = {r1, r2}
    ConfiguredSlot = {s1, s2}
    ConfiguredWorkspace = {w1}
    MaxEpoch = 3
    MaxGeneration = 6
    Keep = 0
    Manifest <- TwoWorktrees
    Connected = w1
    MaxDisturbances = 3
INVARIANTS
    SuccessIsOneInstant
PROPERTIES
    ViewsMoveTogether
    ConnectedConverges
