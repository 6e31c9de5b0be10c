\* One repository indexed, reconciled and swept under edits and faults, with
\* few enough epochs that they can run out.
SPECIFICATION FairIndexingSpec
CONSTANTS
    r1 = r1
    None = None
    c1 = c1
    c2 = c2
    Repo = {r1}
    ConfiguredSlot = {}
    ConfiguredWorkspace = {}
    MaxEpoch = 3
    MaxGeneration = 3
    Keep = 0
    Snapshot = {c1, c2}
    MaxDisturbances = 3
INVARIANTS
    WholeGenerations
    SuccessIsFresh
PROPERTIES
    IdlePollsPublishNothing
    Converges
