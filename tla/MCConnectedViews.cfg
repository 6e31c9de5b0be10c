\* Two repositories and a connected workspace over both.
SPECIFICATION Spec
CONSTANTS
    r1 = r1
    r2 = r2
    s1 = s1
    s2 = s2
    w1 = w1
    None = None
    Repo = {r1, r2}
    ConfiguredSlot = {s1, s2}
    ConfiguredWorkspace = {w1}
    MaxEpoch = 1
    MaxGeneration = 2
    Keep = 0
SYMMETRY Symmetric
INVARIANTS
    TypeOK
    DefaultSlotAgrees
    OneActiveGeneration
    VisibleViewComplete
    CompletedEpochSurvives
PROPERTIES
    ImplementsContract
    IdsNeverReissued
    ActivationMovesForward
