\* Writers, approvals, synchronisation, revalidation and index runs of two
\* processes under edits, moves of HEAD and crashes.
SPECIFICATION MemorySpec
CONSTANTS
    a = a
    b = b
    c = c
    d = d
    p = p
    q = q
    h1 = h1
    h2 = h2
    None = None
    Process = {p, q}
    Revision = {a, b, c, d}
    Histories <- FourVersions
    Head = {h1, h2}
    Committed <- SharedHistory
    MaxChanges = 2
    MaxOperations = 4
    MaxEpoch = 2
SYMMETRY Symmetry
INVARIANTS
    MemoryTypeOK
    RecallIsGrounded
    TeamMergesNeverCompete
PROPERTIES
    UpdatesReplaceTheirParent
CHECK_DEADLOCK FALSE
