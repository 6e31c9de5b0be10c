\* Two appends to one task: a receipt the facade has, and does not report.
SPECIFICATION MutationSpec
CONSTANTS
    a = a
    b = b
    None = None
    Caller = {a, b}
    Assignment <- Tasks
    MaxSession = 2
    MaxCrashes = 0
    Permits = 1
INVARIANT
    CommittedIsNeverDenied
