\* Two sources and one commit that tracks neither; only edits disturb the capture.
CONSTANTS
    File = {1, 2}
    Source = {1, 2}
    Content = {1, 2}
    Absent = Absent
    Removable = {}
    Head = {3}
    Tree <- MCTree
    MaxEdits = 12
SPECIFICATION Spec
INVARIANTS NeverMixed
