\* Two sources and another tracked file, removals and a change of HEAD.
CONSTANTS
    File = {1, 2, 3}
    Source = {1, 2}
    Content = {1, 2, 3}
    Absent = Absent
    Removable = {1, 2, 3}
    Head = {1, 2}
    Tree <- MCTree
    MaxEdits = 3
SPECIFICATION Spec
INVARIANTS ConfirmedIsOneState ConfirmedIsFresh
