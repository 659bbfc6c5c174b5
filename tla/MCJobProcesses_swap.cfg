\* One list after another: is a list that stands by itself always applied?
SPECIFICATION SyncSpec
CONSTANTS
    MaxId = 6
    Numbers = {0, 1, 2}
    MaxLength = 2
    MaxSyncs = 2
    Slots = {s1, s2}
    Absent = Absent
SYMMETRY Symmetry
INVARIANT ListApplied
