\* Two processes, three sequence numbers, two syncs of lists of up to two.
SPECIFICATION SyncSpec
CONSTANTS
    MaxId = 6
    Numbers = {0, 1, 2}
    MaxLength = 2
    MaxSyncs = 2
    Slots = {s1, s2}
    Absent = Absent
SYMMETRY Symmetry
INVARIANTS
    ProcessesTypeOK
    RecordedKept
PROPERTIES
    SyncExactUnlessRaced
