\* Up to three rows, pages of one or two, three changes.
SPECIFICATION Spec
CONSTANTS
    Ids = {1, 2, 3}
    Days = {1, 2}
    Sizes = {1, 2}
    MaxChanges = 3
INVARIANTS
    TypeOK
    MissedOnlyByChange
    RepeatedOnlyByEntry
