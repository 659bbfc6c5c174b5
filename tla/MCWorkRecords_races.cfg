\* One schedule, the type that closes it; three requests in flight.
SPECIFICATION Spec
CONSTANTS
    Schedules = {s1}
    Types = {OFF}
    OFF = OFF
    Processes = {p1}
    Times = {t1, t2}
    Requests = {r1, r2, r3}
    MaxRecords = 2
    None = None
SYMMETRY Symmetry
INVARIANTS
    TypeOK
    SecondOpenOnlyByRace
    OffClosesSchedule
PROPERTIES
    EndRewrittenOnlyByRace
