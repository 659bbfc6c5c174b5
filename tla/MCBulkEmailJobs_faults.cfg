\* Three jobs on a pool of two connections, a fault anywhere, in every mode.
SPECIFICATION MCSpec
CONSTANTS
    Jobs = {j1, j2, j3}
    Cap = 2
    MaxSchedules = 3
    PoolSize = 2
    MaxFaults = 1
    Modes <- AllModes
INVARIANTS
    TypeOK
    NoConnectionLeak
    ClosedRowHonest
PROPERTIES
    ImplementsLifecycle
    EventuallyClosed
