\* Two jobs on one connection, no fault at all.
SPECIFICATION MCSpec
CONSTANTS
    Jobs = {j1, j2}
    Cap = 2
    MaxSchedules = 3
    PoolSize = 1
    MaxFaults = 0
    Modes <- Production
INVARIANTS
    RunnerClosesJob
