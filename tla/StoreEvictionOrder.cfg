\* The names as they are printed: eleven batches of one millisecond, a restart,
\* and an eviction.
SPECIFICATION MCSpec
CONSTANTS
    MaxBytes = 2
    Radix = 10
    MaxClock = 2
    Faults = {}
    MaxHanded = 12
    MaxBatchLen = 1
PROPERTY EvictsOldest
\* The store may be used up to its bounds, and its process may stop for good.
CHECK_DEADLOCK FALSE
