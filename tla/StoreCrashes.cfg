\* Only crashes and restarts: the books of the store are exact.
SPECIFICATION MCSpec
CONSTANTS
    MaxBytes = 3
    Radix = 2
    MaxClock = 4
    Faults = {"crash"}
    MaxHanded = 6
    MaxBatchLen = 4
INVARIANTS
    ExactAccounting
    DiskWithinBudget
\* The store may be used up to its bounds, and its process may stop for good.
CHECK_DEADLOCK FALSE
