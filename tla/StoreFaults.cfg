\* Everything the environment can do to the store.
SPECIFICATION MCSpec
CONSTANTS
    MaxBytes = 3
    Radix = 2
    MaxClock = 2
    Faults = {"io", "vanish", "rmfail", "crash"}
    MaxHanded = 4
    MaxBatchLen = 2
INVARIANTS
    StoreTypeOK
    StoreInv
    BytesCoverBacklog
    NewestSurvivesEviction
    PendingFrontOrGone
    BacklogInOrder
PROPERTIES
    NoOverwrite
    ProcessedWasRead
\* The store may be used up to its bounds, and its process may stop for good.
CHECK_DEADLOCK FALSE
