\* Every kind of entry in each of two mappings, every way out of the constructor.
SPECIFICATION Spec
CONSTANTS
    MaxQueue = 1
    NMappings = 2
    IntMax = 5
    DefaultPeriod = 2
    Entries <- MCEntries
    MaxNow = 0
    MaxResets = 0
    ResetBound = 0
    MaxCallback = 1
INVARIANTS
    NodeTypeOK
    CallbacksFindTheirTargets
    EveryEntryAccounted
\* The bridge stops for good.
CHECK_DEADLOCK FALSE
