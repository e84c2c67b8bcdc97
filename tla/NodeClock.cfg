\* One mapping, a clock that is set back once, a queue of one line.
SPECIFICATION FairSpec
CONSTANTS
    MaxQueue = 1
    NMappings = 1
    IntMax = 5
    DefaultPeriod = 2
    Entries <- MCClocked
    MaxNow = 4
    MaxResets = 1
    ResetBound = 2
    MaxCallback = 1
PROPERTIES
    EmissionsSpaced
    StampsIncrease
    HeardAgain
    AlarmHolds
\* The bridge stops for good.
CHECK_DEADLOCK FALSE
