\* The server is unreachable for any time; the disk is big enough.
SPECIFICATION Spec
CONSTANTS
    MaxBytes = 6
    Radix = 10
    MaxClock = 3
    Faults = {}
    MaxBatch = 2
    MaxQueue = 3
    ServerFaults = {"net"}
    MaxLines = 6
INVARIANTS
    WriterTypeOK
    OutageLosesNothing
    DeliveredOnce
    OldestFirst
    NoLostSignal
    GaugesCurrent
    AllClearIsTrue
\* The bridge may be stopped, or die, for good.
CHECK_DEADLOCK FALSE
