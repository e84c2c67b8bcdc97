\* No failure is needed.
SPECIFICATION Spec
CONSTANTS
    MaxBytes = 2
    Radix = 10
    MaxClock = 1
    Faults = {}
    MaxBatch = 2
    MaxQueue = 2
    ServerFaults = {}
    MaxLines = 2
PROPERTY BatchesAccumulate
\* The bridge may be stopped, or die, for good.
CHECK_DEADLOCK FALSE
