\* A file of the disk queue vanishes.
SPECIFICATION Spec
CONSTANTS
    MaxBytes = 2
    Radix = 10
    MaxClock = 2
    Faults = {"vanish"}
    MaxBatch = 1
    MaxQueue = 1
    ServerFaults = {"net"}
    MaxLines = 1
INVARIANT GaugesCurrent
\* The bridge may be stopped, or die, for good.
CHECK_DEADLOCK FALSE
