\* Everything in the program's own hands may fail, and the disk holds a single line.
SPECIFICATION Spec
CONSTANTS
    MaxBytes = 1
    Radix = 10
    MaxClock = 2
    Faults = {"io", "rmfail", "crash"}
    MaxBatch = 2
    MaxQueue = 2
    ServerFaults = {"net", "reject"}
    MaxLines = 3
INVARIANTS
    NoLineForgotten
    CustodyInv
    TornFilesWrittenOff
\* The bridge may be stopped, or die, for good.
CHECK_DEADLOCK FALSE
