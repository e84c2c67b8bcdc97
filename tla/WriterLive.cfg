\* What must happen in the end, whatever the server answers and others remove.
SPECIFICATION FairSpec
CONSTANTS
    MaxBytes = 2
    Radix = 10
    MaxClock = 1
    Faults = {"io", "vanish"}
    MaxBatch = 2
    MaxQueue = 2
    ServerFaults = {"net", "lostack", "reject"}
    MaxLines = 3
PROPERTIES
    ShutdownCompletes
    FullQueueRelieved
    EventuallySettled
    CustodyRefined
    PortRefined
\* The bridge may be stopped, or die, for good.
CHECK_DEADLOCK FALSE
