\* A topic without a translator: none is resolved from its message type.
SPECIFICATION Spec
CONSTANTS
    MaxQueue = 1
    NMappings = 1
    IntMax = 5
    DefaultPeriod = 2
    Entries <- MCNoTranslator
    MaxNow = 0
    MaxResets = 0
    ResetBound = 0
    MaxCallback = 1
INVARIANT DefaultTranslatorFound
\* The bridge stops for good.
CHECK_DEADLOCK FALSE
