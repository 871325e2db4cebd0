SPECIFICATION FairSpec
CONSTANTS
    Opens = {o1}
    Callers = {c1, c2}
    MaxQueue = 1
    MaxPending = 1
    MaxOutput = 2
    MaxEpoch = 2
    MaxGeneration = 2
INVARIANTS
    TypeOK
    LingeringExplained
PROPERTIES
    ImplementsBarrier
    UnregisteredIoEnds
\* Open calls are made once and epochs are bounded: nothing may be left to do.
CHECK_DEADLOCK FALSE
