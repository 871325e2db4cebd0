SPECIFICATION FairSpec
CONSTANTS
    Opens = {o1}
    Callers = {c1}
    MaxQueue = 1
    MaxPending = 1
    MaxOutput = 1
    MaxEpoch = 1
    MaxGeneration = 1
PROPERTIES
    EndedCloudSessionLeaves
\* Open calls are made once and epochs are bounded: nothing may be left to do.
CHECK_DEADLOCK FALSE
