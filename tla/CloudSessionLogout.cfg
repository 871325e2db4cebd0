SPECIFICATION FairSpec
CONSTANTS
    Requests = {r1, r2}
    MaxAttempts = 1
    MaxEpoch = 2
PROPERTIES
    SessionChangeStopsRequests
\* Attempts and epochs are bounded, so nothing may be left to do.
CHECK_DEADLOCK FALSE
