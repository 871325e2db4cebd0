SPECIFICATION FairSpec
CONSTANTS
    Requests = {r1, r2}
    MaxAttempts = 2
    MaxEpoch = 3
INVARIANTS
    TypeOK
    CancelledSessionGoes
PROPERTIES
    OnlyLiveAnswers
    SessionFromLiveAttempt
    CancelledRequestEnds
\* Attempts and epochs are bounded, so nothing may be left to do.
CHECK_DEADLOCK FALSE
