SPECIFICATION FairSpec
CONSTANTS
    Openers = {o1, o2}
    Callers = {c1}
    Principals = {alice}
    Credentials = {key}
    None = none
    MaxEpoch = 1
    MaxGeneration = 1
    MaxRevokes = 1
INVARIANTS
    RegisteredIsCurrent
    OneCloserPerTransport
PROPERTIES
    RevocationReachesConnecting
    ImplementsBarrier
    TransportsEnd
