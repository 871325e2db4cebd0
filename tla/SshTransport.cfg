SPECIFICATION FairSpec
CONSTANTS
    Callers = {c1, c2}
    Closers = {k1, k2}
    MaxQueue = 1
    MaxBurst = 2
    MaxInbox = 1
    None = None
INVARIANTS
    TypeOK
    CommandWaitsBounded
    SetupLeavesNothing
PROPERTIES
    EverybodyLetsGo
\* An actor that ended leaves nothing to do once the threads have their answers.
CHECK_DEADLOCK FALSE
