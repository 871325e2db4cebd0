SPECIFICATION FairSpec
CONSTANTS
    Main = main
    Watchdog = watchdog
    Workers = {w1}
    Principals = {alice, bob}
    None = none
    MaxEpoch = 3
INVARIANTS
    TypeOK
    GateSound
    StuckOnlyByReentry
PROPERTIES
    ImplementsSealProtocol
    SealIntentHonoured
\* A thread that re-enters `inner` stops everybody: StuckOnlyByReentry instead.
CHECK_DEADLOCK FALSE
