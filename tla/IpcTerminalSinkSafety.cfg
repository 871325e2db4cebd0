SPECIFICATION Spec
CONSTANTS
    MaxPending = 3
    MaxOutput = 7
INVARIANTS
    TypeOK
    RegisteredIsLive
PROPERTIES
    ImplementsChannel
\* The open call returns and the actor stops: nothing is left to do.
CHECK_DEADLOCK FALSE
