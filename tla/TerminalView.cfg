SPECIFICATION FairSpec
CONSTANTS
    MaxEffects = 2
    MaxOutput = 1
    MaxEpoch = 1
    MaxPrebind = 2
INVARIANTS
    TypeOK
    OwnOutputInOrder
    ReadyIsAttached
PROPERTIES
    SessionFollowsView
\* A page that is left for good leaves nothing to do.
CHECK_DEADLOCK FALSE
