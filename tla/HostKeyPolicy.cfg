SPECIFICATION Spec
CONSTANTS
    Opens = {o1, o2}
    Principals = {alice, bob}
    Keys = {k1, k2}
    MaxEpoch = 3
    MaxRotations = 1
    None = None
SYMMETRY Symmetry
INVARIANTS
    TypeOK
    AnswersStayInSession
    AcceptedStands
PROPERTIES
    RecordsFollowCloud
\* The epochs are bounded: without a session nothing may be left to do.
CHECK_DEADLOCK FALSE
