SPECIFICATION Spec
CONSTANTS
    Main = main
    Watchdog = watchdog
    Workers = {w1, w2}
    Principals = {alice}
    None = none
    MaxEpoch = 2
SYMMETRY Symmetry
INVARIANTS
    NeverReentersInner
CHECK_DEADLOCK FALSE
