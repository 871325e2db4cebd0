SPECIFICATION Spec
CONSTANTS
    Openers = {o1}
    Callers = {c1}
    Principals = {alice, bob}
    Credentials = {key}
    None = none
    MaxEpoch = 2
    MaxGeneration = 1
    MaxRevokes = 0
SYMMETRY Symmetry
INVARIANTS
    NoForeignTerminal
