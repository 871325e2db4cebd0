SPECIFICATION Spec
CONSTANTS
    Openers = {o1}
    Callers = {c1}
    Principals = {alice}
    Credentials = {key}
    None = none
    MaxEpoch = 1
    MaxGeneration = 1
    MaxRevokes = 0
SYMMETRY Symmetry
INVARIANTS
    LockedVaultHasNoTerminal
