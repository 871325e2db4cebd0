SPECIFICATION Spec
CONSTANTS
    Principals = {alice, bob}
    Ids = {c1}
    Keys = {k1, k2}
    Requests = {r1}
    MaxEpoch = 3
    None = None
SYMMETRY Symmetry
INVARIANTS
    TypeOK
    ConsentCoversKey
PROPERTIES
    CloudChangesAsAgreed
