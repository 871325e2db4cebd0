SPECIFICATION Spec
CONSTANTS
    Principals = {alice, bob}
    Ids = {c1, c2}
    Keys = {k1}
    Salts = {x1, x2}
    None = None
SYMMETRY Symmetry
INVARIANTS
    TypeOK
    StoreConsistent
PROPERTIES
    ImplementsKeyShelf
