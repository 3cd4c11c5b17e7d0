SPECIFICATION Spec
CONSTANTS
    MaxId = 2
    Conns = {c1, c2}
    Caps = {location}
    NoCap = none
    Requires <- RequiresFirst
SYMMETRY ConnSymmetry
INVARIANTS
    TypeOK
    AtMostOnce
    OneCarrier
    NoResultLost
PROPERTIES
    InOrder
    ImplementsLifecycle
