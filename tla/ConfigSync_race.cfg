SPECIFICATION Spec
CONSTANTS
    MaxEdits = 1
    Content <- Reverting
    NoRev = NoRev
    Rows = {i1, i2, i3}
    Conns = {c1, c2}
SYMMETRY Symmetry
INVARIANTS
    TypeOK
    OpenBounded
    DriftIsReal
PROPERTIES
    BackoffKept
