SPECIFICATION FairSpec
CONSTANTS
    MaxEdits = 3
    Content <- Reverting
    NoRev = NoRev
    Rows = {i1, i2, i3}
    Conns = {c1}
PROPERTIES
    Converges
