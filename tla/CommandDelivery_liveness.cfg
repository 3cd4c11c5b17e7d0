SPECIFICATION FairSpec
CONSTANTS
    MaxId = 1
    Conns = {c1, c2}
    Caps = {}
    NoCap = none
    Requires <- RequiresFirst
PROPERTIES
    EveryCommandSettles
    OutcomeReachesServer
