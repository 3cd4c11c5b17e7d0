SPECIFICATION Spec
CONSTANTS
    MaxDoc = 3
    WithKiosk <- OddDocs
    Actors = {"cycle", "boot", "launcher"}
    MaxDeaths = 1
INVARIANTS
    TypeOK
PROPERTIES
    NewestWins
    ReportedIsInForce
    LiftsByNewer
    ClaimSettled
