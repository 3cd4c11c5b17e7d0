SPECIFICATION Spec
CONSTANTS
    MaxDoc = 2
    WithKiosk <- OddDocs
    Actors = {"cycle"}
    MaxDeaths = 0
PROPERTIES
    TurnedOff
