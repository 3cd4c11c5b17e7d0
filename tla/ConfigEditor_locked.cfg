SPECIFICATION EditorSpec
CONSTANTS
    Apps = {a1}
    Locked = {"launcher"}
    Own = {"own"}
    Fresh = {"new"}
    MaxEdits = 2
    MaxSaves = 1
    MaxFaults = 1
    MaxOthers = 1
INVARIANTS LockedUntouched
CHECK_DEADLOCK FALSE
