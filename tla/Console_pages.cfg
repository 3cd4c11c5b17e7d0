SPECIFICATION Spec
CONSTANTS
    Apps = {a1}
    Locked = {"launcher"}
    Own = {"own"}
    Fresh = {"new"}
    MaxEdits = 2
    MaxSaves = 1
    MaxFaults = 1
    MaxOthers = 1
    ScanDevices = {d1, d2}
    Packages = {p1}
    MaxRuns = 2
    MaxScanFaults = 1
    Apks = {"a"}
    Bundles = {"b"}
    Seeds = {"lib"}
    Named = {"sys"}
    Targets = {d1}
    Templates = {c1, c2}
    MaxClicks = 5
    MaxAppFaults = 1
    MaxReplacements = 1
    Devices = {"d1", "d2"}
    Pickable = {"p", "q"}
    MaxSteps = 5
    MaxLost = 1
    FleetDevices = {"d1", "d2"}
    Matching = {"d1"}
    LibraryApps = {"p", "q"}
    MaxSearches = 2
    MaxFleetSteps = 6
    MaxFleetFaults = 1
    MaxLoops = 3
    MaxPresses = 2
    MaxTurns = 1
    Tabs = {"t1", "t2"}
    Users = {"u"}
    MaxSessions = 2
    MaxResets = 1
    MaxCalls = 5
INVARIANTS ConsoleTypeOK NoWipe ScreenIsTrue SessionCurrent
PROPERTIES NoSilentKiosk LateAnswers
SYMMETRY ConfigSymmetry
CHECK_DEADLOCK FALSE
