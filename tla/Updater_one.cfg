SPECIFICATION Spec
CONSTANTS
    MaxVersion = 3
    Installed = 1
    Broken = {2}
    Polls = {p1, p2}
    Slots = {s1, s2}
    PipeDepth = 1
    MaxEvents = 2
INVARIANTS TypeOK OneScript CleanEnd
PROPERTIES ImplementsLifecycle KeepsUp NoEndlessRetry
