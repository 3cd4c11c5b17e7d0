SPECIFICATION Spec
CONSTANTS
    Devices = {d1, d2}
    Capable = {d1, d2}
    Requests = {q1, q2}
    MaxRollouts = 2
    MaxVersion = 2
    MaxFaults = 1
SYMMETRY Symmetry
INVARIANTS TypeOK OneActive ProvenFirst MirrorGenuine 
CHECK_DEADLOCK FALSE
