SPECIFICATION RuntimeSpec

CONSTANTS
    Threads = {t1, t2}
    Plans = {p1, p2}
    IndexLimit = 1
    MaxRecords = 3
    MaxFaults = 1
    MaxRestarts = 1
    MaxManagers = 1
    None = None
    Steps = {s1, s2}
    Calls = {c1, c2}
    Blocks = {b1}
    Tools = {tool}
    Classes = {small}
    Default = "long"

SYMMETRY Symmetric

INVARIANTS
    RuntimeTypeOK
    
    OnlyOverlapLosesResults
    HeldBlocksComeBack
    PredictionFollowsObservations

\* After the bounds a manager that failed to start is the end.
CHECK_DEADLOCK FALSE
