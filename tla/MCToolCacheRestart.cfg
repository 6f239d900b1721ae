SPECIFICATION Spec
CONSTANTS
    Keys = {k1, k2}
    Versions = {v1, v2}
    None = None
    TTLs = {1, 3}
    MaxClock = 3
    MaxFaults = 0
    MaxRestarts = 1
PROPERTIES
    RebuildFindsPersisted
