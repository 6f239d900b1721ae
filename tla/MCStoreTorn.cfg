SPECIFICATION RSpec
CONSTANTS
    Threads = {t1, t2}
    PairIds = {kv}
    MetaIds = {}
    IndexedIds = {kv}
    SemanticIds = {}
    Versions = {v1, v2}
    NoVersion = NoVersion
    ExclusiveIds = {kv}
    WriteOnceIds = {}
    CountsMissing = TRUE
    IndexLimit = 1
    MaxFaults = 0
    MaxRestarts = 0
INVARIANTS
    ReadsAreWhole
