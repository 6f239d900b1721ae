SPECIFICATION RFairSpec
CONSTANTS
    Threads = {t1, t2}
    PairIds = {kv}
    MetaIds = {wf}
    IndexedIds = {kv}
    SemanticIds = {}
    Versions = {v1, v2}
    NoVersion = NoVersion
    ExclusiveIds = {kv}
    WriteOnceIds = {kv}
    CountsMissing = FALSE
    IndexLimit = 1
    MaxFaults = 1
    MaxRestarts = 0
PROPERTIES
    ImplementsAtomicStore
    CallsReturn
