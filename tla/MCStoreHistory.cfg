SPECIFICATION HSpec
CONSTANTS
    Threads = {t1, t2}
    PairIds = {s1, s2}
    MetaIds = {}
    IndexedIds = {s1, s2}
    SemanticIds = {s1, s2}
    Versions = {v1, v2}
    NoVersion = NoVersion
    ExclusiveIds = {s1, s2}
    WriteOnceIds = {}
    CountsMissing = TRUE
    IndexLimit = 1
    MaxFaults = 1
    MaxRestarts = 1
SYMMETRY Symmetric
INVARIANTS
    TypeOK
    SearchHitsPassBloom
    AcknowledgedPutIsReadable
    SearchFindsStored
PROPERTIES
    CallsGetOn
