SPECIFICATION PathSpec
CONSTANTS
    None = None
    Threads = {t1, t2, t3}
    Objects = {o1, o2}
    Vectors = {v1, v2}
    MaxElements = 2
    AddsOverlap = FALSE
    MaxFaults = 1
    MaxLabel = 5

    Callers = {t1, t2}
    Topics = {p, q}
    Entries = {e1, e2, e3}
    IndexLimit = 2
    MaxRestarts = 1

    Adders = {t1, t2, t3}
    Dims = {d1, d2}
    MaxAdds = 4

    Embedders = {t1, t2}
    Texts = {s1, s2, s3, s4}
    MaxCacheSize = 3
    MaxEmbeds = 7
SYMMETRY Symmetric
\* Labels and ids are used up, and a manager that failed to start has nothing left to do.
CHECK_DEADLOCK FALSE
INVARIANTS
    PathTypeOK
    LabelsHaveOneOwner
    MapsAgree
    StoredAreSearchable
    SettledStaySearchable
    CacheKeepsRecent
PROPERTIES
    NamedVectorStays
    GeneratesOnlyUncached
