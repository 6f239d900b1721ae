SPECIFICATION Spec
CONSTANTS
    Workflows = {w1, w2}
    Agents = {a1, a2}
    Steps = {s1, s2, s3}
    Objects = {kv, semantic}
    ObjectSets <- MCObjectSets
    kv = kv
    semantic = semantic
    Weight <- MCWeight
    TopK = 3
    MaxDecisions = 1
    MaxRequests = 1
    None = None
SYMMETRY Symmetric
INVARIANTS
    TypeOK
    PredictionsFollowWork
    NearestStepFirst
PROPERTIES
    TurnsComeCloser
