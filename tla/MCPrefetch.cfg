SPECIFICATION PrefetchSpec
CONSTANTS
    None = None
    Calls = {c1}
    i1 = i1
    i2 = i2
    Ids = {i1, i2}
    Types <- BatchTypes
    Requests <- BatchRequests
    Objects <- BatchObjects
    MaxWrites = 2
    MaxFaults = 1

    b1 = b1
    b2 = b2
    b3 = b3
    Blocks = {b1, b2, b3}
    a1 = a1
    a2 = a2
    s1 = s1
    s2 = s2
    Steps = {s1, s2}
    Traits <- BlockTraits
    Distances <- StepDistances
    MaxSharers = 2
    MaxClock = 4
    Unit = 60

    Sessions = {u1, u2}
    Prompts <- SessionPrompts
    Spans <- BlockSpans
    HistorySize = 2
    TopK = 1
    MaxRequests = 3
    MaxChanges = 3

    InitialDepth = 2
    MinDepth = 1
    MaxDepth = 3
    Interval = 4
    Low = 25
    High = 75
    MaxUses = 12
\* A behaviour ends when its calls and notices are used up.
CHECK_DEADLOCK FALSE
INVARIANTS
    PrefetchTypeOK
    AnswersAreRight
    OnlyMixedRequestsFail
    VictimIsWorst
    DepthFollowsWindows
PROPERTIES
    BatchesEnd
    PredictionsFollowHistory
