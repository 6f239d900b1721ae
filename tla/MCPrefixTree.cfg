SPECIFICATION Spec
CONSTANTS
    a = a
    b = b
    Threads = {w1, w2, reader}
    Writers = {w1, w2}
    Objects = {o1, o2}
    Tokens = {a, b}
    Strings <- MCStrings
    MaxLength = 2
    NumNodes = 6
    Overlap = FALSE
    Rewrites = FALSE
    None = None
SYMMETRY Symmetric
INVARIANTS
    TypeOK
    TreeIsExact
PROPERTIES
    SearchIsCorrect
    WalksGetOn
