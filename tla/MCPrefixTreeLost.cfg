SPECIFICATION Spec
CONSTANTS
    a = a
    b = b
    Threads = {w1, w2}
    Writers = {w1, w2}
    Objects = {o1, o2}
    Tokens = {a, b}
    Strings <- MCStrings
    MaxLength = 2
    NumNodes = 6
    Overlap = TRUE
    Rewrites = FALSE
    None = None
INVARIANTS
    RegisteredIsFound
