SPECIFICATION Spec
CONSTANTS
    t1 = t1
    t2 = t2
    t3 = t3
    a = a
    b = b
    c = c
    Threads = {t1, t2, t3}
    Keys = {a, b, c}
    Size = 10
    NumHashes = 2
    Hash <- MCHash
    MaxAdds = 2
PROPERTIES
    ImplementsBloomSet
