CONSTANTS
    Writes = {w1, w2}
    Images = {a, b}
    Recognizes = {a}
    Refuses = {b}
    Pages = {}
    SlowHello = TRUE
    SoftRetries = 1
    Depth = 3
    MaxReads = 1
    MaxDials = 2
    MaxResets = 1
    MaxBusy = 0
SPECIFICATION Spec
CHECK_DEADLOCK FALSE
SYMMETRY Symmetry
INVARIANTS TypeOK AtMostOnce
