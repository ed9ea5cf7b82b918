CONSTANTS
    Writes = {w1}
    Images = {a, b}
    Recognizes = {a, b}
    Refuses = {}
    Pages = {0}
    SlowHello = FALSE
    SoftRetries = 1
    Depth = 2
    MaxReads = 2
    MaxDials = 1
    MaxResets = 1
    MaxBusy = 1
SPECIFICATION Spec
CHECK_DEADLOCK FALSE
SYMMETRY SymmetryImages
INVARIANTS AckTruthful HelloDrains CacheIsCarts
