CONSTANTS
    Writes = {w1, w2}
    Images = {a}
    Recognizes = {a}
    Refuses = {}
    Pages = {}
    SlowHello = TRUE
    SoftRetries = 1
    Depth = 3
    MaxReads = 0
    MaxDials = 2
    MaxResets = 0
    MaxBusy = 0
SPECIFICATION Spec
CHECK_DEADLOCK FALSE
INVARIANT HelloDrains
