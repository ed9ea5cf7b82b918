CONSTANTS
    Writes = {w1}
    Images = {a}
    Recognizes = {a}
    Refuses = {}
    Pages = {0}
    SlowHello = FALSE
    SoftRetries = 1
    Depth = 2
    MaxReads = 1
    MaxDials = 0
    MaxResets = 0
    MaxBusy = 0
SPECIFICATION Spec
CHECK_DEADLOCK FALSE
INVARIANT AtMostOnce
