SPECIFICATION LoopFairSpec
CONSTANTS
    None = None
    Torn = Torn
    Jobs = {1, 2}
    Local = {1}
    Workers = {w1, l1}
    Server = {w1}
    Looper = l1
    BatchSize = 1
    Stray = {}
    CanCrash = FALSE
PROPERTIES LoopEnds EndsEmptyOrStuck
