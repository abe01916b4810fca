SPECIFICATION BatchFairSpec
CONSTANTS
    None = None
    Torn = Torn
    w1 = w1
    c1 = c1
    c2 = c2
    Jobs = {1}
    Local = {1}
    Workers = {w1, c1}
    Server = {w1}
    Collectors = {c1}
    BatchSize = 2
    MaxBatches = 1
    Resubmits = TRUE
    Recollects = TRUE
    Stray <- NoStray
    CanCrash = FALSE
    PlansOverlap = FALSE
PROPERTIES EveryBatchSettles
