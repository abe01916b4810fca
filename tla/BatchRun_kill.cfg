SPECIFICATION BatchSpec
CONSTANTS
    None = None
    Torn = Torn
    w1 = w1
    c1 = c1
    c2 = c2
    Jobs = {1, 2}
    Local = {1, 2}
    Workers = {c1}
    Server = {}
    Collectors = {c1}
    BatchSize = 2
    MaxBatches = 2
    Resubmits = FALSE
    Recollects = FALSE
    Stray <- NoStray
    CanCrash = TRUE
    PlansOverlap = FALSE
INVARIANTS BilledOnce ResumedUntilSettled
