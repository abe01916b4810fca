SPECIFICATION Spec
CONSTANTS
    None = None
    Torn = Torn
    w1 = w1
    w2 = w2
    Jobs = {1, 2}
    Local = {1}
    Workers = {w1}
    Server = {w1}
    BatchSize = 2
    Stray <- AnyStray
    CanCrash = TRUE
INVARIANTS DoneIsGrounded CacheOwned
