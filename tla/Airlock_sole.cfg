SPECIFICATION Spec
CONSTANTS
    None = None
    Torn = Torn
    w1 = w1
    w2 = w2
    Jobs = {1, 2, 3}
    Local = {1}
    Workers = {w1}
    Server = {w1}
    BatchSize = 2
    Stray <- NoStray
    CanCrash = FALSE
INVARIANTS TypeOK CachedIsReadable OfferedIsOpen
PROPERTIES LedgerSpec
