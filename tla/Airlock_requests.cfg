SPECIFICATION FairSpec
CONSTANTS
    None = None
    Torn = Torn
    w1 = w1
    w2 = w2
    Jobs = {1, 2}
    Local = {1}
    Workers = {w1, w2}
    Server = {w1, w2}
    BatchSize = 2
    Stray <- NoStray
    CanCrash = FALSE
PROPERTIES AnswersAreRead EveryAnswerIsIngested
