SPECIFICATION IntakeSpec
CONSTANTS
    None = None
    NoId = NoId
    i1 = i1
    i2 = i2
    a = a
    b = b
    Nobody = Nobody
    Minute = 60
    People = {0, 1, 2}
    Me = 0
    Log <- SmallLog
    Importers = {i1, i2}
    Answers = {0}
    MaxImports = 3
    MaxRecords = 2
    MaxRows = 4
    Overlap = "same"
    CanCrash = TRUE
    Others = {a, b}
    Lexicon = {"w", "v"}
    Scale = 10
    Months = 2
    MonthDays = 3
    Half = 2
    Abbreviated = {}
    Myself = Myself
    Given = {Myself, Nobody}
    MaxSaid = 3
    MaxWork = 4
    Later = {"iso"}
    Utterances <- SmallUtterances
INVARIANTS KeysAreUnique NothingLost NothingDoubled OneConversationPerThread CoverageIsCurrent ToldOnce OneCounterpart ProvenIsRight MissingIsCounted
CHECK_DEADLOCK FALSE
SYMMETRY Symmetry
