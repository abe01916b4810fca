\* The panels, the questions, the readings and the settings of the client.
SPECIFICATION Spec
CONSTANTS
    Messages = {1, 2, 3, 4, 5, 6}
    ThreadOf <- SmallThreads
    At <- SmallAt
    PageSize = 2
    Patient = TRUE
    Nothing = Nothing
    Queries = {q1, q2}
    Short = {w0, w1}
    Rooms = {a, b}
    Narrowings = {n1, n2}
    NoQuestion = NoQuestion
    MaxFrozen = 3
    MaxJobs = 2
    MaxCommits = 2
    MaxLists = 2
    Unhurried = TRUE
    NoReading = NoReading
    Sample = 2
    Labels = {x, y}
    Modes = {m1, m2, m3}
    Unset = Unset
INVARIANTS
    TranscriptIsWhole AnswersAreOfTheQuestion DoneIsPickedUp SelectedIsShown SavedAsShown
CHECK_DEADLOCK FALSE
