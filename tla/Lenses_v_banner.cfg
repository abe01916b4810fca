\* The session brief after a second import, where no message discloses two things.
SPECIFICATION Spec
CONSTANTS
    NoRow = NoRow
    None = None
    r1 = r1
    Rows = {1, 2, 3, 4, 5, 6, 7}
    At <- SmallAt
    Mine = {1, 3, 5}
    Words <- SmallWords
    Imports <- SmallImports
    Ranges <- SmallRanges
    Planned <- SmallPlanned
    Floor = 2
    MaxWindow = 2
    OverlapTurns = 1
    MaxPrefix = 1
    DrainBatch = 1
    Readers = {r1}
    Elsewhere = {"l1"}
    Reduces <- SmallReduces
    Renders <- SmallRenders
    MaxReadings = 1
    MaxEpochs = 1
    MaxAnswers = 3
    Says <- SaysApart
    Drafts = {3}
    Limits <- SmallLimits
    Severity <- SmallSeverity
    Floors <- SmallFloors
    Arrivals <- SmallArrivals
    Scorings <- SmallScorings
    Clocks = {0, 1}
    Marks <- SmallMarks
    PerSide = 3
    Reads <- SmallReads
    MinSegment = 1
    MaxEras = 2
    Pasts <- HalfPast
    MaxSteps = 4
    Filters <- SmallFilters
    Cap = 2
    Archives <- SmallArchives
    Spectra <- SmallSpectra
INVARIANT BannerWheneverDisclosed
CHECK_DEADLOCK FALSE
