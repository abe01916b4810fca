SPECIFICATION Spec
CONSTANTS
    None = None
    NoId = NoId
    Idle = Idle
    p1 = p1
    p2 = p2
    Minute = 60
    Openers = {p1, p2}
    KeyOf <- SmallKeyOf
    Old <- SmallOld
    News <- SmallNews
    MaxCopies = 3
    Paths = {"file", "folder"}
    Folders = {"folder"}
    MaxFaults = 2
    MaxEra = 1
    MaxSecond = 1
    MaxBackups = 2
    MaxFiles = 3
INVARIANTS OpensWhateverItHolds SafetyCopy ReimportAddsNothing OwnerIsLetIn DeletedIsGone
PROPERTIES RowsKept
CHECK_DEADLOCK FALSE
SYMMETRY Symmetry
