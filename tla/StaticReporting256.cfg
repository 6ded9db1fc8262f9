SPECIFICATION Spec
CONSTANTS
    IndexMode = "Contiguous"
    Class0Types <- SmallClass0
    StaleByte = 0
    InitialCells <- FullCells
    Updates <- FullUpdates
    Assignments = {}
    Requests <- OneRequest
    FragmentSize = 2044
    EventSize = 12
    MaxChanges = 1
    MaxReads = 1
INVARIANT AnswerIsSnapshot
CHECK_DEADLOCK FALSE
