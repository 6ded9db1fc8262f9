SPECIFICATION Spec
CONSTANTS
    IndexMode = "Discontiguous"
    Class0Types <- SmallClass0
    StaleByte = 0
    InitialCells <- SmallCells
    Updates <- SmallUpdates
    Assignments <- SmallAssignments
    Requests <- SmallRequests
    FragmentSize = 15
    EventSize = 12
    MaxChanges = 3
    MaxReads = 2
INVARIANTS AnswerIsSnapshot SelectionIsCovered ImageIsCurrent
CHECK_DEADLOCK FALSE
