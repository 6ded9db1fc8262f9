SPECIFICATION FairSpec
CONSTANTS
    NumRetry = 2
    NoFrame = NoFrame
    MaxSegments = 2
INVARIANTS SegmentsPresent TimerIffWaiting BuffersNotOverwritten OneResultPerSend
PROPERTIES SendEnds
