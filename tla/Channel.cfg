SPECIFICATION FairSpec
CONSTANTS
    Main = Main
    Other = Other
    Spare = Spare
    Sessions <- MCSessions
    Route <- MCRoute
    MinRetry = 1
    MaxRetry = 2
    MaxQueue = 2
    MaxCanceled = 1
INVARIANTS NothingRefused ServesTheEnabled
PROPERTIES ImplementsService EveryFrameIsWritten ShutdownReturns
CHECK_DEADLOCK FALSE
