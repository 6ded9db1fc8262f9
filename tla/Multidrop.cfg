SPECIFICATION FairSpec
CONSTANTS
    None = None
    Scan1 = Scan1
    Sbo = Sbo
    Ask = Ask
    Direct = Direct
    OneShot = OneShot
    Masters = {"M1", "M2"}
    Polls = {}
    Adhoc = {Sbo, Direct}
    AdhocClass <- TwoClasses
    RetryPeriod = 1
    PollPeriod = 1
    StartupTasks <- TwoStartup
    SeqModulus = 2
    StartTimeout = 0
    Unbuildable = {}
    Replies <- TwoReplies
    Unsolicited <- TwoUnsol
    SingleDisable = TRUE
    MaxFragments = 1
    MaxConfirms = 1
    MaxPosts = 0

INVARIANTS LockIsPassedOn
PROPERTIES TaskEnds
