SPECIFICATION Spec
CONSTANTS
    None = None
    Scan1 = Scan1
    Sbo = Sbo
    Ask = Ask
    Direct = Direct
    OneShot = OneShot
    Masters = {"M1"}
    Polls = {Scan1}
    Adhoc = {Sbo}
    AdhocClass <- OneClasses
    RetryPeriod = 1
    PollPeriod = 1
    StartupTasks <- OneStartup
    SeqModulus = 3
    StartTimeout = 1
    Unbuildable = {Scan1}
    Replies <- OneReplies
    Unsolicited <- OneUnsol
    SingleDisable = TRUE
    MaxFragments = 2
    MaxConfirms = 1
    MaxPosts = 1
INVARIANTS TasksAccounted DueIsChecked LateIsIgnored
PROPERTIES StartsByPriority EndsWithOneCallback
