SPECIFICATION FairSpec
CONSTANTS
    None = None
    Binary = Binary
    EC1 = EC1
    Crob = Crob
    EventType = {Binary}
    EventClass = {EC1}
    MaxForType <- MCMaxForType
    OverflowTypes = {Binary}
    UInt32 = 65536
    Requests <- PollRequests
    AllowUnsolicited = FALSE
    UnsolClassMask = {}
    SeqModulus = 4
    Capacity = 1
    SelectTimeout = 1
    MaxEvents = 2
    MaxTransaction = 2
INVARIANTS RepeatGetsItsResponse CarriedOutOnce FragmentsNumbered
PROPERTIES ClearedOnlyIfAcked SolWaitEnds DeferredIsTakenUp
