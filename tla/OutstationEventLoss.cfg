SPECIFICATION Spec
CONSTANTS
    None = None
    Binary = Binary
    EC1 = EC1
    Crob = Crob
    EventType = {Binary}
    EventClass = {EC1}
    MaxForType <- MCMaxForType
    OverflowTypes = {Binary}
    UInt32 = 65536
    Requests <- UnsolRequests
    AllowUnsolicited = TRUE
    UnsolClassMask = {EC1}
    SeqModulus = 4
    Capacity = 2
    SelectTimeout = 2
    MaxEvents = 2
    MaxTransaction = 2
PROPERTIES ClearedOnlyIfAcked
