SPECIFICATION Spec
CONSTANTS
    Binary = Binary
    SecurityStat = SecurityStat
    EC1 = EC1
    EC2 = EC2
    EventType = {Binary, SecurityStat}
    EventClass = {EC1, EC2}
    MaxForType <- MCMaxForType
    OverflowTypes = {Binary}
    UInt32 = 65536
    Counts = {1}
    MaxHeaders = 2
    MaxEvents = 4
    MaxDrift = 2
INVARIANTS CountsExact ReportedInOrder
PROPERTIES UnselectIsComplete LeaveOnlyConfirmedOrOldest
