-------------------------- MODULE MCEventReporting --------------------------
EXTENDS EventReporting

CONSTANTS Binary, SecurityStat, EC1, EC2

MCMaxForType == [t \in EventType |-> IF t = Binary THEN 2 ELSE 1]
=============================================================================
