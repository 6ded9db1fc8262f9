SPECIFICATION FairSpec
CONSTANTS
    Admin = Admin
    Guest = Guest
    Names = {Admin, Guest}
    DefaultUser = Admin
    MaxAuthCount = 2
    Roles = {"VIEWER"}
    Changes <- ChangeDelete
    Configured <- NewKey
    MaxRequests = 4
    MaxInFlight = 1
    MaxDowns = 1
INVARIANTS CarriedOutIsVouched
PROPERTIES SessionsAreCurrent ChallengeEnds
CHECK_DEADLOCK FALSE
