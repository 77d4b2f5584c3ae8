SPECIFICATION Spec
CONSTANTS
    acme = acme
    globex = globex
    Unset = Unset
    Blank = Blank
    Garbage = Garbage
    Ping = Ping
    Tenants <- MCTenants
    Fields <- MCFields
    Values <- MCValues
    Words <- MCWords
    Clients = {c1}
    Subscriptions <- ResumeSubscriptions
    Contents <- ResumeContents
    REPLAY_LIMIT = 1
    FrameIds = {Blank, Garbage}
    MaxRows = 3
    MaxClock = 1
    MaxFaults = 2
INVARIANTS LossIsExplained OutOfOrderIsLate
CONSTRAINT SomeoneListens
CHECK_DEADLOCK FALSE
