SPECIFICATION FairSpec
CONSTANTS
    acme = acme
    globex = globex
    Unset = Unset
    Blank = Blank
    Garbage = Garbage
    Ping = Ping
    Tenants <- MCTenants
    Fields <- MCFields
    Values <- MCValues
    Words <- MCWords
    Clients = {c1}
    Subscriptions <- MixedSubscriptions
    Contents <- MixedContents
    REPLAY_LIMIT = 1
    FrameIds = {Blank, Garbage}
    MaxRows = 2
    MaxClock = 1
    MaxFaults = 1

INVARIANTS TenantIsolation OnlyCommittedMatches
PROPERTIES ImplementsContract AnnouncedRowsArrive ResumeSettles
CHECK_DEADLOCK FALSE
