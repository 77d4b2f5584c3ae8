SPECIFICATION Spec
CONSTANTS
    acme = acme
    globex = globex
    Unset = Unset
    None = None
    Tenants <- MCTenants
    Fields <- MCFields
    Values <- MCValues
    Words <- MCWords
    Queries <- MCQueries
    Contents <- MCContents
    limit = 1
    WINDOW = 1
    MaxRows = 3
    MaxClock = 2
    MaxFetches = 4
INVARIANTS PagesDescend NoStableRowSkipped OnlyAskedRows
CHECK_DEADLOCK FALSE
