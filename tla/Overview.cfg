SPECIFICATION OverviewSpec
CONSTANTS
    Unset = Unset
    None = None
    Tenants <- MCTenants
    Fields <- MCFields
    Values <- MCValues
    Words = {}
    Presets = {"15m", "24h"}
    RANGE_MS <- MCRanges
    AuditPurposes = {}
    BadTokens = {"7d"}
    NOW_QUANTUM = 2
    Urls <- MCUrls
    Contents <- MCContents
    GroupBys = {"verb", "provider", "channel"}
    SHORT = 4
    DAY = 8
    MINUTE = 2
    FIVE = 3
    HOUR = 5
    DEFAULT_WINDOW = 4
    LATE = 1
    Start = 9
    MaxNow = 13
    MaxRows = 2
    MaxFetches = 1
INVARIANTS WindowKeepsUp SeriesCountsAll PanelsAgree
CHECK_DEADLOCK FALSE
