SPECIFICATION Spec
CONSTANTS
    Unset = Unset
    None = None
    NoRow = NoRow
    NoPurpose = "null"
    Tenants = {"default", "acme"}
    Fields <- MCFields
    Values <- MCValues
    Words = {}
    Presets = {"15m"}
    RANGE_MS <- MCRanges
    AuditPurposes = {"mfa_oob"}
    BadTokens = {"7d"}
    NOW_QUANTUM = 2
    Urls <- MCUrls
    Contents <- MCContents
    Typings = {"j"}
    DEFAULT_WINDOW = 4
    LATE = 1
    Start = 5
    MaxNow = 8
    MAX_ROWS = 1
    MaxRows = 1
    MaxClicks = 2
INVARIANTS DraftsMatchUrl NarrowingKeepsRows MissingIsExplained TwiceIsExplained
CHECK_DEADLOCK FALSE
