SPECIFICATION Spec
CONSTANTS
    Unset = Unset
    Tenants <- MCTenants
    Fields <- MCFields
    Values <- MCValues
    Words = {}
    Presets = {"15m"}
    RANGE_MS <- MCRanges
    AuditPurposes = {}
    BadTokens = {}
    NOW_QUANTUM = 2
    Purposes = {"login"}
    Addressees <- MCAddressees
    Cards = {"send-email", "generate-otp", "verify-otp", "cooldown", "max-attempts", "oversize", "spoof", "dispatch"}
    MAX_ATTEMPTS = 1
    MAX_ATTEMPT_TRIES = 2
    MaxCodes = 4
    MaxFires = 2
    MaxFaults = 1
INVARIANTS TrustedTenant OutcomeMatchesLabel AuditedAsTold LinkFitsRows
CHECK_DEADLOCK FALSE
