SPECIFICATION StreamFairSpec
CONSTANTS
    all = all
    failed = failed
    Filters <- MCFilters
    BUFFER_CAPACITY = 2
    IDLE_CHECKS = 2
    MaxSpread = 3
    MaxMessages = 5
    MaxChanges = 2
INVARIANTS TailIsNewest NoStaleRows StatusFollowsSource
PROPERTIES PendingIsShown
