SPECIFICATION Spec
CONSTANTS
    all = all
    Filters <- MCFilters
    BUFFER_CAPACITY = 1
    IDLE_CHECKS = 1
    MaxSpread = 3
    MaxMessages = 3
    MaxChanges = 1
    History = 1
    PinnedBelow = 1
INVARIANTS PillCountsArrivals FollowsUnlessSpoiled
