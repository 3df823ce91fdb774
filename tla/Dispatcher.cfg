SPECIFICATION FairSpec
CONSTANTS
    e1 = e1
    e2 = e2
    Refs = {e1, e2}
    Durable = {e1}
    Filters <- MCFilters
    KindOf <- MCKindOf
    IdentityOf <- MCIdentityOf
    c1 = c1
    Channels = {c1}
    NoChannel = NoChannel
    QueueSize = 1
    MaxRecent = 1
    MaxPosts = 2
    MaxFaults = 1
CHECK_DEADLOCK FALSE
INVARIANT TypeOK
PROPERTIES
    AttemptBeforePost
    CountersFollowAttempts
    ReplayNeedsStaleHistory
    AttemptsClosed
    HandedOver
