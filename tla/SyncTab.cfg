SPECIFICATION FairSpec
CONSTANTS
    Skus = {s1, s2, s3}
    UnusableSkus = {s2}
    RejectedSkus = {s3}
    FirstPending = {s2}
    FirstQueue = {s3}
    Keys = {k1, k2}
    NoKey = NoKey
    FirstSecret = k1
    Tickets = {t1, t2}
    Polls = {poll}
    MaxCaptures = 1
    MaxFaults = 1
INVARIANTS
    TypeOK
    NoStuckPage
PROPERTIES
    NoSpam
    CountSettles
    KeyedWorkIsDone
CHECK_DEADLOCK FALSE
