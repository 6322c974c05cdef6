SPECIFICATION Spec
CONSTANTS
    Calls = {c1, c2}
    Capacity <- SmallBuckets
    Minute = 2
    Timeout = 1
    Skew = 2
    Life = 3
    MaxTime = 3
    MaxRevocations = 1
SYMMETRY Interchangeable
INVARIANTS
    TypeOK
    AdmittedWithinBudget
    NeverExpiredInFlight
    UnauthorizedOnlyIfStruck
CHECK_DEADLOCK FALSE
