SPECIFICATION Spec
CONSTANTS
    Skus = {s1, s2}
    KnownSkus = {s1, s2}
    NoSku = NoSku
    Fields = {f1}
    Numbers = {n1, n2}
    NoNum = NoNum
    Writers = {w1, w2}
    Runs = {r1, r2}
    FaultKinds = {"throttle", "error", "mismatch", "lost", "late", "edit", "expiry", "slow", "crash"}
    MaxFaults = 2
    MaxWrites = 2
SYMMETRY Interchangeable
INVARIANTS
    TypeOK
    NeverSyncedAndBlocked
    WorkIsPending
    ReportMatchesCommit
    MarkedMeansDelivered
    SyncedUnlessOvertaken
    ForeignUntouched
PROPERTY KeepsLifecycle
