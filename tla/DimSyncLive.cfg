SPECIFICATION FairSpec
CONSTANTS
    Skus = {s1, s2}
    KnownSkus = {s1}
    NoSku = NoSku
    Fields = {f1}
    Numbers = {n1, n2}
    NoNum = NoNum
    Writers = {w1, w2}
    Runs = {r1, r2}
    FaultKinds = {"throttle", "error", "lost", "edit", "expiry", "crash", "slow"}
    MaxFaults = 1
    MaxWrites = 2
PROPERTIES
    AllAnswered
    EventuallySettled
