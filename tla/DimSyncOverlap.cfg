SPECIFICATION Spec
CONSTANTS
    Skus = {s1}
    KnownSkus = {s1}
    NoSku = NoSku
    Fields = {f1, f2}
    Numbers = {n1, n2}
    NoNum = NoNum
    Writers = {w1}
    Runs = {r1, r2}
    FaultKinds = {"expiry"}
    MaxFaults = 1
    MaxWrites = 1
INVARIANT OnePatcher
