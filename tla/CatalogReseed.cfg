SPECIFICATION Spec
CONSTANTS
    p1 = p1
    p2 = p2
    p3 = p3
    b1 = b1
    b2 = b2
    b3 = b3
    Products = {p1, p2, p3}
    NoId = {p3}
    Barcodes = {b1, b2, b3}
    NoBarcode = NoBarcode
    Listing <- List
    Default <- Defaults
    Other <- Others
    WithDims = {p1}
    Seeds = {r1}
    Lookups = {l1}
    PageSize = 2
    MaxFaults = 0
    MaxEdits = 1
    MaxRequests = 2
INVARIANT SeedFailsUpstreamOnly
CHECK_DEADLOCK FALSE
