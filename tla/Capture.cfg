SPECIFICATION FairSpec
CONSTANTS
    b1 = b1
    b2 = b2
    b3 = b3
    s1 = s1
    s2 = s2
    Barcodes = {b1, b2, b3}
    Empty = Empty
    Skus = {s1, s2}
    NoSku = NoSku
    SkuOf <- Catalog
    MaxQueries = 4
    MaxFills = 2
    MaxFaults = 1
INVARIANTS
    TypeOK
    ShownIsAsked
    SavedForItsCarton
    OneSavePerForm
PROPERTIES
    NothingHangs
CHECK_DEADLOCK FALSE
