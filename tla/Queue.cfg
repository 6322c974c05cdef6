SPECIFICATION FairSpec
CONSTANTS
    phone = phone
    tablet = tablet
    tab1 = tab1
    tab2 = tab2
    form1 = form1
    form2 = form2
    Devices = {phone, tablet}
    Tabs = {tab1, tab2}
    Forms = {form1, form2}
    DeviceOf <- Assignment
    Skus = {s1, s2}
    RejectedSkus = {s2}
    FaultKinds = {"offline", "lost", "late", "gateway", "storage", "close"}
    MaxFaults = 2
    MaxCaptures = 3
INVARIANTS
    TypeOK
    NothingPromisedIsLost
PROPERTIES
    RemovedOnlyIfStored
    EventuallyDelivered
CHECK_DEADLOCK FALSE
