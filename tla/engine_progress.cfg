SPECIFICATION FairSpec
CONSTANTS
    w1 = w1
    k1 = k1
    k2 = k2
    a = a
    b = b
    c1 = c1
    c2 = c2
    d1 = d1
    None = None
    Gone = Gone
    NoDedup = NoDedup
    Main = main
    Gc = gc
    Workspace = {w1}
    Key = {k1, k2}
    WsOf <- MCWsOf
    Val = {a}
    DedupKey = {}
    RecordBytes <- MCRecordBytes
    DocBytes <- MCDocBytes
    PinQuota = 0
    RatioNum = 1
    RatioDen = 1
    Client = {c1, c2}
    Partition <- TwoPartitions
    AuxPids <- TwoAuxPids
    RoutePid <- TwoRoutePid
    DocPid <- TwoDocPid
    CkptPid <- TwoCkptPid
    EventPid <- TwoEventPid
    Limit = 3
    Mod = 16
    EnableTombstoneGc = FALSE
    Retention = 1
    GcBatch = 2
    DiskPressure = FALSE
    StoreCanFail = TRUE
    CanCrash = TRUE
    Ops = {"write"}
    AppendModes = {FALSE}
    MaxBatch = 1
    MaxReqs = 2
    MaxClock = 2
INVARIANTS
    ResidentAccounting
    QuiescentWithinLimit
    AckedDurable
    EventKeysUnique
PROPERTIES
    RequestsEnd
    ImplementsLog
