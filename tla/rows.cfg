SPECIFICATION RowsSpec
CONSTANTS
    w1 = w1
    k1 = k1
    k2 = k2
    a = a
    b = b
    c1 = c1
    c2 = c2
    d1 = d1
    None = None
    Gone = Gone
    NoDedup = NoDedup
    Main = main
    Gc = gc
    Workspace = {w1}
    Key = {k1}
    WsOf <- MCWsOf
    Val = {a, b}
    DedupKey = {}
    RecordBytes <- MCRecordBytes
    DocBytes <- MCDocBytes
    PinQuota = 1
    RatioNum = 1
    RatioDen = 1
    Client = {c1}
    Partition <- TwoPartitions
    AuxPids <- RowsAuxPids
    RoutePid <- OneRoutePid
    DocPid <- RowsDocPid
    CkptPid <- TwoCkptPid
    EventPid <- RowsEventPid
    Limit = 2
    Mod = 16
    EnableTombstoneGc = TRUE
    Retention = 1
    GcBatch = 2
    DiskPressure = TRUE
    StoreCanFail = TRUE
    CanCrash = TRUE
    Ops = {"write", "pin", "compact"}
    AppendModes = {FALSE}
    MaxBatch = 1
    MaxReqs = 3
    MaxClock = 2
    t1 = t1
    t2 = t2
    t3 = t3
    b1 = b1
    b2 = b2
    b3 = b3
    Term = {t1, t2, t3}
    Terms <- MCTerms
    Bucket = {b1, b2, b3}
    VecBucket <- MCVecBucket
    IdBucket <- MCIdBucket
    RowPid <- MCRowPid
INVARIANTS
    RowsExact
