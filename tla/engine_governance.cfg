SPECIFICATION Spec
CONSTANTS
    w1 = w1
    k1 = k1
    k2 = k2
    a = a
    b = b
    c1 = c1
    c2 = c2
    d1 = d1
    None = None
    Gone = Gone
    NoDedup = NoDedup
    Main = main
    Gc = gc
    Workspace = {w1}
    Key = {k1, k2}
    WsOf <- MCWsOf
    Val = {a}
    DedupKey = {d1}
    RecordBytes <- MCRecordBytes
    DocBytes <- MCDocBytes
    PinQuota = 1
    RatioNum = 1
    RatioDen = 1
    Client = {c1}
    Partition <- OnePartition
    AuxPids <- OneAuxPids
    RoutePid <- OneRoutePid
    DocPid <- OneDocPid
    CkptPid <- OneCkptPid
    EventPid <- OneEventPid
    Limit = 3
    Mod = 16
    EnableTombstoneGc = TRUE
    Retention = 1
    GcBatch = 2
    DiskPressure = FALSE
    StoreCanFail = FALSE
    CanCrash = TRUE
    Ops = {"write", "pin", "compact"}
    AppendModes = {FALSE}
    MaxBatch = 1
    MaxReqs = 4
    MaxClock = 2
INVARIANTS
    TypeOK
    PinQuotaHolds
    DedupUnique
    IndexAligned
