SPECIFICATION Spec
CONSTANTS
    w1 = w1
    k1 = k1
    k2 = k2
    a = a
    b = b
    c1 = c1
    c2 = c2
    d1 = d1
    None = None
    Gone = Gone
    NoDedup = NoDedup
    Main = main
    Gc = gc
    Workspace = {w1}
    Key = {k1, k2}
    WsOf <- MCWsOf
    Val = {a}
    DedupKey = {}
    RecordBytes <- MCRecordBytes
    DocBytes <- MCDocBytes
    PinQuota = 1
    RatioNum = 2
    RatioDen = 3
    Client = {c1}
    Partition <- TwoPartitions
    AuxPids <- TwoAuxPids
    RoutePid <- TwoRoutePid
    DocPid <- TwoDocPid
    CkptPid <- TwoCkptPid
    EventPid <- TwoEventPid
    Limit = 0
    Mod = 16
    EnableTombstoneGc = TRUE
    Retention = 1
    GcBatch = 2
    DiskPressure = FALSE
    StoreCanFail = TRUE
    CanCrash = TRUE
    Ops = {"write", "pin", "compact"}
    AppendModes = {FALSE}
    MaxBatch = 1
    MaxReqs = 3
    MaxClock = 3
INVARIANTS
    IndexAligned
    AckedSurvives
PROPERTIES
    RecoveryConverges
