SPECIFICATION Spec
CONSTANTS
    w1 = w1
    k1 = k1
    k2 = k2
    a = a
    b = b
    c1 = c1
    c2 = c2
    d1 = d1
    None = None
    Gone = Gone
    NoDedup = NoDedup
    Main = main
    Gc = gc
    Workspace = {w1}
    Key = {k1}
    WsOf <- MCWsOf
    Val = {a, b}
    DedupKey = {}
    RecordBytes <- MCRecordBytes
    DocBytes <- MCDocBytes
    PinQuota = 0
    RatioNum = 1
    RatioDen = 1
    Client = {c1, c2}
    Partition <- OnePartition
    AuxPids <- OneAuxPids
    RoutePid <- OneRoutePid
    DocPid <- OneDocPid
    CkptPid <- OneCkptPid
    EventPid <- OneEventPid
    Limit = 0
    Mod = 16
    EnableTombstoneGc = FALSE
    Retention = 1
    GcBatch = 2
    DiskPressure = FALSE
    StoreCanFail = FALSE
    CanCrash = FALSE
    Ops = {"write"}
    AppendModes = {FALSE}
    MaxBatch = 1
    MaxReqs = 2
    MaxClock = 1
SYMMETRY Symmetry
INVARIANTS
    OneLogicalState
