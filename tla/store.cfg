SPECIFICATION Spec
CONSTANTS
    a = a
    b = b
    None = None
    t1 = t1
    t2 = t2
    Thread = {t1, t2}
    Key = {1, 2, 3}
    InRange = {1, 2, 3}
    Place <- MCPlace
    NumPlaces = 2
    Val = {a, b}
    Bytes <- MCBytes
    Overhead = 1
    Configured = {"", "memory"}
    DefaultBackend = "eloqstore"
    Mod = 64
    StoreCanFail = TRUE
    Limits = {0, 1, 2}
    PageBytes = 4
    Batches <- MCBatches
    MaxReqs = 3
SYMMETRY Symmetry
INVARIANTS
    UsageNeverWraps
    SizesFollowRows
    BatchLastWins
    PartitionsAtomic
    ScanFaithful
