SPECIFICATION FairSpec
CONSTANTS
    h1 = h1
    h2 = h2
    Nobody = Nobody
    Handler = {h1, h2}
    PartitionCount = 2
    AppendMode = TRUE
INVARIANTS
    LifecycleTypeOK
    NothingOutlivesStore
    RequestNotForgotten
    WorkerReplacedSafely
PROPERTIES
    ShutdownEnds
    GcHonoured
    HandlersReturn
