SPECIFICATION Spec
CONSTANTS
    k1 = k1
    k2 = k2
    k3 = k3
    docs = docs
    log = log
    None = None
    Entry = {k1, k2, k3}
    Namespace = {docs, log}
    NsOf <- MCNsOf
    Hash <- MCHash
    MaxPartitions = 3
    GoesBack = FALSE
    MaxVersion = 4
    MaxStarts = 4
INVARIANTS
    LayoutTypeOK
    NothingLost
    ReadsCurrent
PROPERTIES
    ImplementsKv
