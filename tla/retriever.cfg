SPECIFICATION Spec
CONSTANTS
    k1 = k1
    k2 = k2
    c1 = c1
    c2 = c2
    w1 = w1
    w2 = w2
    r1 = r1
    None = None
    Id = {k1, k2}
    Content = {c1, c2}
    TokenCount <- MCTokenCount
    Ttl = {0, 1}
    Writer = {w1, w2}
    Reader = {r1}
    QueryInput <- MCQueryInput
    SparseK = 1
    DenseK = 1
    Oversample = 1
    MaxOps = 3
    MaxNow = 2
SYMMETRY Symmetry
INVARIANTS
    RetrieverTypeOK
    PartsAgree
    DocLenExact
    HitsAreCurrent
    RecallComplete
    ExpiredHidden
