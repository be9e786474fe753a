SPECIFICATION Spec
CONSTANTS
    w1 = w1  w2 = w2  a1 = a1  a2 = a2  m1 = m1  m2 = m2
    Unknown = Unknown
    None = None
    Loader = {w1, w2}
    Account = {a1, a2}
    Meta = {m1, m2}
    CacheTTL = 2
    Timeout = 1
    BatchSize = 1
    Faults = {"overlap", "list", "lookup", "write", "crash"}
    MaxFaults = 1
    MaxEdits = 1
    MaxTime = 6
SYMMETRY Interchangeable
INVARIANTS
    TypeOK
    MapIsRecent
    MapIsComplete
PROPERTIES
    LookupsAreSpaced
