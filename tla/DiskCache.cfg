CONSTANTS
    Procs = {a, b}
    Ids = {i1}
    Values = {v1, v2}
    i1 = i1
    v1 = v1
    v2 = v2
    Zero = {v2}
    Produces <- MCProduces
    Leftovers = {"absent", "full", "long"}
    MtimeInterval = 2
    TrimInterval = 3
    TrimLimit = 1
    Start = 4
    Ages = {0, 3}
    MaxTime = 6
    MaxCalls = 3
    Worlds <- MCWorlds
SPECIFICATION Spec
SYMMETRY MCSymmetry
INVARIANTS
    ReadsAreWritten
    StoredStaysReadable
    OneTrimPerInterval
PROPERTY
    TrimSparesRead
