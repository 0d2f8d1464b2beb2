SPECIFICATION Spec
CONSTANTS
    kernel = kernel
    general = general
    u1 = u1
    u2 = u2
    v1 = v1
    v2 = v2
    Task = {kernel, general}
    NoTask = NoTask
    Uid = {u1, u2}
    Val = {v1, v2}
    NoUid = NoUid
    NoVal = NoVal
    Torn = Torn
    Sizes = {1, 2}
    Meta = 5
    PageWords = 19
    Usages <- OneOrTwoWriters
    StoredBefore <- BothBonds
    MaxError = 0
    MaxTimeout = 0
    MaxPower = 0
INVARIANTS
    MutualExclusion
    UniqueUids
    PromisesKept
    BufferFits
PROPERTIES
    
    CallReturns
