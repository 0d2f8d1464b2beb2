SPECIFICATION Spec
CONSTANTS
    kernel = kernel
    general = general
    h1 = h1
    Task = {kernel, general}
    NoTask = NoTask
    Handle = {h1}
    NoHandle = NoHandle
    Clients = 1
    Requests <- Session
    MaxEvents = 2
    MaxLinks = 2
    MaxLate = 2
INVARIANTS
    MutualExclusion
    OwnAnswer
    OwnData
PROPERTIES
    CallReturns
CHECK_DEADLOCK FALSE
