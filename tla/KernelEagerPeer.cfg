SPECIFICATION Spec
CONSTANTS
    h0 = h0
    Handle = {h0}
    NoHandle = NoHandle
    Clients = 1
    KERNEL_TASK_CMD_Q_LEN = 10
    BondsFull = FALSE
    EagerPeer = TRUE
    PromptTask = TRUE
    MaxEvents = 2
    MaxLinks = 2
    MaxValues = 0
    MaxTimeouts = 0
INVARIANTS
    SessionReady
