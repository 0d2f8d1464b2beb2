SPECIFICATION Spec
CONSTANTS
    h0 = h0
    Handle = {h0}
    NoHandle = NoHandle
    Clients = 1
    KERNEL_TASK_CMD_Q_LEN = 2
    BondsFull = TRUE
    EagerPeer = FALSE
    PromptTask = TRUE
    MaxEvents = 2
    MaxLinks = 3
    MaxValues = 3
    MaxTimeouts = 2
INVARIANTS
    SessionReady
    SessionGone
    AdvertisementStateTrue
PROPERTIES
    ClientMutexKept
    ConnectionServed
    DisconnectionHandled
