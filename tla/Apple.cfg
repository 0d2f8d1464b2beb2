SPECIFICATION FairSpec
CONSTANTS
    mem_size = 256
    total_poss_node = 2
    Commands = {play}
    Lengths = {115, 130}
    Uids = {1, 2, 3}
    KERNEL_TASK_CMD_Q_LEN = 2
    MaxLinks = 3
    MaxValues = 3
    play = play
CHECK_DEADLOCK FALSE
INVARIANTS
    NamesAreThePeers
    ListHoldsNotifications
PROPERTIES
    CommandSupported
    LastNotificationFetched
