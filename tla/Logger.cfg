SPECIFICATION FairSpec
CONSTANTS
    UART_TX_BUFFER_SIZE = 6
    UART_DMA_MAX_SIZE = 8
    MaxBytes = 20
CHECK_DEADLOCK FALSE
INVARIANTS
    HoldsNewest
    SentInOrder
PROPERTIES
    EveryByteSent
