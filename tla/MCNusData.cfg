CONSTANTS
    BT_MAX_NUM_PKT = 2
    HvnTxQueueSize = 2
    MaxPackets = 4
SPECIFICATION FairSpec
INVARIANTS
    TypeOK
    IrqWhileData
    DeliveredInOrder
    EveryPacketAccounted
PROPERTY
    QueuedIsFetched
    QueueSpec
