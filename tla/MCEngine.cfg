CONSTANTS
    Tx = {1, 2, 3}
    Size <- MCSize
    Peer = {p}
    RemoteEB = {20, 30}
    OwnEB = {10}
    EbSlot <- MCEbSlot
    Content <- MCContent
    Capacity = 2
    RetentionSlots = 1
    AppliedBound = 1
    RbMax = 1
    EbMax = 3
    None = 0
    Batches = {1, 3}
    MaxSlot = 3
    Modes = {"mempool", "actor", "actor shards", "link", "link free", "link fast", "tcp",
                  "partition", "sharding", "stream", "votes", "txs", "txs linear"}
SPECIFICATION AllSpec
INVARIANTS PoolSound OwnEbServable  
PROPERTIES ClosureKept 
CHECK_DEADLOCK FALSE
