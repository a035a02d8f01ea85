CONSTANTS
    Scenarios = {"forks"}
    Hash <- DeepHash
    Prev <- DeepPrev
    BlockNo <- DeepBlockNo
    Slot <- DeepSlot
    MaxBlockNo = 3
    Anc <- DeepAnc
    ChainCap = 64
    Peer = {1, 2}
    K = 1
    BodyWindow = 1
    Capacity = 8
    OrphanCap = 8
    SyncPoints = {0}
    OtherTips = {}
    Invalid = {}
    OwnBlocks = {}
    Reorgs = {}
    BlacklistTips = {}
    MaxQueue = 20
    Faults <- AnyFault
    MaxFaults = 0
SPECIFICATION AllSpec
PROPERTIES SettledKept
