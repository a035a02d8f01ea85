CONSTANTS
    Scenarios = {"forks"}
    Hash <- MCHash
    Prev <- MCPrev
    BlockNo <- MCBlockNo
    Slot <- MCSlot
    MaxBlockNo = 2
    Anc <- MCAnc
    ChainCap = 64
    Peer = {1, 2}
    K = 2
    BodyWindow = 2
    Capacity = 8
    OrphanCap = 8
    SyncPoints = {0}
    OtherTips = {}
    Invalid = {}
    OwnBlocks = {}
    Reorgs = {}
    BlacklistTips = {}
    MaxQueue = 20
    Faults = {"no_blocks"}
    MaxFaults = 1
SPECIFICATION FairAllSpec
PROPERTIES AdoptsAnnounced
