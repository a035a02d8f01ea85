SPECIFICATION AllSpec
CONSTANTS
    Components = {"session"}
    Hash <- MCHash
    Prev <- MCPrev
    BlockNo <- MCBlockNo
    Slot <- MCSlot
    MaxBlockNo = 2
    Anc <- MCAnc
    Capacity = 2
    OrphanCap = 8
    JoinPoints = {0}
    OwnChains <- MCOwnChains
    MaxResyncs = 1
    MaxCandidates = 3
    MaxRollbacks = 2
PROPERTY OriginResolves
