SPECIFICATION AllSpec
CONSTANTS
    Components = {"session", "tree"}
    Hash <- MCHash
    Prev <- MCPrev
    BlockNo <- MCBlockNo
    Slot <- MCSlot
    MaxBlockNo = 2
    Anc <- MCAnc
    Capacity = 2
    OrphanCap = 8
    JoinPoints = {0, 2}
    OwnChains <- MCOwnChains
    MaxResyncs = 1
    MaxCandidates = 2
    MaxRollbacks = 2
INVARIANTS AnnouncedServable BestTipAccurate
PROPERTIES ForwardLinks PruneKeepsTaint CatchesUp
