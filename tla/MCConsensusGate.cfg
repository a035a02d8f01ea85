SPECIFICATION AllSpec
CONSTANTS
    Components = {"leios"}
    Hash <- MCHash
    Prev <- MCPrev
    BlockNo <- MCBlockNo
    Slot <- MCSlot
    MaxBlockNo = 1
    Anc <- MCAnc
    EB <- MCEB
    Announced <- MCAnnounced
    Certifies = {3}
    Issuer <- MCIssuer
    DeltaHdr = 1
    VoteWindow = 2
    DiffuseWindow = 1
    Voter <- MCVoter
    Mode = "WfaLs"
    Seats <- MCSeats
    Stake <- MCStake
    NpvWins <- MCNpvWins
    QuorumNum = 3
    QuorumDen = 4
    ExpectedWeight = 3
    ByReference <- MCEB
    LeaderSlots = {5, 7}
    Configs <- MCConfigs
    MaxSlot = 7
    MaxDelay = 1
    MaxReorgs = 1
PROPERTY NoUnsafeBody
CHECK_DEADLOCK FALSE
