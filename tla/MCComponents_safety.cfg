CONSTANTS
    NoLeader = NoLeader
    NoRoot = NoRoot
    LeaderSeed = 12345
    Pubkeys = {1, 2, 3}
    MaxStake = 3
    MaxSlot = 7
    RootValues = {}
    MaxLeaves = 5
    Exchanges = {"binance"}
    Threshold = 5
    Timeout = 60
    MaxRetries = 3
    NoFailure = NoFailure
    MaxPrices = 5
    MaxPrice = 4
    AssetOrder <- MCAssetOrder
    Node = "node"
    PeerKeys = {"peer"}
    MinPublishers = 1
    ChanCap = 2
    MaxRounds = 2
    MaxPeerMsgs = 1
    CrdsNodes = {c1, c2}
    MaxEntries = 2
    MaxClock = 2
    MaxMsgs = 2
    PacketsPerBatch = 8
    BatchGrowth = 2
    SocketBuf = 2
    MaxArrivals = 10
    MaxCalls = 3
SPECIFICATION PartSpec
INVARIANTS LeaderDraw ContractVerifiesSpecProofs BatchIndexInBounds RecvReturnsReceived
PROPERTIES BreakerImplementsSpec BreakerRecovers LocalPriceBatched LabelsConverge RecvReturns
