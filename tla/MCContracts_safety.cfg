CONSTANTS
    Stakers = {"s1", "s2"}
    Legacy <- MCLegacy
    LegacyTime = 0
    InitialWallet <- MCWallet
    AuthorityFunds = 2
    StartTime = 1
    MaxTime = 2
    SecondsPerDay = 1
    Cooldown = 2
    ClaimDailyRewards = 1
    InitialRate = 1
    PoolRefillThreshold = 2
    EpochDuration = 1
    VotingPeriod = 1
    MinProposalStake = 1
    InitialMinStake = 1
    TierThresholds <- MCTiers
    MaxProposals = 1
    MaxTally = 2
    Amounts = {2}
    MinStakeValues = {2}
    RateValues = {2}
    PerfValues <- MCPerf
    Keys = {k1, k2}
    StakeAmounts = {1, 2}
    MinStakes = {2}
    MaxBatches = 2
    Roots = {r1}
    Symbols = {f1}
    FeedSigners = {k1, k2}
    PriceValues <- MCPriceValues
    MaxPrices = 3
    CoreSigners = {k1, k2}
    BatchNumbers = {0, 1}
    MaxPublishers = 1
    BridgeSigners = {k1, k2}
    SigCounts = {1, 2}
    MaxBridgeMsgs = 1
    Validators = {v1, v2}
    TrackerRoots = {r1}
    StakeValues = {0, 1, 2}
    MaxTotalStake = 4
    MaxTrackerVotes = 2
    HashesPerTick = 3
    HashCounts = {0, 2}
    MaxHashes = 8
    MaxTicks = 3
    DbThreads = {t1, t2}
    AccountKeys = {x1, x2}
    AccountVals = {a1, a2}
    MaxSize = 1
    MaxBatch = 2
    LedgerSymbols = {1, 2}
    Timestamps = {9, 10}
    BatchNums = {1, 2}
    Cutoffs = {10, 11}
    TNodes = {n1, n2}
    TRoots = {r1}
    TStakes = {1, 2}
    Fanout = 200
    MaxHops = 4
    TreeOps = 2
    TowerSlots = {0, 1, 2, 3, 4, 5}
    TowerRoots = {r1, r2}
    TowerNoRoot = TowerNoRoot
    TowerNoBatch = TowerNoBatch
    TowerCap = 2
    GNodes = {g1, g2}
    Callers = {g1}
    Freezable = {g2}
    Updates = {u1}
    MaxConns = 2
    MaxBroadcasts = 2
    MaxHeartbeats = 1
    MaxResets = 1
    WindowCap = 2
    MaxCoalesce = 2
SPECIFICATION ContractsSpec
INVARIANTS TypeOK TotalStakedIsSum ActiveSequencersStaked AggregatedPriceIsMedian TotalStakeCoversRegistered CacheBounded PruningDeletesOnlyOldPrices TowerTypeOK NoEquivocationAboveRoot RecentVotesMatchHistory 
