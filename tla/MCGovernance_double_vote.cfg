CONSTANTS
    Stakers = {"s1", "s2"}
    Legacy <- MCLegacy
    LegacyTime = 0
    InitialWallet <- MCWallet
    AuthorityFunds = 2
    StartTime = 1
    MaxTime = 2
    SecondsPerDay = 1
    Cooldown = 2
    ClaimDailyRewards = 1
    InitialRate = 1
    PoolRefillThreshold = 2
    EpochDuration = 1
    VotingPeriod = 1
    MinProposalStake = 1
    InitialMinStake = 1
    TierThresholds <- MCTiers
    MaxProposals = 1
    MaxTally = 4
    Amounts = {2}
    MinStakeValues = {2}
    RateValues = {2}
    PerfValues <- MCPerf
SPECIFICATION Spec
INVARIANT TallyWithinStake
