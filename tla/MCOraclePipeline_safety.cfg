CONSTANTS
    Nodes = {"n1", "n2"}
    Roots = {r1}
    NoAccount = NoAccount
    NoRoot = NoRoot
    NoLeader = NoLeader
    LeaderSeed = 12345
    BadProgramId = {"n2"}
    FallbackStake = 5
    ChanCap = 1
    MaxSlot = 1
    MaxBatches <- MCMaxBatches
    StakeAccount <- MCStakeFirstOnly
SPECIFICATION Spec
INVARIANTS TypeOK OnlyStakedNodesSubmit
PROPERTY AllStagesStop
CHECK_DEADLOCK FALSE
