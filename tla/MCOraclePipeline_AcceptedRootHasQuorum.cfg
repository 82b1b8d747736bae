CONSTANTS
    Nodes = {"n1", "n2"}
    Roots = {r1, r2}
    NoAccount = NoAccount
    NoRoot = NoRoot
    NoLeader = NoLeader
    LeaderSeed = 12345
    BadProgramId = {}
    FallbackStake = 5
    ChanCap = 1
    MaxSlot = 1
    MaxBatches <- MCMaxBatches
    StakeAccount <- MCStakeTwo
SPECIFICATION Spec
INVARIANT AcceptedRootHasQuorum
