CONSTANTS
    NoLeader = NoLeader
    NoRoot = NoRoot
    LeaderSeed = 12345
    Pubkeys = {1, 2, 3}
    MaxStake = 2
    MaxSlot = 0
    RootValues = {r1, r2}
SPECIFICATION MCSpec
INVARIANT QuorumIsUnique
