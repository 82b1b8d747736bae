CONSTANTS
    Roots = {r1, r2}
    NoRoot = NoRoot
    NoBatch = NoBatch
    TowerCap = 3
    Slots <- MCSlots
    RootCandidates <- MCNoRoot
SPECIFICATION Spec
PROPERTY NoBackwardVote
