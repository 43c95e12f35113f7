CONSTANTS
    Blocks <- Tree
    Genesis = 0
    Parent <- Parents
    Update <- Updates
    Minted <- Mints
    Bad <- Refused
    HeightGovernance = 2
    InitialCost = "c0"
    NoCost = "none"
    NoBlock = NoBlock
    nCheckDepth = 1
    MaxLosses = 2
SPECIFICATION Spec
INVARIANTS
    GovernanceFollowsChain
    SupplyFollowsChain
    VerifyRestoresUpdates
