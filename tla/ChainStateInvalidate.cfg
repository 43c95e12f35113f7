SPECIFICATION FairSpec
CONSTANTS
    Blocks <- HookBlocks
    Genesis = 0
    Parent <- HookParent
    ChainWork <- HookWork
    Address <- HookAddress
    Bad = {2}
    BadContext = {}
    Stake = {3}
    Disputable = {1}
    Checkpoints = {1}
    nReplay = 0
    MaxReorg = 2
    NoBlock = NoBlock
    MaxHandlers = 1
    MaxInvalidate = 1
    MaxReconsider = 1
    MaxRefused = 2
    MaxCrashes = 0
    MaxDisturb = 2
INVARIANTS
    NoCandidateForgotten
    ActiveChainHasNotFailed
    FailedHasInvalidAncestor
PROPERTIES
    CallsReturn
