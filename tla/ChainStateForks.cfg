SPECIFICATION Spec
CONSTANTS
    Blocks <- ForkBlocks
    Genesis = 0
    Parent <- ForkParent
    ChainWork <- ForkWork
    Address <- ForkAddress
    Bad = {4}
    BadContext = {5}
    Stake = {1, 3}
    Disputable = {}
    Checkpoints = {}
    nReplay = 0
    MaxReorg = 2
    NoBlock = NoBlock
    MaxHandlers = 2
    MaxInvalidate = 0
    MaxReconsider = 0
    MaxRefused = 0
    MaxCrashes = 1
    MaxDisturb = 0
INVARIANTS
    LinksAreExact
    BestChainActivated
    DiskTipIsIndexed
PROPERTIES
    PruneLeavesACandidate
