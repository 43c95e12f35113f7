\* Reorganizations within and beyond the reach of the state files, steps that
\* connect several blocks, a branch whose first block is invalid, the
\* invalidation of any block of the active chain, and a crash at any point.
SPECIFICATION Spec
CONSTANTS
    Blocks <- TreeBlocks
    Genesis = 0
    Parent <- TreeParent
    Bad = {10}
    Creates = {1, 8}
    Grants = {3, 5}
    Freezes = {2, 9}
    Fees = {1, 3, 4, 7}
    MaxHistory = 1
    StoreEvery = 100
    MaxInvalidate = 1
    MaxCrashes = 1
INVARIANTS
    TallyFollowsChain
    SPsFollowChain
    
    
CHECK_DEADLOCK FALSE
