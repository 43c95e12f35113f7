\* A branch with more work whose first block turns out to be invalid, after the
\* blocks of the active branch have been disconnected for it.
SPECIFICATION Spec
CONSTANTS
    Blocks <- TreeBlocks
    Genesis = 0
    Parent <- TreeParent
    Bad = {10}
    Creates = {1, 8}
    Grants = {3, 5}
    Freezes = {2, 9}
    Fees = {1, 3, 4, 7}
    MaxHistory = 1
    StoreEvery = 100
    MaxInvalidate = 0
    MaxCrashes = 0
INVARIANT FilesAreOfTheirBlock
CHECK_DEADLOCK FALSE
