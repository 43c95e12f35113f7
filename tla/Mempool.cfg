\* Chains of transactions that move between the pool and blocks, with
\* conflicts, a limit of the pool and reorganizations.
SPECIFICATION Spec
CONSTANTS
    Txs = {1, 2, 3, 4, 5, 6}
    Inputs <- MCInputs
    Size <- MCSize
    Fee <- MCFee
    LockHeight <- MCLockHeight
    Coinbases = {7, 8, 9}
    BaseCoins <- MCCoins
    Maturity = 2
    MaxMempool = 4
    LimitAncestors = 4
    LimitDescendants = 4
    MaxVisit = 0
    MaxHeight = 3
    MaxBlockTxs = 2
    MaxDisconnect = 2
INVARIANTS
    PoolIsMinable
    LinksAreExact
    DescendantsAreExact
CHECK_DEADLOCK FALSE
