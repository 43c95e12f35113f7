SPECIFICATION Spec
CONSTANTS
    Address = {1, 2}
    Property = {1, 3, 4}
    Amounts = {1, 2}
    Trades <- MCTrades
    Toggled = {"metadex", "allpairs"}
    FeeDivider = 2
    FeeThreshold = 2
    MinActivation = 1
    DisabledBlock = 2
    MaxTxs = 4
    MaxBlock = 3
    Scenarios <- MCScenarios
    InitFeatureBlock <- MCInitFeatureBlock
    Receivers = {1, 2}
    Splits <- MCSplits
    Deadlines = {2}
    EarlyBirds = {100}
    Percentages = {50}
    FreezeWait = 1
    Exodus = 1
    Vested <- MCVested
    MaxTokens = 5
    RatioUnit = 10
INVARIANTS
    MetaDExReserveIsExact
    SupplyIsRecorded
    FrozenNeedsEnabled
PROPERTIES
    TradesWithinLimits
    FrozenBalanceKept
CHECK_DEADLOCK FALSE
