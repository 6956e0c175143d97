CONSTANTS
    None = None
    Builtin <- MCBuiltin
    KeyOrder <- MCKeyOrder
    SampleSize = 2
    Tiers <- MCTiers
    Derpy = FALSE
    AuctionHours = 48
    Margin = 500
    HourlyReturn = 2
    MaxLbinSkip = 1
    LadderMin = 700
    LadderMax = 1500
    LadderStep = 200
    Items <- MCItems
    Tables <- MCTables
    RuleSets <- MCRuleSets
    Markets <- MCMarkets
    Books <- MCBooks
    Analyses <- MCAnalyses
    LowestBins = {70}
    HoldHours = {50}
    Curves <- MCCurves
    ManualCoins = {9000}
    Explore = {FALSE}
    MinComparables = 2
    MaxActiveRelaxations = 2
SPECIFICATION Spec
INVARIANTS KeptIsBest CostsCovered
PROPERTIES AsksWiden ProtectionsHold
CHECK_DEADLOCK FALSE
