SPECIFICATION Spec
CONSTANTS
    Agents = {a1}
    Traders = {t1, t2}
    ONE = 100
    BPS = 10000
    SkewScale = 2000
    MaxLeverage = 500
    MaintenanceMarginBps = 1000
    LiquidationRewardBps = 500
    MaxOracleDelay = 0
    IndexDelay = 0
    FundingVelocity = 200
    Fees <- MCFees
    IndexPrices <- MCIndexPrices
    SizeDeltas <- MCSizeDeltas
    MarginDeltas <- MCMarginDeltas
    Payments <- MCPayments
    MaxTime = 2
    MaxTrades = 3
    MaxActs = 2
    MaxEvents = 7
SYMMETRY Symmetry
INVARIANTS BalanceSheet
PROPERTIES SafeAfterOwner
