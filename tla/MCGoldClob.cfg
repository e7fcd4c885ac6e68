SPECIFICATION LifeSpec
CONSTANTS
    Duels = {d1}
    Times <- MCShortTimes
    CloseTimes <- MCCloseTimes
    DisputeWindow = 60
    Traders = {t1, t2}
    NoTrader = none
    Prices <- MCTwoPrices
    Amounts <- MCCapAmounts
    MaxOrders = 4
    MaxMatchIterations = 2
    ClobPausers = {p1}
    Gifts <- MCGifts
SYMMETRY Symmetry
CHECK_DEADLOCK FALSE
INVARIANTS
    MarketNeverAhead
    RestingCollateralRecoverable
    BookWellFormed
PROPERTIES
    CrossedOnlyAtCap
    PriceTimePriority
    NeverPaysPastLimit
