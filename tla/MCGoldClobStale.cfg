SPECIFICATION SettlingSpec
CONSTANTS
    Duels = {d1}
    Times <- MCShortTimes
    CloseTimes <- MCCloseTimes
    DisputeWindow = 60
    Traders = {t1, t2}
    NoTrader = none
    Prices <- MCOnePrice
    Amounts <- MCUnit
    MaxOrders = 5
    MaxMatchIterations = 6
    ClobPausers = {p1}
    Gifts <- MCGifts
SYMMETRY Symmetry
INVARIANTS
    RestingCollateralRecoverable
