\* Every limit is within reach of a few quotes.
SPECIFICATION QuoteSpec
CONSTANTS
    MinQuotePrice = 1
    MaxQuotePrice = 29
    NoAsk = 30
    MinQuoteUnits = 2
    MaxQuoteUnits = 3
    MaxInventoryPerSide = 6
    MaxNetExposure = 2
    MaxGrossExposure = 9
    MaxSideImbalanceBps = 6000
    TargetSpreadBps = 200
    ToxicSpreadMultiplier = 2
    ToxicityThresholdBps = 5000
    ToxicUnitReductionBps = 5000
    InventorySkewBps = 750
    MinRefreshInterval = 1
    MaxQuoteAge = 1
    FallbackPrice = 15
    SignalWeightPercent = 50
    Signals <- OneSignal
    Books <- TwoBooks
    Absent = Absent
INVARIANTS   QuotesGoOn 
