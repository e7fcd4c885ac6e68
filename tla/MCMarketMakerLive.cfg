SPECIFICATION FairSpec
CONSTANTS
    NumDuels = 2
    MaxOrders = 1
    MaxPlacements = 1
    Budget <- CrashTwice
    None = None
PROPERTIES EveryQuoteEnds ClaimsPaid
