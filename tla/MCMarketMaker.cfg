SPECIFICATION Spec
CONSTANTS
    NumDuels = 2
    MaxOrders = 3
    MaxPlacements = 3
    Budget <- AllOnce
    None = None
INVARIANTS NoForgottenOrder PaidWhenResolved OneQuotePerSide
CONSTRAINT FewAtOnce
