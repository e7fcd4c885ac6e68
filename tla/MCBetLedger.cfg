\* Three wallets, a bet, and crashes between any two writes.
SPECIFICATION LedgerSpec
CONSTANTS
    a = a
    b = b
    c = c
    x = x
    y = y
    None = None
    Wallets = {a, b, c}
    Refs = {x, y}
    MaxRequests = 6
    MaxDeaths = 1
SYMMETRY Interchangeable
INVARIANTS LedgerAgrees IdentityPartition BetPaidOnce ReferredOnce
CHECK_DEADLOCK FALSE
