\* A chain with an RPC client, and one known from the bot only: two duels, missed events, rollbacks, a crash.
SPECIFICATION Spec
CONSTANTS
    Duels = 2
    Skip = 6
    Back = 2
    MaxCrashes = 1
    Setups <- PolledOrBot
 
PROPERTIES FinishedDuelKept SettlementNeverWeakens
