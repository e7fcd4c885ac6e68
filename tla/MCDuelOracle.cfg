SPECIFICATION OracleSpec
CONSTANTS
    Duels = {d1}
    Hashes <- MCHashes
    NoHash = "zero"
    Offers <- MCTerms
    EndTimes <- MCEndTimes
    Evidence = {e1, e2}
    NoProposal = none
    Times <- MCTimes
    DisputeWindow = 60
    PauserAccounts = {p1, p2}
INVARIANTS
    OracleTypeOK
    ResultSurvivedDispute
    OneLiveProposal
PROPERTIES
    TermsFrozenOnceOpen
    ImplementsFeed
