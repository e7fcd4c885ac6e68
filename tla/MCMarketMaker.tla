---------------------------- MODULE MCMarketMaker ----------------------------
(* MarketMaker with its constants given: how often each kind of trouble strikes. *)
EXTENDS MarketMaker, FiniteSetsExt

AllOnce == [t \in Troubles |-> 1]
CrashTwice == [t \in Troubles |-> IF t = "crash" THEN 2 ELSE 0]

\* The more trouble, the fewer placements, and the fewer of both once a second duel runs.
Struck == MapThenSumSet(LAMBDA t : trouble[t], Troubles)
FewAtOnce == Struck + Cardinality(OnBook) + Len(sent) <= IF current = 1 THEN 4 ELSE 3
=============================================================================
