-------------------------- MODULE MCMarketOverview --------------------------
\* Instances of MarketOverview for TLC: the bounds are in the .cfg files.
EXTENDS MarketOverview

PolledOrBot == {[polled |-> TRUE, bot |-> FALSE], [polled |-> FALSE, bot |-> TRUE]}
=============================================================================
