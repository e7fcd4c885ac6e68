---------------------------- MODULE MCQuotePlan ----------------------------
\* Instances of QuotePlan for TLC: limits of a few quotes, prices of a narrow market.
EXTENDS QuotePlan, TLC
TwoBooks == {[bid |-> 0, ask |-> NoAsk], [bid |-> 12, ask |-> 18]}
OneSignal == {27}
=============================================================================
