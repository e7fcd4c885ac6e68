---------------------------- MODULE MCBetLedger ----------------------------
\* Instances of BetLedger for TLC: wallets and references are interchangeable.
EXTENDS BetLedger, TLC
CONSTANTS a, b, c, x, y
Interchangeable == Permutations(Wallets) \cup Permutations(Refs)
=============================================================================
