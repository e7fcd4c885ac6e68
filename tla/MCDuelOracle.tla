---------------------------- MODULE MCDuelOracle ----------------------------
(***************************************************************************)
(* A duel offered with two closing times and with the malformed terms      *)
(* upsertDuel refuses, block times on both sides of every deadline         *)
(* (closing 2 or 3, windows ending 62, 63, 121, 122), and two pieces of    *)
(* evidence, so that a challenged result can be proposed again with the    *)
(* same evidence or with other evidence.                                   *)
(***************************************************************************)
EXTENDS DuelOracle

OfferedTerms(a, b, open, close, start) ==
    [partA |-> a, partB |-> b, betOpen |-> open, betClose |-> close, duelStart |-> start]

MCOffers(zero, x, y) ==
    {OfferedTerms(x, y, 1, 2, 2), OfferedTerms(x, y, 1, 3, 4),
     OfferedTerms(y, x, 1, 2, 2), OfferedTerms(x, x, 1, 2, 2),
     OfferedTerms(zero, y, 1, 2, 2), OfferedTerms(x, y, 0, 2, 2),
     OfferedTerms(x, y, 2, 2, 2), OfferedTerms(x, y, 1, 3, 2)}
MCHashes == {"zero", "x", "y"}
MCTerms == MCOffers("zero", "x", "y")
MCTimes == {1, 2, 3, 61, 62, 63, 122}
MCEndTimes == {1, 2, 3}
=============================================================================
