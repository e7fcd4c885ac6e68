---------------------------- MODULE MCPerpEngine ----------------------------
(***************************************************************************)
(* An instance of PerpEngine: one market whose trades move the price by a  *)
(* few percent, prices that make a profit and a loss larger than a margin, *)
(* and sizes that are liquidated in part and whole.                        *)
(***************************************************************************)
EXTENDS PerpEngine, TLC

MCFees == {[treasury |-> 100, maker |-> 50, cap |-> 200]}
MCIndexPrices == {700, 1000}
MCSizeDeltas == {-200, 0, 100}
MCMarginDeltas == {0, 600}
MCPayments == {300}
Symmetry == Permutations(Traders)
=============================================================================
