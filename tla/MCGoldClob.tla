----------------------------- MODULE MCGoldClob -----------------------------
(***************************************************************************)
(* Instances of GoldClob.  Prices are off the middle, so that the two      *)
(* sides of a fill pay different amounts, and the second amount leaves     *)
(* partial fills.                                                          *)
(***************************************************************************)
EXTENDS GoldClob, TLC

MCTwoPrices == {400, 700}
MCOnePrice == {400}
MCUnit == {1000}
MCCloseTimes == {2}
MCCapAmounts == {1000, 3000}
MCShortTimes == {1, 62}
MCGifts == {5}

\* The markets just created, betting open: where trading starts from.
OpenMarket == [exists |-> TRUE, status |-> "OPEN", winner |-> "NONE"]
TradingInit ==
    /\ now = 1
    /\ feed = [d \in Duels |-> Entry("BETTING_OPEN", 2, "NONE")]
    /\ markets = [d \in Duels |-> OpenMarket]
    /\ books = [d \in Duels |-> EmptyBook]
    /\ balance = 0 /\ donated = 0 /\ swept = 0
    /\ creationPaused = FALSE /\ placementPaused = FALSE
    /\ clobPausers = ClobPausers

Symmetry == Permutations(Traders)
SymmetryOfAll == Permutations(Traders) \cup Permutations(Duels)

\* Orders of which the first `resting` are GTC: any other order on an empty
\* book does nothing or the same; small books have the flags in every place.
PlaceAfter(resting, d, t) ==
    \E side \in BookSides, price \in Prices, amount \in Amounts, flag \in Flags :
        /\ books[d].nextOrderId <= resting => flag = "GTC"
        /\ PlaceOrder(d, t, side, price, amount, flag)

\* The whole life of a market, with pauses, donations and sweeps, for a book of
\* three orders that are alike; and, while the market is as it was created, a
\* book of MaxOrders that differ in price or in amount (a queue of several
\* amounts needs no second price).
PlacedOrders(d) == {books[d].orders[i] : i \in 1 .. (books[d].nextOrderId - 1)}
SmallBooks ==
    \A d \in Duels : /\ books[d].nextOrderId <= 4
                     /\ \A o \in PlacedOrders(d) : o.amount = 1000 /\ o.price = 400
PricesOrAmounts ==
    \A d \in Duels : \/ \A o \in PlacedOrders(d) : o.amount = 1000
                     \/ \A o \in PlacedOrders(d) : o.price = 400
AsCreated ==
    /\ now = 1 /\ feed = [d \in Duels |-> Entry("BETTING_OPEN", 2, "NONE")]
    /\ markets = [d \in Duels |-> OpenMarket]
    /\ donated = 0 /\ swept = 0
    /\ ~creationPaused /\ ~placementPaused /\ clobPausers = ClobPausers
TradingNext ==
    /\ AsCreated
    /\ \E d \in Duels, t \in Traders : (PlaceAfter(1, d, t) /\ PricesOrAmounts') \/ IntactTake(d, t)
LifeNext == (SmallBooks /\ IntactNext /\ SmallBooks') \/ TradingNext
LifeSpec == Init /\ [][LifeNext]_vars

\* Trading, and everything after it: closing, cancelling, resolving, reclaims
\* and claims, with no restriction on which orders are withdrawn.  The markets
\* are several of two orders over one balance, or one of MaxOrders while the
\* others stay as they were created.
Placements(d) == books[d].nextOrderId - 1
Created(d) == Placements(d) = 0 /\ feed[d].status = "BETTING_OPEN" /\ markets[d] = OpenMarket
SmallOrAlone ==
    \A d \in Duels : Placements(d) > 2 => \A e \in Duels \ {d} : Created(e)
SettlingNext ==
    /\ \/ OracleStep
       \/ \E d \in Duels :
             \/ SyncMarketFromOracle(d)
             \/ \E t \in Traders : PlaceAfter(2, d, t) \/ Take(d, t) \/ Claim(d, t)
    /\ SmallOrAlone'
SettlingSpec == TradingInit /\ [][SettlingNext]_vars
=============================================================================
