------------------------------ MODULE GoldClob ------------------------------
(***************************************************************************)
(* GoldClob.sol: a limit order book per duel, whose trades and resting     *)
(* orders are fully collateralised in the contract's native balance and    *)
(* settled from the duel oracle, seen here through DuelFeed.               *)
(*                                                                         *)
(* Every external function is nonReentrant or makes no call before its     *)
(* last state change, so a successful call is one step and a call that     *)
(* reverts changes nothing.  Two calls can revert inside the book's own    *)
(* bookkeeping, where Solidity checks a subtraction; the model keeps those *)
(* reverts (Matching.reverted, UnlinkReverts).                             *)
(*                                                                         *)
(* A bid at price p for n shares is backed by n*p/1000 and buys shares of  *)
(* A, an ask by the rest of n and buys shares of B.  Fees are left out:    *)
(* the taker sends the trade fees on top of the cost and placeOrder pays   *)
(* them on, and claim takes the winnings fee out of what the winner gets,  *)
(* so no fee is ever part of the balance between two calls.                *)
(***************************************************************************)
EXTENDS DuelFeed, Integers, FiniteSetsExt

CONSTANTS
    Traders,            \* accounts that trade
    NoTrader,           \* address(0), the maker of an unwritten order
    Prices,             \* ticks at which orders are placed
    Amounts,            \* order sizes
    MaxOrders,          \* bound: orders placed per market
    MaxMatchIterations, \* MAX_MATCH_ITERATIONS, 50 in the contract
    ClobPausers,        \* accounts the admin may make a pauser
    Gifts               \* bound: what may be sent to receive(), once

MAX_PRICE == 1000

ASSUME PriceAssumption == Prices \subseteq 1 .. (MAX_PRICE - 1)
ASSUME AmountAssumption == \A a \in Amounts : a \in Nat \ {0} /\ a % MAX_PRICE = 0
ASSUME BoundAssumption == MaxOrders \in Nat /\ MaxMatchIterations \in Nat /\ Gifts \subseteq Nat
ASSUME TraderAssumption == NoTrader \notin Traders
\* What one balance holds is a sum over accounts and duels.
ASSUME FiniteAssumption == IsFiniteSet(Traders) /\ IsFiniteSet(Duels)

VARIABLES
    markets,            \* existence, status and winner of each duel's market
    books,              \* orders, price levels, bitmaps, best prices, positions
    balance,            \* native balance of the contract
    donated,            \* history: total sent to receive()
    swept,              \* history: total taken by sweepETH
    creationPaused,     \* marketCreationPaused
    placementPaused,    \* orderPlacementPaused
    clobPausers         \* holders of PAUSER_ROLE

pauseVars == <<creationPaused, placementPaused, clobPausers>>
clobVars == <<markets, books, balance, donated, swept, pauseVars>>
vars == <<feedVars, clobVars>>

-----------------------------------------------------------------------------
BookSides == {"BUY", "SELL"}
Opposite(side) == IF side = "BUY" THEN "SELL" ELSE "BUY"

OrderIds == 1 .. MaxOrders      \* 0 is "no order"
NoOrder == [side |-> "BUY", price |-> 0, maker |-> NoTrader, amount |-> 0, filled |-> 0,
            prev |-> 0, next |-> 0, active |-> FALSE]
EmptyLevel == [head |-> 0, tail |-> 0, totalOpen |-> 0]
NoPosition == [aShares |-> 0, bShares |-> 0, aStake |-> 0, bStake |-> 0]

\* bestBid is 0 and bestAsk MAX_PRICE when the side is empty.
NoBest(side) == IF side = "BUY" THEN 0 ELSE MAX_PRICE

EmptyBook ==
    [nextOrderId |-> 1,
     orders      |-> [i \in OrderIds |-> NoOrder],
     levels      |-> [s \in BookSides |-> [p \in Prices |-> EmptyLevel]],
     bitmap      |-> [s \in BookSides |-> {}],
     best        |-> [s \in BookSides |-> NoBest(s)],
     totalShares |-> 0,     \* totalAShares and totalBShares, always moved together
     positions   |-> [t \in Traders |-> NoPosition]]

NoMarket == [exists |-> FALSE, status |-> "NULL", winner |-> "NONE"]

ClobInit ==
    /\ markets = [d \in Duels |-> NoMarket]
    /\ books = [d \in Duels |-> EmptyBook]
    /\ balance = 0 /\ donated = 0 /\ swept = 0
    /\ creationPaused = FALSE /\ placementPaused = FALSE
    /\ \E p \in ClobPausers : clobPausers = {p}

-----------------------------------------------------------------------------
(* The book's data structure. *)

\* _quoteCost.  Amounts are multiples of MAX_PRICE, so the division is exact
\* and the cost never 0 (CostTooLow).
QuoteCost(side, price, amount) ==
    (amount * (IF side = "BUY" THEN price ELSE MAX_PRICE - price)) \div MAX_PRICE

Remaining(order) == order.amount - order.filled

\* _highestSetPrice, _lowestSetPrice
BestOf(side, set) ==
    IF set = {} THEN NoBest(side) ELSE IF side = "BUY" THEN Max(set) ELSE Min(set)

Better(side, p, q) == IF side = "BUY" THEN p > q ELSE p < q

\* _activatePrice
ActivatePrice(b, side, price) ==
    [b EXCEPT !.bitmap[side] = @ \cup {price},
              !.best[side] = IF Better(side, price, @) THEN price ELSE @]

\* Mutant: the best price is not moved off a price that empties.
DeactivatePrice_KeepsBest(b, side, price) ==
    [b EXCEPT !.levels[side][price] = EmptyLevel, !.bitmap[side] = @ \ {price}]
\* _deactivatePrice
DeactivatePrice(b, side, price) ==
    [b EXCEPT !.levels[side][price] = EmptyLevel,
              !.bitmap[side] = @ \ {price},
              !.best[side] = IF @ = price THEN BestOf(side, b.bitmap[side] \ {price}) ELSE @]

\* Mutant: the level goes with its head, whether or not another order follows.
PopHead_DropsLevel(b, side, price) ==
    LET head == b.levels[side][price].head
    IN  DeactivatePrice([b EXCEPT !.orders[head] =
                            [@ EXCEPT !.active = FALSE, !.prev = 0, !.next = 0]], side, price)
\* _popHead.  The new head keeps the prev pointer to the order that is gone.
PopHead(b, side, price) ==
    LET head == b.levels[side][price].head
        next == b.orders[head].next
        gone == [b EXCEPT !.orders[head] = [@ EXCEPT !.active = FALSE, !.prev = 0, !.next = 0]]
    IN  IF next = 0
        THEN DeactivatePrice(gone, side, price)
        ELSE [gone EXCEPT !.levels[side][price].head = next]

\* level.totalOpen -= remaining is checked.
UnlinkReverts(b, id) ==
    LET o == b.orders[id] IN b.levels[o.side][o.price].totalOpen < Remaining(o)

\* _unlinkOrder, and the fields cancelOrder and reclaimRestingOrder reset.
UnlinkOrder(b, id) ==
    LET o     == b.orders[id]
        level == b.levels[o.side][o.price]
        left  == IF o.prev = 0 THEN b.orders
                 ELSE [b.orders EXCEPT ![o.prev].next = o.next]
        both  == IF o.next = 0 THEN left ELSE [left EXCEPT ![o.next].prev = o.prev]
        head  == IF o.prev = 0 THEN o.next ELSE level.head
        tail  == IF o.next = 0 THEN o.prev ELSE level.tail
        open  == level.totalOpen - Remaining(o)
        cut   == [b EXCEPT !.orders = [both EXCEPT ![id] =
                     [@ EXCEPT !.filled = o.amount, !.active = FALSE, !.prev = 0, !.next = 0]]]
    IN  IF head = 0 \/ open = 0
        THEN DeactivatePrice(cut, o.side, o.price)
        ELSE [cut EXCEPT !.levels[o.side][o.price] =
                 [head |-> head, tail |-> tail, totalOpen |-> open]]

\* Mutant: the newest order goes to the front of the queue.
RestOrder_AtHead(b, id, order) ==
    LET level  == b.levels[order.side][order.price]
        placed == [b.orders EXCEPT ![id] = [order EXCEPT !.next = level.head, !.active = TRUE]]
        rested ==
            [b EXCEPT
               !.orders = IF level.head = 0 THEN placed
                          ELSE [placed EXCEPT ![level.head].prev = id],
               !.levels[order.side][order.price] =
                   [head      |-> id,
                    tail      |-> IF level.head = 0 THEN id ELSE level.tail,
                    totalOpen |-> level.totalOpen + Remaining(order)]]
    IN  ActivatePrice(rested, order.side, order.price)
\* _restOrder
RestOrder(b, id, order) ==
    LET level  == b.levels[order.side][order.price]
        placed == [b.orders EXCEPT ![id] = [order EXCEPT !.prev = level.tail, !.active = TRUE]]
        rested ==
            [b EXCEPT
               !.orders = IF level.tail = 0 THEN placed
                          ELSE [placed EXCEPT ![level.tail].next = id],
               !.levels[order.side][order.price] =
                   [head      |-> IF level.tail = 0 THEN id ELSE level.head,
                    tail      |-> id,
                    totalOpen |-> level.totalOpen + Remaining(order)]]
    IN  ActivatePrice(rested, order.side, order.price)

-----------------------------------------------------------------------------
(* Matching: _matchBuyOrder and _matchSellOrder, one the mirror of the other. *)

\* Mutant: the limit price itself does not match.
Crosses_Strictly(b, side, limit) ==
    LET best == b.best[Opposite(side)]
    IN  best # NoBest(Opposite(side)) /\ Better(side, limit, best)
\* Mutant: the limit is not compared at all.
Crosses_AnyPrice(b, side, limit) == b.best[Opposite(side)] # NoBest(Opposite(side))
Crosses(b, side, limit) ==
    LET best == b.best[Opposite(side)]
    IN  /\ best # NoBest(Opposite(side))
        /\ best = limit \/ Better(side, limit, best)

\* Mutant: both sides are charged the bid's share.
FillStake_BidForBoth(side, price, fill) == QuoteCost("BUY", price, fill)
\* _fillStakes: the two sides of a fill pay for it together.
FillStake(side, price, fill) ==
    IF side = "BUY" THEN QuoteCost("BUY", price, fill)
    ELSE fill - QuoteCost("BUY", price, fill)

WithFill(position, side, price, fill) ==
    LET stake == FillStake(side, price, fill)
    IN  IF side = "BUY"
        THEN [position EXCEPT !.aShares = @ + fill, !.aStake = @ + stake]
        ELSE [position EXCEPT !.bShares = @ + fill, !.bStake = @ + stake]

\* The head maker gives the taker as much as both still want, at the maker's
\* price; level.totalOpen -= fillAmount is checked.
Fill(m, taker, side, price, head) ==
    LET maker  == m.book.orders[head].maker
        fill   == Min({Remaining(m.book.orders[head]), m.remaining})
        open   == m.book.levels[Opposite(side)][price].totalOpen
        filled ==
            [m.book EXCEPT
               !.orders[head].filled = @ + fill,
               !.levels[Opposite(side)][price].totalOpen = @ - fill,
               !.totalShares = @ + fill,
               !.positions[maker] = WithFill(@, Opposite(side), price, fill),
               !.positions[taker] = WithFill(@, side, price, fill)]
    IN  IF open < fill THEN [m EXCEPT !.reverted = TRUE]
        ELSE [m EXCEPT
                !.book = IF Remaining(filled.orders[head]) = 0
                         THEN PopHead(filled, Opposite(side), price) ELSE filled,
                !.remaining = @ - fill,
                !.cost = @ + FillStake(side, price, fill)]

\* One iteration of the loop.
MatchStep(m, taker, side) ==
    LET price == m.book.best[Opposite(side)]
        level == m.book.levels[Opposite(side)][price]
        maker == m.book.orders[level.head]
    IN  IF level.head = 0 \/ level.totalOpen = 0
        THEN [m EXCEPT !.book = DeactivatePrice(@, Opposite(side), price)]
        ELSE IF ~maker.active \/ Remaining(maker) = 0
        THEN [m EXCEPT !.book = PopHead(@, Opposite(side), price)]
        ELSE IF maker.maker = taker
        THEN [m EXCEPT !.selfTrade = TRUE]
        ELSE Fill(m, taker, side, price, level.head)

Continues(m, side, limit) ==
    /\ m.remaining > 0
    /\ Crosses(m.book, side, limit)
    /\ ~m.selfTrade
    /\ ~m.reverted

\* At most MaxMatchIterations iterations.
Matching(b, taker, side, limit, amount) ==
    LET start == [book |-> [b EXCEPT !.nextOrderId = @ + 1], remaining |-> amount,
                  cost |-> 0, selfTrade |-> FALSE, reverted |-> FALSE]
        after[n \in 0 .. MaxMatchIterations] ==
            IF n = 0 THEN start
            ELSE LET m == after[n - 1]
                 IN  IF Continues(m, side, limit) THEN MatchStep(m, taker, side) ELSE m
    IN  after[MaxMatchIterations]

-----------------------------------------------------------------------------
(* The market's view of its duel. *)

\* _mapDuelStatus
MapDuelStatus(status) ==
    CASE status = "BETTING_OPEN" -> "OPEN"
      [] status = "SCHEDULED"    -> "NULL"
      [] OTHER                   -> status

\* Mutant: the winner is not copied with the status.
Synced_KeepsWinner(d) ==
    [exists |-> TRUE, status |-> MapDuelStatus(feed[d].status), winner |-> markets[d].winner]
\* _syncMarketFromOracle
Synced(d) ==
    [exists |-> TRUE,
     status |-> MapDuelStatus(feed[d].status),
     winner |-> CASE feed[d].status = "RESOLVED"  -> feed[d].winner
                  [] feed[d].status = "CANCELLED" -> "NONE"
                  [] OTHER                        -> markets[d].winner]

Sync(d) ==
    /\ markets[d].exists
    /\ markets' = [markets EXCEPT ![d] = Synced(d)]

CreateMarketForDuel(d) ==
    /\ ~creationPaused
    /\ ~markets[d].exists
    /\ feed[d].status \in {"BETTING_OPEN", "LOCKED"}
    /\ markets' = [markets EXCEPT ![d] = [exists |-> TRUE, winner |-> "NONE",
                                          status |-> MapDuelStatus(feed[d].status)]]
    /\ UNCHANGED <<feedVars, books, balance, donated, swept, pauseVars>>

SyncMarketFromOracle(d) ==
    /\ Sync(d)
    /\ UNCHANGED <<feedVars, books, balance, donated, swept, pauseVars>>

-----------------------------------------------------------------------------
(* Trading. *)

Order(side, price, maker, amount, filled) ==
    [NoOrder EXCEPT !.side = side, !.price = price, !.maker = maker,
                    !.amount = amount, !.filled = filled]

\* A remainder rests when the order is good till cancelled and did not meet
\* its own maker; otherwise the order is kept as a record only.  What the
\* taker sends beyond the cost and the fees comes back to him.
PlaceOrder(d, t, side, price, amount, flag) ==
    LET m       == Matching(books[d], t, side, price, amount)
        id      == books[d].nextOrderId
        order   == Order(side, price, t, amount, amount - m.remaining)
        rests   == m.remaining > 0 /\ flag # "IOC" /\ ~m.selfTrade
        resting == IF rests THEN QuoteCost(side, price, m.remaining) ELSE 0
    IN  /\ ~placementPaused
        /\ Sync(d)
        /\ Synced(d).status = "OPEN"
        /\ now < feed[d].betClose
        /\ flag = "POST_ONLY" => ~Crosses(books[d], side, price)
        /\ id \in OrderIds
        /\ ~m.reverted
        /\ books' = [books EXCEPT ![d] =
                        IF rests THEN RestOrder(m.book, id, order)
                        ELSE [m.book EXCEPT !.orders[id] = order]]
        /\ balance' = balance + resting + m.cost
        /\ UNCHANGED <<feedVars, donated, swept, pauseVars>>

Collateral(order) == QuoteCost(order.side, order.price, Remaining(order))

\* What cancelOrder and reclaimRestingOrder both require of an order, the
\* transfer included, and what they do with it.  A call succeeds exactly when
\* its Can... operator holds.
Withdrawable(d, t, id) ==
    LET order == books[d].orders[id]
    IN  /\ markets[d].exists
        /\ order.maker = t
        /\ order.active
        /\ Remaining(order) > 0
        /\ ~UnlinkReverts(books[d], id)
        /\ Collateral(order) <= balance

Withdraw(d, id) ==
    /\ Sync(d)
    /\ books' = [books EXCEPT ![d] = UnlinkOrder(@, id)]
    /\ balance' = balance - Collateral(books[d].orders[id])
    /\ UNCHANGED <<feedVars, donated, swept, pauseVars>>

\* Mutant: pausing placement pauses cancels too.
CanCancel_Pausable(d, t, id) ==
    /\ ~placementPaused
    /\ Synced(d).status = "OPEN"
    /\ Withdrawable(d, t, id)
CanCancel(d, t, id) == Synced(d).status = "OPEN" /\ Withdrawable(d, t, id)
CanReclaim(d, t, id) == Synced(d).status # "OPEN" /\ Withdrawable(d, t, id)

CancelOrder(d, t, id) == CanCancel(d, t, id) /\ Withdraw(d, id)
ReclaimRestingOrder(d, t, id) == CanReclaim(d, t, id) /\ Withdraw(d, id)

\* Mutant: shares of both sides are paid.
Payout_BothSides(d, t) ==
    LET position == books[d].positions[t]
    IN  IF Synced(d).status = "RESOLVED" THEN position.aShares + position.bShares
        ELSE position.aStake + position.bStake
\* What leaves the contract when t claims, winnings fee included.
Payout(d, t) ==
    LET position == books[d].positions[t]
    IN  IF Synced(d).status = "RESOLVED"
        THEN IF Synced(d).winner = "A" THEN position.aShares ELSE position.bShares
        ELSE position.aStake + position.bStake

CanClaim(d, t) ==
    /\ markets[d].exists
    /\ books[d].positions[t] # NoPosition
    /\ Synced(d).status \in {"RESOLVED", "CANCELLED"}
    /\ Payout(d, t) <= balance

Claim(d, t) ==
    /\ CanClaim(d, t)
    /\ Sync(d)
    /\ books' = [books EXCEPT ![d].positions[t] = NoPosition]
    /\ balance' = balance - Payout(d, t)
    /\ UNCHANGED <<feedVars, donated, swept, pauseVars>>

-----------------------------------------------------------------------------
(* The vault and the switches. *)

\* receive
Receive(gift) ==
    /\ donated = 0
    /\ donated' = gift
    /\ balance' = balance + gift
    /\ UNCHANGED <<feedVars, markets, books, swept, pauseVars>>

\* sweepETH, by the admin, to the treasury.
SweepETH ==
    /\ balance > 0
    /\ balance' = 0
    /\ swept' = swept + balance
    /\ UNCHANGED <<feedVars, markets, books, donated, pauseVars>>

SetMarketCreationPaused(p, value) ==
    /\ p \in clobPausers
    /\ creationPaused' = value
    /\ UNCHANGED <<feedVars, markets, books, balance, donated, swept, placementPaused, clobPausers>>

SetOrderPlacementPaused(p, value) ==
    /\ p \in clobPausers
    /\ placementPaused' = value
    /\ UNCHANGED <<feedVars, markets, books, balance, donated, swept, creationPaused, clobPausers>>

\* setPauser, grantRole and revokeRole by the admin, renounceRole by p.
SetPauser(p, enabled) ==
    /\ clobPausers' = IF enabled THEN clobPausers \cup {p} ELSE clobPausers \ {p}
    /\ UNCHANGED <<feedVars, markets, books, balance, donated, swept, creationPaused, placementPaused>>

-----------------------------------------------------------------------------
Flags == {"GTC", "IOC", "POST_ONLY"}

Place(d, t) ==
    \E side \in BookSides, price \in Prices, amount \in Amounts, flag \in Flags :
        PlaceOrder(d, t, side, price, amount, flag)

Take(d, t) == \E id \in OrderIds : CancelOrder(d, t, id) \/ ReclaimRestingOrder(d, t, id)

VaultStep == (\E gift \in Gifts : Receive(gift)) \/ SweepETH

SwitchStep(p) ==
    \E value \in BOOLEAN :
        \/ SetMarketCreationPaused(p, value)
        \/ SetOrderPlacementPaused(p, value)
        \/ SetPauser(p, value)

MarketStep(d) ==
    \/ CreateMarketForDuel(d)
    \/ SyncMarketFromOracle(d)
    \/ \E t \in Traders : Place(d, t) \/ Take(d, t) \/ Claim(d, t)

OracleStep == FeedNext /\ UNCHANGED clobVars

Init == FeedInit /\ ClobInit

Next ==
    \/ OracleStep
    \/ \E d \in Duels : MarketStep(d)
    \/ VaultStep
    \/ \E p \in ClobPausers : SwitchStep(p)

Spec == Init /\ [][Next]_vars

-----------------------------------------------------------------------------
(* Orders whose prev pointer names an order that is gone.  Withdrawing one  *)
(* of them corrupts its price level (RestingCollateralRecoverable), so what *)
(* holds of the book while nobody does is stated of IntactSpec.             *)

StalePrev(b, id) ==
    LET prev == b.orders[id].prev IN prev # 0 /\ ~b.orders[prev].active

IntactTake(d, t) ==
    \E id \in OrderIds :
        /\ ~StalePrev(books[d], id)
        /\ CancelOrder(d, t, id) \/ ReclaimRestingOrder(d, t, id)

IntactMarketStep(d) ==
    \/ CreateMarketForDuel(d)
    \/ SyncMarketFromOracle(d)
    \/ \E t \in Traders : Place(d, t) \/ IntactTake(d, t) \/ Claim(d, t)

IntactNext ==
    \/ OracleStep
    \/ \E d \in Duels : IntactMarketStep(d)
    \/ VaultStep
    \/ \E p \in ClobPausers : SwitchStep(p)

IntactSpec == Init /\ [][IntactNext]_vars

-----------------------------------------------------------------------------
(* Properties. *)

MarketStatuses == {"NULL", "OPEN", "LOCKED", "RESOLVED", "CANCELLED"}
OrderType == [side : BookSides, price : Prices \cup {0}, maker : Traders \cup {NoTrader},
              amount : Nat, filled : Nat, prev : {0} \cup OrderIds, next : {0} \cup OrderIds,
              active : BOOLEAN]

BookOK(b) ==
    /\ b.nextOrderId \in 1 .. (MaxOrders + 1)
    /\ \A i \in OrderIds :
          /\ b.orders[i] \in OrderType
          /\ b.orders[i].filled <= b.orders[i].amount
          /\ b.orders[i] # NoOrder => i < b.nextOrderId
    /\ \A s \in BookSides :
          /\ b.bitmap[s] \subseteq Prices
          /\ b.best[s] \in Prices \cup {NoBest(s)}
          /\ \A p \in Prices : b.levels[s][p] \in [head : {0} \cup OrderIds,
                                                   tail : {0} \cup OrderIds, totalOpen : Nat]
    /\ b.totalShares \in Nat
    /\ \A t \in Traders : b.positions[t] \in
          [aShares : Nat, bShares : Nat, aStake : Nat, bStake : Nat]

\* Every variable has the shape the contract's storage gives it, no order is
\* filled past its amount and none exists past nextOrderId.
TypeOK ==
    /\ now \in Times
    /\ feed \in [Duels -> FeedEntry]
    /\ \A d \in Duels :
          /\ markets[d] \in [exists : BOOLEAN, status : MarketStatuses,
                             winner : {"NONE", "A", "B"}]
          /\ BookOK(books[d])
    /\ balance \in Nat /\ donated \in Nat /\ swept \in Nat
    /\ creationPaused \in BOOLEAN /\ placementPaused \in BOOLEAN
    /\ clobPausers \subseteq ClobPausers

OpenOrders(b) == {i \in OrderIds : b.orders[i].active}
Stakes(b, t) == b.positions[t].aStake + b.positions[t].bStake
WinningShares(d, t) ==
    IF feed[d].winner = "A" THEN books[d].positions[t].aShares ELSE books[d].positions[t].bShares

Backing(order) == IF order.active THEN Collateral(order) ELSE 0
RestingTotal(b) == SumFunction([i \in OrderIds |-> Backing(b.orders[i])])
OwedTotal(d) ==
    SumFunction([t \in Traders |-> IF feed[d].status = "RESOLVED" THEN WinningShares(d, t)
                                   ELSE Stakes(books[d], t)])

\* The one native balance of the contract is, to the wei, the collateral of
\* the resting orders of every market, plus what every market owes its
\* positions (their stakes, and once the oracle has resolved the duel, one
\* per winning share), plus donations, less what sweepETH took.  It survives
\* partial fills, cancels, unclaimed positions and the moment the oracle
\* resolves behind the market's back.
EscrowIdentity ==
    balance + swept =
        donated + SumFunction([d \in Duels |-> RestingTotal(books[d]) + OwedTotal(d)])

\* The copy of the duel a market keeps lags behind the oracle and never runs
\* ahead of it, and a settled copy is the oracle's verdict: no order of calls
\* lets a market pay on a result the oracle has not published.
MarketNeverAhead ==
    \A d \in Duels : markets[d].exists =>
        /\ feed[d].status \notin {"NULL", "SCHEDULED"} /\ markets[d].status # "NULL"
        /\ markets[d].status = "LOCKED" => feed[d].status \in {"LOCKED", "RESOLVED", "CANCELLED"}
        /\ markets[d].status \in {"RESOLVED", "CANCELLED"} => markets[d].status = feed[d].status
        /\ markets[d].winner # "NONE" <=> markets[d].status = "RESOLVED"
        /\ markets[d].status = "RESOLVED" => markets[d].winner = feed[d].winner

\* The bitmap names the prices that have a queue and the best prices are its
\* extremes, whatever happened to the queues themselves.
IndexSound ==
    \A d \in Duels, s \in BookSides :
        LET b == books[d]
        IN  /\ \A p \in Prices : p \in b.bitmap[s] <=> b.levels[s][p].head # 0
            /\ b.bitmap[s] = {} => b.best[s] = NoBest(s)
            /\ b.bitmap[s] # {} =>
                  /\ b.best[s] \in b.bitmap[s]
                  /\ \A p \in b.bitmap[s] : ~Better(s, p, b.best[s])

Queue(b, s, p) == {i \in OpenOrders(b) : b.orders[i].side = s /\ b.orders[i].price = p}
Behind(b, i) == {j \in Queue(b, b.orders[i].side, b.orders[i].price) : j > i}

\* A price level is the queue of its open orders, oldest first: the list
\* from head to tail misses none of them and holds nothing else, and
\* totalOpen is what they still want.  Fills, cancels from the middle of the
\* queue and reclaims keep it so.
BookWellFormed ==
    \A d \in Duels :
        LET b == books[d]
        IN  /\ \A s \in BookSides, p \in Prices :
                  LET queue == Queue(b, s, p)
                  IN  /\ b.levels[s][p].head = (IF queue = {} THEN 0 ELSE Min(queue))
                      /\ b.levels[s][p].tail = (IF queue = {} THEN 0 ELSE Max(queue))
                      /\ b.levels[s][p].totalOpen =
                            SumFunctionOnSet([i \in queue |-> Remaining(b.orders[i])], queue)
            /\ \A i \in OpenOrders(b) :
                  /\ Remaining(b.orders[i]) > 0
                  /\ b.orders[i].next = (IF Behind(b, i) = {} THEN 0 ELSE Min(Behind(b, i)))
                  /\ b.orders[i].next # 0 => b.orders[b.orders[i].next].prev = i

Placed(d) == books'[d].nextOrderId # books[d].nextOrderId
Taken(d, i) ==
    Placed(d) /\ books[d].orders[i].active /\ books'[d].orders[i].filled # books[d].orders[i].filled

\* The book becomes crossed only by an order that met the iteration cap: one
\* that filled less than it could has filled MaxMatchIterations orders.
CrossedOnlyAtCap ==
    [][\A d \in Duels :
          LET Crossed(b) == b.best["BUY"] >= b.best["SELL"]
          IN  Crossed(books'[d]) /\ ~Crossed(books[d])
              => Cardinality({i \in OrderIds : Taken(d, i)}) >= MaxMatchIterations]_vars

\* No order is filled while an open order of the same side with a better
\* price, or the same price and an earlier id, still wants shares.
PriceTimePriority ==
    [][\A d \in Duels : \A i, j \in OrderIds :
          LET old == books[d].orders
          IN  /\ Taken(d, j) /\ old[i].active /\ i # j
              /\ old[i].side = old[j].side
              /\ \/ Better(old[i].side, old[i].price, old[j].price)
                 \/ old[i].price = old[j].price /\ i < j
              => Remaining(books'[d].orders[i]) = 0]_vars

\* Whatever mixture of fills and resting an order ends in, its maker locks
\* no more than the order would have cost at its limit price.
NeverPaysPastLimit ==
    [][\A d \in Duels : Placed(d) =>
          LET order == books'[d].orders[books[d].nextOrderId]
          IN  balance' - balance <= QuoteCost(order.side, order.price, order.amount)]_vars

\* As long as the admin has not swept the vault, the maker of an open order
\* can take its collateral back, by cancelOrder while the market is open and
\* by reclaimRestingOrder afterwards, whatever is paused.
RestingCollateralRecoverable ==
    swept = 0 => \A d \in Duels : \A id \in OpenOrders(books[d]) :
        LET maker == books[d].orders[id].maker
        IN  CanCancel(d, maker, id) \/ CanReclaim(d, maker, id)

\* As long as the admin has not swept the vault, every position of a settled
\* duel can be claimed, in any order and whatever is paused: a market never
\* spends what another one holds.
ClaimsPayable ==
    swept = 0 => \A d \in Duels, t \in Traders :
        markets[d].exists /\ feed[d].status \in {"RESOLVED", "CANCELLED"}
            /\ books[d].positions[t] # NoPosition => CanClaim(d, t)
=============================================================================
