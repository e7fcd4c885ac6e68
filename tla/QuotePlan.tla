----------------------------- MODULE QuotePlan -----------------------------
(***************************************************************************)
(* The quote planner of the market makers (hyperbet-mm-core/src/index.ts)  *)
(* and the loop that applies its plans to one order book                   *)
(* (market-maker-bot/src/index.ts, evmMarketMake and reconcileOrder).      *)
(*                                                                         *)
(* A plan is computed from one reading of the market and applied to the    *)
(* bid first, then to the ask, while takers fill the orders that rest.     *)
(* The bot does not watch its orders: it counts the whole amount of a      *)
(* tracked order as open until it cancels it.  Prices are integers and     *)
(* every quotient of the source is rounded here where Math.round rounds it,*)
(* half up, over exact fractions.  Names that MarketMaker defines too have *)
(* another one here, so that one module can extend both.                   *)
(***************************************************************************)
EXTENDS Integers, FiniteSetsExt

CONSTANTS
    MinQuotePrice, MaxQuotePrice, MinQuoteUnits, MaxQuoteUnits,
    MaxInventoryPerSide, MaxNetExposure, MaxGrossExposure, MaxSideImbalanceBps,
    TargetSpreadBps, ToxicSpreadMultiplier, ToxicityThresholdBps, ToxicUnitReductionBps,
    InventorySkewBps, MinRefreshInterval, MaxQuoteAge,
    FallbackPrice, SignalWeightPercent,
    Signals,       \* prices the duel signal may imply
    Books,         \* best bid (0: none) and best ask (NoAsk: none) of the other makers
    NoAsk, Absent

ASSUME QuoteAssumption ==
    /\ {MinQuotePrice, MinQuoteUnits, MaxInventoryPerSide, MaxGrossExposure} \subseteq Nat \ {0}
    /\ {MaxQuotePrice, NoAsk} \subseteq Nat /\ MaxQuotePrice > MinQuotePrice /\ NoAsk > MaxQuotePrice
    /\ MaxQuoteUnits \in Nat /\ MaxQuoteUnits >= MinQuoteUnits /\ 2 * MaxQuoteUnits <= MaxGrossExposure
    /\ {MaxNetExposure, MaxSideImbalanceBps, TargetSpreadBps, ToxicityThresholdBps,
        InventorySkewBps, MinRefreshInterval, MaxQuoteAge, FallbackPrice} \subseteq Nat
    /\ SignalWeightPercent \in 0..100 /\ ToxicUnitReductionBps \in 0..10000
    /\ ToxicSpreadMultiplier \in Nat \ {0}
    /\ Signals \subseteq Nat /\ Books \subseteq [bid : Nat, ask : Nat]
    /\ \A b \in Books : b.ask > b.bid

VARIABLES
    held,       \* what the bot holds of each outcome
    live,       \* what rests on the book of its tracked order of each side
    tracked,    \* activeOrders: the order of each side as the bot remembers it
    plan,       \* the plan being applied
    turn        \* the side it is applied to next, None between cycles

quoteVars == <<held, live, tracked, plan, turn>>

QuoteSides == {"BID", "ASK"}
Other(side) == IF side = "BID" THEN "ASK" ELSE "BID"
Quotes == [price : MinQuotePrice..MaxQuotePrice, units : MinQuoteUnits..MaxQuoteUnits,
           age : 0..MaxQuoteAge]
Plans == [broken : BOOLEAN, price : [QuoteSides -> Int], units : [QuoteSides -> Nat], refresh : BOOLEAN]

ASSUME AbsentAssumption ==
    Absent \notin QuoteSides /\ Absent \notin Signals /\ Absent \notin Quotes /\ Absent \notin Plans

(***************************************************************************)
(* The planner.                                                            *)
(***************************************************************************)
AtMost(a, b) == IF a < b THEN a ELSE b
AtLeast(a, b) == IF a > b THEN a ELSE b
Abs(a) == AtLeast(a, -a)

\* Math.round(n / d)
Rounded(n, d) == (2 * n + d) \div (2 * d)
RoundedUp(n, d) == -((-n) \div d)

ClampPrice(price) == AtMost(MaxQuotePrice, AtLeast(MinQuotePrice, price))

\* A book with an empty or a crossed side has no mid price.
HasMid(bid, ask) == bid > 0 /\ ask < NoAsk /\ ask >= bid

Toxicity(bid, ask) == IF HasMid(bid, ask) THEN Rounded((ask - bid) * 20000, bid + ask) ELSE 10000

Toxic(bid, ask) == Toxicity(bid, ask) >= ToxicityThresholdBps

\* 200 times the price before the inventory is taken into account
BasePrice(bid, ask, hint) ==
    LET mid == 100 * (bid + ask)
        suggested == ClampPrice(hint)
    IN  IF HasMid(bid, ask) /\ hint # Absent
        THEN (bid + ask) * (100 - SignalWeightPercent) + 2 * suggested * SignalWeightPercent
        ELSE IF HasMid(bid, ask) THEN mid
        ELSE 200 * (IF hint # Absent THEN suggested ELSE ClampPrice(FallbackPrice))

\* expo: the bot's exposure to each outcome, shares and open orders
Gross(expo) == expo.BID + expo.ASK
Net(expo, side) == expo[side] - expo[Other(side)]
Denominator(expo) == AtLeast(1, Gross(expo))

\* The more of an outcome the bot is exposed to, the less it offers for it.
FairValue(bid, ask, hint, expo) ==
    ClampPrice(Rounded(
        BasePrice(bid, ask, hint) * (10000 * Denominator(expo) - InventorySkewBps * Net(expo, "BID")),
        2000000 * Denominator(expo)))

Imbalance(expo) == Rounded(Abs(Net(expo, "BID")) * 10000, Denominator(expo))

\* mutant: an imbalance stops both sides
ImbalanceLimited_BothSides(expo, side) ==
    Net(expo, "BID") # 0 /\ Imbalance(expo) >= MaxSideImbalanceBps

ImbalanceLimited(expo, side) == Net(expo, side) > 0 /\ Imbalance(expo) >= MaxSideImbalanceBps

\* The circuit breaker: no feed, or the market's limit reached.
Broken(expo, stop) == stop \/ Gross(expo) >= AtLeast(MaxGrossExposure, MaxQuoteUnits)

CanQuote(expo, side) ==
    /\ expo[side] < MaxInventoryPerSide
    /\ Net(expo, side) < MaxNetExposure
    /\ ~ImbalanceLimited(expo, side)

Scaled(headroom, limit, toxic) ==
    Rounded(MaxQuoteUnits * AtLeast(0, headroom) * (IF toxic THEN ToxicUnitReductionBps ELSE 10000),
            limit * 10000)

BaseUnits(expo, toxic) ==
    AtMost(MaxQuoteUnits, AtLeast(MinQuoteUnits, AtMost(
        Scaled(MaxInventoryPerSide - AtLeast(expo.BID, expo.ASK), MaxInventoryPerSide, toxic),
        Scaled(MaxGrossExposure - Gross(expo), MaxGrossExposure, toxic))))

\* A quarter of the base at least, less as the side outweighs the other.
RequestedUnits(expo, side, toxic) ==
    Rounded(BaseUnits(expo, toxic)
              * AtLeast(Denominator(expo), 4 * (Denominator(expo) - AtLeast(0, Net(expo, side)))),
            4 * Denominator(expo))

\* mutant: the gross limit stops a side that has reached it and bounds no quantity
ClampUnits_NoGross(requested, expo, side) ==
    LET bounded == Min({requested,
                        AtLeast(0, MaxInventoryPerSide - expo[side]),
                        AtLeast(0, MaxNetExposure - Net(expo, side))})
    IN  IF bounded >= MinQuoteUnits THEN bounded ELSE 0

\* mutant: the net limit stops a side that has reached it and bounds no quantity
ClampUnits_NoNet(requested, expo, side) ==
    LET bounded == Min({requested,
                        AtLeast(0, MaxInventoryPerSide - expo[side]),
                        AtLeast(0, MaxGrossExposure - Gross(expo))})
    IN  IF bounded >= MinQuoteUnits THEN bounded ELSE 0

\* The quantity that no limit forbids, or nothing when it is below the minimum.
ClampUnits(requested, expo, side) ==
    LET bounded == Min({requested,
                        AtLeast(0, MaxInventoryPerSide - expo[side]),
                        AtLeast(0, MaxNetExposure - Net(expo, side)),
                        AtLeast(0, MaxGrossExposure - Gross(expo))})
    IN  IF bounded >= MinQuoteUnits THEN bounded ELSE 0

Width(fair, toxic) ==
    AtLeast(5, RoundedUp(TargetSpreadBps * fair, 10000)) * (IF toxic THEN ToxicSpreadMultiplier ELSE 1)

\* Half the width on each side, at least one tick apart inside the limits.
Prices(fair, width) ==
    LET low == ClampPrice(Rounded(2 * fair - width, 2))
        high == ClampPrice(Rounded(2 * fair + width, 2))
        below == AtLeast(MinQuotePrice, high - 1)
    IN  IF low < high THEN [BID |-> low, ASK |-> high]
        ELSE [BID |-> below, ASK |-> AtMost(MaxQuotePrice, below + 1)]

\* buildQuotePlan
BuildQuotePlan(bid, ask, hint, expo, refresh, stop) ==
    LET toxic == Toxic(bid, ask)
        fair == FairValue(bid, ask, hint, expo)
    IN  [broken |-> Broken(expo, stop),
         price |-> Prices(fair, Width(fair, toxic)),
         units |-> [s \in QuoteSides |->
             IF ~Broken(expo, stop) /\ CanQuote(expo, s)
             THEN ClampUnits(RequestedUnits(expo, s, toxic), expo, s) ELSE 0],
         refresh |-> refresh]

\* evaluateQuoteDecision
Refreshes(p, side, quote) ==
    \/ quote.age >= MaxQuoteAge
    \/ p.refresh /\ (quote.price # p.price[side] \/ quote.units # p.units[side])

Cancels(p, side, quote) == quote # Absent /\ (p.units[side] = 0 \/ Refreshes(p, side, quote))

Places(p, side, quote) == p.units[side] > 0 /\ (quote # Absent => Refreshes(p, side, quote))


(***************************************************************************)
(* The loop.                                                               *)
(***************************************************************************)
QuoteTypeOK ==
    /\ held \in [QuoteSides -> Nat] /\ live \in [QuoteSides -> 0..MaxQuoteUnits]
    /\ tracked \in [QuoteSides -> Quotes \cup {Absent}]
    /\ \A s \in QuoteSides : live[s] > 0 => tracked[s] # Absent /\ live[s] <= tracked[s].units
    /\ plan \in Plans \cup {Absent} /\ turn \in QuoteSides \cup {Absent}
    /\ (plan = Absent) = (turn = Absent)

EachSide(value) == [s \in QuoteSides |-> value]

QuoteInit ==
    /\ held = EachSide(0) /\ live = EachSide(0) /\ tracked = EachSide(Absent)
    /\ plan = Absent /\ turn = Absent

\* mutant: an order that is still open is not exposure
Exposure_SharesOnly(orders) == held

\* What the bot believes it may end up holding.
Exposure(orders) ==
    [s \in QuoteSides |-> held[s] + (IF orders[s] = Absent THEN 0 ELSE orders[s].units)]

\* The best prices of a book the bot's own orders are part of.
BestBid(book) == IF live.BID > 0 THEN AtLeast(book.bid, tracked.BID.price) ELSE book.bid
BestAsk(book) == IF live.ASK > 0 THEN AtMost(book.ask, tracked.ASK.price) ELSE book.ask

Unexpired(s) == tracked[s] # Absent /\ tracked[s].age < MaxQuoteAge

\* Old orders go first, then the market, the duel and the feeds are read as they are by then; a
\* broken circuit cancels the rest.  halted: not open, closing, or a feed too old.
Snapshot ==
    \E book \in Books, signal \in Signals \cup {Absent}, halted \in BOOLEAN :
    LET kept == [s \in QuoteSides |-> IF Unexpired(s) THEN tracked[s] ELSE Absent]
        refresh == \/ \A s \in QuoteSides : kept[s] = Absent
                   \/ \E s \in QuoteSides : kept[s] # Absent /\ kept[s].age >= MinRefreshInterval
        read == BuildQuotePlan(BestBid(book), BestAsk(book), signal, Exposure(kept), refresh, halted)
    IN  /\ turn = Absent
        /\ tracked' = IF read.broken THEN EachSide(Absent) ELSE kept
        /\ live' = [s \in QuoteSides |-> IF tracked'[s] = Absent THEN 0 ELSE live[s]]
        /\ plan' = (IF read.broken THEN Absent ELSE read)
        /\ turn' = (IF read.broken THEN Absent ELSE "BID")
        /\ UNCHANGED held

Following(side) == IF side = "BID" THEN "ASK" ELSE Absent

Advance ==
    /\ turn' = Following(turn)
    /\ plan' = IF turn' = Absent THEN Absent ELSE plan

Forget(side) ==
    /\ tracked' = [tracked EXCEPT ![side] = Absent]
    /\ live' = [live EXCEPT ![side] = 0]

\* The order stays, or goes and is not replaced.
Keep ==
    /\ turn # Absent /\ ~Places(plan, turn, tracked[turn])
    /\ IF Cancels(plan, turn, tracked[turn]) THEN Forget(turn) ELSE UNCHANGED <<tracked, live>>
    /\ Advance
    /\ UNCHANGED held

\* The bot's own order of the other side is one the new order would match.
MeetsItself(side) ==
    /\ live[Other(side)] > 0
    /\ IF side = "BID" THEN tracked.ASK.price <= plan.price.BID
                       ELSE tracked.BID.price >= plan.price.ASK

\* Another maker's order may be one too: the book has moved since it was read.
Crosses(side) ==
    \E b \in Books : IF side = "BID" THEN b.ask <= plan.price.BID ELSE b.bid >= plan.price.ASK

\* The old order is cancelled and the new one placed.  It takes what it crosses, then rests,
\* unless it meets an order of the bot: the book then drops what is left of it.
PlaceQuote ==
    /\ turn # Absent /\ Places(plan, turn, tracked[turn])
    /\ \E taken \in 0..plan.units[turn] :
        /\ taken > 0 => Crosses(turn)
        /\ held' = [held EXCEPT ![turn] = @ + taken]
        /\ live' = [live EXCEPT ![turn] = IF MeetsItself(turn) THEN 0 ELSE plan.units[turn] - taken]
    /\ tracked' = [tracked EXCEPT ![turn] =
                     [price |-> plan.price[turn], units |-> plan.units[turn], age |-> 0]]
    /\ Advance

\* The transaction fails after the cancel: the cycle ends there.
PlaceFails ==
    /\ turn # Absent /\ Places(plan, turn, tracked[turn])
    /\ Forget(turn)
    /\ turn' = Absent /\ plan' = Absent
    /\ UNCHANGED held

\* A taker fills a resting order, in part or whole.
FillQuote ==
    \E s \in QuoteSides : \E units \in 1..live[s] :
        /\ live' = [live EXCEPT ![s] = @ - units]
        /\ held' = [held EXCEPT ![s] = @ + units]
        /\ UNCHANGED <<tracked, plan, turn>>

Tick ==
    /\ \E s \in QuoteSides : tracked[s] # Absent
    /\ tracked' = [s \in QuoteSides |-> IF tracked[s] = Absent THEN Absent
                                        ELSE [tracked[s] EXCEPT !.age = AtMost(MaxQuoteAge, @ + 1)]]
    /\ UNCHANGED <<held, live, plan, turn>>

QuoteNext == Snapshot \/ Keep \/ PlaceQuote \/ PlaceFails \/ FillQuote \/ Tick

QuoteSpec == QuoteInit /\ [][QuoteNext]_quoteVars

(***************************************************************************)
(* Properties.                                                             *)
(***************************************************************************)
AtRisk(side) == held[side] + live[side]

\* The shares of an outcome and the order that may still buy more of it stay within the limit per
\* side, whatever is filled between the reading a plan rests on and its orders (mm-core index.ts:561).
InventoryCapped == \A s \in QuoteSides : AtRisk(s) <= MaxInventoryPerSide

\* The two quotes of a plan may each use up the whole room under the gross limit.  Quotes shrink
\* with that room, so the limit is exceeded by a quote of the least size and no more (mm-core index.ts:527).
GrossOverByLeastQuote == AtRisk("BID") + AtRisk("ASK") <= MaxGrossExposure + MinQuoteUnits

\* The net limit counts an order that may never fill as a hedge: once it is cancelled the bot
\* may be exposed by one quote more than the limit, and never by more (mm-core index.ts:545).
NetOverByOneQuote == \A s \in QuoteSides : AtRisk(s) - held[Other(s)] <= MaxNetExposure + MaxQuoteUnits

\* While nothing breaks the circuit, and unless both outcomes are at their limit, a plan offers
\* one side at least as long as a whole quote fits: reduce-only never turns into a standstill.
QuotesGoOn ==
    LET expo == Exposure(tracked)
    IN  (~Broken(expo, FALSE) /\ MaxGrossExposure - Gross(expo) >= MinQuoteUnits)
            => \A b \in Books : \E s \in QuoteSides :
                 BuildQuotePlan(BestBid(b), BestAsk(b), Absent, expo, TRUE, FALSE).units[s] > 0
=============================================================================
