----------------------------- MODULE PerpEngine -----------------------------
(***************************************************************************)
(* The perpetual engine with ERC-20 collateral                             *)
(* (evm-contracts/contracts/perps/AgentPerpEngine.sol) and what it reads   *)
(* of the skill oracle (SkillOracle.sol).                                  *)
(*                                                                         *)
(* A trader bets on the index price of an agent against the market itself: *)
(* there is no counterparty but the market's vault, which losses feed and  *)
(* profits drain, with an insurance fund behind it and bad debt behind     *)
(* that.  The open interest moves the price a trade is made at.  Amounts,  *)
(* sizes and prices are integers over ONE; a signed quotient is cut off    *)
(* towards zero, as the EVM does.  A call that reverts changes nothing.    *)
(*                                                                         *)
(* Left out: the caller's acceptable price (it only makes calls revert),   *)
(* pausers' roles, currentFundingRate and the skill score (never read), and*)
(* three limits that no way to create a market can set (price step, least  *)
(* insurance, least position).                                             *)
(***************************************************************************)
EXTENDS Integers, FiniteSets, Functions

CONSTANTS
    Agents, Traders,
    ONE, BPS,            \* the fixed point, and ten thousand
    SkewScale, MaxLeverage, MaintenanceMarginBps, LiquidationRewardBps,
    MaxOracleDelay,      \* of the engine's markets
    IndexDelay,          \* of the oracle itself, 0 for none
    FundingVelocity,     \* per unit of time
    Fees,                \* what a market may be created with: fees in BPS and its open interest cap, 0 for none
    IndexPrices,         \* prices the oracle may report
    SizeDeltas, MarginDeltas, Payments,  \* what traders and the admin may ask for
    MaxTime, MaxTrades, MaxActs, \* bounds: the clock, calls of owners, acts of governance,
    MaxEvents                    \* and the three together, a call counting twice

ASSUME PerpAssumption ==
    /\ {ONE, SkewScale, MaxLeverage, MaxTime} \subseteq Nat \ {0} /\ BPS \in Nat /\ BPS >= 5
    /\ {MaintenanceMarginBps, LiquidationRewardBps} \subseteq 1 .. (BPS - 1)
    /\ {MaxOracleDelay, IndexDelay, FundingVelocity, MaxTrades, MaxActs, MaxEvents} \subseteq Nat
    /\ IndexPrices \subseteq Nat \ {0} /\ Payments \subseteq Nat \ {0}
    /\ SizeDeltas \subseteq Int /\ MarginDeltas \subseteq Int
    /\ Fees \subseteq [treasury : 0..BPS, maker : 0..BPS, cap : Nat]

ASSUME FiniteAssumption == IsFiniteSet(Agents) /\ IsFiniteSet(Traders)

VARIABLES
    now,
    skills,     \* SkillOracle: the index price of each agent and when it was reported, 0 for never
    config,     \* marketConfigs: of the markets that exist, what they were created with
    markets, positions,
    balance,    \* marginToken.balanceOf(engine)
    tradingPaused, marketCreationPaused,
    trades, acts

vars == <<now, skills, config, markets, positions, balance, tradingPaused, marketCreationPaused, trades, acts>>

Statuses == {"UNINITIALIZED", "ACTIVE", "CLOSE_ONLY", "ARCHIVED"}
NoConfig == [treasury |-> 0, maker |-> 0, cap |-> 0, exists |-> FALSE]
NoMarket == [status |-> "UNINITIALIZED", long |-> 0, short |-> 0, rate |-> 0, funded |-> 0,
             price |-> 0, settlement |-> 0, vault |-> 0, insurance |-> 0, badDebt |-> 0,
             treasuryFees |-> 0, makerFees |-> 0, open |-> 0]
NoPosition == [size |-> 0, margin |-> 0, entry |-> 0, rate |-> 0]

Market == [status : Statuses, long : Nat, short : Nat, rate : Int, funded : Nat,
           price : Nat, settlement : Nat, vault : Nat, insurance : Nat, badDebt : Nat,
           treasuryFees : Nat, makerFees : Nat, open : Nat]
Position == [size : Int, margin : Nat, entry : Nat, rate : Int]
TypeOK ==
    /\ now \in 0..MaxTime /\ trades \in 0..MaxTrades /\ acts \in 0..MaxActs /\ balance \in Nat
    /\ skills \in [Agents -> [price : IndexPrices \cup {0}, at : 0..MaxTime]]
    /\ config \in [Agents -> [treasury : 0..BPS, maker : 0..BPS, cap : Nat, exists : BOOLEAN]]
    /\ markets \in [Agents -> Market] /\ positions \in [Agents -> [Traders -> Position]]
    /\ tradingPaused \in BOOLEAN /\ marketCreationPaused \in BOOLEAN

Init ==
    /\ now = 1 /\ trades = 0 /\ acts = 0 /\ balance = 0
    /\ skills = [a \in Agents |-> [price |-> 0, at |-> 0]]
    /\ config = [a \in Agents |-> NoConfig]
    /\ markets = [a \in Agents |-> NoMarket]
    /\ positions = [a \in Agents |-> [t \in Traders |-> NoPosition]]
    /\ tradingPaused = FALSE /\ marketCreationPaused = FALSE

Room(cost) == 2 * trades + acts + now + cost <= MaxEvents
Act == acts < MaxActs /\ Room(1) /\ acts' = acts + 1

(***************************************************************************)
(* Arithmetic.                                                             *)
(***************************************************************************)
Abs(n) == IF n >= 0 THEN n ELSE -n
Least(a, b) == IF a < b THEN a ELSE b
Quotient(n, d) == IF n >= 0 THEN n \div d ELSE -((-n) \div d)

\* The skew the trade itself leaves counts half; a mark price is that of no trade.
ExecutionPrice(m, delta) ==
    LET index == IF m.settlement # 0 THEN m.settlement ELSE m.price
        premium == Quotient((m.long - m.short + Quotient(delta, 2)) * ONE, SkewScale)
    IN  IF premium >= 0 THEN index + (index * premium) \div ONE
        ELSE IF -premium >= ONE THEN index \div 10
        ELSE index - (index * (-premium)) \div ONE

MarkPrice(m) == ExecutionPrice(m, 0)

RealizePnl(size, entry, price, closed) ==
    IF entry = 0 THEN 0
    ELSE Quotient((IF size > 0 THEN price - entry ELSE entry - price) * closed, ONE)

Notional(size, price) == (Abs(size) * price) \div ONE

\* What the position would be worth at the mark price, and what it must be worth to be safe.
Equity(m, p) == p.margin + RealizePnl(p.size, p.entry, MarkPrice(m), Abs(p.size))
MaintenanceMargin(m, p) == (Notional(p.size, MarkPrice(m)) * MaintenanceMarginBps) \div BPS

(***************************************************************************)
(* The pool.  An account is a market with one of its positions and whether *)
(* what was asked of them so far went through.                             *)
(***************************************************************************)
Require(acc, condition) == [acc EXCEPT !.ok = @ /\ condition]

\* mutant: what the vault is short of is credited all the same
CreditMarginFromPool_Unbacked(acc, profit) ==
    LET fromVault == Least(profit, acc.m.vault)
    IN  [acc EXCEPT !.m.vault = @ - fromVault, !.p.margin = @ + profit]

\* Profits come out of the vault; out of the insurance fund too once the market only closes.
CreditMarginFromPool(acc, profit) ==
    LET fromVault == Least(profit, acc.m.vault)
        rest == profit - fromVault
    IN  Require([acc EXCEPT !.m.vault = @ - fromVault, !.m.insurance = @ - rest, !.p.margin = @ + profit],
                rest > 0 => acc.m.status = "CLOSE_ONLY" /\ rest <= acc.m.insurance)

\* Losses come out of the margin, then out of the insurance fund; what neither covers is bad debt.
CollectTraderLoss(acc, amount, allowBadDebt) ==
    LET fromMargin == Least(amount, acc.p.margin)
        deficit == amount - fromMargin
        fromInsurance == Least(deficit, acc.m.insurance)
    IN  Require([acc EXCEPT !.p.margin = @ - fromMargin,
                            !.m.insurance = @ - fromInsurance,
                            !.m.vault = @ + fromMargin + fromInsurance,
                            !.m.badDebt = @ + (deficit - fromInsurance)],
                deficit > 0 => allowBadDebt)

Settle(acc, pnl, allowBadDebt) ==
    IF pnl >= 0 THEN CreditMarginFromPool(acc, pnl) ELSE CollectTraderLoss(acc, -pnl, allowBadDebt)

SettleFunding(acc, allowBadDebt) ==
    LET owed == Quotient(acc.p.size * (acc.m.rate - acc.p.rate), ONE)
    IN  [Settle(acc, -owed, allowBadDebt) EXCEPT !.p.rate = acc.m.rate]

AddOpenInterest(m, size) ==
    IF size > 0 THEN [m EXCEPT !.long = @ + size] ELSE [m EXCEPT !.short = @ - size]
RemoveOpenInterest(m, size) ==
    IF size > 0 THEN [m EXCEPT !.long = @ - size] ELSE [m EXCEPT !.short = @ + size]

(***************************************************************************)
(* The oracle.                                                             *)
(***************************************************************************)
\* A market whose price is frozen asks the oracle nothing.  Liquidations do without the engine's
\* limit on the age of the price, not without the oracle's own.
CanSync(a, liquidating) ==
    markets[a].settlement = 0 =>
        /\ skills[a].at # 0
        /\ liquidating \/ now - skills[a].at <= MaxOracleDelay
        /\ IndexDelay > 0 => now - skills[a].at <= IndexDelay

AccrueFunding(m) ==
    IF m.status # "ACTIVE" \/ now <= m.funded THEN m
    ELSE [m EXCEPT !.funded = now,
                   !.rate = IF m.funded = 0 THEN @
                            ELSE @ + Quotient((m.long - m.short) * FundingVelocity * (now - m.funded), SkewScale)]

Synced(a) ==
    IF markets[a].settlement # 0 THEN markets[a]
    ELSE [AccrueFunding(markets[a]) EXCEPT !.price = skills[a].price]

\* updateAgentSkill and removeAgent.  The price stands for what the skills make of it; the mean of
\* all agents enters, so the news of another agent moves it and leaves its age.
UpdateAgentSkill(a) ==
    /\ \E price \in IndexPrices, at \in {now, skills[a].at} \ {0} :
        skills' = [skills EXCEPT ![a] = [price |-> price, at |-> at]]
    /\ UNCHANGED <<now, config, markets, positions, balance, tradingPaused, marketCreationPaused, trades, acts>>

RemoveAgent(a) ==
    /\ Act /\ skills[a].at # 0
    /\ skills' = [skills EXCEPT ![a] = [price |-> 0, at |-> 0]]
    /\ UNCHANGED <<now, config, markets, positions, balance, tradingPaused, marketCreationPaused, trades>>

Tick ==
    /\ now < MaxTime /\ Room(1) /\ now' = now + 1
    /\ UNCHANGED <<skills, config, markets, positions, balance, tradingPaused, marketCreationPaused, trades, acts>>

(***************************************************************************)
(* The market operator, the admin and the pauser.                          *)
(***************************************************************************)
ungoverned == <<now, skills, positions, tradingPaused, marketCreationPaused, trades>>

CreateMarket(a) ==
    /\ ~marketCreationPaused /\ ~config[a].exists /\ CanSync(a, FALSE)
    /\ \E fees \in Fees :
        config' = [config EXCEPT ![a] =
            [treasury |-> fees.treasury, maker |-> fees.maker, cap |-> fees.cap, exists |-> TRUE]]
    /\ markets' = [markets EXCEPT ![a] = [NoMarket EXCEPT !.status = "ACTIVE", !.funded = now, !.price = skills[a].price]]
    /\ UNCHANGED <<ungoverned, acts, balance>>

SetMarketStatus(a) ==
    /\ Act /\ config[a].exists
    /\ \E status \in Statuses \ {"UNINITIALIZED", markets[a].status} :
        /\ status = "ARCHIVED" => markets[a].open = 0
        /\ markets' = [markets EXCEPT ![a].status = status,
                                      ![a].settlement = IF status = "CLOSE_ONLY" /\ @ = 0 THEN markets[a].price ELSE @]
    /\ UNCHANGED <<ungoverned, config, balance>>

SyncOracle(a) ==
    /\ config[a].exists /\ CanSync(a, FALSE)
    /\ markets' = [markets EXCEPT ![a] = Synced(a)]
    /\ UNCHANGED <<ungoverned, acts, config, balance>>

\* Bad debt is repaid first.
DepositInsuranceFund(a) ==
    /\ Act /\ config[a].exists
    /\ \E amount \in Payments :
        LET repaid == Least(amount, markets[a].badDebt)
        IN  /\ markets' = [markets EXCEPT ![a].badDebt = @ - repaid, ![a].vault = @ + repaid,
                                          ![a].insurance = @ + (amount - repaid)]
            /\ balance' = balance + amount
    /\ UNCHANGED <<ungoverned, config>>

WithdrawInsuranceFund(a) ==
    /\ Act /\ config[a].exists
    /\ \E amount \in Payments :
        /\ markets[a].insurance >= amount
        /\ markets' = [markets EXCEPT ![a].insurance = @ - amount]
        /\ balance' = balance - amount
    /\ UNCHANGED <<ungoverned, config>>

WithdrawFeeBalance(a) ==
    /\ Act /\ config[a].exists
    /\ \E bucket \in {"treasuryFees", "makerFees"} :
        /\ balance' = balance - markets[a][bucket]
        /\ markets' = [markets EXCEPT ![a][bucket] = 0]
    /\ UNCHANGED <<ungoverned, config>>

RecycleMmFees(a) ==
    /\ Act /\ config[a].exists
    /\ markets' = [markets EXCEPT ![a].insurance = @ + markets[a].makerFees, ![a].makerFees = 0]
    /\ UNCHANGED <<ungoverned, config, balance>>

SetPaused ==
    /\ Act
    /\ \/ tradingPaused' = ~tradingPaused /\ UNCHANGED marketCreationPaused
       \/ marketCreationPaused' = ~marketCreationPaused /\ UNCHANGED tradingPaused
    /\ UNCHANGED <<now, skills, config, markets, positions, balance, trades>>

(***************************************************************************)
(* Traders and liquidators.                                                *)
(***************************************************************************)
\* A market that only closes lets positions shrink and neither grow nor turn.
StatusAllowsTrade(status, size, delta) ==
    \/ delta = 0
    \/ status = "ACTIVE"
    \/ status = "CLOSE_ONLY" /\ size * delta < 0 /\ Abs(delta) <= Abs(size)

SameSide(a, b) == a * b > 0

\* What a trade makes of the position: what it closes is settled at the price of the trade, what
\* it opens enters at it.
ApplySizeDelta(acc, delta, price) ==
    LET p == acc.p
        size == p.size + delta
    IN  IF delta = 0 THEN acc
        ELSE IF p.size = 0 \/ SameSide(p.size, delta)
        THEN [acc EXCEPT !.p.size = size,
                         !.p.entry = (@ * Abs(p.size) + price * Abs(delta)) \div Abs(size)]
        ELSE [Settle(acc, RealizePnl(p.size, p.entry, price, Least(Abs(p.size), Abs(delta))), FALSE)
                EXCEPT !.p.size = size,
                       !.p.entry = IF size = 0 THEN 0 ELSE IF SameSide(p.size, size) THEN p.entry ELSE price]

ApplyMarginDelta(acc, delta) == Require([acc EXCEPT !.p.margin = @ + delta], acc.p.margin + delta >= 0)

ChargeFees(acc, fees, delta, price) ==
    LET notional == Notional(delta, price)
        treasury == (notional * fees.treasury) \div BPS
        maker == (notional * fees.maker) \div BPS
    IN  Require([acc EXCEPT !.p.margin = @ - (treasury + maker),
                            !.m.treasuryFees = @ + treasury, !.m.makerFees = @ + maker],
                acc.p.margin >= treasury + maker)

\* mutant: only the margin counts, not what the position has lost
Healthy_ByMargin(m, p) == p.margin > 0 /\ (Notional(p.size, MarkPrice(m)) * ONE) \div p.margin <= MaxLeverage

Healthy(m, p) ==
    /\ p.margin > 0 /\ Equity(m, p) > 0
    /\ (Notional(p.size, MarkPrice(m)) * ONE) \div Equity(m, p) <= MaxLeverage

\* modifyPosition: the price is that of the book before the trade, the health that after it.
ModifyPosition(a, t, marginDelta, sizeDelta) ==
    LET was == positions[a][t]
        funded == SettleFunding([m |-> Synced(a), p |-> was, ok |-> TRUE], FALSE)
        price == ExecutionPrice(funded.m, sizeDelta)
        traded == ApplySizeDelta([funded EXCEPT !.m = RemoveOpenInterest(@, was.size)], sizeDelta, price)
        charged == ChargeFees(ApplyMarginDelta(traded, marginDelta), config[a], sizeDelta, price)
        size == charged.p.size
        opened == (IF size # 0 THEN 1 ELSE 0) - (IF was.size # 0 THEN 1 ELSE 0)
        after == [AddOpenInterest(charged.m, size) EXCEPT !.open = @ + opened]
        closes == size = 0
    IN  /\ trades < MaxTrades /\ Room(2) /\ trades' = trades + 1
        /\ ~tradingPaused /\ config[a].exists /\ CanSync(a, FALSE)
        /\ StatusAllowsTrade(after.status, was.size, sizeDelta)
        /\ charged.ok
        /\ config[a].cap > 0 /\ sizeDelta # 0 => after.long <= config[a].cap /\ after.short <= config[a].cap
        /\ closes \/ Healthy(after, charged.p)
        /\ markets' = [markets EXCEPT ![a] = after]
        /\ positions' = [positions EXCEPT ![a][t] =
             IF closes THEN [NoPosition EXCEPT !.rate = after.rate] ELSE charged.p]
        /\ balance' = balance + marginDelta - (IF closes THEN charged.p.margin ELSE 0)
        /\ UNCHANGED <<now, skills, config, tradingPaused, marketCreationPaused, acts>>

WithdrawMargin(a, t, amount) ==
    LET funded == SettleFunding([m |-> Synced(a), p |-> positions[a][t], ok |-> TRUE], FALSE)
        acc == ApplyMarginDelta(funded, -amount)
    IN  /\ trades < MaxTrades /\ Room(2) /\ trades' = trades + 1
        /\ ~tradingPaused /\ config[a].exists /\ CanSync(a, FALSE)
        /\ acc.ok /\ (acc.p.size # 0 => Healthy(acc.m, acc.p))
        /\ markets' = [markets EXCEPT ![a] = acc.m]
        /\ positions' = [positions EXCEPT ![a][t] = acc.p]
        /\ balance' = balance - amount
        /\ UNCHANGED <<now, skills, config, tradingPaused, marketCreationPaused, acts>>

PartialTargetBps == BPS \div 5
MaxInsuranceDrawDivisor == 4
MaxSocializedLossBps == BPS \div 200

\* How much of a position is liquidated: what brings it back to twice the maintenance margin, a
\* tenth at least, or all of it when that does not help.
LiquidatedSize(m, p) ==
    LET size == Abs(p.size)
        target == (((Equity(m, p) * BPS) \div PartialTargetBps) * ONE) \div MarkPrice(m)
        part == IF size - target < size \div 10 THEN size \div 10 ELSE size - target
    IN  IF Equity(m, p) > 0 /\ size > ONE /\ target > 0 /\ target < size THEN part ELSE size

\* A mark price of zero, which the size is divided by, makes the call revert.
CanSize(m, p) == Equity(m, p) > 0 /\ Abs(p.size) > ONE => MarkPrice(m) > 0

Liquidatable(m, p) == p.size # 0 /\ Equity(m, p) <= MaintenanceMargin(m, p)

\* The entry price that the rest of a position is left with.
RemainingEntry(p, price, closed) ==
    LET before == Notional(p.size, p.entry)
    IN  ((before - Least(Notional(closed, price), before)) * ONE) \div (Abs(p.size) - closed)

\* The liquidator's share of the margin the position had, out of what is left of it and a quarter
\* of the insurance fund at most.
Reward(acc, startingMargin, closed, size) ==
    Least((((startingMargin * LiquidationRewardBps) \div BPS) * closed) \div size,
          acc.p.margin + acc.m.insurance \div MaxInsuranceDrawDivisor)

Liquidate(a, t) ==
    LET was == positions[a][t]
        funded == SettleFunding([m |-> Synced(a), p |-> was, ok |-> TRUE], TRUE)
        closed == LiquidatedSize(funded.m, funded.p)
        delta == IF was.size > 0 THEN -closed ELSE closed
        price == ExecutionPrice(funded.m, delta)
        settled == Settle(funded, RealizePnl(was.size, was.entry, price, closed), TRUE)
        reward == Reward(settled, funded.p.margin, closed, Abs(was.size))
        fromMargin == Least(reward, settled.p.margin)
        seized == settled.p.margin - fromMargin
        toInsurance == Least(seized, (funded.p.margin * MaxSocializedLossBps) \div BPS)
        rewarded == [RemoveOpenInterest(settled.m, was.size) EXCEPT !.insurance = @ - (reward - fromMargin)]
        size == was.size + delta
    IN  /\ config[a].exists /\ was.size # 0 /\ CanSync(a, TRUE)
        /\ funded.ok /\ Liquidatable(funded.m, funded.p) /\ CanSize(funded.m, funded.p) /\ settled.ok
        /\ IF size # 0
           THEN /\ markets' = [markets EXCEPT ![a] = AddOpenInterest(rewarded, size)]
                /\ positions' = [positions EXCEPT ![a][t] =
                     [funded.p EXCEPT !.size = size, !.margin = seized, !.entry = RemainingEntry(was, price, closed)]]
           ELSE /\ markets' = [markets EXCEPT ![a] =
                     [rewarded EXCEPT !.open = @ - 1, !.insurance = @ + toInsurance,
                                      !.vault = @ + (seized - toInsurance)]]
                /\ positions' = [positions EXCEPT ![a][t] = [NoPosition EXCEPT !.rate = funded.m.rate]]
        /\ balance' = balance - reward
        /\ UNCHANGED <<now, skills, config, tradingPaused, marketCreationPaused, trades, acts>>

Owner(a, t) ==
    \/ \E marginDelta \in MarginDeltas, sizeDelta \in SizeDeltas : ModifyPosition(a, t, marginDelta, sizeDelta)
    \/ \E amount \in Payments : WithdrawMargin(a, t, amount)

Next ==
    \/ Tick \/ SetPaused
    \/ \E a \in Agents :
         \/ UpdateAgentSkill(a) \/ RemoveAgent(a)
         \/ CreateMarket(a) \/ SetMarketStatus(a) \/ SyncOracle(a)
         \/ DepositInsuranceFund(a) \/ WithdrawInsuranceFund(a) \/ WithdrawFeeBalance(a) \/ RecycleMmFees(a)
         \/ \E t \in Traders : Owner(a, t) \/ Liquidate(a, t)

Spec == Init /\ [][Next]_vars

(***************************************************************************)
(* Properties.                                                             *)
(***************************************************************************)
\* A market and the positions of its traders: the tokens they hold, and whether what the market
\* counts of the positions is what the positions say.
Margins(ps) == SumFunction([t \in Traders |-> ps[t].margin])
Held(m, ps) == Margins(ps) + m.vault + m.insurance + m.treasuryFees + m.makerFees

Long(p) == IF p.size > 0 THEN p.size ELSE 0
Short(p) == IF p.size < 0 THEN -p.size ELSE 0
Open(ps) == {t \in Traders : ps[t].size # 0}
CountsAgree(m, ps) ==
    /\ m.long = SumFunction([t \in Traders |-> Long(ps[t])])
    /\ m.short = SumFunction([t \in Traders |-> Short(ps[t])])
    /\ m.open = Cardinality(Open(ps))
    /\ \A t \in Traders \ Open(ps) : ps[t].margin = 0

\* AgentPerpEngine.sol:960-1002 and 557-668: whatever is traded, liquidated, deposited and withdrawn,
\* the tokens the engine holds are what its counters say they are, to the unit, and what the
\* counters say of the open positions is what the positions say.
BalanceSheet ==
    /\ balance = SumFunction([a \in Agents |-> Held(markets[a], positions[a])])
    /\ \A a \in Agents : CountsAgree(markets[a], positions[a])

\* AgentPerpEngine.sol:1006: no owner (whose calls alone count as trades) leaves a position that can
\* be liquidated at once, whatever the trade did to the mark price, the fees to the margin and earlier prices to its equity.
SafeAfterOwner ==
    [][\A a \in Agents, t \in Traders :
         positions[a][t]' # positions[a][t] /\ trades' # trades => ~Liquidatable(markets[a], positions[a][t])']_vars
=============================================================================
