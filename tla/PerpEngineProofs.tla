-------------------------- MODULE PerpEngineProofs --------------------------
(***************************************************************************)
(* What is proved of PerpEngine for any agents, traders, prices, fees and  *)
(* amounts: the engine's tokens are what its counters say, and no owner    *)
(* leaves a position that can be liquidated at once.                       *)
(*                                                                         *)
(* A call takes an account, a market with one of its positions, through a  *)
(* chain of operators.  Each of them carries what the account holds along  *)
(* to the unit if the call goes through (Carries), so the call moves the   *)
(* balance by what enters and leaves it; that one account changes in the   *)
(* sums of all of them is then a matter of SumTheorems.                    *)
(***************************************************************************)
EXTENDS PerpEngine, SumTheorems

(***************************************************************************)
(* Arithmetic.                                                             *)
(***************************************************************************)
\* Division rounds down.
LEMMA Division ==
    ASSUME NEW n \in Nat, NEW d \in Nat, d # 0
    PROVE  /\ n \div d \in Nat
           /\ d * (n \div d) <= n /\ n < d * (n \div d) + d
BY SMT

\* A product of natural numbers is one, and is at least either unless the other is zero.
LEMMA Product ==
    ASSUME NEW a \in Nat, NEW b \in Nat
    PROVE  a * b \in Nat
BY SMT

\* A factor that grows makes a product grow.
LEMMA ProductGrows ==
    ASSUME NEW a \in Nat, NEW b \in Int, NEW c \in Int, b <= c
    PROVE  a * b <= a * c
<1>1. c - b \in Nat
  OBVIOUS
<1>2. a * (c - b) \in Nat
  BY <1>1, Product
<1>3. a * (c - b) = a * c - a * b
  OBVIOUS
<1>4. a * b \in Int /\ a * c \in Int
  OBVIOUS
<1> QED BY <1>2, <1>3, <1>4

\* What is divided and multiplied again is not larger: a share of n, k parts in d, is at most n.
LEMMA Share ==
    ASSUME NEW n \in Nat, NEW k \in Nat, NEW d \in Nat, d # 0, k <= d
    PROVE  (n * k) \div d \in 0..n
<1>1. n * k \in Nat /\ n * d \in Nat /\ n * k <= n * d
  BY Product, ProductGrows
<1>2. PICK q \in Nat : q = (n * k) \div d
  BY <1>1, Division
<1>3. d * q <= n * k
  BY <1>1, <1>2, Division
<1>4. q <= n
  <2> SUFFICES ASSUME q >= n + 1 PROVE FALSE
    OBVIOUS
  <2>1. d * (n + 1) <= d * q
    BY ProductGrows
  <2>2. d * (n + 1) = n * d + d
    OBVIOUS
  <2>3. d * q \in Int /\ d * (n + 1) \in Int
    OBVIOUS
  <2> QED BY <1>1, <1>3, <2>1, <2>2, <2>3
<1> QED BY <1>2, <1>4

\* A signed quotient is an integer, and that of a natural number is one.
LEMMA QuotientType ==
    ASSUME NEW n \in Int, NEW d \in Nat, d # 0
    PROVE  Quotient(n, d) \in Int
<1>1. CASE n >= 0
  BY <1>1, Division DEF Quotient
<1>2. CASE n < 0
  <2>1. -n \in Nat
    BY <1>2
  <2>2. (-n) \div d \in Nat
    BY <2>1, Division
  <2> QED BY <1>2, <2>2 DEF Quotient
<1> QED BY <1>1, <1>2

\* The engine's constants, one by one.
LEMMA Constants ==
    /\ ONE \in Nat /\ ONE # 0 /\ BPS \in Nat /\ BPS # 0 /\ SkewScale \in Nat /\ SkewScale # 0
    /\ MaxLeverage \in Nat /\ MaintenanceMarginBps \in Nat /\ MaintenanceMarginBps # 0 /\ LiquidationRewardBps \in Nat
    /\ PartialTargetBps \in Nat /\ PartialTargetBps # 0 /\ MaxSocializedLossBps \in Nat /\ MaxSocializedLossBps <= BPS
    /\ FundingVelocity \in Nat /\ IsFiniteSet(Agents) /\ IsFiniteSet(Traders)
<1>1. BPS \div 5 \in Nat /\ BPS \div 5 # 0 /\ BPS \div 200 \in Nat /\ BPS \div 200 <= BPS
  BY PerpAssumption
<1>2. {MaintenanceMarginBps, LiquidationRewardBps} \subseteq Nat \ {0}
  BY PerpAssumption
<1>3. BPS # 0
  BY PerpAssumption
<1> QED BY <1>1, <1>2, <1>3, PerpAssumption, FiniteAssumption DEF PartialTargetBps, MaxSocializedLossBps

\* Prices are not negative, whatever the skew makes of the index.
LEMMA PriceType ==
    ASSUME NEW m \in Market, NEW delta \in Int
    PROVE  ExecutionPrice(m, delta) \in Nat /\ MarkPrice(m) \in Nat
<1> DEFINE Premium(d) == Quotient((m.long - m.short + Quotient(d, 2)) * ONE, SkewScale)
           index == IF m.settlement # 0 THEN m.settlement ELSE m.price
<1>1. index \in Nat
  BY DEF Market
<1>2. ASSUME NEW d \in Int PROVE ExecutionPrice(m, d) \in Nat
  <2>1. Quotient(d, 2) \in Int
    BY QuotientType
  <2>2. (m.long - m.short + Quotient(d, 2)) * ONE \in Int
    BY <2>1, Constants DEF Market
  <2>3. Premium(d) \in Int
    BY <2>2, Constants, QuotientType
  <2>4. ExecutionPrice(m, d) =
          IF Premium(d) >= 0 THEN index + (index * Premium(d)) \div ONE
          ELSE IF -Premium(d) >= ONE THEN index \div 10
          ELSE index - (index * (-Premium(d))) \div ONE
    BY DEF ExecutionPrice
  <2> HIDE DEF Premium, index
  <2>5. CASE Premium(d) >= 0
    <3>1. index * Premium(d) \in Nat
      BY <1>1, <2>3, <2>5, Product
    <3>2. (index * Premium(d)) \div ONE \in Nat
      BY <3>1, Constants, Division
    <3> QED BY <1>1, <2>4, <2>5, <3>2
  <2>6. CASE Premium(d) < 0 /\ -Premium(d) >= ONE
    <3>1. index \div 10 \in Nat
      BY <1>1
    <3> QED BY <2>3, <2>4, <2>6, <3>1
  <2>7. CASE Premium(d) < 0 /\ -Premium(d) < ONE
    <3>1. (index * (-Premium(d))) \div ONE \in 0..index
      <4>1. -Premium(d) \in Nat /\ -Premium(d) <= ONE
        BY <2>3, <2>7, Constants
      <4> QED BY <1>1, <4>1, Constants, Share
    <3>2. ~(Premium(d) >= 0) /\ ~(-Premium(d) >= ONE)
      BY <2>3, <2>7, Constants
    <3> QED BY <1>1, <2>4, <3>1, <3>2
  <2> QED BY <2>3, <2>5, <2>6, <2>7, Constants
<1> QED BY <1>2 DEF MarkPrice

\* Profits and losses are integers.
LEMMA PnlType ==
    ASSUME NEW size \in Int, NEW entry \in Nat, NEW price \in Nat, NEW closed \in Nat
    PROVE  RealizePnl(size, entry, price, closed) \in Int
<1> DEFINE gain == IF size > 0 THEN price - entry ELSE entry - price
<1>1. gain \in Int
  OBVIOUS
<1>2. gain * closed \in Int
  BY <1>1
<1>3. Quotient(gain * closed, ONE) \in Int
  BY <1>2, Constants, QuotientType
<1> QED BY <1>3 DEF RealizePnl

\* Sizes and notionals are natural numbers.
LEMMA NotionalType ==
    ASSUME NEW size \in Int, NEW price \in Nat
    PROVE  Abs(size) \in Nat /\ Notional(size, price) \in Nat
<1>1. Abs(size) \in Nat
  BY DEF Abs
<1>2. Abs(size) * price \in Nat
  BY <1>1, Product
<1> QED BY <1>1, <1>2, Constants, Division DEF Notional

\* What a position is worth is an integer, what it must be worth a natural number.
LEMMA WorthType ==
    ASSUME NEW m \in Market, NEW p \in Position
    PROVE  /\ Equity(m, p) \in Int
           /\ Notional(p.size, MarkPrice(m)) \in Nat
           /\ MaintenanceMargin(m, p) \in Nat
<1>1. p.size \in Int /\ p.margin \in Nat /\ p.entry \in Nat
  BY DEF Position
<1>2. MarkPrice(m) \in Nat
  BY PriceType
<1>3. Abs(p.size) \in Nat /\ Notional(p.size, MarkPrice(m)) \in Nat
  BY <1>1, <1>2, NotionalType
<1>4. RealizePnl(p.size, p.entry, MarkPrice(m), Abs(p.size)) \in Int
  BY <1>1, <1>2, <1>3, PnlType
<1>5. Notional(p.size, MarkPrice(m)) * MaintenanceMarginBps \in Nat
  BY <1>3, Constants, Product
<1>6. MaintenanceMargin(m, p) \in Nat
  BY <1>5, Constants, Division DEF MaintenanceMargin
<1> QED BY <1>1, <1>3, <1>4, <1>6 DEF Equity

(***************************************************************************)
(* Accounts.                                                               *)
(***************************************************************************)
Pool(m) == m.vault + m.insurance + m.treasuryFees + m.makerFees

\* Two markets that count the same, quote the same and are as open.
SameBook(m, n) ==
    /\ n.long = m.long /\ n.short = m.short /\ n.open = m.open
    /\ n.status = m.status /\ n.rate = m.rate /\ n.price = m.price /\ n.settlement = m.settlement

\* A market, a position and whether the call goes through, which no fact here depends on.
IsAccount(acc) ==
    /\ acc.m \in Market /\ acc.p \in Position
    /\ DOMAIN acc = {"m", "p", "ok"} /\ acc = [f \in DOMAIN acc |-> acc[f]]

\* What an operator that went through has done: nothing has come or gone.
Carries(acc, new) ==
    /\ acc.ok /\ IsAccount(new)
    /\ new.p.margin + Pool(new.m) = acc.p.margin + Pool(acc.m)
    /\ SameBook(acc.m, new.m)

\* The parts of an account have their types.
LEMMA AccountParts ==
    ASSUME NEW acc, IsAccount(acc)
    PROVE  /\ acc.m \in Market /\ acc.p \in Position
           /\ {acc.m.long, acc.m.short, acc.m.funded, acc.m.price, acc.m.settlement, acc.m.vault, acc.m.insurance,
               acc.m.badDebt, acc.m.treasuryFees, acc.m.makerFees, acc.m.open} \subseteq Nat
           /\ acc.m.status \in Statuses /\ acc.m.rate \in Int
           /\ {acc.p.size, acc.p.rate} \subseteq Int /\ {acc.p.margin, acc.p.entry} \subseteq Nat
           /\ Pool(acc.m) \in Nat
BY DEF IsAccount, Market, Position, Pool

\* An account with another market, and one with another position.
LEMMA OtherMarket ==
    ASSUME NEW acc, IsAccount(acc), NEW m \in Market
    PROVE  /\ [acc EXCEPT !.m = m].m = m /\ [acc EXCEPT !.m = m].p = acc.p
           /\ [acc EXCEPT !.m = m].ok = acc.ok /\ IsAccount([acc EXCEPT !.m = m])
BY DEF IsAccount

\* See OtherMarket.
LEMMA OtherPosition ==
    ASSUME NEW acc, IsAccount(acc), NEW p \in Position
    PROVE  /\ [acc EXCEPT !.p = p].m = acc.m /\ [acc EXCEPT !.p = p].p = p
           /\ [acc EXCEPT !.p = p].ok = acc.ok /\ IsAccount([acc EXCEPT !.p = p])
BY DEF IsAccount

\* A requirement changes nothing but whether the call goes through.
LEMMA Requirement ==
    ASSUME NEW acc, DOMAIN acc = {"m", "p", "ok"}, NEW c
    PROVE  /\ Require(acc, c).m = acc.m /\ Require(acc, c).p = acc.p
           /\ DOMAIN Require(acc, c) = {"m", "p", "ok"}
           /\ Require(acc, c) = [f \in DOMAIN Require(acc, c) |-> Require(acc, c)[f]]
           /\ Require(acc, c).ok => acc.ok /\ c
<1>1. Require(acc, c).m = acc.m /\ Require(acc, c).p = acc.p
  BY DEF Require
<1>2. DOMAIN Require(acc, c) = {"m", "p", "ok"}
  BY DEF Require
<1>3. Require(acc, c) = [f \in DOMAIN Require(acc, c) |-> Require(acc, c)[f]]
  BY DEF Require
<1>4. Require(acc, c).ok => acc.ok /\ c
  BY Zenon DEF Require
<1> QED BY <1>1, <1>2, <1>3, <1>4

\* The lesser of two amounts.
LEMMA LeastOf ==
    ASSUME NEW a \in Nat, NEW b \in Nat
    PROVE  Least(a, b) \in Nat /\ Least(a, b) <= a /\ Least(a, b) <= b
BY DEF Least

\* A profit leaves the pool as it enters the margin.
LEMMA CreditCarries ==
    ASSUME NEW acc, IsAccount(acc), NEW profit \in Nat, CreditMarginFromPool(acc, profit).ok
    PROVE  /\ Carries(acc, CreditMarginFromPool(acc, profit))
           /\ CreditMarginFromPool(acc, profit).p = [acc.p EXCEPT !.margin = @ + profit]
<1> DEFINE v == Least(profit, acc.m.vault)
           rest == profit - v
           m == [acc.m EXCEPT !.vault = @ - v, !.insurance = @ - rest]
           p == [acc.p EXCEPT !.margin = @ + profit]
           base == [acc EXCEPT !.m.vault = @ - v, !.m.insurance = @ - rest, !.p.margin = @ + profit]
           c == rest > 0 => acc.m.status = "CLOSE_ONLY" /\ rest <= acc.m.insurance
           new == CreditMarginFromPool(acc, profit)
<1>1. v \in Nat /\ v <= profit /\ v <= acc.m.vault
  BY AccountParts, LeastOf
<1>2. base.m = m /\ base.p = p /\ DOMAIN base = {"m", "p", "ok"} /\ (base.ok => acc.ok)
  BY DEF IsAccount
<1>3. new = Require(base, c)
  BY DEF CreditMarginFromPool
<1> HIDE DEF base, c, m, p, new
<1>4. new.m = m /\ new.p = p /\ base.ok /\ c /\ DOMAIN new = {"m", "p", "ok"} /\ new = [f \in DOMAIN new |-> new[f]]
  BY <1>2, <1>3, Requirement DEF new
<1>5. rest \in Nat /\ rest <= acc.m.insurance
  BY <1>1, <1>4, AccountParts DEF c
<1>6. v + rest = profit
  BY <1>1
<1> HIDE DEF v, rest
<1>7. m \in Market /\ Pool(m) + profit = Pool(acc.m) /\ SameBook(acc.m, m)
  <2>1. acc.m \in Market
    BY AccountParts
  <2>2. acc.m.vault - v \in Nat /\ acc.m.insurance - rest \in Nat
    BY <1>1, <1>5, AccountParts
  <2>3. m \in Market
    BY <2>1, <2>2 DEF Market, m
  <2>4. m.vault = acc.m.vault - v /\ m.insurance = acc.m.insurance - rest
        /\ m.treasuryFees = acc.m.treasuryFees /\ m.makerFees = acc.m.makerFees /\ SameBook(acc.m, m)
    BY <2>1 DEF Market, SameBook, m
  <2> QED BY <1>1, <1>5, <1>6, <2>3, <2>4, AccountParts DEF Pool
<1>8. p \in Position /\ p.margin = acc.p.margin + profit
  BY AccountParts DEF Position, p
<1>9. Carries(acc, new)
  BY <1>2, <1>4, <1>7, <1>8, AccountParts DEF Carries, IsAccount
<1> QED BY <1>4, <1>9 DEF p, new

\* A loss that margin and insurance cover enters the pool as it leaves them; what they do not is
\* counted as bad debt and moves nothing.
LEMMA CollectCarries ==
    ASSUME NEW acc, IsAccount(acc), NEW amount \in Nat, NEW allow, CollectTraderLoss(acc, amount, allow).ok
    PROVE  /\ Carries(acc, CollectTraderLoss(acc, amount, allow))
           /\ CollectTraderLoss(acc, amount, allow).p = [acc.p EXCEPT !.margin = @ - Least(amount, acc.p.margin)]
<1> DEFINE fromMargin == Least(amount, acc.p.margin)
           deficit == amount - fromMargin
           i == Least(deficit, acc.m.insurance)
           debt == deficit - i
           m == [acc.m EXCEPT !.insurance = @ - i, !.vault = @ + fromMargin + i, !.badDebt = @ + debt]
           p == [acc.p EXCEPT !.margin = @ - fromMargin]
           base == [acc EXCEPT !.p.margin = @ - fromMargin, !.m.insurance = @ - i,
                               !.m.vault = @ + fromMargin + i, !.m.badDebt = @ + debt]
           c == deficit > 0 => allow
           new == CollectTraderLoss(acc, amount, allow)
<1>1. fromMargin \in Nat /\ fromMargin <= amount /\ fromMargin <= acc.p.margin
  BY AccountParts, LeastOf
<1>2. deficit \in Nat
  BY <1>1
<1>3. i \in Nat /\ i <= deficit /\ i <= acc.m.insurance
  <2> HIDE DEF deficit
  <2> QED BY <1>2, AccountParts, LeastOf
<1>4. debt \in Nat
  BY <1>2, <1>3
<1>5. base.m = m /\ base.p = p /\ DOMAIN base = {"m", "p", "ok"} /\ (base.ok => acc.ok)
  BY DEF IsAccount
<1>6. new = Require(base, c)
  BY DEF CollectTraderLoss
<1> HIDE DEF base, c, m, p, new
<1>7. new.m = m /\ new.p = p /\ base.ok /\ DOMAIN new = {"m", "p", "ok"} /\ new = [f \in DOMAIN new |-> new[f]]
  BY <1>5, <1>6, Requirement DEF new
<1> HIDE DEF fromMargin, deficit, i, debt
<1>8. m \in Market /\ Pool(m) = Pool(acc.m) + fromMargin /\ SameBook(acc.m, m)
  <2>1. acc.m \in Market
    BY AccountParts
  <2>2. acc.m.vault + fromMargin + i \in Nat /\ acc.m.insurance - i \in Nat /\ acc.m.badDebt + debt \in Nat
    BY <1>1, <1>3, <1>4, AccountParts
  <2>3. m \in Market
    BY <2>1, <2>2 DEF Market, m
  <2>4. m.vault = acc.m.vault + fromMargin + i /\ m.insurance = acc.m.insurance - i
        /\ m.treasuryFees = acc.m.treasuryFees /\ m.makerFees = acc.m.makerFees /\ SameBook(acc.m, m)
    BY <2>1 DEF Market, SameBook, m
  <2> QED BY <1>1, <1>3, <2>3, <2>4, AccountParts DEF Pool
<1>9. p \in Position /\ p.margin = acc.p.margin - fromMargin
  BY <1>1, AccountParts DEF Position, p
<1>10. Carries(acc, new)
  BY <1>1, <1>5, <1>7, <1>8, <1>9, AccountParts DEF Carries, IsAccount
<1> QED BY <1>7, <1>10 DEF p, new, fromMargin

Parts == {"m", "p", "ok"}

\* A settlement that goes through starts from a call that went through so far.
LEMMA SettleAfter ==
    ASSUME NEW acc, DOMAIN acc = Parts, NEW pnl, NEW allow
    PROVE  /\ DOMAIN Settle(acc, pnl, allow) = Parts
           /\ Settle(acc, pnl, allow).ok => acc.ok
<1>1. DOMAIN CreditMarginFromPool(acc, pnl) = Parts /\ (CreditMarginFromPool(acc, pnl).ok => acc.ok)
  <2> DEFINE v == Least(pnl, acc.m.vault)
             rest == pnl - v
             base == [acc EXCEPT !.m.vault = @ - v, !.m.insurance = @ - rest, !.p.margin = @ + pnl]
  <2>1. DOMAIN base = Parts /\ (base.ok => acc.ok)
    BY DEF Parts
  <2>2. CreditMarginFromPool(acc, pnl) = Require(base, rest > 0 => acc.m.status = "CLOSE_ONLY" /\ rest <= acc.m.insurance)
    BY DEF CreditMarginFromPool
  <2> HIDE DEF base, rest
  <2> QED BY <2>1, <2>2, Requirement DEF Parts
<1>2. DOMAIN CollectTraderLoss(acc, -pnl, allow) = Parts /\ (CollectTraderLoss(acc, -pnl, allow).ok => acc.ok)
  <2> DEFINE g == Least(-pnl, acc.p.margin)
             deficit == (-pnl) - g
             i == Least(deficit, acc.m.insurance)
             base == [acc EXCEPT !.p.margin = @ - g, !.m.insurance = @ - i,
                                 !.m.vault = @ + g + i, !.m.badDebt = @ + (deficit - i)]
  <2>1. DOMAIN base = Parts /\ (base.ok => acc.ok)
    BY DEF Parts
  <2>2. CollectTraderLoss(acc, -pnl, allow) = Require(base, deficit > 0 => allow)
    BY DEF CollectTraderLoss
  <2> HIDE DEF base, deficit
  <2> QED BY <2>1, <2>2, Requirement DEF Parts
<1> QED BY <1>1, <1>2 DEF Settle

\* What settles a call and then writes in its position goes through only if the settlement does.
LEMMA WrittenAfter ==
    ASSUME NEW acc, DOMAIN acc = Parts, NEW p
    PROVE  DOMAIN [acc EXCEPT !.p = p] = Parts /\ ([acc EXCEPT !.p = p].ok => acc.ok)
BY DEF Parts

\* The same of the settlement of funding, of a trade, of a change of margin and of fees.
LEMMA FundingAfter ==
    ASSUME NEW acc, DOMAIN acc = Parts, NEW allow
    PROVE  /\ DOMAIN SettleFunding(acc, allow) = Parts
           /\ SettleFunding(acc, allow).ok => acc.ok
<1> DEFINE settled == Settle(acc, -Quotient(acc.p.size * (acc.m.rate - acc.p.rate), ONE), allow)
<1>1. SettleFunding(acc, allow) = [settled EXCEPT !.p = [settled.p EXCEPT !.rate = acc.m.rate]]
  BY DEF SettleFunding
<1>2. DOMAIN settled = Parts /\ (settled.ok => acc.ok)
  BY SettleAfter
<1> HIDE DEF settled
<1> QED BY <1>1, <1>2, WrittenAfter

\* See FundingAfter.
LEMMA TradeAfter ==
    ASSUME NEW acc, DOMAIN acc = Parts, NEW delta, NEW price
    PROVE  /\ DOMAIN ApplySizeDelta(acc, delta, price) = Parts
           /\ ApplySizeDelta(acc, delta, price).ok => acc.ok
<1> DEFINE new == ApplySizeDelta(acc, delta, price)
           settled == Settle(acc, RealizePnl(acc.p.size, acc.p.entry, price, Least(Abs(acc.p.size), Abs(delta))), FALSE)
<1>1. DOMAIN settled = Parts /\ (settled.ok => acc.ok)
  BY SettleAfter
<1>2. \/ new = acc
      \/ \E q : new = [acc EXCEPT !.p = q]
      \/ \E q : new = [settled EXCEPT !.p = q]
  <2> DEFINE size == acc.p.size + delta
             entry == (acc.p.entry * Abs(acc.p.size) + price * Abs(delta)) \div Abs(size)
             other == IF size = 0 THEN 0 ELSE IF SameSide(acc.p.size, size) THEN acc.p.entry ELSE price
  <2>1. CASE delta = 0
    BY <2>1 DEF ApplySizeDelta
  <2>2. CASE delta # 0 /\ (acc.p.size = 0 \/ SameSide(acc.p.size, delta))
    <3>1. new = [acc EXCEPT !.p = [acc.p EXCEPT !.size = size, !.entry = entry]]
      BY <2>2 DEF ApplySizeDelta
    <3> QED BY <3>1
  <2>3. CASE delta # 0 /\ ~(acc.p.size = 0 \/ SameSide(acc.p.size, delta))
    <3>1. new = [settled EXCEPT !.p = [settled.p EXCEPT !.size = size, !.entry = other]]
      BY <2>3 DEF ApplySizeDelta
    <3> QED BY <3>1
  <2> QED BY <2>1, <2>2, <2>3
<1> HIDE DEF new, settled
<1>3. DOMAIN new = Parts /\ (new.ok => acc.ok)
  BY <1>1, <1>2, WrittenAfter
<1> QED BY <1>3 DEF new

\* See FundingAfter.
LEMMA MarginAfter ==
    ASSUME NEW acc, DOMAIN acc = Parts, NEW delta
    PROVE  /\ DOMAIN ApplyMarginDelta(acc, delta) = Parts
           /\ ApplyMarginDelta(acc, delta).ok => acc.ok
<1> DEFINE base == [acc EXCEPT !.p.margin = @ + delta]
<1>1. DOMAIN base = Parts /\ (base.ok => acc.ok)
  BY DEF Parts
<1>2. ApplyMarginDelta(acc, delta) = Require(base, acc.p.margin + delta >= 0)
  BY DEF ApplyMarginDelta
<1> HIDE DEF base
<1> QED BY <1>1, <1>2, Requirement DEF Parts

\* See FundingAfter.
LEMMA FeesAfter ==
    ASSUME NEW acc, DOMAIN acc = Parts, NEW fees, NEW delta, NEW price
    PROVE  ChargeFees(acc, fees, delta, price).ok => acc.ok
<1> DEFINE notional == Notional(delta, price)
           treasury == (notional * fees.treasury) \div BPS
           maker == (notional * fees.maker) \div BPS
           base == [acc EXCEPT !.p.margin = @ - (treasury + maker),
                               !.m.treasuryFees = @ + treasury, !.m.makerFees = @ + maker]
<1>1. DOMAIN base = Parts /\ (base.ok => acc.ok)
  BY DEF Parts
<1>2. ChargeFees(acc, fees, delta, price) = Require(base, acc.p.margin >= treasury + maker)
  BY DEF ChargeFees
<1> HIDE DEF base, treasury, maker
<1> QED BY <1>1, <1>2, Requirement DEF Parts

\* Settling a profit or a loss carries the account along and leaves size and entry price alone.
LEMMA SettleCarries ==
    ASSUME NEW acc, IsAccount(acc), NEW pnl \in Int, NEW allow, Settle(acc, pnl, allow).ok
    PROVE  /\ Carries(acc, Settle(acc, pnl, allow))
           /\ Settle(acc, pnl, allow).p.size = acc.p.size /\ Settle(acc, pnl, allow).p.entry = acc.p.entry
           /\ Settle(acc, pnl, allow).p.rate = acc.p.rate
<1>1. acc.p \in Position
  BY AccountParts
<1>2. CASE pnl >= 0
  <2>1. Settle(acc, pnl, allow) = CreditMarginFromPool(acc, pnl)
    BY <1>2 DEF Settle
  <2>2. CreditMarginFromPool(acc, pnl).ok /\ pnl \in Nat
    BY <1>2, <2>1
  <2>3. Carries(acc, CreditMarginFromPool(acc, pnl))
    BY <2>2, CreditCarries
  <2>4. CreditMarginFromPool(acc, pnl).p = [acc.p EXCEPT !.margin = @ + pnl]
    BY <2>2, CreditCarries
  <2>5. CreditMarginFromPool(acc, pnl).p.size = acc.p.size /\ CreditMarginFromPool(acc, pnl).p.entry = acc.p.entry
        /\ CreditMarginFromPool(acc, pnl).p.rate = acc.p.rate
    BY <1>1, <2>4 DEF Position
  <2> QED BY <2>1, <2>3, <2>5
<1>3. CASE pnl < 0
  <2>1. Settle(acc, pnl, allow) = CollectTraderLoss(acc, -pnl, allow)
    BY <1>3 DEF Settle
  <2>2. CollectTraderLoss(acc, -pnl, allow).ok /\ -pnl \in Nat
    BY <1>3, <2>1
  <2> DEFINE n == CollectTraderLoss(acc, -pnl, allow)
             g == acc.p.margin - Least(-pnl, acc.p.margin)
  <2>3. Carries(acc, n)
    BY <2>2, CollectCarries
  <2>4. n.p = [acc.p EXCEPT !.margin = g]
    BY <2>2, CollectCarries
  <2> HIDE DEF n, g
  <2>5. n.p.size = acc.p.size /\ n.p.entry = acc.p.entry /\ n.p.rate = acc.p.rate
    BY <1>1, <2>4 DEF Position
  <2> QED BY <2>1, <2>3, <2>5 DEF n
<1> QED BY <1>2, <1>3

\* So does settling the funding of a position.
LEMMA FundingCarries ==
    ASSUME NEW acc, IsAccount(acc), NEW allow, SettleFunding(acc, allow).ok
    PROVE  /\ Carries(acc, SettleFunding(acc, allow))
           /\ SettleFunding(acc, allow).p.size = acc.p.size /\ SettleFunding(acc, allow).p.entry = acc.p.entry
<1> DEFINE owed == Quotient(acc.p.size * (acc.m.rate - acc.p.rate), ONE)
           settled == Settle(acc, -owed, allow)
           new == SettleFunding(acc, allow)
<1>1. -owed \in Int
  <2>1. acc.p.size * (acc.m.rate - acc.p.rate) \in Int
    BY AccountParts
  <2>2. owed \in Int
    BY <2>1, Constants, QuotientType
  <2> QED BY <2>2
<1>2. new = [settled EXCEPT !.p.rate = acc.m.rate]
  BY DEF SettleFunding
<1>3. settled.ok => Carries(acc, settled) /\ settled.p.size = acc.p.size /\ settled.p.entry = acc.p.entry
  <2> HIDE DEF owed
  <2> QED BY <1>1, SettleCarries
<1> HIDE DEF settled, owed
<1>4. new.ok => settled.ok
  <2>1. new = [settled EXCEPT !.p = [settled.p EXCEPT !.rate = acc.m.rate]]
    BY <1>2
  <2>2. DOMAIN settled = Parts
    BY SettleAfter DEF settled, IsAccount, Parts
  <2> QED BY <2>1, <2>2, WrittenAfter
<1>5. Carries(acc, settled) /\ settled.p.size = acc.p.size /\ settled.p.entry = acc.p.entry
  BY <1>3, <1>4
<1>6. IsAccount(settled)
  BY <1>5 DEF Carries
<1>7. acc.m.rate \in Int
  BY AccountParts
<1>8. /\ new.m = settled.m /\ new.p = [settled.p EXCEPT !.rate = acc.m.rate]
      /\ DOMAIN new = {"m", "p", "ok"} /\ new = [f \in DOMAIN new |-> new[f]]
  BY <1>2, <1>6 DEF IsAccount
<1> HIDE DEF new
<1>9. settled.p \in Position /\ new.p \in Position /\ new.p.margin = settled.p.margin
      /\ new.p.size = settled.p.size /\ new.p.entry = settled.p.entry
  BY <1>6, <1>7, <1>8 DEF IsAccount, Position
<1>10. IsAccount(new)
  BY <1>6, <1>8, <1>9 DEF IsAccount
<1>11. Carries(acc, new)
  BY <1>5, <1>8, <1>9, <1>10 DEF Carries
<1> QED BY <1>5, <1>9, <1>11 DEF new

\* A trade carries the account along and leaves the position the size it asked for.
LEMMA TradeCarries ==
    ASSUME NEW acc, IsAccount(acc), NEW delta \in Int, NEW price \in Nat, ApplySizeDelta(acc, delta, price).ok
    PROVE  /\ Carries(acc, ApplySizeDelta(acc, delta, price))
           /\ ApplySizeDelta(acc, delta, price).p.size = acc.p.size + delta
<1> DEFINE p == acc.p
           size == p.size + delta
           new == ApplySizeDelta(acc, delta, price)
<1>1. acc.p \in Position /\ p.size \in Int /\ p.entry \in Nat /\ p.margin \in Nat /\ size \in Int
  BY AccountParts
<1>2. CASE delta = 0
  <2>1. new = acc
    BY <1>2 DEF ApplySizeDelta
  <2>2. Carries(acc, acc)
    BY <2>1 DEF Carries, SameBook
  <2> QED BY <1>1, <1>2, <2>1, <2>2
<1>3. CASE delta # 0 /\ (p.size = 0 \/ SameSide(p.size, delta))
  <2> DEFINE entry == (p.entry * Abs(p.size) + price * Abs(delta)) \div Abs(size)
             q == [p EXCEPT !.size = size, !.entry = entry]
  <2>1. new = [acc EXCEPT !.p.size = size, !.p.entry = entry]
    BY <1>3 DEF ApplySizeDelta
  <2>2. size # 0
    BY <1>1, <1>3 DEF SameSide
  <2>3. entry \in Nat
    <3>1. Abs(p.size) \in Nat /\ Abs(delta) \in Nat /\ Abs(size) \in Nat /\ Abs(size) # 0
      BY <1>1, <2>2 DEF Abs
    <3>2. p.entry * Abs(p.size) \in Nat /\ price * Abs(delta) \in Nat
      BY <1>1, <3>1, Product
    <3>3. p.entry * Abs(p.size) + price * Abs(delta) \in Nat
      BY <3>2
    <3> QED BY <3>1, <3>3, Division
  <2> HIDE DEF entry, size
  <2>4. new.m = acc.m /\ new.p = q /\ new.ok = acc.ok /\ IsAccount(new)
    <3>1. q \in Position
      BY <1>1, <2>3 DEF Position
    <3>2. new = [acc EXCEPT !.p = q]
      BY <2>1
    <3> HIDE DEF q, new
    <3> QED BY <3>1, <3>2, OtherPosition
  <2>5. q.margin = p.margin /\ q.size = size
    BY <1>1 DEF Position
  <2> HIDE DEF q, new
  <2>6. acc.ok
    BY <2>4 DEF new
  <2>7. Carries(acc, new)
    BY <2>4, <2>5, <2>6 DEF Carries, SameBook
  <2> QED BY <2>4, <2>5, <2>7 DEF new, size
<1>4. CASE delta # 0 /\ ~(p.size = 0 \/ SameSide(p.size, delta))
  <2> DEFINE pnl == RealizePnl(p.size, p.entry, price, Least(Abs(p.size), Abs(delta)))
             settled == Settle(acc, pnl, FALSE)
             entry == IF size = 0 THEN 0 ELSE IF SameSide(p.size, size) THEN p.entry ELSE price
             q == [settled.p EXCEPT !.size = size, !.entry = entry]
  <2>1. new = [settled EXCEPT !.p.size = size, !.p.entry = entry]
    BY <1>4 DEF ApplySizeDelta
  <2>2. pnl \in Int
    <3>1. Abs(p.size) \in Nat /\ Abs(delta) \in Nat
      BY <1>1 DEF Abs
    <3>2. Least(Abs(p.size), Abs(delta)) \in Nat
      BY <3>1, LeastOf
    <3> QED BY <1>1, <3>2, PnlType
  <2>3. entry \in Nat
    BY <1>1
  <2> HIDE DEF pnl, entry, size
  <2>4. new = [settled EXCEPT !.p = q]
    BY <2>1
  <2>5. settled.ok
    <3>1. DOMAIN settled = Parts
      BY SettleAfter DEF IsAccount, Parts
    <3> HIDE DEF settled, q
    <3>2. [settled EXCEPT !.p = q].ok
      BY <2>4
    <3> QED BY <3>1, <3>2, WrittenAfter
  <2>6. Carries(acc, settled)
    BY <2>2, <2>5, SettleCarries
  <2>7. IsAccount(settled)
    BY <2>6 DEF Carries
  <2> HIDE DEF settled
  <2>8. settled.p \in Position
    BY <2>7, AccountParts
  <2>9. q \in Position /\ q.margin = settled.p.margin /\ q.size = size
    BY <1>1, <2>3, <2>8 DEF Position
  <2> HIDE DEF q, new
  <2>10. new.m = settled.m /\ new.p = q /\ IsAccount(new)
    BY <2>4, <2>7, <2>9, OtherPosition
  <2>11. Carries(acc, new)
    BY <2>6, <2>9, <2>10 DEF Carries
  <2> QED BY <2>9, <2>10, <2>11 DEF new, size
<1> QED BY <1>2, <1>3, <1>4

\* What an owner puts into the margin or takes out of it is all that changes.
LEMMA MarginMoves ==
    ASSUME NEW acc, IsAccount(acc), NEW delta \in Int, ApplyMarginDelta(acc, delta).ok
    PROVE  /\ acc.ok /\ IsAccount(ApplyMarginDelta(acc, delta))
           /\ ApplyMarginDelta(acc, delta).m = acc.m
           /\ ApplyMarginDelta(acc, delta).p = [acc.p EXCEPT !.margin = @ + delta]
           /\ ApplyMarginDelta(acc, delta).p.margin = acc.p.margin + delta
           /\ ApplyMarginDelta(acc, delta).p.size = acc.p.size
<1> DEFINE p == [acc.p EXCEPT !.margin = @ + delta]
           base == [acc EXCEPT !.p.margin = @ + delta]
           c == acc.p.margin + delta >= 0
           new == ApplyMarginDelta(acc, delta)
<1>1. base.m = acc.m /\ base.p = p /\ DOMAIN base = {"m", "p", "ok"} /\ (base.ok => acc.ok)
  BY DEF IsAccount
<1>2. new = Require(base, c)
  BY DEF ApplyMarginDelta
<1> HIDE DEF base, c, p, new
<1>3. new.m = acc.m /\ new.p = p /\ base.ok /\ c /\ DOMAIN new = {"m", "p", "ok"} /\ new = [f \in DOMAIN new |-> new[f]]
  BY <1>1, <1>2, Requirement DEF new
<1>4. acc.p \in Position /\ acc.p.margin \in Nat /\ acc.m \in Market
  BY AccountParts
<1>5. acc.p.margin + delta \in Nat
  BY <1>3, <1>4 DEF c
<1>6. p \in Position /\ p.margin = acc.p.margin + delta /\ p.size = acc.p.size
  BY <1>4, <1>5 DEF p, Position
<1>7. IsAccount(new)
  BY <1>3, <1>4, <1>6 DEF IsAccount
<1> QED BY <1>1, <1>3, <1>6, <1>7 DEF p, new

\* Fees go from the margin to those they are for.
LEMMA FeesCarry ==
    ASSUME NEW acc, IsAccount(acc), NEW fees, {fees.treasury, fees.maker} \subseteq Nat,
           NEW delta \in Int, NEW price \in Nat, ChargeFees(acc, fees, delta, price).ok
    PROVE  /\ Carries(acc, ChargeFees(acc, fees, delta, price))
           /\ ChargeFees(acc, fees, delta, price).p.size = acc.p.size
<1> DEFINE notional == Notional(delta, price)
           treasury == (notional * fees.treasury) \div BPS
           maker == (notional * fees.maker) \div BPS
           m == [acc.m EXCEPT !.treasuryFees = @ + treasury, !.makerFees = @ + maker]
           p == [acc.p EXCEPT !.margin = @ - (treasury + maker)]
           base == [acc EXCEPT !.p.margin = @ - (treasury + maker),
                               !.m.treasuryFees = @ + treasury, !.m.makerFees = @ + maker]
           c == acc.p.margin >= treasury + maker
           new == ChargeFees(acc, fees, delta, price)
<1>1. treasury \in Nat /\ maker \in Nat
  <2>1. notional \in Nat
    BY NotionalType
  <2> HIDE DEF notional
  <2>2. notional * fees.treasury \in Nat /\ notional * fees.maker \in Nat
    BY <2>1, Product
  <2> QED BY <2>2, Constants, Division
<1>2. base.m = m /\ base.p = p /\ DOMAIN base = {"m", "p", "ok"} /\ (base.ok => acc.ok)
  BY DEF IsAccount
<1>3. new = Require(base, c)
  BY DEF ChargeFees
<1> HIDE DEF base, c, m, p, new
<1>4. new.m = m /\ new.p = p /\ base.ok /\ c /\ DOMAIN new = {"m", "p", "ok"} /\ new = [f \in DOMAIN new |-> new[f]]
  BY <1>2, <1>3, Requirement DEF new
<1> HIDE DEF treasury, maker
<1>5. m \in Market /\ Pool(m) = Pool(acc.m) + treasury + maker /\ SameBook(acc.m, m)
  <2>1. acc.m \in Market
    BY AccountParts
  <2>2. acc.m.treasuryFees + treasury \in Nat /\ acc.m.makerFees + maker \in Nat
    BY <1>1, AccountParts
  <2>3. m \in Market
    BY <2>1, <2>2 DEF Market, m
  <2>4. m.treasuryFees = acc.m.treasuryFees + treasury /\ m.makerFees = acc.m.makerFees + maker
        /\ m.vault = acc.m.vault /\ m.insurance = acc.m.insurance /\ SameBook(acc.m, m)
    BY <2>1 DEF Market, SameBook, m
  <2> QED BY <1>1, <2>3, <2>4, AccountParts DEF Pool
<1>6. p \in Position /\ p.margin = acc.p.margin - (treasury + maker) /\ p.size = acc.p.size
  <2>1. acc.p.margin - (treasury + maker) \in Nat
    BY <1>1, <1>4, AccountParts DEF c
  <2> QED BY <2>1, AccountParts DEF Position, p
<1>7. Carries(acc, new)
  BY <1>1, <1>2, <1>4, <1>5, <1>6, AccountParts DEF Carries, IsAccount
<1> QED BY <1>4, <1>6, <1>7 DEF new

(***************************************************************************)
(* One account changes.                                                    *)
(***************************************************************************)
\* Before a market is created it and its positions are blank.
Blank == \A a \in Agents : ~config[a].exists =>
             markets[a] = NoMarket /\ \A t \in Traders : positions[a][t] = NoPosition

\* The inductive invariant.
PerpInv == TypeOK /\ BalanceSheet /\ Blank

\* One for a position that is open.
Counted(p) == IF p.size # 0 THEN 1 ELSE 0

\* What one position adds to the totals.
LEMMA PositionParts ==
    ASSUME NEW p \in Position
    PROVE  p.margin \in Nat /\ p.size \in Int /\ Long(p) \in Nat /\ Short(p) \in Nat /\ Counted(p) \in {0, 1}
BY DEF Position, Long, Short, Counted

\* The totals are natural numbers, and none is less than one position's part of it.
LEMMA TotalsType ==
    ASSUME NEW ps \in [Traders -> Position], NEW m \in Market
    PROVE  /\ Margins(ps) \in Nat /\ Held(m, ps) \in Nat /\ Held(m, ps) = Margins(ps) + Pool(m)
           /\ Open(ps) \subseteq Traders /\ IsFiniteSet(Open(ps)) /\ Cardinality(Open(ps)) \in Nat
           /\ \A t \in Traders : /\ Long(ps[t]) <= SumFunction([x \in Traders |-> Long(ps[x])])
                                 /\ Short(ps[t]) <= SumFunction([x \in Traders |-> Short(ps[x])])
<1>1. Margins(ps) \in Nat
  <2> DEFINE f == [t \in Traders |-> ps[t].margin]
  <2>1. f \in [Traders -> Nat] /\ f \in [Traders -> Int]
    BY PositionParts
  <2>2. \A t \in Traders : f[t] \in Nat
    BY <2>1
  <2> HIDE DEF f
  <2>3. SumFunction(f) \in Nat
    BY <2>1, <2>2, Constants, TotalType
  <2> QED BY <2>3 DEF Margins, f
<1>2. m.vault \in Nat /\ m.insurance \in Nat /\ m.treasuryFees \in Nat /\ m.makerFees \in Nat
  BY DEF Market
<1>3. Held(m, ps) \in Nat /\ Held(m, ps) = Margins(ps) + Pool(m)
  BY <1>1, <1>2 DEF Held, Pool
<1>4. Open(ps) \subseteq Traders
  BY DEF Open
<1>5. IsFiniteSet(Open(ps)) /\ Cardinality(Open(ps)) \in Nat
  BY <1>4, Constants, FS_Subset, FS_CardinalityType
<1>6. ASSUME NEW t \in Traders
      PROVE  /\ Long(ps[t]) <= SumFunction([x \in Traders |-> Long(ps[x])])
             /\ Short(ps[t]) <= SumFunction([x \in Traders |-> Short(ps[x])])
  <2> DEFINE f == [x \in Traders |-> Long(ps[x])]
             g == [x \in Traders |-> Short(ps[x])]
  <2>1. f \in [Traders -> Nat] /\ g \in [Traders -> Nat] /\ f[t] = Long(ps[t]) /\ g[t] = Short(ps[t])
    BY PositionParts
  <2> HIDE DEF f, g
  <2>2. f[t] <= SumFunction(f) /\ g[t] <= SumFunction(g)
    BY <2>1, Constants, TotalBounds
  <2> QED BY <2>1, <2>2 DEF f, g
<1> QED BY <1>1, <1>3, <1>4, <1>5, <1>6

\* What the positions ps come to when t's is replaced.
Replaced(ps, qs, t, p) ==
    /\ qs \in [Traders -> Position]
    /\ Margins(qs) = Margins(ps) - ps[t].margin + p.margin
    /\ SumFunction([x \in Traders |-> Long(qs[x])])
         = SumFunction([x \in Traders |-> Long(ps[x])]) - Long(ps[t]) + Long(p)
    /\ SumFunction([x \in Traders |-> Short(qs[x])])
         = SumFunction([x \in Traders |-> Short(ps[x])]) - Short(ps[t]) + Short(p)
    /\ Cardinality(Open(qs)) = Cardinality(Open(ps)) - Counted(ps[t]) + Counted(p)

\* When one position changes, every total changes by what that position adds to it.
LEMMA PositionChanges ==
    ASSUME NEW ps \in [Traders -> Position], NEW t \in Traders, NEW p \in Position
    PROVE  Replaced(ps, [ps EXCEPT ![t] = p], t, p)
<1> DEFINE qs == [ps EXCEPT ![t] = p]
<1>1. qs \in [Traders -> Position] /\ qs[t] = p /\ \A x \in Traders : x # t => qs[x] = ps[x]
  OBVIOUS
<1> HIDE DEF qs
<1>2. Margins(qs) = Margins(ps) - ps[t].margin + p.margin
  <2> DEFINE f == [x \in Traders |-> ps[x].margin]
             e == [x \in Traders |-> qs[x].margin]
  <2>1. f \in [Traders -> Int] /\ e \in [Traders -> Int]
    BY <1>1, PositionParts
  <2>2. f[t] = ps[t].margin /\ e[t] = p.margin /\ \A x \in Traders : x # t => e[x] = f[x]
    BY <1>1
  <2> HIDE DEF f, e
  <2>3. SumFunction(e) = SumFunction(f) - f[t] + e[t]
    BY <2>1, <2>2, Constants, TotalChange
  <2> QED BY <2>2, <2>3 DEF f, e, Margins
<1>3. SumFunction([x \in Traders |-> Long(qs[x])])
        = SumFunction([x \in Traders |-> Long(ps[x])]) - Long(ps[t]) + Long(p)
  <2> DEFINE f == [x \in Traders |-> Long(ps[x])]
             e == [x \in Traders |-> Long(qs[x])]
  <2>1. f \in [Traders -> Int] /\ e \in [Traders -> Int]
    BY <1>1, PositionParts
  <2>2. f[t] = Long(ps[t]) /\ e[t] = Long(p) /\ \A x \in Traders : x # t => e[x] = f[x]
    BY <1>1
  <2> HIDE DEF f, e
  <2>3. SumFunction(e) = SumFunction(f) - f[t] + e[t]
    BY <2>1, <2>2, Constants, TotalChange
  <2> QED BY <2>2, <2>3 DEF f, e
<1>4. SumFunction([x \in Traders |-> Short(qs[x])])
        = SumFunction([x \in Traders |-> Short(ps[x])]) - Short(ps[t]) + Short(p)
  <2> DEFINE f == [x \in Traders |-> Short(ps[x])]
             e == [x \in Traders |-> Short(qs[x])]
  <2>1. f \in [Traders -> Int] /\ e \in [Traders -> Int]
    BY <1>1, PositionParts
  <2>2. f[t] = Short(ps[t]) /\ e[t] = Short(p) /\ \A x \in Traders : x # t => e[x] = f[x]
    BY <1>1
  <2> HIDE DEF f, e
  <2>3. SumFunction(e) = SumFunction(f) - f[t] + e[t]
    BY <2>1, <2>2, Constants, TotalChange
  <2> QED BY <2>2, <2>3 DEF f, e
<1>5. Cardinality(Open(qs)) = Cardinality(Open(ps)) - Counted(ps[t]) + Counted(p)
  <2> DEFINE R == Open(ps) \ {t}
  <2>1. IsFiniteSet(R) /\ Cardinality(R) \in Nat
    <3>1. IsFiniteSet(Traders) /\ R \subseteq Traders
      BY Constants DEF Open
    <3> QED BY <3>1, FS_Subset, FS_CardinalityType
  <2>2. t \notin R
    OBVIOUS
  <2>3. Open(ps) = IF ps[t].size # 0 THEN R \cup {t} ELSE R
    BY DEF Open
  <2>4. Open(qs) = IF p.size # 0 THEN R \cup {t} ELSE R
    BY <1>1 DEF Open
  <2> HIDE DEF R
  <2>5. Cardinality(R \cup {t}) = Cardinality(R) + 1
    BY <2>1, <2>2, FS_AddElement
  <2> QED BY <2>1, <2>3, <2>4, <2>5 DEF Counted
<1> QED BY <1>1, <1>2, <1>3, <1>4, <1>5 DEF Replaced, qs

\* What a step that changes one market and its positions must do to keep the balance sheet.
LEMMA AgentChanges ==
    ASSUME TypeOK, BalanceSheet, NEW a \in Agents,
           NEW m \in Market, NEW ps \in [Traders -> Position], NEW d \in Int,
           markets' = [markets EXCEPT ![a] = m], positions' = [positions EXCEPT ![a] = ps],
           balance' = balance + d,
           Margins(ps) + Pool(m) = Margins(positions[a]) + Pool(markets[a]) + d,
           CountsAgree(m, ps)
    PROVE  /\ markets' \in [Agents -> Market] /\ positions' \in [Agents -> [Traders -> Position]]
           /\ balance' \in Nat /\ BalanceSheet'
<1> DEFINE f == [x \in Agents |-> Held(markets[x], positions[x])]
           e == [x \in Agents |-> Held(markets'[x], positions'[x])]
<1>1. markets' \in [Agents -> Market] /\ positions' \in [Agents -> [Traders -> Position]]
  BY DEF TypeOK
<1>2. markets'[a] = m /\ positions'[a] = ps
      /\ \A x \in Agents : x # a => markets'[x] = markets[x] /\ positions'[x] = positions[x]
  BY DEF TypeOK
<1>3. \A x \in Agents : markets[x] \in Market /\ positions[x] \in [Traders -> Position]
  BY DEF TypeOK
<1>4. f \in [Agents -> Int] /\ e \in [Agents -> Nat] /\ e \in [Agents -> Int]
  <2>1. \A x \in Agents : Held(markets[x], positions[x]) \in Nat /\ Held(markets'[x], positions'[x]) \in Nat
    BY <1>1, <1>3, TotalsType
  <2> QED BY <2>1
<1>5. e[a] = f[a] + d
  BY <1>2, <1>3, TotalsType
<1>6. \A x \in Agents : x # a => e[x] = f[x]
  BY <1>2
<1>7. balance = SumFunction(f)
  BY DEF BalanceSheet
<1> HIDE DEF f, e
<1>8. SumFunction(e) = SumFunction(f) - f[a] + e[a] /\ SumFunction(e) \in Nat /\ SumFunction(f) \in Int
  BY <1>4, <1>6, Constants, TotalChange, TotalType
<1>9. balance' = SumFunction(e) /\ balance' \in Nat
  BY <1>4, <1>5, <1>7, <1>8
<1>10. \A x \in Agents : CountsAgree(markets'[x], positions'[x])
  BY <1>2 DEF BalanceSheet
<1> QED BY <1>1, <1>9, <1>10 DEF e, BalanceSheet

\* A step that changes only the pool of a market.
LEMMA PoolChanges ==
    ASSUME TypeOK, BalanceSheet, NEW a \in Agents, NEW m \in Market, NEW d \in Int,
           markets' = [markets EXCEPT ![a] = m], positions' = positions, balance' = balance + d,
           Pool(m) = Pool(markets[a]) + d,
           m.long = markets[a].long, m.short = markets[a].short, m.open = markets[a].open
    PROVE  /\ markets' \in [Agents -> Market] /\ positions' \in [Agents -> [Traders -> Position]]
           /\ balance' \in Nat /\ BalanceSheet'
<1> DEFINE ps == positions[a]
<1>1. ps \in [Traders -> Position] /\ positions' = [positions EXCEPT ![a] = ps] /\ markets[a] \in Market
  BY DEF TypeOK
<1>2. CountsAgree(m, ps)
  BY DEF CountsAgree, BalanceSheet
<1>3. Margins(ps) \in Nat /\ Pool(m) \in Int /\ Pool(markets[a]) \in Int
  BY <1>1, TotalsType DEF Pool, Market
<1>4. Margins(ps) + Pool(m) = Margins(positions[a]) + Pool(markets[a]) + d
  BY <1>3
<1> HIDE DEF ps
<1> QED BY <1>1, <1>2, <1>4, AgentChanges

\* A step that changes a market and one of its positions.
LEMMA TraderChanges ==
    ASSUME TypeOK, BalanceSheet, NEW a \in Agents, NEW t \in Traders,
           NEW m \in Market, NEW p \in Position, NEW d \in Int,
           markets' = [markets EXCEPT ![a] = m], positions' = [positions EXCEPT ![a][t] = p],
           balance' = balance + d,
           p.margin + Pool(m) = positions[a][t].margin + Pool(markets[a]) + d,
           m.long = markets[a].long - Long(positions[a][t]) + Long(p),
           m.short = markets[a].short - Short(positions[a][t]) + Short(p),
           m.open = markets[a].open - Counted(positions[a][t]) + Counted(p),
           p.size = 0 => p.margin = 0
    PROVE  /\ markets' \in [Agents -> Market] /\ positions' \in [Agents -> [Traders -> Position]]
           /\ balance' \in Nat /\ BalanceSheet'
<1> DEFINE ps == positions[a]
           qs == [ps EXCEPT ![t] = p]
<1>1. ps \in [Traders -> Position] /\ markets[a] \in Market /\ ps[t] \in Position
  BY DEF TypeOK
<1>2. positions' = [positions EXCEPT ![a] = qs]
  BY DEF TypeOK
<1>3. CountsAgree(markets[a], ps)
  BY DEF BalanceSheet
<1> HIDE DEF ps
<1>4. Replaced(ps, qs, t, p)
  BY <1>1, PositionChanges DEF qs
<1>5. \A x \in Traders \ Open(qs) : qs[x].margin = 0
  <2> SUFFICES ASSUME NEW x \in Traders \ Open(qs) PROVE qs[x].margin = 0
    OBVIOUS
  <2>1. CASE x = t
    BY <1>1, <2>1 DEF Open
  <2>2. CASE x # t
    <3>1. qs[x] = ps[x] /\ x \in Traders \ Open(ps)
      BY <1>1, <2>2 DEF Open
    <3> QED BY <1>3, <3>1 DEF CountsAgree
  <2> QED BY <2>1, <2>2
<1> HIDE DEF qs
<1>6. CountsAgree(m, qs)
  BY <1>3, <1>4, <1>5 DEF CountsAgree, Replaced, ps
<1>7. Margins(qs) + Pool(m) = Margins(ps) + Pool(markets[a]) + d
  <2>1. Margins(ps) \in Nat /\ ps[t].margin \in Nat /\ p.margin \in Nat
    BY <1>1, TotalsType, PositionParts
  <2>2. Pool(m) \in Int /\ Pool(markets[a]) \in Int
    BY <1>1 DEF Pool, Market
  <2>3. p.margin + Pool(m) = ps[t].margin + Pool(markets[a]) + d
    BY DEF ps
  <2> QED BY <1>4, <2>1, <2>2, <2>3 DEF Replaced
<1>8. qs \in [Traders -> Position]
  BY <1>4 DEF Replaced
<1> QED BY <1>2, <1>6, <1>7, <1>8, AgentChanges DEF ps

(***************************************************************************)
(* The steps.                                                              *)
(***************************************************************************)
\* The first state.
LEMMA InitPerp ==
    ASSUME Init
    PROVE  PerpInv
<1>1. NoMarket \in Market /\ NoPosition \in Position
  BY DEF NoMarket, Market, NoPosition, Position, Statuses
<1>2. TypeOK
  <2>1. 0 \in 0..BPS /\ 1 \in 0..MaxTime /\ 0 \in 0..MaxTime /\ 0 \in 0..MaxTrades /\ 0 \in 0..MaxActs
    BY PerpAssumption
  <2>2. NoConfig \in [treasury : 0..BPS, maker : 0..BPS, cap : Nat, exists : BOOLEAN]
    BY <2>1 DEF NoConfig
  <2>3. skills \in [Agents -> [price : IndexPrices \cup {0}, at : 0..MaxTime]]
    BY <2>1 DEF Init
  <2> QED BY <1>1, <2>1, <2>2, <2>3 DEF Init, TypeOK
<1>3. Blank
  BY DEF Init, Blank
<1>4. BalanceSheet
  <2> DEFINE none == [t \in Traders |-> NoPosition]
  <2>1. none \in [Traders -> Position] /\ \A a \in Agents : positions[a] = none /\ markets[a] = NoMarket
    BY <1>1 DEF Init
  <2>2. /\ SumFunction([t \in Traders |-> none[t].margin]) = 0
        /\ SumFunction([t \in Traders |-> Long(none[t])]) = 0
        /\ SumFunction([t \in Traders |-> Short(none[t])]) = 0
    <3> DEFINE f == [t \in Traders |-> none[t].margin]
               g == [t \in Traders |-> Long(none[t])]
               h == [t \in Traders |-> Short(none[t])]
    <3>1. /\ f \in [Traders -> Int] /\ g \in [Traders -> Int] /\ h \in [Traders -> Int]
          /\ \A t \in Traders : f[t] = 0 /\ g[t] = 0 /\ h[t] = 0
      BY DEF NoPosition, Long, Short
    <3> HIDE DEF f, g, h
    <3>2. SumFunction(f) = 0 /\ SumFunction(g) = 0 /\ SumFunction(h) = 0
      BY <3>1, Constants, TotalZero
    <3> QED BY <3>2 DEF f, g, h
  <2>3. Open(none) = {} /\ Cardinality(Open(none)) = 0 /\ \A t \in Traders : none[t].margin = 0
    <3>1. Open(none) = {} /\ \A t \in Traders : none[t].margin = 0
      BY DEF Open, NoPosition
    <3> QED BY <3>1, FS_EmptySet
  <2> HIDE DEF none
  <2>4. CountsAgree(NoMarket, none)
    BY <2>2, <2>3 DEF CountsAgree, NoMarket
  <2>5. Held(NoMarket, none) = 0
    BY <2>2 DEF Held, Margins, NoMarket
  <2>6. SumFunction([a \in Agents |-> Held(markets[a], positions[a])]) = 0
    <3> DEFINE f == [a \in Agents |-> Held(markets[a], positions[a])]
    <3>1. f \in [Agents -> Int] /\ \A a \in Agents : f[a] = 0
      BY <2>1, <2>5
    <3> HIDE DEF f
    <3>2. SumFunction(f) = 0
      BY <3>1, Constants, TotalZero
    <3> QED BY <3>2 DEF f
  <2> QED BY <2>1, <2>4, <2>6 DEF BalanceSheet, Init
<1> QED BY <1>2, <1>3, <1>4 DEF PerpInv

\* What a market is after it has asked the oracle: as it was but for the price, the rate and its age.
LEMMA SyncKeeps ==
    ASSUME TypeOK, NEW a \in Agents
    PROVE  /\ markets[a] \in Market /\ Synced(a) \in Market
           /\ Synced(a).status = markets[a].status /\ Synced(a).long = markets[a].long
           /\ Synced(a).short = markets[a].short /\ Synced(a).open = markets[a].open
           /\ Pool(Synced(a)) = Pool(markets[a])
<1> DEFINE m == markets[a]
           drift == Quotient((m.long - m.short) * FundingVelocity * (now - m.funded), SkewScale)
           rate == IF m.funded = 0 THEN m.rate ELSE m.rate + drift
           n == AccrueFunding(m)
<1>1. m \in Market /\ now \in Nat /\ skills[a].price \in Nat
  <2>1. m \in Market /\ now \in 0..MaxTime /\ skills[a].price \in IndexPrices \cup {0}
    BY DEF TypeOK
  <2> HIDE DEF m
  <2>2. MaxTime \in Nat /\ IndexPrices \subseteq Nat
    BY PerpAssumption
  <2>3. now \in Nat
    BY <2>1, <2>2
  <2>4. \A x \in IndexPrices \cup {0} : x \in Nat
    BY <2>2
  <2>5. skills[a].price \in Nat
    BY <2>1, <2>4, Zenon
  <2> QED BY <2>1, <2>3, <2>5
<1>2. rate \in Int
  <2>1. (m.long - m.short) * FundingVelocity \in Int /\ now - m.funded \in Int
    BY <1>1, Constants DEF Market
  <2>2. (m.long - m.short) * FundingVelocity * (now - m.funded) \in Int
    BY <2>1
  <2>3. drift \in Int
    BY <2>2, Constants, QuotientType
  <2> QED BY <1>1, <2>3 DEF Market
<1>3. n = m \/ n = [m EXCEPT !.funded = now, !.rate = rate]
  BY DEF AccrueFunding
<1> HIDE DEF rate, n
<1>4. n \in Market /\ n.status = m.status /\ n.long = m.long /\ n.short = m.short /\ n.open = m.open /\ Pool(n) = Pool(m)
  BY <1>1, <1>2, <1>3 DEF Market, Pool
<1>5. Synced(a) = m \/ Synced(a) = [n EXCEPT !.price = skills[a].price]
  BY DEF Synced, n
<1> HIDE DEF m
<1>6. CASE Synced(a) = m
  BY <1>1, <1>6 DEF m
<1>7. CASE Synced(a) = [n EXCEPT !.price = skills[a].price]
  BY <1>1, <1>4, <1>7 DEF Market, Pool, m
<1> QED BY <1>5, <1>6, <1>7

\* A market that exists may change without spoiling those that do not.
LEMMA BlankKept ==
    ASSUME Blank, NEW a \in Agents, config' = config, config[a].exists,
           \A x \in Agents : x # a => markets'[x] = markets[x] /\ positions'[x] = positions[x]
    PROVE  Blank'
BY DEF Blank

\* Calls that touch no market.
LEMMA QuietSteps ==
    ASSUME PerpInv, NEW a \in Agents, Tick \/ SetPaused \/ UpdateAgentSkill(a) \/ RemoveAgent(a)
    PROVE  PerpInv'
<1>1. markets' = markets /\ positions' = positions /\ balance' = balance /\ config' = config /\ trades' = trades
  BY DEF Tick, SetPaused, UpdateAgentSkill, RemoveAgent
<1>2. BalanceSheet' /\ Blank'
  BY <1>1 DEF PerpInv, BalanceSheet, Blank
<1>3. now' \in 0..MaxTime /\ acts' \in 0..MaxActs
  BY PerpAssumption DEF PerpInv, TypeOK, Tick, SetPaused, UpdateAgentSkill, RemoveAgent, Act
<1>4. tradingPaused' \in BOOLEAN /\ marketCreationPaused' \in BOOLEAN
  BY DEF PerpInv, TypeOK, Tick, SetPaused, UpdateAgentSkill, RemoveAgent
<1>5. skills' \in [Agents -> [price : IndexPrices \cup {0}, at : 0..MaxTime]]
  <2>1. CASE Tick \/ SetPaused
    BY <2>1 DEF PerpInv, TypeOK, Tick, SetPaused
  <2>2. CASE UpdateAgentSkill(a)
    <3>1. PICK price \in IndexPrices, at \in {now, skills[a].at} \ {0} :
            skills' = [skills EXCEPT ![a] = [price |-> price, at |-> at]]
      BY <2>2 DEF UpdateAgentSkill
    <3>2. at \in 0..MaxTime
      BY DEF PerpInv, TypeOK
    <3> QED BY <3>1, <3>2 DEF PerpInv, TypeOK
  <2>3. CASE RemoveAgent(a)
    <3>1. skills' = [skills EXCEPT ![a] = [price |-> 0, at |-> 0]] /\ 0 \in 0..MaxTime
      BY <2>3, PerpAssumption DEF RemoveAgent
    <3> QED BY <3>1 DEF PerpInv, TypeOK
  <2> QED BY <2>1, <2>2, <2>3
<1> QED BY <1>1, <1>2, <1>3, <1>4, <1>5 DEF PerpInv, TypeOK

\* What the calls that change one market's pool have in common: m is the market after, and d what
\* the engine's tokens change by.
PoolMoves(a, m, d) ==
    /\ config[a].exists /\ m \in Market /\ d \in Int
    /\ markets' = [markets EXCEPT ![a] = m] /\ balance' = balance + d
    /\ UNCHANGED <<ungoverned, config>> /\ acts' \in 0..MaxActs
    /\ Pool(m) = Pool(markets[a]) + d
    /\ m.long = markets[a].long /\ m.short = markets[a].short /\ m.open = markets[a].open

\* Such a call keeps the invariant.
LEMMA PoolSteps ==
    ASSUME PerpInv, NEW a \in Agents, NEW m, NEW d, PoolMoves(a, m, d)
    PROVE  PerpInv'
<1>1. TypeOK /\ BalanceSheet /\ Blank /\ positions' = positions
  BY DEF PerpInv, PoolMoves, ungoverned
<1>2. /\ markets' \in [Agents -> Market] /\ positions' \in [Agents -> [Traders -> Position]]
      /\ balance' \in Nat /\ BalanceSheet'
  BY <1>1, PoolChanges DEF PoolMoves
<1>3. Blank' /\ config' = config
  <2>1. config' = config /\ config[a].exists
    BY DEF PoolMoves
  <2>2. \A x \in Agents : x # a => markets'[x] = markets[x] /\ positions'[x] = positions[x]
    BY <1>1 DEF TypeOK, PoolMoves
  <2> QED BY <1>1, <2>1, <2>2, BlankKept
<1> QED BY <1>1, <1>2, <1>3 DEF PerpInv, TypeOK, PoolMoves, ungoverned

\* The admin, the market operator and the oracle's visitors.
LEMMA GovernanceSteps ==
    ASSUME PerpInv, NEW a \in Agents,
           \/ SetMarketStatus(a) \/ SyncOracle(a) \/ DepositInsuranceFund(a)
           \/ WithdrawInsuranceFund(a) \/ WithdrawFeeBalance(a) \/ RecycleMmFees(a)
    PROVE  PerpInv'
<1> DEFINE m == markets[a]
<1>1. TypeOK /\ m \in Market /\ balance \in Nat /\ acts \in 0..MaxActs
  BY DEF PerpInv, TypeOK
<1>2. Pool(m) \in Nat /\ {m.vault, m.insurance, m.treasuryFees, m.makerFees, m.badDebt, m.price, m.settlement} \subseteq Nat
      /\ m.status \in Statuses
  BY <1>1 DEF Market, Pool
<1>3. Act => acts' \in 0..MaxActs
  BY <1>1, PerpAssumption DEF Act
<1>4. CASE SetMarketStatus(a)
  <2>1. PICK status \in Statuses \ {"UNINITIALIZED", markets[a].status} :
          markets' = [markets EXCEPT ![a].status = status,
                                     ![a].settlement = IF status = "CLOSE_ONLY" /\ @ = 0 THEN markets[a].price ELSE @]
    BY <1>4 DEF SetMarketStatus
  <2> DEFINE s == IF status = "CLOSE_ONLY" /\ m.settlement = 0 THEN m.price ELSE m.settlement
             n == [m EXCEPT !.status = status, !.settlement = s]
  <2>2. markets' = [markets EXCEPT ![a] = n]
    BY <1>1, <2>1 DEF TypeOK
  <2>3. s \in Nat
    BY <1>2
  <2> HIDE DEF s
  <2>4. n \in Market /\ Pool(n) = Pool(m) /\ n.long = m.long /\ n.short = m.short /\ n.open = m.open
    BY <1>1, <2>3 DEF Market, Pool
  <2> HIDE DEF n
  <2>5. Pool(n) = Pool(markets[a]) + 0 /\ balance' = balance + 0
    BY <1>1, <1>2, <1>4, <2>4 DEF SetMarketStatus
  <2>6. config[a].exists /\ UNCHANGED <<ungoverned, config>> /\ acts' \in 0..MaxActs
    BY <1>3, <1>4 DEF SetMarketStatus
  <2>7. PoolMoves(a, n, 0)
    BY <2>2, <2>4, <2>5, <2>6 DEF PoolMoves
  <2> QED BY <2>7, PoolSteps
<1>5. CASE SyncOracle(a)
  <2>1. Synced(a) \in Market /\ Synced(a).long = m.long /\ Synced(a).short = m.short /\ Synced(a).open = m.open
        /\ Pool(Synced(a)) = Pool(m)
    BY <1>1, SyncKeeps
  <2>2. Pool(Synced(a)) = Pool(markets[a]) + 0 /\ balance' = balance + 0
    BY <1>1, <1>2, <1>5, <2>1 DEF SyncOracle
  <2>3. markets' = [markets EXCEPT ![a] = Synced(a)] /\ config[a].exists
        /\ UNCHANGED <<ungoverned, config>> /\ acts' \in 0..MaxActs
    BY <1>1, <1>5 DEF SyncOracle
  <2>4. PoolMoves(a, Synced(a), 0)
    BY <2>1, <2>2, <2>3 DEF PoolMoves
  <2> QED BY <2>4, PoolSteps
<1>6. CASE DepositInsuranceFund(a)
  <2>1. PICK amount \in Payments :
          /\ markets' = [markets EXCEPT ![a].badDebt = @ - Least(amount, m.badDebt), ![a].vault = @ + Least(amount, m.badDebt),
                                        ![a].insurance = @ + (amount - Least(amount, m.badDebt))]
          /\ balance' = balance + amount
    BY <1>6 DEF DepositInsuranceFund
  <2> DEFINE r == Least(amount, m.badDebt)
             n == [m EXCEPT !.badDebt = @ - r, !.vault = @ + r, !.insurance = @ + (amount - r)]
  <2>2. markets' = [markets EXCEPT ![a] = n]
    BY <1>1, <2>1 DEF TypeOK
  <2>3. amount \in Nat /\ r \in Nat /\ r <= amount /\ r <= m.badDebt
    BY <1>2, PerpAssumption, LeastOf
  <2> HIDE DEF r
  <2>4. m.badDebt - r \in Nat /\ m.vault + r \in Nat /\ m.insurance + (amount - r) \in Nat
    BY <1>2, <2>3
  <2>5. /\ n \in Market /\ n.long = m.long /\ n.short = m.short /\ n.open = m.open
        /\ n.vault = m.vault + r /\ n.insurance = m.insurance + (amount - r)
        /\ n.treasuryFees = m.treasuryFees /\ n.makerFees = m.makerFees
    BY <1>1, <2>4 DEF Market
  <2> HIDE DEF n
  <2>6. Pool(n) = Pool(markets[a]) + amount
    BY <1>2, <2>3, <2>5 DEF Pool
  <2>7. config[a].exists /\ UNCHANGED <<ungoverned, config>> /\ acts' \in 0..MaxActs
    BY <1>3, <1>6 DEF DepositInsuranceFund
  <2>8. balance' = balance + amount
    BY <2>1
  <2>9. PoolMoves(a, n, amount)
    BY ONLY <2>2, <2>3, <2>5, <2>6, <2>7, <2>8 DEF PoolMoves
  <2> QED BY <2>9, PoolSteps
<1>7. CASE WithdrawInsuranceFund(a)
  <2>1. PICK amount \in Payments :
          /\ markets[a].insurance >= amount
          /\ markets' = [markets EXCEPT ![a].insurance = @ - amount]
          /\ balance' = balance - amount
    BY <1>7 DEF WithdrawInsuranceFund
  <2> DEFINE n == [m EXCEPT !.insurance = @ - amount]
  <2>2. markets' = [markets EXCEPT ![a] = n]
    BY <1>1, <2>1 DEF TypeOK
  <2>3. amount \in Nat /\ m.insurance - amount \in Nat /\ balance' = balance + (-amount)
    BY <1>1, <1>2, <2>1, PerpAssumption
  <2>4. /\ n \in Market /\ n.long = m.long /\ n.short = m.short /\ n.open = m.open
        /\ n.vault = m.vault /\ n.insurance = m.insurance - amount
        /\ n.treasuryFees = m.treasuryFees /\ n.makerFees = m.makerFees
    BY <1>1, <2>3 DEF Market
  <2> HIDE DEF n
  <2>5. Pool(n) = Pool(markets[a]) + (-amount)
    BY <1>2, <2>3, <2>4 DEF Pool
  <2>6. config[a].exists /\ UNCHANGED <<ungoverned, config>> /\ acts' \in 0..MaxActs
    BY <1>3, <1>7 DEF WithdrawInsuranceFund
  <2>7. PoolMoves(a, n, -amount)
    BY <2>2, <2>3, <2>4, <2>5, <2>6 DEF PoolMoves
  <2> QED BY <2>7, PoolSteps
<1>8. CASE WithdrawFeeBalance(a)
  <2>1. PICK bucket \in {"treasuryFees", "makerFees"} :
          /\ balance' = balance - markets[a][bucket]
          /\ markets' = [markets EXCEPT ![a][bucket] = 0]
    BY <1>8 DEF WithdrawFeeBalance
  <2> DEFINE n == [m EXCEPT ![bucket] = 0]
             d == -m[bucket]
  <2>2. markets' = [markets EXCEPT ![a] = n]
    BY <1>1, <2>1 DEF TypeOK
  <2>3. m[bucket] \in Nat /\ d \in Int /\ balance' = balance + d
    BY <1>1, <1>2, <2>1
  <2>4. n \in Market /\ n.long = m.long /\ n.short = m.short /\ n.open = m.open
    BY <1>1 DEF Market
  <2>5. Pool(n) = Pool(m) + d
    <3>1. CASE bucket = "treasuryFees"
      BY <1>1, <1>2, <3>1 DEF Pool, Market
    <3>2. CASE bucket = "makerFees"
      BY <1>1, <1>2, <3>2 DEF Pool, Market
    <3> QED BY <3>1, <3>2
  <2> HIDE DEF n, d
  <2>6. config[a].exists /\ UNCHANGED <<ungoverned, config>> /\ acts' \in 0..MaxActs
    BY <1>3, <1>8 DEF WithdrawFeeBalance
  <2>7. PoolMoves(a, n, d)
    BY <2>2, <2>3, <2>4, <2>5, <2>6 DEF PoolMoves
  <2> QED BY <2>7, PoolSteps
<1>9. CASE RecycleMmFees(a)
  <2> DEFINE n == [m EXCEPT !.insurance = @ + m.makerFees, !.makerFees = 0]
  <2>1. markets' = [markets EXCEPT ![a] = n]
    BY <1>1, <1>9 DEF RecycleMmFees, TypeOK
  <2>2. m.insurance + m.makerFees \in Nat
    BY <1>2
  <2>3. /\ n \in Market /\ n.long = m.long /\ n.short = m.short /\ n.open = m.open
        /\ n.vault = m.vault /\ n.insurance = m.insurance + m.makerFees
        /\ n.treasuryFees = m.treasuryFees /\ n.makerFees = 0
    BY <1>1, <2>2 DEF Market
  <2> HIDE DEF n
  <2>4. Pool(n) = Pool(markets[a]) + 0
    BY <1>2, <2>3 DEF Pool
  <2>5. config[a].exists /\ UNCHANGED <<ungoverned, config>> /\ acts' \in 0..MaxActs /\ balance' = balance + 0
    BY <1>1, <1>3, <1>9 DEF RecycleMmFees
  <2>6. PoolMoves(a, n, 0)
    BY <2>1, <2>3, <2>4, <2>5 DEF PoolMoves
  <2> QED BY <2>6, PoolSteps
<1> QED BY <1>4, <1>5, <1>6, <1>7, <1>8, <1>9

\* Adding and removing the open interest of a size.
LEMMA OpenInterest ==
    ASSUME NEW m \in Market, NEW size \in Int
    PROVE  /\ AddOpenInterest(m, size) = [m EXCEPT !.long = @ + (IF size > 0 THEN size ELSE 0),
                                                   !.short = @ + (IF size < 0 THEN -size ELSE 0)]
           /\ RemoveOpenInterest(m, size) = [m EXCEPT !.long = @ - (IF size > 0 THEN size ELSE 0),
                                                      !.short = @ - (IF size < 0 THEN -size ELSE 0)]
<1> DEFINE long == IF size > 0 THEN size ELSE 0
           short == IF size < 0 THEN -size ELSE 0
<1>1. CASE size > 0
  <2>1. m.short + short = m.short /\ m.short - short = m.short /\ long = size
    BY <1>1 DEF Market
  <2>2. AddOpenInterest(m, size) = [m EXCEPT !.long = @ + size]
        /\ RemoveOpenInterest(m, size) = [m EXCEPT !.long = @ - size]
    BY <1>1 DEF AddOpenInterest, RemoveOpenInterest
  <2> HIDE DEF long, short
  <2>3. [m EXCEPT !.long = @ + size] = [m EXCEPT !.long = @ + long, !.short = @ + short]
        /\ [m EXCEPT !.long = @ - size] = [m EXCEPT !.long = @ - long, !.short = @ - short]
    BY <2>1 DEF Market
  <2> QED BY <2>2, <2>3 DEF long, short
<1>2. CASE ~(size > 0)
  <2>1. m.long + long = m.long /\ m.long - long = m.long
        /\ m.short + short = m.short - size /\ m.short - short = m.short + size
    BY <1>2 DEF Market
  <2>2. AddOpenInterest(m, size) = [m EXCEPT !.short = @ - size]
        /\ RemoveOpenInterest(m, size) = [m EXCEPT !.short = @ + size]
    BY <1>2 DEF AddOpenInterest, RemoveOpenInterest
  <2> HIDE DEF long, short
  <2>3. [m EXCEPT !.short = @ - size] = [m EXCEPT !.long = @ + long, !.short = @ + short]
        /\ [m EXCEPT !.short = @ + size] = [m EXCEPT !.long = @ - long, !.short = @ - short]
    BY <2>1 DEF Market
  <2> QED BY <2>2, <2>3 DEF long, short
<1> QED BY <1>1, <1>2

\* m is n with the open interest of p taken out or put in.
Without(m, n, p) == /\ m \in Market /\ m.long = n.long - Long(p) /\ m.short = n.short - Short(p)
                    /\ m.open = n.open /\ m.insurance = n.insurance /\ Pool(m) = Pool(n)
With(m, n, p) == /\ m \in Market /\ m.long = n.long + Long(p) /\ m.short = n.short + Short(p)
                 /\ m.open = n.open /\ Pool(m) = Pool(n)

\* Removing what a market counts of a position and adding what it is to count of it.
LEMMA InterestMoves ==
    ASSUME NEW m \in Market, NEW p \in Position
    PROVE  /\ Long(p) <= m.long /\ Short(p) <= m.short => Without(RemoveOpenInterest(m, p.size), m, p)
           /\ With(AddOpenInterest(m, p.size), m, p)
<1>1. p.size \in Int /\ Long(p) \in Nat /\ Short(p) \in Nat
  BY PositionParts
<1>2. /\ AddOpenInterest(m, p.size) = [m EXCEPT !.long = @ + Long(p), !.short = @ + Short(p)]
      /\ RemoveOpenInterest(m, p.size) = [m EXCEPT !.long = @ - Long(p), !.short = @ - Short(p)]
  BY <1>1, OpenInterest DEF Long, Short
<1>3. With(AddOpenInterest(m, p.size), m, p)
  <2>1. m.long + Long(p) \in Nat /\ m.short + Short(p) \in Nat
    BY <1>1 DEF Market
  <2> QED BY <1>2, <2>1 DEF With, Market, Pool
<1>4. ASSUME Long(p) <= m.long, Short(p) <= m.short
      PROVE  Without(RemoveOpenInterest(m, p.size), m, p)
  <2>1. m.long - Long(p) \in Nat /\ m.short - Short(p) \in Nat
    BY <1>1, <1>4 DEF Market
  <2> QED BY <1>2, <2>1 DEF Without, Market, Pool
<1> QED BY <1>3, <1>4

\* What a trader's call starts from: the market as the oracle leaves it, and the position.
Start(a, t) == [m |-> Synced(a), p |-> positions[a][t], ok |-> TRUE]

\* It is an account, and its market counts the position.
LEMMA StartFacts ==
    ASSUME PerpInv, NEW a \in Agents, NEW t \in Traders
    PROVE  /\ IsAccount(Start(a, t)) /\ DOMAIN Start(a, t) = Parts /\ Start(a, t).ok
           /\ Start(a, t).m = Synced(a) /\ Start(a, t).p = positions[a][t]
           /\ positions[a][t] \in Position /\ Synced(a) \in Market /\ markets[a] \in Market
           /\ Synced(a).long = markets[a].long /\ Synced(a).short = markets[a].short
           /\ Synced(a).open = markets[a].open /\ Pool(Synced(a)) = Pool(markets[a])
           /\ Long(positions[a][t]) <= markets[a].long /\ Short(positions[a][t]) <= markets[a].short
           /\ positions[a][t].size = 0 => positions[a][t].margin = 0
           /\ Counted(positions[a][t]) <= markets[a].open
<1>1. TypeOK /\ BalanceSheet
  BY DEF PerpInv
<1>2. positions[a] \in [Traders -> Position] /\ positions[a][t] \in Position
  BY <1>1 DEF TypeOK
<1>3. /\ markets[a] \in Market /\ Synced(a) \in Market
      /\ Synced(a).long = markets[a].long /\ Synced(a).short = markets[a].short
      /\ Synced(a).open = markets[a].open /\ Pool(Synced(a)) = Pool(markets[a])
  BY <1>1, SyncKeeps
<1>4. IsAccount(Start(a, t)) /\ DOMAIN Start(a, t) = Parts /\ Start(a, t).ok
      /\ Start(a, t).m = Synced(a) /\ Start(a, t).p = positions[a][t]
  BY <1>2, <1>3 DEF Start, IsAccount, Parts
<1>5. CountsAgree(markets[a], positions[a])
  BY <1>1 DEF BalanceSheet
<1>6. Long(positions[a][t]) <= markets[a].long /\ Short(positions[a][t]) <= markets[a].short
  BY <1>2, <1>3, <1>5, TotalsType DEF CountsAgree
<1>7. positions[a][t].size = 0 => positions[a][t].margin = 0
  BY <1>5 DEF CountsAgree, Open
<1>8. Counted(positions[a][t]) <= markets[a].open
  <2> DEFINE S == Open(positions[a])
  <2>1. IsFiniteSet(S) /\ Cardinality(S) \in Nat /\ markets[a].open = Cardinality(S)
    BY <1>2, <1>3, <1>5, TotalsType DEF CountsAgree
  <2>2. positions[a][t].size # 0 => t \in S
    BY DEF Open
  <2> HIDE DEF S
  <2>3. t \in S => Cardinality(S) # 0
    BY <2>1, FS_EmptySet
  <2> QED BY <2>1, <2>2, <2>3 DEF Counted
<1> QED BY <1>2, <1>3, <1>4, <1>6, <1>7, <1>8

\* What the traders' calls have in common: m and p are the account after, and d what the engine's
\* tokens change by.
TraderMoves(a, t, m, p, d) ==
    /\ config[a].exists /\ m \in Market /\ p \in Position /\ d \in Int
    /\ markets' = [markets EXCEPT ![a] = m] /\ positions' = [positions EXCEPT ![a][t] = p]
    /\ balance' = balance + d
    /\ UNCHANGED <<now, skills, config, tradingPaused, marketCreationPaused, acts>>
    /\ trades' \in 0..MaxTrades
    /\ p.margin + Pool(m) = positions[a][t].margin + Pool(markets[a]) + d
    /\ m.long = markets[a].long - Long(positions[a][t]) + Long(p)
    /\ m.short = markets[a].short - Short(positions[a][t]) + Short(p)
    /\ m.open = markets[a].open - Counted(positions[a][t]) + Counted(p)
    /\ p.size = 0 => p.margin = 0

\* Such a call keeps the invariant.
LEMMA TraderSteps ==
    ASSUME PerpInv, NEW a \in Agents, NEW t \in Traders, NEW m, NEW p, NEW d, TraderMoves(a, t, m, p, d)
    PROVE  PerpInv'
<1>1. TypeOK /\ BalanceSheet /\ Blank
  BY DEF PerpInv
<1>2. /\ markets' \in [Agents -> Market] /\ positions' \in [Agents -> [Traders -> Position]]
      /\ balance' \in Nat /\ BalanceSheet'
  BY <1>1, TraderChanges DEF TraderMoves
<1>3. Blank' /\ config' = config
  <2>1. config' = config /\ config[a].exists
    BY DEF TraderMoves
  <2>2. \A x \in Agents : x # a => markets'[x] = markets[x] /\ positions'[x] = positions[x]
    BY <1>1 DEF TypeOK, TraderMoves
  <2> QED BY <1>1, <2>1, <2>2, BlankKept
<1> QED BY <1>1, <1>2, <1>3 DEF PerpInv, TypeOK, TraderMoves

\* A market is created out of nothing.
LEMMA CreateSteps ==
    ASSUME PerpInv, NEW a \in Agents, CreateMarket(a)
    PROVE  PerpInv'
<1> DEFINE m == [NoMarket EXCEPT !.status = "ACTIVE", !.funded = now, !.price = skills[a].price]
<1>1. TypeOK /\ BalanceSheet /\ Blank /\ ~config[a].exists
  BY DEF PerpInv, CreateMarket
<1>2. markets[a] = NoMarket
  BY <1>1 DEF Blank
<1>3. now \in Nat /\ skills[a].price \in Nat
  <2>1. now \in 0..MaxTime /\ skills[a].price \in IndexPrices \cup {0}
    BY <1>1 DEF TypeOK
  <2>2. MaxTime \in Nat /\ \A x \in IndexPrices \cup {0} : x \in Nat
    BY PerpAssumption
  <2>3. skills[a].price \in Nat
    BY <2>1, <2>2, Zenon
  <2> QED BY <2>1, <2>2, <2>3
<1>4. /\ m \in Market /\ m.long = NoMarket.long /\ m.short = NoMarket.short /\ m.open = NoMarket.open
      /\ Pool(m) = 0 /\ Pool(NoMarket) = 0
  <2> DEFINE price == skills[a].price
  <2>1. NoMarket \in Market /\ Pool(NoMarket) = 0
    BY DEF Market, NoMarket, Statuses, Pool
  <2>2. price \in Nat /\ "ACTIVE" \in Statuses
    BY <1>3 DEF Statuses
  <2>3. m = [NoMarket EXCEPT !.status = "ACTIVE", !.funded = now, !.price = price]
    OBVIOUS
  <2> HIDE DEF price, m
  <2>4. m \in Market
    BY <1>3, <2>1, <2>2, <2>3 DEF Market
  <2>5. /\ m.long = NoMarket.long /\ m.short = NoMarket.short /\ m.open = NoMarket.open
        /\ m.vault = NoMarket.vault /\ m.insurance = NoMarket.insurance
        /\ m.treasuryFees = NoMarket.treasuryFees /\ m.makerFees = NoMarket.makerFees
    BY <2>1, <2>3 DEF Market
  <2> QED BY <2>1, <2>4, <2>5 DEF Pool
<1>5. markets' = [markets EXCEPT ![a] = m] /\ positions' = positions /\ balance' = balance
      /\ UNCHANGED <<ungoverned, acts>>
  BY DEF CreateMarket, ungoverned
<1> HIDE DEF m
<1>6. /\ markets' \in [Agents -> Market] /\ positions' \in [Agents -> [Traders -> Position]]
      /\ balance' \in Nat /\ BalanceSheet'
  <2> DEFINE d == 0
  <2>1. balance' = balance + d /\ d \in Int /\ Pool(m) = Pool(markets[a]) + d
    BY <1>1, <1>2, <1>4, <1>5 DEF TypeOK
  <2> HIDE DEF d
  <2> QED BY <1>1, <1>2, <1>4, <1>5, <2>1, PoolChanges
<1>7. PICK fees \in Fees : config' = [config EXCEPT ![a] =
         [treasury |-> fees.treasury, maker |-> fees.maker, cap |-> fees.cap, exists |-> TRUE]]
  BY DEF CreateMarket
<1>8. config' \in [Agents -> [treasury : 0..BPS, maker : 0..BPS, cap : Nat, exists : BOOLEAN]]
  <2>1. fees \in [treasury : 0..BPS, maker : 0..BPS, cap : Nat]
    BY PerpAssumption
  <2> QED BY <1>1, <1>7, <2>1 DEF TypeOK
<1>9. Blank'
  <2>1. \A x \in Agents : x # a => markets'[x] = markets[x] /\ config'[x] = config[x]
    BY <1>1, <1>5, <1>7 DEF TypeOK
  <2>2. config'[a].exists
    BY <1>1, <1>7 DEF TypeOK
  <2> QED BY <1>1, <1>5, <2>1, <2>2 DEF Blank
<1> QED BY <1>1, <1>5, <1>6, <1>8, <1>9 DEF PerpInv, TypeOK, ungoverned

\* Funding takes nothing from one who has no position.
LEMMA IdleFunding ==
    ASSUME NEW acc, IsAccount(acc), acc.p.size = 0, acc.p.margin = 0, NEW allow, SettleFunding(acc, allow).ok
    PROVE  SettleFunding(acc, allow).p.margin = 0
<1> DEFINE owed == Quotient(acc.p.size * (acc.m.rate - acc.p.rate), ONE)
           settled == Settle(acc, -owed, allow)
<1>1. acc.p.size * (acc.m.rate - acc.p.rate) = 0
  BY AccountParts
<1>2. owed = 0
  BY <1>1, Constants DEF Quotient
<1>3. SettleFunding(acc, allow) = [settled EXCEPT !.p = [settled.p EXCEPT !.rate = acc.m.rate]]
  BY DEF SettleFunding
<1>4. DOMAIN settled = Parts
  BY SettleAfter DEF IsAccount, Parts
<1>5. settled = CreditMarginFromPool(acc, 0)
  <2>1. -owed = 0
    BY <1>2
  <2> QED BY <2>1 DEF Settle
<1> HIDE DEF settled, owed
<1>6. settled.ok
  BY <1>3, <1>4, WrittenAfter
<1>7. settled.p = [acc.p EXCEPT !.margin = @ + 0] /\ acc.p \in Position
  BY <1>5, <1>6, CreditCarries, AccountParts
<1>8. settled.p.margin = 0 /\ "margin" \in DOMAIN settled.p
  BY <1>7 DEF Position
<1>9. SettleFunding(acc, allow).p = [settled.p EXCEPT !.rate = acc.m.rate]
  BY <1>3, <1>4 DEF Parts
<1> QED BY <1>8, <1>9

\* An owner takes margin out.
LEMMA WithdrawMoves ==
    ASSUME PerpInv, NEW a \in Agents, NEW t \in Traders, NEW amount \in Payments, WithdrawMargin(a, t, amount)
    PROVE  \E m, p : TraderMoves(a, t, m, p, -amount) /\ (p.size # 0 => Healthy(m, p))
<1> DEFINE start == Start(a, t)
           funded == SettleFunding(start, FALSE)
           acc == ApplyMarginDelta(funded, -amount)
<1>1. /\ acc.ok /\ config[a].exists /\ (acc.p.size # 0 => Healthy(acc.m, acc.p))
      /\ markets' = [markets EXCEPT ![a] = acc.m] /\ positions' = [positions EXCEPT ![a][t] = acc.p]
      /\ balance' = balance - amount
      /\ UNCHANGED <<now, skills, config, tradingPaused, marketCreationPaused, acts>>
      /\ trades < MaxTrades /\ trades' = trades + 1
  BY DEF WithdrawMargin, Start
<1>2. amount \in Nat /\ amount # 0 /\ -amount \in Int /\ balance \in Nat /\ trades \in 0..MaxTrades
  BY PerpAssumption DEF PerpInv, TypeOK
<1> HIDE DEF start
<1>3. IsAccount(start) /\ DOMAIN start = Parts /\ start.m = Synced(a) /\ start.p = positions[a][t]
  BY StartFacts DEF start
<1>4. DOMAIN funded = Parts
  BY <1>3, FundingAfter
<1>5. funded.ok
  <2> HIDE DEF funded
  <2> QED BY <1>1, <1>4, MarginAfter
<1>6. Carries(start, funded) /\ funded.p.size = start.p.size
  BY <1>3, <1>5, FundingCarries
<1>7. start.p.size = 0 /\ start.p.margin = 0 => funded.p.margin = 0
  BY <1>3, <1>5, IdleFunding
<1> HIDE DEF funded
<1>8. IsAccount(funded)
  BY <1>6 DEF Carries
<1>9. /\ IsAccount(acc) /\ acc.m = funded.m
      /\ acc.p.margin = funded.p.margin + (-amount) /\ acc.p.size = funded.p.size
  BY <1>1, <1>2, <1>8, MarginMoves
<1> HIDE DEF acc
<1>10. acc.m \in Market /\ acc.p \in Position /\ acc.p.margin \in Nat /\ Pool(acc.m) \in Nat /\ funded.p.margin \in Nat
  BY <1>8, <1>9, AccountParts
<1>11. acc.p.margin + Pool(acc.m) = positions[a][t].margin + Pool(markets[a]) + (-amount)
  <2>1. funded.p.margin + Pool(funded.m) = start.p.margin + Pool(start.m)
    BY <1>6 DEF Carries
  <2>2. Pool(start.m) = Pool(markets[a]) /\ start.p.margin = positions[a][t].margin
    BY <1>3, StartFacts
  <2>3. start.p.margin \in Nat /\ Pool(start.m) \in Nat
    BY <1>3, AccountParts
  <2> QED BY <1>2, <1>9, <1>10, <2>1, <2>2, <2>3
<1>12. acc.p.size = positions[a][t].size /\ acc.m.long = markets[a].long /\ acc.m.short = markets[a].short
       /\ acc.m.open = markets[a].open
  <2>1. SameBook(start.m, funded.m)
    BY <1>6 DEF Carries
  <2> QED BY <1>3, <1>6, <1>9, <2>1, StartFacts DEF SameBook
<1>13. /\ acc.m.long = markets[a].long - Long(positions[a][t]) + Long(acc.p)
       /\ acc.m.short = markets[a].short - Short(positions[a][t]) + Short(acc.p)
       /\ acc.m.open = markets[a].open - Counted(positions[a][t]) + Counted(acc.p)
  <2>1. Long(acc.p) = Long(positions[a][t]) /\ Short(acc.p) = Short(positions[a][t])
        /\ Counted(acc.p) = Counted(positions[a][t])
    BY <1>12 DEF Long, Short, Counted
  <2>2. Long(acc.p) \in Nat /\ Short(acc.p) \in Nat /\ Counted(acc.p) \in {0, 1}
    BY <1>10, PositionParts
  <2>3. acc.m.long \in Nat /\ acc.m.short \in Nat /\ acc.m.open \in Nat
    BY <1>9, AccountParts
  <2> QED BY <1>12, <2>1, <2>2, <2>3
<1>14. acc.p.size = 0 => acc.p.margin = 0
  <2>1. ASSUME acc.p.size = 0 PROVE FALSE
    <3>1. start.p.size = 0 /\ start.p.margin = 0
      BY <1>3, <1>12, <2>1, StartFacts, SMTT(30), ZenonT(60)
    <3> QED BY <1>2, <1>7, <1>9, <1>10, <3>1
  <2> QED BY <2>1
<1>15. balance' = balance + (-amount) /\ trades' \in 0..MaxTrades
  BY <1>1, <1>2, PerpAssumption
<1>16. TraderMoves(a, t, acc.m, acc.p, -amount)
  BY <1>1, <1>2, <1>10, <1>11, <1>13, <1>14, <1>15 DEF TraderMoves
<1> QED BY <1>1, <1>16

\* An owner trades, and changes the margin.
LEMMA ModifyMoves ==
    ASSUME PerpInv, NEW a \in Agents, NEW t \in Traders,
           NEW marginDelta \in MarginDeltas, NEW sizeDelta \in SizeDeltas,
           ModifyPosition(a, t, marginDelta, sizeDelta)
    PROVE  \E m, p, d : TraderMoves(a, t, m, p, d) /\ (p.size # 0 => Healthy(m, p))
<1> DEFINE was == positions[a][t]
           start == Start(a, t)
           funded == SettleFunding(start, FALSE)
           price == ExecutionPrice(funded.m, sizeDelta)
           lifted == [funded EXCEPT !.m = RemoveOpenInterest(@, was.size)]
           traded == ApplySizeDelta(lifted, sizeDelta, price)
           margined == ApplyMarginDelta(traded, marginDelta)
           charged == ChargeFees(margined, config[a], sizeDelta, price)
           q == charged.p
           added == AddOpenInterest(charged.m, q.size)
           opened == Counted(q) - Counted(was)
           after == [added EXCEPT !.open = @ + opened]
           blank == [NoPosition EXCEPT !.rate = after.rate]
           p == IF q.size = 0 THEN blank ELSE q
           d == marginDelta - (IF q.size = 0 THEN q.margin ELSE 0)
<1>1. /\ charged.ok /\ config[a].exists /\ (q.size = 0 \/ Healthy(after, q))
      /\ markets' = [markets EXCEPT ![a] = after] /\ positions' = [positions EXCEPT ![a][t] = p]
      /\ balance' = balance + marginDelta - (IF q.size = 0 THEN q.margin ELSE 0)
      /\ UNCHANGED <<now, skills, config, tradingPaused, marketCreationPaused, acts>>
      /\ trades < MaxTrades /\ trades' = trades + 1
  BY DEF ModifyPosition, Start, Counted
<1>2. marginDelta \in Int /\ sizeDelta \in Int /\ balance \in Nat /\ trades \in 0..MaxTrades
      /\ {config[a].treasury, config[a].maker} \subseteq Nat
  <2>1. config[a] \in [treasury : 0..BPS, maker : 0..BPS, cap : Nat, exists : BOOLEAN]
    BY DEF PerpInv, TypeOK
  <2>2. {config[a].treasury, config[a].maker} \subseteq Nat
    BY <2>1, Constants
  <2> QED BY <2>2, PerpAssumption DEF PerpInv, TypeOK
<1> HIDE DEF start, was
<1>3. /\ IsAccount(start) /\ DOMAIN start = Parts /\ start.m = Synced(a) /\ start.p = was
      /\ was \in Position /\ start.m.long = markets[a].long /\ start.m.short = markets[a].short
      /\ start.m.open = markets[a].open /\ Pool(start.m) = Pool(markets[a])
      /\ Long(was) <= start.m.long /\ Short(was) <= start.m.short /\ Counted(was) <= start.m.open
  BY StartFacts DEF start, was
<1>4. DOMAIN funded = Parts
  BY <1>3, FundingAfter
<1>5. DOMAIN lifted = Parts /\ (lifted.ok => funded.ok)
  BY <1>4 DEF Parts
<1>6. DOMAIN traded = Parts /\ (traded.ok => lifted.ok)
  <2> HIDE DEF lifted, price
  <2> QED BY <1>5, TradeAfter
<1>7. DOMAIN margined = Parts /\ (margined.ok => traded.ok)
  <2> HIDE DEF traded
  <2> QED BY <1>6, MarginAfter
<1>8. margined.ok
  <2> HIDE DEF margined, price
  <2> QED BY <1>1, <1>7, FeesAfter
<1>9. funded.ok /\ traded.ok
  BY <1>5, <1>6, <1>7, <1>8
<1>10. Carries(start, funded) /\ funded.p.size = was.size
  BY <1>3, <1>9, FundingCarries
<1> HIDE DEF funded
<1>11. IsAccount(funded) /\ funded.m \in Market
  BY <1>10, AccountParts DEF Carries
<1>12. Without(RemoveOpenInterest(funded.m, was.size), funded.m, was)
  <2>1. SameBook(start.m, funded.m)
    BY <1>10 DEF Carries
  <2>2. Long(was) <= funded.m.long /\ Short(was) <= funded.m.short
    BY <1>3, <2>1 DEF SameBook
  <2> QED BY <1>3, <1>11, <2>2, InterestMoves
<1>13. IsAccount(lifted) /\ lifted.m = RemoveOpenInterest(funded.m, was.size) /\ lifted.p = funded.p
  <2>1. RemoveOpenInterest(funded.m, was.size) \in Market
    BY <1>12 DEF Without
  <2> QED BY <1>11, <2>1, OtherMarket
<1>14. price \in Nat
  BY <1>2, <1>11, PriceType
<1> HIDE DEF lifted, price
<1>15. Carries(lifted, traded) /\ traded.p.size = was.size + sizeDelta
  BY <1>2, <1>9, <1>10, <1>13, <1>14, TradeCarries
<1> HIDE DEF traded
<1>16. IsAccount(traded)
  BY <1>15 DEF Carries
<1>17. /\ IsAccount(margined) /\ margined.m = traded.m
       /\ margined.p.margin = traded.p.margin + marginDelta /\ margined.p.size = traded.p.size
  BY <1>2, <1>8, <1>16, MarginMoves
<1> HIDE DEF margined
<1>18. Carries(margined, charged) /\ charged.p.size = margined.p.size
  BY <1>1, <1>2, <1>14, <1>17, FeesCarry
<1> HIDE DEF charged
<1>19. IsAccount(charged) /\ charged.m \in Market /\ q \in Position /\ q.margin \in Nat /\ q.size \in Int
  BY <1>18, AccountParts DEF Carries
<1> HIDE DEF q
<1>20. With(added, charged.m, q)
  BY <1>19, InterestMoves
<1> HIDE DEF added
<1>21. /\ Long(was) \in Nat /\ Short(was) \in Nat /\ Counted(was) \in {0, 1}
       /\ Long(q) \in Nat /\ Short(q) \in Nat /\ Counted(q) \in {0, 1} /\ was.margin \in Nat
  BY <1>3, <1>19, PositionParts
\* What the market counts: the position taken out and put in again.
<1>22. /\ added.long = start.m.long - Long(was) + Long(q)
       /\ added.short = start.m.short - Short(was) + Short(q)
       /\ added.open = start.m.open
  <2>1. SameBook(start.m, funded.m) /\ SameBook(lifted.m, traded.m) /\ SameBook(margined.m, charged.m)
    BY <1>10, <1>15, <1>18 DEF Carries
  <2>2. /\ funded.m.long = start.m.long /\ funded.m.short = start.m.short /\ funded.m.open = start.m.open
        /\ traded.m.long = lifted.m.long /\ traded.m.short = lifted.m.short /\ traded.m.open = lifted.m.open
        /\ charged.m.long = margined.m.long /\ charged.m.short = margined.m.short /\ charged.m.open = margined.m.open
    BY <2>1 DEF SameBook
  <2>3. /\ lifted.m.long = funded.m.long - Long(was) /\ lifted.m.short = funded.m.short - Short(was)
        /\ lifted.m.open = funded.m.open
    BY <1>12, <1>13 DEF Without
  <2>4. /\ added.long = charged.m.long + Long(q) /\ added.short = charged.m.short + Short(q)
        /\ added.open = charged.m.open
    BY <1>20 DEF With
  <2> QED BY <1>17, <2>2, <2>3, <2>4
\* What the account holds: the margin delta has come in.
<1>23. q.margin + Pool(added) = was.margin + Pool(markets[a]) + marginDelta
  <2>1. /\ funded.p.margin + Pool(funded.m) = start.p.margin + Pool(start.m)
        /\ traded.p.margin + Pool(traded.m) = lifted.p.margin + Pool(lifted.m)
        /\ charged.p.margin + Pool(charged.m) = margined.p.margin + Pool(margined.m)
    BY <1>10, <1>15, <1>18 DEF Carries
  <2>2. Pool(lifted.m) = Pool(funded.m) /\ Pool(added) = Pool(charged.m)
    BY <1>12, <1>13, <1>20 DEF Without, With
  <2>3. /\ {funded.p.margin, traded.p.margin, start.p.margin, margined.p.margin} \subseteq Nat
        /\ {Pool(funded.m), Pool(traded.m), Pool(start.m), Pool(charged.m), Pool(margined.m)} \subseteq Nat
    BY <1>3, <1>11, <1>16, <1>17, <1>19, AccountParts
  <2> QED BY <1>2, <1>3, <1>13, <1>17, <1>19, <2>1, <2>2, <2>3 DEF q
<1>24. /\ after \in Market /\ after.long = added.long /\ after.short = added.short
       /\ after.open = added.open - Counted(was) + Counted(q) /\ Pool(after) = Pool(added)
  <2>1. added \in Market
    BY <1>20 DEF With
  <2>2. added.open \in Nat /\ Counted(was) <= added.open
    BY <1>3, <1>22, <2>1 DEF Market
  <2>3. added.open + opened \in Nat /\ added.open + opened = added.open - Counted(was) + Counted(q)
    BY <1>21, <2>2
  <2> HIDE DEF opened
  <2> QED BY <2>1, <2>3 DEF Market, Pool
<1> HIDE DEF after, opened
<1>25. blank \in Position /\ blank.size = 0 /\ blank.margin = 0
  BY <1>24 DEF NoPosition, Position, Market
<1> HIDE DEF blank
<1>26. /\ p \in Position /\ Long(p) = Long(q) /\ Short(p) = Short(q) /\ Counted(p) = Counted(q)
       /\ (p.size = 0 => p.margin = 0)
  BY <1>19, <1>25 DEF Long, Short, Counted
<1>27. p.margin + Pool(after) = was.margin + Pool(markets[a]) + d
  <2>1. Pool(added) \in Int /\ Pool(markets[a]) \in Int
    <3>1. added \in Market /\ markets[a] \in Market
      BY <1>20 DEF With, PerpInv, TypeOK
    <3> QED BY <3>1 DEF Pool, Market
  <2>2. p.margin = IF q.size = 0 THEN 0 ELSE q.margin
    BY <1>25
  <2> QED BY <1>2, <1>19, <1>21, <1>23, <1>24, <2>1, <2>2
<1>28. d \in Int /\ balance' = balance + d /\ trades' \in 0..MaxTrades
  BY <1>1, <1>2, <1>19, PerpAssumption
<1>29. p.size # 0 => Healthy(after, p)
  BY <1>1, <1>25
<1> HIDE DEF p, d
<1>30. TraderMoves(a, t, after, p, d)
  BY <1>1, <1>3, <1>22, <1>24, <1>26, <1>27, <1>28 DEF TraderMoves, was
<1> QED BY <1>29, <1>30

\* No more is liquidated than there is, and something is.
LEMMA LiquidatedIsPart ==
    ASSUME NEW m \in Market, NEW p \in Position, p.size # 0, CanSize(m, p)
    PROVE  LiquidatedSize(m, p) \in 1 .. Abs(p.size)
<1> DEFINE size == Abs(p.size)
           worth == (Equity(m, p) * BPS) \div PartialTargetBps
           target == (worth * ONE) \div MarkPrice(m)
           part == IF size - target < size \div 10 THEN size \div 10 ELSE size - target
<1>1. size \in Nat /\ size # 0
  BY PositionParts DEF Abs
<1>2. LiquidatedSize(m, p) = IF Equity(m, p) > 0 /\ size > ONE /\ target > 0 /\ target < size THEN part ELSE size
  BY DEF LiquidatedSize
<1>3. ASSUME Equity(m, p) > 0, size > ONE, target > 0, target < size
      PROVE  part \in 1 .. size
  <2>1. Equity(m, p) \in Nat /\ MarkPrice(m) \in Nat /\ MarkPrice(m) # 0
    <3>1. MarkPrice(m) > 0
      BY <1>3 DEF CanSize
    <3> QED BY <1>3, <3>1, WorthType, PriceType
  <2>2. Equity(m, p) * BPS \in Nat
    BY <2>1, Constants, Product
  <2>3. worth \in Nat
    BY <2>2, Constants, Division
  <2> HIDE DEF worth
  <2>4. worth * ONE \in Nat
    BY <2>3, Constants, Product
  <2>5. target \in Nat
    BY <2>1, <2>4, Division
  <2> HIDE DEF target, size
  <2> QED BY <1>1, <1>3, <2>5
<1> HIDE DEF part, target
<1> QED BY <1>1, <1>2, <1>3

\* A position is liquidated, in part or whole.
LEMMA LiquidateMoves ==
    ASSUME PerpInv, NEW a \in Agents, NEW t \in Traders, Liquidate(a, t)
    PROVE  (\E m, p, d : TraderMoves(a, t, m, p, d)) /\ trades' = trades
<1> DEFINE was == positions[a][t]
           start == Start(a, t)
           funded == SettleFunding(start, TRUE)
           closed == LiquidatedSize(funded.m, funded.p)
           delta == IF was.size > 0 THEN -closed ELSE closed
           price == ExecutionPrice(funded.m, delta)
           pnl == RealizePnl(was.size, was.entry, price, closed)
           settled == Settle(funded, pnl, TRUE)
           reward == Reward(settled, funded.p.margin, closed, Abs(was.size))
           fromMargin == Least(reward, settled.p.margin)
           seized == settled.p.margin - fromMargin
           toInsurance == Least(seized, (funded.p.margin * MaxSocializedLossBps) \div BPS)
           removed == RemoveOpenInterest(settled.m, was.size)
           rewarded == [removed EXCEPT !.insurance = @ - (reward - fromMargin)]
           size == was.size + delta
           entry == RemainingEntry(was, price, closed)
           rest == [funded.p EXCEPT !.size = size, !.margin = seized, !.entry = entry]
           smaller == AddOpenInterest(rewarded, size)
           closedMarket == [rewarded EXCEPT !.open = @ - 1, !.insurance = @ + toInsurance,
                                            !.vault = @ + (seized - toInsurance)]
           none == [NoPosition EXCEPT !.rate = funded.m.rate]
<1>1. /\ config[a].exists /\ was.size # 0 /\ funded.ok /\ CanSize(funded.m, funded.p) /\ settled.ok
      /\ IF size # 0
         THEN markets' = [markets EXCEPT ![a] = smaller] /\ positions' = [positions EXCEPT ![a][t] = rest]
         ELSE markets' = [markets EXCEPT ![a] = closedMarket] /\ positions' = [positions EXCEPT ![a][t] = none]
      /\ balance' = balance - reward
      /\ UNCHANGED <<now, skills, config, tradingPaused, marketCreationPaused, trades, acts>>
  BY DEF Liquidate, Start
<1> HIDE DEF start, was
<1>2. /\ IsAccount(start) /\ DOMAIN start = Parts /\ start.m = Synced(a) /\ start.p = was
      /\ was \in Position /\ start.m.long = markets[a].long /\ start.m.short = markets[a].short
      /\ start.m.open = markets[a].open /\ Pool(start.m) = Pool(markets[a])
      /\ Long(was) <= start.m.long /\ Short(was) <= start.m.short /\ Counted(was) <= start.m.open
  BY StartFacts DEF start, was
<1>3. Carries(start, funded) /\ funded.p.size = was.size
  BY <1>1, <1>2, FundingCarries, SMTT(30), ZenonT(60)
<1> HIDE DEF funded
<1>4. IsAccount(funded) /\ funded.m \in Market /\ funded.p \in Position /\ funded.p.margin \in Nat /\ funded.m.rate \in Int
  BY <1>3, AccountParts DEF Carries
<1>5. was.size \in Int /\ was.entry \in Nat /\ was.margin \in Nat
  BY <1>2 DEF Position
<1>6. closed \in 1 .. Abs(was.size) /\ Abs(was.size) \in Nat
  <2>1. closed \in 1 .. Abs(funded.p.size)
    BY <1>1, <1>3, <1>4, LiquidatedIsPart
  <2> HIDE DEF closed
  <2> QED BY <1>3, <1>5, <2>1 DEF Abs
<1> HIDE DEF closed
<1>7. delta \in Int /\ closed \in Nat /\ closed # 0 /\ size \in Int
      /\ (size # 0 => Abs(was.size) - closed \in Nat /\ Abs(was.size) - closed # 0)
  BY <1>5, <1>6 DEF Abs
<1> HIDE DEF delta, size
<1>8. price \in Nat
  BY <1>4, <1>7, PriceType
<1> HIDE DEF price
<1>9. pnl \in Int
  BY <1>5, <1>7, <1>8, PnlType
<1> HIDE DEF pnl
<1>10. Carries(funded, settled) /\ settled.p.size = was.size
  BY <1>1, <1>3, <1>4, <1>9, SettleCarries
<1> HIDE DEF settled
<1>11. /\ IsAccount(settled) /\ settled.m \in Market /\ settled.p \in Position
       /\ settled.p.margin \in Nat /\ settled.m.insurance \in Nat
  BY <1>10, AccountParts DEF Carries
\* The reward comes out of what is left of the margin, and out of the insurance fund.
<1>12. reward \in Nat /\ reward <= settled.p.margin + settled.m.insurance
  <2> DEFINE share == (((funded.p.margin * LiquidationRewardBps) \div BPS) * closed) \div Abs(was.size)
             limit == settled.p.margin + settled.m.insurance \div MaxInsuranceDrawDivisor
  <2>1. funded.p.margin * LiquidationRewardBps \in Nat
    BY <1>4, Constants, Product
  <2>2. (funded.p.margin * LiquidationRewardBps) \div BPS \in Nat
    BY <2>1, Constants, Division
  <2>3. ((funded.p.margin * LiquidationRewardBps) \div BPS) * closed \in Nat
    BY <1>7, <2>2, Product
  <2>4. share \in Nat
    BY <1>6, <1>7, <2>3, Division
  <2>5. limit \in Nat /\ limit <= settled.p.margin + settled.m.insurance
    BY <1>11 DEF MaxInsuranceDrawDivisor
  <2>6. reward = Least(share, limit)
    BY DEF Reward
  <2> HIDE DEF share, limit, reward
  <2>7. reward \in Nat /\ reward <= limit
    BY <2>4, <2>5, <2>6, LeastOf
  <2> QED BY <1>11, <2>5, <2>7
<1> HIDE DEF reward
<1>13. fromMargin \in Nat /\ fromMargin <= settled.p.margin /\ fromMargin <= reward
       /\ reward - fromMargin <= settled.m.insurance
  BY <1>11, <1>12 DEF Least
<1> HIDE DEF fromMargin
<1>14. seized \in Nat /\ seized = settled.p.margin - fromMargin
  BY <1>11, <1>13
<1>15. toInsurance \in Nat /\ toInsurance <= seized
  <2>1. funded.p.margin * MaxSocializedLossBps \in Nat
    BY <1>4, Constants, Product
  <2>2. (funded.p.margin * MaxSocializedLossBps) \div BPS \in Nat
    BY <2>1, Constants, Division
  <2> HIDE DEF seized
  <2> QED BY <1>14, <2>2, LeastOf
<1> HIDE DEF seized, toInsurance
<1>16. SameBook(start.m, settled.m)
  BY <1>3, <1>10 DEF Carries, SameBook
<1>17. Without(removed, settled.m, was)
  <2>1. Long(was) <= settled.m.long /\ Short(was) <= settled.m.short
    BY <1>2, <1>16 DEF SameBook
  <2> QED BY <1>2, <1>11, <2>1, InterestMoves
<1>18. removed.insurance = settled.m.insurance
  BY <1>17 DEF Without
<1> HIDE DEF removed
<1>19. /\ rewarded \in Market /\ rewarded.long = removed.long /\ rewarded.short = removed.short
       /\ rewarded.open = removed.open /\ Pool(rewarded) = Pool(removed) - (reward - fromMargin)
  <2> DEFINE left == removed.insurance - (reward - fromMargin)
  <2>1. removed \in Market
    BY <1>17 DEF Without
  <2>2. left \in Nat /\ left = removed.insurance - (reward - fromMargin)
    BY <1>11, <1>12, <1>13, <1>18
  <2>3. rewarded = [removed EXCEPT !.insurance = left]
    OBVIOUS
  <2> HIDE DEF rewarded, left
  <2>4. /\ rewarded \in Market /\ rewarded.long = removed.long /\ rewarded.short = removed.short
        /\ rewarded.open = removed.open /\ rewarded.insurance = left /\ rewarded.vault = removed.vault
        /\ rewarded.treasuryFees = removed.treasuryFees /\ rewarded.makerFees = removed.makerFees
    BY <2>1, <2>2, <2>3 DEF Market
  <2>5. {removed.vault, removed.insurance, removed.treasuryFees, removed.makerFees} \subseteq Nat
    BY <2>1 DEF Market
  <2> QED BY <1>12, <1>13, <2>2, <2>4, <2>5 DEF Pool
<1> HIDE DEF rewarded
<1>20. /\ rewarded.long = markets[a].long - Long(was) /\ rewarded.short = markets[a].short - Short(was)
       /\ rewarded.open = markets[a].open
  BY <1>2, <1>16, <1>17, <1>19 DEF SameBook, Without
\* What the account holds before anything of it is paid out.
<1>21. settled.p.margin + Pool(settled.m) = was.margin + Pool(markets[a])
  BY <1>2, <1>3, <1>10 DEF Carries
<1>22. Pool(rewarded) + (reward - fromMargin) = Pool(settled.m) /\ Pool(rewarded) \in Nat /\ Pool(markets[a]) \in Nat
  <2>1. Pool(removed) = Pool(settled.m)
    BY <1>17 DEF Without
  <2>2. Pool(settled.m) \in Nat /\ Pool(start.m) \in Nat
    BY <1>2, <1>11, AccountParts
  <2>3. Pool(rewarded) \in Nat
    BY <1>19 DEF Market, Pool
  <2> QED BY <1>2, <1>12, <1>13, <1>19, <2>1, <2>2, <2>3
<1>23. Long(was) \in Nat /\ Short(was) \in Nat /\ Counted(was) = 1 /\ markets[a].open \in Nat
       /\ markets[a].long \in Nat /\ markets[a].short \in Nat
  BY <1>1, <1>2, PositionParts, StartFacts DEF Counted, Market
<1> DEFINE d == -reward
<1>24. d \in Int /\ balance' = balance + d /\ trades' \in 0..MaxTrades /\ balance \in Nat
  BY <1>1, <1>12 DEF PerpInv, TypeOK
<1>25. CASE size # 0
  <2>1. entry \in Nat
    <3>0. Notional(was.size, was.entry) \in Nat
      BY <1>5, NotionalType
    <3>1. Notional(was.size, was.entry) \in Nat /\ Notional(closed, price) \in Nat
      <4>1. closed \in Int
        BY <1>7
      <4> QED BY <1>8, <3>0, <4>1, NotionalType
    <3>2. Notional(was.size, was.entry) - Least(Notional(closed, price), Notional(was.size, was.entry)) \in Nat
      BY <3>1, LeastOf, SMTT(30), ZenonT(60)
    <3>3. (Notional(was.size, was.entry) - Least(Notional(closed, price), Notional(was.size, was.entry))) * ONE \in Nat
      BY <3>2, Constants, Product
    <3> QED BY <1>7, <1>25, <3>3, Division DEF RemainingEntry
  <2> HIDE DEF entry
  <2>2. rest \in Position /\ rest.size = size /\ rest.margin = seized
    BY <1>4, <1>7, <1>14, <2>1 DEF Position
  <2> HIDE DEF rest
  <2>3. With(smaller, rewarded, rest)
    BY <1>19, <2>2, InterestMoves
  <2> HIDE DEF smaller
  <2>4. Counted(rest) = 1 /\ Long(rest) \in Nat /\ Short(rest) \in Nat
    BY <1>25, <2>2, PositionParts DEF Counted
  <2>5. rest.margin + Pool(smaller) = was.margin + Pool(markets[a]) + d
    BY <1>5, <1>11, <1>12, <1>13, <1>14, <1>21, <1>22, <2>2, <2>3 DEF With
  <2>6. /\ smaller.long = markets[a].long - Long(was) + Long(rest)
        /\ smaller.short = markets[a].short - Short(was) + Short(rest)
        /\ smaller.open = markets[a].open - Counted(was) + Counted(rest)
    BY <1>20, <1>23, <2>3, <2>4 DEF With
  <2>7. smaller \in Market
    BY <2>3 DEF With
  <2>8. markets' = [markets EXCEPT ![a] = smaller] /\ positions' = [positions EXCEPT ![a][t] = rest]
    BY <1>1, <1>25
  <2> HIDE DEF d
  <2>9. TraderMoves(a, t, smaller, rest, d)
    BY <1>1, <1>24, <1>25, <2>2, <2>5, <2>6, <2>7, <2>8 DEF TraderMoves, was
  <2> QED BY <1>1, <2>9
<1>26. CASE size = 0
  <2>1. none \in Position /\ none.size = 0 /\ none.margin = 0
    BY <1>4 DEF NoPosition, Position
  <2> HIDE DEF none
  <2>2. /\ closedMarket \in Market /\ closedMarket.long = rewarded.long /\ closedMarket.short = rewarded.short
        /\ closedMarket.open = rewarded.open - 1 /\ Pool(closedMarket) = Pool(rewarded) + seized
    <3>1. {rewarded.open, rewarded.insurance, rewarded.vault, rewarded.treasuryFees, rewarded.makerFees} \subseteq Nat
      BY <1>19 DEF Market
    <3>2. rewarded.open - 1 \in Nat /\ rewarded.insurance + toInsurance \in Nat
          /\ rewarded.vault + (seized - toInsurance) \in Nat
      BY <1>2, <1>14, <1>15, <1>20, <1>23, <3>1
    <3>3. /\ closedMarket \in Market /\ closedMarket.long = rewarded.long /\ closedMarket.short = rewarded.short
          /\ closedMarket.open = rewarded.open - 1 /\ closedMarket.insurance = rewarded.insurance + toInsurance
          /\ closedMarket.vault = rewarded.vault + (seized - toInsurance)
          /\ closedMarket.treasuryFees = rewarded.treasuryFees /\ closedMarket.makerFees = rewarded.makerFees
      BY <1>19, <3>2 DEF Market
    <3> HIDE DEF closedMarket
    <3> QED BY <1>14, <1>15, <3>1, <3>3 DEF Pool
  <2> HIDE DEF closedMarket
  <2>3. Counted(none) = 0 /\ Long(none) = 0 /\ Short(none) = 0
    BY <2>1 DEF Counted, Long, Short
  <2>4. none.margin + Pool(closedMarket) = was.margin + Pool(markets[a]) + d
    BY <1>5, <1>11, <1>12, <1>13, <1>14, <1>21, <1>22, <2>1, <2>2
  <2>5. /\ closedMarket.long = markets[a].long - Long(was) + Long(none)
        /\ closedMarket.short = markets[a].short - Short(was) + Short(none)
        /\ closedMarket.open = markets[a].open - Counted(was) + Counted(none)
    BY <1>20, <1>23, <2>2, <2>3
  <2>6. markets' = [markets EXCEPT ![a] = closedMarket] /\ positions' = [positions EXCEPT ![a][t] = none]
    BY <1>1, <1>26
  <2> HIDE DEF d
  <2>7. TraderMoves(a, t, closedMarket, none, d)
    BY <1>1, <1>24, <2>1, <2>2, <2>4, <2>5, <2>6 DEF TraderMoves, was
  <2> QED BY <1>1, <2>7
<1> QED BY <1>25, <1>26

\* Every step keeps the invariant.
LEMMA PerpStep ==
    ASSUME PerpInv, [Next]_vars
    PROVE  PerpInv'
<1>1. CASE Tick \/ SetPaused
  <2>1. CASE Agents = {}
    <3>1. markets' = markets /\ positions' = positions /\ balance' = balance /\ config' = config
          /\ trades' = trades /\ skills' = skills
      BY <1>1 DEF Tick, SetPaused
    <3>2. now' \in 0..MaxTime /\ acts' \in 0..MaxActs
      BY <1>1, PerpAssumption DEF PerpInv, TypeOK, Tick, SetPaused, Act
    <3>3. tradingPaused' \in BOOLEAN /\ marketCreationPaused' \in BOOLEAN
      BY <1>1 DEF PerpInv, TypeOK, Tick, SetPaused
    <3> QED BY <3>1, <3>2, <3>3 DEF PerpInv, TypeOK, BalanceSheet, Blank
  <2>2. CASE Agents # {}
    <3>1. PICK a \in Agents : TRUE
      BY <2>2
    <3> QED BY <1>1, <3>1, QuietSteps
  <2> QED BY <2>1, <2>2
<1>2. ASSUME NEW a \in Agents, UpdateAgentSkill(a) \/ RemoveAgent(a) PROVE PerpInv'
  BY <1>2, QuietSteps
<1>3. ASSUME NEW a \in Agents, CreateMarket(a) PROVE PerpInv'
  BY <1>3, CreateSteps
<1>4. ASSUME NEW a \in Agents,
             \/ SetMarketStatus(a) \/ SyncOracle(a) \/ DepositInsuranceFund(a)
             \/ WithdrawInsuranceFund(a) \/ WithdrawFeeBalance(a) \/ RecycleMmFees(a)
      PROVE  PerpInv'
  BY <1>4, GovernanceSteps
<1>5. ASSUME NEW a \in Agents, NEW t \in Traders, Owner(a, t) PROVE PerpInv'
  <2>1. CASE \E marginDelta \in MarginDeltas, sizeDelta \in SizeDeltas : ModifyPosition(a, t, marginDelta, sizeDelta)
    BY <2>1, ModifyMoves, TraderSteps
  <2>2. CASE \E amount \in Payments : WithdrawMargin(a, t, amount)
    BY <2>2, WithdrawMoves, TraderSteps
  <2> QED BY <1>5, <2>1, <2>2 DEF Owner
<1>6. ASSUME NEW a \in Agents, NEW t \in Traders, Liquidate(a, t) PROVE PerpInv'
  BY <1>6, LiquidateMoves, TraderSteps
<1>7. CASE UNCHANGED vars
  BY <1>7 DEF vars, PerpInv, TypeOK, BalanceSheet, Blank
<1>8. CASE Next
  <2>1. \/ Tick \/ SetPaused
        \/ \E a \in Agents : UpdateAgentSkill(a) \/ RemoveAgent(a)
        \/ \E a \in Agents : CreateMarket(a)
        \/ \E a \in Agents : \/ SetMarketStatus(a) \/ SyncOracle(a) \/ DepositInsuranceFund(a)
                             \/ WithdrawInsuranceFund(a) \/ WithdrawFeeBalance(a) \/ RecycleMmFees(a)
        \/ \E a \in Agents, t \in Traders : Owner(a, t)
        \/ \E a \in Agents, t \in Traders : Liquidate(a, t)
    BY <1>8 DEF Next
  <2> QED BY <1>1, <1>2, <1>3, <1>4, <1>5, <1>6, <2>1
<1> QED BY <1>7, <1>8

\* The leverage a market allows is covered by the maintenance margin it asks for: what is left of a
\* position at the largest leverage is still more than that margin.
LeverageCovered == (MaxLeverage + 1) * MaintenanceMarginBps <= ONE * BPS

\* A position within the leverage cannot be liquidated at the same mark price.
LEMMA HealthyIsSafe ==
    ASSUME LeverageCovered, NEW m \in Market, NEW p \in Position, Healthy(m, p)
    PROVE  ~Liquidatable(m, p)
<1> DEFINE n == Notional(p.size, MarkPrice(m))
           e == Equity(m, p)
           q == (n * ONE) \div e
<1>1. n \in Nat /\ e \in Nat /\ e # 0 /\ q <= MaxLeverage
  BY WorthType DEF Healthy
<1>2. MaintenanceMargin(m, p) = (n * MaintenanceMarginBps) \div BPS /\ (Liquidatable(m, p) => e <= MaintenanceMargin(m, p))
  BY DEF MaintenanceMargin, Liquidatable
<1> HIDE DEF n, e
<1>3. n * ONE \in Nat
  BY <1>1, Constants, Product
<1>4. q \in Nat /\ n * ONE < e * q + e
  BY <1>1, <1>3, Division
<1> HIDE DEF q
<1>5. n * ONE < e * (MaxLeverage + 1)
  <2>1. e * q <= e * MaxLeverage
    BY <1>1, <1>4, Constants, ProductGrows
  <2>2. e * (MaxLeverage + 1) = e * MaxLeverage + e
    BY <1>1, Constants
  <2>3. e * q \in Int /\ e * MaxLeverage \in Int
    BY <1>1, <1>4, Constants
  <2> QED BY <1>1, <1>3, <1>4, <2>1, <2>2, <2>3
<1>6. n * MaintenanceMarginBps < e * BPS
  <2> DEFINE k == MaintenanceMarginBps
             b == BPS
             L == MaxLeverage + 1
  <2>1. k \in Nat /\ k # 0 /\ b \in Nat /\ L \in Nat /\ ONE \in Nat /\ ONE # 0 /\ L * k <= ONE * b
    BY Constants DEF LeverageCovered
  <2> HIDE DEF k, b, L
  <2> SUFFICES ASSUME n * k >= e * b PROVE FALSE
    <3>1. n * k \in Int /\ e * b \in Int
      BY <1>1, <2>1
    <3> QED BY <3>1 DEF k, b
  <2>2. ONE * (e * b) <= ONE * (n * k)
    <3>1. e * b \in Int /\ n * k \in Int
      BY <1>1, <2>1
    <3> QED BY <2>1, <3>1, ProductGrows
  <2>3. e * (L * k) <= e * (ONE * b)
    <3>1. L * k \in Int /\ ONE * b \in Int
      BY <2>1
    <3> QED BY <1>1, <2>1, <3>1, ProductGrows
  <2>4. k * (n * ONE + 1) <= k * (e * L)
    <3>1. e * L \in Int /\ n * ONE + 1 \in Int /\ n * ONE + 1 <= e * L
      BY <1>1, <1>3, <1>5, <2>1 DEF L
    <3> QED BY <2>1, <3>1, ProductGrows
  <2>5. k * (n * ONE + 1) = ONE * (n * k) + k
    BY <1>1, <2>1
  <2>6. k * (e * L) = e * (L * k) /\ ONE * (e * b) = e * (ONE * b)
    BY <1>1, <2>1
  <2>7. ONE * (n * k) \in Int /\ e * (L * k) \in Int /\ e * (ONE * b) \in Int
    BY <1>1, <2>1
  <2> QED BY <2>1, <2>2, <2>3, <2>4, <2>5, <2>6, <2>7
<1>7. (n * MaintenanceMarginBps) \div BPS < e
  <2> DEFINE r == (n * MaintenanceMarginBps) \div BPS
  <2>1. n * MaintenanceMarginBps \in Nat
    BY <1>1, Constants, Product
  <2>2. r \in Nat /\ BPS * r <= n * MaintenanceMarginBps
    BY <2>1, Constants, Division
  <2> HIDE DEF r
  <2> SUFFICES ASSUME r >= e PROVE FALSE
    BY <1>1, <2>2 DEF r
  <2>3. BPS * e <= BPS * r
    BY <1>1, <2>2, Constants, ProductGrows
  <2>4. BPS * e = e * BPS /\ BPS * e \in Int /\ BPS * r \in Int
    BY <1>1, <2>2, Constants
  <2> QED BY <1>6, <2>1, <2>2, <2>3, <2>4
<1> QED BY <1>1, <1>2, <1>7, WorthType

\* What a step may not do to a position whose owner made it.
LEMMA OwnerStep ==
    ASSUME LeverageCovered, PerpInv, Next, NEW a \in Agents, NEW t \in Traders,
           positions[a][t]' # positions[a][t], trades' # trades
    PROVE  ~Liquidatable(markets[a], positions[a][t])'
<1>1. PICK b \in Agents, u \in Traders : Owner(b, u)
  <2>1. ASSUME NEW b \in Agents, NEW u \in Traders, Liquidate(b, u) PROVE FALSE
    BY <2>1, LiquidateMoves
  <2>2. ~(Tick \/ SetPaused)
    BY DEF Tick, SetPaused
  <2>3. ASSUME NEW b \in Agents,
               \/ UpdateAgentSkill(b) \/ RemoveAgent(b) \/ CreateMarket(b) \/ SetMarketStatus(b) \/ SyncOracle(b)
               \/ DepositInsuranceFund(b) \/ WithdrawInsuranceFund(b) \/ WithdrawFeeBalance(b) \/ RecycleMmFees(b)
        PROVE FALSE
    BY <2>3 DEF UpdateAgentSkill, RemoveAgent, CreateMarket, SetMarketStatus, SyncOracle, DepositInsuranceFund,
                WithdrawInsuranceFund, WithdrawFeeBalance, RecycleMmFees, ungoverned
  <2> QED BY <2>1, <2>2, <2>3 DEF Next
<1>2. PICK m, p, d : TraderMoves(b, u, m, p, d) /\ (p.size # 0 => Healthy(m, p))
  <2>1. CASE \E marginDelta \in MarginDeltas, sizeDelta \in SizeDeltas : ModifyPosition(b, u, marginDelta, sizeDelta)
    BY <2>1, ModifyMoves
  <2>2. CASE \E amount \in Payments : WithdrawMargin(b, u, amount)
    BY <2>2, WithdrawMoves
  <2> QED BY <1>1, <2>1, <2>2 DEF Owner
<1>3. a = b /\ t = u /\ markets'[a] = m /\ positions'[a][t] = p /\ m \in Market /\ p \in Position
  BY <1>2 DEF TraderMoves, PerpInv, TypeOK
<1>4. ~Liquidatable(m, p)
  <2>1. CASE p.size = 0
    BY <2>1 DEF Liquidatable
  <2>2. CASE p.size # 0
    BY <1>2, <1>3, <2>2, HealthyIsSafe
  <2> QED BY <2>1, <2>2
<1> QED BY <1>3, <1>4

-----------------------------------------------------------------------------
(* The theorems. *)

\* The inductive invariant holds of every behaviour of the engine.
THEOREM PerpInvariant == Spec => []PerpInv
<1>1. Init => PerpInv
  BY InitPerp
<1>2. PerpInv /\ [Next]_vars => PerpInv'
  BY PerpStep
<1> QED BY <1>1, <1>2, PTL DEF Spec

\* AgentPerpEngine.sol:53-128: every counter keeps its type: no subtraction from the vault, the funds,
\* a margin or the open interest goes below zero, whatever is traded, liquidated and withdrawn.
THEOREM PerpTypes == Spec => []TypeOK
<1>1. PerpInv => TypeOK
  BY DEF PerpInv
<1> QED BY <1>1, PerpInvariant, PTL

\* AgentPerpEngine.sol:960-1002 and 557-668: the engine's tokens are what its counters say, to the unit,
\* and the counters of the open positions are what the positions say.
THEOREM BalanceIsExact == Spec => []BalanceSheet
<1>1. PerpInv => BalanceSheet
  BY DEF PerpInv
<1> QED BY <1>1, PerpInvariant, PTL

\* AgentPerpEngine.sol:1006: if the leverage is covered, no owner leaves a position that can be
\* liquidated at once.
THEOREM OwnersLeaveSafe == LeverageCovered => (Spec => SafeAfterOwner)
<1> SUFFICES ASSUME LeverageCovered PROVE Spec => SafeAfterOwner
  OBVIOUS
<1>1. PerpInv /\ [Next]_vars =>
        [\A a \in Agents, t \in Traders :
            positions[a][t]' # positions[a][t] /\ trades' # trades => ~Liquidatable(markets[a], positions[a][t])']_vars
  BY OwnerStep
<1> QED BY <1>1, PerpInvariant, PTL DEF Spec, SafeAfterOwner
=============================================================================
