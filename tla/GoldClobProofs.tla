--------------------------- MODULE GoldClobProofs ---------------------------
(***************************************************************************)
(* What is proved of GoldClob for any number of duels, traders, prices and *)
(* orders and any iteration cap.                                           *)
(*                                                                         *)
(* A book is sound (Good) if its pointers stay within their side and price *)
(* and its index follows its levels; that survives every call, even the    *)
(* withdrawals that corrupt a queue, because it says nothing of which      *)
(* orders a queue has lost.  A run of the matching loop (RunOK) keeps the  *)
(* book sound and pays for what it fills at its limit or better.  With the *)
(* equal totals of the two sides of an unsettled duel (Even) this makes    *)
(* every call move the balance by what it moves in one book (VaultInv).    *)
(* The copy of the duel each market keeps needs nothing of the book        *)
(* (CopyInv).                                                              *)
(*                                                                         *)
(* Of IntactSpec more holds (IntactInv): every price level is the linked   *)
(* list of its open orders by id (Queued, WellQueued).  An order leaves    *)
(* its list at the head (PoppedOff) or where it stands (CutAt) and joins   *)
(* one at the end (RestedAt).  Over intact lists a run of the loop meets   *)
(* no stale head and no revert, fills heads only and empties one in every  *)
(* iteration it goes on after (RunDone), which gives the order of fills,   *)
(* the cap on crossed books and the collateral every maker can take back.  *)
(*                                                                         *)
(* The loop is a recursive function of the iteration, and the totals are   *)
(* folds: what holds of them at every iteration and for every set is       *)
(* proved by the least counterexample (SumTheorems).                       *)
(***************************************************************************)
EXTENDS GoldClob, SumTheorems

-----------------------------------------------------------------------------
(* Amounts are whole thousands of shares, so that no price loses a wei. *)

Lot(a) == a \in Nat /\ a % MAX_PRICE = 0
Ticks == 0..MAX_PRICE

\* What one share of the side costs, in thousandths.
Rate(side, price) == IF side = "BUY" THEN price ELSE MAX_PRICE - price

\* A thousand shares cost the rate, whatever their number.
LEMMA QuoteOfThousands ==
    ASSUME NEW side \in BookSides, NEW price \in Ticks, NEW k \in Nat
    PROVE  /\ k * Rate(side, price) \in Nat
           /\ QuoteCost(side, price, MAX_PRICE * k) = k * Rate(side, price)
<1> DEFINE r == Rate(side, price)
<1>1. r \in Nat
  BY DEF Rate, Ticks, MAX_PRICE
<1>2. QuoteCost(side, price, MAX_PRICE * k) = (MAX_PRICE * k * r) \div MAX_PRICE
  BY DEF QuoteCost, Rate
<1> HIDE DEF r
<1>3. PICK n \in Nat : n = k * r
  BY <1>1
<1>4. MAX_PRICE * k * r = MAX_PRICE * n
  BY <1>1, <1>3 DEF MAX_PRICE
<1>5. (MAX_PRICE * n) \div MAX_PRICE = n
  BY DEF MAX_PRICE
<1> QED BY <1>2, <1>3, <1>4, <1>5 DEF r

\* Amounts are the multiples of a thousand.
LEMMA Thousands ==
    ASSUME NEW a
    PROVE  Lot(a) <=> \E k \in Nat : a = MAX_PRICE * k
<1>1. ASSUME Lot(a) PROVE \E k \in Nat : a = MAX_PRICE * k
  <2>1. a \in Nat /\ a = MAX_PRICE * (a \div MAX_PRICE) + (a % MAX_PRICE) /\ a \div MAX_PRICE \in Nat
    BY <1>1 DEF Lot, MAX_PRICE
  <2> QED BY <1>1, <2>1 DEF Lot, MAX_PRICE
<1>2. ASSUME NEW k \in Nat, a = MAX_PRICE * k PROVE Lot(a)
  BY <1>2 DEF Lot, MAX_PRICE
<1> QED BY <1>1, <1>2

\* Whole thousands are closed under addition and subtraction.
LEMMA LotArith ==
    ASSUME NEW a, NEW c, Lot(a), Lot(c)
    PROVE  Lot(a + c) /\ Lot(0) /\ (c <= a => Lot(a - c))
BY DEF Lot, MAX_PRICE

\* The two sides of an amount cost the amount together.
LEMMA QuoteSides ==
    ASSUME NEW price \in Ticks, NEW a, Lot(a)
    PROVE  /\ \A side \in BookSides : QuoteCost(side, price, a) \in Nat /\ QuoteCost(side, price, 0) = 0
           /\ QuoteCost("BUY", price, a) + QuoteCost("SELL", price, a) = a
<1>1. PICK k \in Nat : a = MAX_PRICE * k
  BY Thousands
<1>2. \A side \in BookSides : QuoteCost(side, price, a) \in Nat
  BY <1>1, QuoteOfThousands
<1>3. \A side \in BookSides : QuoteCost(side, price, 0) = 0
  BY DEF QuoteCost, MAX_PRICE, Ticks
<1>4. QuoteCost("BUY", price, a) = k * price /\ QuoteCost("SELL", price, a) = k * (MAX_PRICE - price)
  BY <1>1, QuoteOfThousands DEF Rate, BookSides
<1>5. k * price + k * (MAX_PRICE - price) = MAX_PRICE * k
  BY DEF Ticks, MAX_PRICE
<1> QED BY <1>1, <1>2, <1>3, <1>4, <1>5

\* A part and the rest cost what the whole costs.
LEMMA QuoteAdds ==
    ASSUME NEW side \in BookSides, NEW price \in Ticks, NEW a, NEW c, Lot(a), Lot(c)
    PROVE  QuoteCost(side, price, a + c) = QuoteCost(side, price, a) + QuoteCost(side, price, c)
<1>1. PICK k \in Nat : a = MAX_PRICE * k
  BY Thousands
<1>2. PICK l \in Nat : c = MAX_PRICE * l
  BY Thousands
<1> DEFINE r == Rate(side, price)
<1>3. r \in Nat
  BY DEF Rate, Ticks, MAX_PRICE
<1>4. a + c = MAX_PRICE * (k + l) /\ k + l \in Nat
  BY <1>1, <1>2 DEF MAX_PRICE
<1>5. /\ QuoteCost(side, price, a) = k * r
      /\ QuoteCost(side, price, c) = l * r
      /\ QuoteCost(side, price, a + c) = (k + l) * r
  BY <1>1, <1>2, <1>4, QuoteOfThousands
<1> HIDE DEF r
<1>6. (k + l) * r = k * r + l * r
  BY <1>3
<1> QED BY <1>5, <1>6

\* A limit that crosses a price costs no less than the price.
LEMMA QuoteGrows ==
    ASSUME NEW side \in BookSides, NEW price \in Ticks, NEW limit \in Ticks, NEW a, Lot(a),
           price = limit \/ Better(side, limit, price)
    PROVE  QuoteCost(side, price, a) <= QuoteCost(side, limit, a)
<1>1. PICK k \in Nat : a = MAX_PRICE * k
  BY Thousands
<1> DEFINE r == Rate(side, price)
           q == Rate(side, limit)
<1>2. r \in Nat /\ q \in Nat /\ r <= q
  BY DEF Rate, Ticks, MAX_PRICE, Better, BookSides
<1>3. QuoteCost(side, price, a) = k * r /\ QuoteCost(side, limit, a) = k * q
  BY <1>1, QuoteOfThousands
<1> HIDE DEF r, q
<1>4. k * r <= k * q
  <2>1. PICK x \in Nat : q = r + x
    BY <1>2
  <2>2. k * q = k * r + k * x /\ k * x \in Nat /\ k * r \in Nat
    BY <1>2, <2>1
  <2> QED BY <2>2
<1> QED BY <1>3, <1>4

\* _fillStakes: a fill costs either side its quote.
LEMMA FillIsQuote ==
    ASSUME NEW side \in BookSides, NEW price \in Ticks, NEW a, Lot(a)
    PROVE  FillStake(side, price, a) = QuoteCost(side, price, a)
<1>1. QuoteCost("BUY", price, a) \in Nat /\ QuoteCost("SELL", price, a) \in Nat /\ a \in Nat
  BY QuoteSides DEF BookSides, Lot
<1>2. QuoteCost("BUY", price, a) + QuoteCost("SELL", price, a) = a
  BY QuoteSides
<1> QED BY <1>1, <1>2 DEF FillStake, BookSides

-----------------------------------------------------------------------------
(* What holds of a book whatever was withdrawn from it.  A level may have    *)
(* lost orders, and orders may point to orders that are gone, but a pointer  *)
(* never leaves its side and price; and the index follows the levels.        *)

LevelType == [head : {0} \cup OrderIds, tail : {0} \cup OrderIds, totalOpen : Nat]
PositionType == [aShares : Nat, bShares : Nat, aStake : Nat, bStake : Nat]
BookType == [nextOrderId : Nat,
             orders      : [OrderIds -> OrderType],
             levels      : [BookSides -> [Prices -> LevelType]],
             bitmap      : [BookSides -> SUBSET Prices],
             best        : [BookSides -> Int],
             totalShares : Nat,
             positions   : [Traders -> PositionType]]

\* Pointer i is null or names one of the first n - 1 orders, at this price.
Kin(orders, n, side, price, i) == i # 0 => i < n /\ orders[i].side = side /\ orders[i].price = price

OrderOK(orders, n, i) ==
    /\ Lot(orders[i].amount) /\ Lot(orders[i].filled) /\ orders[i].filled <= orders[i].amount
    /\ orders[i].active => orders[i].price \in Prices /\ orders[i].maker \in Traders
    /\ i >= n => orders[i] = NoOrder
    /\ Kin(orders, n, orders[i].side, orders[i].price, orders[i].next)
    /\ Kin(orders, n, orders[i].side, orders[i].price, orders[i].prev)
OrdersOK(orders, n) == \A i \in OrderIds : OrderOK(orders, n, i)

LevelOK(orders, n, side, price, level) ==
    /\ Kin(orders, n, side, price, level.head)
    /\ Kin(orders, n, side, price, level.tail)
    /\ level.head = 0 <=> level.tail = 0
    /\ level.head = 0 => level.totalOpen = 0
LevelsOK(orders, n, levels) ==
    \A s \in BookSides, p \in Prices : LevelOK(orders, n, s, p, levels[s][p])

\* IndexSound for one side of one book.
IndexOK(levels, set, best, side) ==
    /\ \A p \in Prices : p \in set <=> levels[p].head # 0
    /\ set = {} => best = NoBest(side)
    /\ set # {} => best \in set /\ \A p \in set : ~Better(side, p, best)
IndexesOK(b) == \A s \in BookSides : IndexOK(b.levels[s], b.bitmap[s], b.best[s], s)

Good(b, n) ==
    /\ b \in BookType
    /\ OrdersOK(b.orders, n)
    /\ LevelsOK(b.orders, n, b.levels)
    /\ IndexesOK(b)

\* Prices lie strictly between the two empty-side marks.
LEMMA PricesAreTicks ==
    ASSUME NEW p \in Prices
    PROVE  p \in Ticks /\ p \in Nat /\ p \in Int /\ p # 0 /\ p < MAX_PRICE
BY PriceAssumption DEF Ticks, MAX_PRICE

\* The extreme of a set of prices is the best of them.
LEMMA BestIsBest ==
    ASSUME NEW side \in BookSides, NEW S, S \subseteq Prices, S # {}
    PROVE  BestOf(side, S) \in S /\ \A p \in S : ~Better(side, p, BestOf(side, S))
<1>1. \A p \in S : p \in Nat /\ p < MAX_PRICE
  BY PriceAssumption DEF MAX_PRICE
<1>2. CASE side = "BUY"
  <2> DEFINE T == {MAX_PRICE - p : p \in S}
  <2>1. T \subseteq Nat /\ T # {}
    BY <1>1 DEF MAX_PRICE
  <2>2. PICK n \in T : \A m \in T : n <= m
    BY <2>1, LeastNatural
  <2>3. PICK q \in S : n = MAX_PRICE - q
    BY <2>2
  <2>4. \A p \in S : q >= p
    BY <1>1, <2>2, <2>3 DEF MAX_PRICE
  <2>5. Max(S) \in S /\ \A p \in S : Max(S) >= p
    BY <2>3, <2>4 DEF Max
  <2>6. BestOf(side, S) = Max(S)
    BY <1>2 DEF BestOf
  <2>7. \A p \in S : ~(p > Max(S))
    BY <1>1, <2>5
  <2> QED BY <1>2, <2>5, <2>6, <2>7 DEF Better
<1>3. CASE side = "SELL"
  <2>1. PICK q \in S : \A p \in S : q <= p
    BY <1>1, LeastNatural
  <2>2. Min(S) \in S /\ \A p \in S : Min(S) <= p
    BY <2>1 DEF Min
  <2>3. BestOf(side, S) = Min(S)
    BY <1>3 DEF BestOf
  <2>4. \A p \in S : ~(p < Min(S))
    BY <1>1, <2>2
  <2> QED BY <1>3, <2>2, <2>3, <2>4 DEF Better
<1> QED BY <1>2, <1>3 DEF BookSides

\* c is b after _deactivatePrice wrote the level and the index of one side.
Deactivated(b, s, p, c) ==
    /\ c \in BookType
    /\ c.orders = b.orders /\ c.positions = b.positions /\ c.nextOrderId = b.nextOrderId
    /\ c.levels = [b.levels EXCEPT ![s][p] = EmptyLevel]
    /\ c.bitmap = [b.bitmap EXCEPT ![s] = @ \ {p}]
    /\ c.best = [b.best EXCEPT ![s] = IF @ = p THEN BestOf(s, b.bitmap[s] \ {p}) ELSE @]

\* _deactivatePrice writes the level and the index of its side and nothing else.
LEMMA DeactivateWrites ==
    ASSUME NEW b \in BookType, NEW s \in BookSides, NEW p \in Prices
    PROVE  Deactivated(b, s, p, DeactivatePrice(b, s, p))
<1> DEFINE left == b.bitmap[s] \ {p}
<1>1. BestOf(s, left) \in Int
  <2>1. CASE left = {}
    BY <2>1 DEF BestOf, NoBest, MAX_PRICE
  <2>2. CASE left # {}
    <3>1. left \subseteq Prices
      BY DEF BookType
    <3>2. BestOf(s, left) \in Prices
      BY <2>2, <3>1, BestIsBest
    <3> HIDE DEF left
    <3> QED BY <3>2, PricesAreTicks
  <2> QED BY <2>1, <2>2
<1>2. EmptyLevel \in LevelType
  BY DEF EmptyLevel, LevelType
<1> HIDE DEF left
<1> QED BY <1>1, <1>2 DEF Deactivated, DeactivatePrice, BookType, left

\* _deactivatePrice moves the best price off a price that empties.
LEMMA DeactivateGood ==
    ASSUME NEW b, NEW n \in Nat, Good(b, n), NEW s \in BookSides, NEW p \in Prices
    PROVE  Good(DeactivatePrice(b, s, p), n)
<1> DEFINE c == DeactivatePrice(b, s, p)
           left == b.bitmap[s] \ {p}
<1>1. Deactivated(b, s, p, c)
  BY DeactivateWrites DEF Good
<1> HIDE DEF c
<1>2. /\ b \in BookType
      /\ c \in BookType
      /\ c.orders = b.orders
      /\ c.levels = [b.levels EXCEPT ![s][p] = EmptyLevel]
      /\ c.bitmap = [b.bitmap EXCEPT ![s] = @ \ {p}]
      /\ c.best = [b.best EXCEPT ![s] = IF @ = p THEN BestOf(s, b.bitmap[s] \ {p}) ELSE @]
  BY <1>1 DEF Deactivated, Good
<1>3. OrdersOK(c.orders, n)
  BY <1>2 DEF Good
<1>4. /\ b.levels \in [BookSides -> [Prices -> LevelType]]
      /\ b.bitmap \in [BookSides -> SUBSET Prices] /\ b.best \in [BookSides -> Int]
  BY <1>2 DEF BookType
<1>5. ASSUME NEW t \in BookSides, NEW q \in Prices
      PROVE  LevelOK(c.orders, n, t, q, c.levels[t][q])
  <2>1. LevelOK(b.orders, n, t, q, b.levels[t][q])
    BY DEF Good, LevelsOK
  <2>2. LevelOK(b.orders, n, t, q, EmptyLevel)
    BY DEF LevelOK, EmptyLevel, Kin
  <2>3. c.levels[t][q] = b.levels[t][q] \/ c.levels[t][q] = EmptyLevel
    BY <1>2, <1>4
  <2> QED BY <1>2, <2>1, <2>2, <2>3
<1>6. ASSUME NEW t \in BookSides
      PROVE  IndexOK(c.levels[t], c.bitmap[t], c.best[t], t)
  <2>1. IndexOK(b.levels[t], b.bitmap[t], b.best[t], t)
    BY DEF Good, IndexesOK
  <2>2. CASE t # s
    BY <1>2, <1>4, <2>1, <2>2
  <2>3. CASE t = s
    <3>1. c.bitmap[s] = left /\ left \subseteq Prices
      BY <1>2, <1>4
    <3>2. \A q \in Prices : c.levels[s][q].head = IF q = p THEN 0 ELSE b.levels[s][q].head
      BY <1>2, <1>4 DEF EmptyLevel
    <3>3. \A q \in Prices : q \in left <=> c.levels[s][q].head # 0
      BY <2>1, <2>3, <3>2 DEF IndexOK
    <3>4. c.best[s] = IF b.best[s] = p THEN BestOf(s, left) ELSE b.best[s]
      BY <1>2, <1>4
    <3>5. left = {} => c.best[s] = NoBest(s)
      <4>1. CASE b.best[s] = p
        BY <3>4, <4>1 DEF BestOf
      <4>2. CASE b.best[s] # p
        BY <2>1, <2>3, <3>4, <4>2 DEF IndexOK
      <4> QED BY <4>1, <4>2
    <3>6. left # {} => c.best[s] \in left /\ \A q \in left : ~Better(s, q, c.best[s])
      <4> SUFFICES ASSUME left # {}
                   PROVE  c.best[s] \in left /\ \A q \in left : ~Better(s, q, c.best[s])
        OBVIOUS
      <4>1. CASE b.best[s] = p
        BY <3>1, <3>4, <4>1, BestIsBest
      <4>2. CASE b.best[s] # p
        BY <2>1, <2>3, <3>4, <4>2 DEF IndexOK
      <4> QED BY <4>1, <4>2
    <3> HIDE DEF left
    <3> QED BY <2>3, <3>1, <3>3, <3>5, <3>6 DEF IndexOK
  <2> QED BY <2>2, <2>3
<1> QED BY <1>2, <1>3, <1>5, <1>6 DEF Good, LevelsOK, IndexesOK, c

\* Kin depends on nothing but the orders' sides and prices.
LEMMA KinStays ==
    ASSUME NEW n \in Nat, NEW orders, NEW new,
           \A i \in OrderIds : i < n => new[i].side = orders[i].side /\ new[i].price = orders[i].price
    PROVE  \A side, price : \A i \in {0} \cup OrderIds :
               Kin(orders, n, side, price, i) => Kin(new, n, side, price, i)
BY DEF Kin

\* One that names an order still does when there are more.
LEMMA KinLater ==
    ASSUME NEW n \in Nat, NEW m \in Nat, n <= m, NEW orders
    PROVE  \A side, price : \A i \in {0} \cup OrderIds :
               Kin(orders, n, side, price, i) => Kin(orders, m, side, price, i)
BY DEF Kin, OrderIds

\* Other orders on the same places keep the book sound.
LEMMA OrdersReplaced ==
    ASSUME NEW b, NEW n \in Nat, NEW m \in Nat, n <= m, Good(b, n),
           NEW new \in [OrderIds -> OrderType], OrdersOK(new, m),
           \A i \in OrderIds : i < n => new[i].side = b.orders[i].side /\ new[i].price = b.orders[i].price
    PROVE  Good([b EXCEPT !.orders = new], m)
<1> DEFINE c == [b EXCEPT !.orders = new]
<1>1. /\ c \in BookType /\ c.orders = new /\ c.levels = b.levels
      /\ c.bitmap = b.bitmap /\ c.best = b.best
  BY DEF Good, BookType
<1> HIDE DEF c
<1>2. IndexesOK(c)
  BY <1>1 DEF Good, IndexesOK
<1>3. ASSUME NEW s \in BookSides, NEW p \in Prices PROVE LevelOK(new, m, s, p, c.levels[s][p])
  <2>1. LevelOK(b.orders, n, s, p, c.levels[s][p])
    BY <1>1 DEF Good, LevelsOK
  <2>2. c.levels[s][p] \in LevelType
    BY <1>1 DEF BookType
  <2>3. c.levels[s][p].head \in {0} \cup OrderIds /\ c.levels[s][p].tail \in {0} \cup OrderIds
    BY <2>2 DEF LevelType
  <2>6. /\ Kin(b.orders, n, s, p, c.levels[s][p].head)
        /\ Kin(b.orders, n, s, p, c.levels[s][p].tail)
    BY <2>1 DEF LevelOK
  <2>4. /\ Kin(new, n, s, p, c.levels[s][p].head)
        /\ Kin(new, n, s, p, c.levels[s][p].tail)
    BY <2>3, <2>6, KinStays
  <2>5. /\ Kin(new, m, s, p, c.levels[s][p].head)
        /\ Kin(new, m, s, p, c.levels[s][p].tail)
    BY <2>3, <2>4, KinLater
  <2> QED BY <2>1, <2>5 DEF LevelOK
<1> QED BY <1>1, <1>2, <1>3 DEF Good, LevelsOK, c

\* One order rewritten in its place keeps the orders sound.
LEMMA OrderReplaced ==
    ASSUME NEW n \in Nat, NEW orders \in [OrderIds -> OrderType], OrdersOK(orders, n),
           NEW h \in OrderIds, h < n, NEW x \in OrderType,
           x.side = orders[h].side, x.price = orders[h].price,
           Lot(x.amount), Lot(x.filled), x.filled <= x.amount,
           x.active => x.price \in Prices /\ x.maker \in Traders,
           Kin(orders, n, x.side, x.price, x.next), Kin(orders, n, x.side, x.price, x.prev)
    PROVE  /\ [orders EXCEPT ![h] = x] \in [OrderIds -> OrderType]
           /\ OrdersOK([orders EXCEPT ![h] = x], n)
           /\ \A i \in OrderIds : /\ [orders EXCEPT ![h] = x][i].side = orders[i].side
                                  /\ [orders EXCEPT ![h] = x][i].price = orders[i].price
<1> DEFINE new == [orders EXCEPT ![h] = x]
<1>1. new \in [OrderIds -> OrderType] /\ \A i \in OrderIds : new[i] = IF i = h THEN x ELSE orders[i]
  OBVIOUS
<1> HIDE DEF new
<1>2. \A i \in OrderIds : new[i].side = orders[i].side /\ new[i].price = orders[i].price
  BY <1>1
<1>3. ASSUME NEW i \in OrderIds PROVE OrderOK(new, n, i)
  <2>1. OrderOK(orders, n, i) /\ orders[i] \in OrderType
    BY DEF OrdersOK
  <2>2. new[i].next \in {0} \cup OrderIds /\ new[i].prev \in {0} \cup OrderIds
    BY <1>1 DEF OrderType
  <2>3. Kin(new, n, new[i].side, new[i].price, new[i].next) /\ Kin(new, n, new[i].side, new[i].price, new[i].prev)
    <3>1. /\ Kin(orders, n, new[i].side, new[i].price, new[i].next)
          /\ Kin(orders, n, new[i].side, new[i].price, new[i].prev)
      BY <1>1, <2>1 DEF OrderOK
    <3> QED BY <1>2, <2>2, <3>1, KinStays
  <2>4. i >= n => i # h
    BY DEF OrderIds
  <2> QED BY <1>1, <2>1, <2>3, <2>4 DEF OrderOK
<1> QED BY <1>1, <1>2, <1>3 DEF OrdersOK, new

\* A level rewritten with a queue where there was one keeps the book sound.
LEMMA LevelReplaced ==
    ASSUME NEW b, NEW n \in Nat, Good(b, n), NEW s \in BookSides, NEW p \in Prices,
           NEW level \in LevelType, LevelOK(b.orders, n, s, p, level),
           level.head # 0, b.levels[s][p].head # 0
    PROVE  Good([b EXCEPT !.levels[s][p] = level], n)
<1> DEFINE c == [b EXCEPT !.levels[s][p] = level]
<1>1. /\ c \in BookType /\ c.orders = b.orders /\ c.levels = [b.levels EXCEPT ![s][p] = level]
      /\ c.bitmap = b.bitmap /\ c.best = b.best
  BY DEF Good, BookType
<1>2. b.levels \in [BookSides -> [Prices -> LevelType]]
  BY DEF Good, BookType
<1> HIDE DEF c
<1>3. ASSUME NEW t \in BookSides, NEW q \in Prices
      PROVE  LevelOK(c.orders, n, t, q, c.levels[t][q]) /\ (c.levels[t][q].head # 0 <=> b.levels[t][q].head # 0)
  <2>1. LevelOK(b.orders, n, t, q, b.levels[t][q])
    BY DEF Good, LevelsOK
  <2>2. c.levels[t][q] = IF t = s /\ q = p THEN level ELSE b.levels[t][q]
    BY <1>1, <1>2
  <2> QED BY <1>1, <2>1, <2>2
<1>4. IndexesOK(c)
  BY <1>1, <1>3 DEF Good, IndexesOK, IndexOK
<1> QED BY <1>1, <1>3, <1>4 DEF Good, LevelsOK, c

\* An order that exists has an id below n, and its neighbours its terms.
LEMMA OrderFacts ==
    ASSUME NEW b, NEW n \in Nat, Good(b, n), NEW i \in OrderIds
    PROVE  /\ b.orders \in [OrderIds -> OrderType] /\ b.orders[i] \in OrderType /\ OrdersOK(b.orders, n)
           /\ OrderOK(b.orders, n, i) /\ i \in Nat
           /\ b.orders[i].active => i < n
<1>1. b.orders \in [OrderIds -> OrderType] /\ b.orders[i] \in OrderType /\ OrdersOK(b.orders, n)
  BY DEF Good, BookType
<1>2. OrderOK(b.orders, n, i)
  BY <1>1 DEF OrdersOK
<1>3. i \in Nat
  BY DEF OrderIds
<1>4. b.orders[i].active => i < n
  BY <1>2, <1>3 DEF OrderOK, NoOrder
<1> QED BY <1>1, <1>2, <1>3, <1>4

\* What a sound book says of one of its levels.
LEMMA LevelFacts ==
    ASSUME NEW b, NEW n \in Nat, Good(b, n), NEW s \in BookSides, NEW p \in Prices
    PROVE  /\ b.levels[s][p] \in LevelType
           /\ LevelOK(b.orders, n, s, p, b.levels[s][p])
           /\ b.levels[s][p].head \in {0} \cup OrderIds /\ b.levels[s][p].tail \in {0} \cup OrderIds
           /\ b.levels[s][p].totalOpen \in Nat
BY DEF Good, BookType, LevelsOK, LevelType

\* An order off its queue.
Gone(order) == [order EXCEPT !.active = FALSE, !.prev = 0, !.next = 0]

\* c is b after _popHead: the head is gone and nothing else of the orders is.
Popped(b, n, s, p, c) ==
    /\ Good(c, n)
    /\ c.positions = b.positions /\ c.nextOrderId = b.nextOrderId
    /\ c.orders = [b.orders EXCEPT ![b.levels[s][p].head] = Gone(@)]

\* _popHead keeps the book sound, whether or not another order follows.
LEMMA PopHeadGood ==
    ASSUME NEW b, NEW n \in Nat, Good(b, n), NEW s \in BookSides, NEW p \in Prices,
           b.levels[s][p].head # 0
    PROVE  Popped(b, n, s, p, PopHead(b, s, p))
<1> DEFINE h == b.levels[s][p].head
           next == b.orders[h].next
           new == [b.orders EXCEPT ![h] = Gone(@)]
           gone == [b EXCEPT !.orders = new]
<1>1. /\ h \in OrderIds /\ h < n /\ b.orders[h].side = s /\ b.orders[h].price = p
      /\ b.levels[s][p].tail # 0
  BY LevelFacts DEF LevelOK, Kin
<1>2. /\ b.orders \in [OrderIds -> OrderType] /\ OrdersOK(b.orders, n) /\ b.orders[h] \in OrderType
      /\ OrderOK(b.orders, n, h)
  BY <1>1, OrderFacts
<1>3. /\ Gone(b.orders[h]) \in OrderType /\ Gone(b.orders[h]).side = s /\ Gone(b.orders[h]).price = p
      /\ Gone(b.orders[h]).amount = b.orders[h].amount /\ Gone(b.orders[h]).filled = b.orders[h].filled
      /\ ~Gone(b.orders[h]).active /\ Gone(b.orders[h]).next = 0 /\ Gone(b.orders[h]).prev = 0
  BY <1>1, <1>2 DEF Gone, OrderType
<1>4. /\ new \in [OrderIds -> OrderType] /\ OrdersOK(new, n)
      /\ \A i \in OrderIds : new[i].side = b.orders[i].side /\ new[i].price = b.orders[i].price
  BY <1>1, <1>2, <1>3, OrderReplaced, SMTT(30), ZenonT(60) DEF OrderOK, Kin
<1>5. Good(gone, n)
  <2> HIDE DEF new
  <2>1. \A i \in OrderIds : new[i].side = b.orders[i].side /\ new[i].price = b.orders[i].price
    BY <1>4
  <2>2. n <= n
    OBVIOUS
  <2> QED BY <1>4, <2>1, <2>2, OrdersReplaced
<1>6. /\ gone.positions = b.positions /\ gone.nextOrderId = b.nextOrderId /\ gone.orders = new
      /\ gone.levels = b.levels /\ gone \in BookType
  BY <1>4, Zenon DEF Good, BookType
<1>7. gone = [b EXCEPT !.orders[h] = [@ EXCEPT !.active = FALSE, !.prev = 0, !.next = 0]]
  BY DEF Gone
<1> HIDE DEF new, gone
<1>8. CASE next = 0
  <2>1. PopHead(b, s, p) = DeactivatePrice(gone, s, p)
    BY <1>7, <1>8 DEF PopHead
  <2>2. Good(DeactivatePrice(gone, s, p), n)
    BY <1>5, DeactivateGood
  <2>3. Deactivated(gone, s, p, DeactivatePrice(gone, s, p))
    BY <1>6, DeactivateWrites
  <2>4. Popped(b, n, s, p, DeactivatePrice(gone, s, p))
    BY <2>2, <2>3, <1>6 DEF Popped, Deactivated, new
  <2> QED BY <2>1, <2>4
<1>9. CASE next # 0
  <2> DEFINE level == [b.levels[s][p] EXCEPT !.head = next]
             c == [gone EXCEPT !.levels[s][p] = level]
  <2>1. PopHead(b, s, p) = c
    <3>1. PopHead(b, s, p) = [gone EXCEPT !.levels[s][p].head = next]
      BY <1>7, <1>9 DEF PopHead
    <3>2. gone.levels[s][p] = b.levels[s][p]
      BY <1>6
    <3> QED BY <3>1, <3>2
  <2>2. next \in OrderIds /\ next < n /\ b.orders[next].side = s /\ b.orders[next].price = p
    BY <1>1, <1>2, <1>9, Zenon DEF OrderOK, Kin, OrderType
  <2>3. /\ level \in LevelType /\ level.head = next /\ level.tail = b.levels[s][p].tail
    BY <2>2, LevelFacts, SMTT(30), ZenonT(60) DEF LevelType
  <2> HIDE DEF level
  <2>4. LevelOK(gone.orders, n, s, p, level)
    <3>0. LevelOK(b.orders, n, s, p, b.levels[s][p])
      BY LevelFacts
    <3>1. Kin(b.orders, n, s, p, level.head) /\ Kin(b.orders, n, s, p, level.tail)
      BY <2>2, <2>3, <3>0 DEF LevelOK, Kin
    <3>2. Kin(new, n, s, p, level.head) /\ Kin(new, n, s, p, level.tail)
      BY <3>1, <2>3, <1>4, KinStays DEF LevelType
    <3> QED BY <1>1, <1>6, <1>9, <3>2, <2>3 DEF LevelOK
  <2>5. Good(c, n)
    BY <1>1, <1>5, <1>6, <1>9, <2>3, <2>4, LevelReplaced
  <2>6. c.positions = b.positions /\ c.nextOrderId = b.nextOrderId /\ c.orders = new
    BY <1>6 DEF BookType
  <2> HIDE DEF c
  <2> QED BY <2>1, <2>5, <2>6 DEF Popped, new
<1> QED BY <1>8, <1>9

\* Two orders that differ at most in their pointers.
SameTrade(x, y) ==
    /\ x.side = y.side /\ x.price = y.price /\ x.maker = y.maker
    /\ x.amount = y.amount /\ x.filled = y.filled /\ x.active = y.active

Relinked(orders, new, n) ==
    /\ new \in [OrderIds -> OrderType] /\ OrdersOK(new, n)
    /\ \A i \in OrderIds : SameTrade(new[i], orders[i])

\* A pointer from one order to another of the same queue keeps the orders sound.
LEMMA RelinkGood ==
    ASSUME NEW n \in Nat, NEW orders \in [OrderIds -> OrderType], OrdersOK(orders, n),
           NEW s, NEW p, NEW h \in {0} \cup OrderIds, NEW k \in {0} \cup OrderIds,
           Kin(orders, n, s, p, h), Kin(orders, n, s, p, k)
    PROVE  /\ Relinked(orders, IF h = 0 THEN orders ELSE [orders EXCEPT ![h].next = k], n)
           /\ Relinked(orders, IF h = 0 THEN orders ELSE [orders EXCEPT ![h].prev = k], n)
<1>1. CASE h = 0
  BY <1>1 DEF Relinked, SameTrade
<1>2. CASE h # 0
  <2>1. /\ h \in OrderIds /\ h < n /\ orders[h].side = s /\ orders[h].price = p
        /\ orders[h] \in OrderType /\ OrderOK(orders, n, h)
    BY <1>2 DEF Kin, OrdersOK
  <2> DEFINE x == [orders[h] EXCEPT !.next = k]
             y == [orders[h] EXCEPT !.prev = k]
  <2>2. /\ x \in OrderType /\ SameTrade(x, orders[h]) /\ x.next = k /\ x.prev = orders[h].prev
        /\ y \in OrderType /\ SameTrade(y, orders[h]) /\ y.prev = k /\ y.next = orders[h].next
    BY <2>1 DEF OrderType, SameTrade
  <2> HIDE DEF x, y
  <2>7. ASSUME NEW z \in OrderType, SameTrade(z, orders[h]),
               Kin(orders, n, s, p, z.next), Kin(orders, n, s, p, z.prev)
        PROVE  /\ [orders EXCEPT ![h] = z] \in [OrderIds -> OrderType]
               /\ OrdersOK([orders EXCEPT ![h] = z], n)
    <3>1. /\ z.side = orders[h].side /\ z.price = orders[h].price /\ z.side = s /\ z.price = p
          /\ Lot(z.amount) /\ Lot(z.filled) /\ z.filled <= z.amount
          /\ z.active => z.price \in Prices /\ z.maker \in Traders
      BY <2>1, <2>7 DEF OrderOK, SameTrade
    <3>2. Kin(orders, n, z.side, z.price, z.next) /\ Kin(orders, n, z.side, z.price, z.prev)
      BY <2>7, <3>1
    <3> QED BY <2>1, <3>1, <3>2, OrderReplaced
  <2>8. Kin(orders, n, s, p, orders[h].next) /\ Kin(orders, n, s, p, orders[h].prev)
    BY <2>1 DEF OrderOK
  <2>3. /\ [orders EXCEPT ![h] = x] \in [OrderIds -> OrderType]
        /\ OrdersOK([orders EXCEPT ![h] = x], n)
    BY <2>2, <2>7, <2>8
  <2>4. /\ [orders EXCEPT ![h] = y] \in [OrderIds -> OrderType]
        /\ OrdersOK([orders EXCEPT ![h] = y], n)
    BY <2>2, <2>7, <2>8
  <2>5. /\ \A i \in OrderIds : SameTrade([orders EXCEPT ![h] = x][i], orders[i])
        /\ \A i \in OrderIds : SameTrade([orders EXCEPT ![h] = y][i], orders[i])
    BY <2>2 DEF SameTrade
  <2>6. [orders EXCEPT ![h].next = k] = [orders EXCEPT ![h] = x] /\ [orders EXCEPT ![h].prev = k] = [orders EXCEPT ![h] = y]
    BY DEF x, y
  <2> QED BY <1>2, <2>3, <2>4, <2>5, <2>6 DEF Relinked
<1> QED BY <1>1, <1>2

\* c is b after an order was taken off its queue: no other trade changed.
Unlinked(b, n, id, c) ==
    /\ Good(c, n)
    /\ c.positions = b.positions /\ c.nextOrderId = b.nextOrderId
    /\ \A i \in OrderIds : i # id => SameTrade(c.orders[i], b.orders[i])
    /\ ~c.orders[id].active

\* _unlinkOrder keeps the book sound, even when the order's pointers name orders
\* that are gone.
LEMMA UnlinkGood ==
    ASSUME NEW b, NEW n \in Nat, Good(b, n), NEW id \in OrderIds, b.orders[id].active,
           Remaining(b.orders[id]) > 0, ~UnlinkReverts(b, id)
    PROVE  Unlinked(b, n, id, UnlinkOrder(b, id))
<1> DEFINE o     == b.orders[id]
           level == b.levels[o.side][o.price]
           left  == IF o.prev = 0 THEN b.orders
                    ELSE [b.orders EXCEPT ![o.prev].next = o.next]
           both  == IF o.next = 0 THEN left ELSE [left EXCEPT ![o.next].prev = o.prev]
           new   == [both EXCEPT ![id] = [@ EXCEPT !.filled = o.amount, !.active = FALSE, !.prev = 0, !.next = 0]]
           cut   == [b EXCEPT !.orders = new]
           head  == IF o.prev = 0 THEN o.next ELSE level.head
           tail  == IF o.next = 0 THEN o.prev ELSE level.tail
           open  == level.totalOpen - Remaining(o)
           rest  == [head |-> head, tail |-> tail, totalOpen |-> open]
<1>1. UnlinkOrder(b, id) = IF head = 0 \/ open = 0
                           THEN DeactivatePrice(cut, o.side, o.price)
                           ELSE [cut EXCEPT !.levels[o.side][o.price] = rest]
  BY DEF UnlinkOrder
<1>2. /\ b.orders \in [OrderIds -> OrderType] /\ OrdersOK(b.orders, n) /\ OrderOK(b.orders, n, id)
      /\ o \in OrderType /\ id < n /\ o.side \in BookSides /\ o.price \in Prices
  BY OrderFacts DEF OrderOK, OrderType
<1>3. /\ o.prev \in {0} \cup OrderIds /\ o.next \in {0} \cup OrderIds
      /\ Kin(b.orders, n, o.side, o.price, o.prev) /\ Kin(b.orders, n, o.side, o.price, o.next)
  BY <1>2 DEF OrderOK, OrderType
<1>4. Relinked(b.orders, left, n)
  BY <1>2, <1>3, RelinkGood
<1> HIDE DEF left
<1>5. Kin(left, n, o.side, o.price, o.prev) /\ Kin(left, n, o.side, o.price, o.next)
  BY <1>3, <1>4 DEF Kin, Relinked, SameTrade
<1>6. Relinked(left, both, n)
  <2>1. left \in [OrderIds -> OrderType] /\ OrdersOK(left, n)
    BY <1>4 DEF Relinked
  <2> QED BY <1>3, <1>5, <2>1, RelinkGood
<1> HIDE DEF both
<1> DEFINE x == [both[id] EXCEPT !.filled = o.amount, !.active = FALSE, !.prev = 0, !.next = 0]
<1>7. /\ both \in [OrderIds -> OrderType] /\ OrdersOK(both, n)
      /\ \A i \in OrderIds : SameTrade(both[i], b.orders[i])
  BY <1>4, <1>6 DEF Relinked, SameTrade
<1>8. /\ both[id] \in OrderType /\ OrderOK(both, n, id) /\ both[id].amount = o.amount
      /\ Lot(o.amount) /\ o.amount \in Nat
  BY <1>2, <1>7 DEF OrdersOK, SameTrade, OrderOK, OrderType
<1>9. /\ x \in OrderType /\ x.side = both[id].side /\ x.price = both[id].price
      /\ x.amount = o.amount /\ x.filled = o.amount /\ ~x.active /\ x.next = 0 /\ x.prev = 0
  BY <1>8 DEF OrderType, OrderIds
<1> HIDE DEF x
<1>10. new = [both EXCEPT ![id] = x]
  BY DEF x
<1>11. /\ new \in [OrderIds -> OrderType] /\ OrdersOK(new, n)
       /\ \A i \in OrderIds : new[i].side = both[i].side /\ new[i].price = both[i].price
  <2>1. Lot(x.amount) /\ Lot(x.filled) /\ x.filled <= x.amount
    BY <1>8, <1>9
  <2>2. Kin(both, n, x.side, x.price, x.next) /\ Kin(both, n, x.side, x.price, x.prev)
    BY <1>9 DEF Kin
  <2>3. x.active => x.price \in Prices /\ x.maker \in Traders
    BY <1>9
  <2> HIDE DEF new, o
  <2>4. id < n /\ both \in [OrderIds -> OrderType] /\ OrdersOK(both, n) /\ x \in OrderType
        /\ x.side = both[id].side /\ x.price = both[id].price
    BY <1>2, <1>7, <1>9
  <2>5. /\ [both EXCEPT ![id] = x] \in [OrderIds -> OrderType] /\ OrdersOK([both EXCEPT ![id] = x], n)
        /\ \A i \in OrderIds : /\ [both EXCEPT ![id] = x][i].side = both[i].side
                               /\ [both EXCEPT ![id] = x][i].price = both[i].price
    BY <2>1, <2>2, <2>3, <2>4, OrderReplaced
  <2> QED BY <1>10, <2>5
<1>12. /\ \A i \in OrderIds : i # id => SameTrade(new[i], b.orders[i])
       /\ ~new[id].active
       /\ \A i \in OrderIds : new[i].side = b.orders[i].side /\ new[i].price = b.orders[i].price
  BY <1>7, <1>9, <1>10, <1>11 DEF SameTrade
<1> HIDE DEF new
<1>13. Good(cut, n)
  BY <1>11, <1>12, OrdersReplaced
<1>14. /\ cut.positions = b.positions /\ cut.nextOrderId = b.nextOrderId /\ cut.orders = new
       /\ cut.levels = b.levels /\ cut \in BookType
  BY <1>11 DEF Good, BookType
<1> HIDE DEF cut
<1>15. CASE head = 0 \/ open = 0
  <2>1. /\ Good(DeactivatePrice(cut, o.side, o.price), n)
        /\ Deactivated(cut, o.side, o.price, DeactivatePrice(cut, o.side, o.price))
    BY <1>2, <1>13, <1>14, DeactivateGood, DeactivateWrites
  <2>2. Unlinked(b, n, id, DeactivatePrice(cut, o.side, o.price))
    BY <2>1, <1>12, <1>14 DEF Unlinked, Deactivated
  <2> QED BY <1>1, <1>15, <2>2, Zenon
<1>16. CASE ~(head = 0 \/ open = 0)
  <2> DEFINE c == [cut EXCEPT !.levels[o.side][o.price] = rest]
  <2>1. /\ level \in LevelType /\ LevelOK(b.orders, n, o.side, o.price, level)
        /\ level.head \in {0} \cup OrderIds /\ level.tail \in {0} \cup OrderIds /\ level.totalOpen \in Nat
    BY <1>2, LevelFacts
  <2>2. o.amount \in Nat /\ o.filled \in Nat /\ Remaining(o) \in Int /\ Remaining(o) > 0
    BY <1>2 DEF OrderType, Remaining
  <2>3. open \in Nat /\ level.totalOpen # 0
    <3>1. ~(level.totalOpen < Remaining(o))
      BY DEF UnlinkReverts
    <3> HIDE DEF level, o
    <3> QED BY <2>1, <2>2, <3>1
  <2>4. level.head # 0 /\ level.tail # 0
    BY <2>1, <2>3, Zenon DEF LevelOK
  <2>5. head \in {0} \cup OrderIds /\ tail \in {0} \cup OrderIds /\ head # 0 /\ tail # 0
    BY <1>3, <1>16, <2>1, <2>4, Zenon
  <2>6. Kin(b.orders, n, o.side, o.price, head) /\ Kin(b.orders, n, o.side, o.price, tail)
    BY <1>3, <2>1, Zenon DEF LevelOK
  <2>7. Kin(new, n, o.side, o.price, head) /\ Kin(new, n, o.side, o.price, tail)
    BY <2>5, <2>6, <1>12, Zenon DEF Kin
  <2> HIDE DEF head, tail, open
  <2>8. rest \in LevelType /\ rest.head = head /\ rest.tail = tail
    BY <2>3, <2>5 DEF LevelType
  <2> HIDE DEF rest
  <2>9. LevelOK(cut.orders, n, o.side, o.price, rest)
    BY <1>14, <2>5, <2>7, <2>8 DEF LevelOK
  <2>10. cut.levels[o.side][o.price].head # 0
    BY <1>14, <2>4
  <2>11. Good(c, n)
    BY <1>2, <1>13, <2>5, <2>8, <2>9, <2>10, LevelReplaced
  <2>12. c.positions = b.positions /\ c.nextOrderId = b.nextOrderId /\ c.orders = new
    BY <1>14 DEF BookType
  <2>13. Unlinked(b, n, id, c)
    BY <2>11, <2>12, <1>12 DEF Unlinked
  <2> QED BY <1>1, <1>16, <2>13
<1> QED BY <1>15, <1>16

\* The order written at the next id keeps the orders sound.
LEMMA OrderAdded ==
    ASSUME NEW n \in OrderIds, NEW orders \in [OrderIds -> OrderType], OrdersOK(orders, n),
           NEW x \in OrderType,
           Lot(x.amount), Lot(x.filled), x.filled <= x.amount,
           x.active => x.price \in Prices /\ x.maker \in Traders,
           Kin(orders, n, x.side, x.price, x.next), Kin(orders, n, x.side, x.price, x.prev)
    PROVE  /\ [orders EXCEPT ![n] = x] \in [OrderIds -> OrderType]
           /\ OrdersOK([orders EXCEPT ![n] = x], n + 1)
<1> DEFINE new == [orders EXCEPT ![n] = x]
<1>0. n \in Nat /\ n <= n + 1 /\ n + 1 \in Nat
  BY DEF OrderIds
<1>1. new \in [OrderIds -> OrderType] /\ \A i \in OrderIds : new[i] = IF i = n THEN x ELSE orders[i]
  OBVIOUS
<1> HIDE DEF new
<1>2. \A i \in OrderIds : i < n => new[i].side = orders[i].side /\ new[i].price = orders[i].price
  BY <1>0, <1>1
<1>3. ASSUME NEW i \in OrderIds PROVE OrderOK(new, n + 1, i)
  <2>1. OrderOK(orders, n, i)
    BY DEF OrdersOK
  <2>2. new[i].next \in {0} \cup OrderIds /\ new[i].prev \in {0} \cup OrderIds
    BY <1>1 DEF OrderType
  <2>3. /\ Kin(orders, n, new[i].side, new[i].price, new[i].next)
        /\ Kin(orders, n, new[i].side, new[i].price, new[i].prev)
    BY <1>1, <2>1 DEF OrderOK
  <2>4. /\ Kin(new, n, new[i].side, new[i].price, new[i].next)
        /\ Kin(new, n, new[i].side, new[i].price, new[i].prev)
    BY <1>0, <1>2, <2>2, <2>3, KinStays
  <2>5. /\ Kin(new, n + 1, new[i].side, new[i].price, new[i].next)
        /\ Kin(new, n + 1, new[i].side, new[i].price, new[i].prev)
    BY <1>0, <2>2, <2>4, KinLater
  <2>6. i >= n + 1 => i # n /\ i >= n
    BY <1>0 DEF OrderIds
  <2> QED BY <1>1, <2>1, <2>5, <2>6 DEF OrderOK
<1> QED BY <1>1, <1>3 DEF OrdersOK, new

\* c is b after an order was kept as a record at the next id.
Recorded(b, id, order, c) ==
    /\ Good(c, id + 1)
    /\ c.positions = b.positions /\ c.nextOrderId = b.nextOrderId
    /\ \A i \in OrderIds : i # id => SameTrade(c.orders[i], b.orders[i])
    /\ SameTrade(c.orders[id], order)

\* An order kept as a record only.
LEMMA RecordGood ==
    ASSUME NEW b, NEW id \in OrderIds, Good(b, id), NEW order \in OrderType,
           Lot(order.amount), Lot(order.filled), order.filled <= order.amount,
           ~order.active, order.next = 0, order.prev = 0
    PROVE  Recorded(b, id, order, [b EXCEPT !.orders[id] = order])
<1> DEFINE new == [b.orders EXCEPT ![id] = order]
           c   == [b EXCEPT !.orders = new]
<1>1. b.orders \in [OrderIds -> OrderType] /\ OrdersOK(b.orders, id) /\ b \in BookType
  BY DEF Good, BookType
<1>2. id \in Nat /\ id + 1 \in Nat /\ id <= id + 1
  BY DEF OrderIds
<1>3. /\ Kin(b.orders, id, order.side, order.price, order.next)
      /\ Kin(b.orders, id, order.side, order.price, order.prev)
  BY DEF Kin
<1>4. new \in [OrderIds -> OrderType] /\ OrdersOK(new, id + 1)
  BY <1>1, <1>3, OrderAdded
<1>5. \A i \in OrderIds : new[i] = IF i = id THEN order ELSE b.orders[i]
  BY <1>1
<1>6. [b EXCEPT !.orders[id] = order] = c
  OBVIOUS
<1> HIDE DEF new
<1>7. \A i \in OrderIds : i < id => new[i].side = b.orders[i].side /\ new[i].price = b.orders[i].price
  <2>1. \A i \in OrderIds : i < id => i # id
    BY DEF OrderIds
  <2> QED BY <1>5, <2>1
<1>8. Good(c, id + 1)
  BY <1>2, <1>4, <1>7, OrdersReplaced
<1>9. c.positions = b.positions /\ c.nextOrderId = b.nextOrderId /\ c.orders = new
  BY <1>1 DEF BookType
<1> HIDE DEF c
<1>10. Recorded(b, id, order, c)
  BY <1>5, <1>8, <1>9 DEF Recorded, SameTrade
<1> QED BY <1>6, <1>10

\* _restOrder appends the order to its queue, or starts one and its index.
LEMMA RestGood ==
    ASSUME NEW b, NEW id \in OrderIds, Good(b, id), NEW order \in OrderType,
           Lot(order.amount), Lot(order.filled), order.filled <= order.amount,
           order.price \in Prices, order.maker \in Traders, order.next = 0
    PROVE  Recorded(b, id, [order EXCEPT !.active = TRUE, !.prev = 0], RestOrder(b, id, order))
<1> DEFINE s == order.side
           p == order.price
           level  == b.levels[s][p]
           x == [order EXCEPT !.prev = level.tail, !.active = TRUE]
           placed == [b.orders EXCEPT ![id] = x]
           new == IF level.tail = 0 THEN placed ELSE [placed EXCEPT ![level.tail].next = id]
           rest == [head |-> IF level.tail = 0 THEN id ELSE level.head,
                    tail |-> id, totalOpen |-> level.totalOpen + Remaining(order)]
           rested == [b EXCEPT !.orders = new, !.levels[s][p] = rest]
           c == ActivatePrice(rested, s, p)
<1>1. RestOrder(b, id, order) = c
  BY DEF RestOrder
<1>2. /\ b.orders \in [OrderIds -> OrderType] /\ OrdersOK(b.orders, id) /\ b \in BookType
      /\ b.levels \in [BookSides -> [Prices -> LevelType]]
      /\ b.bitmap \in [BookSides -> SUBSET Prices] /\ b.best \in [BookSides -> Int]
  BY DEF Good, BookType
<1>3. s \in BookSides /\ p \in Prices
  BY DEF OrderType
<1>4. id \in Nat /\ id + 1 \in Nat /\ id <= id + 1 /\ id < id + 1 /\ id # 0
  BY DEF OrderIds
<1>5. /\ level \in LevelType /\ LevelOK(b.orders, id, s, p, level)
      /\ level.head \in {0} \cup OrderIds /\ level.tail \in {0} \cup OrderIds /\ level.totalOpen \in Nat
  BY <1>3, <1>4, LevelFacts
<1>6. level.head = 0 <=> level.tail = 0
  BY <1>5 DEF LevelOK
<1>7. Kin(b.orders, id, s, p, level.head) /\ Kin(b.orders, id, s, p, level.tail)
  BY <1>5 DEF LevelOK
<1>8. /\ x \in OrderType /\ x.side = s /\ x.price = p /\ x.amount = order.amount /\ x.filled = order.filled
      /\ x.maker = order.maker /\ x.active /\ x.next = 0 /\ x.prev = level.tail
  BY <1>5, Zenon DEF OrderType
<1>9. SameTrade(x, [order EXCEPT !.active = TRUE, !.prev = 0])
  BY DEF SameTrade, OrderType
<1> HIDE DEF x
<1>10. Kin(b.orders, id, x.side, x.price, x.next) /\ Kin(b.orders, id, x.side, x.price, x.prev)
  BY <1>7, <1>8 DEF Kin
<1>11. placed \in [OrderIds -> OrderType] /\ OrdersOK(placed, id + 1)
  BY <1>2, <1>3, <1>8, <1>10, OrderAdded
<1>12. \A i \in OrderIds : placed[i] = IF i = id THEN x ELSE b.orders[i]
  BY <1>2
<1> HIDE DEF placed
<1>13. Kin(placed, id + 1, s, p, level.head) /\ Kin(placed, id + 1, s, p, level.tail) /\ Kin(placed, id + 1, s, p, id)
  <2> HIDE DEF s, p, level
  <2>1. ASSUME NEW i \in {0} \cup OrderIds, Kin(b.orders, id, s, p, i) PROVE Kin(placed, id + 1, s, p, i)
    <3>1. CASE i = 0
      BY <3>1 DEF Kin
    <3>2. CASE i # 0
      <4>1. i \in OrderIds /\ i \in Nat /\ i < id /\ b.orders[i].side = s /\ b.orders[i].price = p
        BY <2>1, <3>2 DEF Kin, OrderIds
      <4>2. placed[i] = b.orders[i] /\ i < id + 1
        BY <1>4, <1>12, <4>1
      <4> QED BY <4>1, <4>2 DEF Kin
    <3> QED BY <3>1, <3>2
  <2>2. Kin(placed, id + 1, s, p, level.head) /\ Kin(placed, id + 1, s, p, level.tail)
    BY <1>5, <1>7, <2>1
  <2>3. placed[id] = x
    BY <1>12
  <2>4. Kin(placed, id + 1, s, p, id)
    BY <1>4, <1>8, <2>3 DEF Kin
  <2> QED BY <2>2, <2>4
<1>14. Relinked(placed, new, id + 1)
  BY <1>4, <1>5, <1>11, <1>13, RelinkGood, Zenon
<1> HIDE DEF new
<1>15. /\ \A i \in OrderIds : SameTrade(new[i], placed[i])
       /\ new \in [OrderIds -> OrderType] /\ OrdersOK(new, id + 1)
  BY <1>14 DEF Relinked
<1>16. \A i \in OrderIds : new[i].side = placed[i].side /\ new[i].price = placed[i].price
  BY <1>15 DEF SameTrade
<1>17. \A i \in OrderIds : i < id => new[i].side = b.orders[i].side /\ new[i].price = b.orders[i].price
  BY <1>4, <1>12, <1>16
<1>18. Good([b EXCEPT !.orders = new], id + 1)
  BY <1>4, <1>15, <1>17, OrdersReplaced
<1>19. LevelsOK(new, id + 1, b.levels) /\ IndexesOK(b)
  <2>1. [b EXCEPT !.orders = new].levels = b.levels /\ [b EXCEPT !.orders = new].orders = new
    BY <1>2 DEF BookType
  <2> QED BY <1>18, <2>1 DEF Good
<1>20. Remaining(order) \in Nat
  BY DEF OrderType, Remaining, Lot
<1>21. rest \in LevelType /\ rest.head = (IF level.tail = 0 THEN id ELSE level.head) /\ rest.tail = id
  <2>1. level.totalOpen + Remaining(order) \in Nat
    BY <1>5, <1>20
  <2> HIDE DEF level
  <2> QED BY <1>5, <2>1 DEF LevelType
<1>22. rest.head # 0 /\ rest.tail # 0
  BY <1>4, <1>6, <1>21
<1>23. LevelOK(new, id + 1, s, p, rest)
  <2>1. Kin(placed, id + 1, s, p, rest.head) /\ Kin(placed, id + 1, s, p, rest.tail)
    BY <1>13, <1>21
  <2>2. rest.head \in {0} \cup OrderIds /\ rest.tail \in {0} \cup OrderIds
    BY <1>21 DEF LevelType
  <2> HIDE DEF rest
  <2>3. Kin(new, id + 1, s, p, rest.head) /\ Kin(new, id + 1, s, p, rest.tail)
    BY <1>4, <1>16, <2>1, <2>2, KinStays
  <2> QED BY <1>22, <2>3 DEF LevelOK
<1> HIDE DEF rest
<1>24. /\ c \in BookType /\ c.orders = new /\ c.levels = [b.levels EXCEPT ![s][p] = rest]
       /\ c.positions = b.positions /\ c.nextOrderId = b.nextOrderId
       /\ c.bitmap = [b.bitmap EXCEPT ![s] = @ \cup {p}]
       /\ c.best = [b.best EXCEPT ![s] = IF Better(s, p, @) THEN p ELSE @]
  <2> HIDE DEF s, p
  <2>1. p \in Int
    BY <1>3, PricesAreTicks
  <2>2. c = [rested EXCEPT !.bitmap[s] = @ \cup {p}, !.best[s] = IF Better(s, p, @) THEN p ELSE @]
    BY DEF ActivatePrice
  <2>3. /\ rested \in BookType /\ rested.orders = new /\ rested.levels = [b.levels EXCEPT ![s][p] = rest]
        /\ rested.positions = b.positions /\ rested.nextOrderId = b.nextOrderId
        /\ rested.bitmap = b.bitmap /\ rested.best = b.best
    BY <1>2, <1>3, <1>15, <1>21 DEF BookType
  <2> DEFINE set  == [b.bitmap EXCEPT ![s] = @ \cup {p}]
             best == [b.best EXCEPT ![s] = IF Better(s, p, @) THEN p ELSE @]
  <2>4. set \in [BookSides -> SUBSET Prices] /\ best \in [BookSides -> Int]
    BY <1>2, <1>3, <2>1
  <2> HIDE DEF rested
  <2>5. c = [rested EXCEPT !.bitmap = set, !.best = best]
    BY <2>2, <2>3
  <2> HIDE DEF set, best, c
  <2>6. /\ c \in BookType /\ c.orders = rested.orders /\ c.levels = rested.levels
        /\ c.positions = rested.positions /\ c.nextOrderId = rested.nextOrderId
        /\ c.bitmap = set /\ c.best = best
    BY <2>3, <2>4, <2>5 DEF BookType
  <2> QED BY <2>3, <2>6 DEF set, best
<1> HIDE DEF c, s, p, level
<1>25. ASSUME NEW t \in BookSides, NEW q \in Prices PROVE LevelOK(new, id + 1, t, q, c.levels[t][q])
  <2>1. c.levels[t][q] = IF t = s /\ q = p THEN rest ELSE b.levels[t][q]
    BY <1>2, <1>24
  <2>2. LevelOK(new, id + 1, t, q, b.levels[t][q])
    BY <1>19 DEF LevelsOK
  <2> QED BY <1>23, <2>1, <2>2
<1>26. ASSUME NEW t \in BookSides PROVE IndexOK(c.levels[t], c.bitmap[t], c.best[t], t)
  <2>1. IndexOK(b.levels[t], b.bitmap[t], b.best[t], t)
    BY <1>19 DEF IndexesOK
  <2>2. CASE t # s
    BY <1>2, <1>24, <2>1, <2>2
  <2>3. CASE t = s
    <3>1. \A q \in Prices : q \in c.bitmap[s] <=> c.levels[s][q].head # 0
      <4>1. \A q \in Prices : c.levels[s][q] = IF q = p THEN rest ELSE b.levels[s][q]
        BY <1>2, <1>3, <1>24
      <4>2. c.bitmap[s] = b.bitmap[s] \cup {p}
        BY <1>2, <1>3, <1>24
      <4> QED BY <1>22, <2>1, <2>3, <4>1, <4>2 DEF IndexOK
    <3>2. c.bitmap[s] # {}
      BY <1>2, <1>3, <1>24, Zenon
    <3>3. c.best[s] \in c.bitmap[s] /\ \A q \in c.bitmap[s] : ~Better(s, q, c.best[s])
      <4>1. c.bitmap[s] = b.bitmap[s] \cup {p} /\ b.bitmap[s] \subseteq Prices
        BY <1>2, <1>3, <1>24
      <4>2. c.best[s] = IF Better(s, p, b.best[s]) THEN p ELSE b.best[s]
        BY <1>2, <1>3, <1>24
      <4>3. \A q \in Prices : q \in Int /\ q > 0 /\ q < MAX_PRICE
        BY PriceAssumption DEF MAX_PRICE
      <4>4. CASE b.bitmap[s] = {}
        <5>1. b.best[s] = NoBest(s)
          BY <2>1, <2>3, <4>4 DEF IndexOK
        <5>2. Better(s, p, b.best[s])
          BY <1>3, <4>3, <5>1 DEF Better, NoBest, BookSides
        <5>3. ~Better(s, p, p)
          BY <1>3, <4>3 DEF Better
        <5> QED BY <4>1, <4>2, <4>4, <5>2, <5>3
      <4>5. CASE b.bitmap[s] # {}
        <5>1. b.best[s] \in b.bitmap[s] /\ \A q \in b.bitmap[s] : ~Better(s, q, b.best[s])
          BY <2>1, <2>3, <4>5 DEF IndexOK
        <5>2. ~Better(s, p, p) /\ b.best[s] \in Int
          BY <1>2, <1>3, <4>3 DEF Better
        <5>3. Better(s, p, b.best[s]) => \A q \in b.bitmap[s] : ~Better(s, q, p)
          <6> SUFFICES ASSUME Better(s, p, b.best[s]), NEW q \in b.bitmap[s] PROVE ~Better(s, q, p)
            OBVIOUS
          <6>1. q \in Int /\ p \in Int /\ ~Better(s, q, b.best[s])
            BY <1>3, <4>1, <4>3, <5>1
          <6> QED BY <5>2, <6>1 DEF Better
        <5> QED BY <4>1, <4>2, <5>1, <5>2, <5>3
      <4> QED BY <4>4, <4>5
    <3> QED BY <2>3, <3>1, <3>2, <3>3 DEF IndexOK
  <2> QED BY <2>2, <2>3
<1>27. Good(c, id + 1)
  BY <1>15, <1>24, <1>25, <1>26 DEF Good, LevelsOK, IndexesOK
<1>28. /\ \A i \in OrderIds : i # id => SameTrade(new[i], b.orders[i])
       /\ SameTrade(new[id], [order EXCEPT !.active = TRUE, !.prev = 0])
  BY <1>9, <1>12, <1>15, SMTT(30), ZenonT(60) DEF SameTrade
<1> QED BY <1>1, <1>24, <1>27, <1>28 DEF Recorded

-----------------------------------------------------------------------------
(* Money: what backs the resting orders of a book and what its traders hold. *)

ATotal(b)     == SumFunction([t \in Traders |-> b.positions[t].aShares])
BTotal(b)     == SumFunction([t \in Traders |-> b.positions[t].bShares])
StakeTotal(b) == SumFunction([t \in Traders |-> Stakes(b, t)])

\* There are sums over orders, traders and duels.
LEMMA FiniteSets == IsFiniteSet(OrderIds) /\ IsFiniteSet(Traders) /\ IsFiniteSet(Duels)
BY FiniteAssumption, BoundAssumption, IntervalFinite DEF OrderIds

\* Pointers back nothing.
LEMMA SameTradeSameBacking ==
    ASSUME NEW x, NEW y, SameTrade(x, y)
    PROVE  Backing(x) = Backing(y)
BY DEF SameTrade, Backing, Collateral, Remaining

\* What an order still wants is whole thousands, and so is its collateral
\* a whole number.
LEMMA BackingType ==
    ASSUME NEW n \in Nat, NEW orders, OrdersOK(orders, n), orders \in [OrderIds -> OrderType],
           NEW i \in OrderIds
    PROVE  /\ Lot(Remaining(orders[i])) /\ Remaining(orders[i]) \in Nat
           /\ Backing(orders[i]) \in Nat
           /\ orders[i].active =>
                Backing(orders[i]) = QuoteCost(orders[i].side, orders[i].price, Remaining(orders[i]))
<1>1. OrderOK(orders, n, i) /\ orders[i] \in OrderType
  BY DEF OrdersOK
<1>2. Lot(Remaining(orders[i]))
  BY <1>1, LotArith DEF OrderOK, Remaining
<1>3. orders[i].active => Backing(orders[i]) = QuoteCost(orders[i].side, orders[i].price, Remaining(orders[i]))
  BY DEF Backing, Collateral
<1>4. orders[i].active => QuoteCost(orders[i].side, orders[i].price, Remaining(orders[i])) \in Nat
  <2>1. orders[i].active => orders[i].price \in Ticks /\ orders[i].side \in BookSides
    BY <1>1, PricesAreTicks DEF OrderOK, OrderType
  <2> QED BY <1>2, <2>1, QuoteSides
<1>5. ~orders[i].active => Backing(orders[i]) = 0
  BY DEF Backing
<1> QED BY <1>2, <1>3, <1>4, <1>5 DEF Lot

\* The collateral of a book changes by that of the one order that changes.
LEMMA RestingChange ==
    ASSUME NEW b, NEW n \in Nat, Good(b, n), NEW c, NEW m \in Nat, Good(c, m), NEW id \in OrderIds,
           \A i \in OrderIds : i # id => Backing(c.orders[i]) = Backing(b.orders[i])
    PROVE  /\ RestingTotal(c) = RestingTotal(b) - Backing(b.orders[id]) + Backing(c.orders[id])
           /\ RestingTotal(b) \in Nat /\ RestingTotal(c) \in Nat
           /\ Backing(b.orders[id]) \in Nat /\ Backing(c.orders[id]) \in Nat
           /\ Backing(b.orders[id]) <= RestingTotal(b)
<1> DEFINE f == [i \in OrderIds |-> Backing(b.orders[i])]
           e == [i \in OrderIds |-> Backing(c.orders[i])]
<1>1. f \in [OrderIds -> Nat] /\ e \in [OrderIds -> Nat]
  <2>1. \A i \in OrderIds : Backing(b.orders[i]) \in Nat
    BY BackingType DEF Good, BookType
  <2>2. \A i \in OrderIds : Backing(c.orders[i]) \in Nat
    BY BackingType DEF Good, BookType
  <2> QED BY <2>1, <2>2
<1>2. RestingTotal(b) = SumFunction(f) /\ RestingTotal(c) = SumFunction(e)
  BY DEF RestingTotal
<1>3. f[id] = Backing(b.orders[id]) /\ e[id] = Backing(c.orders[id]) /\ \A i \in OrderIds : i # id => e[i] = f[i]
  OBVIOUS
<1> HIDE DEF f, e
<1>4. f \in [OrderIds -> Int] /\ e \in [OrderIds -> Int]
  BY <1>1
<1>5. SumFunction(e) = SumFunction(f) - f[id] + e[id]
  BY <1>3, <1>4, FiniteSets, TotalChange
<1>6. SumFunction(f) \in Nat /\ SumFunction(e) \in Nat /\ f[id] <= SumFunction(f)
  BY <1>1, <1>4, FiniteSets, TotalType, TotalBounds
<1>7. f[id] \in Nat /\ e[id] \in Nat
  BY <1>1
<1> QED BY <1>2, <1>3, <1>5, <1>6, <1>7

\* Books whose orders are backed alike hold the same collateral.
LEMMA RestingSame ==
    ASSUME NEW b, NEW c, \A i \in OrderIds : Backing(c.orders[i]) = Backing(b.orders[i])
    PROVE  RestingTotal(c) = RestingTotal(b)
<1> DEFINE f == [i \in OrderIds |-> Backing(b.orders[i])]
           e == [i \in OrderIds |-> Backing(c.orders[i])]
<1>1. f = e
  OBVIOUS
<1> QED BY <1>1 DEF RestingTotal

\* Positions that are those of b but for one trader's.
LEMMA PositionChange ==
    ASSUME NEW b \in BookType, NEW c \in BookType, NEW t \in Traders, NEW x \in PositionType,
           c.positions = [b.positions EXCEPT ![t] = x]
    PROVE  /\ ATotal(c) = ATotal(b) - b.positions[t].aShares + x.aShares
           /\ BTotal(c) = BTotal(b) - b.positions[t].bShares + x.bShares
           /\ StakeTotal(c) = StakeTotal(b) - Stakes(b, t) + (x.aStake + x.bStake)
           /\ ATotal(b) \in Nat /\ BTotal(b) \in Nat /\ StakeTotal(b) \in Nat
           /\ Stakes(b, t) \in Nat /\ b.positions[t] \in PositionType
<1>1. b.positions \in [Traders -> PositionType] /\ c.positions \in [Traders -> PositionType]
  BY DEF BookType
<1>2. \A u \in Traders : /\ b.positions[u] \in PositionType /\ c.positions[u] \in PositionType
                         /\ u # t => c.positions[u] = b.positions[u]
                         /\ Stakes(b, u) \in Nat /\ Stakes(c, u) \in Nat
                         /\ u # t => Stakes(c, u) = Stakes(b, u)
  <2>1. \A u \in Traders : /\ b.positions[u] \in PositionType /\ c.positions[u] \in PositionType
                           /\ u # t => c.positions[u] = b.positions[u]
    BY <1>1
  <2>2. \A z \in PositionType : z.aStake + z.bStake \in Nat
    BY DEF PositionType
  <2> QED BY <2>1, <2>2 DEF Stakes
<1>3. c.positions[t] = x /\ Stakes(c, t) = x.aStake + x.bStake
  BY <1>1 DEF Stakes
<1>4. \A z \in PositionType : z.aShares \in Nat /\ z.bShares \in Nat
  BY DEF PositionType
<1>5. ASSUME NEW f \in [Traders -> Nat], NEW e \in [Traders -> Nat], \A u \in Traders : u # t => e[u] = f[u]
      PROVE  SumFunction(e) = SumFunction(f) - f[t] + e[t] /\ SumFunction(f) \in Nat
  <2>1. f \in [Traders -> Int] /\ e \in [Traders -> Int]
    OBVIOUS
  <2> QED BY <1>5, <2>1, FiniteSets, TotalChange, TotalType
<1>6. ATotal(c) = ATotal(b) - b.positions[t].aShares + x.aShares /\ ATotal(b) \in Nat
  <2> DEFINE f == [u \in Traders |-> b.positions[u].aShares]
             e == [u \in Traders |-> c.positions[u].aShares]
  <2>1. f \in [Traders -> Nat] /\ e \in [Traders -> Nat] /\ \A u \in Traders : u # t => e[u] = f[u]
    BY <1>2, <1>4
  <2>2. f[t] = b.positions[t].aShares /\ e[t] = x.aShares
    BY <1>3
  <2>3. ATotal(b) = SumFunction(f) /\ ATotal(c) = SumFunction(e)
    BY DEF ATotal
  <2> HIDE DEF f, e
  <2> QED BY <1>5, <2>1, <2>2, <2>3
<1>7. BTotal(c) = BTotal(b) - b.positions[t].bShares + x.bShares /\ BTotal(b) \in Nat
  <2> DEFINE f == [u \in Traders |-> b.positions[u].bShares]
             e == [u \in Traders |-> c.positions[u].bShares]
  <2>1. f \in [Traders -> Nat] /\ e \in [Traders -> Nat] /\ \A u \in Traders : u # t => e[u] = f[u]
    BY <1>2, <1>4
  <2>2. f[t] = b.positions[t].bShares /\ e[t] = x.bShares
    BY <1>3
  <2>3. BTotal(b) = SumFunction(f) /\ BTotal(c) = SumFunction(e)
    BY DEF BTotal
  <2> HIDE DEF f, e
  <2> QED BY <1>5, <2>1, <2>2, <2>3
<1>8. StakeTotal(c) = StakeTotal(b) - Stakes(b, t) + (x.aStake + x.bStake) /\ StakeTotal(b) \in Nat
  <2> DEFINE f == [u \in Traders |-> Stakes(b, u)]
             e == [u \in Traders |-> Stakes(c, u)]
  <2>1. f \in [Traders -> Nat] /\ e \in [Traders -> Nat] /\ \A u \in Traders : u # t => e[u] = f[u]
    BY <1>2
  <2>2. f[t] = Stakes(b, t) /\ e[t] = x.aStake + x.bStake
    BY <1>3
  <2>3. StakeTotal(b) = SumFunction(f) /\ StakeTotal(c) = SumFunction(e)
    BY DEF StakeTotal
  <2> HIDE DEF f, e
  <2> QED BY <1>5, <2>1, <2>2, <2>3
<1> QED BY <1>2, <1>6, <1>7, <1>8

\* y is position z after a fill.
Filled(z, y, side, price, fill) ==
    /\ y \in PositionType
    /\ y.aShares = z.aShares + (IF side = "BUY" THEN fill ELSE 0)
    /\ y.bShares = z.bShares + (IF side = "BUY" THEN 0 ELSE fill)
    /\ y.aStake + y.bStake = z.aStake + z.bStake + QuoteCost(side, price, fill)

\* What a fill adds to a position: shares of one side, and their quote to its stakes.
LEMMA WithFillAdds ==
    ASSUME NEW z \in PositionType, NEW side \in BookSides, NEW price \in Prices, NEW fill, Lot(fill)
    PROVE  Filled(z, WithFill(z, side, price, fill), side, price, fill)
<1> DEFINE stake == FillStake(side, price, fill)
           y == WithFill(z, side, price, fill)
<1>1. stake = QuoteCost(side, price, fill) /\ stake \in Nat /\ fill \in Nat
  BY PricesAreTicks, FillIsQuote, QuoteSides DEF Lot
<1>2. y = IF side = "BUY" THEN [z EXCEPT !.aShares = @ + fill, !.aStake = @ + stake]
          ELSE [z EXCEPT !.bShares = @ + fill, !.bStake = @ + stake]
  BY DEF WithFill
<1> HIDE DEF stake, y
<1>3. z.aShares \in Nat /\ z.bShares \in Nat /\ z.aStake \in Nat /\ z.bStake \in Nat
  BY DEF PositionType
<1>4. CASE side = "BUY"
  <2>1. /\ y.aShares = z.aShares + fill /\ y.bShares = z.bShares
        /\ y.aStake = z.aStake + stake /\ y.bStake = z.bStake
    BY <1>2, <1>4 DEF PositionType
  <2>2. y.aShares \in Nat /\ y.bShares \in Nat /\ y.aStake \in Nat /\ y.bStake \in Nat
    BY <1>1, <1>3, <2>1
  <2>3. y = [aShares |-> y.aShares, bShares |-> y.bShares, aStake |-> y.aStake, bStake |-> y.bStake]
    BY <1>2, <1>4, <2>1 DEF PositionType
  <2>4. y \in PositionType
    BY <2>2, <2>3 DEF PositionType
  <2>5. y.aStake + y.bStake = z.aStake + z.bStake + QuoteCost(side, price, fill)
    BY <1>1, <1>3, <2>1
  <2>6. /\ y.aShares = z.aShares + (IF side = "BUY" THEN fill ELSE 0)
        /\ y.bShares = z.bShares + (IF side = "BUY" THEN 0 ELSE fill)
    BY <1>3, <1>4, <2>1
  <2>7. Filled(z, y, side, price, fill)
    BY <2>4, <2>5, <2>6 DEF Filled
  <2> QED BY <2>7 DEF y
<1>5. CASE side = "SELL"
  <2>1. /\ y.aShares = z.aShares /\ y.bShares = z.bShares + fill
        /\ y.aStake = z.aStake /\ y.bStake = z.bStake + stake
    BY <1>2, <1>5 DEF PositionType
  <2>2. y.aShares \in Nat /\ y.bShares \in Nat /\ y.aStake \in Nat /\ y.bStake \in Nat
    BY <1>1, <1>3, <2>1
  <2>3. y = [aShares |-> y.aShares, bShares |-> y.bShares, aStake |-> y.aStake, bStake |-> y.bStake]
    BY <1>2, <1>5, <2>1 DEF PositionType
  <2>4. y \in PositionType
    BY <2>2, <2>3 DEF PositionType
  <2>5. y.aStake + y.bStake = z.aStake + z.bStake + QuoteCost(side, price, fill)
    BY <1>1, <1>3, <2>1
  <2>6. /\ y.aShares = z.aShares + (IF side = "BUY" THEN fill ELSE 0)
        /\ y.bShares = z.bShares + (IF side = "BUY" THEN 0 ELSE fill)
    BY <1>3, <1>5, <2>1
  <2>7. Filled(z, y, side, price, fill)
    BY <2>4, <2>5, <2>6 DEF Filled
  <2> QED BY <2>7 DEF y
<1> QED BY <1>4, <1>5 DEF BookSides

\* The positions after a fill, as Fill writes them.
Traded(b, maker, taker, side, price, fill) ==
    [b.positions EXCEPT ![maker] = WithFill(@, Opposite(side), price, fill),
                        ![taker] = WithFill(@, side, price, fill)]

\* A fill adds its shares to both sides and its price to the stakes.
LEMMA TradeMoves ==
    ASSUME NEW b \in BookType, NEW c \in BookType, NEW maker \in Traders, NEW taker \in Traders,
           maker # taker, NEW side \in BookSides, NEW price \in Prices, NEW fill, Lot(fill),
           c.positions = Traded(b, maker, taker, side, price, fill)
    PROVE  /\ ATotal(c) = ATotal(b) + fill /\ BTotal(c) = BTotal(b) + fill
           /\ StakeTotal(c) = StakeTotal(b) + QuoteCost(Opposite(side), price, fill)
                                            + QuoteCost(side, price, fill)
<1> DEFINE y  == WithFill(b.positions[maker], Opposite(side), price, fill)
           z  == WithFill(b.positions[taker], side, price, fill)
           b1 == [b EXCEPT !.positions = [@ EXCEPT ![maker] = y]]
<1>1. b.positions \in [Traders -> PositionType]
  BY DEF BookType
<1>2. Opposite(side) \in BookSides /\ (Opposite(side) = "BUY" <=> side # "BUY")
  BY DEF Opposite, BookSides
<1>3. /\ y \in PositionType
      /\ y.aShares = b.positions[maker].aShares + (IF side = "BUY" THEN 0 ELSE fill)
      /\ y.bShares = b.positions[maker].bShares + (IF side = "BUY" THEN fill ELSE 0)
      /\ y.aStake + y.bStake = b.positions[maker].aStake + b.positions[maker].bStake
                                  + QuoteCost(Opposite(side), price, fill)
  <2>1. b.positions[maker] \in PositionType
    BY <1>1
  <2> QED BY <1>2, <2>1, WithFillAdds DEF Filled
<1>4. /\ z \in PositionType
      /\ z.aShares = b.positions[taker].aShares + (IF side = "BUY" THEN fill ELSE 0)
      /\ z.bShares = b.positions[taker].bShares + (IF side = "BUY" THEN 0 ELSE fill)
      /\ z.aStake + z.bStake = b.positions[taker].aStake + b.positions[taker].bStake
                                  + QuoteCost(side, price, fill)
  <2>1. b.positions[taker] \in PositionType
    BY <1>1
  <2> QED BY <2>1, WithFillAdds DEF Filled
<1>5. c.positions = [[b.positions EXCEPT ![maker] = y] EXCEPT ![taker] = z]
  BY <1>1 DEF Traded
<1> HIDE DEF y, z
<1>6. b1 \in BookType /\ b1.positions = [b.positions EXCEPT ![maker] = y]
  BY <1>1, <1>3 DEF BookType
<1>7. b1.positions[taker] = b.positions[taker]
  BY <1>1, <1>6
<1>8. c.positions = [b1.positions EXCEPT ![taker] = z]
  BY <1>5, <1>6
<1> HIDE DEF b1
<1>9. /\ ATotal(b1) = ATotal(b) - b.positions[maker].aShares + y.aShares
      /\ BTotal(b1) = BTotal(b) - b.positions[maker].bShares + y.bShares
      /\ StakeTotal(b1) = StakeTotal(b) - Stakes(b, maker) + (y.aStake + y.bStake)
      /\ ATotal(b) \in Nat /\ BTotal(b) \in Nat /\ StakeTotal(b) \in Nat
      /\ Stakes(b, maker) \in Nat /\ b.positions[maker] \in PositionType
  BY <1>3, <1>6, PositionChange
<1>10. /\ ATotal(c) = ATotal(b1) - b1.positions[taker].aShares + z.aShares
       /\ BTotal(c) = BTotal(b1) - b1.positions[taker].bShares + z.bShares
       /\ StakeTotal(c) = StakeTotal(b1) - Stakes(b1, taker) + (z.aStake + z.bStake)
       /\ ATotal(b1) \in Nat /\ BTotal(b1) \in Nat /\ StakeTotal(b1) \in Nat
       /\ Stakes(b1, taker) \in Nat /\ b1.positions[taker] \in PositionType
  <2>1. z \in PositionType
    BY <1>4
  <2>2. b1 \in BookType
    BY <1>6
  <2> QED BY <1>8, <2>1, <2>2, PositionChange
<1>11. /\ b.positions[maker].aShares \in Nat /\ b.positions[maker].bShares \in Nat
       /\ b.positions[taker].aShares \in Nat /\ b.positions[taker].bShares \in Nat /\ fill \in Nat
  BY <1>1 DEF PositionType, Lot
<1>12. QuoteCost(Opposite(side), price, fill) \in Nat /\ QuoteCost(side, price, fill) \in Nat
  BY <1>2, PricesAreTicks, QuoteSides
<1>13. ATotal(c) = ATotal(b) + fill
  BY <1>3, <1>4, <1>7, <1>9, <1>10, <1>11
<1>14. BTotal(c) = BTotal(b) + fill
  BY <1>3, <1>4, <1>7, <1>9, <1>10, <1>11
<1>15. /\ StakeTotal(b1) = StakeTotal(b) + QuoteCost(Opposite(side), price, fill)
       /\ StakeTotal(c) = StakeTotal(b1) + QuoteCost(side, price, fill)
  <2>1. y.aStake + y.bStake = Stakes(b, maker) + QuoteCost(Opposite(side), price, fill)
    BY <1>3 DEF Stakes
  <2>2. z.aStake + z.bStake = Stakes(b1, taker) + QuoteCost(side, price, fill)
    BY <1>4, <1>7 DEF Stakes
  <2> QED BY <1>9, <1>10, <1>12, <2>1, <2>2
<1> QED BY <1>9, <1>12, <1>13, <1>14, <1>15

\* The book inside Fill, before a head without a remainder is popped.
FilledBook(b, taker, side, price, head, fill) ==
    [b EXCEPT !.orders[head].filled = @ + fill,
              !.levels[Opposite(side)][price].totalOpen = @ - fill,
              !.totalShares = @ + fill,
              !.positions[b.orders[head].maker] = WithFill(@, Opposite(side), price, fill),
              !.positions[taker] = WithFill(@, side, price, fill)]

\* c is b after a fill of its head: the shares and stakes are traded, and the
\* maker's stake comes out of his collateral.
FillMoves(b, n, side, price, head, fill, c) ==
    /\ Good(c, n)
    /\ c.nextOrderId = b.nextOrderId
    /\ ATotal(c) = ATotal(b) + fill /\ BTotal(c) = BTotal(b) + fill
    /\ StakeTotal(c) = StakeTotal(b) + QuoteCost(Opposite(side), price, fill) + QuoteCost(side, price, fill)
    /\ RestingTotal(c) + QuoteCost(Opposite(side), price, fill) = RestingTotal(b)
    /\ RestingTotal(c) \in Nat
    /\ c.levels[Opposite(side)][price].head = head

\* A fill keeps the book sound and moves its quote from the maker's collateral to
\* the stakes, the taker's payment on top.
LEMMA FillBook ==
    ASSUME NEW b, NEW n \in Nat, Good(b, n), NEW side \in BookSides, NEW price \in Prices,
           NEW taker \in Traders, NEW head, head = b.levels[Opposite(side)][price].head, head # 0,
           b.orders[head].active, b.orders[head].maker # taker,
           NEW fill, Lot(fill), fill <= Remaining(b.orders[head]),
           fill <= b.levels[Opposite(side)][price].totalOpen
    PROVE  FillMoves(b, n, side, price, head, fill, FilledBook(b, taker, side, price, head, fill))
<1> DEFINE s == Opposite(side)
           level == b.levels[s][price]
           o == b.orders[head]
           x == [o EXCEPT !.filled = @ + fill]
           new == [b.orders EXCEPT ![head] = x]
           rest == [level EXCEPT !.totalOpen = @ - fill]
           b1 == [b EXCEPT !.orders = new]
           b2 == [b1 EXCEPT !.levels[s][price] = rest]
           ps == Traded(b, o.maker, taker, side, price, fill)
           c == [b2 EXCEPT !.totalShares = @ + fill, !.positions = ps]
<1>1. s \in BookSides
  BY DEF Opposite, BookSides
<1>2. /\ b \in BookType /\ b.orders \in [OrderIds -> OrderType] /\ b.positions \in [Traders -> PositionType]
      /\ b.levels \in [BookSides -> [Prices -> LevelType]] /\ b.totalShares \in Nat
      /\ OrdersOK(b.orders, n)
  BY DEF Good, BookType
<1>3. level \in LevelType /\ LevelOK(b.orders, n, s, price, level) /\ level.totalOpen \in Nat
      /\ level.head = head /\ head \in OrderIds
  BY <1>1, LevelFacts
<1>4. Kin(b.orders, n, s, price, level.head) /\ Kin(b.orders, n, s, price, level.tail) /\ level.tail # 0
  BY <1>3 DEF LevelOK
<1>5. head < n /\ o.side = s /\ o.price = price
  BY <1>3, <1>4 DEF Kin
<1>6. o \in OrderType /\ OrderOK(b.orders, n, head)
  BY <1>2, <1>3 DEF OrdersOK
<1>7. /\ Lot(o.amount) /\ Lot(o.filled) /\ o.maker \in Traders /\ o.price \in Prices /\ fill \in Nat
      /\ o.amount \in Nat /\ o.filled \in Nat
  BY <1>6, Zenon DEF OrderOK, Lot
<1>8. o.filled + fill <= o.amount /\ Lot(o.filled + fill) /\ o.filled + fill \in Nat
  <2>1. fill <= o.amount - o.filled
    BY DEF Remaining
  <2>2. Lot(o.filled + fill)
    BY <1>7, LotArith, Zenon
  <2>3. o.filled + fill \in Nat
    BY <2>2 DEF Lot
  <2> HIDE DEF o
  <2> QED BY <1>7, <2>1, <2>2, <2>3
<1>9. /\ x \in OrderType /\ x.side = o.side /\ x.price = o.price /\ x.maker = o.maker
      /\ x.amount = o.amount /\ x.filled = o.filled + fill /\ x.active = o.active
      /\ x.next = o.next /\ x.prev = o.prev
  BY <1>6, <1>8, Zenon DEF OrderType
<1> HIDE DEF x
<1>10. Kin(b.orders, n, x.side, x.price, x.next) /\ Kin(b.orders, n, x.side, x.price, x.prev)
  BY <1>6, <1>9, Zenon DEF OrderOK
<1>11. /\ new \in [OrderIds -> OrderType] /\ OrdersOK(new, n)
       /\ \A i \in OrderIds : new[i].side = b.orders[i].side /\ new[i].price = b.orders[i].price
  <2>1. Lot(x.amount) /\ Lot(x.filled) /\ x.filled <= x.amount
    BY <1>7, <1>8, <1>9, Zenon
  <2>2. x.active => x.price \in Prices /\ x.maker \in Traders
    BY <1>7, <1>9, Zenon
  <2>3. x.side = b.orders[head].side /\ x.price = b.orders[head].price
    BY <1>9
  <2> HIDE DEF o
  <2> QED BY <1>2, <1>3, <1>5, <1>9, <1>10, <2>1, <2>2, <2>3, OrderReplaced, Zenon
<1>12. new[head] = x /\ \A i \in OrderIds : i # head => new[i] = b.orders[i]
  BY <1>2, <1>3
<1> HIDE DEF new
<1>13. Good(b1, n)
  BY <1>11, OrdersReplaced
<1>14. /\ b1 \in BookType /\ b1.orders = new /\ b1.levels = b.levels /\ b1.positions = b.positions
       /\ b1.nextOrderId = b.nextOrderId /\ b1.totalShares = b.totalShares
  BY <1>2, <1>11 DEF BookType
<1>15. /\ rest \in LevelType /\ rest.head = head /\ rest.tail = level.tail
  <2>1. fill <= level.totalOpen
    OBVIOUS
  <2> HIDE DEF level
  <2>4. fill \in Nat
    BY DEF Lot
  <2>3. \A k \in Nat : fill <= k => k - fill \in Nat
    BY <2>4
  <2>2. level.totalOpen - fill \in Nat
    BY <1>3, <2>1, <2>3
  <2> QED BY <1>3, <2>2 DEF LevelType
<1> HIDE DEF rest
<1>16. LevelOK(new, n, s, price, rest)
  <2>1. rest.head \in {0} \cup OrderIds /\ rest.tail \in {0} \cup OrderIds
    BY <1>15 DEF LevelType
  <2>2. Kin(b.orders, n, s, price, rest.head) /\ Kin(b.orders, n, s, price, rest.tail)
    BY <1>3, <1>4, <1>15
  <2>3. Kin(new, n, s, price, rest.head) /\ Kin(new, n, s, price, rest.tail)
    BY <1>11, <2>1, <2>2, KinStays
  <2> QED BY <1>4, <1>15, <2>3 DEF LevelOK
<1> HIDE DEF b1
<1>17. Good(b2, n)
  BY <1>1, <1>3, <1>13, <1>14, <1>15, <1>16, LevelReplaced
<1>18. /\ b2 \in BookType /\ b2.orders = new /\ b2.levels = [b.levels EXCEPT ![s][price] = rest]
       /\ b2.positions = b.positions /\ b2.nextOrderId = b.nextOrderId /\ b2.totalShares = b.totalShares
  BY <1>1, <1>14, <1>15 DEF BookType
<1>19. ps \in [Traders -> PositionType]
  <2>1. /\ WithFill(b.positions[o.maker], s, price, fill) \in PositionType
        /\ WithFill(b.positions[taker], side, price, fill) \in PositionType
    BY <1>1, <1>2, <1>7, WithFillAdds, Zenon DEF Filled
  <2> QED BY <1>2, <1>7, <2>1, Zenon DEF Traded
<1>20. FilledBook(b, taker, side, price, head, fill) = c
  <2>1. FilledBook(b, taker, side, price, head, fill) =
          [b EXCEPT !.orders = new, !.levels[s][price] = rest, !.totalShares = @ + fill, !.positions = ps]
    BY Zenon DEF FilledBook, Traded, new, x, rest
  <2>2. c = [b EXCEPT !.orders = new, !.levels[s][price] = rest, !.totalShares = @ + fill, !.positions = ps]
    BY <1>2 DEF b1, BookType
  <2> QED BY <2>1, <2>2
<1> HIDE DEF b2, ps
<1>21. /\ c \in BookType /\ c.orders = b2.orders /\ c.levels = b2.levels /\ c.bitmap = b2.bitmap
       /\ c.best = b2.best /\ c.positions = ps /\ c.nextOrderId = b2.nextOrderId
  <2>2. b2.totalShares \in Nat /\ fill \in Nat
    BY <1>2, <1>7, <1>18, Zenon
  <2>1. b2.totalShares + fill \in Nat
    BY <2>2
  <2> QED BY <1>18, <1>19, <2>1 DEF BookType
<1> HIDE DEF c
<1>22. Good(c, n)
  BY <1>17, <1>21 DEF Good, IndexesOK
<1>23. /\ ATotal(c) = ATotal(b) + fill /\ BTotal(c) = BTotal(b) + fill
       /\ StakeTotal(c) = StakeTotal(b) + QuoteCost(s, price, fill) + QuoteCost(side, price, fill)
  <2>1. o.maker \in Traders /\ o.maker # taker
    BY <1>7, Zenon
  <2>2. c.positions = Traded(b, o.maker, taker, side, price, fill)
    BY <1>21 DEF ps
  <2> HIDE DEF o
  <2> QED BY <1>2, <1>21, <2>1, <2>2, TradeMoves
<1>24. RestingTotal(c) + QuoteCost(s, price, fill) = RestingTotal(b) /\ RestingTotal(c) \in Nat
  <2>1. c.orders[head] = x /\ \A i \in OrderIds : i # head => Backing(c.orders[i]) = Backing(b.orders[i])
    BY <1>12, <1>18, <1>21
  <2>2. /\ RestingTotal(c) = RestingTotal(b) - Backing(o) + Backing(x)
        /\ RestingTotal(b) \in Nat /\ RestingTotal(c) \in Nat
        /\ Backing(o) \in Nat /\ Backing(x) \in Nat
    BY <1>3, <1>22, <2>1, RestingChange
  <2>3. Backing(o) = QuoteCost(s, price, Remaining(o)) /\ Backing(x) = QuoteCost(s, price, Remaining(x))
    BY <1>5, <1>9 DEF Backing, Collateral
  <2>4. Lot(Remaining(x)) /\ Remaining(o) = Remaining(x) + fill
    <3>1. Remaining(x) = o.amount - (o.filled + fill) /\ Remaining(o) = o.amount - o.filled
      BY <1>9 DEF Remaining
    <3>2. Lot(o.amount - (o.filled + fill))
      BY <1>7, <1>8, LotArith, Zenon
    <3> HIDE DEF o
    <3> QED BY <1>7, <1>8, <3>1, <3>2
  <2>5. QuoteCost(s, price, Remaining(o)) = QuoteCost(s, price, Remaining(x)) + QuoteCost(s, price, fill)
    BY <1>1, <2>4, PricesAreTicks, QuoteAdds
  <2>6. QuoteCost(s, price, fill) \in Nat
    BY <1>1, PricesAreTicks, QuoteSides
  <2> HIDE DEF o
  <2> QED BY <2>2, <2>3, <2>5, <2>6
<1>25. c.levels[s][price].head = head /\ c.nextOrderId = b.nextOrderId
  BY <1>1, <1>2, <1>15, <1>18, <1>21
<1> QED BY <1>20, <1>22, <1>23, <1>24, <1>25 DEF FillMoves

-----------------------------------------------------------------------------
(* A run of the matching loop. *)

\* Two books that hold the same money.
SameMoney(b, c) ==
    /\ RestingTotal(c) = RestingTotal(b) /\ StakeTotal(c) = StakeTotal(b)
    /\ ATotal(c) = ATotal(b) /\ BTotal(c) = BTotal(b)

\* The totals depend on the positions alone.
LEMMA SamePositionsSameTotals ==
    ASSUME NEW b, NEW c, c.positions = b.positions
    PROVE  StakeTotal(c) = StakeTotal(b) /\ ATotal(c) = ATotal(b) /\ BTotal(c) = BTotal(b)
BY DEF StakeTotal, ATotal, BTotal, Stakes

\* _popHead moves no money when the head backs nothing, nor does _deactivatePrice.
LEMMA PopHeadMoney ==
    ASSUME NEW b, NEW n \in Nat, Good(b, n), NEW s \in BookSides, NEW p \in Prices,
           b.levels[s][p].head # 0,
           LET o == b.orders[b.levels[s][p].head] IN ~o.active \/ Remaining(o) = 0
    PROVE  /\ Good(PopHead(b, s, p), n) /\ SameMoney(b, PopHead(b, s, p))
           /\ PopHead(b, s, p).nextOrderId = b.nextOrderId
<1> DEFINE h == b.levels[s][p].head
           c == PopHead(b, s, p)
<1>1. Popped(b, n, s, p, c)
  BY PopHeadGood
<1> HIDE DEF c
<1>2. /\ h \in OrderIds /\ b.orders \in [OrderIds -> OrderType] /\ OrderOK(b.orders, n, h)
      /\ b.orders[h] \in OrderType
  BY LevelFacts, OrderFacts
<1>3. Good(c, n) /\ c.positions = b.positions /\ c.nextOrderId = b.nextOrderId
  BY <1>1 DEF Popped
<1>4. c.orders[h] = Gone(b.orders[h]) /\ \A i \in OrderIds : i # h => c.orders[i] = b.orders[i]
  BY <1>1, <1>2 DEF Popped
<1>5. Backing(c.orders[h]) = 0
  BY <1>2, <1>4 DEF Gone, Backing, OrderType
<1>6. Backing(b.orders[h]) = 0
  <2>1. CASE ~b.orders[h].active
    BY <2>1 DEF Backing
  <2>2. CASE b.orders[h].active
    <3>1. Remaining(b.orders[h]) = 0
      BY <2>2
    <3>2. b.orders[h].side \in BookSides /\ b.orders[h].price \in Ticks
      BY <1>2, <2>2, PricesAreTicks, Zenon DEF OrderOK, OrderType
    <3>3. Lot(0)
      BY DEF Lot, MAX_PRICE
    <3>4. QuoteCost(b.orders[h].side, b.orders[h].price, 0) = 0
      BY <3>2, <3>3, QuoteSides
    <3> QED BY <3>1, <3>4 DEF Backing, Collateral
  <2> QED BY <2>1, <2>2
<1>7. RestingTotal(c) = RestingTotal(b)
  <2>1. \A i \in OrderIds : Backing(c.orders[i]) = Backing(b.orders[i])
    BY <1>4, <1>5, <1>6
  <2> QED BY <2>1, RestingSame
<1> QED BY <1>3, <1>7, SamePositionsSameTotals DEF SameMoney, c

\* _deactivatePrice moves no money.
LEMMA DeactivateMoney ==
    ASSUME NEW b, NEW n \in Nat, Good(b, n), NEW s \in BookSides, NEW p \in Prices
    PROVE  /\ Good(DeactivatePrice(b, s, p), n) /\ SameMoney(b, DeactivatePrice(b, s, p))
           /\ DeactivatePrice(b, s, p).nextOrderId = b.nextOrderId
<1> DEFINE c == DeactivatePrice(b, s, p)
<1>1. Good(c, n)
  BY DeactivateGood
<1>2. Deactivated(b, s, p, c)
  BY DeactivateWrites DEF Good
<1> HIDE DEF c
<1>3. c.orders = b.orders /\ c.positions = b.positions /\ c.nextOrderId = b.nextOrderId
  BY <1>2 DEF Deactivated
<1>4. RestingTotal(c) = RestingTotal(b)
  BY <1>3, RestingSame
<1> QED BY <1>1, <1>3, <1>4, SamePositionsSameTotals DEF SameMoney, c

RunType == [book : BookType, remaining : Nat, cost : Nat, selfTrade : BOOLEAN, reverted : BOOLEAN]

\* What a run has done to book b at any iteration: it paid for what it filled,
\* at the limit price or better, and what it paid is in the book.
Paid(b, c, cost, filled) ==
    /\ RestingTotal(c) + StakeTotal(c) = RestingTotal(b) + StakeTotal(b) + cost
    /\ ATotal(c) = ATotal(b) + filled /\ BTotal(c) = BTotal(b) + filled
    /\ StakeTotal(c) = StakeTotal(b) + filled
    /\ RestingTotal(c) \in Nat

RunOK(m, b, n, side, limit, amount) ==
    /\ m \in RunType
    /\ Good(m.book, n) /\ m.book.nextOrderId = n + 1
    /\ Lot(m.remaining) /\ m.remaining <= amount
    /\ m.cost <= QuoteCost(side, limit, amount - m.remaining)
    /\ Paid(b, m.book, m.cost, amount - m.remaining)

\* A run whose book changes without money.
LEMMA RunBook ==
    ASSUME NEW b, NEW n, NEW side, NEW limit, NEW amount, NEW m, RunOK(m, b, n, side, limit, amount),
           NEW c, Good(c, n), SameMoney(m.book, c), c.nextOrderId = m.book.nextOrderId
    PROVE  RunOK([m EXCEPT !.book = c], b, n, side, limit, amount)
<1> DEFINE k == [m EXCEPT !.book = c]
<1>1. m \in RunType /\ c \in BookType
  BY DEF RunOK, Good
<1>2. /\ k \in RunType /\ k.book = c /\ k.remaining = m.remaining /\ k.cost = m.cost
  BY <1>1 DEF RunType
<1> HIDE DEF k
<1>3. Paid(b, c, m.cost, amount - m.remaining)
  BY DEF RunOK, Paid, SameMoney
<1> QED BY <1>2, <1>3 DEF RunOK, k

\* A run that stops, on its own maker's order or a checked subtraction.
LEMMA RunFlags ==
    ASSUME NEW b, NEW n, NEW side, NEW limit, NEW amount, NEW m, RunOK(m, b, n, side, limit, amount)
    PROVE  /\ RunOK([m EXCEPT !.selfTrade = TRUE], b, n, side, limit, amount)
           /\ RunOK([m EXCEPT !.reverted = TRUE], b, n, side, limit, amount)
<1>1. m \in RunType
  BY DEF RunOK
<1>2. ASSUME NEW k \in RunType, k.book = m.book, k.remaining = m.remaining, k.cost = m.cost
      PROVE  RunOK(k, b, n, side, limit, amount)
  BY <1>2 DEF RunOK
<1>3. /\ [m EXCEPT !.selfTrade = TRUE] \in RunType /\ [m EXCEPT !.selfTrade = TRUE].book = m.book
      /\ [m EXCEPT !.selfTrade = TRUE].remaining = m.remaining /\ [m EXCEPT !.selfTrade = TRUE].cost = m.cost
  BY <1>1 DEF RunType
<1>4. /\ [m EXCEPT !.reverted = TRUE] \in RunType /\ [m EXCEPT !.reverted = TRUE].book = m.book
      /\ [m EXCEPT !.reverted = TRUE].remaining = m.remaining /\ [m EXCEPT !.reverted = TRUE].cost = m.cost
  BY <1>1 DEF RunType
<1> QED BY <1>2, <1>3, <1>4

\* The lesser of two amounts.
LEMMA MinOfTwo ==
    ASSUME NEW x \in Nat, NEW y \in Nat
    PROVE  /\ Min({x, y}) \in {x, y} /\ Min({x, y}) <= x /\ Min({x, y}) <= y
<1>1. \E z \in {x, y} : \A w \in {x, y} : z <= w
  <2>1. CASE x <= y
    BY <2>1
  <2>2. CASE ~(x <= y)
    BY <2>2
  <2> QED BY <2>1, <2>2
<1> QED BY <1>1 DEF Min

\* A fill of an order that wants a by a run that wants r of its amount.
Fits(fill, a, r, amount) ==
    /\ Lot(fill) /\ fill <= a /\ fill <= r /\ fill \in Nat
    /\ Lot(r - fill) /\ r - fill <= amount
    /\ Lot(amount - r) /\ amount - (r - fill) = (amount - r) + fill

\* The lesser of what the maker and the taker still want fits both.
LEMMA FillSizes ==
    ASSUME NEW a, NEW r, NEW amount, Lot(a), Lot(r), Lot(amount), r <= amount
    PROVE  Fits(Min({a, r}), a, r, amount)
<1> DEFINE fill == Min({a, r})
<1>1. a \in Nat /\ r \in Nat /\ amount \in Nat
  BY DEF Lot
<1>2. fill \in {a, r} /\ fill <= a /\ fill <= r
  BY <1>1, MinOfTwo
<1>3. Lot(fill)
  BY <1>2
<1> HIDE DEF fill
<1>4. fill \in Nat
  BY <1>3 DEF Lot
<1>5. Lot(r - fill) /\ Lot(amount - r)
  BY <1>2, <1>3, LotArith
<1>6. r - fill <= amount /\ amount - (r - fill) = (amount - r) + fill
  BY <1>1, <1>2, <1>4
<1> QED BY <1>2, <1>3, <1>4, <1>5, <1>6 DEF Fits, fill

\* Two books that hold the same money pay the same.
LEMMA PaidSame ==
    ASSUME NEW b, NEW c, NEW e, NEW cost, NEW filled, Paid(b, c, cost, filled), SameMoney(c, e)
    PROVE  Paid(b, e, cost, filled)
BY DEF Paid, SameMoney

\* Fill
LEMMA FillRun ==
    ASSUME NEW b, NEW n \in Nat, NEW side \in BookSides, NEW limit \in Prices, NEW amount, Lot(amount),
           NEW m, RunOK(m, b, n, side, limit, amount), NEW taker \in Traders, NEW price \in Prices,
           price = limit \/ Better(side, limit, price),
           StakeTotal(b) \in Nat, RestingTotal(b) \in Nat, ATotal(b) \in Nat, BTotal(b) \in Nat,
           NEW head, head = m.book.levels[Opposite(side)][price].head, head # 0,
           m.book.orders[head].active, m.book.orders[head].maker # taker
    PROVE  RunOK(Fill(m, taker, side, price, head), b, n, side, limit, amount)
<1> DEFINE s == Opposite(side)
           o == m.book.orders[head]
           fill == Min({Remaining(o), m.remaining})
           open == m.book.levels[s][price].totalOpen
           c == FilledBook(m.book, taker, side, price, head, fill)
           e == IF Remaining(c.orders[head]) = 0 THEN PopHead(c, s, price) ELSE c
           stake == FillStake(side, price, fill)
           k == [m EXCEPT !.book = e, !.remaining = @ - fill, !.cost = @ + stake]
<1>1. s \in BookSides
  BY Zenon DEF Opposite, BookSides
<1>2. /\ m \in RunType /\ Good(m.book, n) /\ m.book.nextOrderId = n + 1
      /\ Lot(m.remaining) /\ m.remaining <= amount
      /\ m.cost <= QuoteCost(side, limit, amount - m.remaining)
      /\ Paid(b, m.book, m.cost, amount - m.remaining)
  BY DEF RunOK
<1>3. head \in OrderIds
  BY <1>1, <1>2, LevelFacts
<1>4. Lot(Remaining(o))
  BY <1>2, <1>3, BackingType DEF Good, BookType
<1>5. /\ Lot(fill) /\ fill <= Remaining(o) /\ fill <= m.remaining /\ fill \in Nat
      /\ Lot(m.remaining - fill) /\ m.remaining - fill <= amount
      /\ Lot(amount - m.remaining) /\ amount - (m.remaining - fill) = (amount - m.remaining) + fill
  <2>1. Fits(fill, Remaining(o), m.remaining, amount)
    BY <1>2, <1>4, FillSizes, Zenon
  <2> QED BY ONLY <2>1 DEF Fits
<1>6. Fill(m, taker, side, price, head) = IF open < fill THEN [m EXCEPT !.reverted = TRUE] ELSE k
  BY DEF Fill, FilledBook
<1>7. CASE open < fill
  <2>1. Fill(m, taker, side, price, head) = [m EXCEPT !.reverted = TRUE]
    BY <1>6, <1>7
  <2>2. RunOK([m EXCEPT !.reverted = TRUE], b, n, side, limit, amount)
    BY RunFlags
  <2> QED BY ONLY <2>1, <2>2
<1>8. CASE ~(open < fill)
  <2>1. open \in Nat /\ fill <= open
    <3>1. open \in Nat
      BY <1>1, <1>2, LevelFacts
    <3> HIDE DEF open, fill
    <3> QED BY <1>5, <1>8, <3>1
  <2> HIDE DEF fill
  <2>2. FillMoves(m.book, n, side, price, head, fill, c)
    BY <1>2, <1>5, <2>1, FillBook
  <2> HIDE DEF c
  <2>3. /\ Good(c, n) /\ c.nextOrderId = m.book.nextOrderId
        /\ ATotal(c) = ATotal(m.book) + fill /\ BTotal(c) = BTotal(m.book) + fill
        /\ StakeTotal(c) = StakeTotal(m.book) + QuoteCost(s, price, fill) + QuoteCost(side, price, fill)
        /\ RestingTotal(c) + QuoteCost(s, price, fill) = RestingTotal(m.book)
        /\ RestingTotal(c) \in Nat
        /\ c.levels[s][price].head = head
    BY <2>2 DEF FillMoves
  <2>4. /\ Good(e, n) /\ SameMoney(c, e) /\ e.nextOrderId = c.nextOrderId
    <3>1. CASE Remaining(c.orders[head]) = 0
      BY <1>1, <2>3, <3>1, PopHeadMoney, Zenon
    <3>2. CASE Remaining(c.orders[head]) # 0
      BY <2>3, <3>2 DEF SameMoney
    <3> QED BY <3>1, <3>2
  <2> HIDE DEF e
  <2>5. /\ QuoteCost(s, price, fill) \in Nat /\ QuoteCost(side, price, fill) \in Nat
        /\ QuoteCost(s, price, fill) + QuoteCost(side, price, fill) = fill
        /\ stake = QuoteCost(side, price, fill)
    <3>1. price \in Ticks
      BY PricesAreTicks
    <3>2. QuoteCost(s, price, fill) \in Nat /\ QuoteCost(side, price, fill) \in Nat
      BY <1>1, <1>5, <3>1, QuoteSides
    <3>3. QuoteCost("BUY", price, fill) + QuoteCost("SELL", price, fill) = fill
      BY <1>5, <3>1, QuoteSides
    <3>4. {s, side} = {"BUY", "SELL"} /\ s # side
      BY Zenon DEF Opposite, BookSides
    <3>5. stake = QuoteCost(side, price, fill)
      BY <1>5, <3>1, FillIsQuote
    <3> HIDE DEF s, stake
    <3>6. \/ s = "BUY" /\ side = "SELL"
          \/ s = "SELL" /\ side = "BUY"
      BY <3>4
    <3>7. QuoteCost(s, price, fill) + QuoteCost(side, price, fill) = fill
      BY <3>2, <3>3, <3>6
    <3> QED BY <3>2, <3>5, <3>7
  <2>6. /\ e \in BookType /\ m.cost \in Nat /\ stake \in Nat /\ m.remaining - fill \in Nat
    BY <1>2, <1>5, <2>4, <2>5 DEF Good, RunType, Lot
  <2> HIDE DEF stake
  <2>7. /\ k \in RunType /\ k.book = e /\ k.remaining = m.remaining - fill /\ k.cost = m.cost + stake
    <3>1. m.cost + stake \in Nat
      BY <2>6
    <3> QED BY <1>2, <2>6, <3>1 DEF RunType
  <2> HIDE DEF k
  <2>8. k.cost <= QuoteCost(side, limit, amount - k.remaining)
    <3>1. limit \in Ticks /\ price \in Ticks
      BY PricesAreTicks
    <3>2. stake <= QuoteCost(side, limit, fill)
      BY <1>5, <2>5, <3>1, QuoteGrows
    <3>3. QuoteCost(side, limit, (amount - m.remaining) + fill) =
            QuoteCost(side, limit, amount - m.remaining) + QuoteCost(side, limit, fill)
      BY <1>5, <3>1, QuoteAdds
    <3>4. QuoteCost(side, limit, amount - m.remaining) \in Nat /\ QuoteCost(side, limit, fill) \in Nat
      BY <1>5, <3>1, QuoteSides
    <3>5. amount - k.remaining = (amount - m.remaining) + fill
      BY <1>5, <2>7
    <3>6. \A x, y, z, w \in Nat : x <= y /\ z <= w => x + z <= y + w
      OBVIOUS
    <3>7. m.cost + stake <= QuoteCost(side, limit, amount - m.remaining) + QuoteCost(side, limit, fill)
      BY <1>2, <2>6, <3>2, <3>4, <3>6
    <3> QED BY <2>7, <3>3, <3>5, <3>7
  <2>9. Paid(b, c, m.cost + stake, (amount - m.remaining) + fill)
    <3>1. /\ RestingTotal(m.book) + StakeTotal(m.book) = RestingTotal(b) + StakeTotal(b) + m.cost
          /\ ATotal(m.book) = ATotal(b) + (amount - m.remaining)
          /\ BTotal(m.book) = BTotal(b) + (amount - m.remaining)
          /\ StakeTotal(m.book) = StakeTotal(b) + (amount - m.remaining)
          /\ RestingTotal(m.book) \in Nat
      BY <1>2 DEF Paid
    <3>2. amount - m.remaining \in Nat
      BY <1>5 DEF Lot
    <3>3. ATotal(c) = ATotal(b) + ((amount - m.remaining) + fill)
      BY <1>5, <2>3, <3>1, <3>2
    <3>4. BTotal(c) = BTotal(b) + ((amount - m.remaining) + fill)
      BY <1>5, <2>3, <3>1, <3>2
    <3>5. StakeTotal(c) = StakeTotal(b) + ((amount - m.remaining) + fill)
      BY <1>5, <2>3, <2>5, <3>1, <3>2
    <3>6. RestingTotal(c) + StakeTotal(c) = RestingTotal(b) + StakeTotal(b) + (m.cost + stake)
      BY <1>5, <2>3, <2>5, <2>6, <3>1, <3>2
    <3> QED BY <2>3, <3>3, <3>4, <3>5, <3>6 DEF Paid
  <2>10. Paid(b, e, m.cost + stake, (amount - m.remaining) + fill)
    BY <2>4, <2>9, PaidSame
  <2>11. RunOK(k, b, n, side, limit, amount)
    <3>1. e.nextOrderId = n + 1
      BY <1>2, <2>3, <2>4
    <3>2. amount - k.remaining = (amount - m.remaining) + fill
      BY <1>5, <2>7
    <3>3. Paid(b, k.book, k.cost, amount - k.remaining)
      BY <2>7, <2>10, <3>2
    <3>4. Lot(k.remaining) /\ k.remaining <= amount
      BY <1>5, <2>7
    <3> QED BY <2>4, <2>7, <2>8, <3>1, <3>3, <3>4 DEF RunOK
  <2> QED BY <1>6, <1>8, <2>11
<1> QED BY <1>7, <1>8

\* An iteration of the loop keeps what the run has done so far sound.
LEMMA MatchStepRun ==
    ASSUME NEW b, NEW n \in Nat, NEW side \in BookSides, NEW limit \in Prices, NEW amount, Lot(amount),
           NEW m, RunOK(m, b, n, side, limit, amount), NEW taker \in Traders,
           StakeTotal(b) \in Nat, RestingTotal(b) \in Nat, ATotal(b) \in Nat, BTotal(b) \in Nat,
           Continues(m, side, limit)
    PROVE  RunOK(MatchStep(m, taker, side), b, n, side, limit, amount)
<1> DEFINE s == Opposite(side)
           price == m.book.best[s]
           level == m.book.levels[s][price]
           maker == m.book.orders[level.head]
<1>1. s \in BookSides
  BY DEF Opposite, BookSides
<1>2. Good(m.book, n) /\ m.book \in BookType
  BY DEF RunOK, Good
<1>3. price \in Prices /\ (price = limit \/ Better(side, limit, price))
  <2>1. price # NoBest(s) /\ (price = limit \/ Better(side, limit, price))
    BY DEF Continues, Crosses
  <2>2. IndexOK(m.book.levels[s], m.book.bitmap[s], price, s)
    BY <1>1, <1>2 DEF Good, IndexesOK
  <2>3. price \in m.book.bitmap[s]
    BY <2>1, <2>2 DEF IndexOK
  <2>4. m.book.bitmap[s] \subseteq Prices
    BY <1>1, <1>2 DEF BookType
  <2> QED BY <2>1, <2>3, <2>4
<1> HIDE DEF price
<1>4. MatchStep(m, taker, side) =
        IF level.head = 0 \/ level.totalOpen = 0
        THEN [m EXCEPT !.book = DeactivatePrice(@, s, price)]
        ELSE IF ~maker.active \/ Remaining(maker) = 0
        THEN [m EXCEPT !.book = PopHead(@, s, price)]
        ELSE IF maker.maker = taker
        THEN [m EXCEPT !.selfTrade = TRUE]
        ELSE Fill(m, taker, side, price, level.head)
  BY DEF MatchStep, price
<1>5. CASE level.head = 0 \/ level.totalOpen = 0
  <2> DEFINE c == DeactivatePrice(m.book, s, price)
  <2>1. Good(c, n) /\ SameMoney(m.book, c) /\ c.nextOrderId = m.book.nextOrderId
    BY <1>1, <1>2, <1>3, DeactivateMoney
  <2> HIDE DEF c
  <2>2. RunOK([m EXCEPT !.book = c], b, n, side, limit, amount)
    BY <2>1, RunBook
  <2>3. MatchStep(m, taker, side) = [m EXCEPT !.book = c]
    BY <1>4, <1>5 DEF c
  <2> QED BY ONLY <2>2, <2>3
<1>6. CASE ~(level.head = 0 \/ level.totalOpen = 0) /\ (~maker.active \/ Remaining(maker) = 0)
  <2> DEFINE c == PopHead(m.book, s, price)
  <2>1. Good(c, n) /\ SameMoney(m.book, c) /\ c.nextOrderId = m.book.nextOrderId
    BY <1>1, <1>2, <1>3, <1>6, PopHeadMoney, Zenon
  <2> HIDE DEF c
  <2>2. RunOK([m EXCEPT !.book = c], b, n, side, limit, amount)
    BY <2>1, RunBook
  <2>3. MatchStep(m, taker, side) = [m EXCEPT !.book = c]
    BY <1>4, <1>6 DEF c
  <2> QED BY ONLY <2>2, <2>3
<1>7. CASE ~(level.head = 0 \/ level.totalOpen = 0) /\ ~(~maker.active \/ Remaining(maker) = 0)
           /\ maker.maker = taker
  <2>1. MatchStep(m, taker, side) = [m EXCEPT !.selfTrade = TRUE]
    BY <1>4, <1>7
  <2>2. RunOK([m EXCEPT !.selfTrade = TRUE], b, n, side, limit, amount)
    BY RunFlags, Zenon
  <2> QED BY ONLY <2>1, <2>2
<1>8. CASE ~(level.head = 0 \/ level.totalOpen = 0) /\ ~(~maker.active \/ Remaining(maker) = 0)
           /\ maker.maker # taker
  <2>1. MatchStep(m, taker, side) = Fill(m, taker, side, price, level.head)
    BY <1>4, <1>8
  <2>2. level.head # 0 /\ maker.active /\ maker.maker # taker
    BY <1>8
  <2>3. RunOK(Fill(m, taker, side, price, level.head), b, n, side, limit, amount)
    BY <1>3, <2>2, FillRun
  <2> QED BY ONLY <2>1, <2>3
<1> QED BY <1>5, <1>6, <1>7, <1>8

-----------------------------------------------------------------------------
\* The loop, iteration by iteration.
RunStart(b, amount) ==
    [book |-> [b EXCEPT !.nextOrderId = @ + 1], remaining |-> amount,
     cost |-> 0, selfTrade |-> FALSE, reverted |-> FALSE]
Iterate(m, taker, side, limit) ==
    IF Continues(m, side, limit) THEN MatchStep(m, taker, side) ELSE m
\* g is the run of the loop over the first k iterations.
Runs(g, k, start, taker, side, limit) ==
    g = [n \in 0 .. k |-> IF n = 0 THEN start ELSE Iterate(g[n - 1], taker, side, limit)]

\* The loop has a run of any length.
LEMMA RunExists ==
    ASSUME NEW start, NEW taker, NEW side, NEW limit, NEW k \in Nat
    PROVE  \E g : Runs(g, k, start, taker, side, limit)
<1> DEFINE Next1(m) == Iterate(m, taker, side, limit)
           Has(n) == \E g : g = [i \in 0 .. n |-> IF i = 0 THEN start ELSE Next1(g[i - 1])]
           Without == {n \in Nat : ~Has(n)}
<1> HIDE DEF Next1
<1>1. Has(0)
  <2> DEFINE g == [i \in 0 .. 0 |-> start]
  <2>1. g = [i \in 0 .. 0 |-> IF i = 0 THEN start ELSE Next1(g[i - 1])]
    OBVIOUS
  <2> QED BY <2>1
<1>2. ASSUME NEW n \in Nat, Has(n) PROVE Has(n + 1)
  <2>1. PICK g : g = [i \in 0 .. n |-> IF i = 0 THEN start ELSE Next1(g[i - 1])]
    BY <1>2
  <2> DEFINE h == [i \in 0 .. (n + 1) |-> IF i = n + 1 THEN Next1(g[n]) ELSE g[i]]
  <2>2. ASSUME NEW i \in 0 .. (n + 1) PROVE h[i] = IF i = 0 THEN start ELSE Next1(h[i - 1])
    <3>1. CASE i = n + 1
      <4>1. h[i] = Next1(g[n]) /\ i # 0 /\ i - 1 = n /\ h[n] = g[n]
        BY <3>1
      <4> HIDE DEF h
      <4> QED BY <4>1
    <3>2. CASE i # n + 1
      <4>1. i \in 0 .. n /\ h[i] = g[i]
        BY <3>2
      <4>2. g[i] = IF i = 0 THEN start ELSE Next1(g[i - 1])
        BY <2>1, <4>1
      <4>3. i # 0 => i - 1 \in 0 .. (n + 1) /\ i - 1 # n + 1
        BY <4>1
      <4>4. i # 0 => h[i - 1] = g[i - 1]
        BY <4>3
      <4> HIDE DEF h
      <4> QED BY <4>1, <4>2, <4>4
    <3> QED BY <3>1, <3>2
  <2>3. h = [i \in 0 .. (n + 1) |-> h[i]]
    OBVIOUS
  <2> HIDE DEF h
  <2>4. h = [i \in 0 .. (n + 1) |-> IF i = 0 THEN start ELSE Next1(h[i - 1])]
    BY <2>2, <2>3
  <2> QED BY <2>4
<1>3. Without = {}
  <2> SUFFICES ASSUME Without # {} PROVE FALSE
    OBVIOUS
  <2>1. PICK n \in Without : \A m \in Without : n <= m
    BY LeastNatural
  <2>2. n \in Nat /\ ~Has(n)
    OBVIOUS
  <2>3. n # 0
    BY <1>1, <2>2
  <2>4. n - 1 \in Nat /\ n - 1 < n /\ (n - 1) + 1 = n
    BY <2>2, <2>3
  <2>5. ~(n - 1 \in Without)
    BY <2>1, <2>2, <2>4
  <2>6. Has(n - 1)
    BY <2>4, <2>5
  <2> HIDE DEF Has
  <2> QED BY <1>2, <2>2, <2>4, <2>6
<1> QED BY <1>3 DEF Runs, Next1

\* A run that has not started has paid nothing.
LEMMA RunOKStart ==
    ASSUME NEW b, NEW n \in Nat, Good(b, n), b.nextOrderId = n, NEW side \in BookSides,
           NEW limit \in Prices, NEW amount, Lot(amount),
           StakeTotal(b) \in Nat, RestingTotal(b) \in Nat, ATotal(b) \in Nat, BTotal(b) \in Nat
    PROVE  RunOK(RunStart(b, amount), b, n, side, limit, amount)
<1> DEFINE start == RunStart(b, amount)
           c == [b EXCEPT !.nextOrderId = @ + 1]
<1>1. /\ b \in BookType /\ amount \in Nat
  BY DEF Good, Lot
<1>2. /\ c \in BookType /\ c.orders = b.orders /\ c.levels = b.levels /\ c.bitmap = b.bitmap
      /\ c.best = b.best /\ c.positions = b.positions /\ c.nextOrderId = n + 1
  BY <1>1, SMTT(30) DEF BookType
<1>3. start = [book |-> c, remaining |-> amount, cost |-> 0, selfTrade |-> FALSE, reverted |-> FALSE]
  BY DEF RunStart
<1> HIDE DEF c
<1>4. Good(c, n)
  BY <1>2 DEF Good, IndexesOK
<1>5. start \in RunType /\ start.book = c /\ start.remaining = amount /\ start.cost = 0
  BY <1>1, <1>2, <1>3 DEF RunType
<1>6. amount - amount = 0 /\ amount <= amount
  BY <1>1
<1>7. QuoteCost(side, limit, 0) = 0
  BY PricesAreTicks, QuoteSides
<1>8. /\ RestingTotal(c) = RestingTotal(b) /\ StakeTotal(c) = StakeTotal(b)
      /\ ATotal(c) = ATotal(b) /\ BTotal(c) = BTotal(b)
  BY <1>2, RestingSame, SamePositionsSameTotals
<1>9. Paid(b, c, 0, 0)
  BY <1>8 DEF Paid
<1> HIDE DEF start
<1>10. RunOK(start, b, n, side, limit, amount)
  BY <1>2, <1>4, <1>5, <1>6, <1>7, <1>9 DEF RunOK
<1> QED BY <1>10 DEF start

\* _matchBuyOrder and _matchSellOrder: whatever the order meets within its
\* iterations, it paid for what it filled, at its limit or better.
LEMMA MatchingRun ==
    ASSUME NEW b, NEW n \in Nat, Good(b, n), b.nextOrderId = n, NEW side \in BookSides,
           NEW limit \in Prices, NEW amount, Lot(amount), NEW taker \in Traders,
           StakeTotal(b) \in Nat, RestingTotal(b) \in Nat, ATotal(b) \in Nat, BTotal(b) \in Nat
    PROVE  RunOK(Matching(b, taker, side, limit, amount), b, n, side, limit, amount)
<1> DEFINE K == MaxMatchIterations
           start == RunStart(b, amount)
           after == CHOOSE g : Runs(g, K, start, taker, side, limit)
           OK(m) == RunOK(m, b, n, side, limit, amount)
<1>1. K \in Nat
  BY BoundAssumption
<1>2. Matching(b, taker, side, limit, amount) = after[K]
  BY DEF Matching, Runs, RunStart, Iterate
<1>3. Runs(after, K, start, taker, side, limit)
  BY <1>1, RunExists
<1>4. OK(start)
  BY RunOKStart
<1>5. ASSUME NEW m, OK(m) PROVE OK(Iterate(m, taker, side, limit))
  <2>1. CASE Continues(m, side, limit)
    <3>1. OK(MatchStep(m, taker, side))
      BY <1>5, <2>1, MatchStepRun
    <3> QED BY <2>1, <3>1 DEF Iterate
  <2>2. CASE ~Continues(m, side, limit)
    BY <1>5, <2>2 DEF Iterate
  <2> QED BY <2>1, <2>2
<1> HIDE DEF K, start, after, OK
<1>6. /\ after[0] = start
      /\ \A i \in 1 .. K : after[i] = Iterate(after[i - 1], taker, side, limit)
  <2>1. \A i \in 0 .. K : after[i] = IF i = 0 THEN start ELSE Iterate(after[i - 1], taker, side, limit)
    BY <1>3 DEF Runs
  <2> QED BY <1>1, <2>1
<1> DEFINE Bad == {i \in Nat : i <= K /\ ~OK(after[i])}
<1>7. Bad = {}
  <2> SUFFICES ASSUME Bad # {} PROVE FALSE
    OBVIOUS
  <2>1. PICK i \in Bad : \A j \in Bad : i <= j
    BY LeastNatural
  <2>2. i \in Nat /\ i <= K /\ ~OK(after[i])
    OBVIOUS
  <2>3. i # 0
    BY <1>4, <1>6, <2>2
  <2>4. i - 1 \in Nat /\ i - 1 < i /\ i - 1 <= K /\ i \in 1 .. K
    BY <1>1, <2>2, <2>3
  <2>5. OK(after[i - 1])
    BY <2>1, <2>2, <2>4
  <2>6. OK(after[i])
    BY <1>5, <1>6, <2>4, <2>5
  <2> QED BY <2>2, <2>6
<1>8. OK(after[K])
  BY <1>1, <1>7
<1> QED BY <1>2, <1>8 DEF OK

-----------------------------------------------------------------------------
(* The market's copy of its duel. *)

MarketType == [exists : BOOLEAN, status : MarketStatuses, winner : {"NONE", "A", "B"}]

\* The feed names a winner exactly when it is RESOLVED.
FeedNames(d) == feed[d].winner # "NONE" <=> feed[d].status = "RESOLVED"

\* MarketNeverAhead for one duel.
NeverAhead(d) == markets[d].exists =>
    /\ feed[d].status \notin {"NULL", "SCHEDULED"} /\ markets[d].status # "NULL"
    /\ markets[d].status = "LOCKED" => feed[d].status \in {"LOCKED", "RESOLVED", "CANCELLED"}
    /\ markets[d].status \in {"RESOLVED", "CANCELLED"} => markets[d].status = feed[d].status
    /\ markets[d].winner # "NONE" <=> markets[d].status = "RESOLVED"
    /\ markets[d].status = "RESOLVED" => markets[d].winner = feed[d].winner

CopyInv ==
    /\ feed \in [Duels -> FeedEntry]
    /\ markets \in [Duels -> MarketType]
    /\ \A d \in Duels : FeedNames(d) /\ NeverAhead(d)

-----------------------------------------------------------------------------
\* Every step of the contract and its oracle does one of four things to the
\* copy: the oracle moves, a market is created, a market is synced, nothing.
LEMMA StepOfTheCopy ==
    ASSUME [Next]_vars
    PROVE  \/ FeedNext /\ UNCHANGED markets
           \/ \E d \in Duels : UNCHANGED feed /\ CreateMarketForDuel(d)
           \/ \E d \in Duels : UNCHANGED feed /\ Sync(d)
           \/ UNCHANGED <<feed, markets>>
<1>1. CASE UNCHANGED vars
  BY <1>1 DEF vars, feedVars, clobVars
<1>2. CASE OracleStep
  BY <1>2 DEF OracleStep, clobVars
<1>3. ASSUME NEW d \in Duels, MarketStep(d)
      PROVE  UNCHANGED feed /\ (CreateMarketForDuel(d) \/ Sync(d))
  <2>1. CASE CreateMarketForDuel(d)
    BY <2>1 DEF CreateMarketForDuel, feedVars
  <2>2. CASE SyncMarketFromOracle(d)
    BY <2>2 DEF SyncMarketFromOracle, feedVars
  <2>3. ASSUME NEW t \in Traders, Place(d, t) \/ Take(d, t) \/ Claim(d, t)
        PROVE  UNCHANGED feed /\ Sync(d)
    BY <2>3 DEF Place, PlaceOrder, Take, CancelOrder, ReclaimRestingOrder, Withdraw, Claim, feedVars
  <2> QED BY <1>3, <2>1, <2>2, <2>3 DEF MarketStep
<1>4. CASE VaultStep
  BY <1>4 DEF VaultStep, Receive, SweepETH, feedVars
<1>5. ASSUME NEW p \in ClobPausers, SwitchStep(p)
      PROVE  UNCHANGED <<feed, markets>>
  BY <1>5 DEF SwitchStep, SetMarketCreationPaused, SetOrderPlacementPaused, SetPauser, feedVars
<1> QED BY <1>1, <1>2, <1>3, <1>4, <1>5 DEF Next

\* The oracle only moves a duel it has not settled, and never back to a status
\* in which it could not have a market.
LEMMA FeedStepKeepsCopy ==
    ASSUME CopyInv, FeedNext, UNCHANGED markets
    PROVE  CopyInv'
<1> USE DEF CopyInv
<1>1. ASSUME NEW d \in Duels, NEW e \in FeedEntry, feed' = [feed EXCEPT ![d] = e],
             e.winner # "NONE" <=> e.status = "RESOLVED",
             feed[d].status \notin {"RESOLVED", "CANCELLED"},
             feed[d].status \in {"NULL", "SCHEDULED"} \/ e.status \in {"LOCKED", "RESOLVED", "CANCELLED"}
      PROVE  CopyInv'
  <2>1. feed' \in [Duels -> FeedEntry]
    BY <1>1
  <2>2. ASSUME NEW c \in Duels PROVE FeedNames(c)' /\ NeverAhead(c)'
    <3>1. CASE c # d
      <4>1. feed'[c] = feed[c]
        BY <1>1, <3>1
      <4> QED BY <4>1 DEF FeedNames, NeverAhead
    <3>2. CASE c = d
      <4>1. feed'[c] = e
        BY <1>1, <3>2
      <4>2. FeedNames(c)'
        BY <4>1, <1>1 DEF FeedNames
      <4>3. NeverAhead(c)'
        BY <4>1, <1>1, <3>2 DEF NeverAhead
      <4> QED BY <4>2, <4>3
    <3> QED BY <3>1, <3>2
  <2> QED BY <2>1, <2>2
<1>2. ASSUME NEW d \in Duels, NEW s \in {"SCHEDULED", "BETTING_OPEN", "LOCKED"},
             NEW c \in CloseTimes, Announce(d, s, c)
      PROVE  CopyInv'
  <2>1. Entry(s, c, "NONE") \in FeedEntry
    BY DEF Entry, FeedEntry, FeedStatuses
  <2>2. Entry(s, c, "NONE").winner = "NONE" /\ Entry(s, c, "NONE").status = s
    BY DEF Entry
  <2> QED BY <1>1, <1>2, <2>1, <2>2 DEF Announce
<1>3. ASSUME NEW d \in Duels, Lock(d) PROVE CopyInv'
  <2>1. feed[d].betClose \in CloseTimes \cup {0}
    BY DEF FeedEntry
  <2>2. Entry("LOCKED", feed[d].betClose, "NONE") \in FeedEntry
    BY <2>1 DEF Entry, FeedEntry, FeedStatuses
  <2>3. /\ Entry("LOCKED", feed[d].betClose, "NONE").winner = "NONE"
        /\ Entry("LOCKED", feed[d].betClose, "NONE").status = "LOCKED"
    BY DEF Entry
  <2> QED BY <1>1, <1>3, <2>2, <2>3 DEF Lock
<1>4. ASSUME NEW d \in Duels, NEW w \in {"A", "B"}, Resolve(d, w) PROVE CopyInv'
  <2>1. feed[d].betClose \in CloseTimes \cup {0}
    BY DEF FeedEntry
  <2>2. Entry("RESOLVED", feed[d].betClose, w) \in FeedEntry
    BY <2>1 DEF Entry, FeedEntry, FeedStatuses
  <2>3. /\ Entry("RESOLVED", feed[d].betClose, w).winner = w
        /\ Entry("RESOLVED", feed[d].betClose, w).status = "RESOLVED"
    BY DEF Entry
  <2> QED BY <1>1, <1>4, <2>2, <2>3 DEF Resolve
<1>5. ASSUME NEW d \in Duels, Cancel(d) PROVE CopyInv'
  <2>1. feed[d].betClose \in CloseTimes \cup {0}
    BY DEF FeedEntry
  <2>2. Entry("CANCELLED", feed[d].betClose, "NONE") \in FeedEntry
    BY <2>1 DEF Entry, FeedEntry, FeedStatuses
  <2>3. /\ Entry("CANCELLED", feed[d].betClose, "NONE").winner = "NONE"
        /\ Entry("CANCELLED", feed[d].betClose, "NONE").status = "CANCELLED"
    BY DEF Entry
  <2> QED BY <1>1, <1>5, <2>2, <2>3 DEF Cancel
<1>6. CASE Advance
  BY <1>6 DEF Advance, FeedNames, NeverAhead
<1> QED BY <1>2, <1>3, <1>4, <1>5, <1>6 DEF FeedNext

\* A copy taken from the feed agrees with it.
LEMMA WriteKeepsCopy ==
    ASSUME CopyInv, UNCHANGED feed, NEW d \in Duels, NEW m \in MarketType,
           markets' = [markets EXCEPT ![d] = m],
           m.status = MapDuelStatus(feed[d].status),
           m.winner = (IF feed[d].status = "RESOLVED" THEN feed[d].winner ELSE "NONE"),
           feed[d].status \notin {"NULL", "SCHEDULED"}
    PROVE  CopyInv'
<1> USE DEF CopyInv
<1>1. markets' \in [Duels -> MarketType]
  OBVIOUS
<1>2. ASSUME NEW c \in Duels PROVE FeedNames(c)' /\ NeverAhead(c)'
  <2>1. CASE c # d
    BY <2>1 DEF FeedNames, NeverAhead
  <2>2. CASE c = d
    <3>1. markets'[c] = m
      BY <2>2
    <3>2. feed[d].status \in {"BETTING_OPEN", "LOCKED", "RESOLVED", "CANCELLED"}
      BY DEF FeedEntry, FeedStatuses
    <3>3. FeedNames(c)'
      BY DEF FeedNames
    <3>4. NeverAhead(c)'
      BY <2>2, <3>1, <3>2 DEF NeverAhead, FeedNames, MapDuelStatus
    <3> QED BY <3>3, <3>4
  <2> QED BY <2>1, <2>2
<1> QED BY <1>1, <1>2

\* _mapDuelStatus returns a market status.
LEMMA MapDuelStatusType ==
    ASSUME NEW s \in FeedStatuses
    PROVE  MapDuelStatus(s) \in MarketStatuses
BY DEF FeedStatuses, MapDuelStatus, MarketStatuses

\* No step of the oracle or the contract breaks the copies' invariant.
LEMMA CopyInvInductive ==
    ASSUME CopyInv, [Next]_vars
    PROVE  CopyInv'
<1>1. CASE FeedNext /\ UNCHANGED markets
  BY <1>1, FeedStepKeepsCopy
<1>2. ASSUME NEW d \in Duels, UNCHANGED feed, CreateMarketForDuel(d)
      PROVE  CopyInv'
  <2> DEFINE m == [exists |-> TRUE, winner |-> "NONE", status |-> MapDuelStatus(feed[d].status)]
  <2>1. feed[d].status \in {"BETTING_OPEN", "LOCKED"} /\ markets' = [markets EXCEPT ![d] = m]
    BY <1>2 DEF CreateMarketForDuel
  <2>2. MapDuelStatus(feed[d].status) \in MarketStatuses
    BY <2>1 DEF MapDuelStatus, MarketStatuses
  <2>3. m \in MarketType
    BY <2>2 DEF MarketType
  <2>4. m.status = MapDuelStatus(feed[d].status) /\ m.winner = "NONE"
    OBVIOUS
  <2> HIDE DEF m
  <2> QED BY <1>2, <2>1, <2>3, <2>4, WriteKeepsCopy
<1>3. ASSUME NEW d \in Duels, UNCHANGED feed, Sync(d)
      PROVE  CopyInv'
  <2>1. markets[d].exists /\ markets' = [markets EXCEPT ![d] = Synced(d)]
    BY <1>3 DEF Sync
  <2>2. FeedNames(d) /\ NeverAhead(d) /\ feed[d] \in FeedEntry /\ markets[d] \in MarketType
    BY DEF CopyInv
  <2>3. feed[d].status \notin {"NULL", "SCHEDULED"}
    BY <2>1, <2>2 DEF NeverAhead
  <2>4. MapDuelStatus(feed[d].status) \in MarketStatuses
    BY <2>2, MapDuelStatusType DEF FeedEntry
  <2>5. Synced(d).winner = (IF feed[d].status = "RESOLVED" THEN feed[d].winner ELSE "NONE")
    <3>1. CASE feed[d].status = "RESOLVED"
      BY <3>1 DEF Synced
    <3>2. CASE feed[d].status = "CANCELLED"
      BY <3>2 DEF Synced
    <3>3. CASE feed[d].status \notin {"RESOLVED", "CANCELLED"}
      <4>1. markets[d].winner = "NONE"
        BY <2>1, <2>2, <3>3 DEF NeverAhead
      <4> QED BY <3>3, <4>1 DEF Synced
    <3> QED BY <3>1, <3>2, <3>3
  <2>6. Synced(d).winner \in {"NONE", "A", "B"}
    BY <2>2, <2>5 DEF FeedEntry
  <2>7. Synced(d).status = MapDuelStatus(feed[d].status)
    BY DEF Synced
  <2>8. Synced(d) \in MarketType
    BY <2>4, <2>6 DEF Synced, MarketType
  <2> QED BY <1>3, <2>1, <2>3, <2>5, <2>7, <2>8, WriteKeepsCopy
<1>4. CASE UNCHANGED <<feed, markets>>
  BY <1>4 DEF CopyInv, FeedNames, NeverAhead
<1> QED BY <1>1, <1>2, <1>3, <1>4, StepOfTheCopy

\* No market exists before the first call.
LEMMA CopyInvInit ==
    ASSUME Init
    PROVE  CopyInv
<1>1. Entry("NULL", 0, "NONE") \in FeedEntry
  BY DEF Entry, FeedEntry, FeedStatuses
<1>2. NoMarket \in MarketType
  BY DEF NoMarket, MarketType, MarketStatuses
<1>3. \A d \in Duels : feed[d] = Entry("NULL", 0, "NONE") /\ markets[d] = NoMarket
  BY DEF Init, FeedInit, ClobInit
<1>4. feed \in [Duels -> FeedEntry] /\ markets \in [Duels -> MarketType]
  BY <1>1, <1>2 DEF Init, FeedInit, ClobInit
<1>5. \A d \in Duels : FeedNames(d) /\ NeverAhead(d)
  <2> SUFFICES ASSUME NEW d \in Duels PROVE FeedNames(d) /\ NeverAhead(d)
    OBVIOUS
  <2>1. feed[d].winner = "NONE" /\ feed[d].status = "NULL"
    BY <1>3 DEF Entry
  <2>2. ~markets[d].exists
    BY <1>3 DEF NoMarket
  <2> QED BY <2>1, <2>2 DEF FeedNames, NeverAhead
<1> QED BY <1>4, <1>5 DEF CopyInv

-----------------------------------------------------------------------------
(* What a call does to the money of a book. *)

\* The totals of a book are whole numbers.
LEMMA TotalsAreWhole ==
    ASSUME NEW b, NEW n \in Nat, Good(b, n)
    PROVE  /\ RestingTotal(b) \in Nat /\ StakeTotal(b) \in Nat /\ ATotal(b) \in Nat /\ BTotal(b) \in Nat
           /\ \A i \in OrderIds : Backing(b.orders[i]) \in Nat /\ Backing(b.orders[i]) <= RestingTotal(b)
<1>1. b \in BookType /\ b.positions \in [Traders -> PositionType] /\ b.orders \in [OrderIds -> OrderType]
      /\ OrdersOK(b.orders, n)
  BY DEF Good, BookType
<1>2. ASSUME NEW f \in [Traders -> Nat] PROVE SumFunction(f) \in Nat
  <2>1. f \in [Traders -> Int] /\ \A t \in Traders : f[t] \in Nat
    OBVIOUS
  <2> QED BY <2>1, FiniteSets, TotalType
<1>3. \A z \in PositionType : z.aShares \in Nat /\ z.bShares \in Nat /\ z.aStake + z.bStake \in Nat
  BY DEF PositionType
<1>4. /\ [t \in Traders |-> b.positions[t].aShares] \in [Traders -> Nat]
      /\ [t \in Traders |-> b.positions[t].bShares] \in [Traders -> Nat]
      /\ [t \in Traders |-> Stakes(b, t)] \in [Traders -> Nat]
  BY <1>1, <1>3 DEF Stakes
<1>5. StakeTotal(b) \in Nat /\ ATotal(b) \in Nat /\ BTotal(b) \in Nat
  BY <1>2, <1>4 DEF StakeTotal, ATotal, BTotal
<1> DEFINE f == [i \in OrderIds |-> Backing(b.orders[i])]
<1>6. f \in [OrderIds -> Nat] /\ f \in [OrderIds -> Int] /\ RestingTotal(b) = SumFunction(f)
      /\ \A i \in OrderIds : f[i] = Backing(b.orders[i])
  <2>1. \A i \in OrderIds : Backing(b.orders[i]) \in Nat
    BY <1>1, BackingType
  <2> QED BY <2>1 DEF RestingTotal
<1> HIDE DEF f
<1>7. SumFunction(f) \in Nat /\ \A i \in OrderIds : f[i] <= SumFunction(f)
  <2>1. \A i \in OrderIds : f[i] \in Nat
    BY <1>6
  <2> QED BY <1>6, <2>1, FiniteSets, TotalType, TotalBounds
<1>8. \A i \in OrderIds : Backing(b.orders[i]) \in Nat /\ Backing(b.orders[i]) <= RestingTotal(b)
  <2> SUFFICES ASSUME NEW i \in OrderIds
               PROVE  Backing(b.orders[i]) \in Nat /\ Backing(b.orders[i]) <= RestingTotal(b)
    OBVIOUS
  <2>1. f[i] \in Nat /\ f[i] <= SumFunction(f) /\ f[i] = Backing(b.orders[i])
    BY <1>6, <1>7
  <2> QED BY <1>6, <2>1
<1> QED BY <1>5, <1>6, <1>7, <1>8

\* Recording an order adds its collateral and nothing else.
LEMMA RecordedMoney ==
    ASSUME NEW b, NEW id \in OrderIds, Good(b, id), NEW order, NEW c, Recorded(b, id, order, c)
    PROVE  /\ RestingTotal(c) = RestingTotal(b) + Backing(order) /\ Backing(order) \in Nat
           /\ StakeTotal(c) = StakeTotal(b) /\ ATotal(c) = ATotal(b) /\ BTotal(c) = BTotal(b)
<1>1. id \in Nat /\ id + 1 \in Nat
  BY DEF OrderIds
<1>2. /\ Good(c, id + 1) /\ c.positions = b.positions
      /\ \A i \in OrderIds : i # id => SameTrade(c.orders[i], b.orders[i])
      /\ SameTrade(c.orders[id], order)
  BY DEF Recorded
<1>3. \A i \in OrderIds : i # id => Backing(c.orders[i]) = Backing(b.orders[i])
  BY <1>2, SameTradeSameBacking
<1>4. Backing(c.orders[id]) = Backing(order)
  BY <1>2, SameTradeSameBacking
<1>5. Backing(b.orders[id]) = 0
  <2>1. OrderOK(b.orders, id, id)
    BY <1>1, OrderFacts
  <2>2. b.orders[id] = NoOrder
    BY <1>1, <2>1 DEF OrderOK
  <2> QED BY <2>2 DEF Backing, NoOrder
<1>6. /\ RestingTotal(c) = RestingTotal(b) - Backing(b.orders[id]) + Backing(c.orders[id])
      /\ RestingTotal(b) \in Nat /\ Backing(c.orders[id]) \in Nat
  BY <1>1, <1>2, <1>3, RestingChange
<1>7. RestingTotal(c) = RestingTotal(b) + Backing(order)
  BY <1>4, <1>5, <1>6
<1> QED BY <1>2, <1>4, <1>6, <1>7, SamePositionsSameTotals

\* c is b after order id was placed for `paid`: the shares it bought are on both
\* sides and its payment is in the book.
PlacedBook(b, id, side, price, amount, c, paid) ==
    /\ Good(c, id + 1) /\ c.nextOrderId = id + 1
    /\ RestingTotal(c) + StakeTotal(c) = RestingTotal(b) + StakeTotal(b) + paid
    /\ \E filled \in Nat : /\ ATotal(c) = ATotal(b) + filled /\ BTotal(c) = BTotal(b) + filled
                           /\ StakeTotal(c) = StakeTotal(b) + filled
    /\ paid \in Nat /\ paid <= QuoteCost(side, price, amount)
    /\ c.orders[id].side = side /\ c.orders[id].price = price /\ c.orders[id].amount = amount

\* placeOrder
LEMMA PlaceBook ==
    ASSUME NEW b, NEW id \in OrderIds, Good(b, id), b.nextOrderId = id, NEW side \in BookSides,
           NEW price \in Prices, NEW amount \in Amounts, NEW t \in Traders, NEW rests \in BOOLEAN,
           NEW m, m = Matching(b, t, side, price, amount),
           NEW order, order = Order(side, price, t, amount, amount - m.remaining),
           NEW c, c = IF rests THEN RestOrder(m.book, id, order)
                      ELSE [m.book EXCEPT !.orders[id] = order],
           NEW paid, paid = (IF rests THEN QuoteCost(side, price, m.remaining) ELSE 0) + m.cost
    PROVE  PlacedBook(b, id, side, price, amount, c, paid)
<1> DEFINE filled == amount - m.remaining
<1>1. id \in Nat /\ Lot(amount) /\ price \in Ticks
  BY AmountAssumption, PricesAreTicks DEF OrderIds, Lot
<1>2. RunOK(m, b, id, side, price, amount)
  <2>1. /\ RestingTotal(b) \in Nat /\ StakeTotal(b) \in Nat /\ ATotal(b) \in Nat /\ BTotal(b) \in Nat
    BY <1>1, TotalsAreWhole
  <2> QED BY <1>1, <2>1, MatchingRun
<1>3. /\ m \in RunType /\ Good(m.book, id) /\ m.book.nextOrderId = id + 1
      /\ Lot(m.remaining) /\ m.remaining <= amount
      /\ m.cost <= QuoteCost(side, price, filled)
      /\ Paid(b, m.book, m.cost, filled)
  BY <1>2 DEF RunOK
<1>4. /\ Lot(filled) /\ filled \in Nat /\ filled <= amount /\ amount - filled = m.remaining
      /\ filled + m.remaining = amount
  <2>1. Lot(filled)
    BY <1>1, <1>3, LotArith
  <2>2. amount \in Nat /\ m.remaining \in Nat
    BY <1>1, <1>3 DEF Lot
  <2> QED BY <1>3, <2>1, <2>2 DEF Lot
<1>5. order = [side |-> side, price |-> price, maker |-> t, amount |-> amount, filled |-> filled,
               prev |-> 0, next |-> 0, active |-> FALSE]
  BY DEF Order, NoOrder
<1> HIDE DEF filled
<1>6. /\ order \in OrderType /\ order.side = side /\ order.price = price /\ order.maker = t
      /\ order.amount = amount /\ order.filled = filled /\ order.prev = 0 /\ order.next = 0 /\ ~order.active
  <2>1. /\ side \in BookSides /\ price \in Prices \cup {0} /\ t \in Traders \cup {NoTrader}
        /\ amount \in Nat /\ filled \in Nat
    BY <1>1, <1>4 DEF Lot
  <2>2. 0 \in {0} \cup OrderIds /\ FALSE \in BOOLEAN
    OBVIOUS
  <2>3. order \in OrderType
    BY ONLY <1>5, <2>1, <2>2 DEF OrderType
  <2> QED BY ONLY <1>5, <2>3
<1> DEFINE x == IF rests THEN [order EXCEPT !.active = TRUE, !.prev = 0] ELSE order
           resting == IF rests THEN QuoteCost(side, price, m.remaining) ELSE 0
<1>7. Recorded(m.book, id, x, c)
  <2>1. CASE rests
    <3>1. Recorded(m.book, id, [order EXCEPT !.active = TRUE, !.prev = 0], RestOrder(m.book, id, order))
      BY <1>1, <1>3, <1>4, <1>6, RestGood
    <3> QED BY <2>1, <3>1
  <2>2. CASE ~rests
    <3>1. Recorded(m.book, id, order, [m.book EXCEPT !.orders[id] = order])
      BY <1>1, <1>3, <1>4, <1>6, RecordGood
    <3> QED BY <2>2, <3>1
  <2> QED BY <2>1, <2>2
<1>8. Backing(x) = resting
  <2>1. CASE rests
    <3>1. x.active /\ x.side = side /\ x.price = price /\ x.amount = amount /\ x.filled = filled
      BY <1>5, <2>1
    <3>2. Remaining(x) = m.remaining
      BY <1>4, <3>1 DEF Remaining
    <3> HIDE DEF x
    <3> QED BY <2>1, <3>1, <3>2 DEF Backing, Collateral
  <2>2. CASE ~rests
    BY <1>6, <2>2 DEF Backing
  <2> QED BY <2>1, <2>2
<1>9. SameTrade(c.orders[id], x) /\ x.side = side /\ x.price = price /\ x.amount = amount
  <2>1. x.side = side /\ x.price = price /\ x.amount = amount
    BY <1>5
  <2> HIDE DEF x
  <2> QED BY <1>7, <2>1 DEF Recorded
<1> HIDE DEF x
<1>10. /\ RestingTotal(c) = RestingTotal(m.book) + resting /\ resting \in Nat
       /\ StakeTotal(c) = StakeTotal(m.book) /\ ATotal(c) = ATotal(m.book) /\ BTotal(c) = BTotal(m.book)
  BY <1>3, <1>7, <1>8, RecordedMoney
<1>11. /\ RestingTotal(m.book) + StakeTotal(m.book) = RestingTotal(b) + StakeTotal(b) + m.cost
       /\ ATotal(m.book) = ATotal(b) + filled /\ BTotal(m.book) = BTotal(b) + filled
       /\ StakeTotal(m.book) = StakeTotal(b) + filled
       /\ RestingTotal(m.book) \in Nat
  BY <1>3 DEF Paid
<1>12. m.cost \in Nat /\ paid = resting + m.cost /\ paid \in Nat
  <2>1. m.cost \in Nat
    BY <1>3 DEF RunType
  <2>2. paid = resting + m.cost
    OBVIOUS
  <2> HIDE DEF resting
  <2> QED BY <1>10, <2>1, <2>2
<1>13. paid <= QuoteCost(side, price, amount)
  <2>1. QuoteCost(side, price, amount) = QuoteCost(side, price, filled) + QuoteCost(side, price, m.remaining)
    BY <1>1, <1>3, <1>4, QuoteAdds
  <2>2. QuoteCost(side, price, filled) \in Nat /\ QuoteCost(side, price, m.remaining) \in Nat
    BY <1>1, <1>3, <1>4, QuoteSides
  <2>3. resting <= QuoteCost(side, price, m.remaining)
    BY <2>2
  <2> HIDE DEF resting
  <2> QED BY <1>3, <1>10, <1>12, <2>1, <2>2, <2>3
<1> HIDE DEF resting
<1>14. RestingTotal(c) + StakeTotal(c) = RestingTotal(b) + StakeTotal(b) + paid
  <2>1. /\ RestingTotal(b) \in Nat /\ StakeTotal(b) \in Nat
    BY <1>1, TotalsAreWhole
  <2> QED BY <1>4, <1>10, <1>11, <1>12, <2>1
<1>15. Good(c, id + 1) /\ c.nextOrderId = id + 1
  BY <1>3, <1>7 DEF Recorded
<1>16. c.orders[id].side = side /\ c.orders[id].price = price /\ c.orders[id].amount = amount
  BY <1>9 DEF SameTrade
<1>17. /\ ATotal(c) = ATotal(b) + filled /\ BTotal(c) = BTotal(b) + filled
       /\ StakeTotal(c) = StakeTotal(b) + filled
  BY <1>10, <1>11
<1> QED BY <1>4, <1>12, <1>13, <1>14, <1>15, <1>16, <1>17 DEF PlacedBook

\* cancelOrder and reclaimRestingOrder pay out what the order was backed by.
LEMMA WithdrawBook ==
    ASSUME NEW b, NEW n \in Nat, Good(b, n), NEW id \in OrderIds, b.orders[id].active,
           Remaining(b.orders[id]) > 0, ~UnlinkReverts(b, id),
           NEW c, c = UnlinkOrder(b, id)
    PROVE  /\ Good(c, n) /\ c.nextOrderId = b.nextOrderId
           /\ RestingTotal(c) + Collateral(b.orders[id]) = RestingTotal(b)
           /\ Collateral(b.orders[id]) \in Nat
           /\ StakeTotal(c) = StakeTotal(b) /\ ATotal(c) = ATotal(b) /\ BTotal(c) = BTotal(b)
<1>1. Unlinked(b, n, id, c)
  BY UnlinkGood
<1>2. /\ Good(c, n) /\ c.positions = b.positions /\ c.nextOrderId = b.nextOrderId
      /\ \A i \in OrderIds : i # id => SameTrade(c.orders[i], b.orders[i])
      /\ ~c.orders[id].active
  BY <1>1 DEF Unlinked
<1>3. \A i \in OrderIds : i # id => Backing(c.orders[i]) = Backing(b.orders[i])
  BY <1>2, SameTradeSameBacking
<1>4. Backing(c.orders[id]) = 0 /\ Backing(b.orders[id]) = Collateral(b.orders[id])
  BY <1>2 DEF Backing
<1>5. /\ RestingTotal(c) = RestingTotal(b) - Backing(b.orders[id]) + Backing(c.orders[id])
      /\ RestingTotal(b) \in Nat /\ RestingTotal(c) \in Nat /\ Backing(b.orders[id]) \in Nat
  BY <1>2, <1>3, RestingChange
<1>6. RestingTotal(c) + Collateral(b.orders[id]) = RestingTotal(b)
  BY <1>4, <1>5
<1> QED BY <1>2, <1>4, <1>5, <1>6, SamePositionsSameTotals

-----------------------------------------------------------------------------
(* The vault: what every book holds, and the one balance behind them all. *)

\* What a book owes its positions when the duel stands at entry e.
Owed(b, e) ==
    IF e.status # "RESOLVED" THEN StakeTotal(b)
    ELSE IF e.winner = "A" THEN ATotal(b) ELSE BTotal(b)
Worth(b, e) == RestingTotal(b) + Owed(b, e)
Vault == SumFunction([d \in Duels |-> Worth(books[d], feed[d])])

\* Until the duel is settled every share is matched by one of the other side
\* and the two were paid for in full.
Even(b, e) ==
    e.status \notin {"RESOLVED", "CANCELLED"} => ATotal(b) = StakeTotal(b) /\ BTotal(b) = StakeTotal(b)

SoundBook(b, e) ==
    /\ Good(b, b.nextOrderId) /\ b.nextOrderId \in 1 .. (MaxOrders + 1)
    /\ Even(b, e)

BooksInv == books \in [Duels -> BookType] /\ \A d \in Duels : SoundBook(books[d], feed[d])
MoneyInv ==
    /\ balance \in Nat /\ donated \in Nat /\ swept \in Nat
    /\ balance + swept = donated + Vault
VaultInv == BooksInv /\ MoneyInv

\* A sound book's worth is a whole number.
LEMMA WorthIsWhole ==
    ASSUME NEW b, NEW e, SoundBook(b, e)
    PROVE  /\ Worth(b, e) \in Nat /\ Owed(b, e) \in Nat /\ RestingTotal(b) \in Nat
           /\ b.nextOrderId \in Nat
<1>1. b.nextOrderId \in Nat /\ Good(b, b.nextOrderId)
  BY BoundAssumption DEF SoundBook
<1>2. RestingTotal(b) \in Nat /\ StakeTotal(b) \in Nat /\ ATotal(b) \in Nat /\ BTotal(b) \in Nat
  BY <1>1, TotalsAreWhole
<1>3. Owed(b, e) \in Nat
  BY <1>2 DEF Owed
<1> QED BY <1>1, <1>2, <1>3 DEF Worth

\* The identity of the runs is the vault's.
LEMMA VaultIsEscrow == EscrowIdentity <=> balance + swept = donated + Vault
<1>1. ASSUME NEW d \in Duels PROVE OwedTotal(d) = Owed(books[d], feed[d])
  <2>1. CASE feed[d].status = "RESOLVED" /\ feed[d].winner = "A"
    BY <2>1 DEF OwedTotal, Owed, WinningShares, ATotal
  <2>2. CASE feed[d].status = "RESOLVED" /\ feed[d].winner # "A"
    BY <2>2 DEF OwedTotal, Owed, WinningShares, BTotal
  <2>3. CASE feed[d].status # "RESOLVED"
    BY <2>3 DEF OwedTotal, Owed, StakeTotal
  <2> QED BY <2>1, <2>2, <2>3
<1>2. [d \in Duels |-> RestingTotal(books[d]) + OwedTotal(d)] = [d \in Duels |-> Worth(books[d], feed[d])]
  BY <1>1 DEF Worth
<1> QED BY <1>2 DEF EscrowIdentity, Vault

\* A call that writes the book of one duel, or an oracle step that moves one,
\* keeps the vault if the balance moves with the worth of that book.
LEMMA OneBookStep ==
    ASSUME VaultInv, NEW d \in Duels, NEW c, NEW e,
           books' = [books EXCEPT ![d] = c],
           feed'[d] = e, \A x \in Duels : x # d => feed'[x] = feed[x],
           SoundBook(c, e), balance' \in Nat,
           balance' + Worth(books[d], feed[d]) = balance + Worth(c, e),
           donated' = donated, swept' = swept
    PROVE  VaultInv'
<1>1. books \in [Duels -> BookType] /\ \A x \in Duels : SoundBook(books[x], feed[x])
  BY DEF VaultInv, BooksInv
<1>2. c \in BookType
  BY DEF SoundBook, Good
<1>3. books' \in [Duels -> BookType] /\ books'[d] = c /\ \A x \in Duels : x # d => books'[x] = books[x]
  BY <1>1, <1>2
<1>4. \A x \in Duels : SoundBook(books'[x], feed'[x])
  BY <1>1, <1>3
<1>5. BooksInv'
  BY <1>3, <1>4 DEF BooksInv
<1> DEFINE f == [x \in Duels |-> Worth(books[x], feed[x])]
           g == [x \in Duels |-> Worth(books'[x], feed'[x])]
<1>6. \A x \in Duels : Worth(books[x], feed[x]) \in Nat /\ Worth(books'[x], feed'[x]) \in Nat
  BY <1>1, <1>4, WorthIsWhole
<1>7. f \in [Duels -> Int] /\ g \in [Duels -> Int] /\ f[d] = Worth(books[d], feed[d]) /\ g[d] = Worth(c, e)
      /\ \A x \in Duels : x # d => g[x] = f[x]
  BY <1>3, <1>6
<1>8. Vault = SumFunction(f) /\ Vault' = SumFunction(g)
  BY DEF Vault
<1> HIDE DEF f, g
<1>9. SumFunction(g) = SumFunction(f) - f[d] + g[d] /\ SumFunction(f) \in Int
  BY <1>7, FiniteSets, TotalChange, TotalType
<1>10. /\ balance \in Nat /\ donated \in Nat /\ swept \in Nat /\ balance + swept = donated + Vault
  BY DEF VaultInv, MoneyInv
<1>11. Worth(books[d], feed[d]) \in Nat /\ Worth(c, e) \in Nat
  BY <1>3, <1>6
<1>12. Vault' = Vault - Worth(books[d], feed[d]) + Worth(c, e) /\ Vault \in Int
  BY <1>7, <1>8, <1>9
<1>13. balance' + swept' = donated' + Vault'
  BY <1>10, <1>11, <1>12
<1> QED BY <1>5, <1>10, <1>13 DEF VaultInv, MoneyInv

\* A step that leaves the books and the feed alone.
LEMMA NoBookStep ==
    ASSUME VaultInv, books' = books, feed' = feed,
           balance' \in Nat, donated' \in Nat, swept' \in Nat,
           balance' + swept' + donated = balance + swept + donated'
    PROVE  VaultInv'
<1>1. BooksInv'
  BY DEF VaultInv, BooksInv
<1>2. Vault' = Vault
  BY DEF Vault
<1>3. /\ balance \in Nat /\ donated \in Nat /\ swept \in Nat /\ balance + swept = donated + Vault
  BY DEF VaultInv, MoneyInv
<1>4. Vault \in Int
  <2> DEFINE f == [x \in Duels |-> Worth(books[x], feed[x])]
  <2>1. \A x \in Duels : Worth(books[x], feed[x]) \in Int
    BY WorthIsWhole DEF VaultInv, BooksInv
  <2>2. f \in [Duels -> Int]
    BY <2>1
  <2> HIDE DEF f
  <2>3. SumFunction(f) \in Int
    BY <2>2, FiniteSets, TotalType
  <2> QED BY <2>3 DEF f, Vault
<1>5. balance' + swept' = donated' + Vault'
  BY <1>2, <1>3, <1>4
<1> QED BY <1>1, <1>5 DEF VaultInv, MoneyInv

-----------------------------------------------------------------------------
(* The steps. *)

\* The oracle resolves behind the market's back: the winners are owed what
\* both sides had staked.
LEMMA OracleKeepsVault ==
    ASSUME VaultInv, CopyInv, OracleStep
    PROVE  VaultInv'
<1>1. /\ books' = books /\ balance' = balance /\ donated' = donated /\ swept' = swept
  BY DEF OracleStep, clobVars
<1>2. ASSUME NEW d \in Duels, NEW e, feed' = [feed EXCEPT ![d] = e],
             feed[d].status \notin {"RESOLVED", "CANCELLED"}
      PROVE  VaultInv'
  <2>1. SoundBook(books[d], feed[d]) /\ books \in [Duels -> BookType] /\ balance \in Nat
    BY DEF VaultInv, BooksInv, MoneyInv
  <2>2. ATotal(books[d]) = StakeTotal(books[d]) /\ BTotal(books[d]) = StakeTotal(books[d])
    BY <1>2, <2>1 DEF SoundBook, Even
  <2>3. SoundBook(books[d], e)
    BY <2>1, <2>2 DEF SoundBook, Even
  <2>4. Worth(books[d], e) = Worth(books[d], feed[d])
    BY <2>2 DEF Worth, Owed
  <2>5. books' = [books EXCEPT ![d] = books[d]]
    BY <1>1, <2>1
  <2>6. feed \in [Duels -> FeedEntry]
    BY DEF CopyInv
  <2>7. feed'[d] = e /\ \A x \in Duels : x # d => feed'[x] = feed[x]
    BY <1>2, <2>6
  <2>8. balance' \in Nat /\ balance' + Worth(books[d], feed[d]) = balance + Worth(books[d], e)
    BY <1>1, <2>1, <2>4
  <2> QED BY <1>1, <2>3, <2>5, <2>7, <2>8, OneBookStep
<1>3. CASE feed' = feed
  <2>1. balance \in Nat /\ donated \in Nat /\ swept \in Nat
    BY DEF VaultInv, MoneyInv
  <2> QED BY <1>1, <1>3, <2>1, NoBookStep
<1>4. ASSUME NEW d \in Duels, NEW s, NEW c, Announce(d, s, c) PROVE VaultInv'
  BY <1>2, <1>4 DEF Announce
<1>5. ASSUME NEW d \in Duels, Lock(d) PROVE VaultInv'
  BY <1>2, <1>5 DEF Lock
<1>6. ASSUME NEW d \in Duels, NEW w, Resolve(d, w) PROVE VaultInv'
  BY <1>2, <1>6 DEF Resolve
<1>7. ASSUME NEW d \in Duels, Cancel(d) PROVE VaultInv'
  BY <1>2, <1>7 DEF Cancel
<1>8. CASE Advance
  BY <1>3, <1>8 DEF Advance
<1>9. FeedNext
  BY DEF OracleStep
<1> QED BY <1>4, <1>5, <1>6, <1>7, <1>8, <1>9 DEF FeedNext

\* What a successful placeOrder does to the book, the feed and the balance.
LEMMA PlaceEffect ==
    ASSUME VaultInv, CopyInv, NEW d \in Duels, NEW t \in Traders, NEW side \in BookSides, NEW price \in Prices,
           NEW amount \in Amounts, NEW flag \in Flags, PlaceOrder(d, t, side, price, amount, flag)
    PROVE  /\ feed[d].status = "BETTING_OPEN"
           /\ books[d].nextOrderId \in OrderIds
           /\ UNCHANGED <<feed, donated, swept>>
           /\ \E c, paid :
                /\ PlacedBook(books[d], books[d].nextOrderId, side, price, amount, c, paid)
                /\ books' = [books EXCEPT ![d] = c] /\ balance' = balance + paid
<1> DEFINE b     == books[d]
           id    == b.nextOrderId
           m     == Matching(b, t, side, price, amount)
           order == Order(side, price, t, amount, amount - m.remaining)
           rests == m.remaining > 0 /\ flag # "IOC" /\ ~m.selfTrade
           c     == IF rests THEN RestOrder(m.book, id, order) ELSE [m.book EXCEPT !.orders[id] = order]
           resting == IF rests THEN QuoteCost(side, price, m.remaining) ELSE 0
           paid  == resting + m.cost
<1>1. /\ Synced(d).status = "OPEN" /\ id \in OrderIds
      /\ books' = [books EXCEPT ![d] = c]
      /\ balance' = balance + resting + m.cost
      /\ UNCHANGED <<feedVars, donated, swept, pauseVars>>
  BY DEF PlaceOrder
<1>2. feed[d].status = "BETTING_OPEN"
  <2>1. feed[d].status \in FeedStatuses
    BY DEF CopyInv, FeedEntry
  <2>2. MapDuelStatus(feed[d].status) = "OPEN"
    BY <1>1 DEF Synced
  <2> QED BY <2>1, <2>2 DEF MapDuelStatus, FeedStatuses
<1>3. Good(b, id) /\ SoundBook(b, feed[d]) /\ balance \in Nat
  BY DEF VaultInv, BooksInv, SoundBook, MoneyInv
<1>4. UNCHANGED <<feed, donated, swept>>
  BY <1>1 DEF feedVars
<1>5. rests \in BOOLEAN
  OBVIOUS
<1>6. PlacedBook(b, id, side, price, amount, c, paid)
  BY <1>1, <1>3, <1>5, PlaceBook
<1>7. balance' = balance + paid
  <2>1. m.cost \in Nat /\ resting \in Nat
    <3>1. id \in Nat
      BY <1>1 DEF OrderIds
    <3>2. Lot(amount) /\ price \in Ticks
      BY AmountAssumption, PricesAreTicks DEF Lot
    <3>3. /\ RestingTotal(b) \in Nat /\ StakeTotal(b) \in Nat /\ ATotal(b) \in Nat /\ BTotal(b) \in Nat
      BY <1>3, <3>1, TotalsAreWhole
    <3>4. RunOK(m, b, id, side, price, amount)
      BY <1>3, <3>1, <3>2, <3>3, MatchingRun
    <3>5. m.cost \in Nat /\ Lot(m.remaining)
      BY <3>4 DEF RunOK, RunType
    <3>6. QuoteCost(side, price, m.remaining) \in Nat
      BY <3>2, <3>5, QuoteSides
    <3> QED BY <3>5, <3>6
  <2> HIDE DEF m, resting
  <2> QED BY <1>1, <1>3, <2>1
<1> HIDE DEF c, paid
<1> QED BY <1>1, <1>2, <1>4, <1>6, <1>7

\* placeOrder
LEMMA PlaceKeepsVault ==
    ASSUME VaultInv, CopyInv, NEW d \in Duels, NEW t \in Traders, Place(d, t)
    PROVE  VaultInv'
<1>1. PICK side \in BookSides, price \in Prices, amount \in Amounts, flag \in Flags :
          PlaceOrder(d, t, side, price, amount, flag)
  BY DEF Place
<1> DEFINE b == books[d]
           id == b.nextOrderId
<1>2. /\ feed[d].status = "BETTING_OPEN" /\ id \in OrderIds
      /\ feed' = feed /\ donated' = donated /\ swept' = swept
  BY <1>1, PlaceEffect
<1>3. PICK c, paid : /\ PlacedBook(b, id, side, price, amount, c, paid)
                     /\ books' = [books EXCEPT ![d] = c] /\ balance' = balance + paid
  BY <1>1, PlaceEffect
<1>4. /\ Good(c, id + 1) /\ c.nextOrderId = id + 1 /\ paid \in Nat
      /\ RestingTotal(c) + StakeTotal(c) = RestingTotal(b) + StakeTotal(b) + paid
  BY <1>3 DEF PlacedBook
<1>5. PICK filled \in Nat : /\ ATotal(c) = ATotal(b) + filled /\ BTotal(c) = BTotal(b) + filled
                            /\ StakeTotal(c) = StakeTotal(b) + filled
  BY <1>3 DEF PlacedBook
<1>6. SoundBook(b, feed[d]) /\ balance \in Nat
  BY DEF VaultInv, BooksInv, MoneyInv
<1>7. SoundBook(c, feed[d])
  <2>1. ATotal(b) = StakeTotal(b) /\ BTotal(b) = StakeTotal(b)
    BY <1>2, <1>6 DEF SoundBook, Even
  <2>2. c.nextOrderId \in 1 .. (MaxOrders + 1)
    BY <1>2, <1>4, BoundAssumption DEF OrderIds
  <2>3. Even(c, feed[d])
    BY <1>5, <2>1 DEF Even
  <2> QED BY <1>4, <2>2, <2>3 DEF SoundBook
<1>8. /\ Worth(c, feed[d]) = RestingTotal(c) + StakeTotal(c)
      /\ Worth(b, feed[d]) = RestingTotal(b) + StakeTotal(b)
  BY <1>2 DEF Worth, Owed
<1>9. balance' \in Nat
  BY <1>3, <1>4, <1>6
<1>10. balance' + Worth(b, feed[d]) = balance + Worth(c, feed[d])
  <2>1. Worth(b, feed[d]) \in Nat /\ Worth(c, feed[d]) \in Nat
    BY <1>6, <1>7, WorthIsWhole
  <2>2. Worth(c, feed[d]) = Worth(b, feed[d]) + paid
    BY <1>4, <1>8
  <2> QED BY <1>3, <1>4, <1>6, <2>1, <2>2
<1>11. feed'[d] = feed[d] /\ \A x \in Duels : x # d => feed'[x] = feed[x]
  BY <1>2
<1> HIDE DEF b, id
<1> QED BY <1>2, <1>3, <1>7, <1>9, <1>10, <1>11, OneBookStep DEF b

\* cancelOrder and reclaimRestingOrder
LEMMA WithdrawKeepsVault ==
    ASSUME VaultInv, NEW d \in Duels, NEW t \in Traders, NEW id \in OrderIds,
           Withdrawable(d, t, id), Withdraw(d, id)
    PROVE  VaultInv' /\ books'[d].nextOrderId = books[d].nextOrderId
                     /\ \A x \in Duels : x # d => books'[x] = books[x]
<1> DEFINE b == books[d]
           order == b.orders[id]
           c == UnlinkOrder(b, id)
<1>1. /\ order.active /\ Remaining(order) > 0 /\ ~UnlinkReverts(b, id) /\ Collateral(order) <= balance
      /\ books' = [books EXCEPT ![d] = c]
      /\ balance' = balance - Collateral(order)
      /\ feed' = feed /\ donated' = donated /\ swept' = swept
  BY DEF Withdrawable, Withdraw, feedVars
<1>2. SoundBook(b, feed[d]) /\ balance \in Nat /\ books \in [Duels -> BookType]
  BY DEF VaultInv, BooksInv, MoneyInv
<1>3. Good(b, b.nextOrderId) /\ b.nextOrderId \in Nat
  BY <1>2, WorthIsWhole DEF SoundBook
<1>4. /\ Good(c, b.nextOrderId) /\ c.nextOrderId = b.nextOrderId
      /\ RestingTotal(c) + Collateral(order) = RestingTotal(b)
      /\ Collateral(order) \in Nat
      /\ StakeTotal(c) = StakeTotal(b) /\ ATotal(c) = ATotal(b) /\ BTotal(c) = BTotal(b)
  BY <1>1, <1>3, WithdrawBook
<1> HIDE DEF c, order
<1>5. SoundBook(c, feed[d])
  BY <1>2, <1>4 DEF SoundBook, Even
<1>6. Owed(c, feed[d]) = Owed(b, feed[d])
  BY <1>4 DEF Owed
<1>7. balance' \in Nat
  BY <1>1, <1>2, <1>4
<1>8. balance' + Worth(b, feed[d]) = balance + Worth(c, feed[d])
  <2>1. /\ Owed(b, feed[d]) \in Nat /\ RestingTotal(b) \in Nat /\ RestingTotal(c) \in Nat
    BY <1>2, <1>5, WorthIsWhole
  <2>2. /\ Worth(b, feed[d]) = RestingTotal(b) + Owed(b, feed[d])
        /\ Worth(c, feed[d]) = RestingTotal(c) + Owed(b, feed[d])
    BY <1>6 DEF Worth
  <2> QED BY <1>1, <1>2, <1>4, <2>1, <2>2
<1>9. feed'[d] = feed[d] /\ \A x \in Duels : x # d => feed'[x] = feed[x]
  BY <1>1
<1>10. VaultInv'
  <2> HIDE DEF b
  <2> QED BY <1>1, <1>5, <1>7, <1>8, <1>9, OneBookStep DEF b
<1>11. books'[d] = c /\ \A x \in Duels : x # d => books'[x] = books[x]
  BY <1>1, <1>2
<1> QED BY <1>4, <1>10, <1>11

\* claim
LEMMA ClaimKeepsVault ==
    ASSUME VaultInv, NEW d \in Duels, NEW t \in Traders, Claim(d, t)
    PROVE  VaultInv' /\ \A x \in Duels : books'[x].nextOrderId = books[x].nextOrderId
<1> DEFINE b == books[d]
           c == [b EXCEPT !.positions = [@ EXCEPT ![t] = NoPosition]]
           z == b.positions[t]
<1>1. /\ Synced(d).status \in {"RESOLVED", "CANCELLED"} /\ Payout(d, t) <= balance
      /\ books' = [books EXCEPT ![d].positions[t] = NoPosition]
      /\ balance' = balance - Payout(d, t)
      /\ feed' = feed /\ donated' = donated /\ swept' = swept
  BY DEF CanClaim, Claim, feedVars
<1>2. SoundBook(b, feed[d]) /\ balance \in Nat /\ books \in [Duels -> BookType] /\ b \in BookType
  BY DEF VaultInv, BooksInv, MoneyInv
<1>3. books' = [books EXCEPT ![d] = c]
  BY <1>1, <1>2
<1>4. /\ c \in BookType /\ c.orders = b.orders /\ c.levels = b.levels /\ c.bitmap = b.bitmap
      /\ c.best = b.best /\ c.nextOrderId = b.nextOrderId
      /\ c.positions = [b.positions EXCEPT ![t] = NoPosition]
  BY <1>2 DEF BookType, PositionType, NoPosition
<1> HIDE DEF c
<1>5. /\ NoPosition \in PositionType /\ NoPosition.aShares = 0 /\ NoPosition.bShares = 0
      /\ NoPosition.aStake + NoPosition.bStake = 0
  BY DEF NoPosition, PositionType
<1>6. /\ ATotal(c) = ATotal(b) - z.aShares + 0
      /\ BTotal(c) = BTotal(b) - z.bShares + 0
      /\ StakeTotal(c) = StakeTotal(b) - Stakes(b, t) + 0
      /\ ATotal(b) \in Nat /\ BTotal(b) \in Nat /\ StakeTotal(b) \in Nat
      /\ Stakes(b, t) \in Nat /\ z \in PositionType
  BY <1>2, <1>4, <1>5, PositionChange
<1>7. Good(c, c.nextOrderId)
  BY <1>2, <1>4 DEF SoundBook, Good, IndexesOK
<1>8. RestingTotal(c) = RestingTotal(b)
  BY <1>4, RestingSame
<1>9. /\ feed[d].status \in {"RESOLVED", "CANCELLED"} /\ Synced(d).status = feed[d].status
  BY <1>1 DEF Synced, MapDuelStatus
<1>10. SoundBook(c, feed[d])
  BY <1>2, <1>4, <1>7, <1>9 DEF SoundBook, Even
<1>11. Payout(d, t) \in Nat /\ Owed(c, feed[d]) + Payout(d, t) = Owed(b, feed[d])
  <2>1. z.aShares \in Nat /\ z.bShares \in Nat
    BY <1>6 DEF PositionType
  <2>2. CASE feed[d].status = "RESOLVED"
    <3>1. Synced(d).winner = feed[d].winner
      BY <2>2 DEF Synced
    <3>2. Payout(d, t) = IF feed[d].winner = "A" THEN z.aShares ELSE z.bShares
      BY <1>9, <2>2, <3>1 DEF Payout
    <3>3. /\ Owed(c, feed[d]) = IF feed[d].winner = "A" THEN ATotal(c) ELSE BTotal(c)
          /\ Owed(b, feed[d]) = IF feed[d].winner = "A" THEN ATotal(b) ELSE BTotal(b)
      BY <2>2 DEF Owed
    <3> HIDE DEF z, b
    <3> QED BY <1>6, <2>1, <3>2, <3>3
  <2>3. CASE feed[d].status # "RESOLVED"
    <3>1. Payout(d, t) = Stakes(b, t)
      BY <1>9, <2>3 DEF Payout, Stakes
    <3>2. Owed(c, feed[d]) = StakeTotal(c) /\ Owed(b, feed[d]) = StakeTotal(b)
      BY <2>3 DEF Owed
    <3> HIDE DEF z, b
    <3> QED BY <1>6, <3>1, <3>2
  <2> QED BY <2>2, <2>3
<1>12. balance' \in Nat
  BY <1>1, <1>2, <1>11
<1>13. balance' + Worth(b, feed[d]) = balance + Worth(c, feed[d])
  <2>1. /\ Owed(b, feed[d]) \in Nat /\ Owed(c, feed[d]) \in Nat /\ RestingTotal(b) \in Nat
    BY <1>2, <1>10, WorthIsWhole
  <2>2. /\ Worth(b, feed[d]) = RestingTotal(b) + Owed(b, feed[d])
        /\ Worth(c, feed[d]) = RestingTotal(b) + Owed(c, feed[d])
    BY <1>8 DEF Worth
  <2> QED BY <1>1, <1>2, <1>11, <2>1, <2>2
<1>14. feed'[d] = feed[d] /\ \A x \in Duels : x # d => feed'[x] = feed[x]
  BY <1>1
<1>15. VaultInv'
  <2> HIDE DEF b
  <2> QED BY <1>1, <1>3, <1>10, <1>12, <1>13, <1>14, OneBookStep DEF b
<1>16. \A x \in Duels : books'[x].nextOrderId = books[x].nextOrderId
  BY <1>2, <1>3, <1>4
<1> QED BY <1>15, <1>16

-----------------------------------------------------------------------------
(* The invariant. *)

\* The variables the escrow does not depend on.
SwitchInv ==
    /\ now \in Times
    /\ creationPaused \in BOOLEAN /\ placementPaused \in BOOLEAN /\ clobPausers \subseteq ClobPausers

ClobInv == CopyInv /\ VaultInv /\ SwitchInv

\* A step of the contract that is not placeOrder leaves the order count.
LEMMA MarketStepKeepsVault ==
    ASSUME ClobInv, NEW d \in Duels, MarketStep(d)
    PROVE  /\ VaultInv' /\ SwitchInv'
           /\ \/ \E t \in Traders : Place(d, t)
              \/ \A x \in Duels : books'[x].nextOrderId = books[x].nextOrderId
<1> USE DEF ClobInv
<1>1. balance \in Nat /\ donated \in Nat /\ swept \in Nat
  BY DEF VaultInv, MoneyInv
<1>2. CASE CreateMarketForDuel(d) \/ SyncMarketFromOracle(d)
  <2>1. /\ UNCHANGED <<books, balance, donated, swept>> /\ UNCHANGED feedVars /\ UNCHANGED pauseVars
    BY <1>2 DEF CreateMarketForDuel, SyncMarketFromOracle
  <2>2. feed' = feed /\ now' = now
    BY <2>1 DEF feedVars
  <2>3. VaultInv'
    BY <1>1, <2>1, <2>2, NoBookStep
  <2> QED BY <2>1, <2>2, <2>3 DEF SwitchInv, pauseVars
<1>3. ASSUME NEW t \in Traders, Place(d, t) PROVE VaultInv' /\ SwitchInv'
  <2>1. VaultInv'
    BY <1>3, PlaceKeepsVault
  <2>2. UNCHANGED feedVars /\ UNCHANGED pauseVars
    BY <1>3 DEF Place, PlaceOrder
  <2> QED BY <2>1, <2>2 DEF SwitchInv, pauseVars, feedVars
<1>4. ASSUME NEW t \in Traders, Take(d, t)
      PROVE  VaultInv' /\ SwitchInv' /\ \A x \in Duels : books'[x].nextOrderId = books[x].nextOrderId
  <2>1. PICK id \in OrderIds : Withdrawable(d, t, id) /\ Withdraw(d, id)
    BY <1>4 DEF Take, CancelOrder, ReclaimRestingOrder, CanCancel, CanReclaim
  <2>2. /\ VaultInv' /\ books'[d].nextOrderId = books[d].nextOrderId
        /\ \A x \in Duels : x # d => books'[x] = books[x]
    BY <2>1, WithdrawKeepsVault
  <2>3. UNCHANGED feedVars /\ UNCHANGED pauseVars
    BY <2>1 DEF Withdraw
  <2> QED BY <2>2, <2>3 DEF SwitchInv, pauseVars, feedVars
<1>5. ASSUME NEW t \in Traders, Claim(d, t)
      PROVE  VaultInv' /\ SwitchInv' /\ \A x \in Duels : books'[x].nextOrderId = books[x].nextOrderId
  <2>1. VaultInv' /\ \A x \in Duels : books'[x].nextOrderId = books[x].nextOrderId
    BY <1>5, ClaimKeepsVault
  <2>2. UNCHANGED feedVars /\ UNCHANGED pauseVars
    BY <1>5 DEF Claim
  <2> QED BY <2>1, <2>2 DEF SwitchInv, pauseVars, feedVars
<1>6. CASE CreateMarketForDuel(d) \/ SyncMarketFromOracle(d)
  <2>1. books' = books
    BY <1>6 DEF CreateMarketForDuel, SyncMarketFromOracle
  <2> QED BY <1>2, <1>6, <2>1
<1> QED BY <1>3, <1>4, <1>5, <1>6 DEF MarketStep

\* receive, sweepETH and the switches touch no book.
LEMMA OtherStepKeepsVault ==
    ASSUME ClobInv, VaultStep \/ \E p \in ClobPausers : SwitchStep(p)
    PROVE  VaultInv' /\ SwitchInv' /\ books' = books
<1> USE DEF ClobInv
<1>1. balance \in Nat /\ donated \in Nat /\ swept \in Nat
  BY DEF VaultInv, MoneyInv
<1>2. ASSUME NEW gift \in Gifts, Receive(gift) PROVE VaultInv' /\ SwitchInv' /\ books' = books
  <2>1. /\ donated = 0 /\ donated' = gift /\ balance' = balance + gift /\ swept' = swept /\ books' = books
        /\ feed' = feed /\ now' = now /\ UNCHANGED pauseVars /\ gift \in Nat
    BY <1>2, BoundAssumption DEF Receive, feedVars
  <2>2. balance' \in Nat /\ balance' + swept' + donated = balance + swept + donated'
    BY <1>1, <2>1
  <2>3. VaultInv'
    BY <1>1, <2>1, <2>2, NoBookStep
  <2> QED BY <2>1, <2>3 DEF SwitchInv, pauseVars
<1>3. CASE SweepETH
  <2>1. /\ balance' = 0 /\ swept' = swept + balance /\ donated' = donated /\ books' = books
        /\ feed' = feed /\ now' = now /\ UNCHANGED pauseVars
    BY <1>3 DEF SweepETH, feedVars
  <2>2. balance' \in Nat /\ swept' \in Nat /\ balance' + swept' + donated = balance + swept + donated'
    BY <1>1, <2>1
  <2>3. VaultInv'
    BY <1>1, <2>1, <2>2, NoBookStep
  <2> QED BY <2>1, <2>3 DEF SwitchInv, pauseVars
<1>4. ASSUME NEW p \in ClobPausers, SwitchStep(p) PROVE VaultInv' /\ SwitchInv' /\ books' = books
  <2>1. /\ balance' = balance /\ swept' = swept /\ donated' = donated /\ books' = books
        /\ feed' = feed /\ now' = now
    BY <1>4 DEF SwitchStep, SetMarketCreationPaused, SetOrderPlacementPaused, SetPauser, feedVars
  <2>2. /\ creationPaused' \in BOOLEAN /\ placementPaused' \in BOOLEAN /\ clobPausers' \subseteq ClobPausers
    BY <1>4 DEF SwitchStep, SetMarketCreationPaused, SetOrderPlacementPaused, SetPauser, SwitchInv
  <2>3. VaultInv'
    BY <1>1, <2>1, NoBookStep
  <2> QED BY <2>1, <2>2, <2>3 DEF SwitchInv
<1> QED BY <1>2, <1>3, <1>4 DEF VaultStep

\* No step of the oracle, the contract or its admin breaks the invariant.
LEMMA ClobInvInductive ==
    ASSUME ClobInv, [Next]_vars
    PROVE  ClobInv'
<1>1. CopyInv'
  BY CopyInvInductive DEF ClobInv
<1>2. CASE OracleStep
  <2>1. VaultInv'
    BY <1>2, OracleKeepsVault DEF ClobInv
  <2>2. now' \in Times
    BY <1>2 DEF OracleStep, FeedNext, Announce, Lock, Resolve, Cancel, Advance, ClobInv, SwitchInv
  <2>3. SwitchInv'
    BY <1>2, <2>2 DEF OracleStep, clobVars, pauseVars, ClobInv, SwitchInv
  <2> QED BY <1>1, <2>1, <2>3 DEF ClobInv
<1>3. ASSUME NEW d \in Duels, MarketStep(d) PROVE VaultInv' /\ SwitchInv'
  BY <1>3, MarketStepKeepsVault
<1>4. CASE VaultStep \/ \E p \in ClobPausers : SwitchStep(p)
  BY <1>1, <1>4, OtherStepKeepsVault DEF ClobInv
<1>5. CASE UNCHANGED vars
  <2>1. balance \in Nat /\ donated \in Nat /\ swept \in Nat
    BY DEF ClobInv, VaultInv, MoneyInv
  <2>2. /\ books' = books /\ balance' = balance /\ donated' = donated /\ swept' = swept
        /\ feed' = feed /\ now' = now /\ UNCHANGED pauseVars
    BY <1>5 DEF vars, feedVars, clobVars
  <2>3. VaultInv'
    BY <2>1, <2>2, NoBookStep DEF ClobInv
  <2> QED BY <1>1, <2>2, <2>3 DEF ClobInv, SwitchInv, pauseVars
<1>6. CASE \E d \in Duels : MarketStep(d)
  BY <1>1, <1>3, <1>6 DEF ClobInv
<1> QED BY <1>2, <1>4, <1>5, <1>6 DEF Next

\* An empty book is sound and worth nothing.
LEMMA EmptyBookSound ==
    ASSUME NEW e, e = Entry("NULL", 0, "NONE")
    PROVE  SoundBook(EmptyBook, e) /\ Worth(EmptyBook, e) = 0
<1> DEFINE b == EmptyBook
<1>1. /\ b.nextOrderId = 1 /\ b.orders = [i \in OrderIds |-> NoOrder]
      /\ b.levels = [s \in BookSides |-> [p \in Prices |-> EmptyLevel]]
      /\ b.bitmap = [s \in BookSides |-> {}]
      /\ b.best = [s \in BookSides |-> NoBest(s)]
      /\ b.positions = [t \in Traders |-> NoPosition]
  BY DEF EmptyBook
<1>2. /\ NoOrder \in OrderType /\ EmptyLevel \in LevelType /\ NoPosition \in PositionType
      /\ \A s \in BookSides : NoBest(s) \in Int
  BY DEF NoOrder, OrderType, EmptyLevel, LevelType, NoPosition, PositionType, NoBest, BookSides, MAX_PRICE
<1>3. b \in BookType
  BY <1>2 DEF EmptyBook, BookType
<1> HIDE DEF b
<1>4. ASSUME NEW i \in OrderIds PROVE OrderOK(b.orders, 1, i)
  <2>1. b.orders[i] = NoOrder
    BY <1>1
  <2>2. Lot(0)
    BY DEF Lot, MAX_PRICE
  <2> QED BY <2>1, <2>2 DEF OrderOK, NoOrder, Kin
<1>5. ASSUME NEW s \in BookSides, NEW p \in Prices PROVE LevelOK(b.orders, 1, s, p, b.levels[s][p])
  BY <1>1 DEF LevelOK, EmptyLevel, Kin
<1>6. ASSUME NEW s \in BookSides PROVE IndexOK(b.levels[s], b.bitmap[s], b.best[s], s)
  BY <1>1 DEF IndexOK, EmptyLevel
<1>7. Good(b, 1)
  BY <1>3, <1>4, <1>5, <1>6 DEF Good, OrdersOK, LevelsOK, IndexesOK
<1>8. /\ RestingTotal(b) = 0 /\ StakeTotal(b) = 0 /\ ATotal(b) = 0 /\ BTotal(b) = 0
  <2>1. ASSUME NEW S, IsFiniteSet(S), NEW f \in [S -> {0}] PROVE SumFunction(f) = 0
    <3>1. f \in [S -> Int] /\ \A x \in S : f[x] = 0
      BY <2>1
    <3> QED BY <2>1, <3>1, TotalZero
  <2>2. [i \in OrderIds |-> Backing(b.orders[i])] \in [OrderIds -> {0}]
    BY <1>1 DEF Backing, NoOrder
  <2>3. /\ [t \in Traders |-> b.positions[t].aShares] \in [Traders -> {0}]
        /\ [t \in Traders |-> b.positions[t].bShares] \in [Traders -> {0}]
        /\ [t \in Traders |-> Stakes(b, t)] \in [Traders -> {0}]
    BY <1>1 DEF Stakes, NoPosition
  <2> QED BY <2>1, <2>2, <2>3, FiniteSets DEF RestingTotal, StakeTotal, ATotal, BTotal
<1>9. e.status = "NULL"
  BY DEF Entry
<1>10. Worth(b, e) = 0
  BY <1>8, <1>9 DEF Worth, Owed
<1>11. SoundBook(b, e)
  <2>1. 1 \in 1 .. (MaxOrders + 1)
    BY BoundAssumption
  <2> QED BY <1>1, <1>7, <1>8, <2>1 DEF SoundBook, Even
<1> QED BY <1>10, <1>11 DEF b

\* The invariant holds when the contract is deployed.
LEMMA ClobInvInit ==
    ASSUME Init, CopyInv
    PROVE  ClobInv
<1>1. /\ \A d \in Duels : feed[d] = Entry("NULL", 0, "NONE")
      /\ books = [d \in Duels |-> EmptyBook] /\ balance = 0 /\ donated = 0 /\ swept = 0
  BY DEF Init, FeedInit, ClobInit
<1>2. \A d \in Duels : SoundBook(books[d], feed[d]) /\ Worth(books[d], feed[d]) = 0
  BY <1>1, EmptyBookSound
<1>3. BooksInv
  <2>1. \A d \in Duels : books[d] \in BookType
    BY <1>2 DEF SoundBook, Good
  <2> QED BY <1>1, <1>2, <2>1 DEF BooksInv
<1>4. Vault = 0
  <2> DEFINE f == [d \in Duels |-> Worth(books[d], feed[d])]
  <2>1. f \in [Duels -> Int] /\ \A d \in Duels : f[d] = 0
    BY <1>2
  <2> HIDE DEF f
  <2>2. SumFunction(f) = 0
    BY <2>1, FiniteSets, TotalZero
  <2> QED BY <2>2 DEF f, Vault
<1>5. MoneyInv
  BY <1>1, <1>4 DEF MoneyInv
<1>6. SwitchInv
  BY DEF Init, FeedInit, ClobInit, SwitchInv
<1> QED BY <1>3, <1>5, <1>6 DEF ClobInv, VaultInv

\* What the invariant says of the type of every variable.
LEMMA ClobInvTypes ==
    ASSUME ClobInv
    PROVE  TypeOK
<1> USE DEF ClobInv
<1>1. /\ now \in Times /\ feed \in [Duels -> FeedEntry]
      /\ balance \in Nat /\ donated \in Nat /\ swept \in Nat
      /\ creationPaused \in BOOLEAN /\ placementPaused \in BOOLEAN /\ clobPausers \subseteq ClobPausers
  BY DEF SwitchInv, CopyInv, VaultInv, MoneyInv
<1>2. ASSUME NEW d \in Duels
      PROVE  markets[d] \in [exists : BOOLEAN, status : MarketStatuses, winner : {"NONE", "A", "B"}]
  BY DEF CopyInv, MarketType
<1>3. ASSUME NEW d \in Duels PROVE BookOK(books[d])
  <2> DEFINE b == books[d]
             n == b.nextOrderId
  <2>1. SoundBook(b, feed[d])
    BY DEF VaultInv, BooksInv
  <2> HIDE DEF b
  <2>2. n \in 1 .. (MaxOrders + 1) /\ Good(b, n) /\ n \in Nat
    BY <2>1, WorthIsWhole DEF SoundBook
  <2>3. ASSUME NEW i \in OrderIds
        PROVE  /\ b.orders[i] \in OrderType /\ b.orders[i].filled <= b.orders[i].amount
               /\ b.orders[i] # NoOrder => i < n
    <3>1. b.orders[i] \in OrderType /\ OrderOK(b.orders, n, i) /\ i \in Nat
      BY <2>2, OrderFacts
    <3> QED BY <2>2, <3>1 DEF OrderOK
  <2>4. ASSUME NEW s \in BookSides
        PROVE  /\ b.bitmap[s] \subseteq Prices
               /\ b.best[s] \in Prices \cup {NoBest(s)}
               /\ \A p \in Prices : b.levels[s][p] \in LevelType
    <3>1. b.bitmap[s] \subseteq Prices /\ \A p \in Prices : b.levels[s][p] \in LevelType
      BY <2>2 DEF Good, BookType
    <3>2. IndexOK(b.levels[s], b.bitmap[s], b.best[s], s)
      BY <2>2 DEF Good, IndexesOK
    <3> QED BY <3>1, <3>2 DEF IndexOK
  <2>5. b.totalShares \in Nat /\ \A t \in Traders : b.positions[t] \in PositionType
    BY <2>2 DEF Good, BookType
  <2> QED BY <2>2, <2>3, <2>4, <2>5 DEF BookOK, LevelType, PositionType, b
<1> QED BY <1>1, <1>2, <1>3 DEF TypeOK

\* The invariant includes the index of every book.
LEMMA ClobInvIndex ==
    ASSUME ClobInv
    PROVE  IndexSound
<1>1. ASSUME NEW d \in Duels, NEW s \in BookSides
      PROVE  IndexOK(books[d].levels[s], books[d].bitmap[s], books[d].best[s], s)
  BY DEF ClobInv, VaultInv, BooksInv, SoundBook, Good, IndexesOK
<1> QED BY <1>1 DEF IndexSound, IndexOK

\* An order never costs more than its limit.
LEMMA OrderCost ==
    ASSUME ClobInv, [Next]_vars, NEW d \in Duels, Placed(d)
    PROVE  LET order == books'[d].orders[books[d].nextOrderId]
           IN  balance' - balance <= QuoteCost(order.side, order.price, order.amount)
<1>1. PICK x \in Duels : MarketStep(x)
  <2>1. books' # books
    BY DEF Placed
  <2>2. ~UNCHANGED vars /\ ~OracleStep
    BY <2>1 DEF vars, OracleStep, clobVars
  <2>3. ~(VaultStep \/ \E p \in ClobPausers : SwitchStep(p))
    BY <2>1, OtherStepKeepsVault
  <2> QED BY <2>2, <2>3 DEF Next
<1>2. PICK t \in Traders : Place(x, t)
  BY <1>1, MarketStepKeepsVault DEF Placed
<1>3. PICK side \in BookSides, price \in Prices, amount \in Amounts, flag \in Flags :
          PlaceOrder(x, t, side, price, amount, flag)
  BY <1>2 DEF Place
<1>4. PICK c, paid : /\ PlacedBook(books[x], books[x].nextOrderId, side, price, amount, c, paid)
                     /\ books' = [books EXCEPT ![x] = c] /\ balance' = balance + paid
  BY <1>3, PlaceEffect DEF ClobInv
<1>5. x = d /\ books'[d] = c
  BY <1>4 DEF ClobInv, VaultInv, BooksInv, Placed
<1>6. /\ paid \in Nat /\ paid <= QuoteCost(side, price, amount)
      /\ c.orders[books[d].nextOrderId].side = side /\ c.orders[books[d].nextOrderId].price = price
      /\ c.orders[books[d].nextOrderId].amount = amount
  BY <1>4, <1>5 DEF PlacedBook
<1>7. balance \in Nat
  BY DEF ClobInv, VaultInv, MoneyInv
<1>8. balance' - balance = paid
  BY <1>4, <1>6, <1>7
<1> QED BY <1>5, <1>6, <1>8

\* The inductive invariant: markets that follow the oracle, sound books whose two
\* sides are even until the duel is settled, and a balance that is what the books
\* are worth.
THEOREM ClobInvariant == Spec => []ClobInv
<1>1. Init => ClobInv
  BY CopyInvInit, ClobInvInit
<1>2. ClobInv /\ [Next]_vars => ClobInv'
  BY ClobInvInductive
<1> QED BY <1>1, <1>2, PTL DEF Spec

\* The contract's balance is, to the wei, what it holds for its resting orders
\* and positions (GoldClob.sol keeps no such total: placeOrder, cancelOrder,
\* reclaimRestingOrder, claim, receive and sweepETH each move it on their own),
\* for every number of duels, traders, prices, orders and iterations.
THEOREM EscrowIsExact == Spec => []EscrowIdentity
<1>1. ClobInv => EscrowIdentity
  BY VaultIsEscrow DEF ClobInv, VaultInv, MoneyInv
<1> QED BY <1>1, ClobInvariant, PTL

\* Bitmap and best prices follow the levels after every call, whatever happened
\* to the queues themselves (_activatePrice, _deactivatePrice, _popHead and
\* _unlinkOrder).
THEOREM IndexIsSound == Spec => []IndexSound
<1>1. ClobInv => IndexSound
  BY ClobInvIndex
<1> QED BY <1>1, ClobInvariant, PTL

\* No order costs its maker more than its limit price, whatever mixture of fills
\* and resting it ends in (placeOrder).
THEOREM LimitIsKept == Spec => NeverPaysPastLimit
<1>1. ClobInv /\ [Next]_vars =>
        [\A d \in Duels : Placed(d) =>
            LET order == books'[d].orders[books[d].nextOrderId]
            IN  balance' - balance <= QuoteCost(order.side, order.price, order.amount)]_vars
  BY OrderCost
<1> QED BY <1>1, ClobInvariant, PTL DEF Spec, NeverPaysPastLimit

\* Every variable of the contract keeps its type, and no order is filled past
\* its amount.
THEOREM ClobTypes == Spec => []TypeOK
<1>1. ClobInv => TypeOK
  BY ClobInvTypes
<1> QED BY <1>1, ClobInvariant, PTL

-----------------------------------------------------------------------------
\* A market's copy of its duel (Market.status and winner, as every call of
\* GoldClob.sol refreshes them) lags behind the oracle and never runs ahead
\* of it, for all duels, traders and books.
THEOREM MarketsFollowOracle == Spec => []MarketNeverAhead
<1>1. Init => CopyInv
  BY CopyInvInit
<1>2. CopyInv /\ [Next]_vars => CopyInv'
  BY CopyInvInductive
<1>3. CopyInv => MarketNeverAhead
  BY DEF CopyInv, NeverAhead, MarketNeverAhead
<1> QED BY <1>1, <1>2, <1>3, PTL DEF Spec

-----------------------------------------------------------------------------
(* The queues.  While nobody withdraws an order whose predecessor is gone    *)
(* (IntactSpec), the list of a price level is the set of its open orders in  *)
(* the order of their ids.  First and last elements are stated, not chosen,  *)
(* so that the provers need no extremum of a set.                            *)

IsFirst(S, h) == IF h = 0 THEN S = {} ELSE h \in S /\ \A j \in S : h <= j
IsLast(S, t)  == IF t = 0 THEN S = {} ELSE t \in S /\ \A j \in S : j <= t
IsNext(S, i, k) ==
    IF k = 0 THEN \A j \in S : j <= i ELSE k \in S /\ k > i /\ \A j \in S : j > i => k <= j

\* S is linked in order from head to tail.  The head may keep a prev pointer,
\* to an order that is gone.
Chain(o, S, head, tail) ==
    /\ IsFirst(S, head) /\ IsLast(S, tail)
    /\ \A i \in S :
          /\ IsNext(S, i, o[i].next)
          /\ o[i].next # 0 => o[o[i].next].prev = i
          /\ o[i].prev < i
          /\ i # head => o[i].prev \in S /\ o[o[i].prev].next = i

QueueOf(o, s, p) == {i \in OrderIds : o[i].active /\ o[i].side = s /\ o[i].price = p}
OpenTotal(o, S) == SumFunctionOnSet([i \in S |-> Remaining(o[i])], S)

\* BookWellFormed for one price level.
Queued(o, s, p, level) ==
    LET S == QueueOf(o, s, p)
    IN  /\ Chain(o, S, level.head, level.tail)
        /\ level.totalOpen = OpenTotal(o, S)
        /\ \A i \in S : Remaining(o[i]) \in Nat \ {0}
WellQueued(b) == \A s \in BookSides, p \in Prices : Queued(b.orders, s, p, b.levels[s][p])

\* A chain depends on the pointers of its own orders only.
LEMMA ChainSame ==
    ASSUME NEW o, NEW S \in SUBSET OrderIds, NEW head, NEW tail, Chain(o, S, head, tail),
           NEW new, \A i \in S : new[i].next = o[i].next /\ new[i].prev = o[i].prev
    PROVE  Chain(new, S, head, tail)
<1>1. ASSUME NEW i \in S
      PROVE  o[i].next # 0 => o[i].next \in S
  BY DEF Chain, IsNext
<1>2. IsFirst(S, head) /\ IsLast(S, tail)
  BY DEF Chain
<1>3. ASSUME NEW i \in S
      PROVE  /\ IsNext(S, i, o[i].next) /\ o[i].prev < i
             /\ o[i].next # 0 => o[o[i].next].prev = i
             /\ i # head => o[i].prev \in S /\ o[o[i].prev].next = i
  BY DEF Chain
<1>4. ASSUME NEW i \in S
      PROVE  /\ IsNext(S, i, new[i].next) /\ new[i].prev < i
             /\ new[i].next # 0 => new[new[i].next].prev = i
             /\ i # head => new[i].prev \in S /\ new[new[i].prev].next = i
  BY <1>1, <1>3
<1> QED BY <1>2, <1>4 DEF Chain

\* In new, the orders before and after x in chain S of o are linked to each other;
\* when x is the head, the order after it may point back to anything.
CutOut(o, new, S, x, head, tail, head2, tail2) ==
    LET before == IF x = head THEN 0 ELSE o[x].prev
        after  == o[x].next
    IN  /\ \A i \in S \ {x} :
              /\ new[i].next = IF i = before THEN after ELSE o[i].next
              /\ i # after => new[i].prev = o[i].prev
              /\ i = after => new[i].prev < i /\ (x # head => new[i].prev = before)
        /\ head2 = IF x = head THEN after ELSE head
        /\ tail2 = IF after = 0 THEN before ELSE tail

\* An order taken out of a chain leaves a chain.
LEMMA ChainLoses ==
    ASSUME NEW o, NEW S \in SUBSET OrderIds, NEW head, NEW tail, Chain(o, S, head, tail),
           NEW x \in S, NEW new, NEW head2, NEW tail2, CutOut(o, new, S, x, head, tail, head2, tail2)
    PROVE  Chain(new, S \ {x}, head2, tail2)
<1> DEFINE R == S \ {x}
           before == IF x = head THEN 0 ELSE o[x].prev
           after == o[x].next
<1>a. /\ before = IF x = head THEN 0 ELSE o[x].prev
      /\ after = o[x].next
      /\ head2 = IF x = head THEN after ELSE head
      /\ tail2 = IF after = 0 THEN before ELSE tail
  BY DEF CutOut
<1>7. \A i \in R : /\ new[i].next = IF i = before THEN after ELSE o[i].next
                   /\ i # after => new[i].prev = o[i].prev
                   /\ i = after => new[i].prev < i /\ (x # head => new[i].prev = before)
  BY DEF CutOut
<1> HIDE DEF before, after
<1>0. /\ \A i \in S : i \in Nat /\ i # 0 /\ i > 0
      /\ \A i \in R : i \in S /\ i # x
      /\ \A i \in S : i = x \/ i \in R
  BY DEF OrderIds
<1>1. /\ head \in S /\ \A j \in S : head <= j
      /\ tail \in S /\ \A j \in S : j <= tail
  BY DEF Chain, IsFirst, IsLast
<1>2. ASSUME NEW i \in S
      PROVE  /\ o[i].next = 0 => \A j \in S : j <= i
             /\ o[i].next # 0 => /\ o[i].next \in S /\ o[i].next > i
                                 /\ \A j \in S : j > i => o[i].next <= j
                                 /\ o[o[i].next].prev = i
             /\ o[i].prev < i
             /\ i # head => o[i].prev \in S /\ o[o[i].prev].next = i
  BY <1>a, <1>0 DEF Chain, IsNext
<1>3. x # head => before \in R /\ before < x /\ o[before].next = x
  BY <1>a, <1>0, <1>2
<1>4. \A j \in S : x # head /\ j < x => j <= before
  BY <1>a, <1>0, <1>2, <1>3
<1>5. \A j \in S : j > x => after # 0 /\ after <= j
  BY <1>a, <1>0, <1>2
<1>6. after # 0 => after \in R /\ after > x
  BY <1>a, <1>0, <1>2
<1> HIDE DEF R
<1>8. IsFirst(R, head2)
  <2>1. CASE x # head
    BY <1>a, <1>0, <1>1, <2>1 DEF IsFirst
  <2>2. CASE x = head /\ after = 0
    <3>1. R = {}
      BY <1>a, <1>0, <1>1, <1>5, <2>2
    <3> QED BY <1>a, <2>2, <3>1 DEF IsFirst
  <2>3. CASE x = head /\ after # 0
    <3>1. after \in R /\ \A j \in R : after <= j
      BY <1>a, <1>0, <1>1, <1>5, <1>6, <2>3
    <3> QED BY <1>a, <2>3, <3>1 DEF IsFirst
  <2> QED BY <2>1, <2>2, <2>3
<1>9. IsLast(R, tail2)
  <2>1. CASE after # 0
    <3>1. tail # x
      BY <1>a, <1>0, <1>1, <1>6, <2>1
    <3> QED BY <1>a, <1>0, <1>1, <2>1, <3>1 DEF IsLast
  <2>2. CASE after = 0 /\ x # head
    <3>1. before \in R /\ \A j \in R : j <= before
      BY <1>a, <1>0, <1>3, <1>4, <1>5, <2>2
    <3> QED BY <1>a, <1>0, <2>2, <3>1 DEF IsLast
  <2>3. CASE after = 0 /\ x = head
    <3>1. R = {}
      BY <1>a, <1>0, <1>1, <1>5, <2>3
    <3> QED BY <1>a, <2>3, <3>1 DEF IsLast
  <2> QED BY <2>1, <2>2, <2>3
<1>10. ASSUME NEW i \in R
       PROVE  /\ IsNext(R, i, new[i].next)
              /\ new[i].next # 0 => new[new[i].next].prev = i
  <2>0. i \in S /\ i # x /\ i \in Nat /\ x \in Nat
    BY <1>a, <1>0
  <2>1. CASE i = before
    <3>1. x # head /\ new[i].next = after /\ i < x /\ (after # 0 => i # after)
      BY <1>a, <1>0, <1>3, <1>6, <1>7, <2>0, <2>1
    <3>5. ASSUME NEW j \in R PROVE j \in Nat /\ (j <= i \/ (after # 0 /\ after <= j))
      <4>1. j \in S /\ j # x /\ j \in Nat
        BY <1>a, <1>0
      <4>2. CASE j < x
        BY <1>a, <1>4, <2>1, <3>1, <4>1, <4>2
      <4>3. CASE j > x
        BY <1>a, <1>5, <4>1, <4>3
      <4> QED BY <2>0, <4>1, <4>2, <4>3
    <3>2. after = 0 => \A j \in R : j <= i
      BY <3>5
    <3>3. after # 0 => after \in R /\ after > i /\ \A j \in R : j > i => after <= j
      <4>1. after # 0 => after \in R /\ after \in Nat /\ after > x
        BY <1>a, <1>0, <1>6
      <4>2. after # 0 => after > i
        BY <2>0, <3>1, <4>1
      <4> QED BY <2>0, <3>5, <4>1, <4>2
    <3>4. after # 0 => new[after].prev = i
      BY <1>a, <1>6, <1>7, <2>1, <3>1
    <3> QED BY <3>1, <3>2, <3>3, <3>4 DEF IsNext
  <2>2. CASE i # before
    <3>1. new[i].next = o[i].next
      BY <1>a, <1>7, <2>2
    <3>2. o[i].next # x
      BY <1>a, <1>0, <1>1, <1>2, <2>0, <2>2
    <3>3. IsNext(R, i, o[i].next)
      BY <1>a, <1>0, <1>2, <2>0, <3>2 DEF IsNext
    <3>4. ASSUME o[i].next # 0 PROVE new[o[i].next].prev = i
      <4>1. o[i].next \in R /\ o[o[i].next].prev = i
        BY <1>a, <1>0, <1>2, <2>0, <3>2, <3>4
      <4>2. o[i].next # after
        BY <1>a, <1>0, <1>2, <1>6, <2>0, <4>1
      <4> QED BY <1>a, <1>7, <4>1, <4>2
    <3> QED BY <3>1, <3>3, <3>4
  <2> QED BY <2>1, <2>2
<1>11. ASSUME NEW i \in R
       PROVE  /\ new[i].prev < i
              /\ i # head2 => new[i].prev \in R /\ new[new[i].prev].next = i
  <2>1. new[i].prev < i
    BY <1>a, <1>0, <1>2, <1>7
  <2>2. ASSUME i # head2, i = after PROVE new[i].prev \in R /\ new[new[i].prev].next = i
    <3>1. x # head
      BY <1>a, <2>2
    <3> QED BY <1>a, <1>0, <1>3, <1>7, <2>2, <3>1
  <2>3. ASSUME i # head2, i # after PROVE new[i].prev \in R /\ new[new[i].prev].next = i
    <3>1. new[i].prev = o[i].prev /\ i \in S /\ i # x
      BY <1>a, <1>0, <1>7, <2>3
    <3>2. i # head
      BY <1>a, <2>3, <3>1
    <3>3. o[i].prev \in S /\ o[o[i].prev].next = i
      BY <1>a, <1>2, <3>1, <3>2
    <3>4. o[i].prev \in R
      BY <1>a, <1>0, <2>3, <3>3
    <3>5. o[i].prev # before
      BY <1>a, <1>0, <1>3, <3>1, <3>3
    <3> QED BY <1>a, <1>7, <3>1, <3>3, <3>4, <3>5
  <2> QED BY <2>1, <2>2, <2>3
<1>12. Chain(new, R, head2, tail2)
  BY <1>8, <1>9, <1>10, <1>11 DEF Chain
<1> QED BY <1>12 DEF R

\* An order with the highest id joins a chain at its tail.
LEMMA ChainGains ==
    ASSUME NEW o, NEW S \in SUBSET OrderIds, NEW head, NEW tail, Chain(o, S, head, tail),
           NEW x \in OrderIds, \A i \in S : i < x,
           NEW new, new[x].next = 0, new[x].prev = tail,
           \A i \in S : new[i].prev = o[i].prev /\ new[i].next = IF i = tail THEN x ELSE o[i].next
    PROVE  Chain(new, S \cup {x}, IF tail = 0 THEN x ELSE head, x)
<1> DEFINE R == S \cup {x}
           head2 == IF tail = 0 THEN x ELSE head
<1>0. /\ \A i \in S : i \in Nat /\ i > 0 /\ i # x
      /\ \A i \in R : i \in S \/ i = x
      /\ \A i \in S : i \in R
      /\ x \in Nat /\ x > 0 /\ x \in R
  BY DEF OrderIds
<1>1. /\ tail = 0 => S = {}
      /\ S # {} => head \in S /\ tail \in S /\ tail # 0
      /\ \A j \in S : head <= j /\ j <= tail
      /\ tail # 0 => tail \in S
  <2>1. tail = 0 => S = {}
    BY DEF Chain, IsLast
  <2>2. tail # 0 => tail \in S /\ \A j \in S : j <= tail
    BY DEF Chain, IsLast
  <2>3. head = 0 => S = {}
    BY DEF Chain, IsFirst
  <2>4. head # 0 => head \in S /\ \A j \in S : head <= j
    BY DEF Chain, IsFirst
  <2> QED BY <2>1, <2>2, <2>3, <2>4
<1>2. ASSUME NEW i \in S
      PROVE  /\ o[i].next = 0 => \A j \in S : j <= i
             /\ o[i].next # 0 => /\ o[i].next \in S /\ o[i].next > i
                                 /\ \A j \in S : j > i => o[i].next <= j
                                 /\ o[o[i].next].prev = i
             /\ o[i].prev < i
             /\ i # head => o[i].prev \in S /\ o[o[i].prev].next = i
  BY <1>0 DEF Chain, IsNext
<1> HIDE DEF R
<1>3. IsFirst(R, head2)
  <2>1. CASE tail = 0
    BY <1>0, <1>1, <2>1 DEF IsFirst
  <2>2. CASE tail # 0
    <3>3. head2 = head /\ head \in S
      BY <1>1, <2>2
    <3>1. head \in S /\ head # 0 /\ head <= x /\ head2 = head
      <4>1. head \in Nat /\ head > 0 /\ head < x
        BY <1>0, <3>3
      <4> QED BY <1>0, <3>3, <4>1
    <3>2. \A j \in R : head <= j
      BY <1>0, <1>1, <3>1
    <3> QED BY <1>0, <3>1, <3>2 DEF IsFirst
  <2> QED BY <2>1, <2>2
<1>4. IsLast(R, x)
  BY <1>0 DEF IsLast
<1>5. ASSUME NEW i \in S
      PROVE  /\ IsNext(R, i, new[i].next)
             /\ new[i].next # 0 => new[new[i].next].prev = i
             /\ new[i].prev < i
             /\ i # head2 => new[i].prev \in R /\ new[new[i].prev].next = i
  <2>0. tail # 0 /\ head2 = head /\ i \in Nat /\ i < x /\ i # x
    BY <1>0, <1>1
  <2>1. ASSUME i = tail PROVE IsNext(R, i, new[i].next) /\ new[new[i].next].prev = i
    <3>1. new[i].next = x
      BY <2>1
    <3>2. \A j \in R : j > i => x <= j
      BY <1>0, <1>1, <2>0, <2>1
    <3>3. IsNext(R, i, x)
      BY <1>0, <2>0, <3>2 DEF IsNext
    <3> QED BY <2>1, <3>1, <3>3
  <2>2. ASSUME i # tail PROVE IsNext(R, i, new[i].next) /\ new[new[i].next].prev = i
    <3>1. o[i].next # 0
      <4>1. tail \in S /\ i <= tail /\ tail \in Nat
        BY <1>0, <1>1, <2>0
      <4>2. ~(tail <= i)
        BY <2>0, <2>2, <4>1
      <4> QED BY <1>2, <4>1, <4>2
    <3>2. new[i].next = o[i].next /\ new[o[i].next].prev = i
      BY <1>2, <2>2, <3>1
    <3>3. /\ o[i].next \in S /\ o[i].next > i /\ o[i].next \in Nat /\ o[i].next < x
          /\ \A j \in S : j > i => o[i].next <= j
      BY <1>0, <1>2, <3>1
    <3>4. ASSUME NEW j \in R, j > i PROVE o[i].next <= j
      <4>1. CASE j \in S
        BY <3>3, <3>4, <4>1
      <4>2. CASE j = x
        BY <1>0, <3>3, <4>2
      <4> QED BY <1>0, <4>1, <4>2
    <3>5. IsNext(R, i, o[i].next)
      BY <1>0, <3>1, <3>3, <3>4 DEF IsNext
    <3> QED BY <3>2, <3>5
  <2>3. new[i].prev < i
    BY <1>2
  <2>4. ASSUME i # head2 PROVE new[i].prev \in R /\ new[new[i].prev].next = i
    <3>1. o[i].prev \in S /\ o[o[i].prev].next = i /\ o[i].prev < i
      BY <1>2, <2>0, <2>4
    <3>2. i <= tail /\ tail \in Nat /\ o[i].prev \in Nat
      BY <1>0, <1>1, <2>0, <3>1
    <3>3. o[i].prev # tail
      BY <2>0, <3>1, <3>2
    <3> QED BY <1>0, <3>1, <3>3
  <2> QED BY <2>1, <2>2, <2>3, <2>4
<1>6. /\ IsNext(R, x, new[x].next)
      /\ new[x].next # 0 => new[new[x].next].prev = x
      /\ new[x].prev < x
      /\ x # head2 => new[x].prev \in R /\ new[new[x].prev].next = x
  <2>1. IsNext(R, x, 0)
    BY <1>0 DEF IsNext
  <2>2. tail < x
    BY <1>0, <1>1
  <2>3. ASSUME x # head2 PROVE tail \in R /\ new[tail].next = x
    BY <1>0, <1>1, <2>3
  <2> QED BY <2>1, <2>2, <2>3
<1> HIDE DEF head2
<1>7. Chain(new, R, head2, x)
  BY <1>0, <1>3, <1>4, <1>5, <1>6 DEF Chain
<1> QED BY <1>7 DEF R, head2

\* What the orders of a queue still want, together.
LEMMA OpenFacts ==
    ASSUME NEW o, NEW S \in SUBSET OrderIds, \A i \in S : Remaining(o[i]) \in Nat
    PROVE  /\ OpenTotal(o, S) \in Nat
           /\ S = {} => OpenTotal(o, S) = 0
           /\ \A x \in S : /\ OpenTotal(o, S) = Remaining(o[x]) + OpenTotal(o, S \ {x})
                           /\ OpenTotal(o, S \ {x}) \in Nat
           /\ \A new : (\A i \in S : Remaining(new[i]) = Remaining(o[i])) => OpenTotal(new, S) = OpenTotal(o, S)
<1> DEFINE f == [i \in S |-> Remaining(o[i])]
<1>1. IsFiniteSet(S)
  BY FiniteSets, FS_Subset
<1>2. ASSUME NEW T \in SUBSET S PROVE OpenTotal(o, T) = SumFunctionOnSet(f, T) /\ OpenTotal(o, T) \in Nat
  <2>1. IsFiniteSet(T)
    BY <1>1, FS_Subset
  <2> DEFINE g == [i \in T |-> Remaining(o[i])]
  <2>2. \A i \in T : g[i] = f[i] /\ g[i] \in Nat
    OBVIOUS
  <2>3. OpenTotal(o, T) = SumFunctionOnSet(g, T)
    BY DEF OpenTotal
  <2> HIDE DEF f, g
  <2>4. SumFunctionOnSet(g, T) = SumFunctionOnSet(f, T)
    BY <2>1, <2>2, SumSame
  <2>5. SumFunctionOnSet(g, T) \in Nat
    BY <2>1, <2>2, SumType
  <2> QED BY <2>3, <2>4, <2>5
<1>3. S = {} => OpenTotal(o, S) = 0
  <2>1. S = {} => SumFunctionOnSet(f, S) = 0
    <3> HIDE DEF f
    <3> QED BY <1>1, SumUnfold
  <2> QED BY <1>2, <2>1
<1>4. ASSUME NEW x \in S
      PROVE  /\ OpenTotal(o, S) = Remaining(o[x]) + OpenTotal(o, S \ {x})
             /\ OpenTotal(o, S \ {x}) \in Nat
  <2>1. f[x] = Remaining(o[x]) /\ \A i \in S : f[i] \in Int
    OBVIOUS
  <2> HIDE DEF f
  <2>2. SumFunctionOnSet(f, S) = f[x] + SumFunctionOnSet(f, S \ {x})
    BY <1>1, <2>1, SumSplit
  <2>3. S \in SUBSET S /\ S \ {x} \in SUBSET S
    OBVIOUS
  <2> QED BY <1>2, <2>1, <2>2, <2>3
<1>5. ASSUME NEW new, \A i \in S : Remaining(new[i]) = Remaining(o[i])
      PROVE  OpenTotal(new, S) = OpenTotal(o, S)
  <2> DEFINE g == [i \in S |-> Remaining(new[i])]
  <2>1. \A i \in S : g[i] = f[i]
    BY <1>5
  <2>2. OpenTotal(new, S) = SumFunctionOnSet(g, S) /\ OpenTotal(o, S) = SumFunctionOnSet(f, S)
    BY DEF OpenTotal
  <2> HIDE DEF f, g
  <2> QED BY <1>1, <2>1, <2>2, SumSame
<1>6. OpenTotal(o, S) \in Nat
  BY <1>2
<1> QED BY <1>3, <1>4, <1>5, <1>6

\* What a well-formed level says of its head and of what it has open.
LEMMA QueueFacts ==
    ASSUME NEW o, NEW s, NEW p, NEW level, Queued(o, s, p, level)
    PROVE  /\ level.head = 0 <=> QueueOf(o, s, p) = {}
           /\ level.head # 0 => level.head \in QueueOf(o, s, p)
           /\ \A i \in QueueOf(o, s, p) :
                 /\ level.head <= i /\ i \in OrderIds /\ i \in Nat /\ i # 0
                 /\ Remaining(o[i]) \in Nat /\ Remaining(o[i]) > 0 /\ Remaining(o[i]) <= level.totalOpen
           /\ level.totalOpen \in Nat
<1> DEFINE S == QueueOf(o, s, p)
<1>1. /\ Chain(o, S, level.head, level.tail) /\ level.totalOpen = OpenTotal(o, S)
      /\ \A i \in S : Remaining(o[i]) \in Nat \ {0}
  BY DEF Queued
<1>2. S \in SUBSET OrderIds /\ \A i \in S : i \in Nat /\ i # 0
  BY DEF QueueOf, OrderIds
<1> HIDE DEF S
<1>3. IsFirst(S, level.head) /\ 0 \notin S
  BY <1>1, <1>2 DEF Chain
<1>4. /\ OpenTotal(o, S) \in Nat
      /\ \A i \in S : /\ OpenTotal(o, S) = Remaining(o[i]) + OpenTotal(o, S \ {i})
                      /\ OpenTotal(o, S \ {i}) \in Nat
  BY <1>1, <1>2, OpenFacts
<1>5. ASSUME NEW i \in S
      PROVE  Remaining(o[i]) \in Nat /\ Remaining(o[i]) > 0 /\ Remaining(o[i]) <= level.totalOpen
  <2> DEFINE a == Remaining(o[i])
             c == OpenTotal(o, S \ {i})
  <2>1. a \in Nat \ {0} /\ c \in Nat /\ level.totalOpen = a + c
    BY <1>1, <1>4
  <2> HIDE DEF a, c
  <2>2. a \in Nat /\ a > 0 /\ a <= level.totalOpen
    BY <2>1
  <2> QED BY <2>2 DEF a
<1>6. /\ level.head = 0 <=> S = {}
      /\ level.head # 0 => level.head \in S
      /\ \A i \in S : level.head <= i
  BY <1>3 DEF IsFirst
<1> QED BY <1>1, <1>2, <1>4, <1>5, <1>6 DEF S

\* A level follows its own orders only.
LEMMA QueuedSame ==
    ASSUME NEW o, NEW s, NEW p, NEW level, Queued(o, s, p, level),
           NEW new, QueueOf(new, s, p) = QueueOf(o, s, p),
           \A i \in QueueOf(o, s, p) : /\ new[i].next = o[i].next /\ new[i].prev = o[i].prev
                                       /\ new[i].amount = o[i].amount /\ new[i].filled = o[i].filled
    PROVE  Queued(new, s, p, level)
<1> DEFINE S == QueueOf(o, s, p)
<1>1. /\ Chain(o, S, level.head, level.tail) /\ level.totalOpen = OpenTotal(o, S)
      /\ \A i \in S : Remaining(o[i]) \in Nat \ {0}
  BY DEF Queued
<1>2. S \in SUBSET OrderIds
  BY DEF QueueOf
<1>3. \A i \in S : /\ new[i].next = o[i].next /\ new[i].prev = o[i].prev
                   /\ Remaining(new[i]) = Remaining(o[i])
  BY DEF Remaining
<1>4. QueueOf(new, s, p) = S
  OBVIOUS
<1> HIDE DEF S
<1>5. Chain(new, S, level.head, level.tail)
  BY <1>1, <1>2, <1>3, ChainSame
<1>6. OpenTotal(new, S) = OpenTotal(o, S)
  BY <1>1, <1>2, <1>3, OpenFacts
<1> QED BY <1>1, <1>3, <1>4, <1>5, <1>6 DEF Queued

\* The best price of side s is no better in c than in b, and the other is the same.
Away(b, c, s) ==
    /\ c.best[s] = b.best[s] \/ Better(s, b.best[s], c.best[s])
    /\ \A t \in BookSides : t # s => c.best[t] = b.best[t]

\* Moving away goes on.
LEMMA AwayAgain ==
    ASSUME NEW b, NEW c, NEW e, NEW s \in BookSides, Away(b, c, s), Away(c, e, s),
           b.best[s] \in Int, c.best[s] \in Int, e.best[s] \in Int
    PROVE  Away(b, e, s)
<1>1. e.best[s] = b.best[s] \/ Better(s, b.best[s], e.best[s])
  BY DEF Away, Better
<1> QED BY <1>1 DEF Away

\* _deactivatePrice moves the best price of its side away.
LEMMA DeactivateAway ==
    ASSUME NEW b, NEW n \in Nat, Good(b, n), NEW s \in BookSides, NEW p \in Prices
    PROVE  Away(b, DeactivatePrice(b, s, p), s)
<1> DEFINE c == DeactivatePrice(b, s, p)
           left == b.bitmap[s] \ {p}
<1>1. Deactivated(b, s, p, c) /\ b \in BookType
  BY DeactivateWrites DEF Good
<1> HIDE DEF c
<1>2. /\ b.bitmap[s] \subseteq Prices /\ b.best \in [BookSides -> Int]
      /\ c.best = [b.best EXCEPT ![s] = IF @ = p THEN BestOf(s, left) ELSE @]
  BY <1>1 DEF Deactivated, BookType
<1>3. \A t \in BookSides : t # s => c.best[t] = b.best[t]
  BY <1>2
<1>4. c.best[s] = IF b.best[s] = p THEN BestOf(s, left) ELSE b.best[s]
  BY <1>2
<1>5. IndexOK(b.levels[s], b.bitmap[s], b.best[s], s)
  BY DEF Good, IndexesOK
<1>6. ASSUME b.best[s] = p PROVE Better(s, p, c.best[s])
  <2>1. CASE left = {}
    <3>1. c.best[s] = NoBest(s)
      BY <1>4, <1>6, <2>1 DEF BestOf
    <3> QED BY <3>1, PricesAreTicks DEF Better, NoBest, BookSides
  <2>2. CASE left # {}
    <3>1. c.best[s] \in left
      <4>1. left \subseteq Prices
        BY <1>2
      <4> HIDE DEF left
      <4> QED BY <1>4, <1>6, <2>2, <4>1, BestIsBest
    <3>2. c.best[s] \in Prices /\ c.best[s] # p /\ c.best[s] \in b.bitmap[s]
      BY <1>2, <3>1
    <3>3. ~Better(s, c.best[s], p)
      BY <1>5, <1>6, <3>2 DEF IndexOK
    <3> QED BY <3>2, <3>3, PricesAreTicks DEF Better, BookSides
  <2> QED BY <2>1, <2>2
<1> QED BY <1>3, <1>4, <1>6 DEF Away, c

\* c is b after _popHead, to the letter.
PoppedOff(b, s, p, c) ==
    LET h == b.levels[s][p].head
        k == b.orders[h].next
    IN  /\ c.orders = [b.orders EXCEPT ![h] = Gone(@)]
        /\ c.levels = [b.levels EXCEPT ![s][p] = IF k = 0 THEN EmptyLevel ELSE [@ EXCEPT !.head = k]]
        /\ Away(b, c, s)

\* _popHead writes the head, its level and the index.
LEMMA PopHeadWrites ==
    ASSUME NEW b, NEW n \in Nat, Good(b, n), NEW s \in BookSides, NEW p \in Prices,
           b.levels[s][p].head # 0
    PROVE  PoppedOff(b, s, p, PopHead(b, s, p))
<1> DEFINE h == b.levels[s][p].head
           k == b.orders[h].next
           new == [b.orders EXCEPT ![h] = Gone(@)]
           gone == [b EXCEPT !.orders = new]
           c == PopHead(b, s, p)
<1>1. Popped(b, n, s, p, c)
  BY PopHeadGood
<1>2. c.orders = new
  BY <1>1 DEF Popped
<1>3. /\ h \in OrderIds /\ b \in BookType /\ b.orders \in [OrderIds -> OrderType]
      /\ b.levels \in [BookSides -> [Prices -> LevelType]]
  BY LevelFacts DEF Good, BookType
<1>4. new \in [OrderIds -> OrderType]
  BY <1>1, <1>2, Zenon DEF Popped, Good, BookType
<1>5. /\ gone \in BookType /\ gone.orders = new /\ gone.levels = b.levels /\ gone.bitmap = b.bitmap
      /\ gone.best = b.best
  BY <1>3, <1>4, Zenon DEF BookType
<1>6. gone = [b EXCEPT !.orders[h] = [@ EXCEPT !.active = FALSE, !.prev = 0, !.next = 0]]
  BY DEF Gone
<1>7. c = IF k = 0 THEN DeactivatePrice(gone, s, p) ELSE [gone EXCEPT !.levels[s][p].head = k]
  BY <1>6 DEF PopHead
<1> HIDE DEF c, gone, new
<1>8. CASE k = 0
  <2>1. Deactivated(gone, s, p, c)
    BY <1>5, <1>7, <1>8, DeactivateWrites
  <2>2. Deactivated(b, s, p, DeactivatePrice(b, s, p)) /\ Away(b, DeactivatePrice(b, s, p), s)
    BY <1>3, DeactivateWrites, DeactivateAway
  <2>3. c.best = DeactivatePrice(b, s, p).best /\ c.levels = [b.levels EXCEPT ![s][p] = EmptyLevel]
    BY <1>5, <2>1, <2>2 DEF Deactivated
  <2>4. Away(b, c, s)
    BY <2>2, <2>3 DEF Away
  <2> QED BY <1>2, <1>8, <2>3, <2>4 DEF PoppedOff, c, new
<1>9. CASE k # 0
  <2>1. /\ c.best = b.best
        /\ c.levels = [b.levels EXCEPT ![s][p].head = k]
    BY <1>3, <1>5, <1>7, <1>9 DEF BookType
  <2>2. Away(b, c, s)
    BY <2>1 DEF Away
  <2> QED BY <1>2, <1>9, <2>1, <2>2 DEF PoppedOff, c, new
<1> QED BY <1>8, <1>9

\* A queue without one of its orders, its neighbours linked to each other: when
\* no order is left, what the level should say is what an empty level says.
LEMMA QueueLoses ==
    ASSUME NEW o, NEW s, NEW p, NEW level, Queued(o, s, p, level),
           NEW x \in QueueOf(o, s, p), NEW new, NEW rest,
           QueueOf(new, s, p) = QueueOf(o, s, p) \ {x},
           CutOut(o, new, QueueOf(o, s, p), x, level.head, level.tail, rest.head, rest.tail),
           \A i \in QueueOf(o, s, p) \ {x} : new[i].amount = o[i].amount /\ new[i].filled = o[i].filled,
           rest.totalOpen = level.totalOpen - Remaining(o[x])
    PROVE  /\ Queued(new, s, p, rest)
           /\ rest.head = 0 \/ rest.totalOpen = 0 => Queued(new, s, p, EmptyLevel)
<1> DEFINE S == QueueOf(o, s, p)
           R == S \ {x}
<1>1. /\ Chain(o, S, level.head, level.tail) /\ level.totalOpen = OpenTotal(o, S)
      /\ \A i \in S : Remaining(o[i]) \in Nat \ {0}
  BY DEF Queued
<1>2. S \in SUBSET OrderIds /\ R \in SUBSET OrderIds /\ x \in S /\ \A i \in R : i \in S
  BY DEF QueueOf
<1>3. \A i \in R : Remaining(new[i]) = Remaining(o[i])
  BY DEF Remaining
<1>4. QueueOf(new, s, p) = R
  OBVIOUS
<1>5. Chain(new, R, rest.head, rest.tail)
  <2>1. CutOut(o, new, S, x, level.head, level.tail, rest.head, rest.tail)
    OBVIOUS
  <2> HIDE DEF S
  <2> QED BY <1>1, <1>2, <2>1, ChainLoses
<1>6. OpenTotal(o, S) = Remaining(o[x]) + OpenTotal(o, R) /\ OpenTotal(o, R) \in Nat
  <2> HIDE DEF S
  <2> QED BY <1>1, <1>2, OpenFacts
<1>7. OpenTotal(new, R) = OpenTotal(o, R) /\ \A i \in R : Remaining(new[i]) \in Nat \ {0}
  <2> HIDE DEF R
  <2> QED BY <1>1, <1>2, <1>3, OpenFacts
<1>8. rest.totalOpen = OpenTotal(new, R)
  <2>1. Remaining(o[x]) \in Nat
    BY <1>1, <1>2
  <2> HIDE DEF R, S
  <2> QED BY <1>1, <1>6, <1>7, <2>1
<1> HIDE DEF R, S
<1>9. Queued(new, s, p, rest)
  BY <1>4, <1>5, <1>7, <1>8 DEF Queued
<1>10. ASSUME rest.head = 0 \/ rest.totalOpen = 0 PROVE Queued(new, s, p, EmptyLevel)
  <2>1. R = {}
    <3>1. CASE rest.head = 0
      BY <1>5, <3>1 DEF Chain, IsFirst
    <3>2. CASE rest.totalOpen = 0
      <4>1. \A i \in R : Remaining(new[i]) > 0 /\ Remaining(new[i]) <= 0
        BY <1>4, <1>9, <3>2, QueueFacts
      <4>2. \A i \in R : Remaining(new[i]) \in Nat
        BY <1>7
      <4> QED BY <4>1, <4>2
    <3> QED BY <1>10, <3>1, <3>2
  <2>2. Chain(new, R, 0, 0)
    BY <2>1 DEF Chain, IsFirst, IsLast
  <2>3. OpenTotal(new, R) = 0
    BY <1>2, <2>1, OpenFacts
  <2> QED BY <1>4, <1>7, <2>2, <2>3 DEF Queued, EmptyLevel
<1> QED BY <1>9, <1>10

\* A queue with one order more at its tail.
LEMMA QueueGains ==
    ASSUME NEW o, NEW s, NEW p, NEW level, Queued(o, s, p, level),
           NEW x \in OrderIds, \A i \in QueueOf(o, s, p) : i < x,
           NEW new, QueueOf(new, s, p) = QueueOf(o, s, p) \cup {x},
           new[x].next = 0, new[x].prev = level.tail, Remaining(new[x]) \in Nat \ {0},
           \A i \in QueueOf(o, s, p) :
               /\ new[i].prev = o[i].prev /\ new[i].next = IF i = level.tail THEN x ELSE o[i].next
               /\ new[i].amount = o[i].amount /\ new[i].filled = o[i].filled,
           NEW rest, rest.head = (IF level.tail = 0 THEN x ELSE level.head), rest.tail = x,
           rest.totalOpen = level.totalOpen + Remaining(new[x])
    PROVE  Queued(new, s, p, rest)
<1> DEFINE S == QueueOf(o, s, p)
           R == S \cup {x}
<1>1. /\ Chain(o, S, level.head, level.tail) /\ level.totalOpen = OpenTotal(o, S)
      /\ \A i \in S : Remaining(o[i]) \in Nat \ {0}
  BY DEF Queued
<1>2. S \in SUBSET OrderIds /\ R \in SUBSET OrderIds /\ x \in R /\ R \ {x} = S
  <2>1. S \in SUBSET OrderIds /\ \A i \in S : i \in Nat /\ i < x
    BY DEF QueueOf, OrderIds
  <2>2. x \notin S /\ x \in Nat
    BY <2>1 DEF OrderIds
  <2> HIDE DEF S
  <2> QED BY <2>1, <2>2
<1>3. \A i \in S : Remaining(new[i]) = Remaining(o[i])
  BY DEF Remaining
<1>4. QueueOf(new, s, p) = R
  OBVIOUS
<1>5. \A i \in S : i < x /\ new[i].prev = o[i].prev /\ new[i].next = IF i = level.tail THEN x ELSE o[i].next
  OBVIOUS
<1> HIDE DEF S
<1>6. Chain(new, R, rest.head, rest.tail)
  <2>1. new[x].next = 0 /\ new[x].prev = level.tail /\ x \in OrderIds
    OBVIOUS
  <2>2. Chain(o, S, level.head, level.tail) /\ S \in SUBSET OrderIds
    BY <1>1, <1>2
  <2>3. Chain(new, S \cup {x}, IF level.tail = 0 THEN x ELSE level.head, x)
    BY ONLY <1>5, <2>1, <2>2, ChainGains
  <2> QED BY <2>3
<1>7. \A i \in R : Remaining(new[i]) \in Nat \ {0}
  BY <1>1, <1>3
<1> HIDE DEF R
<1>8. OpenTotal(new, R) = Remaining(new[x]) + OpenTotal(new, S) /\ OpenTotal(new, S) = OpenTotal(o, S)
      /\ OpenTotal(o, S) \in Nat
  BY <1>1, <1>2, <1>3, <1>7, OpenFacts
<1>9. rest.totalOpen = OpenTotal(new, R)
  BY <1>1, <1>8
<1> QED BY <1>4, <1>6, <1>7, <1>9 DEF Queued

\* The order belongs at price p of side s.
At(order, s, p) == order.side = s /\ order.price = p

\* A call that writes one level leaves the other queues alone.
LEMMA OneLevel ==
    ASSUME NEW b, WellQueued(b), NEW s \in BookSides, NEW p \in Prices, NEW c,
           \A i \in OrderIds :
               \/ c.orders[i] = b.orders[i]
               \/ At(c.orders[i], s, p) /\ (At(b.orders[i], s, p) \/ ~b.orders[i].active),
           \A t \in BookSides, q \in Prices : t # s \/ q # p => c.levels[t][q] = b.levels[t][q],
           Queued(c.orders, s, p, c.levels[s][p])
    PROVE  WellQueued(c)
<1>1. ASSUME NEW t \in BookSides, NEW q \in Prices, t # s \/ q # p
      PROVE  Queued(c.orders, t, q, c.levels[t][q])
  <2>1. Queued(b.orders, t, q, b.levels[t][q])
    BY DEF WellQueued
  <2>2. ASSUME NEW i \in OrderIds
        PROVE  /\ (c.orders[i].active /\ At(c.orders[i], t, q)) <=> (b.orders[i].active /\ At(b.orders[i], t, q))
               /\ b.orders[i].active /\ At(b.orders[i], t, q) => c.orders[i] = b.orders[i]
    BY <1>1 DEF At
  <2>3. QueueOf(c.orders, t, q) = QueueOf(b.orders, t, q)
    BY <2>2 DEF QueueOf, At
  <2>4. \A i \in QueueOf(b.orders, t, q) : c.orders[i] = b.orders[i]
    BY <2>2 DEF QueueOf, At
  <2>5. Queued(c.orders, t, q, b.levels[t][q])
    BY <2>1, <2>3, <2>4, QueuedSame
  <2> QED BY <1>1, <2>5
<1> QED BY <1>1 DEF WellQueued

\* The order keeps everything but what is filled of it.
SameTerms(x, y) == x.side = y.side /\ x.price = y.price /\ x.maker = y.maker /\ x.amount = y.amount

\* e is b after `fill` was filled of order h of side s, which leaves if it is done.
HeadFilled(b, s, h, fill, e) ==
    /\ \A i \in OrderIds : i # h => e.orders[i] = b.orders[i]
    /\ SameTerms(e.orders[h], b.orders[h])
    /\ e.orders[h].filled = b.orders[h].filled + fill
    /\ e.orders[h].active <=> Remaining(e.orders[h]) # 0
    /\ WellQueued(e) /\ Away(b, e, s)

\* f is b after `fill` was filled of the head h at price p of side s, field by field.
FilledAt(b, s, p, h, fill, f) ==
    /\ \A i \in OrderIds : i # h => f.orders[i] = b.orders[i]
    /\ SameTerms(f.orders[h], b.orders[h])
    /\ f.orders[h].active
    /\ f.orders[h].prev = b.orders[h].prev /\ f.orders[h].next = b.orders[h].next
    /\ f.orders[h].filled = b.orders[h].filled + fill
    /\ Remaining(f.orders[h]) = Remaining(b.orders[h]) - fill
    /\ \A t \in BookSides, q \in Prices : t # s \/ q # p => f.levels[t][q] = b.levels[t][q]
    /\ f.levels[s][p].head = h /\ f.levels[s][p].tail = b.levels[s][p].tail
    /\ f.levels[s][p].totalOpen = b.levels[s][p].totalOpen - fill
    /\ f.best = b.best

\* The head of a queue is one of its open orders.
HeadOf(b, s, p, h) ==
    /\ h = b.levels[s][p].head /\ h # 0 /\ h \in OrderIds /\ h \in QueueOf(b.orders, s, p)
    /\ b.orders[h] \in OrderType /\ b.orders[h].active /\ At(b.orders[h], s, p)
    /\ Remaining(b.orders[h]) \in Nat \ {0} /\ Remaining(b.orders[h]) <= b.levels[s][p].totalOpen

\* The head of a level that has one is an open order of that level.
LEMMA HeadFacts ==
    ASSUME NEW b, NEW n \in Nat, Good(b, n), WellQueued(b), NEW s \in BookSides, NEW p \in Prices,
           NEW h, h = b.levels[s][p].head, h # 0
    PROVE  HeadOf(b, s, p, h)
<1>1. b.orders \in [OrderIds -> OrderType]
  BY DEF Good, BookType
<1>2. Queued(b.orders, s, p, b.levels[s][p])
  BY DEF WellQueued
<1>3. /\ h \in QueueOf(b.orders, s, p) /\ h \in OrderIds
      /\ Remaining(b.orders[h]) \in Nat /\ Remaining(b.orders[h]) > 0
      /\ Remaining(b.orders[h]) <= b.levels[s][p].totalOpen
  BY <1>2, QueueFacts
<1>4. b.orders[h].active /\ At(b.orders[h], s, p)
  BY <1>3 DEF QueueOf, At
<1>5. b.orders[h] \in OrderType /\ Remaining(b.orders[h]) \in Nat \ {0}
  BY <1>1, <1>3
<1> QED BY <1>3, <1>4, <1>5, Zenon DEF HeadOf

\* What a fill writes, field by field.
LEMMA FilledFields ==
    ASSUME NEW b \in BookType, NEW side \in BookSides, NEW s \in BookSides, s = Opposite(side),
           NEW p \in Prices, NEW h, HeadOf(b, s, p, h), NEW taker, NEW fill \in Nat,
           NEW f, f = FilledBook(b, taker, side, p, h, fill)
    PROVE  FilledAt(b, s, p, h, fill, f)
<1>1. /\ h \in OrderIds /\ b.orders[h] \in OrderType /\ b.orders[h].active /\ h = b.levels[s][p].head
  BY DEF HeadOf
<1>2. /\ f.orders = [b.orders EXCEPT ![h].filled = @ + fill]
      /\ f.levels = [b.levels EXCEPT ![s][p].totalOpen = @ - fill]
      /\ f.best = b.best
  <2>1. /\ f.orders = [b.orders EXCEPT ![h].filled = @ + fill]
        /\ f.levels = [b.levels EXCEPT ![Opposite(side)][p].totalOpen = @ - fill]
        /\ f.best = b.best
    BY <1>1, Zenon DEF FilledBook, BookType
  <2> QED BY <2>1
<1>3. b.orders \in [OrderIds -> OrderType] /\ b.levels \in [BookSides -> [Prices -> LevelType]]
  BY DEF BookType
<1> DEFINE x == [b.orders[h] EXCEPT !.filled = @ + fill]
           level == [b.levels[s][p] EXCEPT !.totalOpen = @ - fill]
<1>4. /\ f.orders[h] = x /\ \A i \in OrderIds : i # h => f.orders[i] = b.orders[i]
  BY <1>1, <1>2, <1>3, Zenon
<1>5. /\ x.side = b.orders[h].side /\ x.price = b.orders[h].price /\ x.maker = b.orders[h].maker
      /\ x.amount = b.orders[h].amount /\ x.active /\ x.prev = b.orders[h].prev /\ x.next = b.orders[h].next
      /\ x.filled = b.orders[h].filled + fill
      /\ x.amount \in Nat /\ b.orders[h].filled \in Nat
  BY <1>1 DEF OrderType
<1>6. /\ f.levels[s][p] = level
      /\ \A t \in BookSides, q \in Prices : t # s \/ q # p => f.levels[t][q] = b.levels[t][q]
  BY <1>2, <1>3
<1>7. level.head = h /\ level.tail = b.levels[s][p].tail /\ level.totalOpen = b.levels[s][p].totalOpen - fill
  <2>1. b.levels[s][p] \in LevelType
    BY <1>3
  <2> QED BY <1>1, <2>1 DEF LevelType
<1> HIDE DEF x, level
<1>8. Remaining(x) = Remaining(b.orders[h]) - fill
  <2> DEFINE y == b.orders[h].filled
             a == x.amount
  <2>1. Remaining(x) = a - (y + fill) /\ Remaining(b.orders[h]) = a - y /\ a \in Nat /\ y \in Nat
    BY <1>5 DEF Remaining
  <2> HIDE DEF a, y
  <2> QED BY <2>1
<1> QED BY <1>2, <1>4, <1>5, <1>6, <1>7, <1>8, Zenon DEF FilledAt, SameTerms

\* A head filled in part stays the head of its queue.
LEMMA PartialFill ==
    ASSUME NEW b, WellQueued(b), NEW s \in BookSides, NEW p \in Prices, NEW h, HeadOf(b, s, p, h),
           NEW fill \in Nat, fill < Remaining(b.orders[h]),
           NEW f, FilledAt(b, s, p, h, fill, f)
    PROVE  HeadFilled(b, s, h, fill, f) /\ Remaining(f.orders[h]) # 0
<1> DEFINE o == b.orders
           new == f.orders
           level == b.levels[s][p]
           rest == f.levels[s][p]
           S == QueueOf(o, s, p)
<1>1. Queued(o, s, p, level)
  BY DEF WellQueued
<1>2. /\ h \in S /\ h \in OrderIds /\ Remaining(o[h]) \in Nat \ {0} /\ o[h].active /\ At(o[h], s, p)
      /\ h = level.head
  BY DEF HeadOf
<1>3. /\ \A i \in OrderIds : i # h => new[i] = o[i]
      /\ SameTerms(new[h], o[h])
      /\ new[h].active /\ new[h].prev = o[h].prev /\ new[h].next = o[h].next
      /\ new[h].filled = o[h].filled + fill
      /\ Remaining(new[h]) = Remaining(o[h]) - fill
      /\ \A t \in BookSides, q \in Prices : t # s \/ q # p => f.levels[t][q] = b.levels[t][q]
      /\ rest.head = level.head /\ rest.tail = level.tail
      /\ rest.totalOpen = level.totalOpen - fill
      /\ f.best = b.best
  BY <1>2, Zenon DEF FilledAt
<1>4. At(new[h], s, p)
  BY <1>2, <1>3, Zenon DEF At, SameTerms
<1>5. QueueOf(new, s, p) = S
  BY <1>2, <1>3, <1>4, Zenon DEF QueueOf, At
<1>6. /\ Chain(o, S, level.head, level.tail) /\ level.totalOpen = OpenTotal(o, S)
      /\ \A i \in S : Remaining(o[i]) \in Nat \ {0}
  BY <1>1 DEF Queued
<1>7. S \in SUBSET OrderIds
  BY DEF QueueOf
<1> HIDE DEF S
<1>8. \A i \in S : new[i].next = o[i].next /\ new[i].prev = o[i].prev
  BY <1>3, <1>7
<1>9. Remaining(new[h]) \in Nat \ {0} /\ Remaining(new[h]) = Remaining(o[h]) - fill
  <2> DEFINE r == Remaining(o[h])
             q == Remaining(new[h])
  <2>1. r \in Nat \ {0} /\ fill < r /\ q = r - fill
    BY <1>2, <1>3, Zenon
  <2> HIDE DEF r, q
  <2>2. q \in Nat \ {0} /\ q = r - fill
    BY <2>1
  <2> QED BY ONLY <2>2 DEF q, r
<1>10. \A i \in S : Remaining(new[i]) \in Nat \ {0}
  BY <1>3, <1>6, <1>7, <1>9
<1>11. Chain(new, S, rest.head, rest.tail)
  BY <1>3, <1>6, <1>7, <1>8, ChainSame
<1>12. rest.totalOpen = OpenTotal(new, S)
  <2>1. OpenTotal(o, S) = Remaining(o[h]) + OpenTotal(o, S \ {h}) /\ OpenTotal(o, S \ {h}) \in Nat
    BY <1>2, <1>6, <1>7, OpenFacts
  <2>2. OpenTotal(new, S) = Remaining(new[h]) + OpenTotal(new, S \ {h})
    BY <1>2, <1>7, <1>10, OpenFacts
  <2>3. OpenTotal(new, S \ {h}) = OpenTotal(o, S \ {h})
    <3>1. S \ {h} \in SUBSET OrderIds /\ \A i \in S \ {h} : Remaining(o[i]) \in Nat /\ Remaining(new[i]) = Remaining(o[i])
      BY <1>3, <1>6, <1>7
    <3> QED BY <3>1, OpenFacts
  <2> DEFINE r == Remaining(o[h])
             w == OpenTotal(o, S \ {h})
  <2>4. /\ OpenTotal(new, S) = (r - fill) + w /\ rest.totalOpen = (r + w) - fill
        /\ r \in Nat /\ w \in Nat
    BY <1>2, <1>3, <1>6, <1>9, <2>1, <2>2, <2>3, Zenon
  <2> HIDE DEF r, w
  <2> QED BY <2>4
<1>13. Queued(new, s, p, rest)
  BY <1>5, <1>10, <1>11, <1>12 DEF Queued
<1>14. WellQueued(f)
  <2>1. \A i \in OrderIds : \/ f.orders[i] = b.orders[i]
                            \/ At(f.orders[i], s, p) /\ (At(b.orders[i], s, p) \/ ~b.orders[i].active)
    BY <1>2, <1>3, <1>4, Zenon
  <2> QED BY <1>3, <1>13, <2>1, OneLevel
<1>15. Away(b, f, s)
  BY <1>3 DEF Away
<1>16. f.orders[h].active <=> Remaining(f.orders[h]) # 0
  BY <1>3, <1>9
<1> QED BY <1>3, <1>9, <1>14, <1>15, <1>16 DEF HeadFilled

\* A head filled to the end leaves its queue.
LEMMA LastFill ==
    ASSUME NEW b, WellQueued(b), NEW s \in BookSides, NEW p \in Prices, NEW h, HeadOf(b, s, p, h),
           NEW fill, fill = Remaining(b.orders[h]),
           NEW f, FilledAt(b, s, p, h, fill, f), NEW n \in Nat, Good(f, n)
    PROVE  HeadFilled(b, s, h, fill, PopHead(f, s, p)) /\ Remaining(f.orders[h]) = 0
<1> DEFINE o == b.orders
           level == b.levels[s][p]
           left == f.levels[s][p]
           S == QueueOf(o, s, p)
           k == f.orders[h].next
           rest == [head |-> k, tail |-> IF k = 0 THEN 0 ELSE level.tail, totalOpen |-> level.totalOpen - fill]
           e == PopHead(f, s, p)
           new == e.orders
<1>1. Queued(o, s, p, level)
  BY DEF WellQueued
<1>2. /\ h \in S /\ h \in OrderIds /\ Remaining(o[h]) \in Nat \ {0} /\ o[h].active /\ At(o[h], s, p)
      /\ h = level.head /\ h # 0
  BY Zenon DEF HeadOf
<1>3. /\ \A i \in OrderIds : i # h => f.orders[i] = o[i]
      /\ SameTerms(f.orders[h], o[h])
      /\ k = o[h].next
      /\ f.orders[h].filled = o[h].filled + fill
      /\ Remaining(f.orders[h]) = 0
      /\ \A t \in BookSides, q \in Prices : t # s \/ q # p => f.levels[t][q] = b.levels[t][q]
      /\ left.head = h /\ left.tail = level.tail
      /\ left.totalOpen = level.totalOpen - fill
      /\ f.best = b.best
  <2>1. Remaining(f.orders[h]) = Remaining(o[h]) - Remaining(o[h])
    BY <1>2, Zenon DEF FilledAt
  <2>2. \A r \in Nat : r - r = 0
    OBVIOUS
  <2>3. Remaining(f.orders[h]) = 0
    BY <1>2, <2>1, <2>2, Zenon
  <2> QED BY <2>3 DEF FilledAt
<1>4. /\ f \in BookType /\ f.orders \in [OrderIds -> OrderType] /\ f.orders[h] \in OrderType
      /\ f.levels \in [BookSides -> [Prices -> LevelType]] /\ left \in LevelType
  BY <1>2, Zenon DEF Good, BookType
<1>5. PoppedOff(f, s, p, e)
  BY <1>2, <1>3, PopHeadWrites, Zenon
<1> HIDE DEF e
<1>6. /\ new = [f.orders EXCEPT ![h] = Gone(@)]
      /\ e.levels = [f.levels EXCEPT ![s][p] = IF k = 0 THEN EmptyLevel ELSE [@ EXCEPT !.head = k]]
      /\ Away(f, e, s)
  BY <1>3, <1>5 DEF PoppedOff
<1>7. new[h] = Gone(f.orders[h]) /\ \A i \in OrderIds : i # h => new[i] = o[i]
  <2>1. /\ new = [f.orders EXCEPT ![h] = Gone(@)] /\ f.orders \in [OrderIds -> OrderType]
        /\ h \in OrderIds
    BY <1>2, <1>4, <1>6, Zenon
  <2>2. new[h] = Gone(f.orders[h]) /\ \A i \in OrderIds : i # h => new[i] = f.orders[i]
    <3> HIDE DEF new
    <3> QED BY ONLY <2>1
  <2> HIDE DEF new
  <2> QED BY <1>3, <2>2
<1>8. /\ \A t \in BookSides, q \in Prices : t # s \/ q # p => e.levels[t][q] = b.levels[t][q]
      /\ e.levels[s][p] = IF k = 0 THEN EmptyLevel ELSE [left EXCEPT !.head = k]
  BY <1>3, <1>4, <1>6
<1> HIDE DEF new, k
<1>9. /\ SameTerms(new[h], o[h]) /\ new[h].filled = o[h].filled + fill
      /\ ~new[h].active /\ At(new[h], s, p) /\ Remaining(new[h]) = 0
  <2>1. /\ SameTerms(new[h], f.orders[h]) /\ new[h].filled = f.orders[h].filled /\ ~new[h].active
        /\ Remaining(new[h]) = Remaining(f.orders[h])
    BY <1>4, <1>7 DEF Gone, OrderType, SameTerms, Remaining
  <2> QED BY <1>2, <1>3, <2>1, Zenon DEF SameTerms, At
<1>10. QueueOf(new, s, p) = S \ {h}
  BY <1>7, <1>9 DEF QueueOf
<1>11. Queued(new, s, p, rest) /\ (rest.head = 0 => Queued(new, s, p, EmptyLevel))
  <2>1. /\ Chain(o, S, level.head, level.tail) /\ S \in SUBSET OrderIds
    BY <1>1 DEF Queued, QueueOf
  <2> HIDE DEF S, o, level
  <2>2. \A i \in S \ {h} : new[i] = o[i] /\ i # 0 /\ o[i].prev < i
    BY <1>7, <2>1 DEF Chain, OrderIds
  <2>3. CutOut(o, new, S, h, level.head, level.tail, rest.head, rest.tail)
    BY <1>2, <1>3, <2>2 DEF CutOut
  <2>4. rest.totalOpen = level.totalOpen - Remaining(o[h])
    BY DEF o
  <2>5. \A i \in S \ {h} : new[i].amount = o[i].amount /\ new[i].filled = o[i].filled
    BY <2>2
  <2> HIDE DEF rest
  <2>6. h \in QueueOf(o, s, p) /\ S = QueueOf(o, s, p)
    BY <1>2 DEF S
  <2> QED BY <1>1, <1>10, <2>3, <2>4, <2>5, <2>6, QueueLoses
<1>12. Queued(e.orders, s, p, e.levels[s][p])
  <2>1. CASE k = 0
    BY <1>8, <1>11, <2>1 DEF new
  <2>2. CASE k # 0
    <3>1. [left EXCEPT !.head = k] = [head |-> k, tail |-> left.tail, totalOpen |-> left.totalOpen]
      <4>1. left \in LevelType
        BY <1>4
      <4> HIDE DEF left
      <4> QED BY <4>1 DEF LevelType
    <3>2. [left EXCEPT !.head = k] = rest
      BY <1>3, <2>2, <3>1
    <3> QED BY <1>8, <1>11, <2>2, <3>2 DEF new
  <2> QED BY <2>1, <2>2
<1>13. WellQueued(e)
  <2>1. \A i \in OrderIds : \/ e.orders[i] = b.orders[i]
                            \/ At(e.orders[i], s, p) /\ (At(b.orders[i], s, p) \/ ~b.orders[i].active)
    BY <1>2, <1>7, <1>9, Zenon DEF new
  <2>2. \A t \in BookSides, q \in Prices : t # s \/ q # p => e.levels[t][q] = b.levels[t][q]
    BY <1>8
  <2> HIDE DEF o, level, left, rest, S
  <2> QED BY <1>12, <2>1, <2>2, OneLevel
<1>14. Away(b, e, s)
  <2> HIDE DEF o, level, left, rest, S
  <2> QED BY <1>3, <1>6 DEF Away
<1>15. HeadFilled(b, s, h, fill, e)
  BY <1>7, <1>9, <1>13, <1>14 DEF HeadFilled, new
<1> QED BY <1>3, <1>15 DEF e

\* What an iteration of a run over intact queues of side s does: it meets the
\* taker's own order, or fills the head of the best price as far as both want.
FillsHead(m, s, h, fill, k) ==
    /\ HeadOf(m.book, s, m.book.best[s], h)
    /\ fill \in Nat /\ fill > 0
    /\ fill = Remaining(m.book.orders[h]) \/ fill = m.remaining
    /\ HeadFilled(m.book, s, h, fill, k.book)
    /\ k.remaining = m.remaining - fill
Advanced(m, s, k) ==
    /\ ~k.reverted
    /\ \/ k.book = m.book /\ k.selfTrade
       \/ \E h \in OrderIds, fill \in Nat : FillsHead(m, s, h, fill, k)

\* The price a run looks at is one of the book's.
LEMMA BestIsListed ==
    ASSUME NEW b, NEW n, Good(b, n), NEW side \in BookSides, NEW limit, Crosses(b, side, limit)
    PROVE  /\ Opposite(side) \in BookSides /\ b.best[Opposite(side)] \in Prices
           /\ b.levels[Opposite(side)][b.best[Opposite(side)]].head # 0
<1> DEFINE s == Opposite(side)
           p == b.best[s]
<1>1. s \in BookSides
  BY DEF Opposite, BookSides
<1>2. p # NoBest(s)
  BY DEF Crosses
<1>3. IndexOK(b.levels[s], b.bitmap[s], p, s)
  BY <1>1 DEF Good, IndexesOK
<1>4. b.bitmap[s] \subseteq Prices
  BY <1>1 DEF Good, BookType
<1> HIDE DEF p
<1>5. p \in b.bitmap[s] /\ p \in Prices
  BY <1>2, <1>3, <1>4 DEF IndexOK
<1>6. b.levels[s][p].head # 0
  BY <1>3, <1>5 DEF IndexOK
<1> QED BY <1>1, <1>5, <1>6 DEF p

\* An iteration never reverts and never finds a stale head while the queues are intact.
LEMMA MatchStepAdvances ==
    ASSUME NEW m \in RunType, NEW n \in Nat, Good(m.book, n), WellQueued(m.book), Lot(m.remaining),
           NEW side \in BookSides, NEW limit, Continues(m, side, limit), NEW taker \in Traders,
           NEW s, s = Opposite(side)
    PROVE  Advanced(m, s, MatchStep(m, taker, side))
<1> DEFINE b == m.book
           p == b.best[s]
           h == b.levels[s][p].head
           fill == Min({Remaining(b.orders[h]), m.remaining})
           open == b.levels[s][p].totalOpen
           f == FilledBook(b, taker, side, p, h, fill)
           e == IF Remaining(f.orders[h]) = 0 THEN PopHead(f, s, p) ELSE f
<1>1. /\ m.remaining > 0 /\ Crosses(b, side, limit) /\ ~m.reverted
  BY DEF Continues
<1>2. s \in BookSides /\ p \in Prices /\ h # 0
  BY <1>1, BestIsListed
<1> HIDE DEF p
<1>3. HeadOf(b, s, p, h)
  BY <1>2, HeadFacts
<1>4. /\ h \in OrderIds /\ b.orders[h] \in OrderType /\ b.orders[h].active
      /\ Remaining(b.orders[h]) \in Nat \ {0} /\ Remaining(b.orders[h]) <= open
  BY <1>3, Zenon DEF HeadOf
<1>5. b \in BookType /\ open \in Nat
  BY <1>2, LevelFacts, Zenon DEF Good
<1>6. open # 0
  <2> DEFINE r == Remaining(b.orders[h])
  <2>1. r \in Nat \ {0} /\ r <= open
    BY <1>4
  <2> HIDE DEF r, open
  <2> QED BY <1>5, <2>1
<1>7. MatchStep(m, taker, side) =
        IF b.orders[h].maker = taker THEN [m EXCEPT !.selfTrade = TRUE] ELSE Fill(m, taker, side, p, h)
  BY <1>2, <1>4, <1>6, Zenon DEF MatchStep, p
<1>8. CASE b.orders[h].maker = taker
  <2>1. MatchStep(m, taker, side) = [m EXCEPT !.selfTrade = TRUE]
    BY <1>7, <1>8
  <2> DEFINE k == MatchStep(m, taker, side)
  <2>2. k.book = m.book /\ k.selfTrade /\ ~k.reverted
    BY <1>1, <2>1 DEF RunType
  <2> HIDE DEF k
  <2> QED BY <2>2 DEF Advanced, k
<1>9. CASE b.orders[h].maker # taker
  <2>1. Lot(Remaining(b.orders[h]))
    BY <1>4, <1>5, BackingType DEF Good, BookType
  <2>2. Fits(fill, Remaining(b.orders[h]), m.remaining, m.remaining)
    <3> DEFINE r == Remaining(b.orders[h])
    <3>1. Lot(r) /\ Lot(m.remaining)
      BY <2>1
    <3>2. fill = Min({r, m.remaining})
      OBVIOUS
    <3> HIDE DEF r, fill
    <3>3. m.remaining <= m.remaining
      BY <3>1 DEF Lot
    <3>4. Fits(Min({r, m.remaining}), r, m.remaining, m.remaining)
      BY <3>1, <3>3, FillSizes
    <3> QED BY <3>2, <3>4 DEF r
  <2>3. fill \in {Remaining(b.orders[h]), m.remaining} /\ fill \in Nat
        /\ Lot(fill) /\ fill <= Remaining(b.orders[h])
    <3>1. Remaining(b.orders[h]) \in Nat /\ m.remaining \in Nat
      BY <1>4 DEF Lot
    <3>2. fill \in {Remaining(b.orders[h]), m.remaining}
      BY <3>1, MinOfTwo
    <3> HIDE DEF fill
    <3> QED BY <2>2, <3>2 DEF Fits
  <2> HIDE DEF fill
  <2>4. fill > 0 /\ fill <= open
    <3> DEFINE r == Remaining(b.orders[h])
               q == m.remaining
    <3>1. r \in Nat \ {0} /\ q > 0 /\ (fill = r \/ fill = q) /\ fill <= r /\ r <= open /\ fill \in Nat
      BY <1>1, <1>4, <2>3
    <3> HIDE DEF r, q, open
    <3> QED BY <1>5, <3>1
  <2>5. Fill(m, taker, side, p, h) =
          [m EXCEPT !.book = e, !.remaining = @ - fill, !.cost = @ + FillStake(side, p, fill)]
    <3>1. Fill(m, taker, side, p, h) =
            IF open < fill THEN [m EXCEPT !.reverted = TRUE]
            ELSE [m EXCEPT !.book = e, !.remaining = @ - fill, !.cost = @ + FillStake(side, p, fill)]
      BY DEF Fill, FilledBook, fill
    <3>2. ~(open < fill)
      <4> HIDE DEF open
      <4> QED BY <1>5, <2>3, <2>4
    <3> QED BY <3>1, <3>2
  <2>6. Good(f, n)
    <3>1. FillMoves(b, n, side, p, h, fill, f)
      BY <1>2, <1>4, <1>9, <2>3, <2>4, FillBook, Zenon
    <3> HIDE DEF f
    <3> QED BY <3>1 DEF FillMoves
  <2>7. FilledAt(b, s, p, h, fill, f)
    BY <1>2, <1>3, <1>5, <2>3, FilledFields
  <2> HIDE DEF f
  <2>8. HeadFilled(b, s, h, fill, e)
    <3>1. CASE fill = Remaining(b.orders[h])
      <4>1. HeadFilled(b, s, h, fill, PopHead(f, s, p)) /\ Remaining(f.orders[h]) = 0
        BY <1>2, <1>3, <2>6, <2>7, <3>1, LastFill, Zenon
      <4> QED BY <4>1
    <3>2. CASE fill # Remaining(b.orders[h])
      <4>1. fill < Remaining(b.orders[h])
        <5> DEFINE r == Remaining(b.orders[h])
        <5>1. r \in Nat /\ fill <= r /\ fill # r
          BY <1>4, <2>3, <3>2
        <5> HIDE DEF r
        <5>2. fill < r
          BY <2>3, <5>1
        <5> QED BY <5>2 DEF r
      <4>2. HeadFilled(b, s, h, fill, f) /\ Remaining(f.orders[h]) # 0
        BY <1>2, <1>3, <2>3, <2>7, <4>1, PartialFill
      <4> QED BY <4>2
    <3> QED BY <3>1, <3>2
  <2> HIDE DEF e
  <2> DEFINE k == MatchStep(m, taker, side)
  <2>9. k.book = e /\ k.remaining = m.remaining - fill /\ ~k.reverted
    <3>1. k = [m EXCEPT !.book = e, !.remaining = @ - fill, !.cost = @ + FillStake(side, p, fill)]
      BY <1>7, <1>9, <2>5
    <3> QED BY <1>1, <3>1 DEF RunType
  <2> HIDE DEF k, h
  <2>10. FillsHead(m, s, h, fill, k)
    BY <1>3, <2>3, <2>4, <2>8, <2>9 DEF FillsHead, p
  <2> QED BY <1>4, <2>3, <2>9, <2>10 DEF Advanced, k
<1> QED BY <1>8, <1>9

\* What a run against side s may do to the orders of b: it fills open orders of
\* that side, and one that leaves has nothing left to fill.
Progress(b, c, s) ==
    \A i \in OrderIds :
        /\ ~b.orders[i].active \/ b.orders[i].side # s => c.orders[i] = b.orders[i]
        /\ b.orders[i].active => /\ SameTerms(c.orders[i], b.orders[i])
                                 /\ c.orders[i].active \/ Remaining(c.orders[i]) = 0

\* Order i has a better price than order j of its side, or the same and an earlier id.
Ahead(o, i, j) ==
    /\ i # j /\ o[i].side = o[j].side
    /\ Better(o[i].side, o[i].price, o[j].price) \/ (o[i].price = o[j].price /\ i < j)
Hit(b, c, j) == b.orders[j].active /\ c.orders[j].filled # b.orders[j].filled

\* PriceTimePriority between b and c.
Served(b, c) ==
    \A i, j \in OrderIds :
        Hit(b, c, j) /\ b.orders[i].active /\ Ahead(b.orders, i, j) => Remaining(c.orders[i]) = 0

QueueRun(b, m, s) ==
    /\ WellQueued(m.book) /\ Away(b, m.book, s)
    /\ ~m.reverted
    /\ Progress(b, m.book, s) /\ Served(b, m.book)

\* The head an iteration fills was open in b, and open orders ahead of it have left.
LEMMA HeadIsNext ==
    ASSUME NEW b, NEW c, NEW n \in Nat, Good(c, n), WellQueued(c), NEW s \in BookSides, Progress(b, c, s),
           c.best[s] \in Prices, NEW h, HeadOf(c, s, c.best[s], h)
    PROVE  /\ b.orders[h].active /\ b.orders[h].side = s
           /\ \A i \in OrderIds : b.orders[i].active /\ Ahead(b.orders, i, h) => Remaining(c.orders[i]) = 0
<1> DEFINE p == c.best[s]
<1>1. /\ h \in OrderIds /\ c.orders[h].active /\ c.orders[h].side = s /\ c.orders[h].price = p
      /\ h = c.levels[s][p].head
  BY Zenon DEF HeadOf, At
<1>2. b.orders[h].active /\ SameTerms(c.orders[h], b.orders[h])
  <2>1. ~b.orders[h].active => c.orders[h] = b.orders[h]
    BY <1>1, Zenon DEF Progress
  <2> QED BY <1>1, <2>1, Zenon DEF Progress
<1>3. b.orders[h].side = s /\ b.orders[h].price = p
  BY <1>1, <1>2, Zenon DEF SameTerms
<1>4. IndexOK(c.levels[s], c.bitmap[s], p, s)
  BY DEF Good, IndexesOK
<1>5. ASSUME NEW i \in OrderIds, b.orders[i].active, Ahead(b.orders, i, h), c.orders[i].active PROVE FALSE
  <2>1. SameTerms(c.orders[i], b.orders[i])
    BY <1>5 DEF Progress
  <2> DEFINE q == c.orders[i].price
  <2>2. b.orders[i].side = s /\ c.orders[i].side = s /\ b.orders[i].price = q
    BY <1>3, <1>5, <2>1 DEF Ahead, SameTerms
  <2>3. Better(s, q, p) \/ (q = p /\ i < h)
    BY <1>3, <1>5, <2>2 DEF Ahead
  <2>4. q \in Prices
    BY <1>5, OrderFacts DEF OrderOK
  <2> HIDE DEF q
  <2>5. Queued(c.orders, s, q, c.levels[s][q])
    BY <2>4 DEF WellQueued
  <2>6. i \in QueueOf(c.orders, s, q)
    BY <1>5, <2>2 DEF QueueOf, q
  <2>7. c.levels[s][q].head # 0 /\ c.levels[s][q].head <= i
    BY <2>5, <2>6, QueueFacts
  <2>8. q \in c.bitmap[s]
    BY <1>4, <2>4, <2>7 DEF IndexOK
  <2>9. ~Better(s, q, p)
    BY <1>4, <2>8 DEF IndexOK
  <2>10. q = p /\ i < h /\ h <= i
    BY <1>1, <2>3, <2>7, <2>9, Zenon
  <2>11. i \in Nat /\ h \in Nat
    BY <1>1, <1>5, OrderFacts, Zenon
  <2> QED BY ONLY <2>10, <2>11
<1>6. ASSUME NEW i \in OrderIds, b.orders[i].active, Ahead(b.orders, i, h) PROVE Remaining(c.orders[i]) = 0
  BY <1>5, <1>6 DEF Progress
<1> QED BY <1>2, <1>3, <1>6

\* One iteration keeps what the run has done to the queues.
LEMMA QueueRunStep ==
    ASSUME NEW b, NEW m, NEW s \in BookSides, NEW k, NEW n \in Nat, Good(b, n), Good(m.book, n), Good(k.book, n),
           m.book.best[s] \in Prices, QueueRun(b, m, s), Advanced(m, s, k)
    PROVE  QueueRun(b, k, s)
<1> DEFINE c == m.book
           e == k.book
<1>1. WellQueued(c) /\ Away(b, c, s) /\ Progress(b, c, s) /\ Served(b, c)
  BY DEF QueueRun
<1>2. ~k.reverted
  BY DEF Advanced
<1>3. CASE e = c
  BY <1>1, <1>2, <1>3 DEF QueueRun
<1>4. ASSUME NEW h \in OrderIds, NEW fill \in Nat, FillsHead(m, s, h, fill, k) PROVE QueueRun(b, k, s)
  <2>1. HeadOf(c, s, c.best[s], h) /\ HeadFilled(c, s, h, fill, e)
    BY <1>4 DEF FillsHead
  <2> HIDE DEF c, e
  <2>2. /\ b.orders[h].active /\ b.orders[h].side = s
        /\ \A i \in OrderIds : b.orders[i].active /\ Ahead(b.orders, i, h) => Remaining(c.orders[i]) = 0
    <3>1. Good(c, n) /\ c.best[s] \in Prices
      BY DEF c
    <3> QED BY <1>1, <2>1, <3>1, HeadIsNext
  <2>3. /\ \A i \in OrderIds : i # h => e.orders[i] = c.orders[i]
        /\ SameTerms(e.orders[h], c.orders[h])
        /\ e.orders[h].active <=> Remaining(e.orders[h]) # 0
        /\ WellQueued(e) /\ Away(c, e, s)
    BY <2>1 DEF HeadFilled
  <2>4. Away(b, e, s)
    <3>1. b.best[s] \in Int /\ c.best[s] \in Int /\ e.best[s] \in Int
      BY DEF Good, BookType, c, e
    <3> QED BY <1>1, <2>3, <3>1, AwayAgain
  <2>5. Progress(b, e, s)
    <3> SUFFICES ASSUME NEW i \in OrderIds
                 PROVE  /\ ~b.orders[i].active \/ b.orders[i].side # s => e.orders[i] = b.orders[i]
                        /\ b.orders[i].active => /\ SameTerms(e.orders[i], b.orders[i])
                                                 /\ e.orders[i].active \/ Remaining(e.orders[i]) = 0
      BY DEF Progress
    <3>1. CASE i # h
      BY <1>1, <2>3, <3>1 DEF Progress
    <3>2. CASE i = h
      <4>1. SameTerms(c.orders[h], b.orders[h])
        BY <1>1, <2>2 DEF Progress
      <4>2. SameTerms(e.orders[h], b.orders[h])
        BY <2>3, <4>1 DEF SameTerms
      <4> QED BY <2>2, <2>3, <3>2, <4>2
    <3> QED BY <3>1, <3>2
  <2>6. Served(b, e)
    <3> SUFFICES ASSUME NEW i \in OrderIds, NEW j \in OrderIds,
                        Hit(b, e, j), b.orders[i].active, Ahead(b.orders, i, j)
                 PROVE  Remaining(e.orders[i]) = 0
      BY DEF Served
    <3>1. Remaining(c.orders[i]) = 0
      <4>1. CASE j = h
        BY <2>2, <4>1
      <4>2. CASE j # h
        <5>1. Hit(b, c, j)
          BY <2>3, <4>2 DEF Hit
        <5> QED BY <1>1, <5>1 DEF Served
      <4> QED BY <4>1, <4>2
    <3>2. i # h
      BY <2>1, <3>1, Zenon DEF HeadOf
    <3> QED BY <2>3, <3>1, <3>2
  <2> QED BY <1>2, <2>3, <2>4, <2>5, <2>6 DEF QueueRun, e
<1> QED BY <1>3, <1>4 DEF Advanced

\* The orders a run has filled.
HitSet(b, c) == {i \in OrderIds : Hit(b, c, i)}

\* A run that goes on has emptied an order in every iteration.
Counted(b, m, side, limit, k) ==
    Continues(m, side, limit) =>
        /\ \A i \in OrderIds : Hit(b, m.book, i) => ~m.book.orders[i].active
        /\ Cardinality(HitSet(b, m.book)) >= k

\* An iteration of a run that goes on empties one more order.
LEMMA CountedStep ==
    ASSUME NEW b, NEW m, NEW side, NEW limit, NEW s \in BookSides, NEW k, NEW n \in Nat, Good(b, n), Good(m.book, n),
           m.book.best[s] \in Prices, m.remaining \in Nat, QueueRun(b, m, s), Advanced(m, s, k),
           NEW i \in Nat, Counted(b, m, side, limit, i), Continues(m, side, limit)
    PROVE  Counted(b, k, side, limit, i + 1)
<1> SUFFICES ASSUME Continues(k, side, limit)
             PROVE  /\ \A j \in OrderIds : Hit(b, k.book, j) => ~k.book.orders[j].active
                    /\ Cardinality(HitSet(b, k.book)) >= i + 1
  BY DEF Counted
<1> DEFINE c == m.book
           e == k.book
<1>1. k.remaining > 0 /\ ~k.selfTrade
  BY DEF Continues
<1>2. PICK h \in OrderIds, fill \in Nat : FillsHead(m, s, h, fill, k)
  BY <1>1 DEF Advanced
<1>3. /\ HeadOf(c, s, c.best[s], h) /\ fill > 0
      /\ fill = Remaining(c.orders[h]) \/ fill = m.remaining
      /\ HeadFilled(c, s, h, fill, e) /\ k.remaining = m.remaining - fill
  BY <1>2 DEF FillsHead
<1>4. fill = Remaining(c.orders[h])
  <2>1. fill # m.remaining
    BY <1>1, <1>3
  <2> QED BY <1>3, <2>1
<1>5. /\ WellQueued(c) /\ Progress(b, c, s)
      /\ \A j \in OrderIds : Hit(b, c, j) => ~c.orders[j].active
      /\ Cardinality(HitSet(b, c)) >= i
  BY DEF QueueRun, Counted
<1>6. b.orders[h].active
  BY <1>3, <1>5, HeadIsNext
<1> HIDE DEF c, e
<1>7. /\ c.orders[h].active /\ c.orders[h] \in OrderType /\ h \in OrderIds
  BY <1>3, Zenon DEF HeadOf
<1>8. /\ \A j \in OrderIds : j # h => e.orders[j] = c.orders[j]
      /\ SameTerms(e.orders[h], c.orders[h]) /\ e.orders[h].filled = c.orders[h].filled + fill
      /\ e.orders[h].active <=> Remaining(e.orders[h]) # 0
  BY <1>3 DEF HeadFilled
<1>9. ~e.orders[h].active
  <2> DEFINE a == c.orders[h].amount
             z == c.orders[h].filled
  <2>1. a \in Nat /\ z \in Nat
    BY <1>7 DEF OrderType
  <2>2. Remaining(e.orders[h]) = a - (z + fill) /\ fill = a - z
    BY <1>4, <1>8 DEF Remaining, SameTerms
  <2> HIDE DEF a, z
  <2>3. Remaining(e.orders[h]) = 0
    BY <2>1, <2>2
  <2> QED BY <1>8, <2>3
<1>10. /\ ~Hit(b, c, h)
       /\ Hit(b, e, h)
       /\ \A j \in OrderIds : j # h => (Hit(b, e, j) <=> Hit(b, c, j))
  <2>1. ~Hit(b, c, h)
    BY <1>5, <1>7
  <2> DEFINE z == c.orders[h].filled
  <2>2. b.orders[h].filled = z /\ z \in Nat /\ e.orders[h].filled = z + fill
    BY <1>6, <1>7, <1>8, <2>1 DEF Hit, OrderType
  <2> HIDE DEF z
  <2>3. e.orders[h].filled # b.orders[h].filled
    BY <1>3, <2>2
  <2> QED BY <1>6, <1>8, <2>1, <2>3 DEF Hit
<1>11. \A j \in OrderIds : Hit(b, e, j) => ~e.orders[j].active
  BY <1>5, <1>8, <1>9, <1>10
<1>12. Cardinality(HitSet(b, e)) >= i + 1
  <2>1. HitSet(b, e) = HitSet(b, c) \cup {h} /\ h \notin HitSet(b, c)
    BY <1>7, <1>10 DEF HitSet
  <2>2. IsFiniteSet(HitSet(b, c))
    BY FiniteSets, FS_Subset DEF HitSet
  <2>3. Cardinality(HitSet(b, e)) = Cardinality(HitSet(b, c)) + 1 /\ Cardinality(HitSet(b, c)) \in Nat
    BY <2>1, <2>2, FS_AddElement, FS_CardinalityType
  <2> QED BY <1>5, <2>3
<1> QED BY <1>11, <1>12 DEF e

\* What a run of i iterations over book b has done to it.
RunDone(b, n, m, side, limit, amount, i) ==
    /\ RunOK(m, b, n, side, limit, amount)
    /\ QueueRun(b, m, Opposite(side))
    /\ Counted(b, m, side, limit, i)

\* Nothing is done when the run starts.
LEMMA RunDoneStart ==
    ASSUME NEW b, NEW n \in Nat, Good(b, n), WellQueued(b), NEW side, NEW limit, NEW amount,
           NEW m, m = RunStart(b, amount), RunOK(m, b, n, side, limit, amount)
    PROVE  RunDone(b, n, m, side, limit, amount, 0)
<1> DEFINE s == Opposite(side)
           c == m.book
<1>1. b \in BookType
  BY DEF Good
<1>2. c.orders = b.orders /\ c.levels = b.levels /\ c.best = b.best /\ ~m.reverted
  BY <1>1 DEF RunStart, BookType
<1> HIDE DEF c, s
<1>3. WellQueued(c)
  BY <1>2 DEF WellQueued
<1>4. Away(b, c, s)
  BY <1>2 DEF Away
<1>5. Progress(b, c, s)
  <2>1. ASSUME NEW i \in OrderIds, b.orders[i].active
        PROVE  /\ SameTerms(c.orders[i], b.orders[i])
               /\ c.orders[i].active \/ Remaining(c.orders[i]) = 0
    BY <1>2, <2>1 DEF SameTerms
  <2> QED BY <1>2, <2>1 DEF Progress
<1>6. \A i \in OrderIds : ~Hit(b, c, i)
  BY <1>2 DEF Hit
<1>7. Served(b, c)
  BY <1>6 DEF Served
<1>8. QueueRun(b, m, s)
  BY <1>2, <1>3, <1>4, <1>5, <1>7 DEF QueueRun, c
<1>9. Counted(b, m, side, limit, 0)
  <2>1. HitSet(b, c) = {}
    BY <1>6 DEF HitSet
  <2>2. Cardinality(HitSet(b, c)) = 0
    BY <2>1, FS_EmptySet
  <2> QED BY <1>6, <2>2 DEF Counted, c
<1> QED BY <1>8, <1>9 DEF RunDone, s

\* One more iteration.
LEMMA RunDoneStep ==
    ASSUME NEW b, NEW n \in Nat, Good(b, n), NEW side \in BookSides, NEW limit \in Prices,
           NEW amount, Lot(amount), NEW taker \in Traders,
           StakeTotal(b) \in Nat, RestingTotal(b) \in Nat, ATotal(b) \in Nat, BTotal(b) \in Nat,
           NEW i \in Nat, NEW m, RunDone(b, n, m, side, limit, amount, i),
           NEW k, k = Iterate(m, taker, side, limit)
    PROVE  RunDone(b, n, k, side, limit, amount, i + 1)
<1> DEFINE s == Opposite(side)
<1>1. /\ RunOK(m, b, n, side, limit, amount) /\ QueueRun(b, m, s) /\ Counted(b, m, side, limit, i)
  BY DEF RunDone
<1>2. CASE Continues(m, side, limit)
  <2>1. k = MatchStep(m, taker, side)
    BY <1>2 DEF Iterate
  <2>2. RunOK(k, b, n, side, limit, amount)
    BY <1>1, <1>2, <2>1, MatchStepRun
  <2>3. /\ m \in RunType /\ Good(m.book, n) /\ Lot(m.remaining) /\ Good(k.book, n) /\ m.remaining \in Nat
    BY <1>1, <2>2 DEF RunOK, Lot
  <2>4. WellQueued(m.book)
    BY <1>1 DEF QueueRun
  <2>5. Advanced(m, s, k)
    BY <1>2, <2>1, <2>3, <2>4, MatchStepAdvances
  <2>6. s \in BookSides /\ m.book.best[s] \in Prices
    <3>1. Crosses(m.book, side, limit)
      BY <1>2 DEF Continues
    <3> QED BY <2>3, <3>1, BestIsListed
  <2> HIDE DEF s
  <2>7. QueueRun(b, k, s)
    BY <1>1, <2>3, <2>5, <2>6, QueueRunStep
  <2>8. Counted(b, k, side, limit, i + 1)
    BY <1>1, <1>2, <2>3, <2>5, <2>6, CountedStep
  <2> QED BY <2>2, <2>7, <2>8 DEF RunDone, s
<1>3. CASE ~Continues(m, side, limit)
  <2>1. k = m
    BY <1>3 DEF Iterate
  <2>2. Counted(b, k, side, limit, i + 1)
    BY <1>3, <2>1 DEF Counted
  <2> QED BY <1>1, <2>1, <2>2 DEF RunDone
<1> QED BY <1>2, <1>3

\* _matchBuyOrder and _matchSellOrder over intact queues: they never revert and
\* fill open orders of the other side in price-time order, and an order that could
\* go on after the last iteration has emptied one order in each of them.
LEMMA MatchingQueues ==
    ASSUME NEW b, NEW n \in Nat, Good(b, n), b.nextOrderId = n, WellQueued(b), NEW side \in BookSides,
           NEW limit \in Prices, NEW amount, Lot(amount), NEW taker \in Traders,
           NEW m, m = Matching(b, taker, side, limit, amount)
    PROVE  RunDone(b, n, m, side, limit, amount, MaxMatchIterations)
<1> DEFINE K == MaxMatchIterations
           start == RunStart(b, amount)
           after == CHOOSE g : Runs(g, K, start, taker, side, limit)
           OK(i) == RunDone(b, n, after[i], side, limit, amount, i)
<1>1. K \in Nat
  BY BoundAssumption
<1>2. m = after[K]
  BY DEF Matching, Runs, RunStart, Iterate
<1>3. Runs(after, K, start, taker, side, limit)
  BY <1>1, RunExists
<1>4. StakeTotal(b) \in Nat /\ RestingTotal(b) \in Nat /\ ATotal(b) \in Nat /\ BTotal(b) \in Nat
  BY TotalsAreWhole
<1>5. RunDone(b, n, start, side, limit, amount, 0)
  <2>1. RunOK(start, b, n, side, limit, amount)
    BY <1>4, RunOKStart
  <2> HIDE DEF start
  <2>2. start = RunStart(b, amount)
    BY DEF start
  <2> QED BY <2>1, <2>2, RunDoneStart
<1> HIDE DEF K, start, after
<1>6. /\ after[0] = start
      /\ \A i \in 1 .. K : after[i] = Iterate(after[i - 1], taker, side, limit)
  <2>1. \A i \in 0 .. K : after[i] = IF i = 0 THEN start ELSE Iterate(after[i - 1], taker, side, limit)
    BY <1>3 DEF Runs
  <2> QED BY <1>1, <2>1
<1>7. ASSUME NEW i \in Nat, i < K, OK(i) PROVE OK(i + 1)
  <2>1. i + 1 \in 1 .. K /\ (i + 1) - 1 = i
    BY <1>1, <1>7
  <2>2. after[i + 1] = Iterate(after[i], taker, side, limit)
    BY <1>6, <2>1
  <2> QED BY <1>4, <1>7, <2>2, RunDoneStep
<1> DEFINE Bad == {i \in Nat : i <= K /\ ~OK(i)}
<1>8. OK(0)
  BY <1>5, <1>6
<1> HIDE DEF OK
<1>9. Bad = {}
  <2> SUFFICES ASSUME Bad # {} PROVE FALSE
    OBVIOUS
  <2>1. PICK i \in Bad : \A j \in Bad : i <= j
    BY LeastNatural
  <2>2. i \in Nat /\ i <= K /\ ~OK(i)
    OBVIOUS
  <2>3. i # 0
    BY <1>8, <2>2
  <2>4. i - 1 \in Nat /\ i - 1 < i /\ i - 1 < K /\ (i - 1) + 1 = i
    BY <1>1, <2>2, <2>3
  <2>7. ~(i - 1 \in Bad) /\ i - 1 <= K
    BY <1>1, <2>1, <2>2, <2>4
  <2>5. OK(i - 1)
    BY <2>4, <2>7
  <2>6. OK((i - 1) + 1)
    BY <1>7, <2>4, <2>5
  <2> QED BY <2>2, <2>4, <2>6
<1>10. OK(K)
  BY <1>1, <1>9
<1> QED BY <1>2, <1>10 DEF OK, K

\* c is b after order id was appended at price p of side s, field by field.
RestedAt(b, id, s, p, left, c) ==
    LET tail == b.levels[s][p].tail
    IN  /\ c.orders[id].active /\ At(c.orders[id], s, p) /\ Remaining(c.orders[id]) = left
        /\ c.orders[id].next = 0 /\ c.orders[id].prev = tail
        /\ \A i \in OrderIds : i # id /\ i # tail => c.orders[i] = b.orders[i]
        /\ \A i \in OrderIds : i = tail =>
              /\ At(b.orders[i], s, p) /\ i # id
              /\ SameTrade(c.orders[i], b.orders[i])
              /\ c.orders[i].next = id /\ c.orders[i].prev = b.orders[i].prev
        /\ \A t \in BookSides, q \in Prices : t # s \/ q # p => c.levels[t][q] = b.levels[t][q]
        /\ c.levels[s][p].head = IF tail = 0 THEN id ELSE b.levels[s][p].head
        /\ c.levels[s][p].tail = id
        /\ c.levels[s][p].totalOpen = b.levels[s][p].totalOpen + left
        /\ c.best[s] = IF Better(s, p, b.best[s]) THEN p ELSE b.best[s]
        /\ \A t \in BookSides : t # s => c.best[t] = b.best[t]

\* What _restOrder writes.
LEMMA RestWrites ==
    ASSUME NEW b, NEW id \in OrderIds, Good(b, id), NEW order \in OrderType, NEW s \in BookSides, NEW p \in Prices,
           At(order, s, p), order.next = 0
    PROVE  RestedAt(b, id, s, p, Remaining(order), RestOrder(b, id, order))
<1> DEFINE level == b.levels[s][p]
           tail == level.tail
           x == [order EXCEPT !.prev = tail, !.active = TRUE]
           placed == [b.orders EXCEPT ![id] = x]
           new == IF tail = 0 THEN placed ELSE [placed EXCEPT ![tail].next = id]
           row == [head |-> IF tail = 0 THEN id ELSE level.head, tail |-> id,
                   totalOpen |-> level.totalOpen + Remaining(order)]
           c == RestOrder(b, id, order)
<1>1. order.side = s /\ order.price = p /\ id \in Nat
  BY DEF At, OrderIds
<1>2. /\ b \in BookType /\ b.orders \in [OrderIds -> OrderType]
      /\ b.levels \in [BookSides -> [Prices -> LevelType]] /\ b.best \in [BookSides -> Int]
      /\ b.bitmap \in [BookSides -> SUBSET Prices]
  BY DEF Good, BookType
<1>3. tail \in {0} \cup OrderIds /\ Kin(b.orders, id, s, p, tail)
  BY <1>1, LevelFacts DEF LevelOK
<1>4. /\ c.orders = new
      /\ c.levels = [b.levels EXCEPT ![s][p] = row]
      /\ c.best = [b.best EXCEPT ![s] = IF Better(s, p, @) THEN p ELSE @]
  BY <1>1, <1>2 DEF RestOrder, ActivatePrice, BookType
<1>5. /\ x.active /\ At(x, s, p) /\ x.next = 0 /\ x.prev = tail
      /\ x.amount = order.amount /\ x.filled = order.filled
  BY <1>1 DEF OrderType, At
<1> HIDE DEF x, c
<1>6. tail # 0 => tail \in OrderIds /\ tail # id /\ At(b.orders[tail], s, p) /\ b.orders[tail] \in OrderType
  <2> SUFFICES ASSUME tail # 0
               PROVE  tail \in OrderIds /\ tail # id /\ At(b.orders[tail], s, p) /\ b.orders[tail] \in OrderType
    OBVIOUS
  <2> HIDE DEF tail
  <2>1. tail \in OrderIds /\ tail < id /\ b.orders[tail].side = s /\ b.orders[tail].price = p
    BY <1>3 DEF Kin
  <2>2. tail # id
    BY <1>1, <2>1
  <2> QED BY <1>2, <2>1, <2>2 DEF At
<1>7. placed[id] = x /\ \A i \in OrderIds : i # id => placed[i] = b.orders[i]
  BY <1>2
<1>8. DOMAIN placed = OrderIds
  BY <1>2
<1> HIDE DEF placed
<1>9. /\ \A i \in OrderIds : i # tail => new[i] = placed[i]
      /\ tail # 0 => new[tail] = [placed[tail] EXCEPT !.next = id]
  BY <1>6, <1>8
<1> HIDE DEF new
<1>10. tail # 0 => /\ SameTrade(new[tail], b.orders[tail])
                   /\ new[tail].next = id /\ new[tail].prev = b.orders[tail].prev
  <2> DEFINE y == b.orders[tail]
  <2>1. tail # 0 => y \in OrderType /\ new[tail] = [y EXCEPT !.next = id]
    BY <1>6, <1>7, <1>9
  <2> HIDE DEF y
  <2>2. tail # 0 => /\ SameTrade(new[tail], y)
                    /\ new[tail].next = id /\ new[tail].prev = y.prev
    BY <2>1 DEF SameTrade, OrderType
  <2> QED BY <2>2 DEF y
<1>11. Remaining(x) = Remaining(order)
  BY <1>5 DEF Remaining
<1>12. c.orders[id] = x
  BY <1>3, <1>4, <1>6, <1>7, <1>9 DEF OrderIds
<1>13. \A i \in OrderIds : i # id /\ i # tail => c.orders[i] = b.orders[i]
  BY <1>4, <1>7, <1>9
<1>14. \A i \in OrderIds : i = tail =>
              /\ At(b.orders[i], s, p) /\ i # id
              /\ SameTrade(c.orders[i], b.orders[i])
              /\ c.orders[i].next = id /\ c.orders[i].prev = b.orders[i].prev
  <2>1. 0 \notin OrderIds
    BY DEF OrderIds
  <2> QED BY <1>4, <1>6, <1>10, <2>1
<1>15. /\ c.levels[s][p] = row
       /\ \A t \in BookSides, q \in Prices : t # s \/ q # p => c.levels[t][q] = b.levels[t][q]
  <2> HIDE DEF row
  <2> QED BY <1>2, <1>4
<1>16. /\ c.best[s] = IF Better(s, p, b.best[s]) THEN p ELSE b.best[s]
       /\ \A t \in BookSides : t # s => c.best[t] = b.best[t]
  BY <1>2, <1>4
<1>17. RestedAt(b, id, s, p, Remaining(order), c)
  BY <1>5, <1>11, <1>12, <1>13, <1>14, <1>15, <1>16 DEF RestedAt
<1> QED BY <1>17 DEF c

\* An order that comes to rest joins its queue at the end.
LEMMA RestQueue ==
    ASSUME NEW b, NEW id \in OrderIds, Good(b, id), WellQueued(b), NEW s \in BookSides, NEW p \in Prices,
           NEW left, left \in Nat \ {0}, NEW c, RestedAt(b, id, s, p, left, c)
    PROVE  WellQueued(c)
<1> DEFINE o == b.orders
           new == c.orders
           level == b.levels[s][p]
           rest == c.levels[s][p]
           S == QueueOf(o, s, p)
           tail == level.tail
<1>1. /\ new[id].active /\ At(new[id], s, p) /\ Remaining(new[id]) = left
      /\ new[id].next = 0 /\ new[id].prev = tail
      /\ \A i \in OrderIds : i # id /\ i # tail => new[i] = o[i]
      /\ \A i \in OrderIds : i = tail =>
            /\ At(o[i], s, p) /\ i # id
            /\ SameTrade(new[i], o[i])
            /\ new[i].next = id /\ new[i].prev = o[i].prev
      /\ \A t \in BookSides, q \in Prices : t # s \/ q # p => c.levels[t][q] = b.levels[t][q]
      /\ rest.head = IF tail = 0 THEN id ELSE level.head
      /\ rest.tail = id
      /\ rest.totalOpen = level.totalOpen + left
  BY DEF RestedAt
<1>2. Queued(o, s, p, level)
  BY DEF WellQueued
<1>3. id \in Nat /\ ~o[id].active
  BY OrderFacts DEF OrderOK, OrderIds
<1>4. \A i \in S : i \in OrderIds /\ i < id /\ i # id
  BY <1>3, OrderFacts DEF QueueOf
<1>5. QueueOf(new, s, p) = S \cup {id}
  <2>1. ASSUME NEW i \in OrderIds, i # id
        PROVE  new[i].active = o[i].active /\ new[i].side = o[i].side /\ new[i].price = o[i].price
    <3> HIDE DEF o, new, tail, rest, level
    <3> QED BY <1>1, <2>1 DEF SameTrade
  <2>2. new[id].active /\ new[id].side = s /\ new[id].price = p /\ ~o[id].active
    BY <1>1, <1>3 DEF At
  <2> HIDE DEF o, new
  <2> QED BY <2>1, <2>2 DEF QueueOf
<1>6. ASSUME NEW i \in S
      PROVE  /\ new[i].prev = o[i].prev /\ new[i].next = IF i = tail THEN id ELSE o[i].next
             /\ new[i].amount = o[i].amount /\ new[i].filled = o[i].filled
  BY <1>1, <1>4 DEF SameTrade
<1>7. \A i \in OrderIds : \/ new[i] = o[i]
                          \/ At(new[i], s, p) /\ (At(o[i], s, p) \/ ~o[i].active)
  <2> SUFFICES ASSUME NEW i \in OrderIds
               PROVE  new[i] = o[i] \/ (At(new[i], s, p) /\ (At(o[i], s, p) \/ ~o[i].active))
    OBVIOUS
  <2> HIDE DEF o, new, tail, rest, level
  <2>1. CASE i = id
    BY <1>1, <1>3, <2>1
  <2>2. CASE i = tail
    BY <1>1, <2>2 DEF At, SameTrade
  <2>3. CASE i # id /\ i # tail
    BY <1>1, <2>3
  <2> QED BY <2>1, <2>2, <2>3
<1> HIDE DEF o, new, level, rest, S, tail
<1>8. Queued(new, s, p, rest)
  <2>1. S = QueueOf(o, s, p) /\ tail = level.tail
    BY DEF S, tail
  <2>2. /\ \A i \in QueueOf(o, s, p) : i < id
        /\ QueueOf(new, s, p) = QueueOf(o, s, p) \cup {id}
        /\ \A i \in QueueOf(o, s, p) :
              /\ new[i].prev = o[i].prev /\ new[i].next = IF i = level.tail THEN id ELSE o[i].next
              /\ new[i].amount = o[i].amount /\ new[i].filled = o[i].filled
    BY <1>4, <1>5, <1>6, <2>1
  <2>3. /\ new[id].next = 0 /\ new[id].prev = level.tail /\ Remaining(new[id]) \in Nat \ {0}
        /\ rest.head = (IF level.tail = 0 THEN id ELSE level.head) /\ rest.tail = id
        /\ rest.totalOpen = level.totalOpen + Remaining(new[id])
    BY <1>1, <2>1
  <2> QED BY ONLY <1>2, <2>2, <2>3, id \in OrderIds, QueueGains
<1>9. Queued(c.orders, s, p, c.levels[s][p])
  BY <1>8 DEF new, rest
<1>10. /\ \A i \in OrderIds : \/ c.orders[i] = b.orders[i]
                              \/ At(c.orders[i], s, p) /\ (At(b.orders[i], s, p) \/ ~b.orders[i].active)
       /\ \A t \in BookSides, q \in Prices : t # s \/ q # p => c.levels[t][q] = b.levels[t][q]
  BY <1>1, <1>7 DEF o, new
<1> QED BY <1>9, <1>10, OneLevel

\* An order kept as a record joins no queue.
LEMMA RecordQueue ==
    ASSUME NEW b, NEW id \in OrderIds, Good(b, id), WellQueued(b), NEW order, ~order.active,
           NEW c, c.orders = [b.orders EXCEPT ![id] = order], c.levels = b.levels
    PROVE  WellQueued(c)
<1>1. b.orders \in [OrderIds -> OrderType] /\ ~b.orders[id].active
  BY OrderFacts DEF OrderOK, OrderIds
<1>2. ASSUME NEW s \in BookSides, NEW p \in Prices PROVE Queued(c.orders, s, p, c.levels[s][p])
  <2>1. Queued(b.orders, s, p, b.levels[s][p])
    BY DEF WellQueued
  <2>2. \A i \in OrderIds : c.orders[i] = b.orders[i] \/ (i = id /\ ~c.orders[i].active /\ ~b.orders[i].active)
    BY <1>1
  <2>3. QueueOf(c.orders, s, p) = QueueOf(b.orders, s, p)
    BY <2>2 DEF QueueOf
  <2>4. \A i \in QueueOf(b.orders, s, p) : c.orders[i] = b.orders[i]
    BY <2>2 DEF QueueOf
  <2>5. Queued(c.orders, s, p, b.levels[s][p])
    BY ONLY <2>1, <2>3, <2>4, QueuedSame
  <2> QED BY <2>5
<1> QED BY <1>2 DEF WellQueued

\* c is b after order id was taken out of its list, field by field.
CutAt(b, id, s, p, c) ==
    LET prev  == b.orders[id].prev
        next  == b.orders[id].next
        level == b.levels[s][p]
        head  == IF prev = 0 THEN next ELSE level.head
        open  == level.totalOpen - Remaining(b.orders[id])
    IN  /\ ~c.orders[id].active /\ At(c.orders[id], s, p)
        /\ \A i \in OrderIds : i # id =>
              /\ SameTrade(c.orders[i], b.orders[i])
              /\ c.orders[i].next = IF i = prev THEN next ELSE b.orders[i].next
              /\ c.orders[i].prev = IF i = next THEN prev ELSE b.orders[i].prev
              /\ i # prev /\ i # next => c.orders[i] = b.orders[i]
        /\ \A t \in BookSides, q \in Prices : t # s \/ q # p => c.levels[t][q] = b.levels[t][q]
        /\ c.levels[s][p] = IF head = 0 \/ open = 0 THEN EmptyLevel
                            ELSE [head |-> head, tail |-> IF next = 0 THEN prev ELSE level.tail, totalOpen |-> open]
        /\ Away(b, c, s)

NextSet(o, h, k, new) == new = IF h = 0 THEN o ELSE [o EXCEPT ![h].next = k]
PrevSet(o, h, k, new) == new = IF h = 0 THEN o ELSE [o EXCEPT ![h].prev = k]

\* A next pointer changes, unless there is no order to hold it.
LEMMA NextWrites ==
    ASSUME NEW o \in [OrderIds -> OrderType], NEW h \in {0} \cup OrderIds, NEW k \in {0} \cup OrderIds,
           NEW left, NextSet(o, h, k, left)
    PROVE  /\ left \in [OrderIds -> OrderType]
           /\ \A i \in OrderIds :
                 /\ SameTrade(left[i], o[i])
                 /\ left[i].next = (IF i = h THEN k ELSE o[i].next) /\ left[i].prev = o[i].prev
                 /\ i # h => left[i] = o[i]
<1>1. CASE h = 0
  <2>1. left = o /\ \A i \in OrderIds : i # h
    BY <1>1 DEF OrderIds, NextSet, PrevSet
  <2> QED BY <2>1 DEF SameTrade
<1>2. CASE h # 0
  <2> DEFINE x == [o[h] EXCEPT !.next = k]
  <2>1. h \in OrderIds /\ left = [o EXCEPT ![h] = x] /\ o[h] \in OrderType
    BY <1>2 DEF NextSet, PrevSet
  <2>2. x \in OrderType /\ SameTrade(x, o[h]) /\ x.next = k /\ x.prev = o[h].prev
    BY <2>1 DEF OrderType, SameTrade
  <2> HIDE DEF x
  <2>3. /\ left \in [OrderIds -> OrderType] /\ left[h] = x
        /\ \A i \in OrderIds : i # h => left[i] = o[i]
    BY <2>1, <2>2
  <2>4. \A i \in OrderIds : i # h => SameTrade(left[i], o[i])
    BY <2>3 DEF SameTrade
  <2> QED BY <2>2, <2>3, <2>4
<1> QED BY <1>1, <1>2

\* A prev pointer changes, unless there is no order to hold it.
LEMMA PrevWrites ==
    ASSUME NEW o \in [OrderIds -> OrderType], NEW h \in {0} \cup OrderIds, NEW k \in {0} \cup OrderIds,
           NEW right, PrevSet(o, h, k, right)
    PROVE  /\ right \in [OrderIds -> OrderType]
           /\ \A i \in OrderIds :
                 /\ SameTrade(right[i], o[i])
                 /\ right[i].prev = (IF i = h THEN k ELSE o[i].prev) /\ right[i].next = o[i].next
                 /\ i # h => right[i] = o[i]
<1>1. CASE h = 0
  <2>1. right = o /\ \A i \in OrderIds : i # h
    BY <1>1 DEF OrderIds, NextSet, PrevSet
  <2> QED BY <2>1 DEF SameTrade
<1>2. CASE h # 0
  <2> DEFINE x == [o[h] EXCEPT !.prev = k]
  <2>1. h \in OrderIds /\ right = [o EXCEPT ![h] = x] /\ o[h] \in OrderType
    BY <1>2 DEF NextSet, PrevSet
  <2>2. x \in OrderType /\ SameTrade(x, o[h]) /\ x.prev = k /\ x.next = o[h].next
    BY <2>1 DEF OrderType, SameTrade
  <2> HIDE DEF x
  <2>3. /\ right \in [OrderIds -> OrderType] /\ right[h] = x
        /\ \A i \in OrderIds : i # h => right[i] = o[i]
    BY <2>1, <2>2
  <2>4. \A i \in OrderIds : i # h => SameTrade(right[i], o[i])
    BY <2>3 DEF SameTrade
  <2> QED BY <2>2, <2>3, <2>4
<1> QED BY <1>1, <1>2

\* What _unlinkOrder and its callers write.
LEMMA UnlinkWrites ==
    ASSUME NEW b, NEW n \in Nat, Good(b, n), NEW id \in OrderIds, NEW s \in BookSides, NEW p \in Prices,
           At(b.orders[id], s, p)
    PROVE  CutAt(b, id, s, p, UnlinkOrder(b, id))
<1> DEFINE o     == b.orders
           prev  == o[id].prev
           next  == o[id].next
           level == b.levels[s][p]
           left  == IF prev = 0 THEN o ELSE [o EXCEPT ![prev].next = next]
           both  == IF next = 0 THEN left ELSE [left EXCEPT ![next].prev = prev]
           x     == [both[id] EXCEPT !.filled = o[id].amount, !.active = FALSE, !.prev = 0, !.next = 0]
           new   == [both EXCEPT ![id] = x]
           cut   == [b EXCEPT !.orders = new]
           head  == IF prev = 0 THEN next ELSE level.head
           open  == level.totalOpen - Remaining(o[id])
           row   == [head |-> head, tail |-> IF next = 0 THEN prev ELSE level.tail, totalOpen |-> open]
           c     == UnlinkOrder(b, id)
<1>1. /\ b \in BookType /\ o \in [OrderIds -> OrderType] /\ o[id] \in OrderType
      /\ b.levels \in [BookSides -> [Prices -> LevelType]] /\ b.best \in [BookSides -> Int]
      /\ b.bitmap \in [BookSides -> SUBSET Prices]
  BY DEF Good, BookType
<1>2. o[id].side = s /\ o[id].price = p
  BY DEF At
<1>3. c = IF head = 0 \/ open = 0 THEN DeactivatePrice(cut, s, p) ELSE [cut EXCEPT !.levels[s][p] = row]
  BY <1>2 DEF UnlinkOrder
<1>4. prev \in {0} \cup OrderIds /\ next \in {0} \cup OrderIds
  BY <1>1 DEF OrderType
<1> HIDE DEF c, cut, head, open, row, level, prev, next
<1>5. /\ left \in [OrderIds -> OrderType]
      /\ \A i \in OrderIds :
            /\ SameTrade(left[i], o[i])
            /\ left[i].next = (IF i = prev THEN next ELSE o[i].next) /\ left[i].prev = o[i].prev
            /\ i # prev => left[i] = o[i]
  <2>1. NextSet(o, prev, next, left)
    BY DEF NextSet
  <2>2. o \in [OrderIds -> OrderType]
    BY <1>1
  <2> HIDE DEF o, left
  <2> QED BY ONLY <1>4, <2>1, <2>2, NextWrites
<1> HIDE DEF left
<1>6. /\ both \in [OrderIds -> OrderType]
      /\ \A i \in OrderIds :
            /\ SameTrade(both[i], left[i])
            /\ both[i].prev = (IF i = next THEN prev ELSE left[i].prev) /\ both[i].next = left[i].next
            /\ i # next => both[i] = left[i]
  <2>1. PrevSet(left, next, prev, both)
    BY DEF PrevSet
  <2> HIDE DEF o, both
  <2> QED BY <1>4, <1>5, <2>1, PrevWrites
<1> HIDE DEF both
<1>7. /\ ~x.active /\ x.side = both[id].side /\ x.price = both[id].price
  BY <1>6 DEF OrderType
<1>8. new[id] = x /\ \A i \in OrderIds : i # id => new[i] = both[i]
  BY <1>6
<1> HIDE DEF x, new
<1>9. /\ ~new[id].active /\ At(new[id], s, p)
      /\ \A i \in OrderIds : i # id =>
            /\ SameTrade(new[i], o[i])
            /\ new[i].next = IF i = prev THEN next ELSE o[i].next
            /\ new[i].prev = IF i = next THEN prev ELSE o[i].prev
            /\ i # prev /\ i # next => new[i] = o[i]
  <2> HIDE DEF o
  <2>1. ~new[id].active /\ At(new[id], s, p)
    BY <1>2, <1>5, <1>6, <1>7, <1>8 DEF At, SameTrade
  <2>2. ASSUME NEW i \in OrderIds, i # id
        PROVE  /\ SameTrade(new[i], o[i])
               /\ new[i].next = IF i = prev THEN next ELSE o[i].next
               /\ new[i].prev = IF i = next THEN prev ELSE o[i].prev
               /\ i # prev /\ i # next => new[i] = o[i]
    BY <1>5, <1>6, <1>8, <2>2 DEF SameTrade
  <2> QED BY <2>1, <2>2
<1>10. cut.orders = new /\ cut.levels = b.levels /\ cut.bitmap = b.bitmap /\ cut.best = b.best
  BY <1>1 DEF cut, BookType
<1>11. CASE head = 0 \/ open = 0
  <2>1. c = DeactivatePrice(cut, s, p)
    BY <1>3, <1>11
  <2>2. /\ c.orders = cut.orders
        /\ c.levels = [cut.levels EXCEPT ![s][p] = EmptyLevel]
        /\ c.best = [cut.best EXCEPT ![s] = IF @ = p THEN BestOf(s, cut.bitmap[s] \ {p}) ELSE @]
    BY <1>1, <2>1 DEF DeactivatePrice, cut, BookType
  <2>3. Deactivated(b, s, p, DeactivatePrice(b, s, p)) /\ Away(b, DeactivatePrice(b, s, p), s)
    BY <1>1, DeactivateWrites, DeactivateAway
  <2>4. c.best = DeactivatePrice(b, s, p).best
    BY <1>10, <2>2, <2>3 DEF Deactivated
  <2>5. Away(b, c, s)
    BY <2>3, <2>4 DEF Away
  <2>6. /\ c.levels[s][p] = EmptyLevel
        /\ \A t \in BookSides, q \in Prices : t # s \/ q # p => c.levels[t][q] = b.levels[t][q]
    BY <1>1, <1>10, <2>2
  <2>7. c.orders = new
    BY <1>10, <2>2
  <2> QED BY <1>9, <1>11, <2>5, <2>6, <2>7 DEF CutAt, c, o, head, open, level, prev, next
<1>12. CASE ~(head = 0 \/ open = 0)
  <2>1. c = [cut EXCEPT !.levels[s][p] = row]
    BY <1>3, <1>12
  <2>2. /\ c.orders = cut.orders /\ c.levels = [cut.levels EXCEPT ![s][p] = row] /\ c.best = cut.best
    BY <1>1, <2>1 DEF cut, BookType
  <2>3. /\ c.levels[s][p] = row
        /\ \A t \in BookSides, q \in Prices : t # s \/ q # p => c.levels[t][q] = b.levels[t][q]
    BY <1>1, <1>10, <2>2
  <2>4. Away(b, c, s)
    BY <1>10, <2>2 DEF Away
  <2>5. c.orders = new
    BY <1>10, <2>2
  <2> QED BY <1>9, <1>12, <2>3, <2>4, <2>5 DEF CutAt, c, o, head, open, level, prev, next, row
<1> QED BY <1>11, <1>12

\* An order whose prev pointer does not name an order that is gone leaves its
\* queue intact.
LEMMA UnlinkQueue ==
    ASSUME NEW b, NEW n \in Nat, Good(b, n), WellQueued(b), NEW id \in OrderIds, b.orders[id].active,
           ~StalePrev(b, id), NEW s \in BookSides, NEW p \in Prices, At(b.orders[id], s, p),
           NEW c, CutAt(b, id, s, p, c)
    PROVE  WellQueued(c)
<1> DEFINE o == b.orders
           new == c.orders
           level == b.levels[s][p]
           S == QueueOf(o, s, p)
           prev == o[id].prev
           next == o[id].next
           head == IF prev = 0 THEN next ELSE level.head
           tail == IF next = 0 THEN prev ELSE level.tail
           open == level.totalOpen - Remaining(o[id])
           rest == [head |-> head, tail |-> tail, totalOpen |-> open]
<1>1. /\ ~new[id].active /\ At(new[id], s, p)
      /\ \A i \in OrderIds : i # id =>
            /\ SameTrade(new[i], o[i])
            /\ new[i].next = IF i = prev THEN next ELSE o[i].next
            /\ new[i].prev = IF i = next THEN prev ELSE o[i].prev
            /\ i # prev /\ i # next => new[i] = o[i]
      /\ \A t \in BookSides, q \in Prices : t # s \/ q # p => c.levels[t][q] = b.levels[t][q]
      /\ c.levels[s][p] = IF head = 0 \/ open = 0 THEN EmptyLevel ELSE rest
  BY DEF CutAt
<1>2. Queued(o, s, p, level)
  BY DEF WellQueued
<1>3. Chain(o, S, level.head, level.tail) /\ S \in SUBSET OrderIds /\ id \in S
  BY <1>2 DEF Queued, QueueOf, At
<1>4. /\ o[id] \in OrderType /\ OrderOK(o, n, id) /\ id \in Nat
      /\ prev \in {0} \cup OrderIds /\ next \in {0} \cup OrderIds
  BY OrderFacts DEF OrderType
<1>5. /\ prev # 0 => prev \in S
      /\ At(o[id], s, p)
  <2>1. prev # 0 => o[prev].active
    BY DEF StalePrev
  <2>2. prev # 0 => prev \in OrderIds /\ o[prev].side = s /\ o[prev].price = p
    BY <1>4 DEF OrderOK, Kin, At
  <2> HIDE DEF prev, o
  <2>3. At(o[id], s, p)
    BY DEF o
  <2> QED BY <2>1, <2>2, <2>3 DEF QueueOf
<1>6. /\ level.head \in S /\ \A j \in S : level.head <= j
      /\ \A i \in S : i \in Nat /\ i # 0
  BY <1>3 DEF Chain, IsFirst, OrderIds
<1>7. /\ next # 0 => next \in S /\ next > id
      /\ prev < id
      /\ id # level.head => prev \in S
  BY <1>3 DEF Chain, IsNext
<1>8. \A i \in OrderIds : \/ c.orders[i] = b.orders[i]
                          \/ At(c.orders[i], s, p) /\ (At(b.orders[i], s, p) \/ ~b.orders[i].active)
  <2> SUFFICES ASSUME NEW i \in OrderIds
               PROVE  new[i] = o[i] \/ (At(new[i], s, p) /\ (At(o[i], s, p) \/ ~o[i].active))
    OBVIOUS
  <2>1. CASE i = id
    BY <1>1, <1>5, <2>1
  <2>2. CASE i # id /\ (i = prev \/ i = next)
    <3>1. i \in S /\ SameTrade(new[i], o[i])
      BY <1>1, <1>5, <1>6, <1>7, <2>2 DEF OrderIds
    <3>2. At(o[i], s, p)
      BY <3>1 DEF QueueOf, At
    <3> HIDE DEF o, new
    <3> QED BY <3>1, <3>2 DEF At, SameTrade
  <2>3. CASE i # id /\ i # prev /\ i # next
    BY <1>1, <2>3
  <2> QED BY <2>1, <2>2, <2>3
<1>9. \A t \in BookSides, q \in Prices : t # s \/ q # p => c.levels[t][q] = b.levels[t][q]
  BY <1>1
<1>10. QueueOf(new, s, p) = S \ {id}
  <2>1. \A i \in OrderIds : i # id => /\ new[i].active = o[i].active
                                      /\ new[i].side = o[i].side /\ new[i].price = o[i].price
    BY <1>1 DEF SameTrade
  <2>2. ~new[id].active
    BY <1>1
  <2> HIDE DEF new, o
  <2> QED BY <2>1, <2>2 DEF QueueOf
<1>11. \A i \in S \ {id} : new[i].amount = o[i].amount /\ new[i].filled = o[i].filled
  BY <1>1, <1>3 DEF SameTrade
<1>12. prev = 0 <=> id = level.head
  <2> HIDE DEF level, prev, S
  <2>1. ASSUME prev = 0, id # level.head PROVE FALSE
    BY <1>6, <1>7, <2>1
  <2>2. ASSUME prev # 0, id = level.head PROVE FALSE
    <3>1. prev \in S /\ prev \in Nat /\ prev < id /\ id <= prev
      BY <1>5, <1>6, <1>7, <2>2
    <3> QED BY <1>4, <3>1
  <2> QED BY <2>1, <2>2
<1> HIDE DEF level, S, prev, next
<1>13. CutOut(o, new, S, id, level.head, level.tail, rest.head, rest.tail)
  <2>1. o[id].prev = prev /\ o[id].next = next
    BY DEF prev, next
  <2>2. rest.head = head /\ rest.tail = tail
    OBVIOUS
  <2> HIDE DEF rest, o, new
  <2>3. (IF id = level.head THEN 0 ELSE o[id].prev) = prev
    BY <1>12, <2>1
  <2>4. rest.head = IF id = level.head THEN o[id].next ELSE level.head
    BY <1>12, <2>1, <2>2
  <2>5. rest.tail = IF o[id].next = 0 THEN prev ELSE level.tail
    BY <2>1, <2>2
  <2>6. ASSUME NEW i \in S \ {id}
        PROVE  /\ new[i].next = IF i = prev THEN next ELSE o[i].next
               /\ i # next => new[i].prev = o[i].prev
               /\ i = next => new[i].prev < i /\ new[i].prev = prev
    <3>1. i \in OrderIds /\ i # id /\ i # 0 /\ i \in Nat
      BY <1>3, <1>6
    <3>2. /\ new[i].next = IF i = prev THEN next ELSE o[i].next
          /\ new[i].prev = IF i = next THEN prev ELSE o[i].prev
      BY <1>1, <3>1
    <3>3. i = next => prev < i
      <4>1. i = next => next > id /\ prev < id
        BY <1>7, <3>1
      <4> QED BY <1>4, <3>1, <4>1 DEF OrderIds
    <3> QED BY <3>2, <3>3
  <2> QED BY <2>1, <2>3, <2>4, <2>5, <2>6 DEF CutOut
<1>14. Queued(new, s, p, rest) /\ (rest.head = 0 \/ rest.totalOpen = 0 => Queued(new, s, p, EmptyLevel))
  <2>1. rest.totalOpen = level.totalOpen - Remaining(o[id])
    OBVIOUS
  <2>2. S = QueueOf(o, s, p)
    BY DEF S
  <2> HIDE DEF rest, o, new
  <2> QED BY ONLY <1>2, <1>3, <1>10, <1>11, <1>13, <2>1, <2>2, QueueLoses
<1>15. Queued(c.orders, s, p, c.levels[s][p])
  <2>1. rest.head = head /\ rest.totalOpen = open
    OBVIOUS
  <2>2. c.levels[s][p] = IF head = 0 \/ open = 0 THEN EmptyLevel ELSE rest
    BY <1>1
  <2> HIDE DEF rest, head, open
  <2> QED BY <1>14, <2>1, <2>2
<1> QED BY <1>8, <1>9, <1>15, OneLevel

IsCrossed(b) == b.best["BUY"] >= b.best["SELL"]

\* A best price that moves away crosses nothing.
LEMMA AwayUncrossed ==
    ASSUME NEW b, NEW c, NEW s \in BookSides, Away(b, c, s), ~IsCrossed(b),
           b.best \in [BookSides -> Int], c.best \in [BookSides -> Int]
    PROVE  ~IsCrossed(c)
<1>1. "BUY" \in BookSides /\ "SELL" \in BookSides
  BY DEF BookSides
<1>2. /\ b.best["BUY"] \in Int /\ b.best["SELL"] \in Int /\ c.best["BUY"] \in Int /\ c.best["SELL"] \in Int
      /\ b.best["BUY"] < b.best["SELL"]
  BY <1>1 DEF IsCrossed
<1>3. CASE s = "BUY"
  <2>1. c.best["SELL"] = b.best["SELL"] /\ c.best["BUY"] <= b.best["BUY"]
    BY <1>1, <1>2, <1>3 DEF Away, Better
  <2> QED BY <1>2, <2>1 DEF IsCrossed
<1>4. CASE s = "SELL"
  <2>1. c.best["BUY"] = b.best["BUY"] /\ c.best["SELL"] >= b.best["SELL"]
    BY <1>1, <1>2, <1>4 DEF Away, Better
  <2> QED BY <1>2, <2>1 DEF IsCrossed
<1> QED BY <1>3, <1>4 DEF BookSides

\* An order that comes to rest crosses the book only at a price that it crosses itself.
LEMMA RestCrosses ==
    ASSUME NEW b, NEW n, Good(b, n), NEW side \in BookSides, NEW price \in Prices, ~IsCrossed(b),
           NEW c, IsCrossed(c),
           c.best[side] = IF Better(side, price, b.best[side]) THEN price ELSE b.best[side],
           \A t \in BookSides : t # side => c.best[t] = b.best[t]
    PROVE  Crosses(b, side, price)
<1>1. "BUY" \in BookSides /\ "SELL" \in BookSides /\ price \in 1 .. (MAX_PRICE - 1)
  BY PriceAssumption DEF BookSides
<1>2. b.best["BUY"] \in Int /\ b.best["SELL"] \in Int /\ b.best["BUY"] < b.best["SELL"]
  BY <1>1 DEF Good, BookType, IsCrossed
<1>3. CASE side = "BUY"
  <2>1. c.best["SELL"] = b.best["SELL"] /\ c.best["BUY"] >= c.best["SELL"]
    BY <1>1, <1>3 DEF IsCrossed
  <2>2. c.best["BUY"] = price
    BY <1>2, <1>3, <2>1
  <2>3. price >= b.best["SELL"] /\ b.best["SELL"] # MAX_PRICE
    BY <1>1, <1>2, <2>1, <2>2 DEF MAX_PRICE
  <2> QED BY <1>1, <1>2, <1>3, <2>3, SMTT(30) DEF Crosses, Opposite, NoBest, Better, MAX_PRICE
<1>4. CASE side = "SELL"
  <2>1. c.best["BUY"] = b.best["BUY"] /\ c.best["BUY"] >= c.best["SELL"]
    BY <1>1, <1>4 DEF IsCrossed
  <2>2. c.best["SELL"] = price
    BY <1>2, <1>4, <2>1
  <2>3. price <= b.best["BUY"] /\ b.best["BUY"] # 0
    BY <1>1, <1>2, <2>1, <2>2 DEF MAX_PRICE
  <2> QED BY <1>1, <1>2, <1>4, <2>3 DEF Crosses, Opposite, NoBest, Better, MAX_PRICE
<1> QED BY <1>3, <1>4 DEF BookSides

\* What placing order id does to intact queues.
PlacedQueues(b, id, c) ==
    /\ WellQueued(c) /\ Served(b, c)
    /\ IsCrossed(c) /\ ~IsCrossed(b) => Cardinality(HitSet(b, c)) >= MaxMatchIterations

\* What is left of an order rests, when something is left and it met no order of its maker.
LEMMA RestedQueues ==
    ASSUME NEW b, NEW id \in OrderIds, Good(b, id), NEW side \in BookSides, NEW price \in Prices, NEW amount,
           NEW m, RunDone(b, id, m, side, price, amount, MaxMatchIterations), m.remaining > 0, ~m.selfTrade,
           NEW c, RestedAt(m.book, id, side, price, m.remaining, c)
    PROVE  PlacedQueues(b, id, c)
<1> DEFINE k == m.book
           s == Opposite(side)
           tail == k.levels[side][price].tail
<1>1. /\ RunOK(m, b, id, side, price, amount) /\ QueueRun(b, m, s)
      /\ Counted(b, m, side, price, MaxMatchIterations)
  BY DEF RunDone
<1>2. Good(k, id) /\ Lot(m.remaining) /\ WellQueued(k) /\ Away(b, k, s) /\ Served(b, k) /\ ~m.reverted
  BY <1>1 DEF RunOK, QueueRun
<1> HIDE DEF k, tail, s
<1>3. m.remaining \in Nat \ {0} /\ RestedAt(k, id, side, price, m.remaining, c) /\ s \in BookSides
  BY <1>2 DEF Lot, k, s, Opposite, BookSides
<1>4. WellQueued(c)
  BY <1>2, <1>3, RestQueue
<1>5. ~b.orders[id].active /\ id \in Nat
  BY OrderFacts DEF OrderOK, OrderIds
<1>6. \A i \in OrderIds : i # id => SameTrade(c.orders[i], k.orders[i])
  <2> SUFFICES ASSUME NEW i \in OrderIds, i # id PROVE SameTrade(c.orders[i], k.orders[i])
    OBVIOUS
  <2>1. CASE i = tail
    BY <1>3, <2>1 DEF RestedAt, tail
  <2>2. CASE i # tail
    <3>1. c.orders[i] = k.orders[i]
      BY <1>3, <2>2 DEF RestedAt, tail
    <3> QED BY <3>1 DEF SameTrade
  <2> QED BY <2>1, <2>2
<1>7. \A i \in OrderIds : Hit(b, c, i) <=> Hit(b, k, i)
  BY <1>5, <1>6 DEF Hit, SameTrade
<1>8. Served(b, c)
  <2> SUFFICES ASSUME NEW i \in OrderIds, NEW j \in OrderIds, Hit(b, c, j), b.orders[i].active, Ahead(b.orders, i, j)
               PROVE  Remaining(c.orders[i]) = 0
    BY DEF Served
  <2>1. Remaining(k.orders[i]) = 0
    BY <1>2, <1>7 DEF Served
  <2>2. i # id
    BY <1>5
  <2> QED BY <1>6, <2>1, <2>2 DEF SameTrade, Remaining
<1>9. ASSUME IsCrossed(c), ~IsCrossed(b) PROVE Cardinality(HitSet(b, c)) >= MaxMatchIterations
  <2>1. b.best \in [BookSides -> Int] /\ k.best \in [BookSides -> Int]
    BY <1>2 DEF Good, BookType
  <2>2. ~IsCrossed(k)
    BY <1>2, <1>3, <1>9, <2>1, AwayUncrossed
  <2>3. /\ c.best[side] = IF Better(side, price, k.best[side]) THEN price ELSE k.best[side]
        /\ \A t \in BookSides : t # side => c.best[t] = k.best[t]
    BY <1>3 DEF RestedAt
  <2>4. Crosses(k, side, price)
    BY <1>2, <1>9, <2>2, <2>3, RestCrosses
  <2>5. Continues(m, side, price)
    BY <1>2, <2>4 DEF Continues, k
  <2>6. Cardinality(HitSet(b, k)) >= MaxMatchIterations
    BY <1>1, <2>5 DEF Counted, k
  <2>7. HitSet(b, c) = HitSet(b, k)
    BY <1>7 DEF HitSet
  <2> QED BY <2>6, <2>7
<1> QED BY <1>4, <1>8, <1>9 DEF PlacedQueues

\* c is b with order id kept as a record.
Kept(b, id, order, c) ==
    c.orders = [b.orders EXCEPT ![id] = order] /\ c.levels = b.levels /\ c.best = b.best

\* What is left of any other order is kept as a record.
LEMMA RecordedQueues ==
    ASSUME NEW b, NEW id \in OrderIds, Good(b, id), NEW side \in BookSides, NEW price \in Prices, NEW amount,
           NEW m, RunDone(b, id, m, side, price, amount, MaxMatchIterations),
           NEW order, ~order.active,
           NEW c, Kept(m.book, id, order, c)
    PROVE  PlacedQueues(b, id, c)
<1> DEFINE k == m.book
           s == Opposite(side)
<1>1. RunOK(m, b, id, side, price, amount) /\ QueueRun(b, m, s)
  BY DEF RunDone
<1>2. Good(k, id) /\ WellQueued(k) /\ Away(b, k, s) /\ Served(b, k)
  BY <1>1 DEF RunOK, QueueRun
<1>3. s \in BookSides
  BY DEF Opposite, BookSides
<1> HIDE DEF k, s
<1>4. c.orders = [k.orders EXCEPT ![id] = order] /\ c.levels = k.levels /\ c.best = k.best
  BY DEF k, Kept
<1>5. WellQueued(c)
  BY <1>2, <1>4, RecordQueue
<1>6. ~b.orders[id].active /\ id \in Nat
  BY OrderFacts DEF OrderOK, OrderIds
<1>7. \A i \in OrderIds : i # id => c.orders[i] = k.orders[i]
  BY <1>2, <1>4 DEF Good, BookType
<1>8. Served(b, c)
  <2> SUFFICES ASSUME NEW i \in OrderIds, NEW j \in OrderIds, Hit(b, c, j), b.orders[i].active, Ahead(b.orders, i, j)
               PROVE  Remaining(c.orders[i]) = 0
    BY DEF Served
  <2>1. i # id /\ j # id
    BY <1>6 DEF Hit
  <2>2. Hit(b, k, j)
    BY <1>7, <2>1 DEF Hit
  <2> QED BY <1>2, <1>7, <2>1, <2>2 DEF Served
<1>9. ASSUME ~IsCrossed(b) PROVE ~IsCrossed(c)
  <2>1. b.best \in [BookSides -> Int] /\ k.best \in [BookSides -> Int]
    BY <1>2 DEF Good, BookType
  <2>2. ~IsCrossed(k)
    BY <1>2, <1>3, <1>9, <2>1, AwayUncrossed
  <2> QED BY <1>4, <2>2 DEF IsCrossed
<1> QED BY <1>5, <1>8, <1>9 DEF PlacedQueues

\* placeOrder
LEMMA PlaceQueues ==
    ASSUME NEW b, NEW id \in OrderIds, Good(b, id), b.nextOrderId = id, WellQueued(b), NEW side \in BookSides,
           NEW price \in Prices, NEW amount \in Amounts, NEW t \in Traders, NEW rests \in BOOLEAN,
           NEW m, m = Matching(b, t, side, price, amount), rests => m.remaining > 0 /\ ~m.selfTrade,
           NEW order, order = Order(side, price, t, amount, amount - m.remaining),
           NEW c, c = IF rests THEN RestOrder(m.book, id, order)
                      ELSE [m.book EXCEPT !.orders[id] = order]
    PROVE  PlacedQueues(b, id, c)
<1>1. id \in Nat /\ Lot(amount)
  BY AmountAssumption DEF OrderIds, Lot
<1>2. RunDone(b, id, m, side, price, amount, MaxMatchIterations)
  BY <1>1, MatchingQueues
<1>3. /\ m.book \in BookType /\ Good(m.book, id) /\ Lot(m.remaining) /\ m.remaining <= amount
  BY <1>2 DEF RunDone, RunOK, RunType
<1>4. /\ amount \in Nat /\ m.remaining \in Nat /\ amount - m.remaining \in Nat
      /\ amount - (amount - m.remaining) = m.remaining
  BY <1>1, <1>3 DEF Lot
<1> DEFINE filled == amount - m.remaining
<1>5. order = [side |-> side, price |-> price, maker |-> t, amount |-> amount, filled |-> filled,
               prev |-> 0, next |-> 0, active |-> FALSE]
  BY DEF Order, NoOrder
<1>6. /\ order \in OrderType /\ At(order, side, price) /\ order.next = 0 /\ ~order.active
      /\ Remaining(order) = m.remaining
  <2>1. /\ side \in BookSides /\ price \in Prices \cup {0} /\ t \in Traders \cup {NoTrader}
        /\ amount \in Nat /\ filled \in Nat /\ amount - filled = m.remaining
    BY <1>4
  <2>2. 0 \in {0} \cup OrderIds /\ FALSE \in BOOLEAN
    OBVIOUS
  <2> HIDE DEF filled
  <2>3. order \in OrderType
    BY ONLY <1>5, <2>1, <2>2 DEF OrderType
  <2> QED BY ONLY <1>5, <2>1, <2>3 DEF At, Remaining
<1>7. CASE rests
  <2>1. c = RestOrder(m.book, id, order)
    BY <1>7
  <2>2. RestedAt(m.book, id, side, price, Remaining(order), RestOrder(m.book, id, order))
    BY <1>3, <1>6, RestWrites
  <2>3. RestedAt(m.book, id, side, price, m.remaining, c)
    BY <1>6, <2>1, <2>2
  <2> QED BY <1>2, <1>7, <2>3, RestedQueues
<1>8. CASE ~rests
  <2>1. c = [m.book EXCEPT !.orders[id] = order]
    BY <1>8
  <2>2. Kept(m.book, id, order, c)
    BY <1>3, <2>1 DEF BookType, Kept
  <2> QED BY <1>2, <1>6, <2>2, RecordedQueues
<1> QED BY <1>7, <1>8

-----------------------------------------------------------------------------
(* The steps of IntactSpec. *)

\* What a step does to the queues of a book: it places an order, or leaves what
\* rests in order and crosses nothing.
StepKept(b, c) ==
    \/ c.nextOrderId # b.nextOrderId /\ PlacedQueues(b, b.nextOrderId, c)
    \/ c.nextOrderId = b.nextOrderId /\ WellQueued(c) /\ (IsCrossed(c) => IsCrossed(b))

AllQueued == \A d \in Duels : WellQueued(books[d])

\* The invariant says of each book what the lemmas on books ask for.
LEMMA BookFacts ==
    ASSUME ClobInv, NEW d \in Duels
    PROVE  /\ Good(books[d], books[d].nextOrderId) /\ books[d].nextOrderId \in Nat
           /\ books[d] \in BookType /\ books[d].best \in [BookSides -> Int]
           /\ books \in [Duels -> BookType]
<1>1. SoundBook(books[d], feed[d]) /\ books \in [Duels -> BookType]
  BY DEF ClobInv, VaultInv, BooksInv
<1>2. Good(books[d], books[d].nextOrderId) /\ books[d].nextOrderId \in Nat
  BY <1>1, WorthIsWhole DEF SoundBook
<1> QED BY <1>1, <1>2 DEF Good, BookType

\* A book whose orders, levels and best prices stay keeps its queues.
LEMMA SameQueues ==
    ASSUME NEW b, WellQueued(b), NEW c, c.orders = b.orders, c.levels = b.levels, c.best = b.best,
           c.nextOrderId = b.nextOrderId
    PROVE  StepKept(b, c)
BY DEF StepKept, WellQueued, IsCrossed

\* placeOrder
LEMMA PlaceKeepsQueues ==
    ASSUME ClobInv, AllQueued, NEW x \in Duels, NEW t \in Traders, Place(x, t), NEW d \in Duels
    PROVE  StepKept(books[d], books'[d])
<1>1. PICK side \in BookSides, price \in Prices, amount \in Amounts, flag \in Flags :
          PlaceOrder(x, t, side, price, amount, flag)
  BY DEF Place
<1> DEFINE b     == books[x]
           id    == b.nextOrderId
           m     == Matching(b, t, side, price, amount)
           order == Order(side, price, t, amount, amount - m.remaining)
           rests == m.remaining > 0 /\ flag # "IOC" /\ ~m.selfTrade
           c     == IF rests THEN RestOrder(m.book, id, order) ELSE [m.book EXCEPT !.orders[id] = order]
<1>2. id \in OrderIds /\ books' = [books EXCEPT ![x] = c]
  BY <1>1 DEF PlaceOrder
<1>3. Good(b, id) /\ WellQueued(b) /\ books \in [Duels -> BookType]
  BY BookFacts DEF AllQueued
<1>4. rests \in BOOLEAN /\ (rests => m.remaining > 0 /\ ~m.selfTrade)
  OBVIOUS
<1>5. PlacedQueues(b, id, c)
  BY <1>2, <1>3, <1>4, PlaceQueues
<1> HIDE DEF c
<1>6. books'[x] = c /\ \A y \in Duels : y # x => books'[y] = books[y]
  BY <1>2, <1>3
<1>7. c.nextOrderId = id + 1
  <2>1. PICK c2, paid : /\ PlacedBook(books[x], books[x].nextOrderId, side, price, amount, c2, paid)
                        /\ books' = [books EXCEPT ![x] = c2]
    BY <1>1, PlaceEffect DEF ClobInv
  <2>2. c2 = c
    BY <1>3, <1>6, <2>1
  <2> QED BY <2>1, <2>2 DEF PlacedBook
<1>8. c.nextOrderId # b.nextOrderId
  BY <1>2, <1>7 DEF OrderIds
<1>9. CASE d = x
  BY <1>5, <1>6, <1>8, <1>9 DEF StepKept
<1>10. CASE d # x
  <2>1. books'[d] = books[d] /\ WellQueued(books[d])
    BY <1>6, <1>10 DEF AllQueued
  <2> QED BY <2>1, SameQueues
<1> QED BY <1>9, <1>10

\* cancelOrder and reclaimRestingOrder of an order whose predecessor is not gone.
LEMMA TakeKeepsQueues ==
    ASSUME ClobInv, AllQueued, NEW x \in Duels, NEW t \in Traders, IntactTake(x, t), NEW d \in Duels
    PROVE  StepKept(books[d], books'[d])
<1>1. PICK id \in OrderIds : ~StalePrev(books[x], id) /\ Withdrawable(x, t, id) /\ Withdraw(x, id)
  BY DEF IntactTake, CancelOrder, ReclaimRestingOrder, CanCancel, CanReclaim
<1> DEFINE b == books[x]
           n == b.nextOrderId
           s == b.orders[id].side
           p == b.orders[id].price
           c == UnlinkOrder(b, id)
<1>2. /\ Good(b, n) /\ n \in Nat /\ WellQueued(b) /\ books \in [Duels -> BookType] /\ b.best \in [BookSides -> Int]
  BY BookFacts DEF AllQueued
<1>3. /\ b.orders[id].active /\ Remaining(b.orders[id]) > 0 /\ ~UnlinkReverts(b, id)
      /\ books' = [books EXCEPT ![x] = c]
  BY <1>1 DEF Withdrawable, Withdraw
<1>4. Good(c, n) /\ c.nextOrderId = n
  BY <1>2, <1>3, WithdrawBook
<1>5. s \in BookSides /\ p \in Prices /\ At(b.orders[id], s, p)
  <2>1. b.orders[id] \in OrderType /\ OrderOK(b.orders, n, id)
    BY <1>2, OrderFacts
  <2> QED BY <1>3, <2>1 DEF OrderOK, OrderType, At
<1> HIDE DEF s, p
<1>6. CutAt(b, id, s, p, UnlinkOrder(b, id))
  BY <1>2, <1>5, UnlinkWrites
<1>7. CutAt(b, id, s, p, c)
  BY <1>6
<1> HIDE DEF c
<1>8. WellQueued(c)
  BY <1>1, <1>2, <1>3, <1>5, <1>7, UnlinkQueue
<1>9. IsCrossed(c) => IsCrossed(b)
  <2>1. Away(b, c, s) /\ c.best \in [BookSides -> Int]
    BY <1>4, <1>7 DEF CutAt, Good, BookType
  <2> QED BY <1>2, <1>5, <2>1, AwayUncrossed
<1>10. books'[x] = c /\ \A y \in Duels : y # x => books'[y] = books[y]
  BY <1>2, <1>3
<1>11. CASE d = x
  BY <1>4, <1>8, <1>9, <1>10, <1>11 DEF StepKept
<1>12. CASE d # x
  <2>1. books'[d] = books[d] /\ WellQueued(books[d])
    BY <1>10, <1>12 DEF AllQueued
  <2> QED BY <2>1, SameQueues
<1> QED BY <1>11, <1>12

\* claim
LEMMA ClaimKeepsQueues ==
    ASSUME ClobInv, AllQueued, NEW x \in Duels, NEW t \in Traders, Claim(x, t), NEW d \in Duels
    PROVE  StepKept(books[d], books'[d])
<1> DEFINE b == books[x]
           c == [b EXCEPT !.positions[t] = NoPosition]
<1>1. books \in [Duels -> BookType] /\ b \in BookType /\ WellQueued(books[d])
  BY BookFacts DEF AllQueued
<1>2. books' = [books EXCEPT ![x] = c]
  BY <1>1 DEF Claim
<1>3. c.orders = b.orders /\ c.levels = b.levels /\ c.best = b.best /\ c.nextOrderId = b.nextOrderId
  BY <1>1 DEF BookType
<1> HIDE DEF c
<1>4. /\ books'[d].orders = books[d].orders /\ books'[d].levels = books[d].levels
      /\ books'[d].best = books[d].best /\ books'[d].nextOrderId = books[d].nextOrderId
  BY <1>1, <1>2, <1>3
<1> QED BY <1>1, <1>4, SameQueues

\* A step of IntactSpec is one of Spec.
LEMMA IntactIsNext == ASSUME [IntactNext]_vars PROVE [Next]_vars
<1>1. ASSUME NEW d \in Duels, NEW t \in Traders, IntactTake(d, t) PROVE Take(d, t)
  BY <1>1 DEF IntactTake, Take
<1>2. ASSUME NEW d \in Duels, IntactMarketStep(d) PROVE MarketStep(d)
  BY <1>1, <1>2 DEF IntactMarketStep, MarketStep
<1> QED BY <1>2 DEF IntactNext, Next

\* Every step of IntactSpec keeps the queues of every book.
LEMMA IntactKeepsQueues ==
    ASSUME ClobInv, AllQueued, [IntactNext]_vars, NEW d \in Duels
    PROVE  StepKept(books[d], books'[d])
<1>1. CASE books' = books
  BY <1>1, SameQueues DEF AllQueued
<1>2. OracleStep \/ UNCHANGED vars => books' = books
  BY DEF OracleStep, vars, clobVars
<1>3. VaultStep \/ (\E p \in ClobPausers : SwitchStep(p)) => books' = books
  BY OtherStepKeepsVault
<1>4. ASSUME NEW x \in Duels, IntactMarketStep(x) PROVE StepKept(books[d], books'[d])
  <2>1. CreateMarketForDuel(x) \/ SyncMarketFromOracle(x) => books' = books
    BY DEF CreateMarketForDuel, SyncMarketFromOracle
  <2> QED BY <1>1, <1>4, <2>1, PlaceKeepsQueues, TakeKeepsQueues, ClaimKeepsQueues DEF IntactMarketStep
<1> QED BY <1>1, <1>2, <1>3, <1>4 DEF IntactNext

-----------------------------------------------------------------------------
(* What the queues and the vault give to those who trade. *)

\* No order was ever placed in a market that does not exist.
MarketsFirst == \A d \in Duels : ~markets[d].exists => books[d].nextOrderId = 1

IntactInv == ClobInv /\ AllQueued /\ MarketsFirst

\* The vault covers each book.
LEMMA WorthInVault ==
    ASSUME ClobInv, NEW d \in Duels
    PROVE  Worth(books[d], feed[d]) \in Nat /\ Worth(books[d], feed[d]) <= balance + swept
<1> DEFINE f == [x \in Duels |-> Worth(books[x], feed[x])]
<1>1. \A x \in Duels : Worth(books[x], feed[x]) \in Nat
  BY WorthIsWhole DEF ClobInv, VaultInv, BooksInv
<1>2. f \in [Duels -> Int] /\ \A x \in Duels : f[x] \in Nat
  BY <1>1
<1>3. f[d] = Worth(books[d], feed[d]) /\ Vault = SumFunction(f)
  BY DEF Vault
<1> HIDE DEF f
<1>4. SumFunction(f) \in Nat /\ f[d] <= SumFunction(f)
  BY <1>2, FiniteSets, TotalType, TotalBounds
<1>5. balance + swept = donated + Vault /\ donated \in Nat /\ balance \in Nat /\ swept \in Nat
  BY DEF ClobInv, VaultInv, MoneyInv
<1> QED BY <1>1, <1>3, <1>4, <1>5

\* What a settled duel pays a position is part of what it owes.
LEMMA PayoutOwed ==
    ASSUME ClobInv, NEW d \in Duels, NEW t \in Traders, feed[d].status \in {"RESOLVED", "CANCELLED"}
    PROVE  /\ Payout(d, t) \in Nat /\ Payout(d, t) <= Owed(books[d], feed[d])
           /\ Synced(d).status = feed[d].status
<1> DEFINE b == books[d]
           z == b.positions[t]
<1>1. b \in BookType /\ SoundBook(b, feed[d])
  BY BookFacts DEF ClobInv, VaultInv, BooksInv
<1>2. Synced(d).status = feed[d].status
  BY DEF Synced, MapDuelStatus
<1>3. NoPosition \in PositionType /\ NoPosition.aShares = 0 /\ NoPosition.bShares = 0
  BY DEF NoPosition, PositionType
<1>4. /\ z \in PositionType
      /\ \A y \in Traders : b.positions[y] \in PositionType
  BY <1>1 DEF BookType
<1> HIDE DEF b
<1>5. ASSUME NEW g \in [Traders -> Nat] PROVE g[t] <= SumFunction(g) /\ SumFunction(g) \in Nat
  <2>1. g \in [Traders -> Int] /\ \A y \in Traders : g[y] \in Nat
    OBVIOUS
  <2> QED BY <2>1, FiniteSets, TotalType, TotalBounds
<1> DEFINE fa == [y \in Traders |-> b.positions[y].aShares]
           fb == [y \in Traders |-> b.positions[y].bShares]
           fs == [y \in Traders |-> Stakes(b, y)]
<1>6. /\ fa \in [Traders -> Nat] /\ fb \in [Traders -> Nat] /\ fs \in [Traders -> Nat]
      /\ fa[t] = z.aShares /\ fb[t] = z.bShares /\ fs[t] = z.aStake + z.bStake
      /\ ATotal(b) = SumFunction(fa) /\ BTotal(b) = SumFunction(fb) /\ StakeTotal(b) = SumFunction(fs)
  <2>1. \A x \in PositionType : x.aShares \in Nat /\ x.bShares \in Nat /\ x.aStake + x.bStake \in Nat
    BY DEF PositionType
  <2> QED BY <1>4, <2>1 DEF ATotal, BTotal, StakeTotal, Stakes
<1> HIDE DEF fa, fb, fs, z
<1>7. /\ z.aShares \in Nat /\ z.bShares \in Nat /\ z.aStake + z.bStake \in Nat
      /\ z.aShares <= ATotal(b) /\ z.bShares <= BTotal(b) /\ z.aStake + z.bStake <= StakeTotal(b)
  <2>1. /\ fa[t] \in Nat /\ fb[t] \in Nat /\ fs[t] \in Nat
        /\ fa[t] <= SumFunction(fa) /\ fb[t] <= SumFunction(fb) /\ fs[t] <= SumFunction(fs)
    BY <1>5, <1>6
  <2> QED BY <1>6, <2>1
<1>8. CASE feed[d].status = "RESOLVED"
  <2>1. Payout(d, t) = IF feed[d].winner = "A" THEN z.aShares ELSE z.bShares
    BY <1>2, <1>8 DEF Payout, Synced, z, b
  <2>2. Owed(b, feed[d]) = IF feed[d].winner = "A" THEN ATotal(b) ELSE BTotal(b)
    BY <1>8 DEF Owed
  <2> QED BY <1>2, <1>7, <2>1, <2>2 DEF b
<1>9. CASE feed[d].status = "CANCELLED"
  <2>1. Payout(d, t) = z.aStake + z.bStake
    BY <1>2, <1>9 DEF Payout, z, b
  <2>2. Owed(b, feed[d]) = StakeTotal(b)
    BY <1>9 DEF Owed
  <2> QED BY <1>2, <1>7, <2>1, <2>2 DEF b
<1> QED BY <1>8, <1>9

\* A settled position can be claimed.
LEMMA CanAlwaysClaim == ASSUME ClobInv PROVE ClaimsPayable
<1> SUFFICES ASSUME swept = 0, NEW d \in Duels, NEW t \in Traders,
                    markets[d].exists, feed[d].status \in {"RESOLVED", "CANCELLED"},
                    books[d].positions[t] # NoPosition
             PROVE  CanClaim(d, t)
  BY DEF ClaimsPayable
<1>1. /\ Payout(d, t) \in Nat /\ Payout(d, t) <= Owed(books[d], feed[d])
      /\ Synced(d).status \in {"RESOLVED", "CANCELLED"}
  BY PayoutOwed
<1>2. SoundBook(books[d], feed[d]) /\ balance \in Nat
  BY DEF ClobInv, VaultInv, BooksInv, MoneyInv
<1>3. /\ Owed(books[d], feed[d]) \in Nat /\ RestingTotal(books[d]) \in Nat
      /\ Worth(books[d], feed[d]) = RestingTotal(books[d]) + Owed(books[d], feed[d])
  BY <1>2, WorthIsWhole DEF Worth
<1>4. Worth(books[d], feed[d]) <= balance
  BY <1>2, WorthInVault
<1>5. Payout(d, t) <= balance
  BY <1>1, <1>2, <1>3, <1>4
<1> QED BY <1>1, <1>5 DEF CanClaim

\* The maker of an order in an intact queue can withdraw it.
LEMMA CanAlwaysWithdraw == ASSUME IntactInv PROVE RestingCollateralRecoverable
<1> SUFFICES ASSUME swept = 0, NEW d \in Duels, NEW id \in OpenOrders(books[d])
             PROVE  Withdrawable(d, books[d].orders[id].maker, id)
  BY DEF RestingCollateralRecoverable, CanCancel, CanReclaim
<1> DEFINE b == books[d]
           order == b.orders[id]
           s == order.side
           p == order.price
<1>1. /\ Good(b, b.nextOrderId) /\ b.nextOrderId \in Nat /\ WellQueued(b)
      /\ id \in OrderIds /\ order.active /\ id \in Nat /\ id # 0
  BY BookFacts DEF IntactInv, AllQueued, OpenOrders, OrderIds
<1>2. /\ order \in OrderType /\ OrderOK(b.orders, b.nextOrderId, id)
  BY <1>1, OrderFacts
<1>3. s \in BookSides /\ p \in Prices
  BY <1>1, <1>2 DEF OrderOK, OrderType
<1>4. markets[d].exists
  <2>1. b.nextOrderId # 1
    <3>1. order # NoOrder
      BY <1>1 DEF NoOrder
    <3>2. ~(id >= b.nextOrderId)
      BY <1>2, <3>1 DEF OrderOK
    <3> QED BY <1>1, <3>2
  <2> QED BY <2>1 DEF IntactInv, MarketsFirst
<1>5. Remaining(order) \in Nat /\ Remaining(order) > 0 /\ Remaining(order) <= b.levels[s][p].totalOpen
      /\ b.levels[s][p].totalOpen \in Nat
  <2>1. Queued(b.orders, s, p, b.levels[s][p])
    BY <1>1, <1>3 DEF WellQueued
  <2>2. id \in QueueOf(b.orders, s, p)
    BY <1>1 DEF QueueOf
  <2> HIDE DEF b, s, p
  <2>3. /\ Remaining(b.orders[id]) \in Nat /\ Remaining(b.orders[id]) > 0
        /\ Remaining(b.orders[id]) <= b.levels[s][p].totalOpen /\ b.levels[s][p].totalOpen \in Nat
    BY <2>1, <2>2, QueueFacts
  <2> QED BY <2>3
<1>6. ~UnlinkReverts(b, id)
  <2>1. UnlinkReverts(b, id) <=> b.levels[s][p].totalOpen < Remaining(order)
    BY DEF UnlinkReverts
  <2> HIDE DEF b, order, s, p
  <2> QED BY <1>5, <2>1
<1>7. Collateral(order) <= balance
  <2>1. Backing(order) = Collateral(order)
    BY <1>1 DEF Backing
  <2>2. Backing(order) \in Nat /\ Backing(order) <= RestingTotal(b)
    BY <1>1, TotalsAreWhole
  <2>3. SoundBook(b, feed[d]) /\ balance \in Nat
    BY DEF IntactInv, ClobInv, VaultInv, BooksInv, MoneyInv
  <2>4. /\ Owed(b, feed[d]) \in Nat /\ RestingTotal(b) \in Nat
        /\ Worth(b, feed[d]) = RestingTotal(b) + Owed(b, feed[d])
    BY <2>3, WorthIsWhole DEF Worth
  <2>5. Worth(b, feed[d]) <= balance
    BY <2>3, WorthInVault DEF IntactInv
  <2> HIDE DEF b, order
  <2> QED BY <2>1, <2>2, <2>3, <2>4, <2>5
<1> QED BY <1>1, <1>4, <1>5, <1>6, <1>7 DEF Withdrawable

\* Nothing is queued when the contract is deployed.
LEMMA IntactInit == ASSUME Init PROVE AllQueued /\ MarketsFirst
<1>1. books = [d \in Duels |-> EmptyBook] /\ EmptyBook.nextOrderId = 1
  BY DEF Init, ClobInit, EmptyBook
<1>2. /\ EmptyBook.orders = [i \in OrderIds |-> NoOrder]
      /\ EmptyBook.levels = [s \in BookSides |-> [p \in Prices |-> EmptyLevel]]
  BY DEF EmptyBook
<1>3. ASSUME NEW s \in BookSides, NEW p \in Prices
      PROVE  Queued(EmptyBook.orders, s, p, EmptyBook.levels[s][p])
  <2> DEFINE o == EmptyBook.orders
  <2>1. EmptyBook.levels[s][p].head = 0 /\ EmptyBook.levels[s][p].tail = 0 /\ EmptyBook.levels[s][p].totalOpen = 0
    BY <1>2 DEF EmptyLevel
  <2>2. QueueOf(o, s, p) = {}
    BY <1>2 DEF QueueOf, NoOrder
  <2> HIDE DEF o
  <2>3. OpenTotal(o, {}) = 0
    BY OpenFacts
  <2>4. Chain(o, {}, 0, 0)
    BY DEF Chain, IsFirst, IsLast
  <2> QED BY <2>1, <2>2, <2>3, <2>4 DEF Queued, o
<1> QED BY <1>1, <1>3 DEF AllQueued, WellQueued, MarketsFirst

\* A market exists from the first order on.
LEMMA MarketsStayFirst ==
    ASSUME ClobInv, MarketsFirst, [Next]_vars
    PROVE  MarketsFirst'
<1>1. markets \in [Duels -> MarketType] /\ books \in [Duels -> BookType]
  BY DEF ClobInv, CopyInv, VaultInv, BooksInv
<1> SUFFICES ASSUME NEW d \in Duels, ~markets'[d].exists PROVE books'[d].nextOrderId = 1
  BY DEF MarketsFirst
<1>2. ASSUME NEW x \in Duels, Sync(x) PROVE x # d /\ markets'[d] = markets[d]
  BY <1>1, <1>2 DEF Sync, Synced
<1>3. CASE UNCHANGED vars \/ OracleStep \/ VaultStep \/ \E p \in ClobPausers : SwitchStep(p)
  <2>1. markets' = markets /\ books' = books
    BY <1>3 DEF vars, clobVars, OracleStep, VaultStep, Receive, SweepETH, SwitchStep,
                SetMarketCreationPaused, SetOrderPlacementPaused, SetPauser
  <2> QED BY <2>1 DEF MarketsFirst
<1>4. ASSUME NEW x \in Duels, MarketStep(x) PROVE books'[d].nextOrderId = 1
  <2>1. CASE CreateMarketForDuel(x)
    <3>1. books' = books /\ markets' = [markets EXCEPT ![x] = [exists |-> TRUE, winner |-> "NONE",
                                          status |-> MapDuelStatus(feed[x].status)]]
      BY <2>1 DEF CreateMarketForDuel
    <3>2. x # d /\ markets'[d] = markets[d]
      BY <1>1, <3>1
    <3> QED BY <3>1, <3>2 DEF MarketsFirst
  <2>2. CASE SyncMarketFromOracle(x)
    BY <1>2, <2>2 DEF SyncMarketFromOracle, MarketsFirst
  <2>3. ASSUME NEW t \in Traders, Place(x, t) \/ Take(x, t) \/ Claim(x, t)
        PROVE  books'[d].nextOrderId = 1
    <3>1. Sync(x) /\ \E c : books' = [books EXCEPT ![x] = c]
      BY <2>3 DEF Place, PlaceOrder, Take, CancelOrder, ReclaimRestingOrder, Withdraw, Claim
    <3>2. books'[d] = books[d] /\ markets'[d] = markets[d]
      BY <1>1, <1>2, <3>1
    <3> QED BY <3>2 DEF MarketsFirst
  <2> QED BY <1>4, <2>1, <2>2, <2>3 DEF MarketStep
<1> QED BY <1>3, <1>4 DEF Next

\* No step of IntactSpec breaks the invariant.
LEMMA IntactInvInductive ==
    ASSUME IntactInv, [IntactNext]_vars
    PROVE  IntactInv'
<1>1. ClobInv /\ AllQueued /\ MarketsFirst /\ [Next]_vars
  BY IntactIsNext DEF IntactInv
<1>2. ClobInv' /\ MarketsFirst'
  BY <1>1, ClobInvInductive, MarketsStayFirst
<1>3. ASSUME NEW d \in Duels PROVE WellQueued(books'[d])
  <2>1. StepKept(books[d], books'[d])
    BY <1>1, IntactKeepsQueues
  <2> QED BY <2>1 DEF StepKept, PlacedQueues
<1>4. AllQueued'
  BY <1>3 DEF AllQueued
<1> QED BY <1>2, <1>4 DEF IntactInv

\* First, last and next elements are the extrema the property names.
LEMMA FirstIsMin ==
    ASSUME NEW S \in SUBSET OrderIds, NEW h, IsFirst(S, h)
    PROVE  h = IF S = {} THEN 0 ELSE Min(S)
<1>1. CASE h = 0
  BY <1>1 DEF IsFirst
<1>2. CASE h # 0
  <2>1. h \in S /\ \A j \in S : h <= j
    BY <1>2 DEF IsFirst
  <2>2. Min(S) \in S /\ \A j \in S : Min(S) <= j
    BY <2>1 DEF Min
  <2>3. ASSUME NEW z \in S, \A j \in S : z <= j PROVE z = h
    <3>1. h \in Nat /\ z \in Nat /\ h <= z /\ z <= h
      BY <2>1, <2>3 DEF OrderIds
    <3> QED BY ONLY <3>1
  <2>4. h = Min(S)
    BY <2>2, <2>3
  <2> QED BY <2>1, <2>4
<1> QED BY <1>1, <1>2

\* The last element is the greatest.
LEMMA LastIsMax ==
    ASSUME NEW S \in SUBSET OrderIds, NEW h, IsLast(S, h)
    PROVE  h = IF S = {} THEN 0 ELSE Max(S)
<1>1. CASE h = 0
  BY <1>1 DEF IsLast
<1>2. CASE h # 0
  <2>1. h \in S /\ \A j \in S : j <= h
    BY <1>2 DEF IsLast
  <2>2. Max(S) \in S /\ \A j \in S : Max(S) >= j
    <3>1. \A j \in S : h >= j
      BY <2>1 DEF OrderIds
    <3> QED BY <2>1, <3>1 DEF Max
  <2>3. ASSUME NEW z \in S, \A j \in S : z >= j PROVE z = h
    <3>1. h \in Nat /\ z \in Nat /\ h <= z /\ z <= h
      BY <2>1, <2>3 DEF OrderIds
    <3> QED BY ONLY <3>1
  <2>4. h = Max(S)
    BY <2>2, <2>3
  <2> QED BY <2>1, <2>4
<1> QED BY <1>1, <1>2

\* What IntactInv says of the queues is what the runs check of them.
LEMMA QueuesAreWellFormed == ASSUME IntactInv PROVE BookWellFormed
<1> SUFFICES ASSUME NEW d \in Duels
             PROVE  LET b == books[d]
                    IN  /\ \A s \in BookSides, p \in Prices :
                              LET queue == Queue(b, s, p)
                              IN  /\ b.levels[s][p].head = (IF queue = {} THEN 0 ELSE Min(queue))
                                  /\ b.levels[s][p].tail = (IF queue = {} THEN 0 ELSE Max(queue))
                                  /\ b.levels[s][p].totalOpen =
                                        SumFunctionOnSet([i \in queue |-> Remaining(b.orders[i])], queue)
                        /\ \A i \in OpenOrders(b) :
                              /\ Remaining(b.orders[i]) > 0
                              /\ b.orders[i].next = (IF Behind(b, i) = {} THEN 0 ELSE Min(Behind(b, i)))
                              /\ b.orders[i].next # 0 => b.orders[b.orders[i].next].prev = i
  BY DEF BookWellFormed
<1> DEFINE b == books[d]
<1>1. Good(b, b.nextOrderId) /\ b.nextOrderId \in Nat /\ WellQueued(b)
  BY BookFacts DEF IntactInv, AllQueued
<1> HIDE DEF b
<1>2. ASSUME NEW s, NEW p PROVE Queue(b, s, p) = QueueOf(b.orders, s, p)
  BY DEF Queue, QueueOf, OpenOrders
<1>3. ASSUME NEW s \in BookSides, NEW p \in Prices
      PROVE  /\ b.levels[s][p].head = (IF Queue(b, s, p) = {} THEN 0 ELSE Min(Queue(b, s, p)))
             /\ b.levels[s][p].tail = (IF Queue(b, s, p) = {} THEN 0 ELSE Max(Queue(b, s, p)))
             /\ b.levels[s][p].totalOpen =
                   SumFunctionOnSet([i \in Queue(b, s, p) |-> Remaining(b.orders[i])], Queue(b, s, p))
  <2> DEFINE S == Queue(b, s, p)
             level == b.levels[s][p]
  <2>1. Queued(b.orders, s, p, level) /\ S = QueueOf(b.orders, s, p)
    BY <1>1, <1>2 DEF WellQueued
  <2>2. S \in SUBSET OrderIds /\ IsFirst(S, level.head) /\ IsLast(S, level.tail)
        /\ level.totalOpen = OpenTotal(b.orders, S)
    BY <2>1 DEF Queued, Chain, QueueOf
  <2> HIDE DEF S, level
  <2>3. level.head = (IF S = {} THEN 0 ELSE Min(S)) /\ level.tail = (IF S = {} THEN 0 ELSE Max(S))
    BY <2>2, FirstIsMin, LastIsMax
  <2>4. level.totalOpen = SumFunctionOnSet([i \in S |-> Remaining(b.orders[i])], S)
    BY <2>2 DEF OpenTotal
  <2> QED BY <2>3, <2>4 DEF S, level
<1>4. ASSUME NEW i \in OpenOrders(b)
      PROVE  /\ Remaining(b.orders[i]) > 0
             /\ b.orders[i].next = (IF Behind(b, i) = {} THEN 0 ELSE Min(Behind(b, i)))
             /\ b.orders[i].next # 0 => b.orders[b.orders[i].next].prev = i
  <2> DEFINE s == b.orders[i].side
             p == b.orders[i].price
             S == QueueOf(b.orders, s, p)
             R == Behind(b, i)
             k == b.orders[i].next
  <2>1. i \in OrderIds /\ b.orders[i].active
    BY DEF OpenOrders
  <2>2. b.orders[i] \in OrderType /\ OrderOK(b.orders, b.nextOrderId, i)
    BY <1>1, <2>1, OrderFacts
  <2>3. s \in BookSides /\ p \in Prices
    BY <2>1, <2>2 DEF OrderType, OrderOK
  <2>4. R = {j \in S : j > i}
    BY <1>2 DEF Behind
  <2>5. i \in S
    BY <2>1 DEF QueueOf
  <2>6. Queued(b.orders, s, p, b.levels[s][p])
    BY <1>1, <2>3 DEF WellQueued
  <2> HIDE DEF s, p, R
  <2>7. /\ Chain(b.orders, S, b.levels[s][p].head, b.levels[s][p].tail)
        /\ Remaining(b.orders[i]) \in Nat \ {0} /\ S \in SUBSET OrderIds
    BY <2>5, <2>6 DEF Queued, QueueOf
  <2> HIDE DEF S, k
  <2>8. IsNext(S, i, k) /\ (k # 0 => b.orders[k].prev = i)
    BY <2>5, <2>7 DEF Chain, k
  <2>9. IsFirst(R, k)
    <3>1. \A j \in S : j \in Nat /\ i \in Nat
      BY <2>5, <2>7 DEF OrderIds
    <3> QED BY <2>4, <2>8, <3>1 DEF IsNext, IsFirst
  <2>10. k = IF R = {} THEN 0 ELSE Min(R)
    BY <2>4, <2>7, <2>9, FirstIsMin
  <2> QED BY <2>7, <2>8, <2>10 DEF k, R
<1> QED BY <1>3, <1>4 DEF b

\* Fills go by price, then by time.
LEMMA FillsInOrder ==
    ASSUME IntactInv, [IntactNext]_vars, NEW d \in Duels, NEW i \in OrderIds, NEW j \in OrderIds,
           Taken(d, j), books[d].orders[i].active, Ahead(books[d].orders, i, j)
    PROVE  Remaining(books'[d].orders[i]) = 0
<1>1. StepKept(books[d], books'[d])
  BY IntactKeepsQueues DEF IntactInv
<1>2. Served(books[d], books'[d])
  BY <1>1 DEF Taken, Placed, StepKept, PlacedQueues
<1>3. Hit(books[d], books'[d], j)
  BY DEF Taken, Hit
<1> QED BY <1>2, <1>3 DEF Served

\* An order that leaves the book crossed has met the cap.
LEMMA CrossesAtCap ==
    ASSUME IntactInv, [IntactNext]_vars, NEW d \in Duels, IsCrossed(books'[d]), ~IsCrossed(books[d])
    PROVE  Cardinality({i \in OrderIds : Taken(d, i)}) >= MaxMatchIterations
<1>1. StepKept(books[d], books'[d])
  BY IntactKeepsQueues DEF IntactInv
<1>2. Placed(d) /\ Cardinality(HitSet(books[d], books'[d])) >= MaxMatchIterations
  BY <1>1 DEF StepKept, PlacedQueues, Placed
<1>3. {i \in OrderIds : Taken(d, i)} = HitSet(books[d], books'[d])
  BY <1>2 DEF HitSet, Hit, Taken
<1> QED BY <1>2, <1>3

\* The inductive invariant of IntactSpec: the one of Spec, every price level the
\* queue of its open orders, and no order in a market that does not exist.
THEOREM QueuesStayIntact == IntactSpec => []IntactInv
<1>1. Init => IntactInv
  BY CopyInvInit, ClobInvInit, IntactInit DEF IntactInv
<1>2. IntactInv /\ [IntactNext]_vars => IntactInv'
  BY IntactInvInductive
<1> QED BY <1>1, <1>2, PTL DEF IntactSpec

\* While nobody withdraws an order whose predecessor is gone, a price level is the
\* linked list of its open orders from the oldest to the newest, and totalOpen is
\* what they still want (_restOrder, _popHead, _unlinkOrder and the matching loop).
THEOREM QueuesAreLists == IntactSpec => []BookWellFormed
<1>1. IntactInv => BookWellFormed
  BY QueuesAreWellFormed
<1> QED BY <1>1, QueuesStayIntact, PTL

\* The matching loop fills the best price first and, at one price, the oldest order.
THEOREM FillsByPriceAndTime == IntactSpec => PriceTimePriority
<1>1. IntactInv /\ [IntactNext]_vars =>
        [\A d \in Duels : \A i, j \in OrderIds :
          LET old == books[d].orders
          IN  /\ Taken(d, j) /\ old[i].active /\ i # j
              /\ old[i].side = old[j].side
              /\ \/ Better(old[i].side, old[i].price, old[j].price)
                 \/ old[i].price = old[j].price /\ i < j
              => Remaining(books'[d].orders[i]) = 0]_vars
  BY FillsInOrder DEF Ahead
<1> QED BY <1>1, QueuesStayIntact, PTL DEF IntactSpec, PriceTimePriority

\* An order leaves the book crossed only when MAX_MATCH_ITERATIONS stopped it.
THEOREM CrossedByTheCapOnly == IntactSpec => CrossedOnlyAtCap
<1>1. IntactInv /\ [IntactNext]_vars =>
        [\A d \in Duels :
          LET Crossed(b) == b.best["BUY"] >= b.best["SELL"]
          IN  Crossed(books'[d]) /\ ~Crossed(books[d])
              => Cardinality({i \in OrderIds : Taken(d, i)}) >= MaxMatchIterations]_vars
  BY CrossesAtCap DEF IsCrossed
<1> QED BY <1>1, QueuesStayIntact, PTL DEF IntactSpec, CrossedOnlyAtCap

\* Until the vault is swept, whoever has an open order can take its collateral back
\* (cancelOrder, reclaimRestingOrder), while nobody withdraws one whose predecessor is gone.
THEOREM CollateralComesBack == IntactSpec => []RestingCollateralRecoverable
<1>1. IntactInv => RestingCollateralRecoverable
  BY CanAlwaysWithdraw
<1> QED BY <1>1, QueuesStayIntact, PTL

\* Until the vault is swept, every position of a settled duel can be claimed, whatever
\* was withdrawn before and by whom (claim).
THEOREM ClaimsArePaid == Spec => []ClaimsPayable
<1>1. ClobInv => ClaimsPayable
  BY CanAlwaysClaim
<1> QED BY <1>1, ClobInvariant, PTL
=============================================================================
