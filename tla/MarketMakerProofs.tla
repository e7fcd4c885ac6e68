------------------------- MODULE MarketMakerProofs -------------------------
(***************************************************************************)
(* Proofs about the market maker bot: what becomes of its orders and       *)
(* claims, for any number of duels, of orders and of placements and any    *)
(* budget of crashes, errors, refusals and outages (MarketMaker), and the  *)
(* limits of what it quotes, for any configuration, books and signals      *)
(* (QuotePlan).  Neither rests on the other; what both modules define goes *)
(* by a name of its own in QuotePlan.                                      *)
(***************************************************************************)
EXTENDS MarketMaker, QuotePlan, SequenceTheorems, TLAPS

Order == [side : Sides, live : BOOLEAN]
OrderBooks == [Duels -> Seq(Order)]
Stages == {"NONE", "OPEN", "LOCKED", "RESOLVED"}

\* The types the argument needs.
Types ==
    /\ current \in Duels /\ stage \in [Duels -> Stages]
    /\ shares \subseteq Duels
    /\ rows \in [Keys -> Statuses \cup {"NONE"}] /\ cursor \in [Duels -> 1..MaxOrders + 1]
    /\ outbox \in [Keys -> {"NONE", "PENDING", "LEASED"}] /\ backlog \in [Duels -> Claims]
    /\ active \subseteq Keys /\ record \in Records \cup {None} /\ recovered \in BOOLEAN
    /\ pc \in Phases /\ todo \subseteq (IF pc = "claims" THEN Duels ELSE Keys)
    /\ end \in 1..MaxOrders + 1 /\ receipt \in Keys \cup {None, Reverted}
    /\ \A k \in active : rows[k] \in {"OPEN", "ORPHANED"}
    /\ trouble \in [Troubles -> Nat] /\ \A t \in Troubles : trouble[t] <= Budget[t]

\* The books: a duel that has not begun has no orders, a placement that waits
\* to be mined will find a number left, and no sweep has seen an order that
\* is still to come.
BookInv ==
    /\ orders \in OrderBooks /\ sent \in Seq([duel : Duels, side : Sides])
    /\ stage[current] # "NONE"
    /\ \A d \in Duels : d > current => stage[d] = "NONE"
    /\ \A d \in Duels : stage[d] = "NONE" => orders[d] = <<>>
    /\ \A d \in Duels : Len(orders[d]) <= MaxOrders
    /\ \A i \in 1..Len(sent) : Len(orders[sent[i].duel]) + i <= MaxOrders
    /\ \A d \in Duels : cursor[d] <= Len(orders[d]) + 1

\* What the bot holds in the phases of a cycle.
PhaseInv ==
    /\ pc \in {"row", "BID", "ASK", "wait", "persist"} => Quotable(record)
    /\ pc \in {"sweep", "row"} /\ Quotable(record) => end <= Len(orders[record.duel]) + 1
    /\ pc \in {"row", "persist"} => receipt \in Keys

\* A claim is made when its duel has been resolved, and no shares are won later.
ClaimInv == \A d \in Duels : backlog[d] = "RESOLVED" => d \notin shares /\ stage[d] = "RESOLVED"

Calm == \A t \in Troubles : trouble[t] = 0
InHand(k) == pc \in {"wait", "persist"} /\ sent = <<>> /\ k = receipt

\* While nothing goes wrong there is one process, which recovers nothing and
\* waits for each of its placements ...
CalmControl ==
    /\ ~recovered => pc \in {"rest", "recover"} /\ todo = {} /\ \A k \in Keys : rows[k] = "NONE"
    /\ pc = "recover" => ~recovered
    /\ sent # <<>> => pc = "wait" /\ Len(sent) = 1 /\ receipt = None

\* ... it knows every order on an open book, and places where there is none.
CalmBook ==
    /\ sent # <<>> /\ stage[Head(sent).duel] = "OPEN" =>
          \A k \in Live : ~(k.duel = Head(sent).duel /\ OrderOf(k).side = Head(sent).side)
    /\ \A k \in Live : stage[k.duel] = "OPEN" => k \in active \/ InHand(k)

BotInv ==
    /\ Types /\ BookInv /\ PhaseInv /\ ClaimInv /\ NoForgottenOrder /\ OneQuotePerSide
    /\ Calm => CalmControl /\ CalmBook

-----------------------------------------------------------------------------
\* What the constants are.
LEMMA Bounds == /\ NumDuels \in Nat \ {0} /\ MaxOrders \in Nat \ {0} /\ Budget \in [Troubles -> Nat]
                /\ 1 \in Duels
BY MarketMakerAssumption DEF Duels

\* Bounded sequences are sequences of bounded length.
LEMMA Bounded ==
    ASSUME NEW S, NEW n \in Nat, NEW s \in Seq(S), Len(s) <= n
    PROVE  s \in BoundedSeq(S, n)
<1>1. Len(s) \in 0..n /\ s \in [1..Len(s) -> S]
  BY LenProperties
<1> QED BY <1>1 DEF BoundedSeq, SeqOf

\* An order on a book.
LEMMA OnBooks ==
    ASSUME orders \in OrderBooks, NEW k \in OnBook
    PROVE  /\ k \in Keys /\ k.duel \in Duels /\ orders[k.duel] \in Seq(Order)
           /\ k.id \in 1..Len(orders[k.duel]) /\ OrderOf(k) \in Order
           /\ DOMAIN orders[k.duel] = 1..Len(orders[k.duel])
<1>1. k \in Keys /\ k.duel \in Duels /\ orders[k.duel] \in Seq(Order)
  BY DEF OnBook, Keys, OrderBooks
<1>2. DOMAIN orders[k.duel] = 1..Len(orders[k.duel])
  BY <1>1, LenProperties
<1>3. k.id \in 1..Len(orders[k.duel])
  BY <1>2 DEF OnBook
<1>4. orders[k.duel][k.id] \in Order
  BY <1>1, <1>3, ElementOfSeq
<1> QED BY <1>1, <1>2, <1>3, <1>4 DEF OrderOf

\* A step that at most takes orders off the books.
Thins ==
    /\ orders' \in OrderBooks
    /\ \A d \in Duels : Len(orders'[d]) = Len(orders[d])
    /\ OnBook' = OnBook /\ Live' \subseteq Live
    /\ \A k \in OnBook : OrderOf(k)'.side = OrderOf(k).side

\* OrderBooks nobody touches hold the same live orders.
LEMMA SameBooks ==
    ASSUME orders \in OrderBooks, UNCHANGED orders
    PROVE  Thins /\ Live' = Live
BY DEF Thins, OnBook, Live, OrderOf

\* Taking one order off a book.
LEMMA Kill ==
    ASSUME orders \in OrderBooks, NEW k \in Live, orders' = [orders EXCEPT ![k.duel][k.id].live = FALSE]
    PROVE  Thins /\ Live' = Live \ {k}
<1>1. k \in OnBook
  BY DEF Live
<1> DEFINE b == orders[k.duel]
           o == [b[k.id] EXCEPT !.live = FALSE]
           c == [b EXCEPT ![k.id] = o]
<1>2. /\ k \in Keys /\ k.duel \in Duels /\ b \in Seq(Order) /\ k.id \in 1..Len(b) /\ b[k.id] \in Order
      /\ DOMAIN b = 1..Len(b)
  BY <1>1, OnBooks DEF OrderOf
<1>3. o \in Order /\ o.side = b[k.id].side /\ o.live = FALSE
  BY <1>2 DEF Order
<1>4. c \in Seq(Order) /\ Len(c) = Len(b) /\ DOMAIN c = DOMAIN b
      /\ \A i \in DOMAIN b : c[i] = IF i = k.id THEN o ELSE b[i]
  BY <1>2, <1>3, ExceptSeq
<1>5. orders' = [orders EXCEPT ![k.duel] = c]
  OBVIOUS
<1> HIDE DEF c
<1>6. /\ orders' \in OrderBooks /\ orders'[k.duel] = c
      /\ \A d \in Duels : d # k.duel => orders'[d] = orders[d]
  BY <1>2, <1>4, <1>5 DEF OrderBooks
<1>7. \A d \in Duels : Len(orders'[d]) = Len(orders[d]) /\ DOMAIN orders'[d] = DOMAIN orders[d]
  BY <1>4, <1>6
<1>8. OnBook' = OnBook
  BY <1>7 DEF OnBook, Keys
<1>9. \A l \in OnBook : IF l = k THEN OrderOf(l)' = o ELSE OrderOf(l)' = OrderOf(l)
  <2> SUFFICES ASSUME NEW l \in OnBook
               PROVE  IF l = k THEN OrderOf(l)' = o ELSE OrderOf(l)' = OrderOf(l)
    OBVIOUS
  <2>1. l \in Keys /\ l.duel \in Duels /\ l.id \in DOMAIN orders[l.duel]
    BY DEF OnBook, Keys
  <2>2. l.duel = k.duel /\ l.id = k.id => l = k
    BY <1>2, <2>1 DEF Keys
  <2> QED BY <1>2, <1>4, <1>6, <2>1, <2>2 DEF OrderOf
<1> HIDE DEF o
<1>10. Live' = Live \ {k}
  BY <1>3, <1>8, <1>9 DEF Live
<1>11. \A l \in OnBook : OrderOf(l)'.side = OrderOf(l).side
  BY <1>3, <1>9 DEF OrderOf
<1> QED BY <1>6, <1>7, <1>8, <1>10, <1>11 DEF Thins

\* Troubles only add up.
LEMMA Struck ==
    ASSUME Types, NEW t \in Troubles, Strike(t)
    PROVE  /\ trouble' \in [Troubles -> Nat] /\ \A u \in Troubles : trouble'[u] <= Budget[u]
           /\ \A u \in Troubles : trouble'[u] >= trouble[u]
           /\ trouble'[t] > 0
<1>1. trouble \in [Troubles -> Nat] /\ \A u \in Troubles : trouble[u] <= Budget[u]
  BY DEF Types
<1>2. trouble[t] < Budget[t] /\ trouble' = [trouble EXCEPT ![t] = @ + 1]
  BY DEF Strike
<1>3. \A u \in Troubles : Budget[u] \in Nat
  BY Bounds
<1> QED BY <1>1, <1>2, <1>3

\* Recording an order keeps what is recorded and what is tracked together.
LEMMA Recorded ==
    ASSUME Types, NEW k \in Keys, NEW status \in Statuses, Record(k, status)
    PROVE  /\ rows' \in [Keys -> Statuses \cup {"NONE"}] /\ active' \subseteq Keys
           /\ \A l \in active' : rows'[l] \in {"OPEN", "ORPHANED"}
           /\ rows'[k] = status /\ \A l \in Keys \ {k} : rows'[l] = rows[l]
           /\ \A l \in Keys \ {k} : l \in active' <=> l \in active
           /\ k \in active' <=> status \in {"OPEN", "ORPHANED"}
BY DEF Types, Record

\* A step of the bot, as the books see it: it takes orders off them, and an
\* order that stays on an open book stays recorded and tracked.
Routine ==
    /\ Thins /\ UNCHANGED <<current, stage, sent, cursor>>
    /\ \A t \in Troubles : trouble'[t] \in Nat /\ trouble'[t] >= trouble[t]
    /\ \A k \in Live' : stage[k.duel] = "OPEN" =>
          \/ rows'[k] = rows[k] \/ rows'[k] \in {"OPEN", "ORPHANED", "QUARANTINED"}
          \/ trouble'["refusal"] # 0
    /\ \A k \in Live' : stage[k.duel] = "OPEN" /\ (k \in active \/ InHand(k)) =>
          k \in active' \/ InHand(k)' \/ ~Calm'

\* What a cancel leaves behind.
LEMMA Cancelled ==
    ASSUME Types, orders \in OrderBooks, NEW k \in Keys, Cancel(k)
    PROVE  /\ Thins
           /\ rows' \in [Keys -> Statuses \cup {"NONE"}] /\ active' = active \ {k}
           /\ \A l \in active' : rows'[l] \in {"OPEN", "ORPHANED"}
           /\ \A l \in Keys \ {k} : rows'[l] = rows[l]
           /\ trouble' \in [Troubles -> Nat] /\ \A t \in Troubles : trouble'[t] <= Budget[t]
           /\ \A t \in Troubles : trouble'[t] >= trouble[t]
           /\ k \in Live' /\ stage[k.duel] = "OPEN" => trouble'["refusal"] > 0
<1>1. "refusal" \in Troubles /\ "CANCELLED" \in Statuses
  BY DEF Troubles, Statuses
<1>2. Record(k, "CANCELLED") /\ active' = active \ {k}
  BY DEF Cancel, Record
<1>3. /\ rows' \in [Keys -> Statuses \cup {"NONE"}]
      /\ \A l \in active' : rows'[l] \in {"OPEN", "ORPHANED"}
      /\ \A l \in Keys \ {k} : rows'[l] = rows[l]
  BY <1>1, <1>2, Recorded
<1>4. CASE BookCancels(k) /\ UNCHANGED trouble
  <2>1. Thins /\ Live' = Live \ {k}
    BY <1>4, Kill DEF BookCancels
  <2> QED BY <1>2, <1>3, <1>4, <2>1 DEF Types
<1>5. CASE (k \in Live => stage[k.duel] # "OPEN") /\ UNCHANGED <<orders, trouble>>
  BY <1>2, <1>3, <1>5, SameBooks DEF Types
<1>6. CASE Strike("refusal") /\ UNCHANGED orders
  BY <1>1, <1>2, <1>3, <1>6, SameBooks, Struck
<1> QED BY <1>4, <1>5, <1>6 DEF Cancel

\* A cancel that is refused or succeeds only takes an order off the book.
LEMMA CancelIsRoutine ==
    ASSUME Types, orders \in OrderBooks, NEW k \in Keys, Cancel(k), UNCHANGED <<current, stage, sent, cursor>>,
           UNCHANGED <<pc, receipt>>
    PROVE  Routine
<1>1. "refusal" \in Troubles
  BY DEF Troubles
<1>2. Live \subseteq Keys /\ Live' \subseteq Live
  BY Cancelled DEF Live, OnBook, Thins
<1> QED BY <1>1, <1>2, Cancelled DEF Routine, InHand, Calm

-----------------------------------------------------------------------------
\* Routine steps keep what is said of the books.
LEMMA RoutineKeeps ==
    ASSUME BotInv, Routine
    PROVE  /\ BookInv' /\ NoForgottenOrder' /\ OneQuotePerSide'
           /\ Calm' => CalmBook'
<1>1. BookInv'
  <2>1. orders \in OrderBooks /\ orders' \in OrderBooks /\ \A d \in Duels : orders[d] \in Seq(Order) /\ orders'[d] \in Seq(Order)
    BY DEF BotInv, BookInv, Routine, Thins, OrderBooks
  <2>2. \A d \in Duels : stage[d] = "NONE" => orders'[d] = <<>>
    BY <2>1, EmptySeq DEF BotInv, BookInv, Routine, Thins
  <2>3. \A i \in 1..Len(sent) : sent[i].duel \in Duels
    <3> SUFFICES ASSUME NEW i \in 1..Len(sent) PROVE sent[i].duel \in Duels
      OBVIOUS
    <3>1. sent[i] \in [duel : Duels, side : Sides]
      BY ElementOfSeq DEF BotInv, BookInv
    <3> QED BY <3>1
  <2> QED BY <2>1, <2>2, <2>3 DEF BotInv, BookInv, Routine, Thins
<1>2. "refusal" \in Troubles /\ Live \subseteq Keys /\ Live \subseteq OnBook /\ Live' \subseteq Live
  BY DEF Troubles, Live, OnBook, Routine, Thins
<1>3. Calm' => Calm
  BY DEF BotInv, Types, Calm, Routine
<1>4. NoForgottenOrder'
  <2>1. trouble'["refusal"] = 0 => trouble["refusal"] = 0
    BY <1>2 DEF BotInv, Types, Routine
  <2> QED BY <1>2, <2>1 DEF BotInv, NoForgottenOrder, Routine
<1>5. \A k \in Live' : OrderOf(k)'.side = OrderOf(k).side
  BY <1>2 DEF Routine, Thins
<1>6. OneQuotePerSide'
  BY <1>2, <1>3, <1>5 DEF BotInv, OneQuotePerSide, Calm
<1>7. ASSUME Calm' PROVE CalmBook'
  BY <1>2, <1>3, <1>5, <1>7 DEF BotInv, CalmBook, Routine
<1> QED BY <1>1, <1>4, <1>6, <1>7

\* Steps that touch neither chain nor rows nor what the bot tracks.
LEMMA AwayFromBooks ==
    ASSUME Types, orders \in OrderBooks, UNCHANGED <<orders, current, stage, sent, cursor, rows, active>>,
           \A t \in Troubles : trouble'[t] \in Nat /\ trouble'[t] >= trouble[t],
           \A k \in Live : InHand(k) => k \in active \/ InHand(k)' \/ ~Calm'
    PROVE  Routine
<1>1. Thins /\ Live' = Live
  BY SameBooks
<1>2. Live \subseteq Keys
  BY DEF Live, OnBook
<1> QED BY <1>1, <1>2 DEF Routine

\* What a routine step of the bot must show beside.
Rest == Types' /\ PhaseInv' /\ ClaimInv' /\ (Calm' => CalmControl')

RowTypes ==
    /\ rows \in [Keys -> Statuses \cup {"NONE"}] /\ active \subseteq Keys
    /\ \A k \in active : rows[k] \in {"OPEN", "ORPHANED"}
    /\ trouble \in [Troubles -> Nat] /\ \A t \in Troubles : trouble[t] <= Budget[t]

\* Recovery takes up what was left open; without trouble there is nothing.
LEMMA RecoverySteps ==
    ASSUME BotInv, Start \/ RecoverOne \/ Recovered
    PROVE  Routine /\ Rest
<1>1. /\ Types /\ BookInv /\ PhaseInv /\ ClaimInv /\ orders \in OrderBooks
      /\ Calm => CalmControl /\ CalmBook
      /\ "refusal" \in Troubles /\ "outage" \in Troubles /\ trouble \in [Troubles -> Nat]
  BY DEF BotInv, BookInv, Troubles, Types
<1>2. CASE Start
  <2>1. record' \in Records \cup {None}
    BY <1>1, <1>2 DEF Start, Records, Types, BookInv, Stages
  <2>2. /\ trouble' \in [Troubles -> Nat] /\ \A u \in Troubles : trouble'[u] <= Budget[u]
        /\ \A u \in Troubles : trouble'[u] >= trouble[u]
    BY <1>1, <1>2, Struck DEF Start, Types
  <2>3. Types'
    BY <1>1, <1>2, <2>1, <2>2 DEF Start, Types, chain, store, Phases, Unfinished
  <2>4. PhaseInv' /\ ClaimInv'
    BY <1>1, <1>2 DEF Start, PhaseInv, ClaimInv, chain, store
  <2>5. Calm' => Calm
    BY <1>1, <2>2 DEF Calm
  <2>6. Calm' => CalmControl'
    BY <1>1, <1>2, <2>5 DEF Start, CalmControl, chain, store, Unfinished
  <2>7. active' = active \/ (Calm' => active \subseteq active')
    BY <1>1, <1>2, <2>5 DEF Start, CalmControl, Types, Unfinished
  <2>8. Routine
    <3>1. Thins /\ Live' = Live
      BY <1>1, <1>2, SameBooks DEF Start, chain
    <3>2. Live \subseteq Keys /\ \A k \in Keys : ~InHand(k)
      BY <1>2 DEF Live, OnBook, Start, InHand
    <3> QED BY <1>1, <1>2, <2>2, <2>7, <3>1, <3>2 DEF Routine, Start, chain, store
  <2> QED BY <2>3, <2>4, <2>6, <2>8 DEF Rest
<1>3. CASE RecoverOne
  <2>1. PICK k \in todo : 
           /\ todo' = todo \ {k}
           /\ \/ Record(k, "QUARANTINED") /\ UNCHANGED <<orders, backlog, trouble>>
              \/ k \notin Live /\ Record(k, "FILLED") /\ UNCHANGED <<orders, backlog, trouble>>
              \/ Strike("refusal") /\ Record(k, "FILLED") /\ UNCHANGED <<orders, backlog>>
              \/ Cancel(k) /\ (Enqueue(k.duel) \/ UNCHANGED backlog)
              \/ Record(k, "OPEN") /\ UNCHANGED <<orders, backlog, trouble>>
    BY <1>3 DEF RecoverOne
  <2>2. /\ k \in Keys /\ pc = "recover" /\ pc' = pc /\ ~Calm
        /\ UNCHANGED <<current, stage, shares, sent, cursor, outbox, record, recovered, end, receipt>>
        /\ todo' \subseteq todo
    BY <1>1, <1>3, <2>1 DEF RecoverOne, Types, CalmControl
  <2>3. "FILLED" \in Statuses /\ "OPEN" \in Statuses /\ "QUARANTINED" \in Statuses
    BY DEF Statuses
  <2>4. ClaimInv' /\ backlog' \in [Duels -> Claims]
    BY <1>1, <2>1, <2>2 DEF ClaimInv, Types, Enqueue, Claims
  <2>5. RowTypes' /\ Routine
    <3>1. Live \subseteq Keys /\ \A l \in Keys : ~InHand(l)
      BY <2>2 DEF Live, OnBook, InHand
    <3>2. ~Calm'
      <4>1. \A t \in Troubles : trouble'[t] >= trouble[t]
        BY <1>1, <2>1, <2>2, Cancelled, Struck
      <4> QED BY <1>1, <2>2, <4>1 DEF Calm
    <3>3. CASE Cancel(k)
      BY <1>1, <2>2, <3>3, Cancelled, CancelIsRoutine DEF Types, RowTypes
    <3>4. ASSUME NEW status \in Statuses, status \in {"QUARANTINED", "OPEN"} \/ k \notin Live,
                 Record(k, status), UNCHANGED <<orders, trouble>>
          PROVE  RowTypes' /\ Routine
      <4>1. Thins /\ Live' = Live
        BY <1>1, <3>4, SameBooks
      <4> QED BY <1>1, <2>2, <3>1, <3>2, <3>4, <4>1, Recorded DEF Routine, Types, RowTypes
    <3>5. CASE Strike("refusal") /\ Record(k, "FILLED") /\ UNCHANGED orders
      <4>1. Thins /\ Live' = Live
        BY <1>1, <3>5, SameBooks
      <4> QED BY <1>1, <2>2, <2>3, <3>1, <3>2, <3>5, <4>1, Recorded, Struck DEF Routine, RowTypes
    <3> QED BY <2>1, <2>3, <3>3, <3>4, <3>5
  <2>6. PhaseInv'
    BY <1>1, <2>2 DEF PhaseInv
  <2>7. Types'
    BY <1>1, <2>2, <2>4, <2>5 DEF Types, RowTypes
  <2>8. ~Calm'
    BY <1>1, <2>2, <2>5 DEF Calm, Routine
  <2> QED BY <2>4, <2>5, <2>6, <2>7, <2>8 DEF Rest
<1>4. CASE Recovered
  <2>1. Types'
    BY <1>1, <1>4 DEF Recovered, Types, chain, store, Phases
  <2>2. PhaseInv' /\ ClaimInv' /\ (Calm' => CalmControl')
    BY <1>1, <1>4 DEF Recovered, PhaseInv, ClaimInv, chain, store, Calm, CalmControl
  <2>3. Routine
    BY <1>1, <1>4, AwayFromBooks DEF Recovered, chain, store, InHand
  <2> QED BY <2>1, <2>2, <2>3 DEF Rest
<1> QED BY <1>2, <1>3, <1>4

\* A step that cancels one order and otherwise moves on within the phase.
LEMMA CancelSteps ==
    ASSUME BotInv, OutboxOne \/ DropOne \/ CancelQuote \/ \E k \in active : CancelStale(k)
    PROVE  Routine /\ Rest
<1>1. /\ Types /\ BookInv /\ PhaseInv /\ ClaimInv /\ orders \in OrderBooks
      /\ Calm => CalmControl /\ CalmBook
      /\ trouble \in [Troubles -> Nat]
  BY DEF BotInv, BookInv, Types
<1>2. PICK k \in Keys :
        /\ \/ Cancel(k)
           \/ UNCHANGED <<orders, rows, active, trouble>>
        /\ outbox' = [outbox EXCEPT ![k] = "NONE"] \/ UNCHANGED outbox
        /\ todo' \subseteq todo
  BY <1>1 DEF OutboxOne, DropOne, CancelQuote, CancelStale, Types, Existing, Sides, store, memory
<1>3. /\ UNCHANGED <<current, stage, shares, sent, cursor, backlog, record, recovered, pc, end, receipt>>
      /\ pc \in {"outbox", "drop", "BID", "ASK", "stale"}
  BY DEF OutboxOne, DropOne, CancelQuote, CancelStale, Sides
<1>4. RowTypes' /\ Routine
  <2>1. CASE Cancel(k)
    BY <1>1, <1>3, <2>1, Cancelled, CancelIsRoutine DEF RowTypes, Types
  <2>2. CASE UNCHANGED <<orders, rows, active, trouble>>
    BY <1>1, <1>3, <2>2, AwayFromBooks DEF RowTypes, Types, InHand
  <2> QED BY <1>2, <2>1, <2>2
<1>5. Types'
  <2>1. outbox' \in [Keys -> {"NONE", "PENDING", "LEASED"}]
    BY <1>1, <1>2 DEF Types
  <2> QED BY <1>1, <1>2, <1>3, <1>4, <2>1 DEF Types, RowTypes
<1>6. PhaseInv' /\ ClaimInv'
  BY <1>1, <1>3 DEF PhaseInv, ClaimInv
<1>7. Calm' => CalmControl'
  <2>1. Calm' => Calm
    BY <1>1, <1>4 DEF Calm, Routine
  <2> QED BY <1>1, <1>3, <2>1 DEF CalmControl
<1> QED BY <1>4, <1>5, <1>6, <1>7 DEF Rest

\* The sweep up to its end.
LEMMA SweepSteps ==
    ASSUME BotInv, SweepBegins \/ SweepFinds \/ SweepRecords
    PROVE  Routine /\ Rest
<1>1. /\ Types /\ BookInv /\ PhaseInv /\ ClaimInv /\ orders \in OrderBooks
      /\ Calm => CalmControl /\ CalmBook
      /\ trouble \in [Troubles -> Nat]
  BY DEF BotInv, BookInv, Types
<1>2. CASE SweepBegins
  <2>1. end' \in 1..MaxOrders + 1 /\ (Quotable(record) => end' <= Len(orders[record.duel]) + 1)
    <3>1. CASE Quotable(record)
      <4>1. record.duel \in Duels
        BY <1>1, <3>1 DEF Quotable, Types, Records
      <4>2. orders[record.duel] \in Seq(Order) /\ Len(orders[record.duel]) <= MaxOrders
        BY <1>1, <4>1 DEF BookInv, OrderBooks
      <4>3. Len(orders[record.duel]) \in Nat
        BY <4>2, LenProperties
      <4> QED BY <1>2, <3>1, <4>2, <4>3, Bounds DEF SweepBegins
    <3>2. CASE ~Quotable(record)
      BY <1>2, <3>2, Bounds DEF SweepBegins
    <3> QED BY <3>1, <3>2
  <2>2. Types'
    BY <1>1, <1>2, <2>1 DEF SweepBegins, Types, chain, store, Phases
  <2>3. PhaseInv' /\ ClaimInv' /\ (Calm' => CalmControl')
    BY <1>1, <1>2, <2>1 DEF SweepBegins, PhaseInv, ClaimInv, chain, store, Calm, CalmControl, Quotable
  <2>4. Routine
    BY <1>1, <1>2, AwayFromBooks DEF SweepBegins, chain, store, InHand
  <2> QED BY <2>2, <2>3, <2>4 DEF Rest
<1>3. CASE SweepFinds
  <2>1. PICK k \in Keys : outbox' = [outbox EXCEPT ![k] = "PENDING"] /\ receipt' = k
    BY <1>3 DEF SweepFinds, Strays, Unseen, OnBook
  <2>2. Types'
    BY <1>1, <1>3, <2>1 DEF SweepFinds, Types, chain, Phases
  <2>3. PhaseInv' /\ ClaimInv' /\ (Calm' => CalmControl')
    BY <1>1, <1>3, <2>1 DEF SweepFinds, PhaseInv, ClaimInv, chain, Calm, CalmControl, Quotable
  <2>4. Routine
    BY <1>1, <1>3, AwayFromBooks DEF SweepFinds, chain, InHand
  <2> QED BY <2>2, <2>3, <2>4 DEF Rest
<1>4. CASE SweepRecords
  <2>1. receipt \in Keys /\ Record(receipt, "ORPHANED") /\ "ORPHANED" \in Statuses
    BY <1>1, <1>4 DEF SweepRecords, PhaseInv, Statuses
  <2>2. RowTypes' /\ active \subseteq active'
    BY <1>1, <1>4, <2>1, Recorded DEF SweepRecords, RowTypes, Types
  <2>3. Types'
    BY <1>1, <1>4, <2>2 DEF SweepRecords, Types, RowTypes, chain, Phases
  <2>4. PhaseInv' /\ ClaimInv' /\ (Calm' => CalmControl')
    BY <1>1, <1>4 DEF SweepRecords, PhaseInv, ClaimInv, chain, Calm, CalmControl, Quotable
  <2>5. Routine
    <3>1. Thins /\ Live' = Live
      BY <1>1, <1>4, SameBooks DEF SweepRecords, chain
    <3>2. Live \subseteq Keys /\ \A k \in Keys : ~InHand(k)
      BY <1>4 DEF Live, OnBook, SweepRecords, InHand
    <3> QED BY <1>1, <1>4, <2>1, <2>2, <3>1, <3>2, Recorded DEF Routine, SweepRecords, chain
  <2> QED BY <2>3, <2>4, <2>5 DEF Rest
<1> QED BY <1>2, <1>3, <1>4

\* The steps that only touch claims, the outbox or the place in the cycle.
LEMMA OtherSteps ==
    ASSUME BotInv,
           \/ OutboxDone \/ ClaimOne \/ ClaimsDone \/ Quote \/ Withdraw \/ Dropped \/ Offer \/ LeaveSide
           \/ Placed \/ LeaseExpires \/ \E d \in Duels : ClaimFallsDue(d)
    PROVE  Routine /\ Rest
<1>1. /\ Types /\ BookInv /\ PhaseInv /\ ClaimInv /\ orders \in OrderBooks
      /\ Calm => CalmControl /\ CalmBook
      /\ trouble \in [Troubles -> Nat]
      /\ "refusal" \in Troubles
  BY DEF BotInv, BookInv, Types, Troubles
<1>2. CASE ClaimsDone \/ Quote \/ Withdraw \/ Offer \/ LeaveSide \/ Placed
  <2>1. /\ UNCHANGED <<chain, store, active, record, recovered, end, trouble>>
        /\ pc # "rest" /\ pc # "recover" /\ pc' \notin {"recover", "sweep", "row"}
    BY <1>2 DEF ClaimsDone, Quote, Withdraw, Offer, LeaveSide, Placed, Sides, AfterSide
  <2>2. Types'
    BY <1>1, <1>2, <2>1 DEF ClaimsDone, Quote, Withdraw, Offer, LeaveSide, Placed, Types, Phases, Sides,
                            AfterSide, chain, store
  <2>3. PhaseInv' /\ ClaimInv'
    BY <1>1, <1>2, <2>1 DEF ClaimsDone, Quote, Withdraw, Offer, LeaveSide, Placed, PhaseInv, ClaimInv, Sides,
                            AfterSide, chain, store, Quotable, Types
  <2>4. Calm' => CalmControl'
    BY <1>1, <1>2, <2>1 DEF ClaimsDone, Quote, Withdraw, Offer, LeaveSide, Placed, CalmControl, Calm, Sides,
                            AfterSide, chain, store
  <2>5. \A k \in Live : InHand(k) => k \in active \/ InHand(k)' \/ ~Calm'
    BY <1>1, <1>2 DEF ClaimsDone, Quote, Withdraw, Offer, LeaveSide, Placed, InHand, Live, OnBook, Keys,
                      Reverted, Duels, Sides, chain
  <2>6. Routine
    BY <1>1, <2>1, <2>5, AwayFromBooks DEF chain, store
  <2> QED BY <2>2, <2>3, <2>4, <2>6 DEF Rest
<1>3. CASE OutboxDone \/ Dropped \/ LeaseExpires \/ \E d \in Duels : ClaimFallsDue(d)
  <2>1. /\ UNCHANGED <<chain, rows, cursor, active, record, recovered, end, receipt, trouble>>
        /\ pc \in {"outbox", "drop"} \/ UNCHANGED <<pc, todo>>
        /\ pc' = pc \/ pc' \in {"claims", "rest"}
    BY <1>3 DEF OutboxDone, Dropped, LeaseExpires, ClaimFallsDue, memory
  <2>2. backlog' \in [Duels -> Claims] /\ ClaimInv'
    BY <1>1, <1>3, <2>1 DEF OutboxDone, Dropped, LeaseExpires, ClaimFallsDue, Enqueue, Types, Claims, ClaimInv, chain
  <2>a. outbox' \in [Keys -> {"NONE", "PENDING", "LEASED"}]
    BY <1>1, <1>3, <2>1 DEF OutboxDone, Dropped, LeaseExpires, ClaimFallsDue, Types
  <2>b. pc' \in Phases /\ todo' \subseteq (IF pc' = "claims" THEN Duels ELSE Keys)
    BY <1>1, <1>3, <2>1 DEF OutboxDone, Dropped, LeaseExpires, ClaimFallsDue, Types, Phases, memory
  <2>3. Types'
    BY <1>1, <2>1, <2>2, <2>a, <2>b DEF Types, chain
  <2>4. PhaseInv' /\ (Calm' => CalmControl')
    BY <1>1, <1>3, <2>1 DEF OutboxDone, Dropped, LeaseExpires, ClaimFallsDue, PhaseInv, CalmControl, Calm, chain
  <2>5. Routine
    BY <1>1, <2>1, AwayFromBooks DEF chain, InHand
  <2> QED BY <2>2, <2>3, <2>4, <2>5 DEF Rest
<1>4. CASE ClaimOne
  <2>1. PICK d \in todo :
           /\ todo' = todo \ {d}
           /\ \/ /\ stage[d] = "RESOLVED"
                 /\ shares' = shares \ {d} /\ backlog' = [backlog EXCEPT ![d] = "RESOLVED"]
                 /\ UNCHANGED trouble
              \/ UNCHANGED <<backlog, shares>> /\ (Strike("refusal") \/ UNCHANGED trouble)
    BY <1>4 DEF ClaimOne, Deferred
  <2>2. /\ UNCHANGED <<current, stage, orders, sent, rows, cursor, outbox, active, record, recovered, pc, end, receipt>>
        /\ pc = "claims" /\ d \in Duels
    BY <1>1, <1>4, <2>1 DEF ClaimOne, Types
  <2>3. /\ trouble' \in [Troubles -> Nat] /\ \A u \in Troubles : trouble'[u] <= Budget[u]
        /\ \A u \in Troubles : trouble'[u] >= trouble[u]
    BY <1>1, <2>1, Struck DEF Types
  <2>4. backlog' \in [Duels -> Claims] /\ shares' \subseteq shares /\ ClaimInv'
    BY <1>1, <2>1, <2>2 DEF Types, Claims, ClaimInv
  <2>5. Types'
    BY <1>1, <2>1, <2>2, <2>3, <2>4 DEF Types
  <2>6. PhaseInv' /\ (Calm' => CalmControl')
    BY <1>1, <2>2, <2>3 DEF PhaseInv, CalmControl, Calm
  <2>7. Routine
    BY <1>1, <2>2, <2>3, AwayFromBooks DEF InHand
  <2> QED BY <2>4, <2>5, <2>6, <2>7 DEF Rest
<1> QED BY <1>2, <1>3, <1>4

\* A placement that was mined is recorded; a taker fills an order; the bot
\* gives a cycle up or dies, and what it had sent is mined all the same.
LEMMA LossSteps ==
    ASSUME BotInv, Fill \/ Persist \/ GiveUp \/ Crash
    PROVE  Routine /\ Rest
<1>1. /\ Types /\ BookInv /\ PhaseInv /\ ClaimInv /\ orders \in OrderBooks
      /\ Calm => CalmControl /\ CalmBook
      /\ trouble \in [Troubles -> Nat]
      /\ Live \subseteq Keys /\ Live \subseteq OnBook
  BY DEF BotInv, BookInv, Types, Live, OnBook
<1>2. CASE Persist
  <2>1. receipt \in Keys /\ Record(receipt, "OPEN") /\ "OPEN" \in Statuses
    BY <1>1, <1>2 DEF Persist, PhaseInv, Statuses
  <2>2. RowTypes' /\ active' = active \cup {receipt}
    BY <1>1, <1>2, <2>1, Recorded DEF Persist, RowTypes, Types, Record
  <2>3. pc' \in {"ASK", "rest"}
    BY <1>2 DEF Persist, AfterSide
  <2>4. Types'
    BY <1>1, <1>2, <2>2, <2>3 DEF Persist, Types, RowTypes, chain, Phases
  <2>5. PhaseInv' /\ ClaimInv' /\ (Calm' => CalmControl')
    BY <1>1, <1>2, <2>3 DEF Persist, PhaseInv, ClaimInv, chain, Calm, CalmControl, Quotable
  <2>6. Routine
    <3>1. Thins /\ Live' = Live
      BY <1>1, <1>2, SameBooks DEF Persist, chain
    <3> QED BY <1>1, <1>2, <2>1, <2>2, <3>1, Recorded DEF Routine, Persist, chain, InHand
  <2> QED BY <2>4, <2>5, <2>6 DEF Rest
<1>3. CASE Fill
  <2>1. PICK k \in Live : /\ stage[k.duel] = "OPEN" /\ orders' = [orders EXCEPT ![k.duel][k.id].live = FALSE]
                         /\ shares' = shares \cup {k.duel}
    BY <1>3 DEF Fill
  <2>2. /\ Thins /\ Live' = Live \ {k}
        /\ UNCHANGED <<current, stage, sent, rows, cursor, outbox, backlog, active, record, recovered,
                       pc, todo, end, receipt, trouble>>
        /\ k.duel \in Duels
    BY <1>1, <1>3, <2>1, Kill DEF Fill, store, memory, Keys
  <2>3. Types' /\ ClaimInv'
    BY <1>1, <2>1, <2>2 DEF Types, ClaimInv
  <2>4. PhaseInv' /\ (Calm' => CalmControl')
    BY <1>1, <2>2 DEF PhaseInv, CalmControl, Calm, Thins, Quotable, Types, Records
  <2>5. Routine
    BY <1>1, <2>2 DEF Routine, InHand
  <2> QED BY <2>3, <2>4, <2>5 DEF Rest
<1>4. CASE GiveUp \/ Crash
  <2>1. PICK t \in Troubles : Strike(t)
    BY <1>4 DEF GiveUp, Crash, Troubles
  <2>2. /\ trouble' \in [Troubles -> Nat] /\ \A u \in Troubles : trouble'[u] <= Budget[u]
        /\ \A u \in Troubles : trouble'[u] >= trouble[u]
        /\ ~Calm'
    BY <1>1, <2>1, Struck DEF Calm
  <2>3. /\ UNCHANGED <<current, stage, sent, rows, cursor, outbox, backlog>>
        /\ pc' = "rest" /\ todo' = {} /\ end' = 1 /\ receipt' = None
        /\ \/ UNCHANGED <<active, record, recovered>>
           \/ active' = {} /\ record' = None /\ recovered' = FALSE
        /\ Sent
    BY <1>4 DEF GiveUp, Crash, store
  <2>4. Thins /\ Live' \subseteq Live /\ shares' \subseteq shares
    <3>1. CASE UNCHANGED orders
      BY <1>1, <2>3, <3>1, SameBooks DEF Sent
    <3>2. CASE \E k \in active : BookCancels(k) /\ UNCHANGED shares
      BY <1>1, <3>2, Kill DEF BookCancels
    <3> QED BY <2>3, <3>1, <3>2 DEF Sent
  <2>a. pc' \in Phases /\ todo' \subseteq (IF pc' = "claims" THEN Duels ELSE Keys) /\ end' \in 1..MaxOrders + 1
    BY <2>3, Bounds DEF Phases
  <2>b. /\ active' \subseteq active /\ record' \in Records \cup {None} /\ recovered' \in BOOLEAN
    BY <1>1, <2>3 DEF Types
  <2>5. Types'
    BY <1>1, <2>2, <2>3, <2>4, <2>a, <2>b DEF Types
  <2>6. PhaseInv' /\ ClaimInv'
    BY <1>1, <2>3, <2>4 DEF PhaseInv, ClaimInv
  <2>7. Routine
    BY <1>1, <2>2, <2>3, <2>4 DEF Routine
  <2> QED BY <2>2, <2>5, <2>6, <2>7 DEF Rest
<1> QED BY <1>2, <1>3, <1>4

-----------------------------------------------------------------------------
\* The steps after which the books are longer, the duel has moved on, the
\* cursor has or a placement waits.
LEMMA MineStep ==
    ASSUME BotInv, Mine
    PROVE  BotInv'
<1>1. /\ Types /\ BookInv /\ PhaseInv /\ ClaimInv /\ NoForgottenOrder /\ OneQuotePerSide
      /\ Calm => CalmControl /\ CalmBook
      /\ orders \in OrderBooks /\ sent \in Seq([duel : Duels, side : Sides])
      /\ Live \subseteq Keys /\ Live \subseteq OnBook
  BY DEF BotInv, BookInv, Types, Live, OnBook
<1>2. PICK tx : tx = Head(sent)
  OBVIOUS
<1>3. /\ tx \in [duel : Duels, side : Sides] /\ tx = sent[1] /\ sent # <<>> /\ sent' = Tail(sent)
      /\ Len(sent) \in Nat \ {0} /\ Len(sent') = Len(sent) - 1
      /\ sent' \in Seq([duel : Duels, side : Sides])
      /\ \A i \in 1..Len(sent') : sent'[i] = sent[i + 1]
  <2>1. sent # <<>> /\ sent' = Tail(sent)
    BY DEF Mine
  <2>2. Len(sent) \in Nat \ {0} /\ Head(sent) = sent[1]
    BY <1>1, <2>1, EmptySeq
  <2>3. /\ Head(sent) \in [duel : Duels, side : Sides] /\ Tail(sent) \in Seq([duel : Duels, side : Sides])
        /\ Len(Tail(sent)) = Len(sent) - 1
        /\ \A i \in 1..Len(Tail(sent)) : Tail(sent)[i] = sent[i + 1]
    BY <1>1, <2>1, HeadTailProperties
  <2> QED BY <1>2, <2>1, <2>2, <2>3
<1>4. PICK key : key = [duel |-> tx.duel, id |-> Len(orders[tx.duel]) + 1]
  OBVIOUS
<1>5. /\ UNCHANGED <<current, stage, shares, store, active, record, recovered, pc, todo, end, trouble>>
      /\ orders' = IF stage[tx.duel] = "OPEN"
                   THEN [orders EXCEPT ![tx.duel] = Append(@, [side |-> tx.side, live |-> TRUE])] ELSE orders
      /\ receipt' = IF pc = "wait" /\ Len(sent) = 1
                    THEN (IF stage[tx.duel] = "OPEN" THEN key ELSE Reverted) ELSE receipt
  BY <1>2, <1>4 DEF Mine
<1>6. \A d \in Duels : orders[d] \in Seq(Order) /\ Len(orders[d]) \in Nat
  BY <1>1, LenProperties DEF OrderBooks
<1>7. key \in Keys /\ key.duel = tx.duel /\ key.id = Len(orders[tx.duel]) + 1 /\ key.id <= MaxOrders
  <2>1. Len(orders[sent[1].duel]) + 1 <= MaxOrders
    BY <1>1, <1>3 DEF BookInv
  <2> QED BY <1>3, <1>4, <1>6, <2>1, Bounds DEF Keys
<1>8. /\ orders' \in OrderBooks
      /\ \A d \in Duels : Len(orders'[d]) = IF d = tx.duel /\ stage[d] = "OPEN" THEN Len(orders[d]) + 1
                                                                           ELSE Len(orders[d])
      /\ \A k \in OnBook : k \in OnBook' /\ OrderOf(k)' = OrderOf(k)
      /\ stage[tx.duel] # "OPEN" => OnBook' = OnBook
      /\ stage[tx.duel] = "OPEN" => OnBook' = OnBook \cup {key} /\ key \notin OnBook /\ OrderOf(key)'.side = tx.side
      /\ \A d \in Duels : stage[d] # "OPEN" => orders'[d] = orders[d]
  <2>1. CASE stage[tx.duel] # "OPEN"
    BY <1>1, <1>5, <2>1 DEF OnBook, OrderOf
  <2>2. CASE stage[tx.duel] = "OPEN"
    <3> DEFINE o == [side |-> tx.side, live |-> TRUE]
               b == orders[tx.duel]
               c == Append(b, o)
    <3>1. o \in Order /\ b \in Seq(Order) /\ Len(b) \in Nat /\ o.side = tx.side
      BY <1>3, <1>6 DEF Order
    <3>2. /\ c \in Seq(Order) /\ Len(c) = Len(b) + 1 /\ \A i \in 1..Len(b) : c[i] = b[i]
          /\ c[Len(b) + 1] = o
      BY <3>1, AppendProperties
    <3>3. DOMAIN c = 1..Len(c) /\ DOMAIN b = 1..Len(b)
      BY <3>1, <3>2, LenProperties
    <3>4. orders' = [orders EXCEPT ![tx.duel] = c]
      BY <1>5, <2>2
    <3> HIDE DEF o, c
    <3>5. /\ orders' \in OrderBooks /\ orders'[tx.duel] = c
          /\ \A d \in Duels : d # tx.duel => orders'[d] = orders[d]
      BY <1>1, <1>3, <3>2, <3>4 DEF OrderBooks
    <3>6. \A k \in Keys : k \in OnBook' <=> k \in OnBook \/ k = key
      <4> SUFFICES ASSUME NEW k \in Keys PROVE k \in OnBook' <=> k \in OnBook \/ k = key
        OBVIOUS
      <4>1. CASE k.duel # tx.duel
        BY <1>7, <3>5, <4>1 DEF OnBook, Keys
      <4>2. CASE k.duel = tx.duel
        <5>1. k \in OnBook' <=> k.id \in 1..Len(b) + 1
          BY <3>2, <3>3, <3>5, <4>2 DEF OnBook
        <5>2. k \in OnBook <=> k.id \in 1..Len(b)
          BY <3>3, <4>2 DEF OnBook
        <5>3. k = key <=> k.id = Len(b) + 1
          BY <1>7, <4>2 DEF Keys
        <5>4. k.id \in 1..MaxOrders /\ Len(b) \in Nat /\ MaxOrders \in Nat
          BY <3>1, Bounds DEF Keys
        <5> QED BY <5>1, <5>2, <5>3, <5>4
      <4> QED BY <4>1, <4>2
    <3>7. key \notin OnBook
      BY <1>7, <3>1, <3>3 DEF OnBook
    <3>8. \A k \in OnBook : OrderOf(k)' = OrderOf(k)
      BY <3>2, <3>3, <3>5 DEF OnBook, OrderOf, Keys
    <3>9. OrderOf(key)'.side = tx.side
      BY <1>7, <3>1, <3>2, <3>5 DEF OrderOf, o
    <3>10. OnBook' = OnBook \cup {key}
      BY <1>7, <3>6 DEF OnBook
    <3> QED BY <2>2, <3>2, <3>5, <3>7, <3>8, <3>9, <3>10
  <2> QED BY <2>1, <2>2
<1>9. Live' \subseteq Live \cup {key} /\ (stage[tx.duel] # "OPEN" => Live' \subseteq Live)
  BY <1>8 DEF Live
<1>10. Types'
  BY <1>1, <1>5, <1>7 DEF Types, store
<1>11. BookInv'
  <2>1. \A d \in Duels : Len(orders'[d]) <= MaxOrders /\ cursor'[d] <= Len(orders'[d]) + 1
    <3>1. \A d \in Duels : cursor[d] \in Nat /\ MaxOrders \in Nat
      BY <1>1, Bounds DEF Types
    <3> QED BY <1>1, <1>5, <1>6, <1>7, <1>8, <3>1 DEF BookInv, store
  <2>2. \A i \in 1..Len(sent') : Len(orders'[sent'[i].duel]) + i <= MaxOrders
    <3> SUFFICES ASSUME NEW i \in 1..Len(sent') PROVE Len(orders'[sent'[i].duel]) + i <= MaxOrders
      OBVIOUS
    <3>1. /\ i + 1 \in 1..Len(sent) /\ sent'[i] = sent[i + 1] /\ Len(orders[sent[i + 1].duel]) + (i + 1) <= MaxOrders
          /\ sent'[i] \in [duel : Duels, side : Sides]
      <4>1. i \in Nat /\ i + 1 \in 1..Len(sent) /\ sent'[i] = sent[i + 1]
        BY <1>3
      <4>2. sent'[i] \in [duel : Duels, side : Sides]
        BY <1>3, ElementOfSeq
      <4> QED BY <1>1, <4>1, <4>2 DEF BookInv
    <3> QED BY <1>6, <1>8, <3>1, Bounds
  <2>3. \A d \in Duels : stage'[d] = "NONE" => orders'[d] = <<>>
    BY <1>1, <1>5, <1>8 DEF BookInv
  <2> QED BY <1>1, <1>3, <1>5, <1>8, <2>1, <2>2, <2>3 DEF BookInv
<1>12. PhaseInv' /\ ClaimInv'
  <2>1. pc \in {"sweep", "row"} /\ Quotable(record) => end <= Len(orders'[record.duel]) + 1
    <3> SUFFICES ASSUME pc \in {"sweep", "row"}, Quotable(record) PROVE end <= Len(orders'[record.duel]) + 1
      OBVIOUS
    <3>1. record.duel \in Duels /\ end \in Nat /\ end <= Len(orders[record.duel]) + 1
      BY <1>1, Bounds DEF PhaseInv, Quotable, Types, Records
    <3> QED BY <1>6, <1>8, <3>1
  <2> QED BY <1>1, <1>5, <2>1 DEF PhaseInv, ClaimInv, store, Quotable
<1>13. NoForgottenOrder'
  <2>1. cursor[tx.duel] <= key.id
    BY <1>1, <1>3, <1>7 DEF BookInv
  <2> QED BY <1>1, <1>5, <1>7, <1>9, <2>1 DEF NoForgottenOrder, store
<1>14. ASSUME Calm' PROVE CalmControl' /\ CalmBook'
  <2>1. Calm /\ CalmControl /\ CalmBook
    BY <1>1, <1>5, <1>14 DEF Calm
  <2>2. pc = "wait" /\ Len(sent) = 1 /\ receipt' = IF stage[tx.duel] = "OPEN" THEN key ELSE Reverted
    BY <1>3, <1>5, <2>1 DEF CalmControl
  <2>3. sent' = <<>>
    BY <1>3, <2>2, EmptySeq
  <2>4. CalmControl'
    BY <1>5, <2>1, <2>2, <2>3 DEF CalmControl, store
  <2>5. \A k \in Live : stage[k.duel] = "OPEN" => k \in active
    BY <1>3, <2>1 DEF CalmBook, InHand
  <2>6. CalmBook'
    BY <1>5, <1>9, <2>2, <2>3, <2>5 DEF CalmBook, InHand
  <2> QED BY <2>4, <2>6
<1>15. OneQuotePerSide'
  <2> SUFFICES ASSUME Calm', NEW k \in Live', NEW l \in Live', k.duel = l.duel, OrderOf(k)'.side = OrderOf(l)'.side
               PROVE  k = l
    BY DEF OneQuotePerSide, Calm
  <2>1. Calm /\ CalmBook
    BY <1>1, <1>5 DEF Calm
  <2>2. CASE k \in Live /\ l \in Live
    BY <1>1, <1>8, <2>1, <2>2 DEF OneQuotePerSide, Calm
  <2>3. CASE ~(k \in Live /\ l \in Live)
    <3>1. stage[tx.duel] = "OPEN" /\ OrderOf(key)'.side = tx.side /\ key.duel = tx.duel
      BY <1>7, <1>8, <1>9, <2>3
    <3>2. \A m \in Live : ~(m.duel = tx.duel /\ OrderOf(m)'.side = tx.side)
      BY <1>1, <1>2, <1>3, <1>8, <2>1, <3>1 DEF CalmBook
    <3> QED BY <1>9, <2>3, <3>1, <3>2
  <2> QED BY <2>2, <2>3
<1> QED BY <1>10, <1>11, <1>12, <1>13, <1>14, <1>15 DEF BotInv

\* The duel moves on: an open book has been open before, or is empty.
LEMMA MovesOnStep ==
    ASSUME BotInv, DuelMovesOn
    PROVE  BotInv'
<1>1. /\ Types /\ BookInv /\ PhaseInv /\ ClaimInv /\ NoForgottenOrder /\ OneQuotePerSide
      /\ Calm => CalmControl /\ CalmBook
      /\ orders \in OrderBooks
      /\ UNCHANGED <<orders, shares, sent, store, memory, trouble>>
      /\ current \in Nat /\ Duels = 1..NumDuels /\ NumDuels \in Nat
  BY Bounds DEF BotInv, BookInv, Types, DuelMovesOn, Duels
<1>2. /\ stage' \in [Duels -> Stages] /\ current' \in Duels
      /\ stage'[current'] # "NONE"
      /\ \A d \in Duels : d > current' => stage'[d] = "NONE"
      /\ \A d \in Duels : stage'[d] = "NONE" => stage[d] = "NONE"
      /\ \A d \in Duels : stage'[d] = "OPEN" => stage[d] \in {"OPEN", "NONE"}
      /\ \A d \in Duels : stage[d] = "RESOLVED" => stage'[d] = "RESOLVED"
  <2>1. CASE /\ stage[current] # "RESOLVED"
             /\ stage' = [stage EXCEPT ![current] = IF @ = "OPEN" THEN "LOCKED" ELSE "RESOLVED"]
             /\ UNCHANGED current
    BY <1>1, <2>1 DEF Types, BookInv, Stages
  <2>2. CASE /\ stage[current] = "RESOLVED" /\ current < NumDuels
             /\ current' = current + 1
             /\ stage' = [stage EXCEPT ![current + 1] = "OPEN"]
    <3>1. current + 1 \in Duels /\ stage[current + 1] = "NONE"
      BY <1>1, <2>2 DEF Types, BookInv
    <3> QED BY <1>1, <2>2, <3>1 DEF Types, BookInv, Stages
  <2> QED BY <2>1, <2>2 DEF DuelMovesOn
<1>3. OnBook' = OnBook /\ Live' = Live /\ \A k \in Live : OrderOf(k)' = OrderOf(k)
  BY <1>1 DEF OnBook, Live, OrderOf
<1>4. \A k \in Live : k \in Keys /\ k.duel \in Duels /\ stage[k.duel] # "NONE"
  <2> SUFFICES ASSUME NEW k \in Live PROVE k \in Keys /\ k.duel \in Duels /\ stage[k.duel] # "NONE"
    OBVIOUS
  <2>1. k \in OnBook /\ k.duel \in Duels /\ k \in Keys /\ k.id \in 1..Len(orders[k.duel])
    BY <1>1, OnBooks DEF Live
  <2>2. orders[k.duel] # <<>>
    BY <2>1, EmptySeq
  <2> QED BY <1>1, <2>1, <2>2 DEF BookInv
<1>5. Types' /\ ClaimInv'
  BY <1>1, <1>2 DEF Types, ClaimInv, store, memory
<1>6. BookInv' /\ PhaseInv'
  BY <1>1, <1>2 DEF BookInv, PhaseInv, store, memory, Quotable
<1>7. NoForgottenOrder' /\ OneQuotePerSide'
  BY <1>1, <1>2, <1>3, <1>4 DEF NoForgottenOrder, OneQuotePerSide, store
<1>8. ASSUME Calm' PROVE CalmControl' /\ CalmBook'
  <2>1. CalmControl /\ CalmBook
    BY <1>1, <1>8 DEF Calm
  <2>2. CalmControl'
    BY <1>1, <2>1 DEF CalmControl, store, memory
  <2>3. sent # <<>> => Head(sent).duel \in Duels
    <3>1. sent # <<>> => Head(sent) \in [duel : Duels, side : Sides]
      BY <1>1, HeadTailProperties DEF BookInv
    <3> QED BY <3>1
  <2>4. \A k \in Live : stage'[k.duel] = "OPEN" => k \in active' \/ InHand(k)'
    BY <1>1, <1>2, <1>4, <2>1 DEF CalmBook, InHand, memory
  <2>5. sent # <<>> /\ stage'[Head(sent).duel] = "OPEN" =>
          \A k \in Live : ~(k.duel = Head(sent).duel /\ OrderOf(k).side = Head(sent).side)
    BY <1>2, <1>4, <2>1, <2>3 DEF CalmBook
  <2> QED BY <1>1, <1>3, <2>2, <2>4, <2>5 DEF CalmBook
<1> QED BY <1>5, <1>6, <1>7, <1>8 DEF BotInv

\* A placement is sent where the bot knows of no order, and under calm there
\* is none then.
LEMMA PlaceStep ==
    ASSUME BotInv, Place
    PROVE  BotInv'
<1>1. /\ Types /\ BookInv /\ PhaseInv /\ ClaimInv /\ NoForgottenOrder /\ OneQuotePerSide
      /\ Calm => CalmControl /\ CalmBook
      /\ orders \in OrderBooks /\ sent \in Seq([duel : Duels, side : Sides])
      /\ UNCHANGED <<current, stage, orders, shares, store, active, record, recovered, todo, end, trouble>>
      /\ pc \in Sides /\ pc' = "wait" /\ receipt' = None /\ Existing = {}
      /\ Len(orders[record.duel]) + Len(sent) < MaxOrders
  BY DEF BotInv, BookInv, Place
<1>2. PICK tx : tx = [duel |-> record.duel, side |-> pc]
  OBVIOUS
<1>3. Quotable(record) /\ record \in Records
  BY <1>1 DEF PhaseInv, Sides, Quotable, Types
<1>4. tx \in [duel : Duels, side : Sides] /\ tx.duel = record.duel /\ tx.side = pc
  BY <1>1, <1>2, <1>3 DEF Records
<1>5. /\ sent' = Append(sent, tx) /\ sent' \in Seq([duel : Duels, side : Sides]) /\ Len(sent) \in Nat
      /\ Len(sent') = Len(sent) + 1 /\ sent' # <<>>
      /\ \A i \in 1..Len(sent) : sent'[i] = sent[i]
      /\ sent'[Len(sent) + 1] = tx
  <2>1. sent' = Append(sent, tx)
    BY <1>2 DEF Place
  <2> QED BY <1>1, <1>4, <2>1, AppendProperties, LenProperties
<1>6. Types'
  BY <1>1 DEF Types, store, Phases, Sides
<1>7. PhaseInv' /\ ClaimInv'
  BY <1>1, <1>3 DEF PhaseInv, ClaimInv, store, Quotable
<1>8. BookInv'
  <2>1. \A i \in 1..Len(sent') : Len(orders[sent'[i].duel]) + i <= MaxOrders
    <3> SUFFICES ASSUME NEW i \in 1..Len(sent') PROVE Len(orders[sent'[i].duel]) + i <= MaxOrders
      OBVIOUS
    <3>1. CASE i \in 1..Len(sent)
      <4>1. sent'[i] = sent[i] /\ Len(orders[sent[i].duel]) + i <= MaxOrders
        BY <1>1, <1>5, <3>1 DEF BookInv
      <4> QED BY <4>1
    <3>2. CASE i = Len(sent) + 1
      <4>1. Len(orders[record.duel]) \in Nat
        BY <1>1, <1>3, LenProperties DEF OrderBooks, Records
      <4>2. sent'[i].duel = record.duel
        BY <1>4, <1>5, <3>2
      <4>3. Len(orders[record.duel]) + (Len(sent) + 1) <= MaxOrders
        <5>1. Len(orders[record.duel]) + Len(sent) < MaxOrders
          BY <1>1
        <5>2. MaxOrders \in Nat /\ Len(sent) \in Nat
          BY <1>5, Bounds
        <5>3. \A a, b, c \in Nat : a + b < c => a + (b + 1) <= c
          OBVIOUS
        <5> QED BY <4>1, <5>1, <5>2, <5>3
      <4> QED BY <3>2, <4>2, <4>3
    <3>3. i \in 1..(Len(sent) + 1)
      BY <1>5
    <3>4. i \in 1..Len(sent) \/ i = Len(sent) + 1
      BY <1>5, <3>3
    <3> QED BY <3>1, <3>2, <3>4
  <2> QED BY <1>1, <1>5, <2>1 DEF BookInv, store
<1>9. OnBook' = OnBook /\ Live' = Live /\ \A k \in Live : OrderOf(k)' = OrderOf(k)
  BY <1>1 DEF OnBook, Live, OrderOf
<1>10. NoForgottenOrder' /\ OneQuotePerSide'
  BY <1>1, <1>9 DEF NoForgottenOrder, OneQuotePerSide, store
<1>11. ASSUME Calm' PROVE CalmControl' /\ CalmBook'
  <2>1. CalmControl /\ CalmBook
    BY <1>1, <1>11 DEF Calm
  <2>2. sent = <<>> /\ Len(sent) = 0
    <3>1. sent = <<>>
      BY <1>1, <2>1 DEF CalmControl, Sides
    <3> QED BY <3>1, EmptySeq
  <2>3. \A k \in Live : stage[k.duel] = "OPEN" => k \in active
    BY <1>1, <2>1 DEF CalmBook, InHand, Sides
  <2>4. \A k \in Live : ~(stage[k.duel] = "OPEN" /\ k.duel = record.duel /\ OrderOf(k).side = pc)
    BY <1>1, <2>3 DEF Existing
  <2>5. Head(sent') = tx
    BY <1>5, <2>2
  <2>6. CalmControl'
    BY <1>1, <1>5, <2>1, <2>2 DEF CalmControl, store, Sides
  <2> QED BY <1>1, <1>4, <1>9, <2>3, <2>4, <2>5, <2>6 DEF CalmBook
<1> QED BY <1>6, <1>7, <1>8, <1>10, <1>11 DEF BotInv

\* The cursor passes an order only when the bot tracks it, or it is gone.
LEMMA SweepEndStep ==
    ASSUME BotInv, SweepEnds
    PROVE  BotInv'
<1>1. /\ Types /\ BookInv /\ PhaseInv /\ ClaimInv /\ NoForgottenOrder /\ OneQuotePerSide
      /\ Calm => CalmControl /\ CalmBook
      /\ orders \in OrderBooks
      /\ UNCHANGED <<chain, rows, backlog, active, record, recovered, end, receipt, trouble>>
      /\ pc = "sweep" /\ pc' = "outbox" /\ todo' \subseteq Keys
      /\ outbox' = [k \in Keys |-> IF outbox[k] = "PENDING" THEN "LEASED" ELSE outbox[k]]
  BY DEF BotInv, BookInv, SweepEnds
<1>2. \/ UNCHANGED cursor
      \/ /\ Quotable(record) /\ Strays(record.duel) = {} /\ record.duel \in Duels
         /\ cursor' = [cursor EXCEPT ![record.duel] = end]
         /\ end <= Len(orders[record.duel]) + 1
  BY <1>1 DEF SweepEnds, Quotable, Types, Records, PhaseInv
<1>3. cursor' \in [Duels -> 1..MaxOrders + 1] /\ \A d \in Duels : cursor'[d] <= Len(orders[d]) + 1
  BY <1>1, <1>2 DEF Types, BookInv
<1>4. outbox' \in [Keys -> {"NONE", "PENDING", "LEASED"}]
  BY <1>1 DEF Types
<1>5. Types'
  BY <1>1, <1>3, <1>4 DEF Types, chain, Phases
<1>6. BookInv' /\ PhaseInv' /\ ClaimInv'
  BY <1>1, <1>3 DEF BookInv, PhaseInv, ClaimInv, chain, Quotable
<1>7. OnBook' = OnBook /\ Live' = Live /\ \A k \in Live : OrderOf(k)' = OrderOf(k) /\ k \in Keys
  BY <1>1 DEF OnBook, Live, OrderOf, chain
<1>8. NoForgottenOrder'
  <2> SUFFICES ASSUME trouble["refusal"] = 0, NEW k \in Live, stage[k.duel] = "OPEN"
               PROVE  rows[k] \in {"OPEN", "ORPHANED", "QUARANTINED"} \/ cursor'[k.duel] <= k.id
    BY <1>1, <1>7 DEF NoForgottenOrder, chain
  <2>1. rows[k] \in {"OPEN", "ORPHANED", "QUARANTINED"} \/ cursor[k.duel] <= k.id
    BY <1>1 DEF NoForgottenOrder
  <2>2. CASE cursor'[k.duel] = cursor[k.duel]
    BY <2>1, <2>2
  <2>3. CASE /\ k.duel = record.duel /\ Strays(record.duel) = {}
             /\ cursor' = [cursor EXCEPT ![record.duel] = end]
             /\ record.duel \in Duels
    <3>1. k \notin active => ~(cursor[k.duel] <= k.id /\ k.id < end)
      BY <2>3 DEF Strays, Unseen, Live
    <3>2. k \in active => rows[k] \in {"OPEN", "ORPHANED"}
      BY <1>1 DEF Types
    <3>3. cursor'[k.duel] = end /\ end \in Nat /\ k.id \in Nat
      BY <1>1, <1>7, <2>3, Bounds DEF Types, Keys
    <3> QED BY <2>1, <3>1, <3>2, <3>3
  <2>4. k.duel \in Duels /\ cursor \in [Duels -> 1..MaxOrders + 1]
    BY <1>1, <1>7 DEF Types, Keys
  <2> QED BY <1>2, <2>2, <2>3, <2>4
<1>9. OneQuotePerSide'
  BY <1>1, <1>7 DEF OneQuotePerSide
<1>10. Calm' => CalmControl' /\ CalmBook'
  BY <1>1, <1>7 DEF Calm, CalmControl, CalmBook, InHand, chain
<1> QED BY <1>5, <1>6, <1>8, <1>9, <1>10 DEF BotInv

\* A bot that has just started satisfies the invariant.
LEMMA InitBot == Init => BotInv
<1> SUFFICES ASSUME Init PROVE BotInv
  OBVIOUS
<1>1. Types
  <2>1. /\ current \in Duels /\ stage \in [Duels -> Stages] /\ shares \subseteq Duels
        /\ rows \in [Keys -> Statuses \cup {"NONE"}] /\ outbox \in [Keys -> {"NONE", "PENDING", "LEASED"}]
        /\ backlog \in [Duels -> Claims]
    BY Bounds DEF Init, Stages, Claims
  <2>2. 1 \in 1..MaxOrders + 1 /\ \A t \in Troubles : Budget[t] \in Nat /\ 0 <= Budget[t]
    BY Bounds
  <2>3. cursor \in [Duels -> 1..MaxOrders + 1] /\ end \in 1..MaxOrders + 1
    BY <2>2 DEF Init
  <2>4. trouble \in [Troubles -> Nat] /\ \A t \in Troubles : trouble[t] <= Budget[t]
    BY <2>2 DEF Init
  <2> QED BY <2>1, <2>3, <2>4 DEF Init, Types, Phases
<1>2. orders \in OrderBooks /\ sent \in Seq([duel : Duels, side : Sides]) /\ Len(sent) = 0
      /\ \A d \in Duels : orders[d] = <<>> /\ Len(orders[d]) = 0
  BY EmptySeq DEF Init, OrderBooks
<1>3. Live = {}
  <2>1. OnBook = {}
    BY <1>2, OnBooks
  <2> QED BY <2>1 DEF Live
<1>4. BookInv
  BY <1>2, Bounds DEF Init, BookInv, Duels
<1>5. PhaseInv /\ ClaimInv /\ NoForgottenOrder /\ OneQuotePerSide /\ CalmControl /\ CalmBook
  BY <1>3 DEF Init, PhaseInv, ClaimInv, NoForgottenOrder, OneQuotePerSide, CalmControl, CalmBook
<1> QED BY <1>1, <1>4, <1>5 DEF BotInv

\* No step of the bot, the chain or the traders breaks it.
LEMMA StepBot ==
    ASSUME BotInv, [Next]_vars
    PROVE  BotInv'
<1>1. CASE Routine /\ Rest
  BY <1>1, RoutineKeeps DEF BotInv, Rest
<1>2. CASE Mine \/ DuelMovesOn \/ Place \/ SweepEnds
  BY <1>2, MineStep, MovesOnStep, PlaceStep, SweepEndStep
<1>3. CASE UNCHANGED vars
  <2>1. UNCHANGED <<current, stage, orders, shares, sent, rows, cursor, outbox, backlog, active, record,
                    recovered, pc, todo, end, receipt, trouble>>
    BY <1>3 DEF vars, chain, store, memory
  <2>2. Routine
    BY <2>1, AwayFromBooks DEF BotInv, BookInv, Types, InHand
  <2>3. Rest
    BY <2>1 DEF Rest, BotInv, Types, PhaseInv, ClaimInv, Calm, CalmControl, Quotable
  <2> QED BY <1>1, <2>2, <2>3
<1> QED BY <1>1, <1>2, <1>3, RecoverySteps, CancelSteps, SweepSteps, OtherSteps, LossSteps
        DEF Next, Bot, World

\* The inductive invariant of the bot holds in every state.
THEOREM BotInvariant == Spec => []BotInv
<1>1. BotInv /\ [Next]_vars => BotInv'
  BY StepBot
<1> QED BY <1>1, InitBot, PTL DEF Spec

\* The bot's state has the types TypeOK gives: no book has more orders than
\* it may hold, and no more placements wait to be mined.
THEOREM BotTypeCorrect == Spec => []TypeOK
<1>1. BotInv => TypeOK
  <2> SUFFICES ASSUME BotInv PROVE TypeOK
    OBVIOUS
  <2>1. Types /\ BookInv /\ orders \in OrderBooks /\ sent \in Seq([duel : Duels, side : Sides])
    BY DEF BotInv, BookInv
  <2>2. \A d \in Duels : orders[d] \in BoundedSeq([side : Sides, live : BOOLEAN], MaxOrders)
    BY <2>1, Bounded, Bounds DEF BookInv, OrderBooks, Order
  <2>3. Len(sent) <= MaxOrders
    <3>1. Len(sent) \in Nat
      BY <2>1, LenProperties
    <3>2. CASE Len(sent) # 0
      <4>1. Len(sent) \in 1..Len(sent)
        BY <3>1, <3>2
      <4>2. sent[Len(sent)] \in [duel : Duels, side : Sides]
        BY <2>1, <4>1, ElementOfSeq
      <4>3. Len(orders[sent[Len(sent)].duel]) \in Nat
        BY <2>1, <4>2, LenProperties DEF OrderBooks
      <4> QED BY <2>1, <3>1, <4>1, <4>3, Bounds DEF BookInv
    <3> QED BY <3>1, <3>2, Bounds
  <2>4. sent \in BoundedSeq([duel : Duels, side : Sides], MaxOrders)
    BY <2>1, <2>3, Bounded, Bounds
  <2> QED BY <2>1, <2>2, <2>4 DEF TypeOK, Types, Stages
<1> QED BY <1>1, BotInvariant, PTL

\* While its book is open no order of the bot is lost to it, wherever it
\* crashed or gave up, unless a cancel or a reading was refused.
THEOREM OrdersRemembered == Spec => []NoForgottenOrder
<1>1. BotInv => NoForgottenOrder
  BY DEF BotInv
<1> QED BY <1>1, BotInvariant, PTL

\* A claim is only called resolved once it has been paid.
THEOREM ResolvedClaimsPaid == Spec => []PaidWhenResolved
<1>1. BotInv => PaidWhenResolved
  BY DEF BotInv, ClaimInv, PaidWhenResolved
<1> QED BY <1>1, BotInvariant, PTL

\* As long as nothing goes wrong no side of a book has two orders of the bot.
THEOREM OneQuoteUnderCalm == Spec => []OneQuotePerSide
<1>1. BotInv => OneQuotePerSide
  BY DEF BotInv
<1> QED BY <1>1, BotInvariant, PTL

(***************************************************************************)
(* The quotes.                                                             *)
(*                                                                         *)
(* What is at risk on a side does not change when a taker fills an order:  *)
(* an order becomes shares.  So a limit is safe between the reading of the *)
(* market and the last order placed from it when what is at risk and what  *)
(* the plan has still to place keep it together (Promised).  What a plan   *)
(* promises follows from the planner alone: PlanIsSound.                   *)
(***************************************************************************)

-----------------------------------------------------------------------------
(* Rounding. *)

\* Math.round returns an integer, and not more than a bound of the quotient.
LEMMA RoundedBound ==
    ASSUME NEW n \in Int, NEW d \in Nat \ {0}, NEW k \in Int
    PROVE  /\ Rounded(n, d) \in Int
           /\ n <= k * d => Rounded(n, d) <= k
           /\ n = k * d => Rounded(n, d) = k
           /\ 2 * n <= k * d => 2 * Rounded(n, d) <= k + 1
<1> DEFINE q == Rounded(n, d)
<1>1. q \in Int /\ q * (2 * d) <= 2 * n + d /\ 2 * n + d < (q + 1) * (2 * d)
  BY DEF Rounded
<1> HIDE DEF q
<1>2. ASSUME NEW a \in Int, NEW b \in Int, a < b PROVE (a + 1) * d <= b * d
  <2>1. b - (a + 1) \in Nat
    BY <1>2
  <2>2. (b - (a + 1)) * d >= 0
    BY <2>1
  <2> QED BY <2>2
<1>3. d >= 1
  OBVIOUS
<1>4. n <= k * d => q <= k
  <2> SUFFICES ASSUME n <= k * d, k < q PROVE FALSE
    BY <1>1
  <2>1. (k + 1) * d <= q * d
    BY <1>1, <1>2
  <2> QED BY <1>1, <1>3, <2>1
<1>5. n = k * d => q >= k
  <2> SUFFICES ASSUME n = k * d, q < k PROVE FALSE
    BY <1>1
  <2>1. (q + 1) * d <= k * d
    BY <1>1, <1>2
  <2> QED BY <1>1, <1>3, <2>1
<1>6. 2 * n <= k * d => 2 * q <= k + 1
  <2> SUFFICES ASSUME 2 * n <= k * d, k + 1 < 2 * q PROVE FALSE
    BY <1>1
  <2>1. (k + 2) * d <= (2 * q) * d
    BY <1>1, <1>2
  <2>2. (k + 2) * d = k * d + 2 * d /\ (2 * q) * d = q * (2 * d)
    BY <1>1
  <2> QED BY <1>1, <1>3, <2>1, <2>2
<1> QED BY <1>1, <1>4, <1>5, <1>6 DEF q

\* The least of four numbers is one of them and exceeds none.
LEMMA LeastOfFour ==
    ASSUME NEW a \in Int, NEW b \in Int, NEW c \in Int, NEW d \in Int
    PROVE  /\ Min({a, b, c, d}) \in {a, b, c, d}
           /\ \A x \in {a, b, c, d} : Min({a, b, c, d}) <= x
<1>1. \E x \in {a, b, c, d} : \A y \in {a, b, c, d} : x <= y
  OBVIOUS
<1> QED BY <1>1 DEF Min

\* A price is clamped into its range.
LEMMA ClampedPrice ==
    ASSUME NEW price \in Int
    PROVE  ClampPrice(price) \in MinQuotePrice..MaxQuotePrice
BY QuoteAssumption DEF ClampPrice, AtMost, AtLeast

-----------------------------------------------------------------------------
(* The planner. *)

Exposures == [QuoteSides -> Nat]

\* The readings a plan is made from: a best price is 0, NoAsk, a maker's or the bot's own.
Hints == Signals \cup {Absent}

LEMMA ExposureType ==
    ASSUME NEW expo \in Exposures, NEW s \in QuoteSides
    PROVE  /\ Gross(expo) \in Nat /\ Net(expo, s) \in Int
           /\ Denominator(expo) \in Nat \ {0}
           /\ Net(expo, s) <= Gross(expo) /\ Gross(expo) <= Denominator(expo)
           /\ Gross(expo) = expo[s] + expo[Other(s)]
           /\ Net(expo, s) = expo[s] - expo[Other(s)]
BY DEF Exposures, Gross, Net, Denominator, AtLeast, QuoteSides, Other

\* The fair value and the two prices of a plan are prices of the range.
LEMMA PricesInRange ==
    ASSUME NEW bid \in Int, NEW ask \in Int, NEW hint \in Hints, NEW expo \in Exposures, NEW s \in QuoteSides,
           NEW toxic \in BOOLEAN
    PROVE  LET fair == FairValue(bid, ask, hint, expo)
           IN  Prices(fair, Width(fair, toxic))[s] \in MinQuotePrice..MaxQuotePrice
<1> DEFINE fair == FairValue(bid, ask, hint, expo)
           width == Width(fair, toxic)
           low == ClampPrice(Rounded(2 * fair - width, 2))
           high == ClampPrice(Rounded(2 * fair + width, 2))
<1>1. fair \in Int
  <2> DEFINE base == BasePrice(bid, ask, hint)
             d == Denominator(expo)
             n == base * (10000 * d - InventorySkewBps * Net(expo, "BID"))
  <2>1. base \in Int
    <3>1. hint # Absent => ClampPrice(hint) \in Int
      BY ClampedPrice, QuoteAssumption DEF Hints
    <3>2. ClampPrice(FallbackPrice) \in Int
      BY ClampedPrice, QuoteAssumption
    <3>3. SignalWeightPercent \in Int
      BY QuoteAssumption
    <3> QED BY <3>1, <3>2, <3>3 DEF BasePrice
  <2>2. d \in Nat \ {0} /\ Net(expo, "BID") \in Int
    BY ExposureType DEF QuoteSides
  <2>3. InventorySkewBps \in Int
    BY QuoteAssumption
  <2> HIDE DEF base, d
  <2>4. n \in Int
    BY <2>1, <2>2, <2>3
  <2> HIDE DEF n
  <2>5. Rounded(n, 2000000 * d) \in Int
    BY <2>2, <2>4, RoundedBound
  <2>6. fair = ClampPrice(Rounded(n, 2000000 * d))
    BY DEF FairValue, base, d, n
  <2>7. MinQuotePrice \in Int /\ MaxQuotePrice \in Int
    BY QuoteAssumption
  <2> QED BY <2>5, <2>6, <2>7, ClampedPrice
<1> HIDE DEF fair
<1>2. width \in Int
  <2>1. TargetSpreadBps * fair \in Int
    BY <1>1, QuoteAssumption
  <2>2. RoundedUp(TargetSpreadBps * fair, 10000) \in Int
    BY <2>1 DEF RoundedUp
  <2>3. AtLeast(5, RoundedUp(TargetSpreadBps * fair, 10000)) \in Int
    BY <2>2 DEF AtLeast
  <2>4. ToxicSpreadMultiplier \in Int
    BY QuoteAssumption
  <2> QED BY <2>3, <2>4 DEF Width
<1> HIDE DEF width
<1>3. low \in MinQuotePrice..MaxQuotePrice /\ high \in MinQuotePrice..MaxQuotePrice
  <2>1. Rounded(2 * fair - width, 2) \in Int /\ Rounded(2 * fair + width, 2) \in Int
    BY <1>1, <1>2, RoundedBound
  <2> QED BY <2>1, ClampedPrice
<1> HIDE DEF low, high
<1>4. Prices(fair, width) = IF low < high THEN [BID |-> low, ASK |-> high]
                            ELSE [BID |-> AtLeast(MinQuotePrice, high - 1),
                                  ASK |-> AtMost(MaxQuotePrice, AtLeast(MinQuotePrice, high - 1) + 1)]
  BY DEF Prices, low, high
<1>5. MinQuotePrice \in Nat /\ MaxQuotePrice \in Nat /\ MinQuotePrice < MaxQuotePrice
  BY QuoteAssumption
<1> QED BY <1>3, <1>4, <1>5 DEF QuoteSides, AtLeast, AtMost, fair, width

\* The quantity both sides start from is a quote, and one of the least size or at most half of
\* the room left under the gross limit: a whole quote is at most half of that limit.
LEMMA BaseBound ==
    ASSUME NEW expo \in Exposures, NEW toxic \in BOOLEAN
    PROVE  /\ BaseUnits(expo, toxic) \in MinQuoteUnits..MaxQuoteUnits
           /\ \/ BaseUnits(expo, toxic) = MinQuoteUnits
              \/ 2 * BaseUnits(expo, toxic) <= AtLeast(0, MaxGrossExposure - Gross(expo)) + 1
<1> DEFINE bps == IF toxic THEN ToxicUnitReductionBps ELSE 10000
           room == AtLeast(0, MaxGrossExposure - Gross(expo))
           bySide == Scaled(MaxInventoryPerSide - AtLeast(expo.BID, expo.ASK), MaxInventoryPerSide, toxic)
           byGross == Scaled(MaxGrossExposure - Gross(expo), MaxGrossExposure, toxic)
           n == MaxQuoteUnits * room * bps
<1>1. /\ MaxQuoteUnits \in Nat /\ MinQuoteUnits \in Nat /\ MinQuoteUnits <= MaxQuoteUnits
      /\ MaxGrossExposure \in Nat \ {0} /\ MaxInventoryPerSide \in Nat \ {0}
      /\ 2 * MaxQuoteUnits <= MaxGrossExposure
  BY QuoteAssumption
<1>2. bps \in 0..10000
  BY QuoteAssumption
<1>3. Gross(expo) \in Nat
  BY ExposureType DEF QuoteSides
<1>4. room \in Nat
  BY <1>1, <1>3 DEF AtLeast
<1> HIDE DEF bps, room
<1>5. bySide \in Int
  <2> DEFINE left == AtLeast(0, MaxInventoryPerSide - AtLeast(expo.BID, expo.ASK))
  <2>1. expo.BID \in Nat /\ expo.ASK \in Nat
    BY DEF Exposures, QuoteSides
  <2>2. left \in Int
    BY <1>1, <2>1 DEF AtLeast
  <2> HIDE DEF left
  <2>3. MaxQuoteUnits * left * bps \in Int
    BY <1>1, <1>2, <2>2
  <2>4. Rounded(MaxQuoteUnits * left * bps, MaxInventoryPerSide * 10000) \in Int
    BY <1>1, <2>3, RoundedBound
  <2> QED BY <2>4 DEF Scaled, left, bps
<1>6. byGross = Rounded(n, MaxGrossExposure * 10000)
  BY DEF Scaled, room, bps
<1>7. n \in Nat /\ 2 * n <= room * (MaxGrossExposure * 10000)
  <2>1. n \in Nat
    BY <1>1, <1>2, <1>4
  <2>2. (2 * MaxQuoteUnits) * room <= MaxGrossExposure * room
    BY <1>1, <1>4
  <2> DEFINE a == (2 * MaxQuoteUnits) * room
             b == MaxGrossExposure * room
  <2>3. a \in Nat /\ b \in Nat
    BY <1>1, <1>4
  <2>4. 2 * n = a * bps /\ room * (MaxGrossExposure * 10000) = b * 10000
    BY <1>1, <1>2, <1>4
  <2>5. a <= b
    BY <2>2
  <2> HIDE DEF a, b
  <2>6. a * bps <= a * 10000
    BY <1>2, <2>3
  <2> QED BY <2>1, <2>3, <2>4, <2>5, <2>6
<1>8. byGross \in Int /\ 2 * byGross <= room + 1
  <2> DEFINE d == MaxGrossExposure * 10000
  <2>1. d \in Nat \ {0}
    BY <1>1
  <2> HIDE DEF n, byGross
  <2>2. n \in Int /\ room \in Int /\ 2 * n <= room * d /\ byGross = Rounded(n, d)
    BY <1>4, <1>6, <1>7
  <2> HIDE DEF d
  <2> QED BY <2>1, <2>2, RoundedBound
<1>9. BaseUnits(expo, toxic) = AtMost(MaxQuoteUnits, AtLeast(MinQuoteUnits, AtMost(bySide, byGross)))
  BY DEF BaseUnits
<1> HIDE DEF bySide, byGross
<1>10. /\ BaseUnits(expo, toxic) \in MinQuoteUnits..MaxQuoteUnits
       /\ BaseUnits(expo, toxic) = MinQuoteUnits \/ 2 * BaseUnits(expo, toxic) <= room + 1
  BY <1>1, <1>4, <1>5, <1>8, <1>9 DEF AtMost, AtLeast
<1> QED BY <1>10 DEF room

\* A side is asked for the base at most, and for all of it when it does not outweigh the other.
LEMMA RequestedBound ==
    ASSUME NEW expo \in Exposures, NEW s \in QuoteSides, NEW toxic \in BOOLEAN
    PROVE  /\ RequestedUnits(expo, s, toxic) \in Int
           /\ RequestedUnits(expo, s, toxic) <= BaseUnits(expo, toxic)
           /\ Net(expo, s) <= 0 => RequestedUnits(expo, s, toxic) = BaseUnits(expo, toxic)
<1> DEFINE base == BaseUnits(expo, toxic)
           d == Denominator(expo)
           weight == AtLeast(d, 4 * (d - AtLeast(0, Net(expo, s))))
<1>1. base \in Nat
  BY BaseBound, QuoteAssumption
<1>2. d \in Nat \ {0} /\ Net(expo, s) \in Int /\ Net(expo, s) <= d
  BY ExposureType
<1>3. RequestedUnits(expo, s, toxic) = Rounded(base * weight, 4 * d)
  BY DEF RequestedUnits
<1> HIDE DEF base, d
<1>4. weight \in Nat /\ weight <= 4 * d /\ (Net(expo, s) <= 0 => weight = 4 * d)
  BY <1>2 DEF AtLeast
<1> HIDE DEF weight
<1>5. base * weight \in Int /\ base * weight <= base * (4 * d)
  BY <1>1, <1>2, <1>4
<1>6. Net(expo, s) <= 0 => base * weight = base * (4 * d)
  BY <1>4
<1>7. 4 * d \in Nat \ {0}
  BY <1>2
<1> QED BY <1>1, <1>3, <1>5, <1>6, <1>7, RoundedBound DEF base

\* What is offered is nothing or a quote that passes no limit, and nothing only when a limit leaves
\* no room for the least quote.
LEMMA ClampBound ==
    ASSUME NEW requested \in Int, NEW expo \in Exposures, NEW s \in QuoteSides
    PROVE  LET units == ClampUnits(requested, expo, s)
           IN  /\ units \in Nat
               /\ units # 0 => /\ MinQuoteUnits <= units /\ units <= requested
                               /\ expo[s] + units <= MaxInventoryPerSide
                               /\ Net(expo, s) + units <= MaxNetExposure
                               /\ Gross(expo) + units <= MaxGrossExposure
               /\ (/\ requested >= MinQuoteUnits
                   /\ expo[s] + MinQuoteUnits <= MaxInventoryPerSide
                   /\ Net(expo, s) + MinQuoteUnits <= MaxNetExposure
                   /\ Gross(expo) + MinQuoteUnits <= MaxGrossExposure) => units # 0
<1> DEFINE a == AtLeast(0, MaxInventoryPerSide - expo[s])
           b == AtLeast(0, MaxNetExposure - Net(expo, s))
           c == AtLeast(0, MaxGrossExposure - Gross(expo))
           bounded == Min({requested, a, b, c})
<1>1. /\ MaxInventoryPerSide \in Nat /\ MaxNetExposure \in Nat /\ MaxGrossExposure \in Nat
      /\ MinQuoteUnits \in Nat \ {0}
  BY QuoteAssumption
<1>2. expo[s] \in Nat /\ Net(expo, s) \in Int /\ Gross(expo) \in Nat
  BY ExposureType DEF Exposures
<1>3. a \in Int /\ b \in Int /\ c \in Int
  BY <1>1, <1>2 DEF AtLeast
<1>4. ClampUnits(requested, expo, s) = IF bounded >= MinQuoteUnits THEN bounded ELSE 0
  BY DEF ClampUnits
<1>5. /\ bounded \in {requested, a, b, c}
      /\ bounded <= requested /\ bounded <= a /\ bounded <= b /\ bounded <= c
  <2> HIDE DEF a, b, c
  <2> QED BY <1>3, LeastOfFour
<1> HIDE DEF bounded
<1> QED BY <1>1, <1>2, <1>3, <1>4, <1>5 DEF AtLeast

-----------------------------------------------------------------------------
(* A plan. *)

\* Prices of the range, and quantities that are nothing or a quote.
Sound(p) ==
    \A s \in QuoteSides : /\ p.units[s] \in {0} \cup MinQuoteUnits..MaxQuoteUnits
                          /\ p.price[s] \in MinQuotePrice..MaxQuotePrice

\* What a plan adds to an exposure passes no limit on a side, and the limit on both by no more
\* than the least quote.
Covered(p, expo) ==
    /\ \A s \in QuoteSides : p.units[s] > 0 =>
          /\ expo[s] + p.units[s] <= MaxInventoryPerSide
          /\ Net(expo, s) + p.units[s] <= MaxNetExposure
    /\ p.units["BID"] + p.units["ASK"] > 0 =>
          Gross(expo) + p.units["BID"] + p.units["ASK"] <= MaxGrossExposure + MinQuoteUnits

\* What a plan promises, whatever it was read from.
LEMMA PlanIsSound ==
    ASSUME NEW bid \in Int, NEW ask \in Int, NEW hint \in Hints, NEW expo \in Exposures,
           NEW refresh \in BOOLEAN, NEW stop \in BOOLEAN
    PROVE  LET p == BuildQuotePlan(bid, ask, hint, expo, refresh, stop)
           IN  p \in Plans /\ Sound(p) /\ Covered(p, expo)
<1> DEFINE p == BuildQuotePlan(bid, ask, hint, expo, refresh, stop)
           toxic == Toxic(bid, ask)
           fair == FairValue(bid, ask, hint, expo)
           base == BaseUnits(expo, toxic)
<1>0. toxic \in BOOLEAN
  BY DEF Toxic
<1>1. /\ p.broken = Broken(expo, stop) /\ p.price = Prices(fair, Width(fair, toxic)) /\ p.refresh = refresh
      /\ p.units = [s \in QuoteSides |-> IF ~Broken(expo, stop) /\ CanQuote(expo, s)
                                         THEN ClampUnits(RequestedUnits(expo, s, toxic), expo, s) ELSE 0]
      /\ p = [broken |-> p.broken, price |-> p.price, units |-> p.units, refresh |-> p.refresh]
  BY DEF BuildQuotePlan
<1>2. \A s \in QuoteSides : p.price[s] \in MinQuotePrice..MaxQuotePrice
  BY <1>0, <1>1, PricesInRange
<1>3. ASSUME NEW s \in QuoteSides
      PROVE  /\ p.units[s] \in Nat
             /\ p.units[s] > 0 =>
                   /\ MinQuoteUnits <= p.units[s] /\ p.units[s] <= base
                   /\ expo[s] + p.units[s] <= MaxInventoryPerSide
                   /\ Net(expo, s) + p.units[s] <= MaxNetExposure
                   /\ Gross(expo) + p.units[s] <= MaxGrossExposure
  <2> DEFINE requested == RequestedUnits(expo, s, toxic)
             units == ClampUnits(requested, expo, s)
  <2>1. requested \in Int /\ requested <= base /\ base \in Int
    BY <1>0, RequestedBound, BaseBound, QuoteAssumption
  <2>2. p.units[s] = units \/ p.units[s] = 0
    BY <1>1
  <2> HIDE DEF base, requested
  <2>3. /\ units \in Nat
        /\ units # 0 => /\ MinQuoteUnits <= units /\ units <= requested
                        /\ expo[s] + units <= MaxInventoryPerSide
                        /\ Net(expo, s) + units <= MaxNetExposure
                        /\ Gross(expo) + units <= MaxGrossExposure
    BY <2>1, ClampBound
  <2> HIDE DEF units, p
  <2>4. MinQuoteUnits \in Nat
    BY QuoteAssumption
  <2> QED BY <2>1, <2>2, <2>3, <2>4
<1> HIDE DEF p
<1>4. p.price \in [QuoteSides -> Int]
  <2>1. DOMAIN p.price = QuoteSides /\ p.price = [s \in QuoteSides |-> p.price[s]]
    BY <1>1 DEF Prices, QuoteSides
  <2>2. MinQuotePrice \in Int /\ MaxQuotePrice \in Int
    BY QuoteAssumption
  <2> QED BY <1>2, <2>1, <2>2
<1>5. p \in Plans
  <2>1. p.units \in [QuoteSides -> Nat]
    <3>1. p.units = [s \in QuoteSides |-> p.units[s]]
      BY <1>1
    <3> QED BY <1>3, <3>1
  <2>2. p.broken \in BOOLEAN
    BY <1>1 DEF Broken
  <2> QED BY <1>1, <1>4, <2>1, <2>2 DEF Plans
<1>6. /\ base \in MinQuoteUnits..MaxQuoteUnits
      /\ base = MinQuoteUnits \/ 2 * base <= AtLeast(0, MaxGrossExposure - Gross(expo)) + 1
  BY <1>0, BaseBound
<1> HIDE DEF base
<1>7. MinQuoteUnits \in Nat \ {0} /\ MaxQuoteUnits \in Nat /\ MaxGrossExposure \in Nat
  BY QuoteAssumption
<1>8. Sound(p)
  BY <1>2, <1>3, <1>6, <1>7 DEF Sound
<1>9. Covered(p, expo)
  <2> DEFINE u == p.units["BID"]
             v == p.units["ASK"]
             room == MaxGrossExposure - Gross(expo)
  <2>1. "BID" \in QuoteSides /\ "ASK" \in QuoteSides
    BY DEF QuoteSides
  <2>2. Gross(expo) \in Nat
    BY <2>1, ExposureType
  <2>3. /\ u \in Nat /\ (u > 0 => MinQuoteUnits <= u /\ u <= base /\ u <= room)
        /\ v \in Nat /\ (v > 0 => MinQuoteUnits <= v /\ v <= base /\ v <= room)
    BY <1>3, <1>6, <1>7, <2>1, <2>2
  <2>4. room \in Int /\ (base = MinQuoteUnits \/ 2 * base <= (IF 0 > room THEN 0 ELSE room) + 1)
    BY <1>6, <1>7, <2>2 DEF AtLeast
  <2> HIDE DEF u, v
  <2>5. u + v > 0 => u + v <= room + MinQuoteUnits
    <3> HIDE DEF room
    <3> QED BY <1>6, <1>7, <2>3, <2>4
  <2>6. u + v > 0 => Gross(expo) + u + v <= MaxGrossExposure + MinQuoteUnits
    BY <1>7, <2>2, <2>3, <2>5
  <2> QED BY <1>3, <2>6 DEF Covered, u, v
<1> QED BY <1>5, <1>8, <1>9 DEF p

-----------------------------------------------------------------------------
(* The loop. *)

\* The sides the plan has not been applied to, and what it may still place there.
Pending(side) == turn = side \/ (turn = "BID" /\ side = "ASK")
Promised(side) == IF Pending(side) THEN plan.units[side] ELSE 0

\* No limit is passed even when everything that rests or is promised is filled.
SidesInv == \A s \in QuoteSides : AtRisk(s) + Promised(s) <= MaxInventoryPerSide
GrossInv == AtRisk("BID") + AtRisk("ASK") + Promised("BID") + Promised("ASK") <= MaxGrossExposure + MinQuoteUnits
NetInv == \A s \in QuoteSides : AtRisk(s) + Promised(s) - held[Other(s)] <= MaxNetExposure + MaxQuoteUnits

LimitsInv == SidesInv /\ GrossInv /\ NetInv

PlanInv == QuoteTypeOK /\ (plan # Absent => Sound(plan)) /\ LimitsInv

\* The quantities of an invariant state.
LEMMA QuantityType ==
    ASSUME QuoteTypeOK, NEW s \in QuoteSides
    PROVE  /\ held[s] \in Nat /\ live[s] \in Nat /\ AtRisk(s) \in Nat /\ Promised(s) \in Nat
           /\ Other(s) \in QuoteSides /\ Other(s) # s /\ Other(Other(s)) = s
           /\ turn # Absent => plan \in Plans /\ plan.units[s] \in Nat
<1>1. held[s] \in Nat /\ live[s] \in Nat
  BY QuoteAssumption DEF QuoteTypeOK
<1>2. turn # Absent => plan \in Plans /\ plan.units[s] \in Nat
  BY DEF QuoteTypeOK, Plans
<1>3. Pending(s) => turn # Absent
  BY AbsentAssumption DEF Pending, QuoteSides
<1> QED BY <1>1, <1>2, <1>3 DEF AtRisk, Promised, QuoteSides, Other

\* What is exposed is at least what is at risk: an order counts whole until it is cancelled.
LEMMA ExposureCovers ==
    ASSUME QuoteTypeOK, NEW quotes \in [QuoteSides -> Quotes \cup {Absent}],
           NEW rest \in [QuoteSides -> Nat],
           \A s \in QuoteSides : rest[s] > 0 => quotes[s] # Absent /\ rest[s] <= quotes[s].units
    PROVE  /\ Exposure(quotes) \in Exposures
           /\ \A s \in QuoteSides : /\ held[s] + rest[s] <= Exposure(quotes)[s]
                                    /\ Exposure(quotes)[s] <= held[s] + MaxQuoteUnits
<1>1. /\ MinQuoteUnits \in Nat /\ MaxQuoteUnits \in Nat
  BY QuoteAssumption
<1>2. \A s \in QuoteSides : quotes[s] # Absent => quotes[s].units \in Nat /\ quotes[s].units <= MaxQuoteUnits
  BY <1>1 DEF Quotes
<1>3. \A s \in QuoteSides : held[s] \in Nat /\ rest[s] \in Nat
  BY DEF QuoteTypeOK
<1>4. \A s \in QuoteSides : Exposure(quotes)[s] = held[s] + (IF quotes[s] = Absent THEN 0 ELSE quotes[s].units)
  BY DEF Exposure
<1>5. \A s \in QuoteSides : Exposure(quotes)[s] \in Nat
  BY <1>2, <1>3, <1>4
<1>6. Exposure(quotes) = [s \in QuoteSides |-> Exposure(quotes)[s]]
  BY DEF Exposure
<1>7. Exposure(quotes) \in Exposures
  BY <1>5, <1>6 DEF Exposures
<1>8. ASSUME NEW s \in QuoteSides
      PROVE  /\ held[s] + rest[s] <= Exposure(quotes)[s]
             /\ Exposure(quotes)[s] <= held[s] + MaxQuoteUnits
  BY <1>1, <1>2, <1>3, <1>4
<1> QED BY <1>7, <1>8

\* The prices a plan is made from are integers.
LEMMA ReadingType ==
    ASSUME QuoteTypeOK, NEW book \in Books
    PROVE  BestBid(book) \in Int /\ BestAsk(book) \in Int
<1>1. book.bid \in Int /\ book.ask \in Int
  BY QuoteAssumption
<1>2. live["BID"] > 0 => tracked["BID"].price \in Int
  BY QuoteAssumption DEF QuoteTypeOK, Quotes, QuoteSides
<1>3. live["ASK"] > 0 => tracked["ASK"].price \in Int
  BY QuoteAssumption DEF QuoteTypeOK, Quotes, QuoteSides
<1> QED BY <1>1, <1>2, <1>3 DEF BestBid, BestAsk, AtLeast, AtMost

\* Before the first cycle.
LEMMA StartsWithinLimits == QuoteInit => PlanInv
<1> SUFFICES ASSUME QuoteInit PROVE PlanInv
  OBVIOUS
<1>1. /\ \A s \in QuoteSides : held[s] = 0 /\ live[s] = 0 /\ tracked[s] = Absent
      /\ held \in [QuoteSides -> Nat] /\ live \in [QuoteSides -> 0..MaxQuoteUnits]
      /\ tracked \in [QuoteSides -> Quotes \cup {Absent}]
  BY QuoteAssumption DEF QuoteInit, EachSide
<1>2. plan = Absent /\ turn = Absent
  BY DEF QuoteInit
<1>3. QuoteTypeOK
  BY <1>1, <1>2 DEF QuoteTypeOK
<1>4. \A s \in QuoteSides : ~Pending(s) /\ Promised(s) = 0 /\ AtRisk(s) = 0 /\ Other(s) \in QuoteSides
  BY <1>1, <1>2, AbsentAssumption DEF Pending, Promised, AtRisk, QuoteSides, Other
<1>5. LimitsInv
  BY <1>1, <1>4, QuoteAssumption DEF LimitsInv, SidesInv, GrossInv, NetInv, QuoteSides
<1> QED BY <1>2, <1>3, <1>5 DEF PlanInv

\* A step that moves nothing on to risk and adds no promise keeps the limits: what each side has at
\* risk and promised does not grow, and no shares are lost.
LEMMA LimitsKept ==
    ASSUME PlanInv, QuoteTypeOK',
           \A s \in QuoteSides : /\ AtRisk(s)' + Promised(s)' <= AtRisk(s) + Promised(s)
                                 /\ held[s] <= held'[s]
    PROVE  LimitsInv'
<1>1. /\ MaxInventoryPerSide \in Nat /\ MaxNetExposure \in Nat /\ MaxGrossExposure \in Nat
      /\ MinQuoteUnits \in Nat /\ MaxQuoteUnits \in Nat
  BY QuoteAssumption
<1>2. \A s \in QuoteSides : AtRisk(s) \in Nat /\ Promised(s) \in Nat /\ held[s] \in Nat /\ Other(s) \in QuoteSides
  BY QuantityType DEF PlanInv
<1>3. \A s \in QuoteSides : AtRisk(s)' \in Nat /\ Promised(s)' \in Nat /\ held'[s] \in Nat
  <2>1. \A s \in QuoteSides : held'[s] \in Nat /\ live'[s] \in Nat
    BY QuoteAssumption DEF QuoteTypeOK
  <2>2. \A s \in QuoteSides : turn' # Absent => plan'.units[s] \in Nat
    BY DEF QuoteTypeOK, Plans
  <2>3. \A s \in QuoteSides : Pending(s)' => turn' # Absent
    BY AbsentAssumption DEF Pending, QuoteSides
  <2> QED BY <2>1, <2>2, <2>3 DEF AtRisk, Promised
<1>4. "BID" \in QuoteSides /\ "ASK" \in QuoteSides
  BY DEF QuoteSides
<1>5. SidesInv'
  BY <1>1, <1>2, <1>3 DEF PlanInv, LimitsInv, SidesInv
<1>6. GrossInv'
  BY <1>1, <1>2, <1>3, <1>4 DEF PlanInv, LimitsInv, GrossInv
<1>7. NetInv'
  <2> SUFFICES ASSUME NEW s \in QuoteSides
               PROVE  AtRisk(s)' + Promised(s)' - held'[Other(s)] <= MaxNetExposure + MaxQuoteUnits
    BY DEF NetInv
  <2>1. AtRisk(s) + Promised(s) - held[Other(s)] <= MaxNetExposure + MaxQuoteUnits
    BY DEF PlanInv, LimitsInv, NetInv
  <2> QED BY <1>1, <1>2, <1>3, <2>1
<1> QED BY <1>5, <1>6, <1>7 DEF LimitsInv

\* The plan moves on to the next side: nothing is promised any more on the one it leaves.
LEMMA AdvanceMoves ==
    ASSUME QuoteTypeOK, turn # Absent, Advance
    PROVE  /\ turn' \in QuoteSides \cup {Absent} /\ plan' \in Plans \cup {Absent}
           /\ (plan' = Absent) = (turn' = Absent) /\ (plan' # Absent => plan' = plan)
           /\ \A s \in QuoteSides : s # turn => Promised(s)' = Promised(s)
           /\ \A s \in QuoteSides : s = turn => Promised(s)' = 0 /\ Promised(s) = plan.units[s]
<1>1. turn \in QuoteSides /\ plan # Absent /\ plan \in Plans
  BY DEF QuoteTypeOK
<1>2. Absent \notin QuoteSides
  BY AbsentAssumption
<1>3. CASE turn = "BID"
  <2>1. turn' = "ASK" /\ turn' # Absent /\ plan' = plan
    BY <1>2, <1>3 DEF Advance, Following, QuoteSides
  <2>2. /\ Promised("BID") = plan.units["BID"] /\ Promised("ASK") = plan.units["ASK"]
        /\ Promised("BID")' = 0 /\ Promised("ASK")' = plan.units["ASK"]
    BY <1>3, <2>1 DEF Promised, Pending
  <2> QED BY <1>1, <1>3, <2>1, <2>2 DEF QuoteSides
<1>4. CASE turn = "ASK"
  <2>1. turn' = Absent /\ plan' = Absent
    BY <1>4 DEF Advance, Following
  <2>2. /\ Promised("BID") = 0 /\ Promised("ASK") = plan.units["ASK"]
        /\ Promised("BID")' = 0 /\ Promised("ASK")' = 0
    BY <1>2, <1>4, <2>1 DEF Promised, Pending, QuoteSides
  <2> QED BY <1>1, <1>4, <2>1, <2>2 DEF QuoteSides
<1> QED BY <1>1, <1>3, <1>4 DEF QuoteSides

\* An order leaves the book and the bot's memory.
LEMMA ForgetLoses ==
    ASSUME QuoteTypeOK, NEW side \in QuoteSides, Forget(side)
    PROVE  /\ live' \in [QuoteSides -> 0..MaxQuoteUnits] /\ tracked' \in [QuoteSides -> Quotes \cup {Absent}]
           /\ \A s \in QuoteSides : live'[s] > 0 => tracked'[s] # Absent /\ live'[s] <= tracked'[s].units
           /\ \A s \in QuoteSides : live'[s] <= live[s]
<1>1. /\ live' = [live EXCEPT ![side] = 0] /\ tracked' = [tracked EXCEPT ![side] = Absent]
  BY DEF Forget
<1>2. /\ live \in [QuoteSides -> 0..MaxQuoteUnits] /\ tracked \in [QuoteSides -> Quotes \cup {Absent}]
      /\ \A s \in QuoteSides : live[s] > 0 => tracked[s] # Absent /\ live[s] <= tracked[s].units
      /\ MaxQuoteUnits \in Nat
  BY QuoteAssumption DEF QuoteTypeOK
<1>3. \A s \in QuoteSides : /\ live'[s] = IF s = side THEN 0 ELSE live[s]
                            /\ tracked'[s] = IF s = side THEN Absent ELSE tracked[s]
  BY <1>1, <1>2
<1>4. live' \in [QuoteSides -> 0..MaxQuoteUnits] /\ tracked' \in [QuoteSides -> Quotes \cup {Absent}]
  BY <1>1, <1>2
<1>5. \A s \in QuoteSides : live'[s] > 0 => tracked'[s] # Absent /\ live'[s] <= tracked'[s].units
  BY <1>2, <1>3
<1>6. \A s \in QuoteSides : live'[s] <= live[s]
  BY <1>2, <1>3
<1> QED BY <1>4, <1>5, <1>6

\* A new cycle.  What the plan promises was bounded by an exposure that covers what is at risk.
LEMMA SnapshotKeepsLimits == PlanInv /\ Snapshot => PlanInv'
<1> SUFFICES ASSUME PlanInv, Snapshot PROVE PlanInv'
  OBVIOUS
<1>0. QuoteTypeOK
  BY DEF PlanInv
<1> DEFINE kept == [s \in QuoteSides |-> IF Unexpired(s) THEN tracked[s] ELSE Absent]
           rest == [s \in QuoteSides |-> IF kept[s] = Absent THEN 0 ELSE live[s]]
           again == \/ \A s \in QuoteSides : kept[s] = Absent
                    \/ \E s \in QuoteSides : kept[s] # Absent /\ kept[s].age >= MinRefreshInterval
           expo == Exposure(kept)
<1>1. PICK book \in Books, signal \in Signals \cup {Absent}, halted \in BOOLEAN :
         LET read == BuildQuotePlan(BestBid(book), BestAsk(book), signal, expo, again, halted)
         IN  /\ turn = Absent
             /\ tracked' = IF read.broken THEN EachSide(Absent) ELSE kept
             /\ live' = [s \in QuoteSides |-> IF tracked'[s] = Absent THEN 0 ELSE live[s]]
             /\ plan' = (IF read.broken THEN Absent ELSE read)
             /\ turn' = (IF read.broken THEN Absent ELSE "BID")
             /\ UNCHANGED held
  BY DEF Snapshot
<1> DEFINE read == BuildQuotePlan(BestBid(book), BestAsk(book), signal, expo, again, halted)
<1>2. /\ kept \in [QuoteSides -> Quotes \cup {Absent}] /\ rest \in [QuoteSides -> 0..MaxQuoteUnits]
      /\ rest \in [QuoteSides -> Nat]
      /\ \A s \in QuoteSides : rest[s] > 0 => kept[s] # Absent /\ rest[s] <= kept[s].units
      /\ \A s \in QuoteSides : rest[s] <= live[s]
  <2>1. /\ tracked \in [QuoteSides -> Quotes \cup {Absent}] /\ live \in [QuoteSides -> 0..MaxQuoteUnits]
        /\ \A s \in QuoteSides : live[s] > 0 => tracked[s] # Absent /\ live[s] <= tracked[s].units
        /\ MaxQuoteUnits \in Nat
    BY <1>0, QuoteAssumption DEF QuoteTypeOK
  <2>2. \A s \in QuoteSides : kept[s] = tracked[s] \/ kept[s] = Absent
    OBVIOUS
  <2>3. kept \in [QuoteSides -> Quotes \cup {Absent}]
    BY <2>1, <2>2
  <2> HIDE DEF kept
  <2>4. \A s \in QuoteSides : rest[s] = IF kept[s] = Absent THEN 0 ELSE live[s]
    OBVIOUS
  <2>5. \A s \in QuoteSides : rest[s] \in 0..MaxQuoteUnits /\ rest[s] <= live[s]
    BY <2>1, <2>4
  <2>6. rest \in [QuoteSides -> 0..MaxQuoteUnits] /\ rest \in [QuoteSides -> Nat]
    BY <2>1, <2>5
  <2>7. \A s \in QuoteSides : rest[s] > 0 => kept[s] # Absent /\ rest[s] <= kept[s].units
    BY <2>1, <2>2, <2>4
  <2> QED BY <2>3, <2>5, <2>6, <2>7
<1> HIDE DEF kept, rest
<1>3. /\ expo \in Exposures
      /\ \A s \in QuoteSides : /\ held[s] + rest[s] <= expo[s]
                               /\ expo[s] <= held[s] + MaxQuoteUnits
  BY <1>0, <1>2, ExposureCovers
<1> HIDE DEF expo
<1>4. read \in Plans /\ Sound(read) /\ Covered(read, expo)
  <2>1. BestBid(book) \in Int /\ BestAsk(book) \in Int
    BY <1>0, ReadingType
  <2>2. signal \in Hints /\ again \in BOOLEAN
    BY DEF Hints
  <2> HIDE DEF again
  <2> QED BY <1>3, <2>1, <2>2, PlanIsSound
<1> HIDE DEF read, again
<1>5. /\ turn = Absent /\ held' = held
      /\ tracked' = IF read.broken THEN EachSide(Absent) ELSE kept
      /\ live' = [s \in QuoteSides |-> IF tracked'[s] = Absent THEN 0 ELSE live[s]]
      /\ plan' = (IF read.broken THEN Absent ELSE read)
      /\ turn' = (IF read.broken THEN Absent ELSE "BID")
  BY <1>1 DEF read
<1>6. /\ MaxInventoryPerSide \in Nat /\ MaxNetExposure \in Nat /\ MaxGrossExposure \in Nat
      /\ MinQuoteUnits \in Nat /\ MaxQuoteUnits \in Nat /\ Absent \notin QuoteSides /\ Absent \notin Plans
  BY QuoteAssumption, AbsentAssumption
<1>7. \A s \in QuoteSides : held[s] \in Nat /\ live[s] \in Nat /\ rest[s] \in Nat /\ Promised(s) = 0
  <2>1. \A s \in QuoteSides : Promised(s) = 0
    BY <1>5, <1>6 DEF Promised, Pending, QuoteSides
  <2> QED BY <1>0, <1>2, <2>1, QuantityType
<1>8. CASE read.broken
  <2>1. /\ tracked' = EachSide(Absent) /\ plan' = Absent /\ turn' = Absent
        /\ \A s \in QuoteSides : tracked'[s] = Absent /\ live'[s] = 0
    BY <1>5, <1>8 DEF EachSide
  <2>2. live' = [s \in QuoteSides |-> 0]
    BY <1>5, <2>1
  <2>3. QuoteTypeOK'
    <3>1. tracked' \in [QuoteSides -> Quotes \cup {Absent}] /\ live' \in [QuoteSides -> 0..MaxQuoteUnits]
      BY <1>6, <2>1, <2>2 DEF EachSide
    <3> QED BY <1>0, <1>5, <2>1, <3>1 DEF QuoteTypeOK
  <2>4. \A s \in QuoteSides : Promised(s)' = 0
    BY <1>6, <2>1 DEF Promised, Pending, QuoteSides
  <2>5. \A s \in QuoteSides : AtRisk(s)' + Promised(s)' <= AtRisk(s) + Promised(s) /\ held[s] <= held'[s]
    BY <1>5, <1>7, <2>1, <2>4 DEF AtRisk
  <2> QED BY <2>1, <2>3, <2>5, LimitsKept DEF PlanInv
<1>9. CASE ~read.broken
  <2>1. tracked' = kept /\ live' = rest /\ plan' = read /\ turn' = "BID" /\ plan' # Absent /\ turn' # Absent
    BY <1>4, <1>5, <1>6, <1>9 DEF rest, QuoteSides
  <2>2. QuoteTypeOK'
    BY <1>0, <1>2, <1>4, <1>5, <2>1 DEF QuoteTypeOK, QuoteSides
  <2>3. \A s \in QuoteSides : /\ Promised(s)' = read.units[s] /\ AtRisk(s)' = held[s] + rest[s]
                              /\ held'[s] = held[s]
    BY <1>5, <2>1 DEF Promised, Pending, AtRisk, QuoteSides
  <2>4. \A s \in QuoteSides : /\ read.units[s] \in Nat /\ expo[s] \in Nat /\ Other(s) \in QuoteSides
                              /\ Gross(expo) = expo["BID"] + expo["ASK"]
                              /\ Net(expo, s) = expo[s] - expo[Other(s)]
    BY <1>3, <1>4, ExposureType DEF Plans, Exposures, QuoteSides, Other, Gross
  <2>5. /\ "BID" \in QuoteSides /\ "ASK" \in QuoteSides
        /\ \A s \in QuoteSides : AtRisk(s) = held[s] + live[s]
    BY DEF QuoteSides, AtRisk
  <2>6. SidesInv'
    <3> SUFFICES ASSUME NEW s \in QuoteSides
                 PROVE  held[s] + rest[s] + read.units[s] <= MaxInventoryPerSide
      BY <2>3 DEF SidesInv
    <3>1. AtRisk(s) + Promised(s) <= MaxInventoryPerSide
      BY DEF PlanInv, LimitsInv, SidesInv
    <3>2. read.units[s] > 0 => expo[s] + read.units[s] <= MaxInventoryPerSide
      BY <1>4 DEF Covered
    <3> QED BY <1>2, <1>3, <1>6, <1>7, <2>4, <2>5, <3>1, <3>2
  <2>7. GrossInv'
    <3> DEFINE u == read.units["BID"]
               v == read.units["ASK"]
    <3>1. AtRisk("BID") + AtRisk("ASK") + Promised("BID") + Promised("ASK") <= MaxGrossExposure + MinQuoteUnits
      BY DEF PlanInv, LimitsInv, GrossInv
    <3>2. u + v > 0 => Gross(expo) + u + v <= MaxGrossExposure + MinQuoteUnits
      BY <1>4 DEF Covered
    <3>3. held["BID"] + rest["BID"] + held["ASK"] + rest["ASK"] + u + v <= MaxGrossExposure + MinQuoteUnits
      BY <1>2, <1>3, <1>6, <1>7, <2>4, <2>5, <3>1, <3>2
    <3> QED BY <1>7, <2>3, <2>4, <2>5, <3>3 DEF GrossInv
  <2>8. NetInv'
    <3> SUFFICES ASSUME NEW s \in QuoteSides
                 PROVE  held[s] + rest[s] + read.units[s] - held[Other(s)] <= MaxNetExposure + MaxQuoteUnits
      BY <2>3, <2>4 DEF NetInv
    <3>1. AtRisk(s) + Promised(s) - held[Other(s)] <= MaxNetExposure + MaxQuoteUnits
      BY DEF PlanInv, LimitsInv, NetInv
    <3>2. read.units[s] > 0 => Net(expo, s) + read.units[s] <= MaxNetExposure
      BY <1>4 DEF Covered
    <3>3. /\ Other(s) \in QuoteSides /\ held[Other(s)] \in Nat /\ expo[Other(s)] \in Nat
          /\ expo[Other(s)] <= held[Other(s)] + MaxQuoteUnits
          /\ held[s] + rest[s] <= expo[s] /\ rest[s] <= live[s]
      BY <1>2, <1>3, <1>7, <2>4
    <3> QED BY <1>6, <1>7, <2>4, <2>5, <3>1, <3>2, <3>3
  <2> QED BY <1>4, <2>1, <2>2, <2>6, <2>7, <2>8 DEF PlanInv, LimitsInv
<1> QED BY <1>8, <1>9

\* An order is kept, or cancelled and not replaced.
LEMMA KeepKeepsLimits == PlanInv /\ Keep => PlanInv'
<1> SUFFICES ASSUME PlanInv, Keep PROVE PlanInv'
  OBVIOUS
<1>0. QuoteTypeOK /\ turn # Absent /\ Advance /\ held' = held
  BY DEF PlanInv, Keep
<1>1. /\ turn \in QuoteSides /\ turn' \in QuoteSides \cup {Absent} /\ plan' \in Plans \cup {Absent}
      /\ (plan' = Absent) = (turn' = Absent) /\ (plan' # Absent => plan' = plan)
      /\ \A s \in QuoteSides : s # turn => Promised(s)' = Promised(s)
      /\ \A s \in QuoteSides : s = turn => Promised(s)' = 0
  BY <1>0, AdvanceMoves DEF QuoteTypeOK
<1>2. /\ live' \in [QuoteSides -> 0..MaxQuoteUnits] /\ tracked' \in [QuoteSides -> Quotes \cup {Absent}]
      /\ \A s \in QuoteSides : live'[s] > 0 => tracked'[s] # Absent /\ live'[s] <= tracked'[s].units
      /\ \A s \in QuoteSides : live'[s] <= live[s]
  <2>1. CASE Forget(turn)
    BY <1>0, <1>1, <2>1, ForgetLoses
  <2>2. CASE UNCHANGED <<tracked, live>>
    BY <1>0, <2>2, QuantityType DEF QuoteTypeOK
  <2> QED BY <2>1, <2>2 DEF Keep
<1>3. QuoteTypeOK'
  BY <1>0, <1>1, <1>2 DEF QuoteTypeOK
<1>4. ASSUME NEW s \in QuoteSides
      PROVE  AtRisk(s)' + Promised(s)' <= AtRisk(s) + Promised(s) /\ held[s] <= held'[s]
  <2>1. held[s] \in Nat /\ live[s] \in Nat /\ Promised(s) \in Nat /\ live'[s] \in Nat
    BY <1>0, <1>2, QuantityType, QuoteAssumption
  <2>2. Promised(s)' = 0 \/ Promised(s)' = Promised(s)
    BY <1>1
  <2> QED BY <1>0, <1>2, <2>1, <2>2 DEF AtRisk
<1>5. plan' # Absent => Sound(plan')
  BY <1>1 DEF PlanInv
<1> QED BY <1>3, <1>4, <1>5, LimitsKept DEF PlanInv

\* The quote the plan promises is placed: what it takes at once and what rests is what was promised.
LEMMA PlaceKeepsLimits == PlanInv /\ PlaceQuote => PlanInv'
<1> SUFFICES ASSUME PlanInv, PlaceQuote PROVE PlanInv'
  OBVIOUS
<1>0. QuoteTypeOK /\ turn # Absent /\ Advance /\ plan.units[turn] > 0
  BY DEF PlanInv, PlaceQuote, Places
<1>1. /\ turn \in QuoteSides /\ turn' \in QuoteSides \cup {Absent} /\ plan' \in Plans \cup {Absent}
      /\ (plan' = Absent) = (turn' = Absent) /\ (plan' # Absent => plan' = plan)
      /\ \A s \in QuoteSides : s # turn => Promised(s)' = Promised(s)
      /\ \A s \in QuoteSides : s = turn => Promised(s)' = 0 /\ Promised(s) = plan.units[s]
  BY <1>0, AdvanceMoves DEF QuoteTypeOK
<1> DEFINE units == plan.units[turn]
           quote == [price |-> plan.price[turn], units |-> units, age |-> 0]
<1>2. PICK taken \in 0..units :
        /\ held' = [held EXCEPT ![turn] = @ + taken]
        /\ live' = [live EXCEPT ![turn] = IF MeetsItself(turn) THEN 0 ELSE units - taken]
  BY DEF PlaceQuote
<1>3. tracked' = [tracked EXCEPT ![turn] = quote]
  BY DEF PlaceQuote
<1>4. units \in MinQuoteUnits..MaxQuoteUnits /\ quote \in Quotes /\ quote # Absent /\ quote.units = units
  <2>1. plan # Absent /\ Sound(plan)
    BY <1>0 DEF PlanInv, QuoteTypeOK
  <2>2. units \in MinQuoteUnits..MaxQuoteUnits /\ plan.price[turn] \in MinQuotePrice..MaxQuotePrice
    BY <1>0, <1>1, <2>1, QuoteAssumption DEF Sound
  <2>3. 0 \in 0..MaxQuoteAge
    BY QuoteAssumption
  <2>4. quote \in Quotes
    BY <2>2, <2>3 DEF Quotes
  <2> QED BY <2>2, <2>4, AbsentAssumption
<1> HIDE DEF units, quote
<1>5. /\ live \in [QuoteSides -> 0..MaxQuoteUnits] /\ tracked \in [QuoteSides -> Quotes \cup {Absent}]
      /\ held \in [QuoteSides -> Nat]
      /\ \A s \in QuoteSides : live[s] > 0 => tracked[s] # Absent /\ live[s] <= tracked[s].units
      /\ MaxQuoteUnits \in Nat /\ MinQuoteUnits \in Nat
  BY <1>0, QuoteAssumption DEF QuoteTypeOK
<1>6. PICK left \in 0..units : live' = [live EXCEPT ![turn] = left] /\ left + taken <= units
  <2>1. units \in Nat /\ taken \in 0..units
    BY <1>4, <1>5
  <2> DEFINE left == IF MeetsItself(turn) THEN 0 ELSE units - taken
  <2>2. left \in 0..units /\ left + taken <= units
    BY <2>1
  <2>3. live' = [live EXCEPT ![turn] = left]
    BY <1>2
  <2> HIDE DEF left
  <2> QED BY <2>2, <2>3
<1>7. \A s \in QuoteSides : /\ live'[s] = IF s = turn THEN left ELSE live[s]
                            /\ tracked'[s] = IF s = turn THEN quote ELSE tracked[s]
                            /\ held'[s] = IF s = turn THEN held[s] + taken ELSE held[s]
  BY <1>2, <1>3, <1>5, <1>6
<1>8. QuoteTypeOK'
  <2>1. left \in 0..MaxQuoteUnits /\ taken \in Nat /\ left <= units
    BY <1>4, <1>5
  <2>2. held' \in [QuoteSides -> Nat]
    <3>1. \A s \in QuoteSides : held'[s] \in Nat
      BY <1>5, <1>7, <2>1
    <3> QED BY <1>2, <1>5, <3>1
  <2>3. live' \in [QuoteSides -> 0..MaxQuoteUnits]
    BY <1>5, <1>6, <2>1
  <2>4. tracked' \in [QuoteSides -> Quotes \cup {Absent}]
    BY <1>3, <1>4, <1>5
  <2>5. \A s \in QuoteSides : live'[s] > 0 => tracked'[s] # Absent /\ live'[s] <= tracked'[s].units
    BY <1>4, <1>5, <1>7, <2>1
  <2> QED BY <1>1, <2>2, <2>3, <2>4, <2>5 DEF QuoteTypeOK
<1>9. ASSUME NEW s \in QuoteSides
      PROVE  AtRisk(s)' + Promised(s)' <= AtRisk(s) + Promised(s) /\ held[s] <= held'[s]
  <2>1. held[s] \in Nat /\ live[s] \in Nat /\ Promised(s) \in Nat /\ units \in Nat
    BY <1>0, <1>4, <1>5, QuantityType
  <2>2. CASE s = turn
    <3>1. Promised(s)' = 0 /\ Promised(s) = units
      BY <1>1, <2>2 DEF units
    <3> QED BY <1>6, <1>7, <2>1, <2>2, <3>1 DEF AtRisk
  <2>3. CASE s # turn
    <3>1. Promised(s)' = Promised(s) /\ live'[s] = live[s] /\ held'[s] = held[s]
      BY <1>1, <1>7, <2>3
    <3> QED BY <2>1, <3>1 DEF AtRisk
  <2> QED BY <2>2, <2>3
<1>10. plan' # Absent => Sound(plan')
  BY <1>1 DEF PlanInv
<1> QED BY <1>8, <1>9, <1>10, LimitsKept DEF PlanInv

\* The placement fails after the cancel, and the cycle ends.
LEMMA PlaceFailsKeepsLimits == PlanInv /\ PlaceFails => PlanInv'
<1> SUFFICES ASSUME PlanInv, PlaceFails PROVE PlanInv'
  OBVIOUS
<1>0. QuoteTypeOK /\ turn # Absent /\ turn' = Absent /\ plan' = Absent /\ held' = held /\ Forget(turn)
  BY DEF PlanInv, PlaceFails
<1>1. /\ live' \in [QuoteSides -> 0..MaxQuoteUnits] /\ tracked' \in [QuoteSides -> Quotes \cup {Absent}]
      /\ \A s \in QuoteSides : live'[s] > 0 => tracked'[s] # Absent /\ live'[s] <= tracked'[s].units
      /\ \A s \in QuoteSides : live'[s] <= live[s]
  BY <1>0, ForgetLoses DEF QuoteTypeOK
<1>2. QuoteTypeOK'
  BY <1>0, <1>1 DEF QuoteTypeOK
<1>3. ASSUME NEW s \in QuoteSides
      PROVE  AtRisk(s)' + Promised(s)' <= AtRisk(s) + Promised(s) /\ held[s] <= held'[s]
  <2>1. held[s] \in Nat /\ live[s] \in Nat /\ Promised(s) \in Nat /\ live'[s] \in Nat
    BY <1>0, <1>1, QuantityType, QuoteAssumption
  <2>2. Promised(s)' = 0
    BY <1>0, AbsentAssumption DEF Promised, Pending, QuoteSides
  <2> QED BY <1>0, <1>1, <2>1, <2>2 DEF AtRisk
<1> QED BY <1>0, <1>2, <1>3, LimitsKept DEF PlanInv

\* A fill turns what rests into shares.
LEMMA FillKeepsLimits == PlanInv /\ FillQuote => PlanInv'
<1> SUFFICES ASSUME PlanInv, FillQuote PROVE PlanInv'
  OBVIOUS
<1>0. QuoteTypeOK /\ tracked' = tracked /\ plan' = plan /\ turn' = turn
  BY DEF PlanInv, FillQuote
<1>a. PICK side \in QuoteSides : \E units \in 1..live[side] :
        /\ live' = [live EXCEPT ![side] = @ - units]
        /\ held' = [held EXCEPT ![side] = @ + units]
  BY DEF FillQuote
<1>1. PICK units \in 1..live[side] :
        /\ live' = [live EXCEPT ![side] = @ - units]
        /\ held' = [held EXCEPT ![side] = @ + units]
  BY <1>a
<1>2. /\ live \in [QuoteSides -> 0..MaxQuoteUnits] /\ held \in [QuoteSides -> Nat] /\ MaxQuoteUnits \in Nat
      /\ \A s \in QuoteSides : live[s] > 0 => tracked[s] # Absent /\ live[s] <= tracked[s].units
  BY <1>0, QuoteAssumption DEF QuoteTypeOK
<1>3. \A s \in QuoteSides : /\ live'[s] = IF s = side THEN live[s] - units ELSE live[s]
                            /\ held'[s] = IF s = side THEN held[s] + units ELSE held[s]
  BY <1>1, <1>2
<1>4. \A s \in QuoteSides : /\ live'[s] \in 0..MaxQuoteUnits /\ live'[s] <= live[s]
                            /\ held'[s] \in Nat /\ held[s] <= held'[s]
                            /\ held'[s] + live'[s] = held[s] + live[s]
  BY <1>1, <1>2, <1>3
<1>5. live' \in [QuoteSides -> 0..MaxQuoteUnits] /\ held' \in [QuoteSides -> Nat]
  BY <1>1, <1>2, <1>4
<1>6. \A s \in QuoteSides : live'[s] > 0 => tracked'[s] # Absent /\ live'[s] <= tracked'[s].units
  <2> SUFFICES ASSUME NEW s \in QuoteSides, live'[s] > 0
               PROVE  tracked'[s] # Absent /\ live'[s] <= tracked'[s].units
    OBVIOUS
  <2>1. live'[s] \in Int /\ live[s] \in Int /\ live[s] > 0 /\ live'[s] <= live[s]
    BY <1>2, <1>4
  <2>2. tracked[s] # Absent /\ live[s] <= tracked[s].units
    BY <1>2, <2>1
  <2>3. tracked[s].units \in Int
    BY <1>0, <2>2, QuoteAssumption DEF QuoteTypeOK, Quotes
  <2> QED BY <1>0, <2>1, <2>2, <2>3
<1>7. QuoteTypeOK'
  BY <1>0, <1>5, <1>6 DEF QuoteTypeOK
<1>8. \A s \in QuoteSides : AtRisk(s)' + Promised(s)' <= AtRisk(s) + Promised(s) /\ held[s] <= held'[s]
  <2>1. \A s \in QuoteSides : Promised(s)' = Promised(s) /\ Promised(s) \in Nat
    BY <1>0, QuantityType DEF Promised, Pending
  <2> QED BY <1>2, <1>4, <2>1 DEF AtRisk
<1> QED BY <1>0, <1>7, <1>8, LimitsKept DEF PlanInv

\* Quotes grow older.
LEMMA TickKeepsLimits == PlanInv /\ Tick => PlanInv'
<1> SUFFICES ASSUME PlanInv, Tick PROVE PlanInv'
  OBVIOUS
<1>0. QuoteTypeOK /\ held' = held /\ live' = live /\ plan' = plan /\ turn' = turn
  BY DEF PlanInv, Tick
<1>1. tracked' = [s \in QuoteSides |-> IF tracked[s] = Absent THEN Absent
                                       ELSE [tracked[s] EXCEPT !.age = AtMost(MaxQuoteAge, @ + 1)]]
  BY DEF Tick
<1>2. ASSUME NEW s \in QuoteSides, tracked[s] # Absent
      PROVE  tracked'[s] \in Quotes /\ tracked'[s] # Absent /\ tracked'[s].units = tracked[s].units
  <2>1. tracked[s] \in Quotes /\ tracked'[s] = [tracked[s] EXCEPT !.age = AtMost(MaxQuoteAge, @ + 1)]
    BY <1>0, <1>1, <1>2 DEF QuoteTypeOK
  <2>2. AtMost(MaxQuoteAge, tracked[s].age + 1) \in 0..MaxQuoteAge
    BY <2>1, QuoteAssumption DEF Quotes, AtMost
  <2>3. tracked'[s] \in Quotes /\ tracked'[s].units = tracked[s].units
    BY <2>1, <2>2 DEF Quotes
  <2> QED BY <2>3, AbsentAssumption
<1>3. \A s \in QuoteSides : tracked[s] = Absent => tracked'[s] = Absent
  BY <1>1
<1>4. tracked' \in [QuoteSides -> Quotes \cup {Absent}]
  <2>1. \A s \in QuoteSides : tracked'[s] \in Quotes \cup {Absent}
    BY <1>2, <1>3
  <2> HIDE DEF Quotes
  <2> QED BY <1>1, <2>1
<1>5. \A s \in QuoteSides : live'[s] > 0 => tracked'[s] # Absent /\ live'[s] <= tracked'[s].units
  BY <1>0, <1>2 DEF QuoteTypeOK
<1>6. QuoteTypeOK'
  BY <1>0, <1>4, <1>5 DEF QuoteTypeOK
<1>7. \A s \in QuoteSides : AtRisk(s)' + Promised(s)' <= AtRisk(s) + Promised(s) /\ held[s] <= held'[s]
  <2>1. \A s \in QuoteSides : AtRisk(s)' = AtRisk(s) /\ Promised(s)' = Promised(s)
    BY <1>0 DEF AtRisk, Promised, Pending
  <2> QED BY <1>0, <2>1, QuantityType
<1> QED BY <1>0, <1>6, <1>7, LimitsKept DEF PlanInv

\* Nothing happens.
LEMMA StutterKeepsLimits == PlanInv /\ UNCHANGED quoteVars => PlanInv'
BY DEF PlanInv, QuoteTypeOK, Sound, LimitsInv, SidesInv, GrossInv, NetInv, AtRisk, Promised, Pending, quoteVars

LEMMA LimitsInductive == PlanInv /\ [QuoteNext]_quoteVars => PlanInv'
BY SnapshotKeepsLimits, KeepKeepsLimits, PlaceKeepsLimits, PlaceFailsKeepsLimits, FillKeepsLimits,
   TickKeepsLimits, StutterKeepsLimits DEF QuoteNext

LEMMA LimitsAlways == QuoteSpec => []PlanInv
<1>1. QuoteInit => PlanInv
  BY StartsWithinLimits
<1>2. PlanInv /\ [QuoteNext]_quoteVars => PlanInv'
  BY LimitsInductive
<1> QED BY <1>1, <1>2, PTL DEF QuoteSpec

-----------------------------------------------------------------------------
(* The theorems. *)

\* Every variable keeps its type, every resting order is part of a tracked one, and a plan is being
\* applied to some side or to none.
THEOREM PlansAreSound == QuoteSpec => []QuoteTypeOK
<1>1. PlanInv => QuoteTypeOK
  BY DEF PlanInv
<1> QED BY <1>1, LimitsAlways, PTL

\* The limit per outcome holds whatever takers fill between the reading of the market and the last
\* order placed from it (buildQuotePlan and reconcileOrder).
THEOREM InventoryStaysCapped == QuoteSpec => []InventoryCapped
<1>1. PlanInv => InventoryCapped
  BY QuantityType, QuoteAssumption DEF PlanInv, LimitsInv, SidesInv, InventoryCapped
<1> QED BY <1>1, LimitsAlways, PTL

\* Two quotes of one plan use up the room under the gross limit twice, and pass it by the least quote
\* and no more: each is of that size, or at most half the room.
THEOREM GrossStaysBounded == QuoteSpec => []GrossOverByLeastQuote
<1>1. PlanInv => GrossOverByLeastQuote
  <2> SUFFICES ASSUME PlanInv PROVE GrossOverByLeastQuote
    OBVIOUS
  <2>1. "BID" \in QuoteSides /\ "ASK" \in QuoteSides /\ QuoteTypeOK
    BY DEF QuoteSides, PlanInv
  <2> QED BY <2>1, QuantityType, QuoteAssumption DEF PlanInv, LimitsInv, GrossInv, GrossOverByLeastQuote
<1> QED BY <1>1, LimitsAlways, PTL

\* An order of the other side that was counted as a hedge and never filled leaves the bot exposed by
\* one quote more than the net limit, and no more.
THEOREM NetStaysBounded == QuoteSpec => []NetOverByOneQuote
<1>1. PlanInv => NetOverByOneQuote
  <2> SUFFICES ASSUME PlanInv, NEW s \in QuoteSides
               PROVE  AtRisk(s) - held[Other(s)] <= MaxNetExposure + MaxQuoteUnits
    BY DEF NetOverByOneQuote
  <2>1. QuoteTypeOK /\ Other(s) \in QuoteSides
    BY DEF PlanInv, Other, QuoteSides
  <2>2. /\ AtRisk(s) \in Nat /\ Promised(s) \in Nat /\ held[Other(s)] \in Nat
        /\ MaxNetExposure \in Nat /\ MaxQuoteUnits \in Nat
    BY <2>1, QuantityType, QuoteAssumption
  <2> QED BY <2>1, <2>2 DEF PlanInv, LimitsInv, NetInv
<1> QED BY <1>1, LimitsAlways, PTL

\* A configuration in which the side that is exposed the less has room for the least quote until the
\* gross limit itself leaves none.
RoomToQuote ==
    /\ MaxNetExposure >= MinQuoteUnits
    /\ 2 * MaxInventoryPerSide + 1 >= MaxGrossExposure + MinQuoteUnits

\* Limits on imbalance, net exposure and each outcome together leave a side to quote as long as the
\* gross limit does: the one the bot is exposed to the less.
THEOREM AlwaysASideToQuote ==
    ASSUME RoomToQuote
    PROVE  QuoteSpec => []QuotesGoOn
<1>1. PlanInv => QuotesGoOn
  <2> DEFINE expo == Exposure(tracked)
  <2> SUFFICES ASSUME PlanInv, ~Broken(expo, FALSE), MaxGrossExposure - Gross(expo) >= MinQuoteUnits,
                      NEW book \in Books
               PROVE  \E s \in QuoteSides :
                        BuildQuotePlan(BestBid(book), BestAsk(book), Absent, expo, TRUE, FALSE).units[s] > 0
    BY DEF QuotesGoOn
  <2>1. QuoteTypeOK
    BY DEF PlanInv
  <2>2. expo \in Exposures
    <3>1. /\ live \in [QuoteSides -> Nat] /\ tracked \in [QuoteSides -> Quotes \cup {Absent}]
          /\ \A s \in QuoteSides : live[s] > 0 => tracked[s] # Absent /\ live[s] <= tracked[s].units
      BY <2>1, QuoteAssumption DEF QuoteTypeOK
    <3> QED BY <2>1, <3>1, ExposureCovers
  <2> HIDE DEF expo
  <2>3. PICK s \in QuoteSides : expo[s] <= expo[Other(s)]
    <3>1. expo["BID"] \in Nat /\ expo["ASK"] \in Nat
      BY <2>2 DEF Exposures, QuoteSides
    <3> QED BY <3>1 DEF QuoteSides, Other
  <2>4. /\ expo[s] \in Nat /\ expo[Other(s)] \in Nat /\ Gross(expo) = expo[s] + expo[Other(s)]
        /\ Net(expo, s) = expo[s] - expo[Other(s)]
    BY <2>2, ExposureType DEF Exposures, QuoteSides, Other
  <2>5. /\ MaxInventoryPerSide \in Nat /\ MaxNetExposure \in Nat /\ MaxGrossExposure \in Nat
        /\ MinQuoteUnits \in Nat \ {0} /\ MaxQuoteUnits \in Nat
    BY QuoteAssumption
  <2>6. Net(expo, s) <= 0 /\ Net(expo, s) \in Int
    BY <2>3, <2>4
  <2>7. /\ expo[s] + MinQuoteUnits <= MaxInventoryPerSide
        /\ Net(expo, s) + MinQuoteUnits <= MaxNetExposure
        /\ Gross(expo) + MinQuoteUnits <= MaxGrossExposure
    BY <2>3, <2>4, <2>5 DEF RoomToQuote
  <2>8. CanQuote(expo, s)
    BY <2>4, <2>5, <2>6, <2>7 DEF CanQuote, ImbalanceLimited
  <2> DEFINE toxic == Toxic(BestBid(book), BestAsk(book))
             requested == RequestedUnits(expo, s, toxic)
  <2>9. requested \in Int /\ requested >= MinQuoteUnits
    <3>1. toxic \in BOOLEAN
      BY DEF Toxic
    <3> HIDE DEF toxic
    <3> QED BY <2>2, <2>5, <2>6, <3>1, RequestedBound, BaseBound
  <2> DEFINE offered == BuildQuotePlan(BestBid(book), BestAsk(book), Absent, expo, TRUE, FALSE).units[s]
  <2>10. offered = ClampUnits(requested, expo, s)
    BY <2>8 DEF BuildQuotePlan
  <2> HIDE DEF requested, offered
  <2>11. ClampUnits(requested, expo, s) \in Nat /\ ClampUnits(requested, expo, s) # 0
    BY <2>2, <2>7, <2>9, ClampBound
  <2>12. offered > 0
    BY <2>10, <2>11
  <2> QED BY <2>12 DEF offered
<1> QED BY <1>1, LimitsAlways, PTL
=============================================================================
