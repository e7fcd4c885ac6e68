---------------------------- MODULE MarketMaker ----------------------------
(***************************************************************************)
(* The market maker bot on one EVM chain (market-maker-bot/src/index.ts)   *)
(* with its durable store (src/storage): what becomes of the orders it     *)
(* placed and of the winnings it is owed, over crashes, restarts, failing  *)
(* calls and duels that follow each other.                                 *)
(*                                                                         *)
(* The bot is one loop.  Between any two of its awaits the chain moves on: *)
(* takers fill orders, transactions are mined in the order of their nonces,*)
(* the duel locks and is resolved, the next one opens.  What a quote costs *)
(* and how large it is belongs to QuotePlan: here an order rests or it     *)
(* does not.  An order is known by its duel and its number.                *)
(***************************************************************************)
EXTENDS Naturals, SequencesExt

CONSTANTS
    NumDuels, MaxOrders,   \* bounds: duels in a row, placements in each
    MaxPlacements,         \* bound: placements in all
    Budget,                \* bound: how often each kind of trouble strikes
    None

Troubles == {"crash",      \* the process dies and is started again
             "error",      \* a call throws and the cycle is given up
             "refusal",    \* a cancel, a claim or the reading of an order fails for the RPC's sake
             "outage"}     \* a process that has read no overview yet cannot read one

ASSUME MarketMakerAssumption ==
    /\ {NumDuels, MaxOrders, MaxPlacements} \subseteq Nat \ {0}
    /\ Budget \in [Troubles -> Nat]

VARIABLES
    current,   \* the duel the keeper's overview shows
    stage,     \* of each duel
    orders,    \* the bot's orders on each book, in the order they were mined
    shares,    \* the duels in which the bot holds shares
    sent,      \* placements in the mempool, by nonce
    rows,      \* store: the status of each recorded order
    cursor,    \* store: the first order of each book the orphan sweep has not seen
    outbox,    \* store: orders to cancel
    backlog,   \* store: claims; a deferred one is leased or waits for its next attempt
    active,    \* activeOrders
    record,    \* the overview of this cycle, kept as lastPredictionMarkets
    recovered, \* stateRecovered
    pc, todo,  \* where the cycle is and what the loop it is in has left
    end,       \* where the orphan sweep ends: the book's next order when it began
    receipt,   \* the order in hand: an orphan to record, or what became of a placement
    trouble    \* what has struck so far

chain == <<current, stage, orders, shares, sent>>
store == <<rows, cursor, outbox, backlog>>
memory == <<active, record, recovered, pc, todo, end, receipt>>
vars == <<chain, store, memory, trouble>>

Duels == 1..NumDuels
Sides == {"BID", "ASK"}
Keys == [duel : Duels, id : 1..MaxOrders]
Reverted == [duel |-> 0, id |-> 0]
Statuses == {"OPEN", "CANCELLED", "FILLED", "QUARANTINED", "ORPHANED"}
Records == [duel : Duels, stage : {"OPEN", "LOCKED", "RESOLVED"}]
Claims == {"NONE", "PENDING", "DEFERRED", "RESOLVED"}
Phases == {"rest", "recover", "look", "sweep", "row", "outbox", "claims", "stale", "quote",
           "drop", "BID", "ASK", "wait", "persist"}

TypeOK ==
    /\ current \in Duels /\ stage \in [Duels -> {"NONE", "OPEN", "LOCKED", "RESOLVED"}]
    /\ \A d \in Duels :
         orders[d] \in BoundedSeq([side : Sides, live : BOOLEAN], MaxOrders)
    /\ shares \subseteq Duels /\ sent \in BoundedSeq([duel : Duels, side : Sides], MaxOrders)
    /\ rows \in [Keys -> Statuses \cup {"NONE"}] /\ cursor \in [Duels -> 1..MaxOrders + 1]
    /\ outbox \in [Keys -> {"NONE", "PENDING", "LEASED"}] /\ backlog \in [Duels -> Claims]
    /\ active \subseteq Keys /\ record \in Records \cup {None} /\ recovered \in BOOLEAN
    /\ pc \in Phases /\ todo \subseteq (IF pc = "claims" THEN Duels ELSE Keys) /\ end \in 1..MaxOrders + 1 /\ receipt \in Keys \cup {None, Reverted}
    /\ \A k \in active : rows[k] \in {"OPEN", "ORPHANED"}
    /\ trouble \in [Troubles -> Nat] /\ \A t \in Troubles : trouble[t] <= Budget[t]

Init ==
    /\ current = 1 /\ stage = [d \in Duels |-> IF d = 1 THEN "OPEN" ELSE "NONE"]
    /\ orders = [d \in Duels |-> <<>>] /\ shares = {} /\ sent = <<>>
    /\ rows = [k \in Keys |-> "NONE"] /\ cursor = [d \in Duels |-> 1]
    /\ outbox = [k \in Keys |-> "NONE"] /\ backlog = [d \in Duels |-> "NONE"]
    /\ active = {} /\ record = None /\ recovered = FALSE
    /\ pc = "rest" /\ todo = {} /\ end = 1 /\ receipt = None
    /\ trouble = [t \in Troubles |-> 0]

Strike(t) ==
    /\ trouble[t] < Budget[t]
    /\ trouble' = [trouble EXCEPT ![t] = @ + 1]

(***************************************************************************)
(* The chain.                                                              *)
(***************************************************************************)
OnBook == {k \in Keys : k.id \in DOMAIN orders[k.duel]}
OrderOf(k) == orders[k.duel][k.id]
Live == {k \in OnBook : OrderOf(k).live}

Fill ==
    /\ \E k \in Live :
        /\ stage[k.duel] = "OPEN"
        /\ orders' = [orders EXCEPT ![k.duel][k.id].live = FALSE]
        /\ shares' = shares \cup {k.duel}
    /\ UNCHANGED <<current, stage, sent, store, memory, trouble>>

\* The oldest placement is mined: an order of the next number, or nothing once the duel has locked.
Mine ==
    LET tx == Head(sent)
        accepted == stage[tx.duel] = "OPEN"
        key == [duel |-> tx.duel, id |-> Len(orders[tx.duel]) + 1]
    IN  /\ sent # <<>>
        /\ sent' = Tail(sent)
        /\ orders' = IF accepted
                     THEN [orders EXCEPT ![tx.duel] = Append(@, [side |-> tx.side, live |-> TRUE])]
                     ELSE orders
        /\ receipt' = IF pc = "wait" /\ Len(sent) = 1
                      THEN (IF accepted THEN key ELSE Reverted) ELSE receipt
        /\ UNCHANGED <<current, stage, shares, store, active, record, recovered, pc, todo, end, trouble>>

DuelMovesOn ==
    /\ \/ /\ stage[current] # "RESOLVED"
          /\ stage' = [stage EXCEPT ![current] = IF @ = "OPEN" THEN "LOCKED" ELSE "RESOLVED"]
          /\ UNCHANGED current
       \/ /\ stage[current] = "RESOLVED" /\ current < NumDuels
          /\ current' = current + 1
          /\ stage' = [stage EXCEPT ![current + 1] = "OPEN"]
    /\ UNCHANGED <<orders, shares, sent, store, memory, trouble>>

(***************************************************************************)
(* Steps the phases of a cycle share.                                      *)
(***************************************************************************)

Record(k, status) ==
    /\ rows' = [rows EXCEPT ![k] = status]
    /\ active' = IF status \in {"OPEN", "ORPHANED"} THEN active \cup {k} ELSE active \ {k}

\* The book cancels orders only while the duel is open, and after the transactions sent before.
BookCancels(k) ==
    /\ sent = <<>> /\ k \in Live /\ stage[k.duel] = "OPEN"
    /\ orders' = [orders EXCEPT ![k.duel][k.id].live = FALSE]

\* cancelTrackedOrder: whatever becomes of the transaction, the order is dropped as cancelled; the
\* messages it looks for are not those of this book's errors.
Cancel(k) ==
    /\ Record(k, "CANCELLED")
    /\ \/ BookCancels(k) /\ UNCHANGED trouble
       \/ (k \in Live => stage[k.duel] # "OPEN") /\ UNCHANGED <<orders, trouble>>
       \/ Strike("refusal") /\ UNCHANGED orders

Terminal(r) == r # None /\ r.stage = "RESOLVED"
Quotable(r) == r # None /\ r.stage = "OPEN"

\* enqueueClaimBacklogForMarket: pending again, and due at once
Enqueue(d) == backlog' = [backlog EXCEPT ![d] = "PENDING"]

\* mutant: a restart does not take up the orphans
Unfinished_OpenOnly(k) == rows[k] = "OPEN"

Unfinished(k) == rows[k] \in {"OPEN", "ORPHANED"}

(***************************************************************************)
(* A cycle: recovery once per process, orphan sweep, outbox, claims, old   *)
(* orders, quotes.                                                         *)
(***************************************************************************)
\* The overview, or the last one this process has read: it is kept for a while, and for as long as
\* no other can be read.
Start ==
    /\ pc = "rest"
    /\ \/ record' = [duel |-> current, stage |-> stage[current]] /\ UNCHANGED trouble
       \/ record # None /\ UNCHANGED <<record, trouble>>
       \/ record = None /\ Strike("outage") /\ UNCHANGED record
    /\ IF recovered
       THEN pc' = "look" /\ todo' = {} /\ UNCHANGED active
       ELSE /\ pc' = "recover"
            /\ active' = {k \in Keys : Unfinished(k)}
            /\ todo' = active'
    /\ UNCHANGED <<chain, store, recovered, end, receipt>>

\* reconcilePersistedOrder
RecoverOne ==
    /\ pc = "recover"
    /\ \E k \in todo :
        /\ todo' = todo \ {k}
        /\ \/ /\ (IF record = None THEN TRUE ELSE record.duel # k.duel)
              /\ Record(k, "QUARANTINED")
              /\ UNCHANGED <<orders, backlog, trouble>>
           \/ /\ record # None /\ record.duel = k.duel
              /\ \/ /\ k \notin Live
                    /\ Record(k, "FILLED")
                    /\ UNCHANGED <<orders, backlog, trouble>>
                 \/ /\ Strike("refusal")
                    /\ Record(k, "FILLED")
                    /\ UNCHANGED <<orders, backlog>>
                 \/ /\ k \in Live /\ ~Quotable(record)
                    /\ Cancel(k)
                    /\ IF Terminal(record) THEN Enqueue(k.duel) ELSE UNCHANGED backlog
                 \/ /\ k \in Live /\ Quotable(record)
                    /\ Record(k, "OPEN")
                    /\ UNCHANGED <<orders, backlog, trouble>>
    /\ UNCHANGED <<current, stage, shares, sent, cursor, outbox, record, recovered, pc, end, receipt>>

Recovered ==
    /\ pc = "recover" /\ todo = {}
    /\ recovered' = TRUE /\ pc' = "look"
    /\ UNCHANGED <<chain, store, active, record, todo, end, receipt, trouble>>

\* sweepOrphans reads how far the book of the duel has got ...
SweepBegins ==
    /\ pc = "look"
    /\ end' = IF Quotable(record) THEN Len(orders[record.duel]) + 1 ELSE 1
    /\ pc' = "sweep"
    /\ UNCHANGED <<chain, store, active, record, recovered, todo, receipt, trouble>>

\* mutant: the sweep starts behind the first order it has not seen
Unseen_AfterCursor(d) == {k \in OnBook : k.duel = d /\ cursor[d] < k.id /\ k.id < end}

Unseen(d) == {k \in OnBook : k.duel = d /\ cursor[d] <= k.id /\ k.id < end}

Strays(d) == {k \in Unseen(d) : k \in Live /\ k \notin active}

\* ... sweepEvmOrphans then puts each order the bot does not track in the outbox ...
SweepFinds ==
    /\ pc = "sweep" /\ Quotable(record)
    /\ \E k \in Strays(record.duel) :
        /\ \A l \in Strays(record.duel) : k.id <= l.id
        /\ outbox' = [outbox EXCEPT ![k] = "PENDING"]
        /\ receipt' = k
    /\ pc' = "row"
    /\ UNCHANGED <<chain, rows, cursor, backlog, active, record, recovered, todo, end, trouble>>

\* ... records it ...
SweepRecords ==
    /\ pc = "row"
    /\ Record(receipt, "ORPHANED")
    /\ pc' = "sweep" /\ receipt' = None
    /\ UNCHANGED <<chain, cursor, outbox, backlog, record, recovered, todo, end, trouble>>

\* ... and moves the cursor when it has seen them all.  The outbox is leased next.
SweepEnds ==
    /\ pc = "sweep"
    /\ IF Quotable(record)
       THEN Strays(record.duel) = {} /\ cursor' = [cursor EXCEPT ![record.duel] = end]
       ELSE UNCHANGED cursor
    /\ outbox' = [k \in Keys |-> IF outbox[k] = "PENDING" THEN "LEASED" ELSE outbox[k]]
    /\ todo' = {k \in Keys : outbox[k] = "PENDING"}
    /\ pc' = "outbox"
    /\ UNCHANGED <<chain, rows, backlog, active, record, recovered, end, receipt, trouble>>

\* processOutbox: a leased order is cancelled if the bot tracks it; the item is done either way.
OutboxOne ==
    /\ pc = "outbox"
    /\ \E k \in todo :
        /\ IF k \in active THEN Cancel(k) ELSE UNCHANGED <<orders, rows, active, trouble>>
        /\ outbox' = [outbox EXCEPT ![k] = "NONE"]
        /\ todo' = todo \ {k}
    /\ UNCHANGED <<current, stage, shares, sent, cursor, backlog, record, recovered, pc, end, receipt>>

OutboxDone ==
    /\ pc = "outbox" /\ todo = {}
    /\ todo' = {d \in Duels : backlog[d] = "PENDING"}
    /\ backlog' = [d \in Duels |-> IF backlog[d] = "PENDING" THEN "DEFERRED" ELSE backlog[d]]
    /\ pc' = "claims"
    /\ UNCHANGED <<chain, rows, cursor, outbox, active, record, recovered, end, receipt, trouble>>

\* mutant: a claim that cannot be made yet counts as made
Deferred_Resolved(d) == backlog' = [backlog EXCEPT ![d] = "RESOLVED"]

\* mutant: a claim that cannot be made yet is dropped
Deferred_Dropped(d) == backlog' = [backlog EXCEPT ![d] = "NONE"]

Deferred(d) == UNCHANGED backlog

\* sweepClaimBacklog: a claim waits until the duel the overview shows has ended.  The contract pays
\* once; that there is nothing left to claim it says in words the bot does not look for.
ClaimOne ==
    /\ pc = "claims"
    /\ \E d \in todo :
        /\ todo' = todo \ {d}
        /\ \/ /\ Terminal(record) /\ sent = <<>> /\ d \in shares /\ stage[d] = "RESOLVED"
              /\ shares' = shares \ {d}
              /\ backlog' = [backlog EXCEPT ![d] = "RESOLVED"]
              /\ UNCHANGED trouble
           \/ /\ IF Terminal(record) /\ d \in shares THEN Strike("refusal") ELSE UNCHANGED trouble
              /\ Deferred(d)
              /\ UNCHANGED shares
    /\ UNCHANGED <<current, stage, orders, sent, rows, cursor, outbox, active, record, recovered,
                   pc, end, receipt>>

ClaimsDone ==
    /\ pc = "claims" /\ todo = {}
    /\ pc' = "stale"
    /\ UNCHANGED <<chain, store, active, record, recovered, todo, end, receipt, trouble>>

\* cancelStaleOrders: which orders are too old is up to the clock.
CancelStale(k) ==
    /\ pc = "stale" /\ k \in active
    /\ Cancel(k)
    /\ UNCHANGED <<current, stage, shares, sent, cursor, outbox, backlog, record, recovered, pc,
                   todo, end, receipt>>

Quote ==
    /\ pc = "stale"
    /\ pc' = "quote"
    /\ UNCHANGED <<chain, store, active, record, recovered, todo, end, receipt, trouble>>

\* evmMarketMake: without a duel every order goes, in a duel that does not take bets and under a
\* broken circuit the orders of that duel do.
Withdraw ==
    /\ pc = "quote"
    /\ todo' = {k \in active : IF record = None THEN TRUE ELSE k.duel = record.duel}
    /\ pc' = "drop"
    /\ UNCHANGED <<chain, store, active, record, recovered, end, receipt, trouble>>

DropOne ==
    /\ pc = "drop"
    /\ \E k \in todo : Cancel(k) /\ todo' = todo \ {k}
    /\ UNCHANGED <<current, stage, shares, sent, cursor, outbox, backlog, record, recovered, pc,
                   end, receipt>>

Dropped ==
    /\ pc = "drop" /\ todo = {}
    /\ IF Terminal(record) THEN Enqueue(record.duel) ELSE UNCHANGED backlog
    /\ pc' = "rest"
    /\ UNCHANGED <<chain, rows, cursor, outbox, active, record, recovered, todo, end, receipt,
                   trouble>>

Offer ==
    /\ pc = "quote" /\ Quotable(record)
    /\ pc' = "BID"
    /\ UNCHANGED <<chain, store, active, record, recovered, todo, end, receipt, trouble>>

\* mutant: the ask is compared with the bids
Existing_Bids == {k \in active : k.duel = record.duel /\ OrderOf(k).side = "BID"}

\* The orders of the side being quoted that the bot knows of.
Existing == {k \in active : k.duel = record.duel /\ OrderOf(k).side = pc}

AfterSide(side) == IF side = "BID" THEN "ASK" ELSE "rest"

\* reconcileOrder: duplicates are cancelled, and the order itself if the plan replaces or ends it.
CancelQuote ==
    /\ pc \in Sides
    /\ \E k \in Existing : Cancel(k)
    /\ UNCHANGED <<current, stage, shares, sent, cursor, outbox, backlog, record, recovered, pc,
                   todo, end, receipt>>

LeaveSide ==
    /\ pc \in Sides
    /\ \A k, l \in Existing : k = l
    /\ pc' = AfterSide(pc)
    /\ UNCHANGED <<chain, store, active, record, recovered, todo, end, receipt, trouble>>

Place ==
    /\ pc \in Sides /\ Existing = {}
    /\ Len(orders[record.duel]) + Len(sent) < MaxOrders
    /\ Cardinality(OnBook) + Len(sent) < MaxPlacements
    /\ sent' = Append(sent, [duel |-> record.duel, side |-> pc])
    /\ receipt' = None
    /\ pc' = "wait"
    /\ UNCHANGED <<current, stage, orders, shares, store, active, record, recovered, todo, end, trouble>>

Placed ==
    /\ pc = "wait" /\ receipt # None
    /\ IF receipt = Reverted THEN pc' = "rest" /\ receipt' = None
                              ELSE pc' = "persist" /\ UNCHANGED receipt
    /\ UNCHANGED <<chain, store, active, record, recovered, todo, end, trouble>>

\* persistTrackedOrder
Persist ==
    /\ pc = "persist"
    /\ Record(receipt, "OPEN")
    /\ pc' = AfterSide(OrderOf(receipt).side)
    /\ receipt' = None
    /\ UNCHANGED <<chain, cursor, outbox, backlog, record, recovered, todo, end, trouble>>

(***************************************************************************)
(* Trouble and time.                                                       *)
(***************************************************************************)
\* A cancel or a claim that has been sent is mined whatever becomes of the bot.
Sent ==
    \/ UNCHANGED <<orders, shares>>
    \/ /\ pc \in {"recover", "outbox", "stale", "drop"} \cup Sides
       /\ \E k \in active : BookCancels(k)
       /\ UNCHANGED shares
    \/ /\ pc = "claims" /\ Terminal(record) /\ sent = <<>>
       /\ \E d \in todo \cap shares : shares' = shares \ {d}
       /\ UNCHANGED orders

\* A call throws: the loop catches it and starts the next cycle.
GiveUp ==
    /\ pc # "rest" /\ Strike("error") /\ Sent
    /\ pc' = "rest" /\ todo' = {} /\ end' = 1 /\ receipt' = None
    /\ UNCHANGED <<current, stage, sent, store, active, record, recovered>>

Crash ==
    /\ Strike("crash") /\ Sent
    /\ active' = {} /\ record' = None /\ recovered' = FALSE
    /\ pc' = "rest" /\ todo' = {} /\ end' = 1 /\ receipt' = None
    /\ UNCHANGED <<current, stage, sent, store>>

\* A lease runs out once the process that took it no longer works on it.
LeaseExpires ==
    /\ pc # "outbox"
    /\ \E k \in Keys : outbox[k] = "LEASED" /\ outbox' = [outbox EXCEPT ![k] = "PENDING"]
    /\ UNCHANGED <<chain, rows, cursor, backlog, memory, trouble>>

\* The wait before the next attempt, or a lease, is over.
ClaimFallsDue(d) ==
    /\ backlog[d] = "DEFERRED" /\ (pc = "claims" => d \notin todo)
    /\ backlog' = [backlog EXCEPT ![d] = "PENDING"]
    /\ UNCHANGED <<chain, rows, cursor, outbox, memory, trouble>>

Bot ==
    \/ Start \/ RecoverOne \/ Recovered \/ SweepBegins \/ SweepFinds \/ SweepRecords \/ SweepEnds
    \/ OutboxOne \/ OutboxDone \/ ClaimOne \/ ClaimsDone \/ Quote
    \/ Withdraw \/ DropOne \/ Dropped \/ Offer \/ CancelQuote \/ LeaveSide
    \/ Place \/ Placed \/ Persist
    \/ \E k \in active : CancelStale(k)

World == Fill \/ Mine \/ DuelMovesOn

Next == Bot \/ World \/ GiveUp \/ Crash \/ LeaseExpires \/ \E d \in Duels : ClaimFallsDue(d)

Spec == Init /\ [][Next]_vars

----
(***************************************************************************)
(* Properties.                                                             *)
(***************************************************************************)
\* sweepEvmOrphans, index.ts:1398: while its book is open, no order of the bot is lost to it,
\* wherever it crashed or gave up: the order is recorded as unfinished or quarantined, or lies
\* where the next sweep will look.  A cancel the RPC refuses is recorded as done (Cancel).
NoForgottenOrder ==
    trouble["refusal"] = 0 => \A k \in Live : stage[k.duel] = "OPEN" =>
        rows[k] \in {"OPEN", "ORPHANED", "QUARANTINED"} \/ cursor[k.duel] <= k.id

\* sweepClaimBacklog, index.ts:1615: a claim is only ever called resolved once it has been paid,
\* whatever was lost between the payment and the record of it.
PaidWhenResolved == \A d \in Duels : backlog[d] = "RESOLVED" => d \notin shares

\* reconcileOrder, index.ts:1858: as long as nothing goes wrong the bot has one order on each side
\* of an open book, though it cancels, replaces and places while takers fill what it tracks.
OneQuotePerSide ==
    (\A t \in Troubles : trouble[t] = 0) =>
        \A k, l \in Live : k.duel = l.duel /\ OrderOf(k).side = OrderOf(l).side => k = l

----
(***************************************************************************)
(* Liveness.  Transactions are mined, leases and waits end, the bot runs,  *)
(* reads the overview anew from time to time, and finds every order too    *)
(* old that it has tracked for long enough.                                *)
(***************************************************************************)
Reads == Start /\ record' = [duel |-> current, stage |-> stage[current]]

Fairness ==
    /\ WF_vars(Bot) /\ WF_vars(Mine) /\ WF_vars(LeaseExpires) /\ SF_vars(Reads)
    /\ \A d \in Duels : SF_vars(ClaimFallsDue(d))
    /\ \A k \in Keys : SF_vars(CancelStale(k))

FairSpec == Spec /\ Fairness

\* cancelStaleOrders and processOutbox, index.ts:2117 and 1523: while the book is open, every order
\* of the bot, also one it lost track of, leaves it in the end or is quarantined.
EveryQuoteEnds ==
    \A k \in Keys : (k \in Live) ~> \/ k \notin Live \/ stage[k.duel] # "OPEN"
                                    \/ rows[k] = "QUARANTINED"

\* sweepClaimBacklog, index.ts:1559: once a claim is recorded it is paid, if the last duel ends.
ClaimsPaid ==
    <>(stage[NumDuels] = "RESOLVED") =>
        \A d \in Duels : (backlog[d] # "NONE") ~> (d \notin shares)
=============================================================================
