----------------------- MODULE KeeperLifecycleProofs -----------------------
(***************************************************************************)
(* Proofs about the keeper bot, for any chains and deployments, any number *)
(* of duels and any bounds on crashes, failures and rewinds.               *)
(***************************************************************************)
EXTENDS KeeperLifecycle, SequenceTheorems, TLAPS

Ran(d) == d \in ToSet(locks)
Past(c, d) == StatusOf(c, d) \notin {"NULL", "BETTING_OPEN"}
Running(kind) == todo # <<>> /\ Head(todo).kind = kind

\* A poll calls a start handler, a lock handler and an end handler, in this
\* order and for the cycle the client remembers.
Ordered(q) == \A i, j \in 1..Len(q) :
                 i < j => <<q[i].kind, q[j].kind>> \in {<<"start", "lock">>, <<"start", "end">>, <<"lock", "end">>}
Calls(q, d) == /\ q \in Seq(Handler) /\ Len(q) <= 3 /\ Ordered(q)
               /\ \A i \in 1..Len(q) : q[i].duel = d

\* A lock handler that the poll has still to call.
Pending == \E i \in 2..Len(todo) : todo[i].kind = "lock"

\* The types the argument needs, and what the client's memory says of the
\* handlers that were called.
MemoryInv ==
    /\ chains \in Deployments
    /\ game \in [cycle : Duels, phase : Phases, evidence : BOOLEAN]
    /\ client \in [cycle : 0..Cycles, phase : Phases, locked : 0..Cycles, ended : {"none", "bare", "full"}]
    /\ client.cycle <= game.cycle
    /\ Calls(todo, client.cycle)
    /\ IsLockedPhase(client.phase) => client.locked = client.cycle
    /\ \A i \in 1..Len(todo) :
          /\ todo[i].kind = "end" => IsLockedPhase(client.phase)
          /\ todo[i].kind = "lock" => client.locked = client.cycle

\* The lock handlers this process has run.
LocksInv ==
    /\ locks \in Seq(Duels)
    /\ LockedOnceInOrder
    /\ \A i \in 1..Len(locks) : locks[i] <= client.cycle
    /\ Pending \/ client.locked # client.cycle \/ Running("start") =>
          \A i \in 1..Len(locks) : locks[i] < client.cycle
    /\ client.locked = client.cycle /\ client.cycle # 0 => Pending \/ Ran(client.cycle)

\* The market of a duel whose betting is over.
Closed(c, d) == market[c][d] # "OPEN" \/ StatusOf(c, d) = "CANCELLED"

\* A result is only reported where the market has been closed before.
ReportedClosed(c, d) ==
    <<c, d>> \notin hurt /\ StatusOf(c, d) \in InDispute \cup {"RESOLVED"} => market[c][d] # "OPEN"

\* What the job of a handler has achieved on a chain where nothing failed.
JobInv(c, h) ==
    /\ h.kind # "end" => job[c] \in {"read", "upsert", "create", "sync", "done", "failed"}
    /\ h.kind = "end" => job[c] \in Steps \ {"idle", "upsert", "create"}
    /\ <<c, h.duel>> \notin hurt =>
         /\ h.kind = "lock" /\ job[c] \in {"create", "sync"} => Past(c, h.duel)
         /\ h.kind = "lock" /\ job[c] \in {"done", "failed"} => Closed(c, h.duel)
         /\ h.kind = "end" /\ job[c] \in {"sync", "lockSync", "proposeSync"} => Past(c, h.duel)

Oracles == [Chains -> [Duels -> [status : OracleStatus, window : BOOLEAN]]]
Markets == [Chains -> [Duels -> MarketStatus]]

ChainInv ==
    /\ job \in [Chains -> Steps] /\ oracle \in Oracles /\ market \in Markets
    /\ hurt \subseteq Chains \X Duels
    /\ \A c \in chains, d \in Duels : ReportedClosed(c, d)
    /\ todo # <<>> => \A c \in chains : JobInv(c, Head(todo))
    /\ todo = <<>> => \A c \in chains : job[c] = "idle"

KeeperInv == MemoryInv /\ LocksInv /\ ChainInv /\ BettingClosedAfterLock

-----------------------------------------------------------------------------
\* What the constants are.
LEMMA Bounds == Cycles \in Nat \ {0} /\ (\A c \in chains : chains \in Deployments => c \in Chains)
BY KeeperAssumption DEF Chains

\* Taking the first call off leaves calls in order.
LEMMA TailCalls ==
    ASSUME NEW q, NEW d, Calls(q, d), q # <<>>
    PROVE  /\ Calls(Tail(q), d)
           /\ Len(Tail(q)) = Len(q) - 1 /\ Len(q) \in 1..3
           /\ \A i \in 1..Len(Tail(q)) : Tail(q)[i] = q[i + 1]
           /\ Head(q) = q[1] /\ Head(q) \in Handler /\ Head(q).duel = d
<1>1. q \in Seq(Handler) /\ Len(q) \in Nat /\ Len(q) # 0
  BY EmptySeq, LenProperties DEF Calls
<1>2. /\ Tail(q) \in Seq(Handler) /\ Len(Tail(q)) = Len(q) - 1
      /\ \A i \in 1..Len(Tail(q)) : Tail(q)[i] = q[i + 1]
      /\ Head(q) = q[1] /\ Head(q) \in Handler
  BY <1>1, HeadTailProperties
<1>3. Ordered(Tail(q))
  BY <1>1, <1>2 DEF Calls, Ordered
<1> QED BY <1>1, <1>2, <1>3 DEF Calls

\* Adding a call, or none, at the end.
LEMMA AddCall ==
    ASSUME NEW q, NEW d, Calls(q, d), Len(q) <= 2, NEW v \in Handler, v.duel = d, NEW added \in BOOLEAN,
           \A i \in 1..Len(q) : <<q[i].kind, v.kind>> \in {<<"start", "lock">>, <<"start", "end">>, <<"lock", "end">>}
    PROVE  LET r == q \o (IF added THEN <<v>> ELSE <<>>)
           IN  /\ Calls(r, d)
               /\ added => Len(r) = Len(q) + 1
               /\ ~added => Len(r) = Len(q)
               /\ \A i \in 1..Len(q) : r[i] = q[i]
               /\ added => r[Len(q) + 1] = v
<1>1. q \in Seq(Handler) /\ Len(q) \in Nat
  BY LenProperties DEF Calls
<1>2. CASE ~added
  <2>1. q \o <<>> = q
    BY <1>1, ConcatEmptySeq
  <2> QED BY <1>1, <1>2, <2>1
<1>3. CASE added
  <2> DEFINE r == q \o <<v>>
  <2>1. <<v>> \in Seq(Handler) /\ Len(<<v>>) = 1 /\ <<v>>[1] = v
    OBVIOUS
  <2>2. /\ r \in Seq(Handler) /\ Len(r) = Len(q) + 1
        /\ \A i \in 1..Len(q) + 1 : r[i] = IF i <= Len(q) THEN q[i] ELSE <<v>>[i - Len(q)]
    BY <1>1, <2>1, ConcatProperties
  <2>3. (Len(q) + 1) - Len(q) = 1 /\ Len(q) + 1 \in 1..Len(q) + 1 /\ ~(Len(q) + 1 <= Len(q))
    BY <1>1
  <2>4. r[Len(q) + 1] = v /\ \A i \in 1..Len(q) : r[i] = q[i]
    BY <1>1, <2>1, <2>2, <2>3
  <2>5. \A i \in 1..Len(r) : i \in 1..Len(q) \/ i = Len(q) + 1
    BY <1>1, <2>2
  <2>6. Ordered(r)
    <3> SUFFICES ASSUME NEW i \in 1..Len(r), NEW j \in 1..Len(r), i < j
                 PROVE  <<r[i].kind, r[j].kind>> \in {<<"start", "lock">>, <<"start", "end">>, <<"lock", "end">>}
      BY DEF Ordered
    <3>1. i \in 1..Len(q) /\ (j \in 1..Len(q) \/ j = Len(q) + 1)
      BY <1>1, <2>2
    <3> HIDE DEF r
    <3> QED BY <2>4, <3>1 DEF Calls, Ordered
  <2> HIDE DEF r
  <2>7. Calls(r, d)
    BY <1>1, <2>2, <2>4, <2>5, <2>6 DEF Calls
  <2> QED BY <1>3, <2>2, <2>4, <2>7 DEF r
<1> QED BY <1>2, <1>3

\* The handlers a poll calls.
LEMMA PollCalls ==
    ASSUME MemoryInv
    PROVE  LET poll == Handlers(client)
           IN  /\ Calls(poll.calls, game.cycle)
               /\ poll.mem \in [cycle : 0..Cycles, phase : Phases, locked : 0..Cycles,
                                ended : {"none", "bare", "full"}]
               /\ poll.mem.cycle = game.cycle
               /\ IsLockedPhase(poll.mem.phase) => poll.mem.locked = game.cycle
               /\ \A i \in 1..Len(poll.calls) : poll.calls[i].kind = "end" => IsLockedPhase(poll.mem.phase)
               \* a lock handler is called when the client has not locked the cycle, and remembered
               /\ (\E i \in 1..Len(poll.calls) : poll.calls[i].kind = "lock") <=>
                    poll.mem.locked = game.cycle /\ (game.cycle = client.cycle => client.locked # game.cycle)
               /\ game.cycle = client.cycle /\ client.locked = game.cycle => poll.mem.locked = game.cycle
               /\ poll.calls # <<>> /\ poll.calls[1].kind = "start" <=> game.cycle # client.cycle
<1> DEFINE fresh == game.cycle # client.cycle
           known == IF fresh THEN [NewClient EXCEPT !.cycle = game.cycle] ELSE client
           lock  == IsLockedPhase(game.phase) /\ ~IsLockedPhase(known.phase) /\ LocksNow(known)
           end   == game.phase = "RESOLUTION" /\ EventKey(game.evidence) # known.ended
           calls == (IF fresh THEN <<Call("start")>> ELSE <<>>)
                    \o (IF lock THEN <<Call("lock")>> ELSE <<>>)
                    \o (IF end THEN <<Call("end")>> ELSE <<>>)
           mem   == [known EXCEPT !.phase = game.phase,
                                  !.locked = IF lock THEN game.cycle ELSE @,
                                  !.ended = IF end THEN EventKey(game.evidence) ELSE @]
           Memories == [cycle : 0..Cycles, phase : Phases, locked : 0..Cycles, ended : {"none", "bare", "full"}]
<1>1. /\ game.cycle \in 1..Cycles /\ game.phase \in Phases /\ game.evidence \in BOOLEAN
      /\ client \in Memories /\ Cycles \in Nat
      /\ IsLockedPhase(client.phase) => client.locked = client.cycle
  BY Bounds DEF MemoryInv, Duels
<1>2. /\ known \in Memories /\ known.cycle = game.cycle
      /\ fresh => known.phase = "ANNOUNCEMENT" /\ known.locked = 0
      /\ ~fresh => known = client
  <2>1. [NewClient EXCEPT !.cycle = game.cycle] =
          [cycle |-> game.cycle, phase |-> "ANNOUNCEMENT", locked |-> 0, ended |-> "none"]
    BY DEF NewClient
  <2> QED BY <1>1, <2>1 DEF Phases
<1>3. lock <=> IsLockedPhase(game.phase) /\ ~IsLockedPhase(known.phase) /\ known.locked # game.cycle
  BY DEF LocksNow
<1> HIDE DEF known
<1>4. EventKey(game.evidence) \in {"bare", "full"}
  BY DEF EventKey
<1>5. mem \in Memories /\ mem.cycle = game.cycle /\ mem.phase = game.phase
      /\ mem.locked = (IF lock THEN game.cycle ELSE known.locked)
  <2> HIDE DEF lock, end
  <2> QED BY <1>1, <1>2, <1>4
<1>6. IsLockedPhase(mem.phase) => mem.locked = game.cycle
  <2> HIDE DEF lock, mem
  <2>1. IsLockedPhase(known.phase) => known.locked = game.cycle
    BY <1>1, <1>2 DEF IsLockedPhase
  <2> QED BY <1>3, <1>5, <2>1
<1>7. lock <=> mem.locked = game.cycle /\ (~fresh => client.locked # game.cycle)
  <2> HIDE DEF lock, mem
  <2>1. CASE fresh
    <3>1. ~IsLockedPhase(known.phase) /\ known.locked # game.cycle
      BY <1>1, <1>2, <2>1 DEF IsLockedPhase
    <3> QED BY <1>3, <1>5, <2>1, <3>1
  <2>2. CASE ~fresh
    BY <1>1, <1>2, <1>3, <1>5, <2>2
  <2> QED BY <2>1, <2>2
<1>a. ~fresh /\ client.locked = game.cycle => mem.locked = game.cycle
  <2> HIDE DEF lock, mem
  <2> QED BY <1>2, <1>5
<1>8. \A kind \in {"start", "lock", "end"} :
         Call(kind) \in Handler /\ Call(kind).kind = kind /\ Call(kind).duel = game.cycle
  BY <1>1 DEF Call, Handler, Duels
<1>9. end => IsLockedPhase(mem.phase)
  BY <1>5 DEF IsLockedPhase
<1> HIDE DEF fresh, lock, end, mem
<1>10. /\ Calls(calls, game.cycle)
       /\ \A i \in 1..Len(calls) : calls[i].kind = "end" => end
       /\ (\E i \in 1..Len(calls) : calls[i].kind = "lock") <=> lock
       /\ calls # <<>> /\ calls[1].kind = "start" <=> fresh
  <2> DEFINE q1 == <<>> \o (IF fresh THEN <<Call("start")>> ELSE <<>>)
             q2 == q1 \o (IF lock THEN <<Call("lock")>> ELSE <<>>)
             q3 == q2 \o (IF end THEN <<Call("end")>> ELSE <<>>)
  <2>1. fresh \in BOOLEAN /\ lock \in BOOLEAN /\ end \in BOOLEAN
    BY DEF fresh, lock, end
  <2>2. Calls(<<>>, game.cycle) /\ Len(<<>>) = 0
    BY EmptySeq DEF Calls, Ordered
  <2>3. /\ Calls(q1, game.cycle)
        /\ Len(q1) = (IF fresh THEN 1 ELSE 0)
        /\ fresh => q1[1] = Call("start")
    <3> DEFINE none == <<>>
    <3>1. /\ Calls(none, game.cycle) /\ Len(none) = 0
          /\ Len(none) <= 2
      BY <2>2
    <3>2. q1 = none \o (IF fresh THEN <<Call("start")>> ELSE <<>>)
      OBVIOUS
    <3>3. /\ Call("start") \in Handler /\ Call("start").duel = game.cycle
          /\ \A i \in 1..Len(none) : FALSE
      BY <1>8, <3>1
    <3> HIDE DEF none, q1
    <3>4. /\ Calls(q1, game.cycle)
          /\ fresh => Len(q1) = Len(none) + 1
          /\ ~fresh => Len(q1) = Len(none)
          /\ fresh => q1[Len(none) + 1] = Call("start")
      BY <2>1, <3>1, <3>2, <3>3, AddCall
    <3> QED BY <3>1, <3>4
  <2> HIDE DEF q1
  <2>4. /\ Calls(q2, game.cycle)
        /\ Len(q2) = (IF fresh THEN 1 ELSE 0) + (IF lock THEN 1 ELSE 0)
        /\ fresh => q2[1] = Call("start")
        /\ lock => q2[Len(q2)] = Call("lock")
    <3>1. /\ \A i \in 1..Len(q1) : <<q1[i].kind, Call("lock").kind>> = <<"start", "lock">>
          /\ Call("lock") \in Handler /\ Call("lock").duel = game.cycle
          /\ Len(q1) <= 2
      BY <1>8, <2>3
    <3>2. /\ Calls(q2, game.cycle)
          /\ lock => Len(q2) = Len(q1) + 1
          /\ ~lock => Len(q2) = Len(q1)
          /\ \A i \in 1..Len(q1) : q2[i] = q1[i]
          /\ lock => q2[Len(q1) + 1] = Call("lock")
      BY <2>1, <2>3, <3>1, AddCall, SMTT(30), ZenonT(60)
    <3> HIDE DEF q2
    <3> QED BY <2>3, <3>2
  <2> HIDE DEF q2
  <2>5. /\ Calls(q3, game.cycle)
        /\ Len(q3) = (IF fresh THEN 1 ELSE 0) + (IF lock THEN 1 ELSE 0) + (IF end THEN 1 ELSE 0)
        /\ \A i \in 1..Len(q2) : q3[i] = q2[i]
        /\ end => q3[Len(q3)] = Call("end")
    <3>1. \A i \in 1..Len(q2) : q2[i].kind \in {"start", "lock"}
      BY <1>8, <2>4
    <3> QED BY <1>8, <2>1, <2>4, <3>1, AddCall
  <2>6. q3 = calls
    <3>1. <<>> \o (IF fresh THEN <<Call("start")>> ELSE <<>>) = IF fresh THEN <<Call("start")>> ELSE <<>>
      <4>1. <<>> \o <<>> = <<>> /\ <<>> \o <<Call("start")>> = <<Call("start")>>
        BY <1>8, ConcatEmptySeq
      <4> QED BY <4>1
    <3> QED BY <3>1 DEF q1, q2
  <2> HIDE DEF q3, calls
  <2> QED BY <1>8, <2>4, <2>5, <2>6
<1>11. Handlers(client) = [calls |-> calls, mem |-> mem]
  BY DEF Handlers, fresh, lock, end, mem, known
<1> HIDE DEF calls
<1>12. Handlers(client).calls = calls /\ Handlers(client).mem = mem
  BY <1>11
<1> QED BY <1>5, <1>6, <1>7, <1>a, <1>9, <1>10, <1>12 DEF fresh

-----------------------------------------------------------------------------
\* The lock handlers that were run, as a sequence and as a set.
LEMMA RanIffListed ==
    ASSUME NEW d, locks \in Seq(Duels)
    PROVE  Ran(d) <=> \E i \in 1..Len(locks) : locks[i] = d
BY LenProperties DEF Ran, ToSet

\* Making a call on a duel appends that duel to the locks exactly when the
\* call is a lock.
LEMMA LocksGrow ==
    ASSUME locks \in Seq(Duels), NEW q, NEW d \in Duels, Calls(q, d), locks' = locks \o LocksOf(q)
    PROVE  /\ locks' \in Seq(Duels)
           /\ q # <<>> /\ q[1].kind = "lock" =>
                /\ Len(locks') = Len(locks) + 1 /\ locks'[Len(locks) + 1] = d
                /\ \A i \in 1..Len(locks) : locks'[i] = locks[i]
           /\ ~(q # <<>> /\ q[1].kind = "lock") => locks' = locks
<1>1. Len(locks) \in Nat
  BY LenProperties
<1>2. q # <<>> => Head(q) = q[1] /\ Head(q).duel = d
  BY TailCalls
<1>3. CASE q # <<>> /\ q[1].kind = "lock"
  <2>1. <<d>> \in Seq(Duels) /\ Len(<<d>>) = 1 /\ <<d>>[1] = d
    OBVIOUS
  <2>2. locks' = locks \o <<d>>
    BY <1>2, <1>3 DEF LocksOf
  <2>3. /\ locks' \in Seq(Duels) /\ Len(locks') = Len(locks) + 1
        /\ \A i \in 1..Len(locks) + 1 : locks'[i] = IF i <= Len(locks) THEN locks[i] ELSE <<d>>[i - Len(locks)]
    BY <1>1, <2>1, <2>2, ConcatProperties
  <2>4. (Len(locks) + 1) - Len(locks) = 1 /\ Len(locks) + 1 \in 1..Len(locks) + 1 /\ ~(Len(locks) + 1 <= Len(locks))
    BY <1>1
  <2> QED BY <1>1, <1>3, <2>1, <2>3, <2>4
<1>4. CASE ~(q # <<>> /\ q[1].kind = "lock")
  <2>1. LocksOf(q) = <<>>
    BY <1>2, <1>4 DEF LocksOf
  <2> QED BY <1>4, <2>1, ConcatEmptySeq
<1> QED BY <1>3, <1>4

\* A process never runs the lock handler of a duel whose start handler it is
\* still in, and has run it when it is in the end handler.
LEMMA RunningHandler ==
    ASSUME MemoryInv, LocksInv, todo # <<>>
    PROVE  /\ Head(todo) = todo[1] /\ Head(todo) \in Handler /\ Head(todo).duel = client.cycle
           /\ client.cycle \in Duels
           /\ Head(todo).kind = "start" => ~Ran(client.cycle)
           /\ Head(todo).kind = "end" => Ran(client.cycle)
<1>1. /\ Calls(todo, client.cycle) /\ Len(todo) \in 1..3
      /\ Head(todo) = todo[1] /\ Head(todo) \in Handler /\ Head(todo).duel = client.cycle
      /\ locks \in Seq(Duels)
  BY TailCalls DEF MemoryInv, LocksInv
<1>2. client.cycle \in Duels /\ client.cycle \in 1..Cycles
  BY <1>1 DEF Handler, Duels
<1>3. ASSUME Head(todo).kind = "start"
      PROVE  ~Ran(client.cycle)
  <2>1. \A i \in 1..Len(locks) : locks[i] < client.cycle
    BY <1>3 DEF LocksInv, Running
  <2> QED BY <1>1, <1>2, <2>1, RanIffListed, Bounds
<1>4. ASSUME Head(todo).kind = "end"
      PROVE  Ran(client.cycle)
  <2>1. client.locked = client.cycle /\ client.cycle # 0
    BY <1>1, <1>2, <1>4 DEF MemoryInv
  <2>2. ~Pending
    <3> SUFFICES ASSUME NEW i \in 2..Len(todo), todo[i].kind = "lock" PROVE FALSE
      BY DEF Pending
    <3>1. <<todo[1].kind, todo[i].kind>> \in {<<"start", "lock">>, <<"start", "end">>, <<"lock", "end">>}
      BY <1>1 DEF Calls, Ordered
    <3> QED BY <1>1, <1>4, <3>1
  <2> QED BY <2>1, <2>2 DEF LocksInv
<1> QED BY <1>1, <1>2, <1>3, <1>4

-----------------------------------------------------------------------------
\* What a poll and a handler's return make of the locks.
LEMMA PollLocks ==
    ASSUME MemoryInv, LocksInv, Poll
    PROVE  MemoryInv' /\ LocksInv'
<1> DEFINE calls == Handlers(client).calls
           mem   == Handlers(client).mem
           d     == game.cycle
           hasLock  == \E i \in 1..Len(calls) : calls[i].kind = "lock"
           headLock == calls # <<>> /\ calls[1].kind = "lock"
           fresh    == d # client.cycle
<1>1. /\ todo = <<>> /\ client' = mem /\ todo' = calls /\ locks' = locks \o LocksOf(calls)
      /\ UNCHANGED <<chains, game>>
  BY DEF Poll, world
<1>2. /\ Calls(calls, d)
      /\ mem \in [cycle : 0..Cycles, phase : Phases, locked : 0..Cycles, ended : {"none", "bare", "full"}]
      /\ mem.cycle = d
      /\ IsLockedPhase(mem.phase) => mem.locked = d
      /\ \A i \in 1..Len(calls) : calls[i].kind = "end" => IsLockedPhase(mem.phase)
      /\ hasLock <=> mem.locked = d /\ (d = client.cycle => client.locked # d)
      /\ d = client.cycle /\ client.locked = d => mem.locked = d
      /\ calls # <<>> /\ calls[1].kind = "start" <=> fresh
  BY PollCalls
<1> HIDE DEF calls, mem
<1>3. d \in Duels /\ d \in 1..Cycles /\ Cycles \in Nat /\ client.cycle \in 0..Cycles /\ client.cycle <= d
  BY Bounds DEF MemoryInv, Duels
<1>4. MemoryInv'
  <2>1. \A i \in 1..Len(calls) : calls[i].kind = "lock" => mem.locked = d
    BY <1>2
  <2> QED BY <1>1, <1>2, <1>3, <2>1 DEF MemoryInv, IsLockedPhase
<1>5. /\ locks \in Seq(Duels) /\ Len(locks) \in Nat
      /\ \A i \in 1..Len(locks) : locks[i] \in 1..Cycles /\ locks[i] <= client.cycle
      /\ \A i, j \in 1..Len(locks) : i < j => locks[i] < locks[j]
  BY LenProperties, ElementOfSeq DEF LocksInv, LockedOnceInOrder, Duels
<1>6. /\ locks' \in Seq(Duels)
      /\ headLock =>
           /\ Len(locks') = Len(locks) + 1 /\ locks'[Len(locks) + 1] = d
           /\ \A i \in 1..Len(locks) : locks'[i] = locks[i]
      /\ ~headLock => locks' = locks
  BY <1>1, <1>2, <1>3, <1>5, LocksGrow
<1>7. calls # <<>> => Len(calls) \in 1..3 /\ Head(calls) = calls[1]
  BY <1>2, TailCalls
<1>8. calls = <<>> => Len(calls) = 0
  BY EmptySeq
<1>9. hasLock /\ ~headLock => fresh
  <2> SUFFICES ASSUME NEW i \in 1..Len(calls), calls[i].kind = "lock", ~headLock PROVE fresh
    OBVIOUS
  <2>1. calls # <<>> /\ i # 1 /\ 1 \in 1..Len(calls) /\ 1 < i
    BY <1>7, <1>8
  <2>2. <<calls[1].kind, calls[i].kind>> \in {<<"start", "lock">>, <<"start", "end">>, <<"lock", "end">>}
    BY <1>2, <2>1 DEF Calls, Ordered
  <2> QED BY <1>2, <2>1, <2>2
<1>10. Pending' <=> \E i \in 2..Len(calls) : calls[i].kind = "lock"
  BY <1>1 DEF Pending
<1>11. Pending' => hasLock /\ ~headLock
  <2> SUFFICES ASSUME NEW i \in 2..Len(calls), calls[i].kind = "lock" PROVE hasLock /\ ~headLock
    BY <1>10
  <2>1. calls # <<>> /\ i \in 1..Len(calls) /\ 1 \in 1..Len(calls) /\ 1 < i
    BY <1>7, <1>8
  <2>2. <<calls[1].kind, calls[i].kind>> \in {<<"start", "lock">>, <<"start", "end">>, <<"lock", "end">>}
    BY <1>2, <2>1 DEF Calls, Ordered
  <2> QED BY <2>1, <2>2
<1>12. hasLock /\ ~headLock => Pending'
  <2> SUFFICES ASSUME NEW i \in 1..Len(calls), calls[i].kind = "lock", ~headLock PROVE Pending'
    OBVIOUS
  <2>1. calls # <<>> /\ i # 1 /\ i \in 2..Len(calls)
    BY <1>7, <1>8
  <2> QED BY <1>10, <2>1
<1>13. fresh => \A i \in 1..Len(locks) : locks[i] < d
  BY <1>3, <1>5
<1>14. ~fresh /\ client.locked # d => \A i \in 1..Len(locks) : locks[i] < d
  BY DEF LocksInv
<1>15. headLock => ~fresh /\ client.locked # d /\ hasLock
  <2>1. headLock => 1 \in 1..Len(calls)
    BY <1>7
  <2> QED BY <1>2, <2>1
<1>16. LockedOnceInOrder'
  <2>1. \A i, j \in 1..Len(locks') : i < j => locks'[i] < locks'[j]
    BY <1>3, <1>5, <1>6, <1>14, <1>15
  <2>2. DOMAIN locks' = 1..Len(locks')
    BY <1>6, LenProperties
  <2> QED BY <2>1, <2>2 DEF LockedOnceInOrder
<1>17. \A i \in 1..Len(locks') : locks'[i] <= client'.cycle
  <2>1. client'.cycle = d /\ \A i \in 1..Len(locks) : locks[i] <= d
    BY <1>1, <1>2, <1>3, <1>5
  <2>2. CASE headLock
    <3>1. \A i \in 1..Len(locks') : i \in 1..Len(locks) \/ i = Len(locks) + 1
      BY <1>5, <1>6, <2>2
    <3> QED BY <1>3, <1>6, <2>1, <2>2, <3>1
  <2>3. CASE ~headLock
    BY <1>6, <2>1, <2>3
  <2> QED BY <2>2, <2>3
<1>18. ASSUME Pending' \/ client'.locked # client'.cycle \/ Running("start")'
       PROVE  \A i \in 1..Len(locks') : locks'[i] < client'.cycle
  <2>1. Running("start")' => fresh
    BY <1>1, <1>2, <1>7 DEF Running
  <2>2. CASE fresh
    BY <1>1, <1>2, <1>6, <1>13, <1>15, <2>2
  <2>3. CASE ~fresh
    <3>1. mem.locked # d
      BY <1>1, <1>2, <1>9, <1>11, <1>18, <2>1, <2>3
    <3>2. ~hasLock /\ client.locked # d
      BY <1>2, <2>3, <3>1
    <3> QED BY <1>1, <1>2, <1>6, <1>14, <1>15, <2>3, <3>2
  <2> QED BY <2>2, <2>3
<1>19. ASSUME client'.locked = client'.cycle
       PROVE  Pending' \/ Ran(client.cycle)'
  <2>1. CASE headLock
    <3>1. Len(locks) + 1 \in 1..Len(locks') /\ locks'[Len(locks) + 1] = client'.cycle
      BY <1>1, <1>2, <1>5, <1>6, <2>1
    <3> QED BY <1>6, <3>1, LenProperties DEF Ran, ToSet
  <2>2. CASE hasLock /\ ~headLock
    BY <1>12, <2>2
  <2>3. CASE ~hasLock
    <3>1. d = client.cycle /\ client.locked = d /\ ~headLock
      BY <1>1, <1>2, <1>15, <1>19, <2>3
    <3>2. ~Pending
      BY <1>1, EmptySeq DEF Pending
    <3>3. Ran(d)
      BY <1>3, <3>1, <3>2 DEF LocksInv
    <3> QED BY <1>1, <1>2, <1>6, <3>1, <3>3 DEF Ran, ToSet
  <2> QED BY <2>1, <2>2, <2>3
<1>20. LocksInv'
  BY <1>6, <1>16, <1>17, <1>18, <1>19 DEF LocksInv
<1> QED BY <1>4, <1>20

\* The handler that returns hands over to the next call of the same duel.
LEMMA ReturnLocks ==
    ASSUME MemoryInv, LocksInv, HandlerReturns
    PROVE  MemoryInv' /\ LocksInv'
<1> DEFINE q == Tail(todo)
           d == client.cycle
           headLock == q # <<>> /\ q[1].kind = "lock"
<1>1. /\ todo # <<>> /\ todo' = q /\ locks' = locks \o LocksOf(q) /\ UNCHANGED <<chains, game, client>>
  BY DEF HandlerReturns, world
<1>2. /\ Calls(todo, d) /\ Calls(q, d) /\ Len(q) = Len(todo) - 1 /\ Len(todo) \in 1..3
      /\ \A i \in 1..Len(q) : q[i] = todo[i + 1]
      /\ d \in Duels /\ d \in 1..Cycles /\ Cycles \in Nat
  BY <1>1, TailCalls, RunningHandler, Bounds DEF MemoryInv, Duels
<1> HIDE DEF q
<1>3. MemoryInv'
  <2>1. \A i \in 1..Len(q) : /\ q[i].kind = "end" => IsLockedPhase(client.phase)
                             /\ q[i].kind = "lock" => client.locked = client.cycle
    <3>1. \A i \in 1..Len(q) : i + 1 \in 1..Len(todo) /\ q[i] = todo[i + 1]
      BY <1>2
    <3> QED BY <3>1 DEF MemoryInv
  <2> QED BY <1>1, <1>2, <2>1 DEF MemoryInv, IsLockedPhase
<1>4. /\ locks \in Seq(Duels) /\ Len(locks) \in Nat
      /\ \A i \in 1..Len(locks) : locks[i] \in 1..Cycles /\ locks[i] <= d
      /\ \A i, j \in 1..Len(locks) : i < j => locks[i] < locks[j]
  BY LenProperties, ElementOfSeq DEF LocksInv, LockedOnceInOrder, Duels
<1>5. /\ locks' \in Seq(Duels)
      /\ headLock =>
           /\ Len(locks') = Len(locks) + 1 /\ locks'[Len(locks) + 1] = d
           /\ \A i \in 1..Len(locks) : locks'[i] = locks[i]
      /\ ~headLock => locks' = locks
  BY <1>1, <1>2, <1>4, LocksGrow
<1>6. headLock => Pending
  <2>1. headLock => 1 \in 1..Len(q)
    BY <1>2, EmptySeq, LenProperties DEF Calls
  <2> QED BY <1>2, <2>1 DEF Pending
<1>7. headLock => \A i \in 1..Len(locks) : locks[i] < d
  BY <1>6 DEF LocksInv
<1>8. Pending' => Pending /\ ~headLock
  <2> SUFFICES ASSUME NEW i \in 2..Len(q), q[i].kind = "lock" PROVE Pending /\ ~headLock
    BY <1>1 DEF Pending
  <2>1. i + 1 \in 2..Len(todo) /\ todo[i + 1].kind = "lock" /\ i \in 1..Len(q) /\ 1 \in 1..Len(q) /\ 1 < i
    BY <1>2
  <2>2. <<q[1].kind, q[i].kind>> \in {<<"start", "lock">>, <<"start", "end">>, <<"lock", "end">>}
    BY <1>2, <2>1 DEF Calls, Ordered
  <2> QED BY <2>1, <2>2 DEF Pending
<1>9. Pending => Pending' \/ headLock
  <2> SUFFICES ASSUME NEW i \in 2..Len(todo), todo[i].kind = "lock" PROVE Pending' \/ headLock
    BY DEF Pending
  <2>1. i - 1 \in 1..Len(q) /\ q[i - 1] = todo[i]
    BY <1>2
  <2>2. CASE i = 2
    <3>1. 1 \in 1..Len(q) /\ q[1].kind = "lock" /\ q # <<>>
      BY <1>2, <2>1, <2>2, EmptySeq
    <3> QED BY <3>1
  <2>3. CASE i # 2
    <3>1. i - 1 \in 2..Len(q)
      BY <1>2, <2>1, <2>3
    <3> QED BY <1>1, <2>1, <3>1 DEF Pending
  <2> QED BY <2>2, <2>3
<1>10. ~Running("start")'
  <2> SUFFICES ASSUME q # <<>>, Head(q).kind = "start" PROVE FALSE
    BY <1>1 DEF Running
  <2>1. Head(q) = q[1] /\ 1 \in 1..Len(q)
    BY <1>2, TailCalls
  <2>2. 1 \in 1..Len(todo) /\ 2 \in 1..Len(todo) /\ 1 < 2 /\ q[1] = todo[2]
    BY <1>2, <2>1
  <2>3. <<todo[1].kind, todo[2].kind>> \in {<<"start", "lock">>, <<"start", "end">>, <<"lock", "end">>}
    BY <1>2, <2>2 DEF Calls, Ordered
  <2> QED BY <2>1, <2>2, <2>3
<1>11. LockedOnceInOrder'
  <2>1. \A i, j \in 1..Len(locks') : i < j => locks'[i] < locks'[j]
    <3>1. CASE headLock
      <4>1. \A i \in 1..Len(locks') : i \in 1..Len(locks) \/ i = Len(locks) + 1
        BY <1>4, <1>5, <3>1
      <4>2. \A i, j \in 1..Len(locks') : i < j => i \in 1..Len(locks)
        BY <1>4, <1>5, <3>1
      <4> QED BY <1>4, <1>5, <1>7, <3>1, <4>1, <4>2
    <3>2. CASE ~headLock
      BY <1>4, <1>5, <3>2
    <3> QED BY <3>1, <3>2
  <2>2. DOMAIN locks' = 1..Len(locks')
    BY <1>5, LenProperties
  <2> QED BY <2>1, <2>2 DEF LockedOnceInOrder
<1>12. \A i \in 1..Len(locks') : locks'[i] <= client'.cycle
  <2>1. CASE headLock
    <3>1. \A i \in 1..Len(locks') : i \in 1..Len(locks) \/ i = Len(locks) + 1
      BY <1>4, <1>5, <2>1
    <3> QED BY <1>1, <1>2, <1>4, <1>5, <2>1, <3>1
  <2>2. CASE ~headLock
    BY <1>1, <1>4, <1>5, <2>2
  <2> QED BY <2>1, <2>2
<1>13. ASSUME Pending' \/ client'.locked # client'.cycle \/ Running("start")'
       PROVE  \A i \in 1..Len(locks') : locks'[i] < client'.cycle
  <2>1. Pending' \/ client.locked # client.cycle
    BY <1>1, <1>10, <1>13
  <2>2. ~headLock
    <3>1. CASE Pending'
      BY <1>8, <3>1
    <3>2. CASE client.locked # client.cycle
      <4>1. headLock => 2 \in 1..Len(todo) /\ todo[2].kind = "lock"
        BY <1>2, EmptySeq, LenProperties DEF Calls
      <4> QED BY <3>2, <4>1 DEF MemoryInv
    <3> QED BY <2>1, <3>1, <3>2
  <2> QED BY <1>1, <1>5, <1>8, <2>1, <2>2 DEF LocksInv
<1>14. ASSUME client'.locked = client'.cycle
       PROVE  Pending' \/ Ran(client.cycle)'
  <2>1. CASE headLock
    <3>1. Len(locks) + 1 \in 1..Len(locks') /\ locks'[Len(locks) + 1] = client'.cycle
      BY <1>1, <1>4, <1>5, <2>1
    <3> QED BY <1>5, <3>1, LenProperties DEF Ran, ToSet
  <2>2. CASE ~headLock
    <3>1. Pending \/ Ran(d)
      BY <1>1, <1>2, <1>14 DEF LocksInv
    <3>2. Ran(d) => Ran(client.cycle)'
      BY <1>1, <1>5, <2>2 DEF Ran, ToSet
    <3> QED BY <1>9, <2>2, <3>1, <3>2
  <2> QED BY <2>1, <2>2
<1>15. LocksInv'
  BY <1>5, <1>11, <1>12, <1>13, <1>14 DEF LocksInv
<1> QED BY <1>3, <1>15

-----------------------------------------------------------------------------
\* What one job may do to the duel its handler is about: the rest follows from
\* the other duels and chains being left alone.
LEMMA OneJob ==
    ASSUME KeeperInv, todo # <<>>, UNCHANGED <<chains, client, todo, locks>>,
           NEW c \in chains, NEW d \in Duels, d = Head(todo).duel,
           NEW step \in Steps, job' = [job EXCEPT ![c] = step],
           oracle' \in Oracles, market' \in Markets, hurt \subseteq hurt', hurt' \subseteq Chains \X Duels,
           \A c2 \in Chains, d2 \in Duels :
              <<c2, d2>> # <<c, d>> => oracle'[c2][d2] = oracle[c2][d2] /\ market'[c2][d2] = market[c2][d2],
           Head(todo).kind # "end" => step \in {"read", "upsert", "create", "sync", "done", "failed"},
           Head(todo).kind = "end" => step \in Steps \ {"idle", "upsert", "create"},
           <<c, d>> \notin hurt' =>
              /\ StatusOf(c, d)' \in InDispute \cup {"RESOLVED"} => market'[c][d] # "OPEN"
              /\ Head(todo).kind = "lock" /\ step \in {"create", "sync"} => Past(c, d)'
              /\ Head(todo).kind = "lock" /\ step \in {"done", "failed"} => Closed(c, d)'
              /\ Head(todo).kind = "end" => Closed(c, d)'
              /\ Head(todo).kind = "end" /\ step \in {"sync", "lockSync", "proposeSync"} => Past(c, d)'
    PROVE  ChainInv' /\ BettingClosedAfterLock'
<1>1. /\ MemoryInv /\ LocksInv /\ ChainInv /\ BettingClosedAfterLock
      /\ \A c2 \in chains : c2 \in Chains
      /\ job \in [Chains -> Steps]
  BY Bounds DEF KeeperInv, MemoryInv, ChainInv
<1>2. /\ job' \in [Chains -> Steps] /\ job'[c] = step
      /\ \A c2 \in Chains : c2 # c => job'[c2] = job[c2]
  BY <1>1
<1>3. \A c2 \in Chains, d2 \in Duels :
         <<c2, d2>> # <<c, d>> => StatusOf(c2, d2)' = StatusOf(c2, d2) /\ Past(c2, d2)' = Past(c2, d2)
  BY DEF StatusOf, Past
<1>4. ASSUME NEW c2 \in chains, NEW d2 \in Duels
      PROVE  ReportedClosed(c2, d2)'
  <2>1. CASE <<c2, d2>> = <<c, d>>
    BY <2>1 DEF ReportedClosed
  <2>2. CASE <<c2, d2>> # <<c, d>>
    <3>1. ReportedClosed(c2, d2)
      BY <1>1 DEF ChainInv
    <3>2. market'[c2][d2] = market[c2][d2] /\ StatusOf(c2, d2)' = StatusOf(c2, d2)
      BY <1>1, <1>3, <2>2
    <3> QED BY <3>1, <3>2 DEF ReportedClosed
  <2> QED BY <2>1, <2>2
<1>5. ASSUME NEW c2 \in chains
      PROVE  JobInv(c2, Head(todo))'
  <2>1. CASE c2 = c
    BY <1>2, <2>1 DEF JobInv
  <2>2. CASE c2 # c
    <3>1. JobInv(c2, Head(todo))
      BY <1>1 DEF ChainInv
    <3>2. /\ job'[c2] = job[c2] /\ market'[c2][d] = market[c2][d]
          /\ StatusOf(c2, d)' = StatusOf(c2, d) /\ Past(c2, d)' = Past(c2, d)
      BY <1>1, <1>2, <1>3, <2>2
    <3> QED BY <3>1, <3>2 DEF JobInv, Closed
  <2> QED BY <2>1, <2>2
<1>6. ChainInv'
  BY <1>2, <1>4, <1>5 DEF ChainInv, Oracles, Markets
<1>7. /\ ToSet(locks)' = ToSet(locks)
      /\ \A d2 \in ToSet(locks) : d2 \in Duels
      /\ Head(todo).kind = "start" => d \notin ToSet(locks)
  <2>1. locks \in Seq(Duels)
    BY <1>1 DEF LocksInv
  <2>2. \A i \in DOMAIN locks : locks[i] \in Duels
    BY <2>1, ElementOfSeq, LenProperties
  <2>3. Head(todo).kind = "start" => d \notin ToSet(locks)
    BY <1>1, RunningHandler DEF Ran
  <2> QED BY <2>2, <2>3 DEF ToSet
<1>8. Head(todo).kind \in {"start", "lock", "end"}
  BY <1>1, RunningHandler DEF Handler
<1>9. BettingClosedAfterLock'
  <2> SUFFICES ASSUME NEW c2 \in chains, NEW d2 \in ToSet(locks), <<c2, d2>> \notin hurt',
                      ~(Head(todo).kind = "lock" /\ Head(todo).duel = d2)
               PROVE  market'[c2][d2] # "OPEN" \/ StatusOf(c2, d2)' = "CANCELLED"
    BY <1>7 DEF BettingClosedAfterLock, StatusOf
  <2>1. CASE <<c2, d2>> = <<c, d>>
    BY <1>7, <1>8, <2>1 DEF Closed, StatusOf
  <2>2. CASE <<c2, d2>> # <<c, d>>
    BY <1>1, <1>3, <1>7, <2>2 DEF BettingClosedAfterLock
  <2> QED BY <2>1, <2>2
<1> QED BY <1>6, <1>9

\* While the end handler of a duel runs, betting on it is closed already.
LEMMA ClosedAtEnd ==
    ASSUME KeeperInv, todo # <<>>, Head(todo).kind = "end", NEW c \in chains,
           <<c, Head(todo).duel>> \notin hurt
    PROVE  Closed(c, Head(todo).duel)
<1>1. Head(todo).duel \in ToSet(locks)
  BY RunningHandler DEF KeeperInv, Ran
<1> QED BY <1>1 DEF KeeperInv, BettingClosedAfterLock, Closed

\* A chain job that has read the oracle acts on what it read, later.
LEMMA ReadChain ==
    ASSUME KeeperInv, todo # <<>>, NEW c \in chains, Read(c)
    PROVE  ChainInv' /\ BettingClosedAfterLock'
<1> DEFINE h == Head(todo)
           step == AfterRead(c, h)
<1>1. /\ job[c] = "read" /\ job' = [job EXCEPT ![c] = step]
      /\ UNCHANGED <<chains, client, todo, oracle, market, locks, hurt>>
  BY DEF Read, world
<1>2. /\ MemoryInv /\ LocksInv /\ ChainInv
      /\ oracle \in Oracles /\ market \in Markets /\ hurt \subseteq Chains \X Duels
      /\ h.duel \in Duels /\ c \in Chains
  BY RunningHandler, Bounds DEF KeeperInv, ChainInv, MemoryInv
<1>3. FinalizeStep \in {"done", "finalize", "failed"}
  BY DEF FinalizeStep
<1>4. /\ h.kind # "end" => step = "upsert"
      /\ h.kind = "end" => step \in {"done", "finalize", "failed", "sync", "propose", "lock"}
      /\ h.kind = "end" /\ step = "sync" => StatusOf(c, h.duel) = "CHALLENGED"
  BY <1>3 DEF AfterRead
<1>5. step \in Steps
  BY <1>4 DEF Steps
<1>6. <<c, h.duel>> \notin hurt =>
         /\ StatusOf(c, h.duel) \in InDispute \cup {"RESOLVED"} => market[c][h.duel] # "OPEN"
         /\ h.kind = "end" => Closed(c, h.duel)
         /\ h.kind = "end" /\ step = "sync" => Past(c, h.duel)
  BY <1>2, <1>4, ClosedAtEnd DEF ChainInv, ReportedClosed, Past
<1>7. StatusOf(c, h.duel)' = StatusOf(c, h.duel) /\ Past(c, h.duel)' = Past(c, h.duel)
      /\ Closed(c, h.duel)' = Closed(c, h.duel)
  BY <1>1 DEF StatusOf, Past, Closed
<1> HIDE DEF step
<1>8. /\ h.kind # "end" => step \in {"read", "upsert", "create", "sync", "done", "failed"}
      /\ h.kind = "end" => step \in Steps \ {"idle", "upsert", "create"}
  BY <1>4, <1>5
<1>9. <<c, h.duel>> \notin hurt' =>
         /\ StatusOf(c, h.duel)' \in InDispute \cup {"RESOLVED"} => market'[c][h.duel] # "OPEN"
         /\ h.kind = "lock" /\ step \in {"create", "sync"} => Past(c, h.duel)'
         /\ h.kind = "lock" /\ step \in {"done", "failed"} => Closed(c, h.duel)'
         /\ h.kind = "end" => Closed(c, h.duel)'
         /\ h.kind = "end" /\ step \in {"sync", "lockSync", "proposeSync"} => Past(c, h.duel)'
  BY <1>1, <1>4, <1>6, <1>7
<1> QED BY <1>1, <1>2, <1>5, <1>8, <1>9, OneJob

Syncs == {"create", "sync", "lockSync", "proposeSync"}
StatusAfter(step, kind) ==
    CASE step = "upsert" -> IF kind = "start" THEN "BETTING_OPEN" ELSE "LOCKED"
      [] step = "lock" -> "LOCKED" [] step = "propose" -> "PROPOSED" [] step = "finalize" -> "RESOLVED"

\* What a transaction does to the oracle and the market.
LEMMA EffectOf ==
    ASSUME oracle \in Oracles, market \in Markets, NEW c \in Chains, NEW h \in Handler,
           NEW step \in Transactions, Effect(c, step, h)
    PROVE  /\ oracle' \in Oracles /\ market' \in Markets
           /\ \A c2 \in Chains, d2 \in Duels :
                 <<c2, d2>> # <<c, h.duel>> => oracle'[c2][d2] = oracle[c2][d2] /\ market'[c2][d2] = market[c2][d2]
           /\ step \in Syncs =>
                 StatusOf(c, h.duel)' = StatusOf(c, h.duel) /\ market'[c][h.duel] = MarketOf(StatusOf(c, h.duel))
           /\ step \notin Syncs =>
                 market' = market /\ StatusOf(c, h.duel)' = StatusAfter(step, h.kind)
<1>1. h.duel \in Duels
  BY DEF Handler
<1>2. CASE step \in Syncs
  <2>1. Sync(c, h.duel)
    BY <1>2 DEF Effect, Syncs
  <2>2. MarketOf(StatusOf(c, h.duel)) \in MarketStatus
    BY DEF MarketOf, MarketStatus
  <2> DEFINE to == MarketOf(StatusOf(c, h.duel))
  <2>3. market' = [market EXCEPT ![c][h.duel] = to] /\ oracle' = oracle
    BY <2>1 DEF Sync
  <2> HIDE DEF to
  <2>4. to \in MarketStatus /\ market \in Markets
    BY <2>2 DEF to
  <2>5. /\ market' \in Markets /\ market'[c][h.duel] = to
        /\ \A c2 \in Chains, d2 \in Duels : <<c2, d2>> # <<c, h.duel>> => market'[c2][d2] = market[c2][d2]
    BY <1>1, <2>3, <2>4 DEF Markets
  <2> QED BY <1>2, <2>3, <2>5 DEF StatusOf, to
<1>3. CASE step \notin Syncs
  <2> DEFINE status == StatusAfter(step, h.kind)
             to     == [status |-> status, window |-> status = "PROPOSED"]
  <2>1. step \in {"upsert", "lock", "propose", "finalize"}
    BY <1>3 DEF Transactions, Syncs
  <2>2. Set(c, h.duel, status)
    BY <2>1 DEF Effect, StatusAfter
  <2>3. status \in OracleStatus
    BY <2>1 DEF StatusAfter, OracleStatus
  <2>4. oracle' = [oracle EXCEPT ![c][h.duel] = to] /\ market' = market
    BY <2>2 DEF Set
  <2> HIDE DEF status
  <2>5. to \in [status : OracleStatus, window : BOOLEAN] /\ to.status = status
    BY <2>3
  <2> HIDE DEF to
  <2>6. /\ oracle' \in Oracles /\ oracle'[c][h.duel] = to
        /\ \A c2 \in Chains, d2 \in Duels : <<c2, d2>> # <<c, h.duel>> => oracle'[c2][d2] = oracle[c2][d2]
    BY <1>1, <2>4, <2>5 DEF Oracles
  <2> QED BY <1>3, <2>4, <2>5, <2>6 DEF StatusOf, status
<1> QED BY <1>2, <1>3

\* Which step comes after which, in which handler.
LEMMA Order ==
    ASSUME NEW step \in Transactions
    PROVE  /\ Following(step) \in Steps \ {"idle", "read", "upsert"}
           /\ step \in {"upsert", "create", "sync"} => Following(step) \in {"create", "sync", "done"}
           /\ step \notin {"upsert"} => Following(step) # "create"
           /\ step = "upsert" => Following(step) = "create"
           /\ step = "create" => Following(step) = "sync"
           /\ step \in {"sync", "finalize"} => Following(step) = "done"
           /\ step = "lock" => Following(step) = "lockSync"
           /\ step = "lockSync" => Following(step) = "propose"
           /\ step = "propose" => Following(step) = "proposeSync"
           /\ step = "proposeSync" => Following(step) \in {"done", "finalize", "failed"}
<1>1. FinalizeStep \in {"done", "finalize", "failed"}
  BY DEF FinalizeStep
<1> HIDE DEF FinalizeStep
<1> QED BY <1>1 DEF Following, Steps, Transactions

\* A status that is past betting synchronises to a market that is not open.
LEMMA PastCloses ==
    ASSUME NEW c \in Chains, NEW d \in Duels, oracle \in Oracles, Past(c, d)
    PROVE  MarketOf(StatusOf(c, d)) # "OPEN"
<1>1. StatusOf(c, d) \in OracleStatus
  BY DEF Oracles, StatusOf
<1> QED BY <1>1 DEF Past, MarketOf, OracleStatus

\* A transaction of a job, on the chain and duel it is about.
LEMMA TransactChain ==
    ASSUME KeeperInv, todo # <<>>, NEW c \in chains, Transact(c)
    PROVE  ChainInv' /\ BettingClosedAfterLock'
<1>a. Head(todo) \in Handler
  BY RunningHandler DEF KeeperInv
<1>b. PICK h \in Handler : h = Head(todo)
  BY <1>a
<1>c. PICK step : step = job[c]
  OBVIOUS
<1> DEFINE d == h.duel
<1>1. /\ step \in Transactions
      /\ UNCHANGED <<chains, client, todo, locks, hurt>>
  BY <1>c DEF Transact, world
<1>2. /\ MemoryInv /\ LocksInv /\ ChainInv
      /\ oracle \in Oracles /\ market \in Markets /\ hurt \subseteq Chains \X Duels
      /\ h \in Handler /\ d \in Duels /\ c \in Chains
      /\ ReportedClosed(c, d) /\ JobInv(c, h)
      /\ StatusOf(c, d) \in OracleStatus
  BY <1>b, RunningHandler, Bounds DEF KeeperInv, ChainInv, MemoryInv, Handler, StatusOf, Oracles
<1>3. h.kind \in {"start", "lock", "end"}
  BY <1>2 DEF Handler
<1>4. /\ h.kind # "end" => step \in {"upsert", "create", "sync"}
      /\ h.kind = "end" => step \in {"sync", "lock", "lockSync", "propose", "proposeSync", "finalize"}
  BY <1>1, <1>2, <1>c DEF JobInv, Transactions
<1>5. h.kind = "end" /\ <<c, d>> \notin hurt => Closed(c, d)
  BY <1>b, ClosedAtEnd
<1> DEFINE Kept == oracle' = oracle /\ market' = market
<1>6. Kept => /\ StatusOf(c, d)' = StatusOf(c, d) /\ Past(c, d)' = Past(c, d)
              /\ Closed(c, d)' = Closed(c, d) /\ ReportedClosed(c, d)' = ReportedClosed(c, d)
  BY <1>1 DEF StatusOf, Past, Closed, ReportedClosed
<1>7. CASE Skips(c)
  <2>1. step = "create" /\ Kept /\ job' = [job EXCEPT ![c] = "sync"] /\ h.kind # "end"
    BY <1>1, <1>4, <1>7, <1>c, Order DEF Transact, Skips
  <2>2. h.kind = "lock" /\ <<c, d>> \notin hurt => Past(c, d)
    BY <1>2, <1>c, <2>1 DEF JobInv
  <2>3. "sync" \in Steps
    BY DEF Steps
  <2>4. <<c, d>> \notin hurt' =>
         /\ StatusOf(c, d)' \in InDispute \cup {"RESOLVED"} => market'[c][d] # "OPEN"
         /\ h.kind = "lock" => Past(c, d)'
    BY <1>1, <1>2, <1>6, <2>1, <2>2 DEF ReportedClosed
  <2> QED BY <1>1, <1>2, <2>1, <2>3, <2>4, <1>b, OneJob
<1>8. CASE ~Skips(c) /\ Accepted(c, step, h)
  <2> DEFINE next == Following(step)
  <2>1. Effect(c, step, h) /\ job' = [job EXCEPT ![c] = next]
    BY <1>8, <1>b, <1>c DEF Transact
  <2>2. /\ oracle' \in Oracles /\ market' \in Markets
        /\ \A c2 \in Chains, d2 \in Duels :
              <<c2, d2>> # <<c, d>> => oracle'[c2][d2] = oracle[c2][d2] /\ market'[c2][d2] = market[c2][d2]
        /\ step \in Syncs => StatusOf(c, d)' = StatusOf(c, d) /\ market'[c][d] = MarketOf(StatusOf(c, d))
        /\ step \notin Syncs => market' = market /\ StatusOf(c, d)' = StatusAfter(step, h.kind)
    BY <1>1, <1>2, <2>1, EffectOf
  <2>3. /\ next \in Steps
        /\ h.kind # "end" => next \in {"create", "sync", "done"}
        /\ h.kind = "end" => next \in Steps \ {"idle", "upsert", "create"}
    BY <1>1, <1>4, Order
  <2>4. ASSUME <<c, d>> \notin hurt
        PROVE  /\ StatusOf(c, d)' \in InDispute \cup {"RESOLVED"} => market'[c][d] # "OPEN"
               /\ h.kind = "lock" /\ next \in {"create", "sync"} => Past(c, d)'
               /\ h.kind = "lock" /\ next \in {"done", "failed"} => Closed(c, d)'
               /\ h.kind = "end" => Closed(c, d)'
               /\ h.kind = "end" /\ next \in {"sync", "lockSync", "proposeSync"} => Past(c, d)'
    <3>1. CASE step \in Syncs
      <4>1. h.kind \in {"lock", "end"} => Past(c, d)
        BY <1>2, <1>3, <1>4, <1>c, <2>4, <3>1 DEF JobInv, Syncs
      <4>2. Past(c, d)' = Past(c, d)
        BY <2>2, <3>1 DEF Past
      <4>3. Past(c, d) => market'[c][d] # "OPEN"
        BY <1>2, <2>2, <3>1, PastCloses
      <4>4. StatusOf(c, d)' \in InDispute \cup {"RESOLVED"} => Past(c, d)'
        BY DEF Past, InDispute
      <4> QED BY <1>3, <4>1, <4>2, <4>3, <4>4 DEF Closed
    <3>2. CASE step = "upsert"
      <4>1. next = "create" /\ market' = market /\ h.kind # "end"
            /\ StatusOf(c, d)' = IF h.kind = "start" THEN "BETTING_OPEN" ELSE "LOCKED"
        BY <1>1, <1>4, <2>2, <3>2, Order DEF Syncs, StatusAfter
      <4> QED BY <1>3, <4>1 DEF Past, InDispute
    <3>3. CASE step \in {"lock", "propose", "finalize"}
      <4>1. h.kind = "end" /\ market' = market /\ Closed(c, d)
        BY <1>4, <1>5, <1>3, <2>2, <2>4, <3>3 DEF Syncs
      <4>2. StatusOf(c, d) # "CANCELLED"
        BY <1>8, <3>3 DEF Accepted, Upsertable
      <4>3. market'[c][d] # "OPEN"
        BY <4>1, <4>2 DEF Closed
      <4>4. StatusOf(c, d)' \in {"LOCKED", "PROPOSED", "RESOLVED"}
        BY <2>2, <3>3 DEF StatusAfter, Syncs
      <4> QED BY <4>1, <4>3, <4>4 DEF Closed, Past
    <3> QED BY <1>1, <3>1, <3>2, <3>3 DEF Transactions, Syncs
  <2> HIDE DEF next
  <2> QED BY <1>1, <1>2, <2>1, <2>2, <2>3, <2>4, <1>b, OneJob, SMTT(30), ZenonT(60)
<1>9. CASE ~Skips(c) /\ ~Accepted(c, step, h)
  <2>1. Kept /\ job' = [job EXCEPT ![c] = "failed"]
    BY <1>9, <1>b, <1>c DEF Transact
  <2>2. "failed" \in Steps \ {"idle", "upsert", "create"}
    BY DEF Steps
  <2>3. ASSUME <<c, d>> \notin hurt, h.kind = "lock"
        PROVE  Closed(c, d)
    <3>1. CASE step = "upsert"
      <4>1. StatusOf(c, d) \notin {"NULL", "BETTING_OPEN", "LOCKED"}
        BY <1>9, <2>3, <3>1 DEF Accepted, Upsertable
      <4> QED BY <1>2, <2>3, <4>1 DEF ReportedClosed, Closed, OracleStatus, InDispute
    <3>2. CASE step = "create"
      <4>1. StatusOf(c, d) \notin {"BETTING_OPEN", "LOCKED"} /\ Past(c, d)
        BY <1>2, <1>9, <1>c, <2>3, <3>2 DEF Accepted, JobInv
      <4> QED BY <1>2, <2>3, <4>1 DEF ReportedClosed, Closed, OracleStatus, InDispute, Past
    <3>3. CASE step = "sync"
      <4>1. market[c][d] = "NULL"
        BY <1>9, <3>3 DEF Accepted
      <4> QED BY <4>1 DEF Closed
    <3> QED BY <1>4, <2>3, <3>1, <3>2, <3>3
  <2>4. <<c, d>> \notin hurt' =>
         /\ StatusOf(c, d)' \in InDispute \cup {"RESOLVED"} => market'[c][d] # "OPEN"
         /\ h.kind = "lock" => Closed(c, d)'
         /\ h.kind = "end" => Closed(c, d)'
    BY <1>1, <1>2, <1>5, <1>6, <2>1, <2>3 DEF ReportedClosed
  <2> QED BY <1>1, <1>2, <2>1, <2>2, <2>4, <1>b, OneJob
<1> QED BY <1>7, <1>8, <1>9

\* A request or a transaction that fails: the duel counts as hurt on this
\* chain, and the others are left alone.
LEMMA FailureChain ==
    ASSUME KeeperInv, todo # <<>>, NEW c \in chains, TransactionFails(c)
    PROVE  ChainInv' /\ BettingClosedAfterLock'
<1>a. Head(todo) \in Handler
  BY RunningHandler DEF KeeperInv
<1>b. PICK h \in Handler : h = Head(todo)
  BY <1>a
<1>c. PICK step : step = job[c]
  OBVIOUS
<1> DEFINE d == h.duel
<1>1. /\ step \in Transactions \cup {"read"}
      /\ UNCHANGED <<chains, client, todo, locks>>
      /\ hurt' = hurt \cup {<<c, d>>}
  BY <1>b, <1>c DEF TransactionFails, world
<1>2. /\ MemoryInv /\ ChainInv /\ JobInv(c, h)
      /\ oracle \in Oracles /\ market \in Markets /\ hurt' \subseteq Chains \X Duels
      /\ d \in Duels /\ c \in Chains
  BY <1>1, <1>b, RunningHandler, Bounds DEF KeeperInv, ChainInv, MemoryInv, Handler
<1>3. /\ h.kind # "end" /\ step # "read" => step \in {"upsert", "create", "sync"}
      /\ h.kind = "end" /\ step # "read" =>
           step \in {"sync", "lock", "lockSync", "propose", "proposeSync", "finalize"}
  BY <1>1, <1>2, <1>c DEF JobInv, Transactions
<1>4. "failed" \in Steps \ {"idle", "upsert", "create"}
  BY DEF Steps
<1>5. <<c, d>> \in hurt'
  BY <1>1
<1>6. CASE UNCHANGED <<oracle, market>> /\ job' = [job EXCEPT ![c] = "failed"]
  BY <1>1, <1>2, <1>4, <1>5, <1>6, <1>b, OneJob
<1>7. CASE /\ step # "read"
           /\ \/ Effect(c, step, h) /\ job' = [job EXCEPT ![c] = "failed"]
              \/ UNCHANGED <<oracle, market>> /\ job' = [job EXCEPT ![c] = Following(step)]
  <2> DEFINE next == Following(step)
  <2>1. step \in Transactions
    BY <1>1, <1>7
  <2>2. /\ next \in Steps
        /\ h.kind # "end" => next \in {"create", "sync", "done"}
        /\ h.kind = "end" => next \in Steps \ {"idle", "upsert", "create"}
    BY <1>3, <1>7, <2>1, Order
  <2> HIDE DEF next
  <2>3. CASE Effect(c, step, h) /\ job' = [job EXCEPT ![c] = "failed"]
    <3>1. /\ oracle' \in Oracles /\ market' \in Markets
          /\ \A c2 \in Chains, d2 \in Duels :
                <<c2, d2>> # <<c, d>> => oracle'[c2][d2] = oracle[c2][d2] /\ market'[c2][d2] = market[c2][d2]
      BY <1>2, <2>1, <2>3, EffectOf
    <3> QED BY <1>1, <1>2, <1>4, <1>5, <1>b, <2>3, <3>1, OneJob
  <2>4. CASE UNCHANGED <<oracle, market>> /\ job' = [job EXCEPT ![c] = next]
    BY <1>1, <1>2, <1>5, <1>b, <2>2, <2>4, OneJob
  <2> QED BY <1>7, <2>3, <2>4 DEF next
<1> QED BY <1>6, <1>7, <1>b, <1>c DEF TransactionFails

\* Steps that leave the chains alone and keep the handlers that were run: the
\* next handler starts with fresh jobs.
LEMMA HandoverChain ==
    ASSUME KeeperInv, MemoryInv', LocksInv', UNCHANGED <<chains, oracle, market>>, hurt' = hurt,
           todo' # <<>> => job' = AllAt("read"), todo' = <<>> => job' = AllAt("idle"),
           \A d \in ToSet(locks)' \ ToSet(locks) : Running("lock")' /\ Head(todo)'.duel = d,
           todo # <<>> => \A c \in chains : job[c] \in {"done", "failed"}
    PROVE  ChainInv' /\ BettingClosedAfterLock'
<1>1. /\ MemoryInv /\ ChainInv /\ BettingClosedAfterLock /\ \A c \in chains : c \in Chains
  BY Bounds DEF KeeperInv, MemoryInv
<1>2. /\ job' \in [Chains -> Steps]
      /\ todo' # <<>> => \A c \in Chains : job'[c] = "read"
  BY DEF AllAt, Steps
<1>3. \A c \in chains, d \in Duels : ReportedClosed(c, d)'
  BY <1>1 DEF ChainInv, ReportedClosed, StatusOf
<1>4. todo' # <<>> => \A c \in chains : JobInv(c, Head(todo))'
  BY <1>1, <1>2 DEF JobInv, Steps
<1>5. ChainInv'
  BY <1>1, <1>2, <1>3, <1>4 DEF ChainInv, AllAt
<1>6. BettingClosedAfterLock'
  <2> SUFFICES ASSUME NEW c \in chains, NEW d \in ToSet(locks)', <<c, d>> \notin hurt,
                      ~(Running("lock")' /\ Head(todo)'.duel = d)
               PROVE  market[c][d] # "OPEN" \/ StatusOf(c, d) = "CANCELLED"
    BY DEF BettingClosedAfterLock, Running, StatusOf
  <2>1. d \in ToSet(locks)
    OBVIOUS
  <2>2. CASE todo # <<>> /\ Head(todo).kind = "lock" /\ Head(todo).duel = d
    <3>1. JobInv(c, Head(todo)) /\ job[c] \in {"done", "failed"}
      BY <1>1, <2>2 DEF ChainInv
    <3> QED BY <2>2, <3>1 DEF JobInv, Closed
  <2>3. CASE ~(todo # <<>> /\ Head(todo).kind = "lock" /\ Head(todo).duel = d)
    BY <1>1, <2>1, <2>3 DEF BettingClosedAfterLock
  <2> QED BY <2>2, <2>3
<1> QED BY <1>5, <1>6

\* The challenger, the pauser and time never reopen a market.
LEMMA OthersChain ==
    ASSUME KeeperInv, OthersMove
    PROVE  ChainInv' /\ BettingClosedAfterLock'
<1>1. /\ MemoryInv /\ LocksInv /\ ChainInv /\ BettingClosedAfterLock /\ \A c \in chains : c \in Chains
      /\ oracle \in Oracles /\ UNCHANGED <<chains, client, todo, job, market, hurt, locks>>
  BY Bounds DEF KeeperInv, MemoryInv, ChainInv, OthersMove, world
<1>2. PICK c \in chains, d \in Duels :
          \/ StatusOf(c, d) = "PROPOSED" /\ oracle' = [oracle EXCEPT ![c][d].status = "CHALLENGED"]
          \/ StatusOf(c, d) = "PROPOSED" /\ oracle' = [oracle EXCEPT ![c][d].window = FALSE]
          \/ /\ StatusOf(c, d) \notin Settled \cup {"NULL"}
             /\ oracle' = [oracle EXCEPT ![c][d] = [status |-> "CANCELLED", window |-> FALSE]]
  BY DEF OthersMove
<1>3. /\ oracle' \in Oracles
      /\ \A c2 \in Chains, d2 \in Duels : <<c2, d2>> # <<c, d>> => oracle'[c2][d2] = oracle[c2][d2]
      /\ \/ StatusOf(c, d) = "PROPOSED" /\ StatusOf(c, d)' \in {"PROPOSED", "CHALLENGED"}
         \/ StatusOf(c, d) # "CANCELLED" /\ StatusOf(c, d)' = "CANCELLED"
  <2>1. c \in Chains /\ d \in Duels
    BY <1>1
  <2>2. {"CHALLENGED", "CANCELLED", "PROPOSED"} \subseteq OracleStatus
    BY DEF OracleStatus
  <2>3. oracle[c][d] \in [status : OracleStatus, window : BOOLEAN]
    BY <1>1, <2>1 DEF Oracles
  <2>4. CASE StatusOf(c, d) = "PROPOSED" /\ oracle' = [oracle EXCEPT ![c][d].status = "CHALLENGED"]
    BY <1>1, <2>1, <2>2, <2>3, <2>4 DEF Oracles, StatusOf
  <2>5. CASE StatusOf(c, d) = "PROPOSED" /\ oracle' = [oracle EXCEPT ![c][d].window = FALSE]
    BY <1>1, <2>1, <2>2, <2>3, <2>5 DEF Oracles, StatusOf
  <2>6. CASE /\ StatusOf(c, d) \notin Settled \cup {"NULL"}
             /\ oracle' = [oracle EXCEPT ![c][d] = [status |-> "CANCELLED", window |-> FALSE]]
    BY <1>1, <2>1, <2>2, <2>3, <2>6 DEF Oracles, StatusOf, Settled
  <2> QED BY <1>2, <2>4, <2>5, <2>6
<1>4. \A c2 \in chains, d2 \in Duels :
         /\ Past(c2, d2) => Past(c2, d2)'
         /\ Closed(c2, d2) => Closed(c2, d2)'
         /\ ReportedClosed(c2, d2) => ReportedClosed(c2, d2)'
  <2> SUFFICES ASSUME NEW c2 \in chains, NEW d2 \in Duels
               PROVE  /\ Past(c2, d2) => Past(c2, d2)'
                      /\ Closed(c2, d2) => Closed(c2, d2)'
                      /\ ReportedClosed(c2, d2) => ReportedClosed(c2, d2)'
    OBVIOUS
  <2>1. CASE <<c2, d2>> = <<c, d>>
    BY <1>1, <1>3, <2>1 DEF Past, Closed, ReportedClosed, InDispute
  <2>2. CASE <<c2, d2>> # <<c, d>>
    <3>1. StatusOf(c2, d2)' = StatusOf(c2, d2)
      BY <1>1, <1>3, <2>2 DEF StatusOf
    <3> QED BY <1>1, <3>1 DEF Past, Closed, ReportedClosed
  <2> QED BY <2>1, <2>2
<1>5. todo # <<>> => \A c2 \in chains : JobInv(c2, Head(todo))'
  <2> SUFFICES ASSUME todo # <<>>, NEW c2 \in chains PROVE JobInv(c2, Head(todo))'
    OBVIOUS
  <2>1. Head(todo).duel \in Duels /\ JobInv(c2, Head(todo))
    BY <1>1, RunningHandler DEF ChainInv
  <2> QED BY <1>1, <1>4, <2>1 DEF JobInv
<1>6. ChainInv'
  BY <1>1, <1>3, <1>4, <1>5 DEF ChainInv
<1>7. BettingClosedAfterLock'
  <2>1. \A d2 \in ToSet(locks) : d2 \in Duels
    BY <1>1, ElementOfSeq, LenProperties DEF LocksInv, ToSet
  <2> QED BY <1>1, <1>4, <2>1 DEF BettingClosedAfterLock, Closed
<1> QED BY <1>6, <1>7

-----------------------------------------------------------------------------
\* A keeper that has just started satisfies the invariant.
LEMMA InitKeeper == Init => KeeperInv
<1> SUFFICES ASSUME Init PROVE KeeperInv
  OBVIOUS
<1>1. /\ todo = <<>> /\ locks = <<>> /\ client = NewClient /\ Cycles \in Nat
      /\ Len(todo) = 0 /\ Len(locks) = 0 /\ locks \in Seq(Duels) /\ todo \in Seq(Handler)
      /\ Cycles # 0
  BY Bounds, EmptySeq DEF Init
<1>2. MemoryInv
  <2>1. game.cycle = 1 /\ game \in [cycle : Duels, phase : Phases, evidence : BOOLEAN]
    BY <1>1, KeeperAssumption DEF Init, Duels, Phases
  <2> QED BY <1>1, <2>1 DEF Init, MemoryInv, NewClient, Phases, Calls, Ordered, IsLockedPhase
<1>3. LocksInv /\ BettingClosedAfterLock
  <2>1. ToSet(locks) = {} /\ DOMAIN locks = {}
    BY <1>1 DEF ToSet
  <2> QED BY <1>1, <2>1 DEF LocksInv, LockedOnceInOrder, BettingClosedAfterLock, NewClient
<1>4. ChainInv
  <2>1. oracle \in Oracles /\ market \in Markets /\ job \in [Chains -> Steps]
    BY DEF Init, Oracles, Markets, OracleStatus, MarketStatus, AllAt, Steps
  <2>2. \A c \in chains, d \in Duels : ReportedClosed(c, d)
    BY Bounds DEF Init, ReportedClosed, StatusOf, InDispute
  <2>3. \A c \in chains : c \in Chains
    BY Bounds DEF Init
  <2> QED BY <1>1, <2>1, <2>2, <2>3 DEF ChainInv, Init, AllAt
<1> QED BY <1>2, <1>3, <1>4 DEF KeeperInv

\* Steps that leave the client's memory and its handlers alone leave what the
\* memory says of them alone.
LEMMA SameMemory ==
    ASSUME MemoryInv, LocksInv, UNCHANGED <<chains, client, todo, locks>>,
           game' \in [cycle : Duels, phase : Phases, evidence : BOOLEAN], game'.cycle >= game.cycle
    PROVE  MemoryInv' /\ LocksInv'
<1>1. game.cycle \in 1..Cycles /\ game'.cycle \in 1..Cycles /\ client.cycle \in 0..Cycles /\ Cycles \in Nat
  BY Bounds DEF MemoryInv, Duels
<1>2. client.cycle <= game'.cycle
  BY <1>1 DEF MemoryInv
<1> QED BY <1>2 DEF MemoryInv, LocksInv, LockedOnceInOrder, Pending, Running, Ran, IsLockedPhase

\* No step of the game, the stream, a handler or a chain job breaks it.
LEMMA StepKeeper ==
    ASSUME KeeperInv, [Next]_vars
    PROVE  KeeperInv'
<1>1. /\ MemoryInv /\ LocksInv /\ ChainInv /\ BettingClosedAfterLock
      /\ \A c \in chains : c \in Chains
      /\ game \in [cycle : Duels, phase : Phases, evidence : BOOLEAN]
      /\ game.cycle \in 1..Cycles /\ Cycles \in Nat
      /\ locks \in Seq(Duels) /\ client.cycle <= game.cycle
  BY Bounds DEF KeeperInv, MemoryInv, LocksInv, Duels
<1>2. ASSUME UNCHANGED <<chains, game, client, todo, locks>>
      PROVE  MemoryInv' /\ LocksInv'
  BY <1>1, <1>2, SameMemory
<1>4. CASE Poll
  <2>1. MemoryInv' /\ LocksInv'
    BY <1>1, <1>4, PollLocks
  <2> DEFINE calls == Handlers(client).calls
  <2>2. /\ todo = <<>> /\ todo' = calls /\ job' = Begin(calls) /\ locks' = locks \o LocksOf(calls)
        /\ UNCHANGED <<chains, oracle, market, hurt>>
    BY <1>4 DEF Poll, world
  <2>3. Calls(calls, game.cycle) /\ game.cycle \in Duels
    BY <1>1, PollCalls DEF Duels
  <2> HIDE DEF calls
  <2>4. /\ locks' \in Seq(Duels)
        /\ calls # <<>> /\ calls[1].kind = "lock" =>
             /\ Len(locks') = Len(locks) + 1 /\ locks'[Len(locks) + 1] = game.cycle
             /\ \A i \in 1..Len(locks) : locks'[i] = locks[i]
        /\ ~(calls # <<>> /\ calls[1].kind = "lock") => locks' = locks
    BY <1>1, <2>2, <2>3, LocksGrow
  <2>5. \A d \in ToSet(locks)' \ ToSet(locks) : Running("lock")' /\ Head(todo)'.duel = d
    <3> SUFFICES ASSUME NEW d \in ToSet(locks)' \ ToSet(locks)
                 PROVE  Running("lock")' /\ Head(todo)'.duel = d
      OBVIOUS
    <3>1. calls # <<>> /\ calls[1].kind = "lock"
      BY <2>4 DEF ToSet
    <3>2. DOMAIN locks' = 1..Len(locks') /\ DOMAIN locks = 1..Len(locks) /\ Len(locks) \in Nat
      BY <1>1, <2>4, LenProperties
    <3>3. PICK i \in 1..Len(locks') : locks'[i] = d
      BY <3>2 DEF ToSet
    <3>4. i \notin 1..Len(locks)
      BY <2>4, <3>1, <3>2, <3>3 DEF ToSet
    <3>5. i = Len(locks) + 1
      BY <2>4, <3>1, <3>2, <3>3, <3>4
    <3>6. Head(calls) = calls[1] /\ Head(calls).duel = game.cycle
      BY <2>3, <3>1, TailCalls
    <3> QED BY <2>2, <2>4, <3>1, <3>3, <3>5, <3>6 DEF Running
  <2>6. /\ todo' # <<>> => job' = AllAt("read")
        /\ todo' = <<>> => job' = AllAt("idle")
    BY <2>2 DEF Begin
  <2> QED BY <2>1, <2>2, <2>5, <2>6, HandoverChain DEF KeeperInv
<1>5. CASE HandlerReturns
  <2>1. MemoryInv' /\ LocksInv'
    BY <1>1, <1>5, ReturnLocks
  <2> DEFINE calls == Tail(todo)
  <2>2. /\ todo # <<>> /\ todo' = calls /\ job' = Begin(calls) /\ locks' = locks \o LocksOf(calls)
        /\ UNCHANGED <<chains, oracle, market, hurt>>
        /\ \A c \in chains : job[c] \in {"done", "failed"}
    BY <1>5 DEF HandlerReturns, world
  <2>3. Calls(calls, client.cycle) /\ client.cycle \in Duels
    BY <1>1, <2>2, TailCalls, RunningHandler DEF MemoryInv
  <2> HIDE DEF calls
  <2>4. /\ locks' \in Seq(Duels)
        /\ calls # <<>> /\ calls[1].kind = "lock" =>
             /\ Len(locks') = Len(locks) + 1 /\ locks'[Len(locks) + 1] = client.cycle
             /\ \A i \in 1..Len(locks) : locks'[i] = locks[i]
        /\ ~(calls # <<>> /\ calls[1].kind = "lock") => locks' = locks
    BY <1>1, <2>2, <2>3, LocksGrow
  <2>5. \A d \in ToSet(locks)' \ ToSet(locks) : Running("lock")' /\ Head(todo)'.duel = d
    <3> SUFFICES ASSUME NEW d \in ToSet(locks)' \ ToSet(locks)
                 PROVE  Running("lock")' /\ Head(todo)'.duel = d
      OBVIOUS
    <3>1. calls # <<>> /\ calls[1].kind = "lock"
      BY <2>4 DEF ToSet
    <3>2. DOMAIN locks' = 1..Len(locks') /\ DOMAIN locks = 1..Len(locks) /\ Len(locks) \in Nat
      BY <1>1, <2>4, LenProperties
    <3>3. PICK i \in 1..Len(locks') : locks'[i] = d
      BY <3>2 DEF ToSet
    <3>4. i \notin 1..Len(locks)
      BY <2>4, <3>1, <3>2, <3>3 DEF ToSet
    <3>5. i = Len(locks) + 1
      BY <2>4, <3>1, <3>2, <3>3, <3>4
    <3>6. Head(calls) = calls[1] /\ Head(calls).duel = client.cycle
      BY <2>3, <3>1, TailCalls
    <3> QED BY <2>2, <2>4, <3>1, <3>3, <3>5, <3>6 DEF Running
  <2>6. /\ todo' # <<>> => job' = AllAt("read")
        /\ todo' = <<>> => job' = AllAt("idle")
    BY <2>2 DEF Begin
  <2> QED BY <2>1, <2>2, <2>5, <2>6, HandoverChain DEF KeeperInv
<1>6. ASSUME NEW c \in chains, Read(c) \/ Transact(c) \/ TransactionFails(c)
      PROVE  KeeperInv'
  <2>1. todo # <<>>
    <3>1. job[c] # "idle"
      BY <1>6 DEF Read, Transact, TransactionFails, Transactions
    <3> QED BY <1>1, <3>1 DEF ChainInv
  <2>2. MemoryInv' /\ LocksInv'
    BY <1>2, <1>6 DEF Read, Transact, TransactionFails, world
  <2>3. ChainInv' /\ BettingClosedAfterLock'
    BY <1>6, <2>1, ReadChain, TransactChain, FailureChain
  <2> QED BY <2>2, <2>3 DEF KeeperInv
<1>7. CASE EndAborted
  <2> DEFINE d == Head(todo).duel
  <2>1. /\ todo # <<>> /\ Head(todo).kind = "end" /\ job' = AllAt("failed")
        /\ hurt' = hurt \cup {<<c, d>> : c \in Chains}
        /\ UNCHANGED <<chains, game, client, todo, oracle, market, locks>>
    BY <1>7 DEF EndAborted, world
  <2>2. d \in Duels
    BY <1>1, <2>1, RunningHandler
  <2>3. \A c \in chains, d2 \in Duels : ReportedClosed(c, d2)'
    BY <1>1, <2>1 DEF ChainInv, ReportedClosed, StatusOf
  <2>4. \A c \in Chains : job'[c] = "failed"
    BY <2>1 DEF AllAt
  <2>5. \A c \in chains : JobInv(c, Head(todo))'
    BY <1>1, <2>1, <2>4 DEF JobInv, Steps
  <2>6. ChainInv'
    BY <1>1, <2>1, <2>2, <2>3, <2>5 DEF ChainInv, AllAt, Steps
  <2>7. BettingClosedAfterLock'
    BY <1>1, <2>1 DEF BettingClosedAfterLock, StatusOf
  <2> QED BY <1>2, <2>1, <2>6, <2>7 DEF KeeperInv
<1>8. CASE Crash
  <2>1. /\ todo' = <<>> /\ locks' = <<>> /\ client' = NewClient /\ job' = AllAt("idle")
        /\ UNCHANGED <<chains, game, oracle, market, hurt>>
    BY <1>8 DEF Crash
  <2>2. Len(todo') = 0 /\ Len(locks') = 0 /\ locks' \in Seq(Duels) /\ todo' \in Seq(Handler)
    BY <2>1, EmptySeq
  <2>3. MemoryInv'
    BY <1>1, <2>1, <2>2 DEF MemoryInv, NewClient, Phases, Calls, Ordered, IsLockedPhase
  <2>4. LocksInv' /\ BettingClosedAfterLock'
    <3>1. ToSet(locks)' = {} /\ DOMAIN locks' = {}
      BY <2>1, <2>2 DEF ToSet
    <3> QED BY <2>1, <2>2, <3>1 DEF LocksInv, LockedOnceInOrder, BettingClosedAfterLock, NewClient
  <2>5. ChainInv'
    BY <1>1, <2>1 DEF ChainInv, ReportedClosed, StatusOf, AllAt, Steps
  <2> QED BY <2>3, <2>4, <2>5 DEF KeeperInv
<1>9. CASE GameMoves \/ StreamRewinds
  <2>1. UNCHANGED <<chains, client, todo, job, oracle, market, hurt, locks>>
    BY <1>9 DEF GameMoves, StreamRewinds
  <2>2. game' \in [cycle : Duels, phase : Phases, evidence : BOOLEAN] /\ game'.cycle >= game.cycle
    <3>1. CASE game'.cycle = game.cycle /\ game' \in [cycle : Duels, phase : Phases, evidence : BOOLEAN]
      BY <1>1, <3>1
    <3>2. CASE game' = [cycle |-> game.cycle + 1, phase |-> "ANNOUNCEMENT", evidence |-> FALSE]
               /\ game.cycle < Cycles
      BY <1>1, <3>2 DEF Duels, Phases
    <3> QED BY <1>1, <1>9, <3>1, <3>2 DEF GameMoves, StreamRewinds, Phases
  <2>3. MemoryInv' /\ LocksInv'
    BY <1>1, <2>1, <2>2, SameMemory
  <2>4. ChainInv'
    BY <1>1, <2>1 DEF ChainInv, ReportedClosed, StatusOf, JobInv, Past, Closed
  <2>5. BettingClosedAfterLock'
    BY <1>1, <2>1 DEF BettingClosedAfterLock, StatusOf
  <2> QED BY <2>3, <2>4, <2>5 DEF KeeperInv
<1>10. CASE OthersMove
  <2>1. MemoryInv' /\ LocksInv'
    BY <1>2, <1>10 DEF OthersMove, world
  <2> QED BY <1>10, <2>1, OthersChain DEF KeeperInv
<1>11. CASE UNCHANGED vars
  <2>1. MemoryInv' /\ LocksInv'
    BY <1>2, <1>11 DEF vars
  <2>2. ChainInv' /\ BettingClosedAfterLock'
    BY <1>1, <1>11 DEF vars, ChainInv, ReportedClosed, StatusOf, JobInv, Past, Closed, BettingClosedAfterLock
  <2> QED BY <2>1, <2>2 DEF KeeperInv
<1> QED BY <1>4, <1>5, <1>6, <1>7, <1>8, <1>9, <1>10, <1>11 DEF Next, KeeperStep

\* The invariant the other theorems about the keeper rest on.
THEOREM KeeperInvariant == Spec => []KeeperInv
<1>1. KeeperInv /\ [Next]_vars => KeeperInv'
  BY StepKeeper
<1> QED BY <1>1, InitKeeper, PTL DEF Spec

\* No process locks a duel twice or out of order, also when the stream goes
\* back a phase.
THEOREM LocksInOrder == Spec => []LockedOnceInOrder
<1>1. KeeperInv => LockedOnceInOrder
  BY DEF KeeperInv, LocksInv
<1> QED BY <1>1, KeeperInvariant, PTL

\* After its lock handler has returned, betting on a duel is closed wherever
\* nothing failed.
THEOREM LockClosesBetting == Spec => []BettingClosedAfterLock
<1>1. KeeperInv => BettingClosedAfterLock
  BY DEF KeeperInv
<1> QED BY <1>1, KeeperInvariant, PTL
=============================================================================
