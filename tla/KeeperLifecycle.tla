-------------------------- MODULE KeeperLifecycle --------------------------
(***************************************************************************)
(* The keeper bot on the EVM chains (hyperbet-evm/keeper/src: bot.ts,      *)
(* game-client.ts).                                                        *)
(*                                                                         *)
(* GameClient polls the streamed cycle and calls three handlers: a duel    *)
(* starts, its betting is locked, it ends.  A poll is in flight until its  *)
(* handlers have returned.  Each handler runs one job per chain, of reads  *)
(* and transactions that are awaited one by one; the jobs of a handler     *)
(* interleave, and one that fails leaves the others alone.  What the       *)
(* client has seen is kept in memory only.  The oracle and the order book  *)
(* of a chain are reduced to the status of each duel and its market, with  *)
(* the guards of DuelOracle and GoldClob; the game, the challenger and the *)
(* pauser are external.                                                    *)
(***************************************************************************)
EXTENDS Naturals, Sequences, FiniteSets, SequencesExt

CONSTANTS
    Deployments,    \* the sets of chains the bot may be configured for
    Cycles,         \* bound: number of duels the game runs
    MaxJobs,        \* bound: duels times chains
    MaxCrashes,     \* bound: crashes of the bot
    MaxFailures,    \* bound: transactions that fail or are not confirmed
    MaxRewinds,     \* bound: times the stream goes back a phase
    DeferFinalize,  \* EVM_KEEPER_DEFER_FINALIZE
    HasFinalizer    \* whether the finalizer's key is configured

ASSUME KeeperAssumption ==
    /\ Cycles \in Nat \ {0}  \* the stream names a duel from the first poll on
    /\ {MaxJobs, MaxCrashes, MaxFailures, MaxRewinds} \subseteq Nat
    /\ {DeferFinalize, HasFinalizer} \subseteq BOOLEAN

VARIABLES
    chains,     \* evmKeeperChains
    game,       \* the streamed cycle: its number, phase, and whether its evidence is complete
    client,     \* GameClient's memory
    todo,       \* handlers of the poll in flight, the running one first
    job,        \* per chain, the step of the running handler
    oracle,     \* per chain and duel, status and whether the dispute window is open
    market,     \* per chain and duel, the market's status
    crashes, failures, rewinds,
    shown,      \* history: duels whose complete evidence a poll has read
    hurt,       \* history: chain and duel of a job that failed for a reason of its own
    locks       \* history: duels this process has run the lock handler for, in order

vars == <<chains, game, client, todo, job, oracle, market, crashes, failures, rewinds,
          shown, hurt, locks>>
world == <<chains, game, crashes, rewinds>>

Chains == UNION Deployments
Duels == 1..Cycles
Phases == {"ANNOUNCEMENT", "FIGHTING", "RESOLUTION"}
OracleStatus == {"NULL", "BETTING_OPEN", "LOCKED", "PROPOSED", "CHALLENGED", "RESOLVED", "CANCELLED"}
MarketStatus == {"NULL", "OPEN", "LOCKED", "RESOLVED", "CANCELLED"}
InDispute == {"PROPOSED", "CHALLENGED"}
Settled == {"RESOLVED", "CANCELLED"}

Handler == [kind : {"start", "lock", "end"}, duel : Duels, evidence : BOOLEAN]
Steps == {"idle", "read", "upsert", "create", "sync", "lock", "lockSync", "propose",
          "proposeSync", "finalize", "done", "failed"}

TypeOK ==
    /\ chains \in Deployments
    /\ game \in [cycle : Duels, phase : Phases, evidence : BOOLEAN]
    /\ client \in [cycle : 0..Cycles, phase : Phases, locked : 0..Cycles,
                   ended : {"none", "bare", "full"}]
    /\ todo \in Seq(Handler) /\ Len(todo) <= 3
    /\ job \in [Chains -> Steps]
    /\ oracle \in [Chains -> [Duels -> [status : OracleStatus, window : BOOLEAN]]]
    /\ market \in [Chains -> [Duels -> MarketStatus]]
    /\ crashes \in 0..MaxCrashes /\ failures \in 0..MaxFailures /\ rewinds \in 0..MaxRewinds
    /\ shown \subseteq Duels /\ hurt \subseteq Chains \X Duels
    /\ locks \in Seq(Duels)

NewClient == [cycle |-> 0, phase |-> "ANNOUNCEMENT", locked |-> 0, ended |-> "none"]
AllAt(step) == [c \in Chains |-> step]

Init ==
    /\ chains \in Deployments
    /\ game = [cycle |-> 1, phase |-> "ANNOUNCEMENT", evidence |-> FALSE]
    /\ client = NewClient
    /\ todo = <<>>
    /\ job = AllAt("idle")
    /\ oracle = [c \in Chains |-> [d \in Duels |-> [status |-> "NULL", window |-> FALSE]]]
    /\ market = [c \in Chains |-> [d \in Duels |-> "NULL"]]
    /\ crashes = 0 /\ failures = 0 /\ rewinds = 0
    /\ shown = {} /\ hurt = {} /\ locks = <<>>

----
\* The game and the stream.  Seed and replay hash may come after the phase.
GameMoves ==
    /\ \/ /\ game.phase = "ANNOUNCEMENT"
          /\ game' = [game EXCEPT !.phase = "FIGHTING"]
       \/ /\ game.phase = "FIGHTING"
          /\ \E evidence \in BOOLEAN :
                game' = [game EXCEPT !.phase = "RESOLUTION", !.evidence = evidence]
       \/ /\ game.phase = "RESOLUTION" /\ ~game.evidence
          /\ game' = [game EXCEPT !.evidence = TRUE]
       \/ /\ game.phase = "RESOLUTION" /\ game.cycle < Cycles
          /\ (game.cycle + 1) * Cardinality(chains) <= MaxJobs
          /\ game' = [cycle |-> game.cycle + 1, phase |-> "ANNOUNCEMENT", evidence |-> FALSE]
    /\ UNCHANGED <<chains, client, todo, job, oracle, market, crashes, failures, rewinds,
                   shown, hurt, locks>>

StreamRewinds ==
    /\ rewinds < MaxRewinds
    /\ rewinds' = rewinds + 1
    /\ game.phase # "ANNOUNCEMENT"
    /\ game' = [game EXCEPT !.phase = IF @ = "RESOLUTION" THEN "FIGHTING" ELSE "ANNOUNCEMENT",
                            !.evidence = FALSE]
    /\ UNCHANGED <<chains, client, todo, job, oracle, market, crashes, failures, shown, hurt, locks>>

----
\* GameClient.
IsLockedPhase(phase) == phase \in {"FIGHTING", "RESOLUTION"}

\* resolutionEventKey: the same duel ends again when its evidence arrives.
EventKey_Cycle(evidence) == "full"  \* mutant: the key is the cycle's alone

EventKey(evidence) == IF evidence THEN "full" ELSE "bare"

\* emitBettingLocked runs once per cycle.
LocksNow_OnTransition(mem) == TRUE  \* mutant

LocksNow(mem) == mem.locked # game.cycle

Call(kind) == [kind |-> kind, duel |-> game.cycle, evidence |-> game.evidence]

\* The handlers a poll calls, and what the client remembers afterwards.
Handlers(mem) ==
    LET fresh == game.cycle # mem.cycle
        known == IF fresh THEN [NewClient EXCEPT !.cycle = game.cycle] ELSE mem
        lock  == IsLockedPhase(game.phase) /\ ~IsLockedPhase(known.phase) /\ LocksNow(known)
        end   == game.phase = "RESOLUTION" /\ EventKey(game.evidence) # known.ended
    IN  [calls |-> (IF fresh THEN <<Call("start")>> ELSE <<>>)
                   \o (IF lock THEN <<Call("lock")>> ELSE <<>>)
                   \o (IF end THEN <<Call("end")>> ELSE <<>>),
         mem   |-> [known EXCEPT !.phase = game.phase,
                                 !.locked = IF lock THEN game.cycle ELSE @,
                                 !.ended = IF end THEN EventKey(game.evidence) ELSE @]]

LocksOf(calls) == IF calls # <<>> /\ Head(calls).kind = "lock" THEN <<Head(calls).duel>> ELSE <<>>
Begin(calls) == AllAt(IF calls = <<>> THEN "idle" ELSE "read")

Poll ==
    LET poll == Handlers(client)
    IN  /\ todo = <<>>
        /\ client' = poll.mem
        /\ todo' = poll.calls
        /\ job' = Begin(poll.calls)
        /\ locks' = locks \o LocksOf(poll.calls)
        /\ shown' = shown \cup (IF game.phase = "RESOLUTION" /\ game.evidence THEN {game.cycle} ELSE {})
        /\ UNCHANGED <<world, oracle, market, failures, hurt>>

----
\* The contracts, as far as the jobs touch them: what a transaction makes of
\* a duel or market, or that it reverts.
StatusOf(c, d) == oracle[c][d].status
Upsertable(c, d, status) ==
    StatusOf(c, d) \in {"NULL", "BETTING_OPEN"} \cup (IF status = "LOCKED" THEN {"LOCKED"} ELSE {})

MarketOf(status) ==
    CASE status = "BETTING_OPEN" -> "OPEN" [] status \in {"LOCKED", "PROPOSED", "CHALLENGED"} -> "LOCKED"
      [] status = "RESOLVED" -> "RESOLVED" [] status = "CANCELLED" -> "CANCELLED" [] OTHER -> "NULL"

Set(c, d, status) ==
    /\ oracle' = [oracle EXCEPT ![c][d] = [status |-> status, window |-> status = "PROPOSED"]]
    /\ UNCHANGED market

Sync(c, d) ==
    /\ market' = [market EXCEPT ![c][d] = MarketOf(StatusOf(c, d))]
    /\ UNCHANGED oracle

\* What the transaction of a step needs and does.
Accepted(c, step, h) ==
    CASE step = "upsert" -> Upsertable(c, h.duel, IF h.kind = "start" THEN "BETTING_OPEN" ELSE "LOCKED")
      [] step = "create" -> StatusOf(c, h.duel) \in {"BETTING_OPEN", "LOCKED"}
      [] step \in {"sync", "lockSync", "proposeSync"} -> market[c][h.duel] # "NULL"
      [] step = "lock" -> Upsertable(c, h.duel, "LOCKED")
      [] step = "propose" -> StatusOf(c, h.duel) = "LOCKED"
      [] step = "finalize" -> StatusOf(c, h.duel) = "PROPOSED" /\ ~oracle[c][h.duel].window

Effect(c, step, h) ==
    CASE step = "upsert" -> Set(c, h.duel, IF h.kind = "start" THEN "BETTING_OPEN" ELSE "LOCKED")
      [] step \in {"create", "sync", "lockSync", "proposeSync"} -> Sync(c, h.duel)
      [] step = "lock" -> Set(c, h.duel, "LOCKED")
      [] step = "propose" -> Set(c, h.duel, "PROPOSED")
      [] step = "finalize" -> Set(c, h.duel, "RESOLVED")

FinalizeStep == IF DeferFinalize THEN "done" ELSE IF HasFinalizer THEN "finalize" ELSE "failed"

Following_NoSync(step) ==  \* mutant: the market is created and not synchronised
    IF step = "create" THEN "done" ELSE IF step = "upsert" THEN "create" ELSE "done"

Following(step) ==
    CASE step = "upsert" -> "create" [] step = "create" -> "sync"
      [] step = "lock" -> "lockSync" [] step = "lockSync" -> "propose"
      [] step = "propose" -> "proposeSync" [] step = "proposeSync" -> FinalizeStep
      [] OTHER -> "done"

Transactions == {"upsert", "create", "sync", "lock", "lockSync", "propose", "proposeSync", "finalize"}

----
\* upsertEvmDuelLifecycle and reportEvmResult, one chain's job: the status is
\* read once and the transactions follow from it.  A result without winner,
\* seed or replay hash is not reported.
AfterRead(c, h) ==
    IF h.kind # "end" THEN "upsert"
    ELSE IF ~h.evidence THEN "done"
    ELSE CASE StatusOf(c, h.duel) \in Settled -> "done"
           [] StatusOf(c, h.duel) = "CHALLENGED" -> "sync"
           [] StatusOf(c, h.duel) = "PROPOSED" -> FinalizeStep
           [] StatusOf(c, h.duel) = "LOCKED" -> "propose"
           [] OTHER -> "lock"

Read(c) ==
    /\ job[c] = "read"
    /\ job' = [job EXCEPT ![c] = AfterRead(c, Head(todo))]
    /\ UNCHANGED <<world, client, todo, oracle, market, failures, shown, hurt, locks>>

\* A market that exists is not created again.
Skips(c) == job[c] = "create" /\ market[c][Head(todo).duel] # "NULL"

Transact(c) ==
    /\ job[c] \in Transactions
    /\ IF Skips(c) THEN UNCHANGED <<oracle, market>> /\ job' = [job EXCEPT ![c] = Following(@)]
       ELSE IF Accepted(c, job[c], Head(todo))
            THEN Effect(c, job[c], Head(todo)) /\ job' = [job EXCEPT ![c] = Following(@)]
            ELSE UNCHANGED <<oracle, market>> /\ job' = [job EXCEPT ![c] = "failed"]
    /\ UNCHANGED <<world, client, todo, failures, shown, hurt, locks>>

\* A request fails (the oracle may be paused, too); a transaction lands whose
\* receipt never arrives; or one reverts when it is mined, which the job does
\* not look at.
TransactionFails(c) ==
    /\ job[c] \in Transactions \cup {"read"} /\ ~Skips(c)
    /\ failures < MaxFailures
    /\ failures' = failures + 1
    /\ \/ UNCHANGED <<oracle, market>> /\ job' = [job EXCEPT ![c] = "failed"]
       \/ /\ job[c] # "read" /\ Accepted(c, job[c], Head(todo))
          /\ \/ Effect(c, job[c], Head(todo)) /\ job' = [job EXCEPT ![c] = "failed"]
             \/ UNCHANGED <<oracle, market>> /\ job' = [job EXCEPT ![c] = Following(@)]
    /\ hurt' = hurt \cup {<<c, Head(todo).duel>>}
    /\ UNCHANGED <<world, client, todo, shown, locks>>

\* onDuelEnd does the ratings, the perps oracles and Solana first, in the same
\* try: when one of them throws, no chain is reported to.
EndAborted ==
    /\ todo # <<>> /\ Head(todo).kind = "end" /\ job = AllAt("read")
    /\ failures < MaxFailures
    /\ failures' = failures + 1
    /\ job' = AllAt("failed")
    /\ hurt' = hurt \cup {<<c, Head(todo).duel>> : c \in Chains}
    /\ UNCHANGED <<world, client, todo, oracle, market, shown, locks>>

\* The handler returns, whatever became of its jobs: it logs their errors and
\* the client goes on to the poll's next handler.
HandlerReturns ==
    /\ todo # <<>>
    /\ \A c \in chains : job[c] \in {"done", "failed"}
    /\ todo' = Tail(todo)
    /\ job' = Begin(Tail(todo))
    /\ locks' = locks \o LocksOf(Tail(todo))
    /\ UNCHANGED <<world, client, oracle, market, failures, shown, hurt>>

\* The bot dies and is started again.  The evidence it was working on may be
\* gone from the stream by then.
Crash ==
    /\ crashes < MaxCrashes
    /\ crashes' = crashes + 1
    /\ client' = NewClient
    /\ todo' = <<>>
    /\ job' = AllAt("idle")
    /\ shown' = shown \ {h.duel : h \in ToSet(todo)}
    /\ locks' = <<>>
    /\ UNCHANGED <<chains, game, oracle, market, failures, rewinds, hurt>>

----
\* The challenger, the pauser and time.
OthersMove ==
    /\ \E c \in chains, d \in Duels :
          \/ /\ StatusOf(c, d) = "PROPOSED" /\ oracle[c][d].window
             /\ oracle' = [oracle EXCEPT ![c][d].status = "CHALLENGED"]
          \/ /\ StatusOf(c, d) = "PROPOSED" /\ oracle[c][d].window
             /\ oracle' = [oracle EXCEPT ![c][d].window = FALSE]
          \/ /\ StatusOf(c, d) \notin Settled \cup {"NULL"}
             /\ oracle' = [oracle EXCEPT ![c][d] = [status |-> "CANCELLED", window |-> FALSE]]
    /\ UNCHANGED <<world, client, todo, job, market, failures, shown, hurt, locks>>

KeeperStep == Poll \/ HandlerReturns \/ \E c \in chains : Read(c) \/ Transact(c)

Next ==
    \/ KeeperStep
    \/ \E c \in chains : TransactionFails(c)
    \/ EndAborted \/ Crash
    \/ GameMoves \/ StreamRewinds \/ OthersMove

Spec == Init /\ [][Next]_vars

\* The client polls on a timer, and a request or a wait for a receipt comes
\* to an end.
FairSpec ==
    /\ Spec
    /\ WF_vars(Poll) /\ WF_vars(HandlerReturns)
    /\ \A c \in Chains : WF_vars(Read(c)) /\ WF_vars(Transact(c))

----
\* No process locks a duel twice, also when the stream goes back a phase, and
\* it runs the handlers of later duels after those of earlier ones
\* (game-client.ts lastLockedCycleId).
LockedOnceInOrder == \A i, j \in DOMAIN locks : i < j => locks[i] < locks[j]

\* Once the lock handler of a duel has returned, betting on it is closed on
\* every chain where nothing failed, and stays so when the stream goes back or
\* a handler of another duel runs; only a cancellation may be noticed later
\* (bot.ts upsertEvmDuelLifecycle).
BettingClosedAfterLock ==
    \A c \in chains, d \in ToSet(locks) :
        \/ todo # <<>> /\ Head(todo).kind = "lock" /\ Head(todo).duel = d
        \/ market[c][d] # "OPEN" \/ StatusOf(c, d) = "CANCELLED" \/ <<c, d>> \in hurt

\* A duel whose complete evidence the bot has read is reported on every chain
\* on which nothing failed, however the other chains fare: evidence that comes
\* late, a reader that restarts and a chain that fails do not stop it.
EveryResultReported ==
    \A c \in Chains, d \in Duels :
        <>[](c \in chains /\ d \in shown /\ <<c, d>> \notin hurt => StatusOf(c, d) \in InDispute \cup Settled)
=============================================================================
