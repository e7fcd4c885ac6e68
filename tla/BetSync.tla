------------------------------ MODULE BetSync ------------------------------
(***************************************************************************)
(* The keeper service's consumer of the game's bet-sync feed               *)
(* (hyperbet-evm/keeper/src: service.ts, betSync.ts, db.ts).               *)
(*                                                                         *)
(* The consumer loops for ever: it asks the source for its state           *)
(* (bootstrapBetSyncState), opens the event stream at the last sequence    *)
(* number it applied (consumeBetSyncEventsOnce) and projects each event    *)
(* into the stream state (applyBetSyncEvent).  Projection, checkpoint and  *)
(* apply log are written in one SQLite transaction; everything else is in  *)
(* memory and lost in a crash.  The source is external: replicas with an   *)
(* epoch each, every one numbering its events from 1.  An event is a whole *)
(* snapshot of the game, so it is named here by its epoch and number, and  *)
(* only the time it was emitted matters.                                   *)
(***************************************************************************)
EXTENDS Naturals, Sequences, FiniteSetsExt

CONSTANTS
    Epochs,         \* source epochs, numbers from 1
    MaxLen,         \* bound: events of an epoch
    MaxEvents,      \* bound: events of all epochs
    MaxTime,        \* bound: clock values
    MaxCrashes,     \* bound: crashes of the service
    MaxSwitches,    \* bound: changes of the replica that answers
    Tolerance,      \* BET_SYNC_STALE_EVENT_TOLERANCE_MS
    BreakerLimit    \* BET_SYNC_MAX_CONSECUTIVE_FAILURES

ASSUME BetSyncAssumption ==
    /\ Epochs \subseteq Nat \ {0}
    /\ {MaxLen, MaxEvents, MaxTime, MaxCrashes, MaxSwitches, Tolerance} \subseteq Nat
    /\ BreakerLimit \in Nat \ {0}

VARIABLES
    now,        \* Date.now()
    logs,       \* per epoch, the times its events were emitted
    src,        \* epoch of the replica that answers
    db,         \* SQLite: projection, checkpoint and apply log
    mem,        \* the same in the service's memory, and the replay target
    conn,       \* the consumer's loop and its connection
    crashes,    \* crashes so far
    switches    \* changes of the replica so far

vars == <<now, logs, src, db, mem, conn, crashes, switches>>

NoEvent == [epoch |-> 0, seq |-> 0]
NoTarget == 0
Modes == {"bootstrap", "replay", "reset", "live"}
Larger(m, n) == IF m >= n THEN m ELSE n

Checkpoint == [epoch : Epochs \cup {0}, seen : 0..MaxLen, applied : 0..MaxLen,
               mode : Modes, degraded : {"none", "stale", "error"}]
NoCheckpoint == [epoch |-> 0, seen |-> 0, applied |-> 0, mode |-> "bootstrap", degraded |-> "none"]

EventRef == [epoch : Epochs \cup {0}, seq : 0..MaxLen]
TimeOf(ev) == logs[ev.epoch][ev.seq]
Latest(e) == [epoch |-> e, seq |-> Len(logs[e])]

TypeOK ==
    /\ now \in 0..MaxTime
    /\ logs \in [Epochs -> UNION {[1..n -> 0..MaxTime] : n \in 0..MaxLen}]
    /\ src \in Epochs
    /\ db.ev \in EventRef /\ db.cp \in Checkpoint
    /\ db.log \subseteq EventRef \ {NoEvent}
    /\ mem.ev \in EventRef /\ mem.cp \in Checkpoint /\ mem.mode \in Modes
    /\ mem.at \in 0..MaxTime /\ mem.until \in 0..MaxLen
    /\ {mem.seq, db.seq} \subseteq Nat
    /\ conn.pc \in {"bootstrap", "connect", "streaming", "stopped"}
    /\ conn.epoch \in Epochs /\ conn.cursor \in 0..MaxLen
    /\ conn.fails \in 0..BreakerLimit
    /\ crashes \in 0..MaxCrashes /\ switches \in 0..MaxSwitches

----
\* The start of the process: the store is read back, and a service that has
\* never stored a stream state makes one that is dated now.
Load(store, t) ==
    [seq |-> Larger(1, store.seq), ev |-> store.ev,
     at |-> IF store.ev = NoEvent THEN t ELSE TimeOf(store.ev),
     cp |-> store.cp, mode |-> store.cp.mode, until |-> NoTarget]

Idle(fails) == [pc |-> "bootstrap", epoch |-> src, cursor |-> 0, reset |-> FALSE,
                foreign |-> FALSE, fails |-> fails]

Init ==
    /\ now = 0
    /\ logs = [e \in Epochs |-> <<>>]
    /\ src \in Epochs
    /\ db = [seq |-> 0, ev |-> NoEvent, cp |-> NoCheckpoint, log |-> {}]
    /\ mem = Load(db, 0)
    /\ conn = Idle(0)
    /\ crashes = 0
    /\ switches = 0

----
\* The game.
Advance ==
    /\ now < MaxTime
    /\ now' = now + 1
    /\ UNCHANGED <<logs, src, db, mem, conn, crashes, switches>>

Emit ==
    /\ Len(logs[src]) < MaxLen
    /\ MapThenSumSet(LAMBDA e : Len(logs[e]), Epochs) < MaxEvents
    /\ logs' = [logs EXCEPT ![src] = Append(@, now)]
    /\ UNCHANGED <<now, src, db, mem, conn, crashes, switches>>

\* Another replica takes over: a restarted source, or a fail-over and back.
SwitchSource ==
    /\ switches < MaxSwitches
    /\ switches' = switches + 1
    /\ src' \in Epochs \ {src}
    /\ UNCHANGED <<now, logs, db, mem, conn, crashes>>

----
\* betSync.ts.  A replay target exists when the source is ahead of a cursor.
SelectReplayUntil(resume, latest) ==
    IF resume > 0 /\ latest > resume THEN latest ELSE NoTarget

\* Mutant: a reset source may roll the projection back.
StaleAfterReset_Never(m, ev) == FALSE

StaleAfterReset(m, ev) ==
    /\ ev.epoch # m.cp.epoch
    /\ TimeOf(ev) + Tolerance < m.at

ResolveReplayMode(m, ev, named) ==
    IF ev.epoch # m.cp.epoch \/ named = "reset"
    THEN [m EXCEPT !.mode = "reset", !.until = NoTarget]
    ELSE IF m.until # NoTarget /\ ev.seq < m.until
         THEN [m EXCEPT !.mode = "replay"]
         ELSE [m EXCEPT !.mode = "live", !.until = NoTarget]

\* persistBetSyncCheckpointState: memory and store take the new checkpoint,
\* and the mode in memory is read back from it.
Persist(state, cp) ==
    [mem |-> [state.mem EXCEPT !.cp = cp, !.mode = cp.mode],
     db  |-> [state.db EXCEPT !.cp = cp]]

\* commitBetSyncProjectionState: nothing is written for an event the apply
\* log already holds.
AlreadyLogged_Unchecked(store, ev) == FALSE  \* mutant: the insert replaces

AlreadyLogged(store, ev) == ev \in store.log

\* normalizePublishedStreamState: the number shown to viewers always grows.
PublishedSeq_AsReceived(m, seq) == seq  \* mutant

PublishedSeq(m, seq) == Larger(m.seq + 1, seq)

Project(state, ev, cp) ==
    LET seq == PublishedSeq(state.mem, ev.seq)
    IN  [mem |-> [state.mem EXCEPT !.seq = seq, !.ev = ev, !.at = TimeOf(ev), !.cp = cp,
                                   !.mode = cp.mode,
                                   !.until = IF ev.epoch # state.mem.cp.epoch THEN NoTarget ELSE @],
         db  |-> [seq |-> seq, ev |-> ev, cp |-> cp, log |-> state.db.log \cup {ev}]]

\* The numbers of an epoch say nothing about those of another.
Duplicate_AcrossEpochs(m, ev) == ev.seq <= m.cp.applied  \* mutant

Duplicate(m, ev) == ev.epoch = m.cp.epoch /\ ev.seq <= m.cp.applied

NextApplied_KeptAcrossEpochs(m, ev) == Larger(m.cp.applied, ev.seq)  \* mutant

NextApplied(m, ev) == Larger(IF ev.epoch # m.cp.epoch THEN 0 ELSE m.cp.applied, ev.seq)

\* applyBetSyncEvent: what it makes of memory and store.
Apply(state, ev) ==
    LET m     == state.mem
        seen  == IF ev.epoch # m.cp.epoch THEN ev.seq ELSE Larger(m.cp.seen, ev.seq)
        noted == [m.cp EXCEPT !.seen = seen, !.degraded = "none"]
        cp    == [noted EXCEPT !.epoch = ev.epoch, !.applied = NextApplied(m, ev), !.mode = m.mode]
    IN  IF StaleAfterReset(m, ev) THEN Persist(state, [m.cp EXCEPT !.degraded = "stale"])
        ELSE IF Duplicate(m, ev) \/ AlreadyLogged(state.db, ev) THEN Persist(state, noted)
        ELSE Project(state, ev, cp)

Become(state) ==
    /\ mem' = state.mem
    /\ db' = state.db

State == [mem |-> mem, db |-> db]

----
\* bootstrapBetSyncState: the source answers with its latest event.  It is
\* applied at once unless older ones are to be replayed first.
Bootstrap ==
    LET until  == SelectReplayUntil(mem.cp.applied, Len(logs[src]))
        mode   == IF mem.cp.applied = 0 THEN "bootstrap" ELSE IF until # NoTarget THEN "replay" ELSE "live"
        begun  == Persist([State EXCEPT !.mem.until = until],
                          [mem.cp EXCEPT !.mode = mode, !.degraded = "none"])
        seeded == Apply(begun, Latest(src))
    IN  /\ conn.pc = "bootstrap"
        /\ Become(IF until = NoTarget /\ logs[src] # <<>>
                  THEN Persist(seeded, [seeded.mem.cp EXCEPT !.mode = "live", !.degraded = "none"])
                  ELSE begun)
        /\ conn' = [conn EXCEPT !.pc = "connect"]
        /\ UNCHANGED <<now, logs, src, crashes, switches>>

\* consumeBetSyncEventsOnce asks for the events since the last one applied,
\* whatever their epoch.  Without a cursor the source starts where it likes,
\* with its latest event at least; a cursor beyond its end makes it reset.
Connect ==
    LET since == mem.cp.applied
        end   == Len(logs[src])
        last  == IF end = 0 THEN 0 ELSE end - 1
    IN  /\ conn.pc = "connect"
        /\ \E start \in 0..MaxLen :
              /\ IF since = 0 THEN start <= last
                 ELSE start = (IF since <= end THEN since ELSE last)
              /\ conn' = [conn EXCEPT !.pc = "streaming", !.epoch = src, !.cursor = start,
                                      !.reset = since > end,
                                      !.foreign = since \in 1..end /\ mem.cp.epoch # src]
        /\ UNCHANGED <<now, logs, src, db, mem, crashes, switches>>

\* One frame of the stream.  A source that changed epoch announces it with a
\* reset that carries its latest event.
Deliver ==
    LET moved == conn.epoch # src
        seq   == IF moved THEN Len(logs[src]) ELSE conn.cursor + 1
        ev    == [epoch |-> src, seq |-> seq]
        named == IF moved \/ conn.reset THEN "reset" ELSE "state"
    IN  /\ conn.pc = "streaming"
        /\ seq \in 1..Len(logs[src])
        /\ Become(Apply([State EXCEPT !.mem = ResolveReplayMode(mem, ev, named)], ev))
        /\ conn' = [conn EXCEPT !.epoch = src, !.cursor = seq, !.reset = FALSE, !.foreign = FALSE]
        /\ UNCHANGED <<now, logs, src, crashes, switches>>

\* The source closes the stream: a round without an error.
StreamEnd ==
    /\ conn.pc = "streaming"
    /\ conn' = Idle(0)
    /\ UNCHANGED <<now, logs, src, db, mem, crashes, switches>>

\* The counter is only cleared by a stream that ends without an error.
BreakerOpen(fails) == fails >= BreakerLimit

\* A request or the open stream breaks.
Fail ==
    LET fails == conn.fails + 1
    IN  /\ conn.pc # "stopped"
        /\ mem' = [mem EXCEPT !.cp.mode = mem.mode, !.cp.degraded = "error"]
        /\ db' = [db EXCEPT !.cp = mem'.cp]
        /\ conn' = IF BreakerOpen(fails) THEN [Idle(fails) EXCEPT !.pc = "stopped"] ELSE Idle(fails)
        /\ UNCHANGED <<now, logs, src, crashes, switches>>

\* The process dies and is started again.
Crash ==
    /\ crashes < MaxCrashes
    /\ crashes' = crashes + 1
    /\ mem' = Load(db, now)
    /\ conn' = Idle(0)
    /\ UNCHANGED <<now, logs, src, db, switches>>

Next ==
    \/ Advance \/ Emit \/ SwitchSource
    \/ Bootstrap \/ Connect \/ Deliver \/ StreamEnd \/ Fail
    \/ Crash

Spec == Init /\ [][Next]_vars

\* The consumer's loop never rests, and a source that is asked often enough
\* delivers.  The game, failures and crashes are nobody's duty.
FairSpec == Spec /\ WF_vars(Bootstrap) /\ WF_vars(Connect) /\ SF_vars(Deliver)

----
\* The projection in memory and the one a restart would read are the same
\* event, and it is the one the checkpoint names: a crash at any moment
\* neither loses an applied event nor applies it again (db.ts commits the
\* three together, service.ts updates memory after the commit).
ProjectionMatchesCheckpoint ==
    /\ mem.ev = db.ev /\ mem.cp = db.cp
    /\ db.ev = [epoch |-> db.cp.epoch, seq |-> db.cp.applied]
    /\ db.ev # NoEvent => db.ev \in db.log

\* No event is projected twice, not even when the source fails over to a
\* replica and back and numbers repeat (the apply log's primary key).
AppliedOnce == [][mem'.ev # mem.ev => mem'.ev \notin db.log]_<<mem, db>>

\* A source that restarts behind, or a fail-over to a replica that lags,
\* does not take the projection back in time by more than the tolerance.
NoMaterialRollback == [][mem'.ev # mem.ev => TimeOf(mem'.ev) + Tolerance >= mem.at]_mem

\* What viewers are sent is numbered upwards, across epochs and restarts.
ViewersNeverGoBack == [][mem'.ev # mem.ev => mem'.seq > mem.seq]_mem

\* The cursor is sent without its epoch: a replica that took over between the
\* bootstrap and the connection takes it for a number of its own.
CursorMistaken == conn.pc = "streaming" /\ conn.foreign

\* After one fail-over at most: once the game falls silent the source's last
\* event has been projected, unless the circuit breaker stopped the consumer,
\* the event was refused as stale, or a cursor was mistaken.  After a second
\* one the stream may bring events the apply log holds; they do not move the
\* cursor, and a stream that always ends behind the first of them brings no more.
CatchesUp ==
    <>[](\/ switches > 1
         \/ conn.pc = "stopped"
         \/ logs[src] = <<>>
         \/ Latest(src) \in db.log
         \/ StaleAfterReset(mem, Latest(src))
         \/ CursorMistaken)
=============================================================================
