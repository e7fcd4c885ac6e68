--------------------------- MODULE BetSyncProofs ---------------------------
(***************************************************************************)
(* Proofs about the consumer of the bet-sync feed, for any source epochs,  *)
(* any tolerance and breaker limit and any bounds on events, time, crashes *)
(* and fail-overs.                                                         *)
(***************************************************************************)
EXTENDS BetSync, SequenceTheorems, TLAPS

Memory == [seq : Nat, ev : EventRef, at : 0..MaxTime, cp : Checkpoint, mode : Modes, until : 0..MaxLen]
Store == [seq : Nat, ev : EventRef, cp : Checkpoint, log : SUBSET (EventRef \ {NoEvent})]
Connection == [pc : {"bootstrap", "connect", "streaming", "stopped"}, epoch : Epochs, cursor : 0..MaxLen,
               reset : BOOLEAN, foreign : BOOLEAN, fails : 0..BreakerLimit]

\* An epoch's events were emitted one after the other.
Logs ==
    /\ now \in 0..MaxTime
    /\ logs \in [Epochs -> Seq(0..MaxTime)]
    /\ \A e \in Epochs :
         /\ Len(logs[e]) <= MaxLen
         /\ \A i, j \in 1..Len(logs[e]) : i <= j => logs[e][i] <= logs[e][j]
         /\ \A i \in 1..Len(logs[e]) : logs[e][i] <= now

Emitted(ev) == ev \in EventRef /\ ev.epoch \in Epochs /\ ev.seq \in 1..Len(logs[ev.epoch])

\* Memory and store agree: ProjectionMatchesCheckpoint, the number shown to
\* viewers, and that what is projected was emitted when memory says it was.
Agree(s) ==
    /\ s.mem.ev = s.db.ev /\ s.mem.cp = s.db.cp
    /\ s.mem.seq = Larger(1, s.db.seq)
    /\ s.db.ev = [epoch |-> s.db.cp.epoch, seq |-> s.db.cp.applied]
    /\ s.db.ev # NoEvent => s.db.ev \in s.db.log /\ Emitted(s.db.ev) /\ s.mem.at = TimeOf(s.db.ev)

States == [mem : Memory, db : Store]
Sound(s) == s \in States /\ Agree(s)

SyncInv ==
    /\ Logs /\ src \in Epochs
    /\ Sound(State)
    /\ conn \in Connection /\ (conn.pc # "stopped" => conn.fails < BreakerLimit)
    /\ crashes \in 0..MaxCrashes /\ switches \in 0..MaxSwitches

\* What no step of the consumer may do from s to t: project an event again,
\* number it below what viewers have seen, or go back in time.
Forward(s, t) ==
    /\ t.mem.seq >= s.mem.seq
    /\ t.mem.ev # s.mem.ev =>
         /\ t.mem.ev \notin s.db.log
         /\ t.mem.seq > s.mem.seq
         /\ TimeOf(t.mem.ev) + Tolerance >= s.mem.at

-----------------------------------------------------------------------------
\* What the assumption says of each constant on its own.
LEMMA Bounds ==
    /\ MaxLen \in Nat /\ MaxTime \in Nat /\ MaxCrashes \in Nat /\ MaxSwitches \in Nat
    /\ Tolerance \in Nat /\ BreakerLimit \in Nat \ {0}
    /\ \A e \in Epochs : e \in Nat \ {0}
BY BetSyncAssumption

\* An event the source emitted has a time, an epoch and a number.
LEMMA EmittedAt ==
    ASSUME Logs, NEW ev, Emitted(ev)
    PROVE  TimeOf(ev) \in 0..MaxTime /\ ev.epoch \in Nat \ {0} /\ ev.seq \in 1..MaxLen /\ ev # NoEvent
<1>1. logs[ev.epoch] \in Seq(0..MaxTime) /\ Len(logs[ev.epoch]) <= MaxLen
  BY DEF Logs, Emitted
<1>2. logs[ev.epoch][ev.seq] \in 0..MaxTime
  BY <1>1, ElementOfSeq DEF Emitted
<1>3. Len(logs[ev.epoch]) \in Nat
  BY <1>1, LenProperties
<1>4. ev.epoch \in Nat \ {0}
  BY Bounds DEF Emitted
<1>5. ev.seq \in 1..MaxLen
  BY <1>1, <1>3, Bounds DEF Emitted
<1> QED BY <1>2, <1>4, <1>5 DEF TimeOf, NoEvent

\* persistBetSyncCheckpointState with a checkpoint that names the same event.
LEMMA PersistSound ==
    ASSUME NEW s, Sound(s), NEW cp \in Checkpoint,
           cp.epoch = s.mem.cp.epoch, cp.applied = s.mem.cp.applied
    PROVE  /\ Sound(Persist(s, cp)) /\ Forward(s, Persist(s, cp)) /\ Persist(s, cp).mem.cp = cp
           /\ \A u : Forward(Persist(s, cp), u) => Forward(s, u)
           /\ \A u : Forward(u, s) => Forward(u, Persist(s, cp))
<1> DEFINE t == Persist(s, cp)
<1>1. s.mem \in Memory /\ s.db \in Store
  BY DEF Sound, States
<1>2. /\ t.mem = [s.mem EXCEPT !.cp = cp, !.mode = cp.mode]
      /\ t.db = [s.db EXCEPT !.cp = cp]
      /\ t = [mem |-> t.mem, db |-> t.db]
  BY DEF Persist
<1>3. t.mem \in Memory /\ t.db \in Store
  BY <1>1, <1>2 DEF Memory, Store, Checkpoint
<1>4. t \in States
  BY <1>2, <1>3 DEF States
<1>5. /\ t.mem.ev = s.mem.ev /\ t.mem.seq = s.mem.seq /\ t.mem.at = s.mem.at /\ t.mem.cp = cp
      /\ t.db.ev = s.db.ev /\ t.db.seq = s.db.seq /\ t.db.log = s.db.log /\ t.db.cp = cp
  BY <1>1, <1>2 DEF Memory, Store
<1> HIDE DEF t
<1>6. Agree(t)
  BY <1>5 DEF Sound, Agree
<1>7. Forward(s, t)
  BY <1>1, <1>5 DEF Forward, Memory
<1>8. \A u : (Forward(t, u) => Forward(s, u)) /\ (Forward(u, s) => Forward(u, t))
  BY <1>5 DEF Forward
<1> QED BY <1>4, <1>5, <1>6, <1>7, <1>8 DEF Sound, t

\* applyBetSyncEvent of an event the source has emitted: whether it is refused,
\* known already or projected, memory and store agree afterwards and nothing
\* goes backwards.
LEMMA ApplySound ==
    ASSUME Logs, NEW s, Sound(s), NEW ev, Emitted(ev)
    PROVE  Sound(Apply(s, ev)) /\ Forward(s, Apply(s, ev))
<1> DEFINE m == s.mem
           seen == IF ev.epoch # m.cp.epoch THEN ev.seq ELSE Larger(m.cp.seen, ev.seq)
           noted == [m.cp EXCEPT !.seen = seen, !.degraded = "none"]
           cp == [noted EXCEPT !.epoch = ev.epoch, !.applied = NextApplied(m, ev), !.mode = m.mode]
           t == Project(s, ev, cp)
<1>1. m \in Memory /\ s.db \in Store /\ m.cp \in Checkpoint
  BY DEF Sound, States, Memory
<1>2. ev \in EventRef /\ ev.epoch \in Epochs /\ ev.seq \in 1..MaxLen /\ TimeOf(ev) \in 0..MaxTime /\ ev # NoEvent
  BY EmittedAt DEF Emitted
<1>3. noted \in Checkpoint /\ noted.epoch = m.cp.epoch /\ noted.applied = m.cp.applied
  <2>1. seen \in 0..MaxLen
    BY <1>1, <1>2, Bounds DEF Checkpoint, Larger
  <2> HIDE DEF seen
  <2> QED BY <1>1, <2>1 DEF Checkpoint
<1>4. CASE StaleAfterReset(m, ev)
  <2> DEFINE stale == [m.cp EXCEPT !.degraded = "stale"]
  <2>1. stale \in Checkpoint /\ stale.epoch = s.mem.cp.epoch /\ stale.applied = s.mem.cp.applied
    BY <1>1 DEF Checkpoint
  <2>2. Apply(s, ev) = Persist(s, stale)
    BY <1>4 DEF Apply
  <2> HIDE DEF stale
  <2> QED BY <2>1, <2>2, PersistSound
<1>5. CASE ~StaleAfterReset(m, ev) /\ (Duplicate(m, ev) \/ AlreadyLogged(s.db, ev))
  <2>1. Apply(s, ev) = Persist(s, noted)
    BY <1>5 DEF Apply
  <2> HIDE DEF noted
  <2> QED BY <1>3, <2>1, PersistSound
<1>6. CASE ~StaleAfterReset(m, ev) /\ ~Duplicate(m, ev) /\ ~AlreadyLogged(s.db, ev)
  <2>1. Apply(s, ev) = t
    BY <1>6 DEF Apply
  <2>2. NextApplied(m, ev) = ev.seq
    <3>1. m.cp.epoch \in Epochs \cup {0} /\ m.cp.applied \in 0..MaxLen
      BY <1>1 DEF Checkpoint
    <3>2. m.cp.epoch # ev.epoch \/ ev.seq > m.cp.applied
      BY <1>2, <1>6, <3>1, Bounds DEF Duplicate
    <3> QED BY <1>2, <3>1, <3>2, Bounds DEF NextApplied, Larger
  <2>3. cp \in Checkpoint /\ cp.epoch = ev.epoch /\ cp.applied = ev.seq
    <3>1. ev.seq \in 0..MaxLen /\ ev.epoch \in Epochs \cup {0} /\ m.mode \in Modes
      BY <1>1, <1>2, Bounds DEF Memory
    <3> HIDE DEF noted
    <3> QED BY <1>3, <2>2, <3>1 DEF Checkpoint
  <2> HIDE DEF cp, t, m
  <2>4. PublishedSeq(m, ev.seq) \in Nat /\ PublishedSeq(m, ev.seq) > m.seq /\ m.seq \in Nat
    BY <1>1, <1>2, Bounds DEF PublishedSeq, Larger, Memory
  <2>5. /\ t.mem.seq = PublishedSeq(m, ev.seq) /\ t.mem.ev = ev /\ t.mem.at = TimeOf(ev) /\ t.mem.cp = cp
        /\ t.mem \in Memory
    <3>1. s.mem = m
      BY DEF m
    <3> DEFINE until == IF ev.epoch # m.cp.epoch THEN NoTarget ELSE m.until
    <3>2. until \in 0..MaxLen
      BY <1>1, Bounds DEF Memory, NoTarget
    <3>3. t.mem = [m EXCEPT !.seq = PublishedSeq(m, ev.seq), !.ev = ev, !.at = TimeOf(ev), !.cp = cp,
                            !.mode = cp.mode, !.until = until]
      BY <3>1 DEF t, Project
    <3> HIDE DEF until
    <3>4. cp.mode \in Modes
      BY <2>3 DEF Checkpoint
    <3> QED BY <1>1, <1>2, <2>3, <2>4, <3>2, <3>3, <3>4 DEF Memory
  <2>6. /\ t.db = [seq |-> PublishedSeq(m, ev.seq), ev |-> ev, cp |-> cp, log |-> s.db.log \cup {ev}]
        /\ t = [mem |-> t.mem, db |-> t.db]
    BY DEF t, Project, m
  <2>7. t.db \in Store
    BY <1>1, <1>2, <2>3, <2>4, <2>6 DEF Store
  <2>8. ev = [epoch |-> cp.epoch, seq |-> cp.applied]
    BY <1>2, <2>3 DEF EventRef
  <2>9. Sound(t)
    <3>1. t.mem.seq = Larger(1, t.db.seq)
      BY <2>4, <2>5, <2>6 DEF Larger
    <3>2. Agree(t)
      BY <2>5, <2>6, <2>8, <3>1 DEF Agree
    <3>3. t \in States
      BY <2>5, <2>6, <2>7 DEF States
    <3> QED BY <3>2, <3>3 DEF Sound
  <2>10. Forward(s, t)
    <3>1. ev \notin s.db.log
      BY <1>6 DEF AlreadyLogged
    <3>2. TimeOf(ev) + Tolerance >= m.at
      <4>1. m.at \in 0..MaxTime /\ m.cp.epoch \in Epochs \cup {0} /\ m.cp.applied \in 0..MaxLen
        BY <1>1 DEF Memory, Checkpoint
      <4>2. CASE ev.epoch # m.cp.epoch
        BY <1>2, <1>6, <4>1, <4>2, Bounds DEF StaleAfterReset, m
      <4>3. CASE ev.epoch = m.cp.epoch
        <5>1. ev.seq > m.cp.applied
          BY <1>2, <1>6, <4>1, <4>3, Bounds DEF Duplicate, m
        <5>2. s.db.ev = [epoch |-> m.cp.epoch, seq |-> m.cp.applied] /\ s.db.ev # NoEvent
          <6>1. ev.epoch # 0
            BY <1>2, Bounds
          <6> QED BY <4>3, <6>1 DEF Sound, Agree, m, NoEvent
        <5>3. Emitted(s.db.ev) /\ m.at = TimeOf(s.db.ev)
          BY <5>2 DEF Sound, Agree, m
        <5>4. TimeOf(s.db.ev) = logs[ev.epoch][m.cp.applied] /\ TimeOf(ev) = logs[ev.epoch][ev.seq]
          BY <4>3, <5>2 DEF TimeOf
        <5>5. m.cp.applied \in 1..Len(logs[ev.epoch]) /\ ev.seq \in 1..Len(logs[ev.epoch])
          BY <4>3, <5>2, <5>3 DEF Emitted
        <5>6. logs[ev.epoch][m.cp.applied] <= logs[ev.epoch][ev.seq]
          <6>1. \A i, j \in 1..Len(logs[ev.epoch]) : i <= j => logs[ev.epoch][i] <= logs[ev.epoch][j]
            BY <1>2 DEF Logs
          <6>2. m.cp.applied <= ev.seq
            BY <1>2, <4>1, <5>1, Bounds
          <6> QED BY <5>5, <6>1, <6>2
        <5> QED BY <1>2, <4>1, <5>3, <5>4, <5>6, Bounds
      <4> QED BY <4>2, <4>3
    <3> QED BY <2>4, <2>5, <3>1, <3>2 DEF Forward, m
  <2> QED BY <2>1, <2>9, <2>10 DEF Sound
<1> QED BY <1>4, <1>5, <1>6

\* What is done after a replay target or a mode has been set in memory is done
\* to what was there before.
LEMMA RetargetedSound ==
    ASSUME NEW s, Sound(s), NEW m \in Memory,
           m.seq = s.mem.seq, m.ev = s.mem.ev, m.at = s.mem.at, m.cp = s.mem.cp
    PROVE  LET r == [mem |-> m, db |-> s.db]
           IN  Sound(r) /\ \A t : Forward(r, t) => Forward(s, t)
<1> DEFINE r == [mem |-> m, db |-> s.db]
<1>1. r.mem = m /\ r.db = s.db /\ r \in States
  BY DEF Sound, States
<1> HIDE DEF r
<1>2. Sound(r)
  BY <1>1 DEF Sound, Agree
<1>3. \A t : Forward(r, t) => Forward(s, t)
  BY <1>1 DEF Forward
<1> QED BY <1>2, <1>3 DEF r

\* What Emitted and TimeOf say of an event does not change when the source
\* emits another one.
LEMMA EmitKeepsLogs ==
    ASSUME Logs, src \in Epochs, Emit
    PROVE  /\ Logs'
           /\ \A ev : Emitted(ev) => Emitted(ev)' /\ TimeOf(ev)' = TimeOf(ev)
<1> DEFINE log == logs[src]
<1>1. /\ logs \in [Epochs -> Seq(0..MaxTime)] /\ log \in Seq(0..MaxTime) /\ now \in 0..MaxTime
      /\ logs' = [logs EXCEPT ![src] = Append(log, now)] /\ now' = now
      /\ Len(log) < MaxLen
  BY DEF Emit, Logs
<1>2. /\ Append(log, now) \in Seq(0..MaxTime)
      /\ Len(Append(log, now)) = Len(log) + 1
      /\ \A i \in 1..Len(log) : Append(log, now)[i] = log[i]
      /\ Append(log, now)[Len(log) + 1] = now
      /\ Len(log) \in Nat
  BY <1>1, AppendProperties, LenProperties
<1>3. logs'[src] = Append(log, now) /\ \A e \in Epochs \ {src} : logs'[e] = logs[e]
  BY <1>1
<1>4. logs' \in [Epochs -> Seq(0..MaxTime)]
  BY <1>1, <1>2
<1>5. ASSUME NEW e \in Epochs
      PROVE  /\ Len(logs'[e]) <= MaxLen
             /\ \A i, j \in 1..Len(logs'[e]) : i <= j => logs'[e][i] <= logs'[e][j]
             /\ \A i \in 1..Len(logs'[e]) : logs'[e][i] <= now'
  <2>1. CASE e # src
    BY <1>1, <1>3, <2>1 DEF Logs
  <2>2. CASE e = src
    <3>1. /\ \A i, j \in 1..Len(log) : i <= j => log[i] <= log[j]
          /\ \A i \in 1..Len(log) : log[i] <= now
      BY DEF Logs
    <3>2. \A i \in 1..Len(log) + 1 : i \in 1..Len(log) \/ i = Len(log) + 1
      BY <1>2
    <3> DEFINE longer == Append(log, now)
    <3>3. \A i \in 1..Len(log) + 1 : longer[i] <= now
      BY <1>1, <1>2, <3>1, <3>2
    <3>4. ASSUME NEW i \in 1..Len(log) + 1, NEW j \in 1..Len(log) + 1, i <= j
          PROVE  longer[i] <= longer[j]
      <4>1. CASE j = Len(log) + 1
        BY <1>2, <3>3, <4>1
      <4>2. CASE j \in 1..Len(log)
        <5>1. i \in 1..Len(log)
          BY <1>2, <3>4, <4>2
        <5> QED BY <1>2, <3>1, <3>4, <4>2, <5>1
      <4> QED BY <3>2, <4>1, <4>2
    <3>5. Len(longer) <= MaxLen
      BY <1>1, <1>2, Bounds
    <3>6. logs'[e] = longer
      BY <1>3, <2>2
    <3> HIDE DEF longer
    <3> QED BY <1>1, <1>2, <3>3, <3>4, <3>5, <3>6 DEF longer
  <2> QED BY <2>1, <2>2
<1>6. Logs'
  BY <1>1, <1>4, <1>5 DEF Logs
<1>7. ASSUME NEW ev, Emitted(ev)
      PROVE  Emitted(ev)' /\ TimeOf(ev)' = TimeOf(ev)
  <2>1. ev \in EventRef /\ ev.epoch \in Epochs /\ ev.seq \in 1..Len(logs[ev.epoch])
    BY <1>7 DEF Emitted
  <2>2. CASE ev.epoch # src
    BY <1>3, <2>1, <2>2 DEF Emitted, TimeOf
  <2>3. CASE ev.epoch = src
    <3>1. logs'[ev.epoch] = Append(log, now) /\ logs[ev.epoch] = log
      BY <1>3, <2>3
    <3>2. ev.seq \in 1..Len(log) /\ ev.seq \in 1..Len(log) + 1
      BY <1>2, <2>1, <3>1
    <3>3. logs'[ev.epoch][ev.seq] = logs[ev.epoch][ev.seq] /\ ev.seq \in 1..Len(logs'[ev.epoch])
      BY <1>2, <3>1, <3>2
    <3> QED BY <2>1, <3>3 DEF Emitted, TimeOf
  <2> QED BY <2>2, <2>3
<1> QED BY <1>6, <1>7

\* The agreement of memory and store stays when only the world around them
\* moves, as long as what was emitted stays emitted.
LEMMA SoundElsewhere ==
    ASSUME Sound(State), UNCHANGED <<mem, db>>,
           \A ev : Emitted(ev) => Emitted(ev)' /\ TimeOf(ev)' = TimeOf(ev)
    PROVE  Sound(State)'
<1>1. State.mem = mem /\ State.db = db /\ State' = State /\ State \in States
  BY DEF State, Sound
<1>2. ASSUME db.ev # NoEvent
      PROVE  /\ db.ev \in db.log /\ db.ev \in EventRef /\ db.ev.epoch \in Epochs
             /\ db.ev.seq \in 1..Len(logs'[db.ev.epoch])
             /\ mem.at = logs'[db.ev.epoch][db.ev.seq]
  <2>1. Emitted(db.ev) /\ db.ev \in db.log /\ mem.at = TimeOf(db.ev)
    BY <1>1, <1>2 DEF Sound, Agree
  <2>2. \E ev : ev = db.ev
    OBVIOUS
  <2>3. PICK ev : ev = db.ev
    BY <2>2
  <2>4. Emitted(ev)' /\ TimeOf(ev)' = TimeOf(ev) /\ mem.at = TimeOf(ev)
    BY <2>1, <2>3
  <2> QED BY <2>1, <2>3, <2>4 DEF Emitted, TimeOf
<1>3. /\ mem.ev = db.ev /\ mem.cp = db.cp /\ mem.seq = Larger(1, db.seq)
      /\ db.ev = [epoch |-> db.cp.epoch, seq |-> db.cp.applied]
  BY <1>1 DEF Sound, Agree
<1>4. Agree(State)'
  BY <1>1, <1>2, <1>3 DEF Agree, State, Emitted, TimeOf
<1> QED BY <1>1, <1>4 DEF Sound, States, Memory, Store

\* bootstrapBetSyncState keeps memory and store in agreement and moves forward.
LEMMA BootstrapSound ==
    ASSUME SyncInv, Bootstrap
    PROVE  LET t == [mem |-> mem', db |-> db'] IN Sound(t) /\ Forward(State, t)
<1> DEFINE until  == SelectReplayUntil(mem.cp.applied, Len(logs[src]))
           mode   == IF mem.cp.applied = 0 THEN "bootstrap" ELSE IF until # NoTarget THEN "replay" ELSE "live"
           aimed  == [State EXCEPT !.mem.until = until]
           cp     == [mem.cp EXCEPT !.mode = mode, !.degraded = "none"]
           begun  == Persist(aimed, cp)
           seeded == Apply(begun, Latest(src))
           live   == [seeded.mem.cp EXCEPT !.mode = "live", !.degraded = "none"]
           t      == [mem |-> mem', db |-> db']
<1>1. /\ Logs /\ src \in Epochs /\ Sound(State) /\ State.mem = mem /\ State.db = db
      /\ mem \in Memory /\ db \in Store /\ mem.cp \in Checkpoint
  BY DEF SyncInv, State, Sound, States, Memory
<1>2. logs[src] \in Seq(0..MaxTime) /\ Len(logs[src]) \in 0..MaxLen
  BY <1>1, LenProperties, Bounds DEF Logs
<1>3. until \in 0..MaxLen /\ mode \in Modes
  BY <1>2, Bounds DEF SelectReplayUntil, NoTarget, Modes
<1> HIDE DEF until, mode
<1>4. Sound(aimed) /\ aimed.mem.cp = mem.cp /\ \A u : Forward(aimed, u) => Forward(State, u)
  <2> DEFINE m == [mem EXCEPT !.until = until]
  <2>1. m \in Memory /\ m.seq = mem.seq /\ m.ev = mem.ev /\ m.at = mem.at /\ m.cp = mem.cp
    BY <1>1, <1>3 DEF Memory
  <2>2. aimed = [mem |-> m, db |-> db] /\ aimed.mem = m
    BY DEF State
  <2> HIDE DEF m, aimed
  <2> QED BY <1>1, <2>1, <2>2, RetargetedSound
<1>5. cp \in Checkpoint /\ cp.epoch = mem.cp.epoch /\ cp.applied = mem.cp.applied
  BY <1>1, <1>3 DEF Checkpoint
<1> HIDE DEF aimed, cp
<1>6. /\ Sound(begun) /\ Forward(State, begun)
      /\ \A u : Forward(begun, u) => Forward(State, u)
  BY <1>4, <1>5, PersistSound
<1>7. Become(IF until = NoTarget /\ logs[src] # <<>> THEN Persist(seeded, live) ELSE begun)
  BY DEF Bootstrap, until, mode, aimed, cp
<1> HIDE DEF begun
<1>8. CASE until = NoTarget /\ logs[src] # <<>>
  <2>1. Emitted(Latest(src))
    <3>1. Len(logs[src]) \in 1..Len(logs[src])
      BY <1>2, <1>8, EmptySeq, Bounds
    <3>2. Latest(src) = [epoch |-> src, seq |-> Len(logs[src])] /\ Latest(src) \in EventRef
      BY <1>1, <1>2 DEF Latest, EventRef
    <3> QED BY <1>1, <3>1, <3>2 DEF Emitted
  <2>2. Sound(seeded) /\ Forward(begun, seeded)
    BY <1>1, <1>6, <2>1, ApplySound
  <2>3. seeded.mem.cp \in Checkpoint
    BY <2>2 DEF Sound, States, Memory
  <2> HIDE DEF seeded
  <2>4. live \in Checkpoint /\ live.epoch = seeded.mem.cp.epoch /\ live.applied = seeded.mem.cp.applied
    BY <2>3 DEF Checkpoint, Modes
  <2> HIDE DEF live
  <2>5. /\ Sound(Persist(seeded, live)) /\ Forward(begun, Persist(seeded, live))
    BY <2>2, <2>4, PersistSound
  <2>6. t = Persist(seeded, live)
    BY <1>7, <1>8 DEF Become, Persist
  <2> QED BY <1>6, <2>5, <2>6
<1>9. CASE ~(until = NoTarget /\ logs[src] # <<>>)
  <2>1. t = begun
    BY <1>7, <1>9 DEF Become, begun, Persist
  <2> QED BY <1>6, <2>1
<1> QED BY <1>8, <1>9

\* One frame of the stream.
LEMMA DeliverSound ==
    ASSUME SyncInv, Deliver
    PROVE  LET t == [mem |-> mem', db |-> db'] IN Sound(t) /\ Forward(State, t)
<1> DEFINE moved == conn.epoch # src
           seq   == IF moved THEN Len(logs[src]) ELSE conn.cursor + 1
           ev    == [epoch |-> src, seq |-> seq]
           named == IF moved \/ conn.reset THEN "reset" ELSE "state"
           m     == ResolveReplayMode(mem, ev, named)
           r     == [State EXCEPT !.mem = m]
           t     == [mem |-> mem', db |-> db']
<1>1. /\ Logs /\ src \in Epochs /\ Sound(State) /\ State = [mem |-> mem, db |-> db]
      /\ mem \in Memory /\ db \in Store
  BY DEF SyncInv, State, Sound, States
<1>2. seq \in 1..Len(logs[src]) /\ Become(Apply(r, ev))
  BY DEF Deliver
<1> HIDE DEF seq, named
<1>3. Emitted(ev)
  <2>1. logs[src] \in Seq(0..MaxTime) /\ Len(logs[src]) \in 0..MaxLen
    BY <1>1, LenProperties, Bounds DEF Logs
  <2>2. seq \in 0..MaxLen
    BY <1>2, <2>1, Bounds
  <2> QED BY <1>1, <1>2, <2>2 DEF Emitted, EventRef
<1> HIDE DEF ev
<1>4. m \in Memory /\ m.seq = mem.seq /\ m.ev = mem.ev /\ m.at = mem.at /\ m.cp = mem.cp
  <2>1. \E mode \in Modes, until \in 0..MaxLen : m = [mem EXCEPT !.mode = mode, !.until = until]
    <3>1. mem.until \in 0..MaxLen /\ NoTarget \in 0..MaxLen
      BY <1>1, Bounds DEF Memory, NoTarget
    <3>2. [mem EXCEPT !.mode = "replay"] = [mem EXCEPT !.mode = "replay", !.until = mem.until]
      BY <1>1 DEF Memory
    <3>3. {"reset", "replay", "live"} \subseteq Modes
      BY DEF Modes
    <3> HIDE DEF ev
    <3> QED BY <3>1, <3>2, <3>3 DEF ResolveReplayMode
  <2>2. PICK mode \in Modes, until \in 0..MaxLen : m = [mem EXCEPT !.mode = mode, !.until = until]
    BY <2>1
  <2> HIDE DEF m
  <2> QED BY <1>1, <2>2 DEF Memory
<1> HIDE DEF m
<1>5. r = [mem |-> m, db |-> State.db] /\ State.mem = mem
  BY <1>1
<1> HIDE DEF r
<1>6. Sound(r) /\ \A u : Forward(r, u) => Forward(State, u)
  BY <1>1, <1>4, <1>5, RetargetedSound
<1>7. Sound(Apply(r, ev)) /\ Forward(r, Apply(r, ev))
  BY <1>1, <1>3, <1>6, ApplySound
<1>8. t = Apply(r, ev)
  BY <1>2 DEF Become, Apply, Persist, Project
<1> QED BY <1>6, <1>7, <1>8

\* What a restart reads back is what memory held, but for the mode and the
\* replay target.
LEMMA LoadSound ==
    ASSUME NEW s, Sound(s), NEW t \in 0..MaxTime
    PROVE  /\ Sound([mem |-> Load(s.db, t), db |-> s.db])
           /\ Forward(s, [mem |-> Load(s.db, t), db |-> s.db])
<1> DEFINE m == Load(s.db, t)
<1>1. s.mem \in Memory /\ s.db \in Store
  BY DEF Sound, States
<1>2. /\ m.seq = Larger(1, s.db.seq) /\ m.ev = s.db.ev /\ m.cp = s.db.cp
      /\ m.at = (IF s.db.ev = NoEvent THEN t ELSE TimeOf(s.db.ev))
  BY DEF Load
<1>3. m.at \in 0..MaxTime
  <2>1. s.db.ev # NoEvent => TimeOf(s.db.ev) = s.mem.at /\ s.mem.at \in 0..MaxTime
    BY <1>1 DEF Sound, Agree, Memory
  <2> QED BY <1>2, <2>1
<1>4. m \in Memory
  <2>1. Larger(1, s.db.seq) \in Nat /\ s.db.cp.mode \in Modes /\ NoTarget \in 0..MaxLen
    BY <1>1, Bounds DEF Store, Checkpoint, Larger, NoTarget
  <2>2. m = [seq |-> m.seq, ev |-> m.ev, at |-> m.at, cp |-> m.cp, mode |-> s.db.cp.mode, until |-> NoTarget]
    BY DEF Load
  <2> HIDE DEF m
  <2> QED BY <1>1, <1>2, <1>3, <2>1, <2>2 DEF Memory, Store
<1> DEFINE r == [mem |-> m, db |-> s.db]
<1>5. r.mem = m /\ r.db = s.db /\ r \in States
  BY <1>1, <1>4 DEF States
<1> HIDE DEF m, r
<1>6. Agree(r)
  BY <1>2, <1>5 DEF Sound, Agree
<1>7. Forward(s, r)
  <2>1. r.mem.ev = s.mem.ev /\ r.mem.seq = s.mem.seq /\ s.mem.seq \in Nat
    BY <1>1, <1>2, <1>5 DEF Sound, Agree, Memory
  <2> QED BY <2>1 DEF Forward
<1> QED BY <1>5, <1>6, <1>7 DEF Sound, r, m

\* A failed request or a broken stream notes the error and nothing else.
LEMMA FailSound ==
    ASSUME SyncInv, Fail
    PROVE  LET t == [mem |-> mem', db |-> db'] IN Sound(t) /\ Forward(State, t)
<1> DEFINE cp == [mem.cp EXCEPT !.mode = mem.mode, !.degraded = "error"]
           t  == [mem |-> mem', db |-> db']
<1>1. /\ Sound(State) /\ State.mem = mem /\ State.db = db
      /\ mem \in Memory /\ db \in Store /\ mem.cp \in Checkpoint /\ mem.mode \in Modes
  BY DEF SyncInv, State, Sound, States, Memory
<1>2. cp \in Checkpoint /\ cp.epoch = mem.cp.epoch /\ cp.applied = mem.cp.applied /\ cp.mode = mem.mode
  BY <1>1 DEF Checkpoint
<1>3. mem' = [mem EXCEPT !.cp = cp] /\ db' = [db EXCEPT !.cp = mem'.cp]
  BY DEF Fail
<1> HIDE DEF cp
<1>4. mem' = [mem EXCEPT !.cp = cp, !.mode = cp.mode] /\ db' = [db EXCEPT !.cp = cp]
  BY <1>1, <1>2, <1>3 DEF Memory
<1>5. t = Persist(State, cp)
  BY <1>1, <1>4 DEF Persist
<1> QED BY <1>1, <1>2, <1>5, PersistSound

-----------------------------------------------------------------------------
\* A service that starts on an empty store satisfies the invariant.
LEMMA InitSync == Init => SyncInv
<1> SUFFICES ASSUME Init PROVE SyncInv
  OBVIOUS
<1> DEFINE empty == [seq |-> 0, ev |-> NoEvent, cp |-> NoCheckpoint, log |-> {}]
<1>1. Logs
  <2>1. \A e \in Epochs : logs[e] = <<>> /\ logs[e] \in Seq(0..MaxTime) /\ Len(logs[e]) = 0
    BY EmptySeq DEF Init
  <2>2. logs \in [Epochs -> Seq(0..MaxTime)]
    BY <2>1 DEF Init
  <2> QED BY <2>1, <2>2, Bounds DEF Init, Logs
<1>2. NoEvent \in EventRef /\ NoCheckpoint \in Checkpoint
  BY Bounds DEF NoEvent, EventRef, NoCheckpoint, Checkpoint, Modes
<1>3. db = empty /\ mem = Load(db, 0)
  BY DEF Init
<1>4. /\ db \in Store
      /\ mem = [seq |-> 1, ev |-> NoEvent, at |-> 0, cp |-> NoCheckpoint, mode |-> "bootstrap", until |-> 0]
  BY <1>2, <1>3 DEF Store, Load, Larger, NoCheckpoint, NoTarget
<1>5. mem \in Memory
  BY <1>2, <1>4, Bounds DEF Memory, Modes
<1>6. Sound(State)
  BY <1>3, <1>4, <1>5 DEF Sound, States, State, Agree, Larger, NoEvent, NoCheckpoint
<1>7. src \in Epochs /\ conn \in Connection /\ conn.fails = 0
  BY Bounds DEF Init, Idle, Connection
<1> QED BY <1>1, <1>6, <1>7, Bounds DEF SyncInv, Init

\* Every step keeps memory and store in agreement and moves forward.
LEMMA StepSync ==
    ASSUME SyncInv, [Next]_vars
    PROVE  SyncInv' /\ Forward(State, [mem |-> mem', db |-> db'])
<1> DEFINE t == [mem |-> mem', db |-> db']
<1>1. /\ Logs /\ src \in Epochs /\ Sound(State) /\ conn \in Connection /\ mem \in Memory
      /\ crashes \in 0..MaxCrashes /\ switches \in 0..MaxSwitches
      /\ conn.pc # "stopped" => conn.fails < BreakerLimit
      /\ State.mem = mem /\ State.db = db /\ State' = t
  BY DEF SyncInv, State, Sound, States
<1>2. Forward(State, State)
  BY <1>1 DEF Forward, Memory
<1>3. ASSUME UNCHANGED logs
      PROVE  (Sound(t) => Sound(State)') /\ \A ev : Emitted(ev) => Emitted(ev)' /\ TimeOf(ev)' = TimeOf(ev)
  BY <1>1, <1>3 DEF Sound, States, Agree, Memory, Store, Emitted, TimeOf, State
<1>4. ASSUME UNCHANGED <<mem, db>>
      PROVE  Forward(State, t)
  BY <1>1, <1>2, <1>4 DEF State
<1>5. ASSUME UNCHANGED <<now, logs>>
      PROVE  Logs'
  BY <1>1, <1>5 DEF Logs
<1>6. Idle(0)' \in Connection /\ Idle(0) \in Connection
  <2>1. src' \in Epochs
    BY <1>1 DEF Next, vars, Advance, Emit, SwitchSource, Bootstrap, Connect, Deliver, StreamEnd, Fail, Crash
  <2> QED BY <1>1, <2>1, Bounds DEF Idle, Connection
<1>7. CASE Advance
  <2>1. Logs'
    BY <1>1, <1>7, Bounds DEF Advance, Logs
  <2>2. Sound(State)'
    BY <1>1, <1>3, <1>7, SoundElsewhere DEF Advance
  <2> QED BY <1>1, <1>4, <1>7, <2>1, <2>2 DEF Advance, SyncInv
<1>8. CASE Emit
  BY <1>1, <1>4, <1>8, EmitKeepsLogs, SoundElsewhere DEF Emit, SyncInv
<1>9. CASE SwitchSource
  <2>1. Sound(State)'
    BY <1>1, <1>3, <1>9, SoundElsewhere DEF SwitchSource
  <2>2. switches' \in 0..MaxSwitches
    BY <1>1, <1>9, Bounds DEF SwitchSource
  <2> QED BY <1>1, <1>4, <1>5, <1>9, <2>1, <2>2 DEF SwitchSource, SyncInv
<1>10. CASE Bootstrap
  <2>1. Sound(t) /\ Forward(State, t)
    BY <1>10, BootstrapSound
  <2>2. conn' \in Connection /\ (conn'.pc # "stopped" => conn'.fails < BreakerLimit)
    BY <1>1, <1>10 DEF Bootstrap, Connection
  <2> QED BY <1>1, <1>3, <1>5, <1>10, <2>1, <2>2 DEF Bootstrap, SyncInv
<1>11. CASE Connect
  <2>1. Sound(State)'
    BY <1>1, <1>3, <1>11, SoundElsewhere DEF Connect
  <2>2. conn' \in Connection /\ conn'.fails < BreakerLimit
    <3> DEFINE reset   == mem.cp.applied > Len(logs[src])
               foreign == mem.cp.applied \in 1..Len(logs[src]) /\ mem.cp.epoch # src
    <3>1. /\ conn.pc = "connect"
          /\ \E start \in 0..MaxLen :
                conn' = [conn EXCEPT !.pc = "streaming", !.epoch = src, !.cursor = start,
                                     !.reset = reset, !.foreign = foreign]
      BY <1>11 DEF Connect
    <3>2. reset \in BOOLEAN /\ foreign \in BOOLEAN
      OBVIOUS
    <3> HIDE DEF reset, foreign
    <3>3. PICK start \in 0..MaxLen :
             conn' = [conn EXCEPT !.pc = "streaming", !.epoch = src, !.cursor = start,
                                  !.reset = reset, !.foreign = foreign]
      BY <3>1
    <3>4. conn' \in Connection /\ conn'.fails = conn.fails
      BY <1>1, <3>2, <3>3 DEF Connection
    <3> QED BY <1>1, <3>1, <3>4
  <2> QED BY <1>1, <1>4, <1>5, <1>11, <2>1, <2>2 DEF Connect, SyncInv
<1>12. CASE Deliver
  <2>1. Sound(t) /\ Forward(State, t)
    BY <1>12, DeliverSound
  <2>2. conn' \in Connection /\ (conn'.pc # "stopped" => conn'.fails < BreakerLimit)
    <3> DEFINE seq == IF conn.epoch # src THEN Len(logs[src]) ELSE conn.cursor + 1
    <3>1. seq \in 1..Len(logs[src]) /\ Len(logs[src]) \in 0..MaxLen
      <4>1. logs[src] \in Seq(0..MaxTime) /\ Len(logs[src]) <= MaxLen
        BY <1>1 DEF Logs
      <4> QED BY <1>12, <4>1, LenProperties, Bounds DEF Deliver
    <3>2. conn' = [conn EXCEPT !.epoch = src, !.cursor = seq, !.reset = FALSE, !.foreign = FALSE]
      BY <1>12 DEF Deliver
    <3>3. seq \in 0..MaxLen
      BY <3>1, Bounds
    <3> HIDE DEF seq
    <3> QED BY <1>1, <3>2, <3>3 DEF Connection
  <2> QED BY <1>1, <1>3, <1>5, <1>12, <2>1, <2>2 DEF Deliver, SyncInv
<1>13. CASE StreamEnd
  <2>1. Sound(State)'
    BY <1>1, <1>3, <1>13, SoundElsewhere DEF StreamEnd
  <2>2. conn' \in Connection /\ conn'.fails < BreakerLimit
    BY <1>6, <1>13, Bounds DEF StreamEnd, Idle
  <2> QED BY <1>1, <1>4, <1>5, <1>13, <2>1, <2>2 DEF StreamEnd, SyncInv
<1>14. CASE Fail
  <2>1. Sound(t) /\ Forward(State, t)
    BY <1>1, <1>14, FailSound DEF SyncInv
  <2>2. conn' \in Connection /\ (conn'.pc # "stopped" => conn'.fails < BreakerLimit)
    <3>1. conn.fails + 1 \in 0..BreakerLimit
      BY <1>1, <1>14, Bounds DEF Fail, Connection
    <3> DEFINE fails == conn.fails + 1
               ended == Idle(fails)
    <3>2. ended \in Connection /\ ended.fails = fails
      BY <1>1, <3>1, Bounds DEF Idle, Connection
    <3>3. conn' = IF fails >= BreakerLimit THEN [ended EXCEPT !.pc = "stopped"] ELSE ended
      BY <1>14 DEF Fail, BreakerOpen
    <3> HIDE DEF fails, ended
    <3>4. CASE fails >= BreakerLimit
      BY <3>2, <3>3, <3>4 DEF Connection
    <3>5. CASE ~(fails >= BreakerLimit)
      BY <3>1, <3>2, <3>3, <3>5, Bounds DEF fails
    <3> QED BY <3>4, <3>5
  <2> QED BY <1>1, <1>3, <1>5, <1>14, <2>1, <2>2 DEF Fail, SyncInv
<1>15. CASE Crash
  <2>1. Sound(t) /\ Forward(State, t)
    BY <1>1, <1>15, LoadSound DEF Crash, Logs
  <2>2. conn' \in Connection /\ conn'.fails < BreakerLimit
    BY <1>6, <1>15, Bounds DEF Crash, Idle
  <2>3. crashes' \in 0..MaxCrashes
    BY <1>1, <1>15, Bounds DEF Crash
  <2> QED BY <1>1, <1>3, <1>5, <1>15, <2>1, <2>2, <2>3 DEF Crash, SyncInv
<1>16. CASE UNCHANGED vars
  <2>1. Sound(State)'
    BY <1>1, <1>3, <1>16, SoundElsewhere DEF vars
  <2> QED BY <1>1, <1>4, <1>5, <1>16, <2>1 DEF vars, SyncInv
<1> QED BY <1>7, <1>8, <1>9, <1>10, <1>11, <1>12, <1>13, <1>14, <1>15, <1>16 DEF Next

\* The invariant the other theorems about the feed's consumer rest on.
THEOREM SyncInvariant == Spec => []SyncInv
<1>1. SyncInv /\ [Next]_vars => SyncInv'
  BY StepSync
<1> QED BY <1>1, InitSync, PTL DEF Spec

\* Memory, store and connection keep the shape the service gives them.
THEOREM SyncTypeCorrect == Spec => []TypeOK
<1>1. SyncInv => TypeOK
  <2> SUFFICES ASSUME SyncInv PROVE TypeOK
    OBVIOUS
  <2>1. mem \in Memory /\ db \in Store /\ conn \in Connection
    BY DEF SyncInv, Sound, States, State
  <2>2. logs \in [Epochs -> UNION {[1..n -> 0..MaxTime] : n \in 0..MaxLen}]
    <3>1. ASSUME NEW e \in Epochs
          PROVE  logs[e] \in UNION {[1..n -> 0..MaxTime] : n \in 0..MaxLen}
      <4>1. logs[e] \in Seq(0..MaxTime) /\ Len(logs[e]) <= MaxLen
        BY DEF SyncInv, Logs
      <4>2. Len(logs[e]) \in 0..MaxLen /\ logs[e] \in [1..Len(logs[e]) -> 0..MaxTime]
        BY <4>1, LenProperties, Bounds
      <4> QED BY <4>2
    <3>2. logs = [e \in Epochs |-> logs[e]]
      BY DEF SyncInv, Logs
    <3> QED BY <3>1, <3>2
  <2> QED BY <2>1, <2>2 DEF SyncInv, Logs, TypeOK, Memory, Store, Connection
<1> QED BY <1>1, SyncInvariant, PTL

\* A crash at any moment neither loses an applied event nor applies it again:
\* memory, store and checkpoint name the same event in every state.
THEOREM CheckpointNamesProjection == Spec => []ProjectionMatchesCheckpoint
<1>1. SyncInv => ProjectionMatchesCheckpoint
  BY DEF SyncInv, Sound, Agree, State, ProjectionMatchesCheckpoint
<1> QED BY <1>1, SyncInvariant, PTL

\* No event is projected a second time, whatever the fail-overs, and the
\* number viewers are sent grows with every event.
THEOREM ProjectedOnce == Spec => AppliedOnce
<1>1. SyncInv /\ [Next]_vars => [mem'.ev # mem.ev => mem'.ev \notin db.log]_<<mem, db>>
  BY StepSync DEF Forward, State
<1> QED BY <1>1, SyncInvariant, PTL DEF Spec, AppliedOnce

\* The sequence number viewers are sent grows with every event that is
\* projected, across epochs, crashes and fail-overs.
THEOREM NumberedUpwards == Spec => ViewersNeverGoBack
<1>1. SyncInv /\ [Next]_vars => [mem'.ev # mem.ev => mem'.seq > mem.seq]_mem
  BY StepSync DEF Forward, State
<1> QED BY <1>1, SyncInvariant, PTL DEF Spec, ViewersNeverGoBack

\* Whichever replica answers, the projection does not go back in time by more
\* than the tolerance.
THEOREM RollbackWithinTolerance == Spec => NoMaterialRollback
<1>1. SyncInv /\ [Next]_vars => [mem'.ev # mem.ev => TimeOf(mem'.ev) + Tolerance >= mem.at]_mem
  BY StepSync DEF Forward, State
<1> QED BY <1>1, SyncInvariant, PTL DEF Spec, NoMaterialRollback
=============================================================================
