------------------------ MODULE KeeperServiceProofs -------------------------
(***************************************************************************)
(* Proofs about the keeper service: the overview of the prediction         *)
(* markets, for any number of duels, any distance the source may jump      *)
(* ahead or fall back, any number of crashes and any way the chain is      *)
(* known; and the ledger of bets, points, referrals and linked wallets,    *)
(* for any wallets and bets, finitely many or not, any number of requests  *)
(* and crashes.                                                            *)
(***************************************************************************)
EXTENDS MarketOverview, BetLedger, SumTheorems, TLAPS

(***************************************************************************)
(* The overview.                                                           *)
(***************************************************************************)

OverviewInv == TypeOK /\ SurfacesDisjoint

-----------------------------------------------------------------------------
\* The ranks of the lifecycle states are numbers, so any two can be compared.
LEMMA Ranks == \A status \in Lifecycles : StatusRank[status] \in Int
BY DEF Lifecycles, StatusRank

\* The lifecycles the overview knows, spelled out.
LEMMA Statuses ==
    Lifecycles = {"UNKNOWN", "PENDING", "OPEN", "LOCKED", "PROPOSED", "CHALLENGED", "RESOLVED", "CANCELLED"}
BY DEF Lifecycles, StatusRank

\* The course of the game: outside its pauses the source names a duel.
LEMMA CycleType ==
    ASSUME NEW p \in Positions
    PROVE  /\ Cycle(p).duel \in 0..Duels /\ Cycle(p).phase \in Phases /\ Cycle(p).winner \in Winners
           /\ Cycle(p).duel = NoDuel <=> Cycle(p).phase = "IDLE"
<1>1. p \in 0..(5 * Duels) /\ Duels \in Nat \ {0}
  BY MarketOverviewAssumption DEF Positions, Boot
<1>2. p # Boot => DuelAt(p) \in 1..Duels
  BY <1>1 DEF DuelAt, Boot
<1>3. /\ PhaseAt(p) \in Phases
      /\ p = Boot => PhaseAt(p) = "IDLE"
  BY <1>1 DEF PhaseAt, Phases, Boot
<1>4. WinnerOf(DuelAt(p)) \in Winners
  BY DEF WinnerOf, Winners
<1>5. /\ Cycle(p).duel = (IF PhaseAt(p) = "IDLE" THEN NoDuel ELSE DuelAt(p))
      /\ Cycle(p).phase = PhaseAt(p)
      /\ Cycle(p).winner = (IF PhaseAt(p) = "RESOLUTION" THEN WinnerOf(DuelAt(p)) ELSE "NONE")
  BY DEF Cycle
<1> QED BY <1>1, <1>2, <1>3, <1>4, <1>5 DEF NoDuel, Winners

\* What buildEvmPredictionMarketLifecycleRecord shows is a record or nothing.
LEMMA RecordType ==
    ASSUME TypeOK, NEW duel \in 0..Duels, NEW streamed \in 0..Duels,
           NEW snap \in Snapshots \cup {Nothing}
    PROVE  Record(duel, streamed, snap) \in Records \cup {Nothing}
<1> DEFINE shown == IF snap # Nothing THEN snap ELSE health
           key   == Coalesce(duel, Coalesce(streamed, KnownDuel(shown)))
<1>1. Duels \in Nat /\ shown \in Snapshots \cup {Nothing}
  BY MarketOverviewAssumption DEF TypeOK
<1> HIDE DEF shown
<1>2. KnownDuel(shown) \in 0..Duels
  BY <1>1 DEF KnownDuel, Snapshots, NoDuel
<1>3. key \in 0..Duels
  BY <1>2 DEF Coalesce
<1> HIDE DEF key
<1>4. Record(duel, streamed, snap) =
        IF shown = Nothing /\ ~setup.polled THEN Nothing
        ELSE IF shown = Nothing
             THEN [duel |-> key, ref |-> NoDuel, status |-> "UNKNOWN", winner |-> "NONE"]
             ELSE [duel |-> key, ref |-> shown.duel, status |-> shown.status, winner |-> shown.winner]
  BY DEF Record, shown, key
<1>5. CASE shown = Nothing
  BY <1>1, <1>3, <1>4, <1>5, Statuses DEF Records, Winners, NoDuel
<1>6. CASE shown \in Snapshots
  <2>1. shown.duel \in 1..Duels /\ shown.status \in Lifecycles /\ shown.winner \in Winners /\ shown # Nothing
    BY <1>1, <1>6 DEF Snapshots, Nothing
  <2> QED BY <1>1, <1>3, <1>4, <2>1 DEF Records
<1> QED BY <1>1, <1>5, <1>6

\* Merging two records gives a record that ranks as high as either.
LEMMA MergeType ==
    ASSUME NEW prev \in Records, NEW next \in Records
    PROVE  /\ MergeRecord(prev, next) \in Records
           /\ StatusRank[MergeRecord(prev, next).status] >= StatusRank[prev.status]
<1>1. /\ prev.status \in Lifecycles /\ next.status \in Lifecycles
      /\ StatusRank[prev.status] \in Int /\ StatusRank[next.status] \in Int
  BY Ranks DEF Records
<1> DEFINE preferred == IF PreferPrevious(prev, next) THEN prev ELSE next
           fallback  == IF PreferPrevious(prev, next) THEN next ELSE prev
           merged    == [preferred EXCEPT !.duel = Coalesce(@, fallback.duel),
                                          !.winner = CoalesceWinner(@, fallback.winner)]
<1>2. preferred \in Records /\ fallback \in Records
  OBVIOUS
<1>3. StatusRank[preferred.status] >= StatusRank[prev.status]
  BY <1>1 DEF PreferPrevious
<1> HIDE DEF preferred, fallback
<1>4. merged \in Records /\ merged.status = preferred.status
  BY <1>2 DEF Records, Coalesce, CoalesceWinner
<1>5. MergeRecord(prev, next) = merged
  BY DEF MergeRecord, preferred, fallback
<1> QED BY <1>3, <1>4, <1>5

\* A surface that is rebuilt stays the surface of its duel, keeps its market
\* and the market does not weaken.
LEMMA RefreshedType ==
    ASSUME TypeOK, NEW surface \in Surfaces, NEW streamed \in 0..Duels,
           NEW snap \in Snapshots \cup {Nothing}
    PROVE  /\ Refreshed(surface, streamed, snap) \in Surfaces
           /\ Refreshed(surface, streamed, snap) # Nothing
           /\ Refreshed(surface, streamed, snap).duel = surface.duel
           /\ surface.market # Nothing =>
                LET next == Refreshed(surface, streamed, snap).market
                IN  next # Nothing /\ StatusRank[next.status] >= StatusRank[surface.market.status]
<1> DEFINE record == Record(surface.duel, streamed, snap)
           market2 == IF record = Nothing THEN surface.market
                      ELSE IF surface.market = Nothing THEN record
                      ELSE MergeRecord(surface.market, record)
           next == [surface EXCEPT !.market = market2]
<1>1. surface.duel \in 0..Duels /\ surface.market \in Records \cup {Nothing} /\ Duels \in Nat
  BY MarketOverviewAssumption DEF Surfaces
<1>2. record \in Records \cup {Nothing}
  BY <1>1, RecordType
<1>3. \A r \in Records : r # Nothing /\ r.status \in Lifecycles /\ StatusRank[r.status] \in Int
  BY Ranks, MarketOverviewAssumption DEF Records, Nothing
<1>4. /\ market2 \in Records \cup {Nothing}
      /\ surface.market # Nothing =>
           market2 # Nothing /\ StatusRank[market2.status] >= StatusRank[surface.market.status]
  <2> HIDE DEF record
  <2>1. CASE record = Nothing \/ surface.market = Nothing
    BY <1>1, <1>2, <1>3, <2>1
  <2>2. CASE record \in Records /\ surface.market \in Records
    <3>1. market2 = MergeRecord(surface.market, record)
      BY <1>3, <2>2
    <3> QED BY <1>3, <2>2, <3>1, MergeType
  <2> QED BY <1>1, <1>2, <2>1, <2>2
<1>5. Refreshed(surface, streamed, snap) = next
  BY DEF Refreshed
<1> HIDE DEF market2
<1>6. next \in Surfaces /\ next.duel = surface.duel /\ next.market = market2
  BY <1>4 DEF Surfaces
<1>7. next # Nothing
  <2>1. Nothing.duel = -1 /\ surface.duel # -1
    BY <1>1 DEF Nothing
  <2> HIDE DEF next
  <2> QED BY <1>6, <2>1
<1> QED BY <1>4, <1>5, <1>6, <1>7

\* A surface built from a poll has its type and names the cycle's duel.
LEMMA FreshType ==
    ASSUME TypeOK, NEW p \in Positions, NEW streamed \in 0..Duels,
           NEW snap \in Snapshots \cup {Nothing}
    PROVE  /\ FreshSurface(Cycle(p), streamed, snap) \in Surfaces
           /\ Cycle(p).duel # NoDuel => FreshSurface(Cycle(p), streamed, snap).duel = Cycle(p).duel
<1> DEFINE cycle    == Cycle(p)
           record   == Record(cycle.duel, streamed, snap)
           fallback == record # Nothing /\ record.duel # NoDuel
           duel     == Coalesce(cycle.duel, IF fallback THEN record.duel ELSE NoDuel)
           winner   == CoalesceWinner(cycle.winner, IF fallback THEN record.winner ELSE "NONE")
<1>1. cycle.duel \in 0..Duels /\ cycle.phase \in Phases /\ cycle.winner \in Winners /\ Duels \in Nat
  BY CycleType, MarketOverviewAssumption
<1> HIDE DEF cycle
<1>2. record \in Records \cup {Nothing}
  BY <1>1, RecordType
<1> HIDE DEF record
<1>3. duel \in 0..Duels /\ winner \in Winners
  BY <1>1, <1>2 DEF Records, Coalesce, CoalesceWinner, NoDuel, Winners
<1>4. FreshSurface(cycle, streamed, snap) =
        [duel |-> duel, phase |-> cycle.phase, winner |-> winner, market |-> record]
  BY DEF FreshSurface, record
<1>5. cycle.duel # NoDuel => duel = cycle.duel
  BY DEF Coalesce
<1> HIDE DEF duel, winner
<1> QED BY <1>1, <1>2, <1>3, <1>4, <1>5 DEF Surfaces, cycle

\* derivePredictionMarketsOverview, whenever it runs: surfaces stay surfaces, no
\* duel is on both, the duel that was live is kept and the settlement that is
\* shown does not weaken.
LEMMA DeriveSound ==
    ASSUME OverviewInv, NEW p \in Positions, NEW streamed \in 0..Duels,
           NEW snap \in Snapshots \cup {Nothing}, Derive(Cycle(p), streamed, snap)
    PROVE  /\ live' \in Surfaces /\ recent' \in Surfaces \cup {Nothing}
           /\ SurfacesDisjoint'
           /\ live.duel # NoDuel =>
                 /\ live'.duel # NoDuel
                 /\ live'.duel # live.duel => recent' # Nothing /\ recent'.duel = live.duel
           /\ (recent # Nothing /\ recent' # Nothing /\ recent'.duel = recent.duel
                 /\ recent.duel # NoDuel /\ recent.market # Nothing)
              => /\ recent'.market # Nothing
                 /\ StatusRank[recent'.market.status] >= StatusRank[recent.market.status]
<1> DEFINE next   == IF KeepsPrevious(Cycle(p)) THEN Refreshed(live, streamed, snap)
                     ELSE FreshSurface(Cycle(p), streamed, snap)
           rolled == Rolled(next)
           again  == IF rolled = Nothing THEN Nothing ELSE Refreshed(rolled, streamed, snap)
<1>1. /\ live' = next
      /\ recent' = IF again # Nothing /\ SameDuel(again, next) THEN Nothing ELSE again
  BY DEF Derive
<1>2. /\ TypeOK /\ SurfacesDisjoint /\ live \in Surfaces /\ recent \in Surfaces \cup {Nothing}
      /\ live.duel \in 0..Duels /\ Duels \in Nat
  BY MarketOverviewAssumption DEF OverviewInv, TypeOK, Surfaces
<1>3. live # Nothing
  <2>1. Nothing.duel = -1
    BY DEF Nothing
  <2> QED BY <1>2, <2>1
<1>4. next \in Surfaces /\ (live.duel # NoDuel => next.duel # NoDuel)
  <2>1. Refreshed(live, streamed, snap) \in Surfaces /\ Refreshed(live, streamed, snap).duel = live.duel
    BY <1>2, RefreshedType
  <2>2. /\ FreshSurface(Cycle(p), streamed, snap) \in Surfaces
        /\ ~KeepsPrevious(Cycle(p)) => FreshSurface(Cycle(p), streamed, snap).duel # NoDuel
    BY <1>2, FreshType, CycleType DEF KeepsPrevious
  <2> QED BY <2>1, <2>2
<1>5. /\ rolled \in Surfaces \cup {Nothing}
      /\ rolled = IF Meaningful(live) /\ Meaningful(next) /\ ~SameDuel(live, next) THEN live ELSE recent
  BY <1>2 DEF Rolled
<1> HIDE DEF next, rolled
<1>6. /\ again \in Surfaces \cup {Nothing}
      /\ rolled = Nothing <=> again = Nothing
      /\ rolled # Nothing =>
            /\ again.duel = rolled.duel
            /\ rolled.market # Nothing =>
                 again.market # Nothing /\ StatusRank[again.market.status] >= StatusRank[rolled.market.status]
  <2>1. CASE rolled = Nothing
    BY <2>1
  <2>2. CASE rolled \in Surfaces /\ rolled # Nothing
    <3>1. again = Refreshed(rolled, streamed, snap)
      BY <2>2
    <3> HIDE DEF again
    <3> QED BY <1>2, <2>2, <3>1, RefreshedType
  <2> QED BY <1>5, <2>1, <2>2
<1> HIDE DEF again
<1>7. live' \in Surfaces /\ recent' \in Surfaces \cup {Nothing}
  BY <1>1, <1>4, <1>6
<1>8. SurfacesDisjoint'
  BY <1>1 DEF SurfacesDisjoint, SameDuel
<1>9. ASSUME live.duel # NoDuel
      PROVE  /\ live'.duel # NoDuel
             /\ live'.duel # live.duel => recent' # Nothing /\ recent'.duel = live.duel
  <2>1. live'.duel # NoDuel
    BY <1>1, <1>4, <1>9
  <2>2. ASSUME next.duel # live.duel
        PROVE  recent' # Nothing /\ recent'.duel = live.duel
    <3>1. rolled = live
      BY <1>4, <1>5, <1>9, <2>2 DEF Meaningful, SameDuel
    <3>2. again # Nothing /\ again.duel = live.duel
      BY <1>3, <1>6, <3>1
    <3> QED BY <1>1, <2>2, <3>2 DEF SameDuel
  <2> QED BY <1>1, <2>1, <2>2
<1>10. ASSUME recent # Nothing, recent' # Nothing, recent'.duel = recent.duel,
              recent.duel # NoDuel, recent.market # Nothing
       PROVE  /\ recent'.market # Nothing
              /\ StatusRank[recent'.market.status] >= StatusRank[recent.market.status]
  <2>1. recent' = again
    BY <1>1, <1>10
  <2>2. rolled # Nothing /\ rolled.duel = recent.duel
    BY <1>6, <1>10, <2>1
  <2>3. rolled = recent
    BY <1>2, <1>5, <1>10, <2>2 DEF SurfacesDisjoint
  <2> QED BY <1>6, <1>10, <2>1, <2>3
<1> QED BY <1>7, <1>8, <1>9, <1>10

-----------------------------------------------------------------------------
\* An overview built before the first poll satisfies the invariant.
LEMMA InitOverview == Init => OverviewInv
<1> SUFFICES ASSUME Init PROVE OverviewInv
  OBVIOUS
<1>1. Duels \in Nat \ {0} /\ MaxCrashes \in Nat /\ pos \in Positions
  BY MarketOverviewAssumption DEF Init, Positions, Boot
<1>2. live = FreshSurface(Cycle(Boot), NoDuel, Nothing) /\ health = Nothing
  BY DEF Init
<1>3. live \in Surfaces
  <2>1. Cycle(Boot) = [duel |-> NoDuel, phase |-> "IDLE", winner |-> "NONE"]
    BY DEF Cycle, PhaseAt
  <2>2. \/ Record(NoDuel, NoDuel, Nothing) = Nothing
        \/ Record(NoDuel, NoDuel, Nothing) = [duel |-> NoDuel, ref |-> NoDuel, status |-> "UNKNOWN", winner |-> "NONE"]
    BY <1>2 DEF Record, Coalesce, KnownDuel
  <2>3. live = [duel |-> NoDuel, phase |-> "IDLE", winner |-> "NONE", market |-> Record(NoDuel, NoDuel, Nothing)]
    <3>1. Cycle(Boot).duel = NoDuel /\ Cycle(Boot).phase = "IDLE" /\ Cycle(Boot).winner = "NONE"
      BY <2>1
    <3> QED BY <1>2, <2>2, <3>1 DEF FreshSurface, Coalesce, CoalesceWinner, NoDuel
  <2>4. Record(NoDuel, NoDuel, Nothing) \in Records \cup {Nothing}
    BY <1>1, <2>2, Statuses DEF Records, NoDuel, Winners
  <2> QED BY <1>1, <2>3, <2>4 DEF Surfaces, NoDuel, Phases, Winners
<1>4. recent = Nothing /\ SurfacesDisjoint
  BY DEF Init, SurfacesDisjoint
<1>5. market \in [1..Duels -> [status : {"PENDING", "OPEN", "LOCKED", "RESOLVED", "CANCELLED"}, winner : Winners]]
  BY DEF Init, Winners
<1> QED BY <1>1, <1>2, <1>3, <1>4, <1>5 DEF Init, OverviewInv, TypeOK

\* Steps that do not derive the overview leave it alone.
LEMMA StepOverview ==
    ASSUME OverviewInv, [Next]_vars
    PROVE  /\ OverviewInv'
           /\ \/ UNCHANGED <<live, recent>>
              \/ \E p \in Positions, streamed \in 0..Duels, snap \in Snapshots \cup {Nothing} :
                    Derive(Cycle(p), streamed, snap)
<1> DEFINE Derives == \E p \in Positions, streamed \in 0..Duels, snap \in Snapshots \cup {Nothing} :
                         Derive(Cycle(p), streamed, snap)
           ChainOK == /\ setup \in Setups /\ pos \in Positions
                      /\ market \in [1..Duels -> [status : {"PENDING", "OPEN", "LOCKED", "RESOLVED", "CANCELLED"},
                                                  winner : Winners]]
                      /\ health \in Snapshots \cup {Nothing} /\ snapshot \in Snapshots \cup {Nothing}
                      /\ poll \in -1..Duels /\ crashes \in 0..MaxCrashes
<1>1. ChainOK /\ live \in Surfaces /\ recent \in Surfaces \cup {Nothing} /\ SurfacesDisjoint
  BY DEF OverviewInv, TypeOK
<1>2. Duels \in Nat \ {0} /\ MaxCrashes \in Nat
  BY MarketOverviewAssumption
<1>3. Cycle(pos).duel \in 0..Duels
  BY <1>1, CycleType
<1>4. ASSUME ChainOK', UNCHANGED <<live, recent>>
      PROVE  OverviewInv'
  BY <1>1, <1>4 DEF OverviewInv, TypeOK, SurfacesDisjoint
<1>5. ASSUME ChainOK', Derives
      PROVE  OverviewInv'
  BY <1>5, DeriveSound DEF OverviewInv, TypeOK
<1>6. {"PENDING", "OPEN", "LOCKED", "RESOLVED", "CANCELLED", "PROPOSED", "CHALLENGED"} \subseteq Lifecycles
  BY Statuses
<1>7. CASE ApplyCycle /\ UNCHANGED setup
  <2>1. PICK p \in Positions : /\ pos' = p /\ Derive(Cycle(p), Cycle(pos).duel, snapshot)
                               /\ UNCHANGED <<market, health, snapshot, poll, crashes>>
    BY <1>7 DEF ApplyCycle
  <2> QED BY <1>1, <1>3, <1>5, <1>7, <2>1
<1>8. CASE BeginPoll /\ UNCHANGED setup
  <2>1. KnownDuel(snapshot) \in 0..Duels /\ KnownDuel(health) \in 0..Duels
    BY <1>1, <1>2 DEF KnownDuel, Snapshots, NoDuel
  <2>2. poll' \in -1..Duels
    BY <1>2, <1>3, <1>8, <2>1 DEF BeginPoll, Coalesce
  <2> QED BY <1>1, <1>4, <1>8, <2>2 DEF BeginPoll
<1>9. CASE EndPoll /\ UNCHANGED setup
  <2>1. snapshot' \in Snapshots \cup {Nothing}
    <3>1. CASE snapshot' = snapshot
      BY <1>1, <3>1
    <3>2. CASE snapshot' # snapshot
      <4>1. poll \in 1..Duels
        BY <1>1, <1>2, <1>9, <3>2 DEF EndPoll, NoDuel
      <4>2. snapshot' = [duel |-> poll, status |-> market[poll].status, winner |-> market[poll].winner]
        BY <1>9, <3>2 DEF EndPoll
      <4>3. market[poll].status \in Lifecycles /\ market[poll].winner \in Winners
        BY <1>1, <1>6, <4>1
      <4> QED BY <4>1, <4>2, <4>3 DEF Snapshots
    <3> QED BY <3>1, <3>2
  <2>2. poll' \in -1..Duels /\ Derive(Cycle(pos), Cycle(pos).duel, snapshot')
    BY <1>2, <1>9 DEF EndPoll
  <2> QED BY <1>1, <1>3, <1>5, <1>9, <2>1, <2>2 DEF EndPoll
<1>10. CASE Crash /\ UNCHANGED setup
  <2>1. poll' \in -1..Duels /\ crashes' \in 0..MaxCrashes
    BY <1>1, <1>2, <1>10 DEF Crash
  <2> QED BY <1>1, <1>4, <1>10, <2>1 DEF Crash
<1>11. CASE MarketMoves /\ UNCHANGED setup
  <2>1. PICK d \in 1..Duels :
          \/ market' = [market EXCEPT ![d].status = "OPEN"]
          \/ market' = [market EXCEPT ![d].status = "LOCKED"]
          \/ market' = [market EXCEPT ![d] = [status |-> "RESOLVED", winner |-> WinnerOf(d)]]
          \/ market' = [market EXCEPT ![d].status = "CANCELLED"]
    BY <1>11 DEF MarketMoves
  <2>2. WinnerOf(d) \in Winners
    BY DEF WinnerOf, Winners
  <2>3. market' \in [1..Duels -> [status : {"PENDING", "OPEN", "LOCKED", "RESOLVED", "CANCELLED"}, winner : Winners]]
    BY <1>1, <2>1, <2>2
  <2> QED BY <1>1, <1>4, <1>11, <2>3 DEF MarketMoves
<1>12. CASE BotWrites /\ UNCHANGED setup
  <2>1. PICK d \in 1..Duels :
          \E status \in {market[d].status} \cup
                (IF market[d].status = "LOCKED" THEN {"PROPOSED", "CHALLENGED"} ELSE {}) :
             health' = [duel |-> d, status |-> status, winner |-> market[d].winner]
    BY <1>12 DEF BotWrites
  <2>2. market[d].status \in Lifecycles /\ market[d].winner \in Winners
    BY <1>1, <1>6
  <2>3. health' \in Snapshots \cup {Nothing}
    BY <1>6, <2>1, <2>2 DEF Snapshots
  <2> QED BY <1>1, <1>4, <1>12, <2>3 DEF BotWrites
<1>13. CASE UNCHANGED vars
  BY <1>1, <1>4, <1>13 DEF vars
<1> QED BY <1>7, <1>8, <1>9, <1>10, <1>11, <1>12, <1>13 DEF Next

\* The invariant the other theorems about the overview rest on.
THEOREM OverviewInvariant == Spec => []OverviewInv
<1>1. OverviewInv /\ [Next]_vars => OverviewInv'
  BY StepOverview
<1> QED BY <1>1, InitOverview, PTL DEF Spec

\* No duel is live and settled at once.
THEOREM LiveAndSettledDisjoint == Spec => []SurfacesDisjoint
<1>1. OverviewInv => SurfacesDisjoint
  BY DEF OverviewInv
<1> QED BY <1>1, OverviewInvariant, PTL

\* The duel that just finished is not lost.
THEOREM HandoffKeepsDuel == Spec => FinishedDuelKept
<1>1. OverviewInv /\ [Next]_vars =>
        [live.duel # NoDuel =>
          /\ live'.duel # NoDuel
          /\ live'.duel # live.duel => recent' # Nothing /\ recent'.duel = live.duel]_<<live, recent>>
  BY StepOverview, DeriveSound
<1> QED BY <1>1, OverviewInvariant, PTL DEF Spec, FinishedDuelKept

\* What is shown of a settlement does not weaken.
THEOREM SettlementOnlyStrengthens == Spec => SettlementNeverWeakens
<1>1. OverviewInv /\ [Next]_vars =>
        [(recent # Nothing /\ recent' # Nothing /\ recent'.duel = recent.duel
            /\ recent.duel # NoDuel /\ recent.market # Nothing)
         => /\ recent'.market # Nothing
            /\ StatusRank[recent'.market.status] >= StatusRank[recent.market.status]]_recent
  BY StepOverview, DeriveSound
<1> QED BY <1>1, OverviewInvariant, PTL DEF Spec, SettlementNeverWeakens

(***************************************************************************)
(* The ledger.                                                             *)
(*                                                                         *)
(* A handler is cut off between any two statements, so what it leaves is   *)
(* split in two.  Sound is what every prefix of a handler keeps: totals    *)
(* that cover the history, and payments that were due.  Even and Whole are *)
(* what a whole handler keeps: totals equal to the history, and a          *)
(* partition into identities.  Each statement has one lemma, and an event  *)
(* has the condition (Due) under which it may be written.                  *)
(***************************************************************************)

\* A history is a bag of finitely many events.
IsHistory(events) ==
    /\ events \in [DOMAIN events -> Nat \ {0}]
    /\ DOMAIN events \subseteq Events
    /\ IsFiniteSet(DOMAIN events)

\* No wallet has fewer points than its events show.
Covered(d) == \A w \in Wallets : d.points[w] >= Worth(d.events, PointsOf(w))

\* A bet that is not recorded was not paid for.
OncePerBet(d) ==
    \A ref \in Refs :
        /\ ref \notin d.bets => Worth(d.events, Paid("BET_PLACED", ref)) = 0
        /\ Worth(d.events, Paid("BET_PLACED", ref)) <= 1
        /\ Worth(d.events, Paid("REFERRAL_WIN", ref)) <= Worth(d.events, Paid("BET_PLACED", ref))

\* No bonus was paid for a wallet that nobody referred.
OncePerWallet(d) ==
    \A w \in Wallets :
        /\ {i \in Wallets : w \in d.invited[i]} \subseteq {d.referrer[w]}
        /\ d.referrer[w] = None => Worth(d.events, PaidTo(w, "SIGNUP_REFEREE")) = 0
        /\ Worth(d.events, PaidTo(w, "SIGNUP_REFEREE")) <= 1
        /\ Worth(d.events, Paid("SIGNUP_REFERRER", w)) <= Worth(d.events, PaidTo(w, "SIGNUP_REFEREE"))

\* Tables as any prefix of a handler may leave them.
Sound(d) ==
    /\ d \in Tables(d.events)
    /\ IsHistory(d.events)
    /\ \A w \in Wallets : d.referrer[w] # w
    /\ Covered(d) /\ OncePerBet(d) /\ OncePerWallet(d)

\* Totals and history as a whole handler leaves them.
Even(d) == \A w \in Wallets : d.points[w] = Worth(d.events, PointsOf(w))

\* Identities as a whole handler leaves them: a wallet is a member of the
\* identity it names and of no other, and the identity's own wallet is too.
Whole(d) ==
    \A w \in Wallets :
        /\ \A c \in Wallets : w \in d.members[c] <=> d.canonical[w] = c
        /\ d.canonical[w] # None => d.canonical[d.canonical[w]] = d.canonical[w]

LedgerInv ==
    /\ Sound(db)
    /\ deaths = 0 => Even(db) /\ Whole(db)
    /\ requests \in 0..MaxRequests /\ deaths \in 0..MaxDeaths

-----------------------------------------------------------------------------
\* A value for each event.
Values == [Events -> Nat]

LEMMA ValuesAreValues ==
    /\ \A w \in Wallets : PointsOf(w) \in Values
    /\ \A type, about : Paid(type, about) \in Values
    /\ \A w, type : PaidTo(w, type) \in Values
<1>1. \A w \in Wallets : PointsOf(w) \in Values
  BY DEF PointsOf, Values, Events
<1>2. \A type, about : Paid(type, about) \in Values
  BY DEF Paid, Values
<1>3. \A w, type : PaidTo(w, type) \in Values
  BY DEF PaidTo, Values
<1> QED BY <1>1, <1>2, <1>3

\* What a history is worth is a number.
LEMMA WorthType ==
    ASSUME NEW events, IsHistory(events), NEW value \in Values
    PROVE  Worth(events, value) \in Nat
<1> DEFINE S == DOMAIN events
           f == [e \in S |-> value[e] * events[e]]
<1>1. \A e \in S : value[e] \in Nat /\ events[e] \in Nat
  BY DEF IsHistory, Values
<1>2. \A m, n \in Nat : m * n \in Nat
  OBVIOUS
<1>3. f \in [S -> Nat]
  BY <1>1, <1>2
<1>4. IsFiniteSet(S) /\ Worth(events, value) = SumFunction(f)
  BY DEF IsHistory, Worth
<1> HIDE DEF f, S
<1>5. f \in [S -> Int]
  BY <1>3
<1> QED BY <1>3, <1>4, <1>5, TotalType

\* An empty history is worth nothing.
LEMMA WorthOfNothing ==
    ASSUME NEW value
    PROVE  Worth(EmptyBag, value) = 0
<1> DEFINE f == [e \in {} |-> value[e] * EmptyBag[e]]
<1>1. DOMAIN EmptyBag = {}
  BY DEF EmptyBag, SetToBag
<1>2. Worth(EmptyBag, value) = SumFunction(f)
  BY <1>1 DEF Worth
<1>3. f \in [{} -> Int] /\ \A x \in {} : f[x] = 0
  OBVIOUS
<1> HIDE DEF f
<1>4. IsFiniteSet({})
  BY FS_EmptySet
<1>5. SumFunction(f) = 0
  BY <1>3, <1>4, TotalZero
<1> QED BY <1>2, <1>5

\* One more event is a history, worth as much more as the event.
LEMMA OneMoreEvent ==
    ASSUME NEW events, IsHistory(events), NEW x \in Events
    PROVE  /\ IsHistory(events (+) SetToBag({x}))
           /\ \A value \in Values : Worth(events (+) SetToBag({x}), value) = Worth(events, value) + value[x]
<1> DEFINE S == DOMAIN events
           more == events (+) SetToBag({x})
<1>1. IsFiniteSet(S) /\ S \subseteq Events /\ events \in [S -> Nat \ {0}]
  BY DEF IsHistory
<1> DEFINE one == SetToBag({x})
<1>0. DOMAIN one = {x} /\ one[x] = 1
  BY DEF SetToBag
<1>4. more = [e \in S \cup {x} |-> (IF e \in S THEN events[e] ELSE 0) + (IF e = x THEN 1 ELSE 0)]
  <2> HIDE DEF one
  <2>1. \A e : e \in DOMAIN one <=> e = x
    BY <1>0
  <2>2. events (+) one = [e \in S \cup DOMAIN one |->
            (IF e \in S THEN events[e] ELSE 0) + (IF e \in DOMAIN one THEN one[e] ELSE 0)]
    BY DEF (+)
  <2> USE DEF one
  <2> QED BY <1>0, <2>1, <2>2
<1>5. \A e \in S : events[e] \in Nat /\ events[e] + 0 = events[e]
  BY <1>1
<1> HIDE DEF more, one
<1>2. CASE x \in S
  <2>1. more = [e \in S |-> IF e = x THEN events[e] + 1 ELSE events[e]]
    <3>1. S \cup {x} = S
      BY <1>2
    <3> QED BY <1>2, <1>4, <1>5, <3>1
  <2>2. IsHistory(more)
    BY <1>1, <2>1 DEF IsHistory
  <2>3. ASSUME NEW value \in Values
        PROVE  Worth(more, value) = Worth(events, value) + value[x]
    <3> DEFINE f == [e \in S |-> value[e] * events[e]]
               g == [e \in S |-> value[e] * more[e]]
    <3>1. \A e \in S : value[e] \in Nat /\ events[e] \in Nat /\ more[e] \in Nat
      BY <1>1, <2>1 DEF Values
    <3>2. \A m, n \in Nat : m * n \in Nat /\ m * (n + 1) = m * n + m
      OBVIOUS
    <3>3. f \in [S -> Int] /\ g \in [S -> Int] /\ f[x] \in Nat
      BY <1>2, <3>1, <3>2
    <3>4. \A e \in S : e # x => g[e] = f[e]
      BY <2>1
    <3>5. g[x] = value[x] * (events[x] + 1) /\ f[x] = value[x] * events[x]
      BY <1>2, <2>1
    <3>6. g[x] = f[x] + value[x]
      BY <1>2, <3>1, <3>2, <3>5
    <3>7. Worth(events, value) = SumFunction(f) /\ Worth(more, value) = SumFunction(g)
      BY <2>1 DEF Worth
    <3>8. value[x] \in Nat
      BY <1>2, <3>1
    <3> HIDE DEF f, g, more, S
    <3>9. SumFunction(g) = SumFunction(f) - f[x] + g[x]
      BY <1>1, <1>2, <3>3, <3>4, TotalChange
    <3>10. SumFunction(f) \in Int
      BY <1>1, <3>3, TotalType
    <3> QED BY <3>3, <3>6, <3>7, <3>8, <3>9, <3>10
  <2> QED BY <2>2, <2>3 DEF more, one
<1>3. CASE x \notin S
  <2> DEFINE T == S \cup {x}
  <2>1. more = [e \in T |-> IF e = x THEN 1 ELSE events[e]]
    BY <1>3, <1>4, <1>5
  <2>2. IsFiniteSet(T) /\ T \subseteq Events /\ T \ {x} = S
    <3>1. \A U : U = S => IsFiniteSet(U \cup {x})
      BY <1>1, FS_AddElement
    <3> HIDE DEF S
    <3>2. IsFiniteSet(T)
      BY <3>1
    <3>3. T \subseteq Events /\ T \ {x} = S
      BY <1>1, <1>3
    <3> QED BY <3>2, <3>3
  <2>3. IsHistory(more)
    BY <1>1, <2>1, <2>2 DEF IsHistory
  <2>4. ASSUME NEW value \in Values
        PROVE  Worth(more, value) = Worth(events, value) + value[x]
    <3> DEFINE f == [e \in S |-> value[e] * events[e]]
               g == [e \in T |-> value[e] * more[e]]
    <3>1. \A e \in T : value[e] \in Nat /\ more[e] \in Nat
      BY <1>1, <2>1, <2>2 DEF Values
    <3>2. \A m, n \in Nat : m * n \in Nat /\ m * 1 = m
      OBVIOUS
    <3>3. \A e \in T : g[e] \in Int
      BY <3>1, <3>2
    <3>4. \A e \in S : g[e] = f[e]
      BY <1>3, <2>1
    <3>5. g[x] = value[x] * 1
      BY <2>1
    <3>6. g[x] = value[x]
      BY <3>1, <3>2, <3>5
    <3>7. Worth(events, value) = SumFunction(f) /\ Worth(more, value) = SumFunction(g)
      BY <2>1 DEF Worth
    <3>8. SumFunction(f) = SumFunctionOnSet(f, S) /\ SumFunction(g) = SumFunctionOnSet(g, T)
      BY DEF SumFunction
    <3>9. x \in T /\ value[x] \in Nat
      BY <3>1
    <3>10. \A e \in S : g[e] \in Int
      BY <3>3
    <3> HIDE DEF f, g, more, S, T
    <3>11. SumFunctionOnSet(g, T) = g[x] + SumFunctionOnSet(g, S)
      BY <2>2, <3>3, <3>9, SumSplit
    <3>12. SumFunctionOnSet(g, S) = SumFunctionOnSet(f, S)
      BY <1>1, <3>4, SumSame
    <3>13. SumFunctionOnSet(g, S) \in Int
      BY <1>1, <3>10, SumType
    <3> QED BY <3>6, <3>7, <3>8, <3>9, <3>11, <3>12, <3>13
  <2> QED BY <2>3, <2>4 DEF more, one
<1> QED BY <1>2, <1>3

-----------------------------------------------------------------------------
(* What each statement changes, and what it keeps sound. *)

LEMMA BetSaved ==
    ASSUME NEW d, Sound(d), NEW ref \in Refs \cup {None}
    PROVE  LET e == SaveBet(d, ref)
           IN  /\ Sound(e)
               /\ ref \in Refs => ref \in e.bets
               /\ e.points = d.points /\ e.events = d.events /\ e.referrer = d.referrer
               /\ e.canonical = d.canonical /\ e.members = d.members /\ e.codes = d.codes
<1> DEFINE e == SaveBet(d, ref)
<1>1. /\ e.bets = d.bets \cup ({ref} \ {None}) /\ e.points = d.points /\ e.events = d.events
      /\ e.canonical = d.canonical /\ e.members = d.members /\ e.codes = d.codes
      /\ e.referrer = d.referrer /\ e.invited = d.invited /\ e.fees = d.fees
      /\ e \in Tables(e.events)
  BY DEF Sound, Tables, SaveBet
<1> HIDE DEF e
<1>2. ref \in Refs => ref \in e.bets
  BY <1>1, LedgerAssumption
<1>3. Covered(e) /\ OncePerBet(e) /\ OncePerWallet(e)
  BY <1>1 DEF Sound, Covered, OncePerBet, OncePerWallet
<1> QED BY <1>1, <1>2, <1>3 DEF Sound, e

LEMMA PointsSaved ==
    ASSUME NEW d, Sound(d), NEW w \in Wallets, NEW n \in Nat
    PROVE  LET e == SavePoints(d, w, n)
           IN  /\ Sound(e)
               /\ e.points = [d.points EXCEPT ![w] = @ + n]
               /\ e.bets = d.bets /\ e.events = d.events /\ e.referrer = d.referrer
               /\ e.canonical = d.canonical /\ e.members = d.members /\ e.codes = d.codes
<1> DEFINE e == SavePoints(d, w, n)
<1>0. d.points \in [Wallets -> Nat] /\ d.points[w] + n \in Nat
  BY DEF Sound, Tables
<1>1. /\ e.points = [d.points EXCEPT ![w] = @ + n] /\ e.bets = d.bets /\ e.events = d.events
      /\ e.canonical = d.canonical /\ e.members = d.members /\ e.codes = d.codes
      /\ e.referrer = d.referrer /\ e.invited = d.invited /\ e.fees = d.fees
      /\ e \in Tables(e.events)
  BY <1>0 DEF Sound, Tables, SavePoints
<1> HIDE DEF e
<1>2. \A v \in Wallets : Worth(d.events, PointsOf(v)) \in Nat
  BY WorthType, ValuesAreValues DEF Sound
<1>3. Covered(e)
  BY <1>0, <1>1, <1>2 DEF Sound, Covered
<1>4. OncePerBet(e) /\ OncePerWallet(e)
  BY <1>1 DEF Sound, OncePerBet, OncePerWallet
<1> QED BY <1>1, <1>3, <1>4 DEF Sound, e

LEMMA FeeSaved ==
    ASSUME NEW d, Sound(d), NEW w \in Wallets
    PROVE  LET e == SaveFee(d, w)
           IN  /\ Sound(e)
               /\ e.bets = d.bets /\ e.points = d.points /\ e.events = d.events
               /\ e.referrer = d.referrer /\ e.canonical = d.canonical
               /\ e.members = d.members /\ e.codes = d.codes
<1> DEFINE e == SaveFee(d, w)
<1>0. d.fees \in [Wallets -> Nat] /\ d.fees[w] + 1 \in Nat
  BY DEF Sound, Tables
<1>1. /\ e.points = d.points /\ e.bets = d.bets /\ e.events = d.events
      /\ e.canonical = d.canonical /\ e.members = d.members /\ e.codes = d.codes
      /\ e.referrer = d.referrer /\ e.invited = d.invited
      /\ e \in Tables(e.events)
  BY <1>0 DEF Sound, Tables, SaveFee
<1> HIDE DEF e
<1>2. Covered(e) /\ OncePerBet(e) /\ OncePerWallet(e)
  BY <1>1 DEF Sound, Covered, OncePerBet, OncePerWallet
<1> QED BY <1>1, <1>2 DEF Sound, e

\* A referral is written for a wallet that has none.
LEMMA ReferralSaved ==
    ASSUME NEW d, Sound(d), NEW w \in Wallets, NEW code \in Wallets, code # w, d.referrer[w] = None
    PROVE  LET e == SaveReferral(d, w, code)
           IN  /\ Sound(e)
               /\ e.referrer = [d.referrer EXCEPT ![w] = code]
               /\ e.bets = d.bets /\ e.points = d.points /\ e.events = d.events
               /\ e.canonical = d.canonical /\ e.members = d.members /\ e.codes = d.codes
<1> DEFINE e == SaveReferral(d, w, code)
<1>0. d.referrer \in [Wallets -> Maybe] /\ code \in Maybe /\ code # None
  BY LedgerAssumption DEF Sound, Tables, Maybe
<1>1. /\ e.points = d.points /\ e.bets = d.bets /\ e.events = d.events
      /\ e.canonical = d.canonical /\ e.members = d.members /\ e.codes = d.codes
      /\ e.referrer = [d.referrer EXCEPT ![w] = code] /\ e.invited = d.invited /\ e.fees = d.fees
      /\ e \in Tables(e.events)
  BY <1>0 DEF Sound, Tables, SaveReferral
<1> HIDE DEF e
<1>2. Covered(e) /\ OncePerBet(e)
  BY <1>1 DEF Sound, Covered, OncePerBet
<1>3. ASSUME NEW v \in Wallets
      PROVE  /\ e.referrer[v] # v
             /\ {i \in Wallets : v \in e.invited[i]} \subseteq {e.referrer[v]}
             /\ e.referrer[v] = None => d.referrer[v] = None
  <2>1. CASE v = w
    BY <1>0, <1>1, <2>1, LedgerAssumption DEF Sound, OncePerWallet
  <2>2. CASE v # w
    BY <1>0, <1>1, <2>2 DEF Sound, OncePerWallet
  <2> QED BY <2>1, <2>2
<1>4. OncePerWallet(e)
  BY <1>1, <1>3 DEF Sound, OncePerWallet
<1> QED BY <1>1, <1>2, <1>3, <1>4 DEF Sound, e

\* An invited wallet is listed by its referrer.
LEMMA InvitedSaved ==
    ASSUME NEW d, Sound(d), NEW w \in Wallets, NEW code \in Wallets, d.referrer[w] = code
    PROVE  LET e == SaveInvited(d, code, w)
           IN  /\ Sound(e)
               /\ e.referrer = d.referrer
               /\ e.bets = d.bets /\ e.points = d.points /\ e.events = d.events
               /\ e.canonical = d.canonical /\ e.members = d.members /\ e.codes = d.codes
<1> DEFINE e == SaveInvited(d, code, w)
<1>0. d.invited \in [Wallets -> SUBSET Wallets] /\ d.invited[code] \cup {w} \in SUBSET Wallets
  BY DEF Sound, Tables
<1>1. /\ e.points = d.points /\ e.bets = d.bets /\ e.events = d.events
      /\ e.canonical = d.canonical /\ e.members = d.members /\ e.codes = d.codes
      /\ e.referrer = d.referrer /\ e.fees = d.fees
      /\ e.invited = [d.invited EXCEPT ![code] = @ \cup {w}]
      /\ e \in Tables(e.events)
  BY <1>0 DEF Sound, Tables, SaveInvited
<1> HIDE DEF e
<1>2. Covered(e) /\ OncePerBet(e)
  BY <1>1 DEF Sound, Covered, OncePerBet
<1>3. ASSUME NEW v \in Wallets
      PROVE  {i \in Wallets : v \in e.invited[i]} \subseteq {e.referrer[v]}
  BY <1>0, <1>1 DEF Sound, OncePerWallet
<1>4. OncePerWallet(e)
  BY <1>1, <1>3 DEF Sound, OncePerWallet
<1> QED BY <1>1, <1>2, <1>4 DEF Sound, e

LEMMA CodeSaved ==
    ASSUME NEW d, Sound(d), NEW w \in Wallets
    PROVE  LET e == SaveCode(d, w)
           IN  /\ Sound(e)
               /\ e.bets = d.bets /\ e.points = d.points /\ e.events = d.events
               /\ e.referrer = d.referrer /\ e.canonical = d.canonical /\ e.members = d.members
<1> DEFINE e == SaveCode(d, w)
<1>1. /\ e.points = d.points /\ e.bets = d.bets /\ e.events = d.events
      /\ e.canonical = d.canonical /\ e.members = d.members
      /\ e.referrer = d.referrer /\ e.invited = d.invited /\ e.fees = d.fees
      /\ e \in Tables(e.events)
  BY DEF Sound, Tables, SaveCode
<1> HIDE DEF e
<1>2. Covered(e) /\ OncePerBet(e) /\ OncePerWallet(e)
  BY <1>1 DEF Sound, Covered, OncePerBet, OncePerWallet
<1> QED BY <1>1, <1>2 DEF Sound, e

LEMMA CanonicalSaved ==
    ASSUME NEW d, Sound(d), NEW some, NEW c \in Wallets
    PROVE  LET e == SaveCanonical(d, some, c)
           IN  /\ Sound(e)
               /\ e.canonical = [w \in Wallets |-> IF w \in some THEN c ELSE d.canonical[w]]
               /\ e.bets = d.bets /\ e.points = d.points /\ e.events = d.events
               /\ e.referrer = d.referrer /\ e.members = d.members /\ e.codes = d.codes
<1> DEFINE e == SaveCanonical(d, some, c)
           canonical == [w \in Wallets |-> IF w \in some THEN c ELSE d.canonical[w]]
<1>0. canonical \in [Wallets -> Maybe]
  BY DEF Sound, Tables, Maybe
<1>1. /\ e.points = d.points /\ e.bets = d.bets /\ e.events = d.events
      /\ e.canonical = canonical /\ e.members = d.members /\ e.codes = d.codes
      /\ e.referrer = d.referrer /\ e.invited = d.invited /\ e.fees = d.fees
      /\ e \in Tables(e.events)
  <2>1. e = [d EXCEPT !.canonical = canonical]
    BY DEF SaveCanonical
  <2> HIDE DEF e, canonical
  <2> QED BY <1>0, <2>1 DEF Sound, Tables
<1> HIDE DEF e
<1>2. Covered(e) /\ OncePerBet(e) /\ OncePerWallet(e)
  BY <1>1 DEF Sound, Covered, OncePerBet, OncePerWallet
<1> QED BY <1>1, <1>2 DEF Sound, e

LEMMA MembersSaved ==
    ASSUME NEW d, Sound(d), NEW c \in Wallets, NEW members \in SUBSET Wallets
    PROVE  LET e == SaveMembers(d, c, members)
           IN  /\ Sound(e)
               /\ e.members = [d.members EXCEPT ![c] = members]
               /\ e.bets = d.bets /\ e.points = d.points /\ e.events = d.events
               /\ e.referrer = d.referrer /\ e.canonical = d.canonical /\ e.codes = d.codes
<1> DEFINE e == SaveMembers(d, c, members)
<1>0. d.members \in [Wallets -> SUBSET Wallets]
  BY DEF Sound, Tables
<1>1. /\ e.points = d.points /\ e.bets = d.bets /\ e.events = d.events
      /\ e.canonical = d.canonical /\ e.codes = d.codes
      /\ e.members = [d.members EXCEPT ![c] = members]
      /\ e.referrer = d.referrer /\ e.invited = d.invited /\ e.fees = d.fees
      /\ e \in Tables(e.events)
  BY <1>0 DEF Sound, Tables, SaveMembers
<1> HIDE DEF e
<1>2. Covered(e) /\ OncePerBet(e) /\ OncePerWallet(e)
  BY <1>1 DEF Sound, Covered, OncePerBet, OncePerWallet
<1> QED BY <1>1, <1>2 DEF Sound, e

\* An event is due when the totals already have its points, and when it is a
\* payment, when nothing of its kind was paid before.
Due(d, w, type, points, about) ==
    /\ d.points[w] >= Worth(d.events, PointsOf(w)) + points
    /\ type = "BET_PLACED" /\ about \in Refs =>
          about \in d.bets /\ Worth(d.events, Paid("BET_PLACED", about)) = 0
    /\ type = "REFERRAL_WIN" /\ about \in Refs =>
          Worth(d.events, Paid("REFERRAL_WIN", about)) < Worth(d.events, Paid("BET_PLACED", about))
    /\ type = "SIGNUP_REFEREE" =>
          d.referrer[w] # None /\ Worth(d.events, PaidTo(w, "SIGNUP_REFEREE")) = 0
    /\ type = "SIGNUP_REFERRER" /\ about \in Wallets =>
          Worth(d.events, Paid("SIGNUP_REFERRER", about)) < Worth(d.events, PaidTo(about, "SIGNUP_REFEREE"))

LEMMA EventSaved ==
    ASSUME NEW d, Sound(d), NEW w \in Wallets, NEW type \in EventTypes, NEW points \in Nat,
           NEW about \in Maybe \cup Refs, Due(d, w, type, points, about)
    PROVE  LET e == SaveEvent(d, w, type, points, about)
               x == [wallet |-> w, type |-> type, points |-> points, about |-> about]
           IN  /\ Sound(e)
               /\ x \in Events
               /\ \A value \in Values : Worth(e.events, value) = Worth(d.events, value) + value[x]
               /\ e.bets = d.bets /\ e.points = d.points /\ e.referrer = d.referrer
               /\ e.canonical = d.canonical /\ e.members = d.members /\ e.codes = d.codes
<1> DEFINE e == SaveEvent(d, w, type, points, about)
           x == [wallet |-> w, type |-> type, points |-> points, about |-> about]
<1>1. x \in Events
  BY DEF Events
<1>2. /\ e.points = d.points /\ e.bets = d.bets /\ e.events = d.events (+) SetToBag({x})
      /\ e.canonical = d.canonical /\ e.members = d.members /\ e.codes = d.codes
      /\ e.referrer = d.referrer /\ e.invited = d.invited /\ e.fees = d.fees
      /\ e \in Tables(e.events)
  BY DEF Sound, Tables, SaveEvent
<1>3. /\ IsHistory(e.events)
      /\ \A value \in Values : Worth(e.events, value) = Worth(d.events, value) + value[x]
  BY <1>1, <1>2, OneMoreEvent DEF Sound
<1>4. \A value \in Values : Worth(d.events, value) \in Nat
  BY WorthType DEF Sound
<1>5. /\ \A v \in Wallets : PointsOf(v)[x] = IF w = v THEN points ELSE 0
      /\ \A t, a : Paid(t, a)[x] = IF type = t /\ about = a THEN 1 ELSE 0
      /\ \A v, t : PaidTo(v, t)[x] = IF type = t /\ w = v THEN 1 ELSE 0
  BY <1>1 DEF PointsOf, Paid, PaidTo
<1>6. /\ \A v \in Wallets : Worth(e.events, PointsOf(v)) =
            Worth(d.events, PointsOf(v)) + (IF w = v THEN points ELSE 0)
      /\ \A t, a : Worth(e.events, Paid(t, a)) =
            Worth(d.events, Paid(t, a)) + (IF type = t /\ about = a THEN 1 ELSE 0)
      /\ \A v, t : Worth(e.events, PaidTo(v, t)) =
            Worth(d.events, PaidTo(v, t)) + (IF type = t /\ w = v THEN 1 ELSE 0)
  BY <1>3, <1>5, ValuesAreValues
<1>7. /\ \A v \in Wallets : Worth(d.events, PointsOf(v)) \in Nat
      /\ \A t, a : Worth(d.events, Paid(t, a)) \in Nat
      /\ \A v, t : Worth(d.events, PaidTo(v, t)) \in Nat
  BY <1>4, ValuesAreValues
<1> HIDE DEF e, x
<1>8. Covered(e)
  <2> SUFFICES ASSUME NEW v \in Wallets
               PROVE  e.points[v] >= Worth(e.events, PointsOf(v))
    BY DEF Covered
  <2>1. /\ Worth(e.events, PointsOf(v)) = Worth(d.events, PointsOf(v)) + (IF w = v THEN points ELSE 0)
        /\ Worth(d.events, PointsOf(v)) \in Nat
    BY <1>6, <1>7
  <2>2. d.points[v] >= Worth(d.events, PointsOf(v)) /\ e.points[v] = d.points[v]
    BY <1>2 DEF Sound, Covered
  <2>3. CASE w = v
    BY <2>1, <2>2, <2>3 DEF Due
  <2>4. CASE w # v
    BY <2>1, <2>2, <2>4
  <2> QED BY <2>3, <2>4
<1>9. OncePerBet(e)
  <2> SUFFICES ASSUME NEW ref \in Refs
               PROVE  /\ ref \notin e.bets => Worth(e.events, Paid("BET_PLACED", ref)) = 0
                      /\ Worth(e.events, Paid("BET_PLACED", ref)) <= 1
                      /\ Worth(e.events, Paid("REFERRAL_WIN", ref)) <= Worth(e.events, Paid("BET_PLACED", ref))
    BY DEF OncePerBet
  <2>1. /\ ref \notin d.bets => Worth(d.events, Paid("BET_PLACED", ref)) = 0
        /\ Worth(d.events, Paid("BET_PLACED", ref)) <= 1
        /\ Worth(d.events, Paid("REFERRAL_WIN", ref)) <= Worth(d.events, Paid("BET_PLACED", ref))
    BY DEF Sound, OncePerBet
  <2>2. /\ Worth(e.events, Paid("BET_PLACED", ref)) =
              Worth(d.events, Paid("BET_PLACED", ref)) + (IF type = "BET_PLACED" /\ about = ref THEN 1 ELSE 0)
        /\ Worth(e.events, Paid("REFERRAL_WIN", ref)) =
              Worth(d.events, Paid("REFERRAL_WIN", ref)) + (IF type = "REFERRAL_WIN" /\ about = ref THEN 1 ELSE 0)
        /\ Worth(d.events, Paid("BET_PLACED", ref)) \in Nat
        /\ Worth(d.events, Paid("REFERRAL_WIN", ref)) \in Nat
    BY <1>6, <1>7
  <2>3. CASE type = "BET_PLACED" /\ about = ref
    BY <1>2, <2>1, <2>2, <2>3 DEF Due
  <2>4. CASE type = "REFERRAL_WIN" /\ about = ref
    BY <1>2, <2>1, <2>2, <2>4 DEF Due
  <2>5. CASE ~(type = "BET_PLACED" /\ about = ref) /\ ~(type = "REFERRAL_WIN" /\ about = ref)
    BY <1>2, <2>1, <2>2, <2>5
  <2> QED BY <2>3, <2>4, <2>5
<1>10. OncePerWallet(e)
  <2> SUFFICES ASSUME NEW v \in Wallets
               PROVE  /\ {i \in Wallets : v \in e.invited[i]} \subseteq {e.referrer[v]}
                      /\ e.referrer[v] = None => Worth(e.events, PaidTo(v, "SIGNUP_REFEREE")) = 0
                      /\ Worth(e.events, PaidTo(v, "SIGNUP_REFEREE")) <= 1
                      /\ Worth(e.events, Paid("SIGNUP_REFERRER", v)) <= Worth(e.events, PaidTo(v, "SIGNUP_REFEREE"))
    BY DEF OncePerWallet
  <2>1. /\ {i \in Wallets : v \in d.invited[i]} \subseteq {d.referrer[v]}
        /\ d.referrer[v] = None => Worth(d.events, PaidTo(v, "SIGNUP_REFEREE")) = 0
        /\ Worth(d.events, PaidTo(v, "SIGNUP_REFEREE")) <= 1
        /\ Worth(d.events, Paid("SIGNUP_REFERRER", v)) <= Worth(d.events, PaidTo(v, "SIGNUP_REFEREE"))
    BY DEF Sound, OncePerWallet
  <2>2. /\ Worth(e.events, PaidTo(v, "SIGNUP_REFEREE")) =
              Worth(d.events, PaidTo(v, "SIGNUP_REFEREE")) + (IF type = "SIGNUP_REFEREE" /\ w = v THEN 1 ELSE 0)
        /\ Worth(e.events, Paid("SIGNUP_REFERRER", v)) =
              Worth(d.events, Paid("SIGNUP_REFERRER", v)) + (IF type = "SIGNUP_REFERRER" /\ about = v THEN 1 ELSE 0)
        /\ Worth(d.events, PaidTo(v, "SIGNUP_REFEREE")) \in Nat
        /\ Worth(d.events, Paid("SIGNUP_REFERRER", v)) \in Nat
    BY <1>6, <1>7
  <2>3. CASE type = "SIGNUP_REFEREE" /\ w = v
    BY <1>2, <2>1, <2>2, <2>3 DEF Due
  <2>4. CASE type = "SIGNUP_REFERRER" /\ about = v
    BY <1>2, <2>1, <2>2, <2>4 DEF Due
  <2>5. CASE ~(type = "SIGNUP_REFEREE" /\ w = v) /\ ~(type = "SIGNUP_REFERRER" /\ about = v)
    BY <1>2, <2>1, <2>2, <2>5
  <2> QED BY <2>3, <2>4, <2>5
<1>11. Sound(e)
  BY <1>2, <1>3, <1>8, <1>9, <1>10 DEF Sound
<1> QED BY <1>1, <1>2, <1>3, <1>11 DEF e, x

-----------------------------------------------------------------------------
(* The handlers. *)

\* A handler keeps the invariant when it leaves sound tables wherever it is
\* cut off, and even and whole ones at its end.
LEMMA Handled ==
    ASSUME LedgerInv, NEW between, NEW done, Handle(between, done),
           \A d \in between : Sound(d), Sound(done),
           Even(db) /\ Whole(db) => Even(done) /\ Whole(done)
    PROVE  LedgerInv'
<1>1. requests' \in 0..MaxRequests
  BY LedgerAssumption DEF LedgerInv, Handle
<1>2. CASE db' = done /\ UNCHANGED deaths
  <2>1. Sound(db)' /\ (Even(db) /\ Whole(db) => Even(db)' /\ Whole(db)')
    BY <1>2 DEF Sound, Even, Whole, Covered, OncePerBet, OncePerWallet
  <2> QED BY <1>1, <1>2, <2>1 DEF LedgerInv
<1>3. CASE deaths < MaxDeaths /\ deaths' = deaths + 1 /\ db' \in {db} \cup between
  <2>1. Sound(db)'
    BY <1>3 DEF LedgerInv, Sound, Covered, OncePerBet, OncePerWallet
  <2>2. deaths' \in 0..MaxDeaths /\ deaths' # 0
    BY <1>3, LedgerAssumption DEF LedgerInv
  <2> QED BY <1>1, <2>1, <2>2 DEF LedgerInv
<1> QED BY <1>2, <1>3 DEF Handle

\* Tables with the same totals, history and identities are as even and whole.
LEMMA SameBooks ==
    ASSUME NEW d, NEW e, e.points = d.points, e.events = d.events
    PROVE  Even(d) => Even(e)
BY DEF Even

LEMMA SameIdentities ==
    ASSUME NEW d, NEW e, e.canonical = d.canonical, e.members = d.members
    PROVE  Whole(d) => Whole(e)
BY DEF Whole

\* ensureIdentity adds an identity of one wallet, or nothing.
LEMMA IdentityEnsured ==
    ASSUME NEW d, Sound(d), NEW w \in Wallets
    PROVE  LET e == Identified(d, w)
           IN  /\ Sound(Named(d, w)) /\ Sound(e)
               /\ e.canonical[w] \in Wallets
               /\ \A v \in Wallets : d.canonical[v] \in Wallets => e.canonical[v] = d.canonical[v]
               /\ e.bets = d.bets /\ e.points = d.points /\ e.events = d.events
               /\ e.referrer = d.referrer /\ e.codes = d.codes
               /\ Even(d) => Even(e)
               /\ Whole(d) => Whole(e)
<1> DEFINE n == Named(d, w)
           e == Identified(d, w)
<1>0. /\ d.canonical \in [Wallets -> Maybe] /\ d.members \in [Wallets -> SUBSET Wallets]
      /\ None \notin Wallets
  BY LedgerAssumption DEF Sound, Tables
<1>1. CASE d.canonical[w] # None
  <2>1. n = d /\ e = d /\ d.canonical[w] \in Wallets
    BY <1>0, <1>1 DEF Named, Identified, Maybe
  <2> HIDE DEF n, e
  <2>2. Sound(n) /\ Sound(e) /\ (Even(d) => Even(e)) /\ (Whole(d) => Whole(e))
    BY <2>1
  <2> QED BY <2>1, <2>2 DEF n, e
<1>2. CASE d.canonical[w] = None
  <2>1. n = SaveCanonical(d, {w}, w) /\ e = SaveMembers(n, w, {w})
    BY <1>2 DEF Named, Identified
  <2>2. /\ Sound(n)
        /\ n.canonical = [v \in Wallets |-> IF v \in {w} THEN w ELSE d.canonical[v]]
        /\ n.bets = d.bets /\ n.points = d.points /\ n.events = d.events
        /\ n.referrer = d.referrer /\ n.members = d.members /\ n.codes = d.codes
    BY <2>1, CanonicalSaved
  <2> HIDE DEF n
  <2>3. /\ Sound(e)
        /\ e.members = [n.members EXCEPT ![w] = {w}]
        /\ e.bets = n.bets /\ e.points = n.points /\ e.events = n.events
        /\ e.referrer = n.referrer /\ e.canonical = n.canonical /\ e.codes = n.codes
    BY <2>1, <2>2, MembersSaved
  <2> HIDE DEF e
  <2>4. Even(d) => Even(e)
    BY <2>2, <2>3, SameBooks
  <2>5. ASSUME Whole(d) PROVE Whole(e)
    <3> SUFFICES ASSUME NEW v \in Wallets
                 PROVE  /\ \A c \in Wallets : v \in e.members[c] <=> e.canonical[v] = c
                        /\ e.canonical[v] # None => e.canonical[e.canonical[v]] = e.canonical[v]
      BY DEF Whole
    <3>1. /\ \A u, c \in Wallets : u \in d.members[c] <=> d.canonical[u] = c
          /\ d.canonical[v] # None => d.canonical[d.canonical[v]] = d.canonical[v]
          /\ d.canonical[v] \in Maybe
      BY <1>0, <2>5 DEF Whole
    <3>2. d.canonical[v] # w
      BY <1>0, <1>2, <3>1
    <3>3. /\ \A u \in Wallets : e.canonical[u] = IF u = w THEN w ELSE d.canonical[u]
          /\ \A c \in Wallets : e.members[c] = IF c = w THEN {w} ELSE d.members[c]
      BY <1>0, <2>2, <2>3
    <3>4. CASE v = w
      BY <1>0, <1>2, <3>1, <3>3, <3>4
    <3>5. CASE v # w
      BY <1>0, <3>1, <3>2, <3>3, <3>5 DEF Maybe
    <3> QED BY <3>4, <3>5
  <2>6. \A v \in Wallets : d.canonical[v] \in Wallets => e.canonical[v] = d.canonical[v]
    BY <1>0, <1>2, <2>2, <2>3
  <2>7. e.canonical[w] \in Wallets
    BY <2>2, <2>3
  <2> QED BY <2>2, <2>3, <2>4, <2>5, <2>6, <2>7 DEF n, e
<1> QED BY <1>1, <1>2

\* A referral and its entry in the referrer's list.
LEMMA ReferralWritten ==
    ASSUME NEW d, Sound(d), NEW w \in Wallets, NEW code \in Wallets, code # w, d.referrer[w] = None
    PROVE  LET e == Referred(d, w, code)
           IN  /\ Sound(SaveReferral(d, w, code)) /\ Sound(e)
               /\ e.referrer[w] = code
               /\ e.bets = d.bets /\ e.points = d.points /\ e.events = d.events
               /\ e.canonical = d.canonical /\ e.members = d.members /\ e.codes = d.codes
<1> DEFINE n == SaveReferral(d, w, code)
           e == Referred(d, w, code)
<1>1. /\ Sound(n)
      /\ n.referrer = [d.referrer EXCEPT ![w] = code]
      /\ n.bets = d.bets /\ n.points = d.points /\ n.events = d.events
      /\ n.canonical = d.canonical /\ n.members = d.members /\ n.codes = d.codes
  BY ReferralSaved
<1>2. e = SaveInvited(n, code, w)
  BY DEF Referred
<1>3. d.referrer \in [Wallets -> Maybe]
  BY DEF Sound, Tables
<1> HIDE DEF n, e
<1>4. n.referrer[w] = code
  BY <1>1, <1>3
<1>5. /\ Sound(e)
      /\ e.referrer = n.referrer
      /\ e.bets = n.bets /\ e.points = n.points /\ e.events = n.events
      /\ e.canonical = n.canonical /\ e.members = n.members /\ e.codes = n.codes
  <2> DEFINE r == SaveInvited(n, code, w)
  <2>1. /\ Sound(r)
        /\ r.referrer = n.referrer
        /\ r.bets = n.bets /\ r.points = n.points /\ r.events = n.events
        /\ r.canonical = n.canonical /\ r.members = n.members /\ r.codes = n.codes
    <3>1. Sound(n) /\ w \in Wallets /\ code \in Wallets /\ n.referrer[w] = code
      BY <1>1, <1>4
    <3> QED BY <3>1, InvitedSaved
  <2> HIDE DEF r
  <2>2. e = r
    BY <1>2 DEF r
  <2> QED BY <2>1, <2>2
<1> QED BY <1>1, <1>4, <1>5 DEF n, e

LEMMA SummaryKeeps ==
    ASSUME LedgerInv, NEW w \in Wallets, InviteSummary(w)
    PROVE  LedgerInv'
<1> DEFINE coded == SaveCode(db, w)
<1>1. Sound(db)
  BY DEF LedgerInv
<1>2. /\ Sound(coded) /\ (Even(db) => Even(coded)) /\ (Whole(db) => Whole(coded))
  <2>1. /\ Sound(coded) /\ coded.points = db.points /\ coded.events = db.events
        /\ coded.canonical = db.canonical /\ coded.members = db.members
    BY <1>1, CodeSaved
  <2> HIDE DEF coded
  <2> QED BY <2>1, SameBooks, SameIdentities
<1>3. Handle({coded, Named(coded, w)}, Identified(coded, w))
  BY DEF InviteSummary
<1> HIDE DEF coded
<1>4. /\ Sound(Named(coded, w)) /\ Sound(Identified(coded, w))
      /\ Even(coded) => Even(Identified(coded, w))
      /\ Whole(coded) => Whole(Identified(coded, w))
  BY <1>2, IdentityEnsured
<1>5. \A d \in {coded, Named(coded, w)} : Sound(d)
  BY <1>2, <1>4
<1> QED BY <1>2, <1>3, <1>4, <1>5, Handled

\* Points that were added first may be shown.
LEMMA PointsAreThere ==
    ASSUME NEW d, Sound(d), NEW p, NEW w \in Wallets, NEW n \in Nat,
           p.points = [d.points EXCEPT ![w] = @ + n], p.events = d.events
    PROVE  p.points[w] >= Worth(p.events, PointsOf(w)) + n
<1>1. Worth(d.events, PointsOf(w)) \in Nat
  BY WorthType, ValuesAreValues DEF Sound
<1>2. d.points[w] \in Nat /\ d.points[w] >= Worth(d.events, PointsOf(w)) /\ p.points[w] = d.points[w] + n
  BY DEF Sound, Tables, Covered
<1> QED BY <1>1, <1>2

\* Points added and shown leave the two books even.
LEMMA EvenAgain ==
    ASSUME NEW d, Sound(d), NEW e, NEW x \in Events,
           e.points = [d.points EXCEPT ![x.wallet] = @ + x.points],
           \A value \in Values : Worth(e.events, value) = Worth(d.events, value) + value[x]
    PROVE  Even(d) => Even(e)
<1> SUFFICES ASSUME Even(d), NEW v \in Wallets
             PROVE  e.points[v] = Worth(e.events, PointsOf(v))
  BY DEF Even
<1>1. Worth(d.events, PointsOf(v)) \in Nat /\ d.points[v] = Worth(d.events, PointsOf(v))
  BY WorthType, ValuesAreValues DEF Sound, Even
<1>2. Worth(e.events, PointsOf(v)) = Worth(d.events, PointsOf(v)) + (IF x.wallet = v THEN x.points ELSE 0)
  <2>1. PointsOf(v)[x] = IF x.wallet = v THEN x.points ELSE 0
    BY DEF PointsOf
  <2> QED BY <2>1, ValuesAreValues
<1>3. e.points[v] = IF x.wallet = v THEN d.points[v] + x.points ELSE d.points[v]
  BY DEF Sound, Tables
<1>4. x.points \in Nat
  BY DEF Events
<1> QED BY <1>1, <1>2, <1>3, <1>4

\* Whether an event counts as a payment.
LEMMA Payments ==
    ASSUME NEW x \in Events
    PROVE  /\ \A t, a : Paid(t, a)[x] = IF x.type = t /\ x.about = a THEN 1 ELSE 0
           /\ \A v, t : PaidTo(v, t)[x] = IF x.type = t /\ x.wallet = v THEN 1 ELSE 0
BY DEF Paid, PaidTo

\* A new bet up to the bettor's event.
LEMMA BetShown ==
    ASSUME Sound(db), NEW w \in Wallets, NEW ref \in Refs \cup {None}, NEW code \in Maybe, Fresh(ref)
    PROVE  LET known == Identified(db, w)
               saved == SaveBet(known, ref)
               paid  == SavePoints(saved, w, BetPoints)
               bound == IF Redeemable(w, code) THEN Referred(paid, w, code) ELSE paid
               shown == SaveEvent(bound, w, "BET_PLACED", BetPoints, ref)
           IN  /\ Sound(Named(db, w)) /\ Sound(known) /\ Sound(saved) /\ Sound(paid) /\ Sound(bound)
               /\ Redeemable(w, code) => Sound(SaveReferral(paid, w, code))
               /\ Sound(shown)
               /\ ref \in Refs => Worth(shown.events, Paid("REFERRAL_WIN", ref))
                                   < Worth(shown.events, Paid("BET_PLACED", ref))
               /\ Even(db) => Even(shown)
               /\ Whole(db) => Whole(shown)
<1> DEFINE known == Identified(db, w)
           saved == SaveBet(known, ref)
           paid  == SavePoints(saved, w, BetPoints)
           bound == IF Redeemable(w, code) THEN Referred(paid, w, code) ELSE paid
           shown == SaveEvent(bound, w, "BET_PLACED", BetPoints, ref)
           x     == [wallet |-> w, type |-> "BET_PLACED", points |-> BetPoints, about |-> ref]
<1>0. BetPoints \in Nat /\ ref \in Maybe \cup Refs /\ "BET_PLACED" \in EventTypes
  BY DEF BetPoints, Maybe, EventTypes
<1>1. /\ Sound(Named(db, w)) /\ Sound(known)
      /\ known.bets = db.bets /\ known.points = db.points /\ known.events = db.events
      /\ known.referrer = db.referrer
      /\ Whole(db) => Whole(known)
  BY IdentityEnsured
<1> HIDE DEF known
<1>2. /\ Sound(saved)
      /\ ref \in Refs => ref \in saved.bets
      /\ saved.points = known.points /\ saved.events = known.events /\ saved.referrer = known.referrer
      /\ saved.canonical = known.canonical /\ saved.members = known.members
  BY <1>1, BetSaved
<1> HIDE DEF saved
<1>3. /\ Sound(paid)
      /\ paid.points = [saved.points EXCEPT ![w] = @ + BetPoints]
      /\ paid.bets = saved.bets /\ paid.events = saved.events /\ paid.referrer = saved.referrer
      /\ paid.canonical = saved.canonical /\ paid.members = saved.members
  BY <1>0, <1>2, PointsSaved
<1> HIDE DEF paid
<1>4. /\ Sound(bound)
      /\ Redeemable(w, code) => Sound(SaveReferral(paid, w, code))
      /\ bound.points = paid.points /\ bound.bets = paid.bets /\ bound.events = paid.events
      /\ bound.canonical = paid.canonical /\ bound.members = paid.members
  <2>1. CASE ~Redeemable(w, code)
    <3>1. bound = paid
      BY <2>1
    <3> HIDE DEF bound
    <3> QED BY <1>3, <2>1, <3>1
  <2>2. CASE Redeemable(w, code)
    <3>1. code \in Wallets /\ code # w /\ paid.referrer[w] = None
      BY <1>1, <1>2, <1>3, <2>2 DEF Redeemable, Sound, Tables
    <3>2. bound = Referred(paid, w, code)
      BY <2>2
    <3> HIDE DEF bound
    <3> QED BY <1>3, <3>1, <3>2, ReferralWritten
  <2> QED BY <2>1, <2>2
<1> HIDE DEF bound
<1>5. bound.points = [db.points EXCEPT ![w] = @ + BetPoints] /\ bound.events = db.events
  BY <1>1, <1>2, <1>3, <1>4
<1>6. ref \in Refs => /\ ref \in bound.bets
                      /\ Worth(db.events, Paid("BET_PLACED", ref)) = 0
                      /\ Worth(db.events, Paid("REFERRAL_WIN", ref)) = 0
  <2>1. /\ ref \in Refs => Worth(db.events, Paid("BET_PLACED", ref)) = 0
        /\ ref \in Refs => Worth(db.events, Paid("REFERRAL_WIN", ref)) <= Worth(db.events, Paid("BET_PLACED", ref))
    BY DEF Sound, OncePerBet, Fresh
  <2>2. Worth(db.events, Paid("REFERRAL_WIN", ref)) \in Nat
    BY WorthType, ValuesAreValues DEF Sound
  <2> QED BY <1>2, <1>3, <1>4, <2>1, <2>2
<1>7. Due(bound, w, "BET_PLACED", BetPoints, ref)
  BY <1>0, <1>5, <1>6, PointsAreThere DEF Due
<1>8. /\ Sound(shown) /\ x \in Events
      /\ \A value \in Values : Worth(shown.events, value) = Worth(bound.events, value) + value[x]
      /\ shown.points = bound.points
      /\ shown.canonical = bound.canonical /\ shown.members = bound.members
  BY <1>0, <1>4, <1>7, EventSaved
<1> HIDE DEF shown
<1>9. x.wallet = w /\ x.points = BetPoints /\ x.type = "BET_PLACED" /\ x.about = ref
  OBVIOUS
<1> HIDE DEF x
<1>10. Even(db) => Even(shown)
  BY <1>5, <1>8, <1>9, EvenAgain
<1>11. Whole(db) => Whole(shown)
  BY <1>1, <1>2, <1>3, <1>4, <1>8, SameIdentities
<1>12. ref \in Refs => Worth(shown.events, Paid("REFERRAL_WIN", ref))
                       < Worth(shown.events, Paid("BET_PLACED", ref))
  <2>1. Paid("REFERRAL_WIN", ref)[x] = 0 /\ Paid("BET_PLACED", ref)[x] = 1
    BY <1>8, <1>9, Payments
  <2> QED BY <1>5, <1>6, <1>8, <2>1, ValuesAreValues
<1> QED BY <1>1, <1>2, <1>3, <1>4, <1>8, <1>10, <1>11, <1>12 DEF known, saved, paid, bound, shown

\* A referrer is a wallet.
LEMMA OwnersAreWallets ==
    ASSUME NEW d, Sound(d), NEW w \in Wallets
    PROVE  Owners(d, w) \subseteq Maybe
<1> DEFINE all == IF d.canonical[w] = None THEN {} ELSE d.members[d.canonical[w]]
           linked == {d.referrer[m] : m \in all} \ {None}
<1>1. /\ d.canonical \in [Wallets -> Maybe] /\ d.members \in [Wallets -> SUBSET Wallets]
      /\ d.referrer \in [Wallets -> Maybe]
  BY DEF Sound, Tables
<1>2. all \subseteq Wallets
  BY <1>1 DEF Maybe
<1> HIDE DEF all
<1>3. linked \subseteq Maybe
  BY <1>1, <1>2
<1>4. Owners(d, w) = IF d.referrer[w] # None THEN {d.referrer[w]} ELSE IF linked = {} THEN {None} ELSE linked
  BY DEF Owners, all
<1> HIDE DEF linked
<1> QED BY <1>1, <1>3, <1>4 DEF Maybe

LEMMA RecordKeeps ==
    ASSUME LedgerInv, NEW w \in Wallets, NEW ref \in Refs \cup {None}, NEW code \in Maybe,
           RecordBet(w, ref, code)
    PROVE  LedgerInv'
<1> DEFINE known == Identified(db, w)
           saved == SaveBet(known, ref)
           paid  == SavePoints(saved, w, BetPoints)
           redeem == Redeemable(w, code)
           bound == IF redeem THEN Referred(paid, w, code) ELSE paid
           shown == SaveEvent(bound, w, "BET_PLACED", BetPoints, ref)
           begun == {Named(db, w), known, saved, paid, bound} \cup
                    (IF redeem THEN {SaveReferral(paid, w, code)} ELSE {})
<1>0. Sound(db)
  BY DEF LedgerInv
<1>1. CASE ~Fresh(ref) /\ Handle({Named(db, w)}, known)
  <2>1. /\ Sound(Named(db, w)) /\ Sound(known)
        /\ Even(db) => Even(known)
        /\ Whole(db) => Whole(known)
    BY <1>0, IdentityEnsured
  <2>2. \A d \in {Named(db, w)} : Sound(d)
    BY <2>1
  <2> HIDE DEF known
  <2> QED BY <1>1, <2>1, <2>2, Handled
<1>2. CASE Fresh(ref)
  <2>1. /\ Sound(Named(db, w)) /\ Sound(known) /\ Sound(saved) /\ Sound(paid) /\ Sound(bound)
        /\ redeem => Sound(SaveReferral(paid, w, code))
        /\ Sound(shown)
        /\ ref \in Refs => Worth(shown.events, Paid("REFERRAL_WIN", ref))
                            < Worth(shown.events, Paid("BET_PLACED", ref))
        /\ Even(db) => Even(shown)
        /\ Whole(db) => Whole(shown)
    BY <1>0, <1>2, BetShown
  <2>2. PICK owner \in Owners(shown, w) :
           \/ owner \in {None, w} /\ Handle(begun, shown)
           \/ /\ owner \notin {None, w}
              /\ LET shared   == SavePoints(shown, owner, SharePoints)
                     feeTaken == SaveFee(shared, owner)
                 IN  Handle(begun \cup {shown, shared, feeTaken}, Rewarded(feeTaken, owner, ref))
    BY <1>2 DEF RecordBet
  <2> HIDE DEF known, saved, paid, redeem, bound, shown
  <2>3. \A d \in begun : Sound(d)
    BY <2>1
  <2> HIDE DEF begun
  <2>4. CASE owner \in {None, w} /\ Handle(begun, shown)
    BY <2>1, <2>3, <2>4, Handled
  <2>5. CASE owner \notin {None, w}
    <3> DEFINE shared   == SavePoints(shown, owner, SharePoints)
               feeTaken == SaveFee(shared, owner)
               done     == Rewarded(feeTaken, owner, ref)
               x        == [wallet |-> owner, type |-> "REFERRAL_WIN", points |-> SharePoints, about |-> ref]
    <3>0. SharePoints \in Nat /\ ref \in Maybe \cup Refs /\ "REFERRAL_WIN" \in EventTypes
      BY DEF SharePoints, Maybe, EventTypes
    <3>1. owner \in Wallets
      BY <2>1, <2>2, <2>5, OwnersAreWallets DEF Maybe
    <3>2. Handle(begun \cup {shown, shared, feeTaken}, done)
      BY <2>2, <2>5
    <3>3. done = SaveEvent(feeTaken, owner, "REFERRAL_WIN", SharePoints, ref)
      BY DEF Rewarded
    <3>4. /\ Sound(shared)
          /\ shared.points = [shown.points EXCEPT ![owner] = @ + SharePoints]
          /\ shared.events = shown.events
          /\ shared.canonical = shown.canonical /\ shared.members = shown.members
      BY <2>1, <3>0, <3>1, PointsSaved
    <3> HIDE DEF shared
    <3>5. /\ Sound(feeTaken)
          /\ feeTaken.points = shared.points /\ feeTaken.events = shared.events
          /\ feeTaken.canonical = shared.canonical /\ feeTaken.members = shared.members
      BY <3>1, <3>4, FeeSaved
    <3> HIDE DEF feeTaken
    <3>6. feeTaken.points[owner] >= Worth(feeTaken.events, PointsOf(owner)) + SharePoints
      BY <2>1, <3>0, <3>1, <3>4, <3>5, PointsAreThere
    <3>7. Due(feeTaken, owner, "REFERRAL_WIN", SharePoints, ref)
      BY <2>1, <3>4, <3>5, <3>6 DEF Due
    <3>8. /\ Sound(done) /\ x \in Events
          /\ \A value \in Values : Worth(done.events, value) = Worth(feeTaken.events, value) + value[x]
          /\ done.points = feeTaken.points
          /\ done.canonical = feeTaken.canonical /\ done.members = feeTaken.members
      BY <3>0, <3>1, <3>3, <3>5, <3>7, EventSaved
    <3> HIDE DEF done
    <3>9. x.wallet = owner /\ x.points = SharePoints
      OBVIOUS
    <3> HIDE DEF x
    <3>10. Even(shown) => Even(done)
      BY <2>1, <3>4, <3>5, <3>8, <3>9, EvenAgain
    <3>11. Whole(shown) => Whole(done)
      BY <3>4, <3>5, <3>8, SameIdentities
    <3>12. \A d \in begun \cup {shown, shared, feeTaken} : Sound(d)
      BY <2>1, <2>3, <3>4, <3>5
    <3> QED BY <2>1, <3>2, <3>8, <3>10, <3>11, <3>12, Handled
  <2> QED BY <2>2, <2>4, <2>5
<1> QED BY <1>1, <1>2 DEF RecordBet

LEMMA RedeemKeeps ==
    ASSUME LedgerInv, NEW w \in Wallets, NEW code \in Wallets, Redeem(w, code)
    PROVE  LedgerInv'
<1> DEFINE known     == Identified(db, w)
           bound     == Referred(known, w, code)
           paid      == SavePoints(bound, w, RefereeBonus)
           shown     == SaveEvent(paid, w, "SIGNUP_REFEREE", RefereeBonus, code)
           ownerPaid == SavePoints(shown, code, ReferrerBonus)
           done      == SaveEvent(ownerPaid, code, "SIGNUP_REFERRER", ReferrerBonus, w)
           between   == {Named(db, w), known, SaveReferral(known, w, code), bound, paid, shown, ownerPaid}
           x         == [wallet |-> w, type |-> "SIGNUP_REFEREE", points |-> RefereeBonus, about |-> code]
           y         == [wallet |-> code, type |-> "SIGNUP_REFERRER", points |-> ReferrerBonus, about |-> w]
<1>0. /\ Sound(db)
      /\ RefereeBonus \in Nat /\ ReferrerBonus \in Nat
      /\ w \in Maybe \cup Refs /\ code \in Maybe \cup Refs /\ code # None
      /\ {"SIGNUP_REFEREE", "SIGNUP_REFERRER"} \subseteq EventTypes
  BY LedgerAssumption DEF LedgerInv, RefereeBonus, ReferrerBonus, Maybe, EventTypes
<1>1. /\ Sound(Named(db, w)) /\ Sound(known)
      /\ known.points = db.points /\ known.events = db.events /\ known.referrer = db.referrer
      /\ Even(db) => Even(known)
      /\ Whole(db) => Whole(known)
  BY <1>0, IdentityEnsured
<1>2. CASE ~Redeemable(w, code)
  <2>1. Handle({Named(db, w)}, known)
    BY <1>2 DEF Redeem
  <2>2. \A d \in {Named(db, w)} : Sound(d)
    BY <1>1
  <2> HIDE DEF known
  <2> QED BY <1>1, <2>1, <2>2, Handled
<1>3. CASE Redeemable(w, code)
  <2>1. Handle(between, done)
    BY <1>3 DEF Redeem
  <2>2. code # w /\ db.referrer[w] = None
    BY <1>3 DEF Redeemable
  <2> HIDE DEF known
  <2>3. /\ Sound(SaveReferral(known, w, code)) /\ Sound(bound)
        /\ bound.referrer[w] = code
        /\ bound.points = known.points /\ bound.events = known.events
        /\ bound.canonical = known.canonical /\ bound.members = known.members
    BY <1>1, <2>2, ReferralWritten
  <2> HIDE DEF bound
  <2>4. /\ Sound(paid)
        /\ paid.points = [bound.points EXCEPT ![w] = @ + RefereeBonus]
        /\ paid.events = bound.events /\ paid.referrer = bound.referrer
        /\ paid.canonical = bound.canonical /\ paid.members = bound.members
    BY <1>0, <2>3, PointsSaved
  <2> HIDE DEF paid
  <2>5. /\ Worth(db.events, PaidTo(w, "SIGNUP_REFEREE")) = 0
        /\ Worth(db.events, Paid("SIGNUP_REFERRER", w)) = 0
    <3>1. /\ Worth(db.events, PaidTo(w, "SIGNUP_REFEREE")) = 0
          /\ Worth(db.events, Paid("SIGNUP_REFERRER", w)) <= Worth(db.events, PaidTo(w, "SIGNUP_REFEREE"))
      BY <1>0, <2>2 DEF Sound, OncePerWallet
    <3>2. Worth(db.events, Paid("SIGNUP_REFERRER", w)) \in Nat
      BY <1>0, WorthType, ValuesAreValues DEF Sound
    <3> QED BY <3>1, <3>2
  <2>6. Due(paid, w, "SIGNUP_REFEREE", RefereeBonus, code)
    <3>1. paid.points[w] >= Worth(paid.events, PointsOf(w)) + RefereeBonus
      BY <1>0, <2>3, <2>4, PointsAreThere
    <3> QED BY <1>0, <1>1, <2>3, <2>4, <2>5, <3>1 DEF Due
  <2>7. /\ Sound(shown) /\ x \in Events
        /\ \A value \in Values : Worth(shown.events, value) = Worth(paid.events, value) + value[x]
        /\ shown.points = paid.points
        /\ shown.canonical = paid.canonical /\ shown.members = paid.members
    BY <1>0, <2>4, <2>6, EventSaved
  <2> HIDE DEF shown
  <2>8. x.wallet = w /\ x.points = RefereeBonus /\ x.type = "SIGNUP_REFEREE"
    OBVIOUS
  <2> HIDE DEF x
  <2>9. Even(known) => Even(shown)
    <3>1. /\ shown.points = [known.points EXCEPT ![x.wallet] = @ + x.points]
          /\ \A value \in Values : Worth(shown.events, value) = Worth(known.events, value) + value[x]
      BY <2>3, <2>4, <2>7, <2>8
    <3>2. Sound(known) /\ x \in Events
      BY <1>1, <2>7
    <3> QED BY <3>1, <3>2, EvenAgain
  <2>10. Worth(shown.events, Paid("SIGNUP_REFERRER", w)) < Worth(shown.events, PaidTo(w, "SIGNUP_REFEREE"))
    <3>1. Paid("SIGNUP_REFERRER", w)[x] = 0 /\ PaidTo(w, "SIGNUP_REFEREE")[x] = 1
      BY <2>7, <2>8, Payments
    <3> QED BY <1>1, <2>3, <2>4, <2>5, <2>7, <3>1, ValuesAreValues
  <2>11. /\ Sound(ownerPaid)
         /\ ownerPaid.points = [shown.points EXCEPT ![code] = @ + ReferrerBonus]
         /\ ownerPaid.events = shown.events
         /\ ownerPaid.canonical = shown.canonical /\ ownerPaid.members = shown.members
    BY <1>0, <2>7, PointsSaved
  <2> HIDE DEF ownerPaid
  <2>12. Due(ownerPaid, code, "SIGNUP_REFERRER", ReferrerBonus, w)
    <3>1. ownerPaid.points[code] >= Worth(ownerPaid.events, PointsOf(code)) + ReferrerBonus
      BY <1>0, <2>7, <2>11, PointsAreThere
    <3> QED BY <2>10, <2>11, <3>1 DEF Due
  <2>13. /\ Sound(done) /\ y \in Events
         /\ \A value \in Values : Worth(done.events, value) = Worth(ownerPaid.events, value) + value[y]
         /\ done.points = ownerPaid.points
         /\ done.canonical = ownerPaid.canonical /\ done.members = ownerPaid.members
    BY <1>0, <2>11, <2>12, EventSaved
  <2> HIDE DEF done
  <2>14. y.wallet = code /\ y.points = ReferrerBonus
    OBVIOUS
  <2> HIDE DEF y
  <2>15. Even(shown) => Even(done)
    BY <2>7, <2>11, <2>13, <2>14, EvenAgain
  <2>16. Whole(known) => Whole(done)
    BY <2>3, <2>4, <2>7, <2>11, <2>13, SameIdentities
  <2>17. \A d \in between : Sound(d)
    BY <1>1, <2>3, <2>4, <2>7, <2>11
  <2> HIDE DEF between
  <2> QED BY <1>1, <2>1, <2>9, <2>13, <2>15, <2>16, <2>17, Handled
<1> QED BY <1>2, <1>3

\* What mergeIdentity makes of the identities of two wallets.
Merges(d, e, a, b, kept, obsolete) ==
    LET all == MembersOf(d, d.canonical[a]) \cup MembersOf(d, d.canonical[b])
    IN  /\ d.canonical[a] \in Wallets /\ d.canonical[b] \in Wallets
        /\ d.canonical[a] # d.canonical[b]
        /\ {kept, obsolete} = {d.canonical[a], d.canonical[b]}
        /\ e.canonical = [w \in Wallets |-> IF w \in all THEN kept ELSE d.canonical[w]]
        /\ e.members = [[d.members EXCEPT ![kept] = all] EXCEPT ![obsolete] = {}]

\* It is one whole identity.
LEMMA MergedIsWhole ==
    ASSUME NEW d, Sound(d), Whole(d), NEW e, NEW a \in Wallets, NEW b \in Wallets,
           NEW kept, NEW obsolete, Merges(d, e, a, b, kept, obsolete)
    PROVE  Whole(e)
<1> DEFINE ca  == d.canonical[a]
           cb  == d.canonical[b]
           all == MembersOf(d, ca) \cup MembersOf(d, cb)
<1>1. /\ ca \in Wallets /\ cb \in Wallets /\ ca # cb /\ {kept, obsolete} = {ca, cb}
      /\ e.canonical = [w \in Wallets |-> IF w \in all THEN kept ELSE d.canonical[w]]
      /\ e.members = [[d.members EXCEPT ![kept] = all] EXCEPT ![obsolete] = {}]
  BY DEF Merges
<1>2. /\ d.canonical \in [Wallets -> Maybe] /\ d.members \in [Wallets -> SUBSET Wallets]
      /\ None \notin Wallets
  BY LedgerAssumption DEF Sound, Tables
<1>3. /\ \A v, c \in Wallets : v \in d.members[c] <=> d.canonical[v] = c
      /\ \A v \in Wallets : d.canonical[v] # None => d.canonical[d.canonical[v]] = d.canonical[v]
  BY DEF Whole
<1>4. d.canonical[ca] = ca /\ d.canonical[cb] = cb
  BY <1>2, <1>3, <1>1
<1>5. MembersOf(d, ca) = d.members[ca] /\ MembersOf(d, cb) = d.members[cb]
  BY <1>3, <1>4, <1>1 DEF MembersOf
<1> HIDE DEF ca, cb
<1>6. \A v \in Wallets : v \in all <=> d.canonical[v] \in {ca, cb}
  BY <1>3, <1>5, <1>1
<1>7. kept \in Wallets /\ obsolete \in Wallets /\ kept # obsolete /\ kept \in all
  BY <1>4, <1>6, <1>1
<1> HIDE DEF all
<1>8. /\ \A v \in Wallets : e.canonical[v] = IF v \in all THEN kept ELSE d.canonical[v]
      /\ \A c \in Wallets : e.members[c] = IF c = obsolete THEN {} ELSE IF c = kept THEN all ELSE d.members[c]
  BY <1>2, <1>7, <1>1
<1> SUFFICES ASSUME NEW v \in Wallets
             PROVE  /\ \A c \in Wallets : v \in e.members[c] <=> e.canonical[v] = c
                    /\ e.canonical[v] # None => e.canonical[e.canonical[v]] = e.canonical[v]
  BY DEF Whole
<1>9. CASE v \in all
  <2>1. e.canonical[v] = kept /\ e.canonical[kept] = kept
    BY <1>7, <1>8, <1>9
  <2>2. ASSUME NEW c \in Wallets PROVE v \in e.members[c] <=> c = kept
    <3>1. c \notin {kept, obsolete} => v \notin d.members[c]
      BY <1>3, <1>6, <1>9, <1>1
    <3> QED BY <1>7, <1>8, <1>9, <3>1
  <2> QED BY <2>1, <2>2
<1>10. CASE v \notin all
  <2>1. e.canonical[v] = d.canonical[v] /\ d.canonical[v] \notin {kept, obsolete}
    BY <1>6, <1>8, <1>10, <1>1
  <2>2. ASSUME NEW c \in Wallets PROVE v \in e.members[c] <=> e.canonical[v] = c
    <3>1. CASE c \in {kept, obsolete}
      BY <1>8, <1>10, <2>1, <3>1
    <3>2. CASE c \notin {kept, obsolete}
      <4>1. e.members[c] = d.members[c]
        BY <1>8, <3>2
      <4> QED BY <1>3, <2>1, <4>1
    <3> QED BY <3>1, <3>2
  <2>3. ASSUME d.canonical[v] # None PROVE e.canonical[d.canonical[v]] = d.canonical[v]
    <3>1. d.canonical[v] \in Wallets /\ d.canonical[d.canonical[v]] = d.canonical[v]
      BY <1>2, <1>3, <2>3 DEF Maybe
    <3>2. d.canonical[v] \notin all
      BY <1>6, <1>1, <2>1, <3>1
    <3> QED BY <1>8, <3>1, <3>2
  <2> QED BY <2>1, <2>2, <2>3
<1> QED BY <1>9, <1>10

LEMMA LinkKeeps ==
    ASSUME LedgerInv, NEW a \in Wallets, NEW b \in Wallets, LinkWallets(a, b)
    PROVE  LedgerInv'
<1> DEFINE one      == Identified(db, a)
           known    == Identified(one, b)
           ca       == known.canonical[a]
           cb       == known.canonical[b]
           kept     == Kept(known, ca, cb)
           obsolete == IF kept = ca THEN cb ELSE ca
           first    == MembersOf(known, ca)
           second   == MembersOf(known, cb)
           all      == first \cup second
           renamed  == SaveCanonical(known, all, kept)
           grouped  == SaveMembers(renamed, kept, all)
           merged   == Regrouped(renamed, kept, obsolete, all)
           paid     == SavePoints(merged, a, LinkBonus)
           done     == SaveEvent(paid, a, "WALLET_LINK", LinkBonus, b)
           begun    == {Named(db, a), one, Named(one, b)}
           halfway  == {SaveCanonical(known, some, kept) : some \in Renamings(first, second)}
           x        == [wallet |-> a, type |-> "WALLET_LINK", points |-> LinkBonus, about |-> b]
<1>0. Sound(db) /\ LinkBonus \in Nat /\ b \in Maybe \cup Refs /\ "WALLET_LINK" \in EventTypes
  BY DEF LedgerInv, LinkBonus, Maybe, EventTypes
<1>1. /\ Sound(Named(db, a)) /\ Sound(one)
      /\ one.canonical[a] \in Wallets
      /\ Even(db) => Even(one)
      /\ Whole(db) => Whole(one)
  BY <1>0, IdentityEnsured
<1>2. LinkWallets(a, b) <=>
        IF ca = cb THEN Handle(begun, known)
        ELSE Handle(begun \cup halfway \cup {grouped, merged, paid}, done)
  BY DEF LinkWallets
<1> HIDE DEF one
<1>3. /\ Sound(Named(one, b)) /\ Sound(known)
      /\ ca \in Wallets /\ cb \in Wallets
      /\ Even(one) => Even(known)
      /\ Whole(one) => Whole(known)
  BY <1>1, IdentityEnsured
<1> HIDE DEF known
<1>4. \A d \in begun : Sound(d)
  BY <1>1, <1>3
<1> HIDE DEF begun
<1>5. CASE ca = cb
  BY <1>1, <1>2, <1>3, <1>4, <1>5, Handled
<1>6. CASE ca # cb
  <2>1. Handle(begun \cup halfway \cup {grouped, merged, paid}, done)
    BY <1>2, <1>6
  <2>2. kept \in Wallets /\ obsolete \in Wallets /\ {kept, obsolete} = {ca, cb}
    BY <1>3 DEF Kept
  <2>3. all \in SUBSET Wallets
    <3>1. known.members \in [Wallets -> SUBSET Wallets]
      BY <1>3 DEF Sound, Tables
    <3> QED BY <1>3, <3>1 DEF MembersOf
  <2> HIDE DEF ca, cb, kept, obsolete
  <2>4. \A d \in halfway : Sound(d)
    <3> SUFFICES ASSUME NEW some \in Renamings(first, second)
                 PROVE  Sound(SaveCanonical(known, some, kept))
      BY DEF halfway
    <3> QED BY <1>3, <2>2, CanonicalSaved
  <2>5. all = MembersOf(known, ca) \cup MembersOf(known, cb)
    OBVIOUS
  <2> HIDE DEF halfway, first, second, all
  <2>6. /\ Sound(renamed)
        /\ renamed.canonical = [w \in Wallets |-> IF w \in all THEN kept ELSE known.canonical[w]]
        /\ renamed.points = known.points /\ renamed.events = known.events
        /\ renamed.members = known.members
    BY <1>3, <2>2, CanonicalSaved
  <2> HIDE DEF renamed
  <2>7. /\ Sound(grouped)
        /\ grouped.members = [renamed.members EXCEPT ![kept] = all]
        /\ grouped.points = renamed.points /\ grouped.events = renamed.events
        /\ grouped.canonical = renamed.canonical
    BY <2>2, <2>3, <2>6, MembersSaved
  <2>8. merged = SaveMembers(grouped, obsolete, {})
    BY DEF Regrouped
  <2> HIDE DEF grouped, merged
  <2>9. /\ Sound(merged)
        /\ merged.members = [grouped.members EXCEPT ![obsolete] = {}]
        /\ merged.points = grouped.points /\ merged.events = grouped.events
        /\ merged.canonical = grouped.canonical
    <3> DEFINE r == SaveMembers(grouped, obsolete, {})
    <3>1. Sound(grouped) /\ obsolete \in Wallets /\ {} \in SUBSET Wallets
      BY <2>2, <2>7
    <3>2. /\ Sound(r)
          /\ r.members = [grouped.members EXCEPT ![obsolete] = {}]
          /\ r.points = grouped.points /\ r.events = grouped.events
          /\ r.canonical = grouped.canonical
      BY <3>1, MembersSaved
    <3> HIDE DEF r
    <3>3. merged = r
      BY <2>8 DEF r
    <3> QED BY <3>2, <3>3
  <2>10. Whole(known) => Whole(merged)
    <3>1. /\ merged.canonical = [w \in Wallets |-> IF w \in all THEN kept ELSE known.canonical[w]]
          /\ merged.members = [[known.members EXCEPT ![kept] = all] EXCEPT ![obsolete] = {}]
      BY <2>6, <2>7, <2>9
    <3>2. ca = known.canonical[a] /\ cb = known.canonical[b]
      BY DEF ca, cb
    <3> SUFFICES ASSUME Whole(known) PROVE Whole(merged)
      OBVIOUS
    <3>3. Merges(known, merged, a, b, kept, obsolete)
      BY <1>3, <1>6, <2>2, <2>5, <3>1, <3>2 DEF Merges
    <3> QED BY <1>3, <3>3, MergedIsWhole
  <2>11. /\ Sound(paid)
         /\ paid.points = [merged.points EXCEPT ![a] = @ + LinkBonus]
         /\ paid.events = merged.events
         /\ paid.canonical = merged.canonical /\ paid.members = merged.members
    BY <1>0, <2>9, PointsSaved
  <2> HIDE DEF paid
  <2>12. Due(paid, a, "WALLET_LINK", LinkBonus, b)
    <3>1. paid.points[a] >= Worth(paid.events, PointsOf(a)) + LinkBonus
      BY <1>0, <2>9, <2>11, PointsAreThere
    <3> QED BY <3>1 DEF Due
  <2>13. /\ Sound(done) /\ x \in Events
         /\ \A value \in Values : Worth(done.events, value) = Worth(paid.events, value) + value[x]
         /\ done.points = paid.points
         /\ done.canonical = paid.canonical /\ done.members = paid.members
    BY <1>0, <2>11, <2>12, EventSaved
  <2> HIDE DEF done
  <2>14. x.wallet = a /\ x.points = LinkBonus
    OBVIOUS
  <2> HIDE DEF x
  <2>15. Even(merged) => Even(done)
    BY <2>9, <2>11, <2>13, <2>14, EvenAgain
  <2>16. Even(known) => Even(merged)
    BY <2>6, <2>7, <2>9, SameBooks
  <2>17. Whole(merged) => Whole(done)
    BY <2>11, <2>13, SameIdentities
  <2>18. \A d \in begun \cup halfway \cup {grouped, merged, paid} : Sound(d)
    BY <1>4, <2>4, <2>7, <2>9, <2>11
  <2> QED BY <1>1, <1>3, <2>1, <2>10, <2>13, <2>15, <2>16, <2>17, <2>18, Handled
<1> QED BY <1>5, <1>6

LEMMA LedgerStarts == LedgerInit => LedgerInv
<1> SUFFICES ASSUME LedgerInit PROVE LedgerInv
  OBVIOUS
<1>1. /\ db.bets = {} /\ db.points = EachWallet(0) /\ db.fees = EachWallet(0) /\ db.events = EmptyBag
      /\ db.canonical = EachWallet(None) /\ db.members = EachWallet({}) /\ db.codes = {}
      /\ db.referrer = EachWallet(None) /\ db.invited = EachWallet({})
      /\ db \in Tables(db.events)
  BY DEF LedgerInit, Tables, EachWallet, Maybe
<1>2. IsHistory(db.events)
  <2>1. DOMAIN db.events = {} /\ db.events \in [{} -> Nat \ {0}]
    BY <1>1 DEF EmptyBag, SetToBag
  <2> QED BY <2>1, FS_EmptySet DEF IsHistory
<1>3. \A value : Worth(db.events, value) = 0
  BY <1>1, WorthOfNothing
<1>4. Covered(db) /\ OncePerBet(db) /\ OncePerWallet(db) /\ Even(db)
  BY <1>1, <1>3 DEF Covered, OncePerBet, OncePerWallet, Even, EachWallet
<1>5. \A w \in Wallets : db.referrer[w] # w
  BY <1>1, LedgerAssumption DEF EachWallet
<1>6. Whole(db)
  BY <1>1, LedgerAssumption DEF Whole, EachWallet
<1>7. requests \in 0..MaxRequests /\ deaths \in 0..MaxDeaths
  BY LedgerAssumption DEF LedgerInit
<1> QED BY <1>1, <1>2, <1>4, <1>5, <1>6, <1>7 DEF LedgerInv, Sound

\* Every handler keeps the invariant, wherever it is cut off.
THEOREM LedgerInvariant == LedgerSpec => []LedgerInv
<1>1. LedgerInv /\ [LedgerNext]_ledgerVars => LedgerInv'
  <2> SUFFICES ASSUME LedgerInv, [LedgerNext]_ledgerVars PROVE LedgerInv'
    OBVIOUS
  <2>1. CASE UNCHANGED ledgerVars
    BY <2>1 DEF ledgerVars, LedgerInv, Sound, Even, Whole, Covered, OncePerBet, OncePerWallet
  <2>2. CASE LedgerNext
    BY <2>2, RecordKeeps, SummaryKeeps, RedeemKeeps, LinkKeeps DEF LedgerNext
  <2> QED BY <2>1, <2>2
<1> QED BY <1>1, LedgerStarts, PTL DEF LedgerSpec

\* The tables keep their columns, whatever a crash leaves of a handler.
THEOREM LedgerTypes == LedgerSpec => []LedgerTypeOK
<1>1. LedgerInv => LedgerTypeOK
  <2>1. IsHistory(db.events) => IsABag(db.events)
    <3>1. Nat \ {0} = {n \in Nat : n > 0}
      OBVIOUS
    <3> QED BY <3>1 DEF IsHistory, IsABag
  <2> QED BY <2>1 DEF LedgerInv, LedgerTypeOK, Sound, IsHistory
<1> QED BY <1>1, LedgerInvariant, PTL

\* Totals and history agree (recordPointsEvent, leaderboardRows), for any
\* number of wallets, bets, requests and crashes.
THEOREM PointsAreAccountedFor == LedgerSpec => []LedgerAgrees
<1>1. LedgerInv => LedgerAgrees
  BY DEF LedgerInv, LedgerAgrees, Sound, Covered, Even
<1> QED BY <1>1, LedgerInvariant, PTL

\* Linked wallets are counted once (mergeIdentity, leaderboardRows).
THEOREM IdentitiesArePartitions == LedgerSpec => []IdentityPartition
<1>1. LedgerInv => IdentityPartition
  <2> SUFFICES ASSUME LedgerInv, deaths = 0, NEW w \in Wallets
               PROVE  {c \in Wallets : w \in db.members[c]} = {db.canonical[w]} \ {None}
    BY DEF IdentityPartition
  <2>1. \A c \in Wallets : w \in db.members[c] <=> db.canonical[w] = c
    BY DEF LedgerInv, Whole
  <2>2. db.canonical[w] \in Maybe /\ None \notin Wallets
    BY LedgerAssumption DEF LedgerInv, Sound, Tables
  <2> QED BY <2>1, <2>2 DEF Maybe
<1> QED BY <1>1, LedgerInvariant, PTL

\* A bet is paid for once, however often it is sent and wherever the service
\* dies (handleBetRecord).
THEOREM BetsArePaidOnce == LedgerSpec => []BetPaidOnce
<1>1. LedgerInv => BetPaidOnce
  BY DEF LedgerInv, BetPaidOnce, Sound, OncePerBet
<1> QED BY <1>1, LedgerInvariant, PTL

\* A wallet is referred once, by a bet or by a redemption (handleBetRecord,
\* handleInviteRedeem).
THEOREM WalletsAreReferredOnce == LedgerSpec => []ReferredOnce
<1>1. LedgerInv => ReferredOnce
  BY DEF LedgerInv, ReferredOnce, Sound, OncePerWallet
<1> QED BY <1>1, LedgerInvariant, PTL
=============================================================================
