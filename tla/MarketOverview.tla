--------------------------- MODULE MarketOverview ---------------------------
(***************************************************************************)
(* The overview of the prediction markets that the keeper service shows:   *)
(* the live duel's surface and the surface of the duel settled last        *)
(* (hyperbet-evm/keeper/src: service.ts, betSync.ts).                      *)
(*                                                                         *)
(* It is derived again, from the previous overview, whenever the stream    *)
(* state changes (BetSync) and whenever a poll of the chains ends.  The    *)
(* poll reads the duel's key before its requests and keeps one market      *)
(* snapshot per chain; the bot's health file stands in while there is no   *)
(* snapshot.  The duel, its market and the bot's file are external.  One   *)
(* EVM chain is modelled: the records of different chains never mix.       *)
(* A duel is its number, which stands for its key, its id and its market's *)
(* key; 0 is null.                                                         *)
(***************************************************************************)
EXTENDS Integers

CONSTANTS
    Duels,      \* bound: number of duels the game runs
    Skip,       \* bound: how far an applied event may be ahead of the last
    Back,       \* bound: how far it may be behind it (a tolerated rollback)
    MaxCrashes, \* bound: crashes of the service
    Setups      \* how the chain may be known: polled, through an RPC client (parser.enabled),
                \* or by the bot, through its health file (KEEPER_BOT_HEALTH_FILE)

ASSUME MarketOverviewAssumption ==
    /\ Duels \in Nat \ {0}
    /\ {Skip, Back, MaxCrashes} \subseteq Nat
    /\ Setups \subseteq [polled : BOOLEAN, bot : BOOLEAN]

VARIABLES
    setup,      \* how the chain is known to the service
    pos,        \* the streamed cycle, as a place in the game's course
    market,     \* per duel, the status and winner of its market on the chain
    health,     \* the bot's health record of the chain, or Nothing
    snapshot,   \* parser.snapshot, or Nothing
    poll,       \* the poll in flight and the duel it asks for
    live, recent, \* predictionMarketsOverview
    crashes

vars == <<setup, pos, market, health, snapshot, poll, live, recent, crashes>>

Nothing == [duel |-> -1]
NoDuel == 0
Phases == {"ANNOUNCEMENT", "COUNTDOWN", "FIGHTING", "RESOLUTION", "IDLE"}
Winners == {"NONE", "A", "B"}
StatusRank == [UNKNOWN |-> -1, PENDING |-> 0, OPEN |-> 1, LOCKED |-> 2, PROPOSED |-> 3,
               CHALLENGED |-> 4, RESOLVED |-> 5, CANCELLED |-> 5]
Lifecycles == DOMAIN StatusRank

\* The game's course: after the boot state each duel goes through the phases,
\* and between two duels the source names none.
Boot == 0
Positions == Boot..(5 * Duels)
DuelAt(p) == (p + 4) \div 5
WinnerOf(d) == IF d % 2 = 1 THEN "A" ELSE "B"
PhaseAt(p) == IF p = Boot THEN "IDLE"
              ELSE CASE p % 5 = 1 -> "ANNOUNCEMENT" [] p % 5 = 2 -> "COUNTDOWN"
                     [] p % 5 = 3 -> "FIGHTING" [] p % 5 = 4 -> "RESOLUTION"
                     [] p % 5 = 0 -> "IDLE"

\* currentDuelSnapshot of the cycle at a place.
Cycle(p) == [duel |-> IF PhaseAt(p) = "IDLE" THEN NoDuel ELSE DuelAt(p),
             phase |-> PhaseAt(p),
             winner |-> IF PhaseAt(p) = "RESOLUTION" THEN WinnerOf(DuelAt(p)) ELSE "NONE"]

Snapshots == [duel : 1..Duels, status : Lifecycles, winner : Winners]
Records == [duel : 0..Duels, ref : 0..Duels, status : Lifecycles, winner : Winners]
Surfaces == [duel : 0..Duels, phase : Phases, winner : Winners, market : Records \cup {Nothing}]

TypeOK ==
    /\ setup \in Setups
    /\ pos \in Positions
    /\ market \in [1..Duels -> [status : {"PENDING", "OPEN", "LOCKED", "RESOLVED", "CANCELLED"},
                                winner : Winners]]
    /\ health \in Snapshots \cup {Nothing}
    /\ snapshot \in Snapshots \cup {Nothing}
    /\ poll \in -1..Duels
    /\ live \in Surfaces
    /\ recent \in Surfaces \cup {Nothing}
    /\ crashes \in 0..MaxCrashes

----
Coalesce(a, b) == IF a # NoDuel THEN a ELSE b
CoalesceWinner(a, b) == IF a # "NONE" THEN a ELSE b

\* The duel a snapshot or health record was made for, if there is one.
KnownDuel(shown) == IF shown # Nothing THEN shown.duel ELSE NoDuel

\* buildEvmPredictionMarketLifecycleRecord, for the duel that is asked for:
\* the snapshot's status, else the health file's.
Record(duel, streamed, snap) ==
    LET shown == IF snap # Nothing THEN snap ELSE health
        key   == Coalesce(duel, Coalesce(streamed, KnownDuel(shown)))
    IN  IF shown = Nothing /\ ~setup.polled THEN Nothing
        ELSE IF shown = Nothing
             THEN [duel |-> key, ref |-> NoDuel, status |-> "UNKNOWN", winner |-> "NONE"]
             ELSE [duel |-> key, ref |-> shown.duel, status |-> shown.status, winner |-> shown.winner]

\* betSync.ts preferPreviousMarket.
PreferPrevious_Latest(prev, next) == FALSE  \* mutant: what was read last wins

PreferPrevious(prev, next) ==
    \/ StatusRank[next.status] < StatusRank[prev.status]
    \/ /\ StatusRank[next.status] = StatusRank[prev.status]
       /\ prev.winner # "NONE" /\ next.winner = "NONE"

\* mergeMarketRecord
MergeRecord(prev, next) ==
    LET preferred == IF PreferPrevious(prev, next) THEN prev ELSE next
        fallback  == IF PreferPrevious(prev, next) THEN next ELSE prev
    IN  [preferred EXCEPT !.duel = Coalesce(@, fallback.duel),
                          !.winner = CoalesceWinner(@, fallback.winner)]

\* buildPredictionMarketsSurfaceForDuel with mergePredictionMarketsSurface: a
\* surface is rebuilt for its own duel and merged with what it showed.
Refreshed(surface, streamed, snap) ==
    LET record == Record(surface.duel, streamed, snap)
    IN  [surface EXCEPT !.market =
            IF record = Nothing THEN @
            ELSE IF @ = Nothing THEN record
            ELSE MergeRecord(@, record)]

\* buildLivePredictionMarketsSurface of a source that names a duel, or of a
\* service that has shown none.
FreshSurface(cycle, streamed, snap) ==
    LET record   == Record(cycle.duel, streamed, snap)
        fallback == record # Nothing /\ record.duel # NoDuel
    IN  [duel   |-> Coalesce(cycle.duel, IF fallback THEN record.duel ELSE NoDuel),
         phase  |-> cycle.phase,
         winner |-> CoalesceWinner(cycle.winner, IF fallback THEN record.winner ELSE "NONE"),
         market |-> record]

\* While the source names no duel, the one that just finished stays live.
KeepsPrevious_Never(cycle) == FALSE  \* mutant

KeepsPrevious(cycle) == cycle.phase = "IDLE" /\ cycle.duel = NoDuel

Meaningful(surface) == surface.duel # NoDuel \/ surface.market # Nothing

SameDuel_WholeSurface(s, t) == s = t  \* mutant

SameDuel(s, t) == s.duel # NoDuel /\ t.duel # NoDuel /\ s.duel = t.duel

\* rollPredictionMarketsOverview: on a handoff the old live surface becomes
\* the recent settlement.
Rolled(next) == IF Meaningful(live) /\ Meaningful(next) /\ ~SameDuel(live, next) THEN live ELSE recent

\* derivePredictionMarketsOverview: a recent settlement that is live again is
\* dropped.
Derive(cycle, streamed, snap) ==
    LET next   == IF KeepsPrevious(cycle) THEN Refreshed(live, streamed, snap)
                  ELSE FreshSurface(cycle, streamed, snap)
        rolled == Rolled(next)
        again  == IF rolled = Nothing THEN Nothing ELSE Refreshed(rolled, streamed, snap)
    IN  /\ live' = next
        /\ recent' = IF again # Nothing /\ SameDuel(again, next) THEN Nothing ELSE again

----
Init ==
    /\ setup \in Setups
    /\ pos = Boot
    /\ market = [d \in 1..Duels |-> [status |-> "PENDING", winner |-> "NONE"]]
    /\ health = Nothing
    /\ snapshot = Nothing
    /\ poll = -1
    /\ live = FreshSurface(Cycle(Boot), NoDuel, Nothing)
    /\ recent = Nothing
    /\ crashes = 0

\* An event of the source is projected (applyBetSyncEvent,
\* commitStreamProjection).  Events may be missed, and the source may go back
\* as far as BetSync tolerates.  The stream state the records fall back on is
\* still the old one.
ApplyCycle ==
    \E p \in Positions \ {Boot} :
        /\ p \in (pos - Back)..(pos + Skip)
        /\ pos' = p
        /\ Derive(Cycle(p), Cycle(pos).duel, snapshot)
        /\ UNCHANGED <<market, health, snapshot, poll, crashes>>

\* pollEvmSnapshot: the duel to ask for is chosen before the requests.
BeginPoll ==
    LET streamed == Cycle(pos).duel
        known    == Coalesce(KnownDuel(snapshot), KnownDuel(health))
    IN  /\ setup.polled /\ poll = -1
        /\ poll' = Coalesce(streamed, known)
        /\ UNCHANGED <<pos, market, health, snapshot, live, recent, crashes>>

\* pollContractParsers: the answer becomes the snapshot and the overview is
\* derived again, also when the request failed or there was nothing to ask.
EndPoll ==
    /\ poll # -1
    /\ poll' = -1
    /\ snapshot' \in {snapshot} \cup
          (IF poll = NoDuel THEN {}
           ELSE {[duel |-> poll, status |-> market[poll].status, winner |-> market[poll].winner]})
    /\ Derive(Cycle(pos), Cycle(pos).duel, snapshot')
    /\ UNCHANGED <<pos, market, health, crashes>>

\* The service dies and starts again: stream state and overview come back
\* from the store, snapshots do not.
Crash ==
    /\ crashes < MaxCrashes
    /\ crashes' = crashes + 1
    /\ snapshot' = Nothing
    /\ poll' = -1
    /\ UNCHANGED <<pos, market, health, live, recent>>

\* The market of an announced duel moves on.
MarketMoves ==
    \E d \in 1..Duels :
        /\ DuelAt(pos) >= d
        /\ \/ /\ market[d].status = "PENDING"
              /\ market' = [market EXCEPT ![d].status = "OPEN"]
           \/ /\ market[d].status = "OPEN"
              /\ market' = [market EXCEPT ![d].status = "LOCKED"]
           \/ /\ market[d].status = "LOCKED" /\ pos >= 5 * d - 1
              /\ market' = [market EXCEPT ![d] = [status |-> "RESOLVED", winner |-> WinnerOf(d)]]
           \/ /\ market[d].status \in {"OPEN", "LOCKED"}
              /\ market' = [market EXCEPT ![d].status = "CANCELLED"]
        /\ UNCHANGED <<pos, health, snapshot, poll, live, recent, crashes>>

\* The bot writes its health file.  It knows of proposals and challenges.
BotWrites ==
    \E d \in 1..Duels :
        /\ setup.bot
        /\ DuelAt(pos) >= d
        /\ \E status \in {market[d].status} \cup
                 (IF market[d].status = "LOCKED" THEN {"PROPOSED", "CHALLENGED"} ELSE {}) :
              health' = [duel |-> d, status |-> status, winner |-> market[d].winner]
        /\ UNCHANGED <<pos, market, snapshot, poll, live, recent, crashes>>

Next ==
    /\ \/ ApplyCycle \/ BeginPoll \/ EndPoll \/ Crash
       \/ MarketMoves \/ BotWrites
    /\ UNCHANGED setup

Spec == Init /\ [][Next]_vars

----
\* No duel is shown as live and as settled at once, also when the source goes
\* back to the duel it had left (service.ts derivePredictionMarketsOverview).
SurfacesDisjoint == recent # Nothing /\ recent.duel # NoDuel => recent.duel # live.duel

\* The gap between two duels, a crash in it or a poll during it never lose the
\* duel that just finished: it stays live until another one takes its place,
\* and then it is the recent settlement (service.ts:1774).
FinishedDuelKept ==
    [][live.duel # NoDuel =>
          /\ live'.duel # NoDuel
          /\ live'.duel # live.duel => recent' # Nothing /\ recent'.duel = live.duel]_<<live, recent>>

\* The market status shown for a recent settlement never weakens, whatever an
\* interrupted poll or a restart leaves to show (betSync.test.ts:130).
SettlementNeverWeakens ==
    [][(recent # Nothing /\ recent' # Nothing /\ recent'.duel = recent.duel
          /\ recent.duel # NoDuel /\ recent.market # Nothing)
       => /\ recent'.market # Nothing
          /\ StatusRank[recent'.market.status] >= StatusRank[recent.market.status]]_recent
=============================================================================
