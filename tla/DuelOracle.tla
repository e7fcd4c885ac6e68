----------------------------- MODULE DuelOracle -----------------------------
(***************************************************************************)
(* DuelOutcomeOracle.sol: the contract that carries a duel from its        *)
(* announcement to a disputed, finalized result.                           *)
(*                                                                         *)
(* One action per external function.  A call that reverts changes nothing, *)
(* so an action is the successful call and its guard is the conjunction of *)
(* the checks the function makes, role modifiers included.  The EVM runs   *)
(* transactions one at a time, so each call is one step.  Reporter,        *)
(* finalizer and challenger are fixed by the constructor (every setter and *)
(* role mutation but the pauser's reverts with GovernanceSurfaceFrozen):   *)
(* their actions need no caller.  The set of pausers does change.          *)
(*                                                                         *)
(* Left out: the metadata URI and the seed, which no check reads.          *)
(***************************************************************************)
EXTENDS Naturals

CONSTANTS
    Duels,          \* duel keys (non-zero bytes32)
    Hashes,         \* participant hashes
    NoHash,         \* bytes32(0)
    Offers,         \* the terms a reporter may send to upsertDuel
    EndTimes,       \* the duel end times a reporter may send
    Evidence,       \* pairs (resultHash, replayHash) a reporter may submit
    NoProposal,     \* bytes32(0) as activeProposalId
    Times,          \* block timestamps
    DisputeWindow,  \* disputeWindowSeconds
    PauserAccounts  \* accounts the admin may make a pauser

ASSUME TimesAssumption == Times \subseteq Nat
ASSUME WindowAssumption == DisputeWindow \in Nat /\ DisputeWindow >= 60
ASSUME ProposalAssumption == NoProposal \notin Evidence

VARIABLES
    now,        \* block.timestamp
    duels,      \* duels mapping; an unwritten key holds EmptyDuel
    proposals,  \* proposals mapping, keyed by duel and evidence
    paused,     \* oracleActionsPaused
    pausers     \* holders of PAUSER_ROLE

oracleVars == <<now, duels, proposals, paused, pausers>>

-----------------------------------------------------------------------------
Statuses == {"NULL", "SCHEDULED", "BETTING_OPEN", "LOCKED",
             "PROPOSED", "CHALLENGED", "RESOLVED", "CANCELLED"}
Sides == {"A", "B"}

\* The numeric value of the enum, which upsertDuel compares.
Rank(status) ==
    CASE status = "NULL"         -> 0
      [] status = "SCHEDULED"    -> 1
      [] status = "BETTING_OPEN" -> 2
      [] status = "LOCKED"       -> 3
      [] status = "PROPOSED"     -> 4
      [] status = "CHALLENGED"   -> 5
      [] status = "RESOLVED"     -> 6
      [] status = "CANCELLED"    -> 7

\* The participants and the three timings: what bettors agree to.
Terms == [partA : Hashes, partB : Hashes,
          betOpen : Nat, betClose : Nat, duelStart : Nat]

ASSUME InputAssumption ==
    /\ NoHash \in Hashes
    /\ Offers \subseteq Terms
    /\ EndTimes \subseteq Nat

DuelState == [status  : Statuses,
              terms   : Terms,
              winner  : Sides \cup {"NONE"},
              duelEnd : Nat,
              result  : Evidence \cup {NoProposal},
              active  : Evidence \cup {NoProposal}]

ResultProposal == [exists     : BOOLEAN,
                   winner     : Sides \cup {"NONE"},
                   duelEnd    : Nat,
                   proposedAt : Nat,
                   challenged : BOOLEAN]

EmptyDuel == [status  |-> "NULL",
              terms   |-> [partA |-> NoHash, partB |-> NoHash,
                           betOpen |-> 0, betClose |-> 0, duelStart |-> 0],
              winner  |-> "NONE",
              duelEnd |-> 0,
              result  |-> NoProposal,
              active  |-> NoProposal]

NoResult == [exists |-> FALSE, winner |-> "NONE", duelEnd |-> 0,
             proposedAt |-> 0, challenged |-> FALSE]

\* Mutant: the proposal records when its window opened as seen from its end.
NewProposal_Backdated(winner, duelEnd) ==
    [exists |-> TRUE, winner |-> winner, duelEnd |-> duelEnd,
     proposedAt |-> now - DisputeWindow, challenged |-> FALSE]
NewProposal(winner, duelEnd) ==
    [exists |-> TRUE, winner |-> winner, duelEnd |-> duelEnd,
     proposedAt |-> now, challenged |-> FALSE]

OracleInit ==
    /\ now \in Times
    /\ duels = [d \in Duels |-> EmptyDuel]
    /\ proposals = [d \in Duels |-> [e \in Evidence |-> NoResult]]
    /\ paused = FALSE
    /\ \E p \in PauserAccounts : pausers = {p}

-----------------------------------------------------------------------------
Settleable(d) == duels[d].status \notin {"RESOLVED", "CANCELLED"}

ValidTerms(t) ==
    /\ t.partA # NoHash
    /\ t.partB # NoHash
    /\ t.partA # t.partB
    /\ t.betOpen # 0
    /\ t.betClose > t.betOpen
    /\ t.duelStart >= t.betClose

MayLock(t) == now >= t.betClose

\* Mutant: the terms are frozen at the lock instead of at the opening.
KeepsTerms_OnceLocked(d, t) ==
    Rank(duels[d].status) >= Rank("LOCKED") => t = duels[d].terms
KeepsTerms(d, t) ==
    Rank(duels[d].status) >= Rank("BETTING_OPEN") => t = duels[d].terms

UpsertDuel(d, t, status) ==
    /\ ~paused
    /\ ValidTerms(t)
    /\ status = "LOCKED" => MayLock(t)
    /\ Settleable(d)
    /\ Rank(status) >= Rank(duels[d].status)
    /\ KeepsTerms(d, t)
    /\ duels' = [duels EXCEPT ![d] = [@ EXCEPT !.status = status, !.terms = t]]
    /\ UNCHANGED <<now, proposals, paused, pausers>>

CancelDuel(d) ==
    /\ pausers # {}
    /\ ~paused
    /\ duels[d].status # "NULL"
    /\ Settleable(d)
    /\ duels' = [duels EXCEPT ![d] = [@ EXCEPT !.status = "CANCELLED", !.active = NoProposal]]
    /\ UNCHANGED <<now, proposals, paused, pausers>>

ProposeResult(d, e, winner, duelEnd) ==
    /\ ~paused
    /\ duels[d].status = "LOCKED"
    /\ now >= duels[d].terms.betClose
    /\ duelEnd >= duels[d].terms.betClose
    /\ ~proposals[d][e].exists
    /\ proposals' = [proposals EXCEPT ![d][e] = NewProposal(winner, duelEnd)]
    /\ duels' = [duels EXCEPT ![d] = [@ EXCEPT !.status = "PROPOSED", !.active = e]]
    /\ UNCHANGED <<now, paused, pausers>>

ActiveProposal(d) ==
    IF duels[d].active \in Evidence THEN proposals[d][duels[d].active] ELSE NoResult

\* The first moment at which the proposal can no longer be challenged.
\* Mutant: the window is a second short.
Deadline_OffByOne(proposal) == proposal.proposedAt + DisputeWindow - 1
Deadline(proposal) == proposal.proposedAt + DisputeWindow

ChallengeResult(d) ==
    /\ ~paused
    /\ duels[d].status = "PROPOSED"
    /\ ActiveProposal(d).exists
    /\ ~ActiveProposal(d).challenged
    /\ now < Deadline(ActiveProposal(d))
    /\ proposals' = [proposals EXCEPT ![d][duels[d].active] = [@ EXCEPT !.challenged = TRUE]]
    /\ duels' = [duels EXCEPT ![d] = [@ EXCEPT !.status = "CHALLENGED"]]
    /\ UNCHANGED <<now, paused, pausers>>

\* Mutant: the challenged proposal stays in storage.
WithoutActive_Kept(d) == proposals
WithoutActive(d) == [proposals EXCEPT ![d][duels[d].active] = NoResult]

\* The challenged proposal is deleted before the new id is looked up, so the
\* same evidence may be submitted again.
ReproposeResult(d, e, winner, duelEnd) ==
    /\ ~paused
    /\ duels[d].status = "CHALLENGED"
    /\ duelEnd >= duels[d].terms.betClose
    /\ ~WithoutActive(d)[d][e].exists
    /\ proposals' = [WithoutActive(d) EXCEPT ![d][e] = NewProposal(winner, duelEnd)]
    /\ duels' = [duels EXCEPT ![d] = [@ EXCEPT !.status = "PROPOSED", !.active = e]]
    /\ UNCHANGED <<now, paused, pausers>>

FinalizeResult(d) ==
    /\ ~paused
    /\ duels[d].status = "PROPOSED"
    /\ ActiveProposal(d).exists
    /\ ~ActiveProposal(d).challenged
    /\ now >= Deadline(ActiveProposal(d))
    /\ duels' = [duels EXCEPT ![d] = [@ EXCEPT !.status  = "RESOLVED",
                                            !.winner  = ActiveProposal(d).winner,
                                            !.duelEnd = ActiveProposal(d).duelEnd,
                                            !.result  = duels[d].active]]
    /\ UNCHANGED <<now, proposals, paused, pausers>>

\* setOraclePaused
SetOraclePaused(p, value) ==
    /\ p \in pausers
    /\ paused' = value
    /\ UNCHANGED <<now, duels, proposals, pausers>>

\* setPauser(p, true) and grantRole(PAUSER_ROLE, p), by the admin.
GrantPauser(p) ==
    /\ pausers' = pausers \cup {p}
    /\ UNCHANGED <<now, duels, proposals, paused>>

\* setPauser(p, false) and revokeRole by the admin, renounceRole by p.
DropPauser(p) ==
    /\ pausers' = pausers \ {p}
    /\ UNCHANGED <<now, duels, proposals, paused>>

\* Block timestamps only grow.
Tick ==
    /\ now' \in {t \in Times : t > now}
    /\ UNCHANGED <<duels, proposals, paused, pausers>>

ReporterStep(d) ==
    \/ \E t \in Offers, s \in {"SCHEDULED", "BETTING_OPEN", "LOCKED"} : UpsertDuel(d, t, s)
    \/ \E e \in Evidence, w \in Sides, end \in EndTimes :
          ProposeResult(d, e, w, end) \/ ReproposeResult(d, e, w, end)

PauserStep(p) ==
    \/ \E value \in BOOLEAN : SetOraclePaused(p, value)
    \/ GrantPauser(p)
    \/ DropPauser(p)

OracleNext ==
    \/ \E d \in Duels :
          \/ ReporterStep(d)
          \/ CancelDuel(d)
          \/ ChallengeResult(d)
          \/ FinalizeResult(d)
    \/ \E p \in PauserAccounts : PauserStep(p)
    \/ Tick

OracleSpec == OracleInit /\ [][OracleNext]_oracleVars

-----------------------------------------------------------------------------
(* Properties. *)

\* Every variable has the shape the contract's storage gives it.
OracleTypeOK ==
    /\ now \in Times
    /\ duels \in [Duels -> DuelState]
    /\ proposals \in [Duels -> [Evidence -> ResultProposal]]
    /\ paused \in BOOLEAN
    /\ pausers \in SUBSET PauserAccounts

InDispute(d) == duels[d].status \in {"PROPOSED", "CHALLENGED"}
Started(d) == duels[d].status \in {"LOCKED", "PROPOSED", "CHALLENGED", "RESOLVED"}

\* A published result is the result of the duel's active proposal, which
\* nobody challenged for a whole dispute window, and which was made after
\* betting closed and for a duel that ended after betting closed.  However
\* challenges, re-proposals of the same evidence, cancellations and pauses
\* interleave, finalizeResult publishes nothing else.
SurvivedDispute(d) ==
    duels[d].status = "RESOLVED" =>
        /\ duels[d].result = duels[d].active
        /\ ~ActiveProposal(d).challenged
        /\ duels[d].winner = ActiveProposal(d).winner
        /\ duels[d].duelEnd = ActiveProposal(d).duelEnd
        /\ duels[d].duelEnd >= duels[d].terms.betClose
        /\ ActiveProposal(d).proposedAt >= duels[d].terms.betClose
        /\ now >= ActiveProposal(d).proposedAt + DisputeWindow
ResultSurvivedDispute == \A d \in Duels : SurvivedDispute(d)

\* Proposals live in a mapping of their own, which no operation sweeps: a
\* duel still never has two of them, and the one it has is the active one,
\* challenged exactly while the duel is CHALLENGED.  Cancelling detaches it.
HasOneProposal(d) ==
    /\ \A e, f \in Evidence :
          proposals[d][e].exists /\ proposals[d][f].exists => e = f
    /\ \A e \in Evidence : proposals[d][e].exists =>
          duels[d].active = e \/ duels[d].status = "CANCELLED"
    /\ InDispute(d) \/ duels[d].status = "RESOLVED" <=> duels[d].active \in Evidence
    /\ duels[d].active \in Evidence =>
          /\ ActiveProposal(d).exists
          /\ ActiveProposal(d).challenged <=> duels[d].status = "CHALLENGED"
OneLiveProposal == \A d \in Duels : HasOneProposal(d)

\* A duel names a winner exactly when it is RESOLVED: no market can read a
\* result that is still open to challenge or that was cancelled.
NamesWinner(d) == duels[d].winner # "NONE" <=> duels[d].status = "RESOLVED"
WinnerOnlyWhenResolved == \A d \in Duels : NamesWinner(d)

\* Once a duel is locked, betting on the terms it still carries is over: no
\* re-announcement can move the closing time past the lock.
ClosedBeforeLock(d) == Started(d) => now >= duels[d].terms.betClose
LockedAfterBetClose == \A d \in Duels : ClosedBeforeLock(d)

\* Nothing changes a resolved or cancelled duel.
TerminalFinal ==
    [][\A d \in Duels :
          duels[d].status \in {"RESOLVED", "CANCELLED"} => duels'[d] = duels[d]]_oracleVars

\* From the moment bets are accepted the participants and timings stay, and
\* the duel never goes back to a status in which they could be rewritten.
TermsFrozenOnceOpen ==
    [][\A d \in Duels :
          Rank(duels[d].status) >= Rank("BETTING_OPEN") =>
              /\ duels'[d].terms = duels[d].terms
              /\ Rank(duels'[d].status) >= Rank("BETTING_OPEN")]_oracleVars

\* What a market can observe of a duel: the dispute is invisible to it.
MarketView(duel) ==
    [status   |-> IF duel.status \in {"PROPOSED", "CHALLENGED"} THEN "LOCKED" ELSE duel.status,
     betClose |-> duel.terms.betClose,
     winner   |-> duel.winner]

FeedView == [d \in Duels |-> MarketView(duels[d])]

Feed == INSTANCE DuelFeed WITH feed <- FeedView,
                               CloseTimes <- {t.betClose : t \in Offers}

\* The contract implements the specification its markets rely on.
ImplementsFeed == Feed!FeedSpec
=============================================================================
