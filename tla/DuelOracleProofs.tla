-------------------------- MODULE DuelOracleProofs --------------------------
(***************************************************************************)
(* Proofs about the duel oracle, for every set of duels, terms, evidence,  *)
(* block times and pauser accounts and every dispute window.               *)
(***************************************************************************)
EXTENDS DuelOracle, TLAPS

\* The storage keeps its shape.
THEOREM OracleTypeCorrect == OracleSpec => []OracleTypeOK
<1>1. OracleInit => OracleTypeOK
  <2>1. EmptyDuel \in DuelState
    BY InputAssumption DEF DuelState, EmptyDuel, Statuses, Terms
  <2>2. NoResult \in ResultProposal
    BY DEF NoResult, ResultProposal
  <2>3. QED
    BY <2>1, <2>2 DEF OracleInit, OracleTypeOK
<1>2. OracleTypeOK /\ [OracleNext]_oracleVars => OracleTypeOK'
  <2> SUFFICES ASSUME OracleTypeOK, [OracleNext]_oracleVars
               PROVE  OracleTypeOK'
    OBVIOUS
  <2> USE DEF OracleTypeOK
  <2>1. ASSUME NEW d \in Duels, NEW t \in Offers,
               NEW s \in {"SCHEDULED", "BETTING_OPEN", "LOCKED"}, UpsertDuel(d, t, s)
        PROVE  OracleTypeOK'
    BY <2>1, InputAssumption, SMTT(30), ZenonT(60) DEF UpsertDuel, DuelState, Statuses
  <2>2. ASSUME NEW d \in Duels, CancelDuel(d)
        PROVE  OracleTypeOK'
    BY <2>2, SMTT(30), ZenonT(60) DEF CancelDuel, DuelState, Statuses
  <2>3. ASSUME NEW d \in Duels, NEW e \in Evidence, NEW w \in Sides, NEW end \in EndTimes,
               ProposeResult(d, e, w, end)
        PROVE  OracleTypeOK'
    <3>1. NewProposal(w, end) \in ResultProposal
      BY InputAssumption, TimesAssumption DEF NewProposal, ResultProposal, Sides
    <3>2. QED
      BY <2>3, <3>1, SMTT(30), ZenonT(60) DEF ProposeResult, DuelState, Statuses
  <2>4. ASSUME NEW d \in Duels, NEW e \in Evidence, NEW w \in Sides, NEW end \in EndTimes,
               ReproposeResult(d, e, w, end)
        PROVE  OracleTypeOK'
    <3>1. NewProposal(w, end) \in ResultProposal
      BY InputAssumption, TimesAssumption DEF NewProposal, ResultProposal, Sides
    <3>2. NoResult \in ResultProposal
      BY DEF NoResult, ResultProposal
    <3>3. QED
      BY <2>4, <3>1, <3>2, SMTT(30), ZenonT(60) DEF ReproposeResult, WithoutActive, DuelState, Statuses
  <2>5. ASSUME NEW d \in Duels, ChallengeResult(d)
        PROVE  OracleTypeOK'
    <3>1. [duels[d] EXCEPT !.status = "CHALLENGED"] \in DuelState
      BY DEF DuelState, Statuses
    <3>2. duels[d].active \in Evidence
      BY <2>5 DEF ChallengeResult, ActiveProposal, NoResult
    <3>3. [proposals[d][duels[d].active] EXCEPT !.challenged = TRUE] \in ResultProposal
      <4>1. proposals[d][duels[d].active] \in ResultProposal
        BY <3>2
      <4>2. QED
        BY <4>1 DEF ResultProposal
    <3>4. [proposals[d] EXCEPT ![duels[d].active] =
              [proposals[d][duels[d].active] EXCEPT !.challenged = TRUE]]
            \in [Evidence -> ResultProposal]
      BY <3>2, <3>3
    <3>5. duels' \in [Duels -> DuelState]
      BY <2>5, <3>1 DEF ChallengeResult
    <3>6. proposals' \in [Duels -> [Evidence -> ResultProposal]]
      BY <2>5, <3>4 DEF ChallengeResult
    <3>7. QED
      BY <2>5, <3>5, <3>6 DEF ChallengeResult
  <2>6. ASSUME NEW d \in Duels, FinalizeResult(d)
        PROVE  OracleTypeOK'
    <3>1. ActiveProposal(d) \in ResultProposal
      BY DEF ActiveProposal, NoResult, ResultProposal
    <3> DEFINE p == ActiveProposal(d)
               new == [duels[d] EXCEPT !.status = "RESOLVED", !.winner = p.winner,
                                       !.duelEnd = p.duelEnd, !.result = duels[d].active]
    <3>2. p.winner \in Sides \cup {"NONE"} /\ p.duelEnd \in Nat
      BY <3>1 DEF ResultProposal
    <3>3. duels' = [duels EXCEPT ![d] = new]
      BY <2>6 DEF FinalizeResult
    <3> HIDE DEF p
    <3>4. new \in DuelState
      BY <3>2 DEF DuelState, Statuses
    <3> HIDE DEF new
    <3>5. QED
      BY <2>6, <3>3, <3>4 DEF FinalizeResult
  <2>7. ASSUME NEW p \in PauserAccounts, PauserStep(p)
        PROVE  OracleTypeOK'
    BY <2>7 DEF PauserStep, SetOraclePaused, GrantPauser, DropPauser
  <2>8. CASE Tick
    BY <2>8 DEF Tick
  <2>9. CASE UNCHANGED oracleVars
    BY <2>9 DEF oracleVars
  <2>10. QED
    BY <2>1, <2>2, <2>3, <2>4, <2>5, <2>6, <2>7, <2>8, <2>9 DEF OracleNext, ReporterStep
<1>3. QED
  BY <1>1, <1>2, PTL DEF OracleSpec

-----------------------------------------------------------------------------
(***************************************************************************)
(* The inductive invariant.  The properties of a resolved duel rest on     *)
(* what held when its result was proposed, so the invariant says it of the *)
(* active proposal from that moment on.                                    *)
(***************************************************************************)
AdmissibleProposal(d) ==
    duels[d].active \in Evidence =>
        /\ ActiveProposal(d).winner \in Sides
        /\ ActiveProposal(d).duelEnd >= duels[d].terms.betClose
        /\ ActiveProposal(d).proposedAt >= duels[d].terms.betClose

DuelInv(d) ==
    /\ SurvivedDispute(d)
    /\ HasOneProposal(d)
    /\ NamesWinner(d)
    /\ ClosedBeforeLock(d)
    /\ AdmissibleProposal(d)

OracleInv == OracleTypeOK /\ \A d \in Duels : DuelInv(d)

\* A step that leaves a duel and its proposals alone keeps its invariant,
\* whatever it does to the clock, the pause and the pausers.
LEMMA UntouchedDuel ==
    ASSUME OracleInv, OracleTypeOK', NEW d \in Duels,
           duels'[d] = duels[d], proposals'[d] = proposals[d], now' >= now
    PROVE  DuelInv(d)'
<1> USE TimesAssumption, WindowAssumption DEF OracleInv, OracleTypeOK
<1>1. now \in Nat /\ now' \in Nat
  OBVIOUS
<1>2. ActiveProposal(d)' = ActiveProposal(d)
  BY DEF ActiveProposal
<1>3. ActiveProposal(d) \in ResultProposal
  BY DEF ActiveProposal, NoResult, ResultProposal
<1>4. ActiveProposal(d).proposedAt + DisputeWindow \in Nat
  BY <1>3 DEF ResultProposal
<1>5. duels[d].terms.betClose \in Nat
  BY DEF DuelState, Terms
<1>6. DuelInv(d)
  OBVIOUS
<1>7. SurvivedDispute(d)'
  BY <1>1, <1>2, <1>4, <1>6 DEF DuelInv, SurvivedDispute
<1>8. HasOneProposal(d)'
  BY <1>2, <1>6 DEF DuelInv, HasOneProposal, InDispute
<1>9. NamesWinner(d)'
  BY <1>6 DEF DuelInv, NamesWinner
<1>10. ClosedBeforeLock(d)'
  BY <1>1, <1>5, <1>6 DEF DuelInv, ClosedBeforeLock, Started
<1>11. AdmissibleProposal(d)'
  BY <1>2, <1>6 DEF DuelInv, AdmissibleProposal
<1>12. QED
  BY <1>7, <1>8, <1>9, <1>10, <1>11 DEF DuelInv

\* Each action keeps the invariant of the duel it acts on.
LEMMA UpsertKeepsInv ==
    ASSUME OracleInv, OracleTypeOK', NEW d \in Duels, NEW t \in Offers,
           NEW s \in {"SCHEDULED", "BETTING_OPEN", "LOCKED"}, UpsertDuel(d, t, s)
    PROVE  DuelInv(d)'
<1> USE DEF OracleInv, OracleTypeOK
<1>1. DuelInv(d) /\ duels[d] \in DuelState
  OBVIOUS
<1>2. duels[d].status \in {"NULL", "SCHEDULED", "BETTING_OPEN", "LOCKED"}
  BY <1>1 DEF UpsertDuel, Settleable, Rank, DuelState, Statuses
<1>3. duels[d].active \notin Evidence /\ duels[d].winner = "NONE"
  BY <1>1, <1>2 DEF DuelInv, HasOneProposal, NamesWinner, InDispute
<1>4. /\ duels'[d] = [duels[d] EXCEPT !.status = s, !.terms = t]
      /\ proposals'[d] = proposals[d] /\ now' = now
  BY DEF UpsertDuel
<1>5. /\ duels'[d].status = s /\ duels'[d].terms = t
      /\ duels'[d].active = duels[d].active /\ duels'[d].winner = duels[d].winner
  BY <1>1, <1>4 DEF DuelState
<1>6. \A e \in Evidence : ~proposals[d][e].exists
  BY <1>1, <1>2, <1>3 DEF DuelInv, HasOneProposal
<1>7. HasOneProposal(d)'
  BY <1>3, <1>4, <1>5, <1>6 DEF HasOneProposal, InDispute
<1>8. ClosedBeforeLock(d)'
  BY <1>4, <1>5 DEF ClosedBeforeLock, Started, UpsertDuel, MayLock
<1>9. SurvivedDispute(d)' /\ NamesWinner(d)' /\ AdmissibleProposal(d)'
  BY <1>3, <1>5 DEF SurvivedDispute, NamesWinner, AdmissibleProposal
<1>10. QED
  BY <1>7, <1>8, <1>9 DEF DuelInv

\* Cancelling drops the proposal with the duel's result.
LEMMA CancelKeepsInv ==
    ASSUME OracleInv, OracleTypeOK', NEW d \in Duels, CancelDuel(d)
    PROVE  DuelInv(d)'
<1> USE DEF OracleInv, OracleTypeOK
<1>1. DuelInv(d) /\ duels[d] \in DuelState
  OBVIOUS
<1>2. duels'[d] = [duels[d] EXCEPT !.status = "CANCELLED", !.active = NoProposal]
  BY DEF CancelDuel
<1>3. /\ duels'[d].status = "CANCELLED" /\ duels'[d].terms = duels[d].terms
      /\ duels'[d].active = NoProposal /\ duels'[d].winner = duels[d].winner
  BY <1>1, <1>2 DEF DuelState
<1>4. duels[d].winner = "NONE"
  BY <1>1 DEF DuelInv, NamesWinner, CancelDuel, Settleable
<1>5. HasOneProposal(d)'
  BY <1>1, <1>3, ProposalAssumption DEF DuelInv, HasOneProposal, InDispute, CancelDuel
<1>6. ClosedBeforeLock(d)'
  BY <1>1, <1>3 DEF DuelInv, ClosedBeforeLock, Started, CancelDuel
<1>7. SurvivedDispute(d)' /\ NamesWinner(d)' /\ AdmissibleProposal(d)'
  BY <1>3, <1>4, ProposalAssumption DEF SurvivedDispute, NamesWinner, AdmissibleProposal
<1>8. QED
  BY <1>5, <1>6, <1>7 DEF DuelInv

\* proposeResult and reproposeResult leave a duel in the same situation: one
\* fresh, unchallenged proposal, the active one.
LEMMA FreshProposalInv ==
    ASSUME OracleInv, OracleTypeOK', NEW d \in Duels, NEW e \in Evidence, NEW w \in Sides,
           NEW end \in EndTimes,
           duels[d].status \in {"LOCKED", "CHALLENGED"},
           end >= duels[d].terms.betClose,
           duels'[d] = [duels[d] EXCEPT !.status = "PROPOSED", !.active = e],
           proposals'[d][e] = NewProposal(w, end),
           \A f \in Evidence : f # e => ~proposals'[d][f].exists,
           now' = now
    PROVE  DuelInv(d)'
<1> USE DEF OracleInv, OracleTypeOK
<1>1. DuelInv(d) /\ duels[d] \in DuelState
  OBVIOUS
<1>2. /\ duels'[d].status = "PROPOSED" /\ duels'[d].terms = duels[d].terms
      /\ duels'[d].active = e /\ duels'[d].winner = duels[d].winner
  BY <1>1 DEF DuelState
<1>3. duels[d].winner = "NONE" /\ now >= duels[d].terms.betClose
  BY <1>1 DEF DuelInv, NamesWinner, ClosedBeforeLock, Started
<1>4. ActiveProposal(d)' = NewProposal(w, end)
  BY <1>2 DEF ActiveProposal
<1>5. HasOneProposal(d)'
  BY <1>2, <1>4 DEF HasOneProposal, InDispute, NewProposal
<1>6. AdmissibleProposal(d)'
  BY <1>2, <1>3, <1>4 DEF AdmissibleProposal, NewProposal
<1>7. ClosedBeforeLock(d)'
  BY <1>1, <1>2, <1>3 DEF DuelInv, ClosedBeforeLock, Started
<1>8. SurvivedDispute(d)' /\ NamesWinner(d)'
  BY <1>2, <1>3 DEF SurvivedDispute, NamesWinner
<1>9. QED
  BY <1>5, <1>6, <1>7, <1>8 DEF DuelInv

\* A first proposal starts its dispute window.
LEMMA ProposeKeepsInv ==
    ASSUME OracleInv, OracleTypeOK', NEW d \in Duels, NEW e \in Evidence, NEW w \in Sides,
           NEW end \in EndTimes, ProposeResult(d, e, w, end)
    PROVE  DuelInv(d)'
<1> USE DEF OracleInv, OracleTypeOK
<1>1. DuelInv(d)
  OBVIOUS
<1>2. \A f \in Evidence : ~proposals[d][f].exists
  BY <1>1, ProposalAssumption DEF DuelInv, HasOneProposal, InDispute, ProposeResult
<1>3. /\ proposals'[d][e] = NewProposal(w, end)
      /\ \A f \in Evidence : f # e => ~proposals'[d][f].exists
  BY <1>2 DEF ProposeResult
<1>4. QED
  BY <1>3, FreshProposalInv DEF ProposeResult

\* A new proposal takes the place of the challenged one.
LEMMA ReproposeKeepsInv ==
    ASSUME OracleInv, OracleTypeOK', NEW d \in Duels, NEW e \in Evidence, NEW w \in Sides,
           NEW end \in EndTimes, ReproposeResult(d, e, w, end)
    PROVE  DuelInv(d)'
<1> USE DEF OracleInv, OracleTypeOK
<1>1. DuelInv(d)
  OBVIOUS
<1> DEFINE old == duels[d].active
<1>2. old \in Evidence
  BY <1>1 DEF DuelInv, HasOneProposal, InDispute, ReproposeResult
<1>3. \A f \in Evidence : f # old => ~proposals[d][f].exists
  BY <1>1 DEF DuelInv, HasOneProposal, ReproposeResult
<1>4. proposals' = [[proposals EXCEPT ![d][old] = NoResult]
                       EXCEPT ![d][e] = NewProposal(w, end)]
  BY DEF ReproposeResult, WithoutActive
<1>5. proposals'[d] = [[proposals[d] EXCEPT ![old] = NoResult] EXCEPT ![e] = NewProposal(w, end)]
  BY <1>4
<1>6. proposals'[d][e] = NewProposal(w, end)
  BY <1>5
<1>7. \A f \in Evidence : f # e => ~proposals'[d][f].exists
  BY <1>2, <1>3, <1>5 DEF NoResult
<1>8. QED
  BY <1>6, <1>7, FreshProposalInv DEF ReproposeResult

\* A challenge marks the one proposal in dispute.
LEMMA ChallengeKeepsInv ==
    ASSUME OracleInv, OracleTypeOK', NEW d \in Duels, ChallengeResult(d)
    PROVE  DuelInv(d)'
<1> USE DEF OracleInv, OracleTypeOK
<1>1. DuelInv(d) /\ duels[d] \in DuelState
  OBVIOUS
<1> DEFINE e == duels[d].active
           challenged == [proposals[d][e] EXCEPT !.challenged = TRUE]
<1>2. e \in Evidence
  BY <1>1 DEF DuelInv, HasOneProposal, InDispute, ChallengeResult
<1>3. proposals[d][e] \in ResultProposal /\ ActiveProposal(d) = proposals[d][e]
  BY <1>2 DEF ActiveProposal
<1>4. duels'[d] = [duels[d] EXCEPT !.status = "CHALLENGED"]
  BY DEF ChallengeResult
<1>5. /\ duels'[d].status = "CHALLENGED" /\ duels'[d].terms = duels[d].terms
      /\ duels'[d].active = e /\ duels'[d].winner = duels[d].winner
  BY <1>1, <1>4 DEF DuelState
<1>6. proposals'[d] = [proposals[d] EXCEPT ![e] = challenged]
  BY <1>2 DEF ChallengeResult
<1>7. ActiveProposal(d)' = challenged
  BY <1>2, <1>5, <1>6 DEF ActiveProposal
<1>8. /\ challenged.exists = ActiveProposal(d).exists /\ challenged.challenged
      /\ challenged.winner = ActiveProposal(d).winner
      /\ challenged.duelEnd = ActiveProposal(d).duelEnd
      /\ challenged.proposedAt = ActiveProposal(d).proposedAt
  BY <1>3 DEF ResultProposal
<1> HIDE DEF e, challenged
<1>9. \A f \in Evidence : proposals'[d][f].exists <=> proposals[d][f].exists
  BY <1>2, <1>3, <1>6, <1>8
<1>10. duels[d].status = "PROPOSED" /\ ActiveProposal(d).exists /\ now' = now
  BY DEF ChallengeResult
<1>11. HasOneProposal(d)'
  BY <1>1, <1>2, <1>5, <1>7, <1>8, <1>9, <1>10 DEF DuelInv, HasOneProposal, InDispute, e
<1>12. AdmissibleProposal(d)'
  BY <1>1, <1>2, <1>5, <1>7, <1>8 DEF DuelInv, AdmissibleProposal, e
<1>13. ClosedBeforeLock(d)'
  BY <1>1, <1>5, <1>10 DEF DuelInv, ClosedBeforeLock, Started
<1>14. SurvivedDispute(d)' /\ NamesWinner(d)'
  BY <1>1, <1>5, <1>10 DEF DuelInv, SurvivedDispute, NamesWinner
<1>15. QED
  BY <1>11, <1>12, <1>13, <1>14 DEF DuelInv

\* Finalizing publishes the one proposal whose window has passed.
LEMMA FinalizeKeepsInv ==
    ASSUME OracleInv, OracleTypeOK', NEW d \in Duels, FinalizeResult(d)
    PROVE  DuelInv(d)'
<1> USE DEF OracleInv, OracleTypeOK
<1>1. DuelInv(d) /\ duels[d] \in DuelState
  OBVIOUS
<1>2. duels[d].active \in Evidence
  BY <1>1 DEF DuelInv, HasOneProposal, InDispute, FinalizeResult
<1>3. duels'[d] = [duels[d] EXCEPT !.status  = "RESOLVED",
                                   !.winner  = ActiveProposal(d).winner,
                                   !.duelEnd = ActiveProposal(d).duelEnd,
                                   !.result  = duels[d].active]
  BY DEF FinalizeResult
<1>4. /\ duels'[d].status = "RESOLVED" /\ duels'[d].terms = duels[d].terms
      /\ duels'[d].active = duels[d].active /\ duels'[d].result = duels[d].active
      /\ duels'[d].winner = ActiveProposal(d).winner
      /\ duels'[d].duelEnd = ActiveProposal(d).duelEnd
  BY <1>1, <1>3 DEF DuelState
<1>5. /\ proposals'[d] = proposals[d] /\ now' = now
      /\ duels[d].status = "PROPOSED"
      /\ ActiveProposal(d).exists /\ ~ActiveProposal(d).challenged
      /\ now >= Deadline(ActiveProposal(d))
  BY DEF FinalizeResult
<1>6. ActiveProposal(d)' = ActiveProposal(d)
  BY <1>4, <1>5 DEF ActiveProposal
<1>7. HasOneProposal(d)'
  BY <1>1, <1>2, <1>4, <1>5, <1>6 DEF DuelInv, HasOneProposal, InDispute
<1>8. AdmissibleProposal(d)'
  BY <1>1, <1>4, <1>6 DEF DuelInv, AdmissibleProposal
<1>9. ClosedBeforeLock(d)'
  BY <1>1, <1>4, <1>5 DEF DuelInv, ClosedBeforeLock, Started
<1>10. NamesWinner(d)'
  BY <1>1, <1>2, <1>4 DEF DuelInv, NamesWinner, AdmissibleProposal, Sides
<1>11. SurvivedDispute(d)'
  BY <1>1, <1>2, <1>4, <1>5, <1>6
  DEF DuelInv, SurvivedDispute, AdmissibleProposal, Deadline
<1>12. QED
  BY <1>7, <1>8, <1>9, <1>10, <1>11 DEF DuelInv

-----------------------------------------------------------------------------
\* An action on one duel leaves every other duel alone.
LEMMA ActsOnOneDuel ==
    ASSUME OracleTypeOK, NEW d \in Duels, NEW c \in Duels, c # d,
           ReporterStep(d) \/ CancelDuel(d) \/ ChallengeResult(d) \/ FinalizeResult(d)
    PROVE  duels'[c] = duels[c] /\ proposals'[c] = proposals[c] /\ now' = now
<1> USE DEF OracleTypeOK
<1>1. CASE ReporterStep(d)
  BY <1>1 DEF ReporterStep, UpsertDuel, ProposeResult, ReproposeResult, WithoutActive
<1>2. CASE CancelDuel(d)
  BY <1>2 DEF CancelDuel
<1>3. CASE ChallengeResult(d)
  BY <1>3 DEF ChallengeResult
<1>4. CASE FinalizeResult(d)
  BY <1>4 DEF FinalizeResult
<1>5. QED
  BY <1>1, <1>2, <1>3, <1>4

\* The step of the invariance proof, action by action.
LEMMA OracleInvStep == OracleInv /\ OracleTypeOK' /\ [OracleNext]_oracleVars => OracleInv'
<1> SUFFICES ASSUME OracleInv, OracleTypeOK', [OracleNext]_oracleVars, NEW c \in Duels
             PROVE  DuelInv(c)'
  BY DEF OracleInv
<1>1. OracleTypeOK /\ now \in Nat
  BY TimesAssumption DEF OracleInv, OracleTypeOK
<1>2. ASSUME NEW d \in Duels,
             ReporterStep(d) \/ CancelDuel(d) \/ ChallengeResult(d) \/ FinalizeResult(d)
      PROVE  DuelInv(c)'
  <2>1. CASE c # d
    BY <1>1, <1>2, <2>1, ActsOnOneDuel, UntouchedDuel
  <2>2. CASE c = d
    <3>1. CASE ReporterStep(d)
      BY <2>2, <3>1, UpsertKeepsInv, ProposeKeepsInv, ReproposeKeepsInv DEF ReporterStep
    <3>2. CASE CancelDuel(d)
      BY <2>2, <3>2, CancelKeepsInv
    <3>3. CASE ChallengeResult(d)
      BY <2>2, <3>3, ChallengeKeepsInv
    <3>4. CASE FinalizeResult(d)
      BY <2>2, <3>4, FinalizeKeepsInv
    <3>5. QED
      BY <1>2, <3>1, <3>2, <3>3, <3>4
  <2>3. QED
    BY <2>1, <2>2
<1>3. ASSUME NEW p \in PauserAccounts, PauserStep(p)
      PROVE  DuelInv(c)'
  BY <1>1, <1>3, UntouchedDuel DEF PauserStep, SetOraclePaused, GrantPauser, DropPauser
<1>4. CASE Tick
  <2>1. now' >= now /\ duels' = duels /\ proposals' = proposals
    BY <1>1, <1>4, TimesAssumption DEF Tick
  <2>2. QED
    BY <2>1, UntouchedDuel
<1>5. CASE UNCHANGED oracleVars
  BY <1>1, <1>5, UntouchedDuel DEF oracleVars
<1>6. QED
  BY <1>2, <1>3, <1>4, <1>5 DEF OracleNext

\* The inductive invariant holds of every behaviour.
THEOREM OracleInvariant == OracleSpec => []OracleInv
<1>1. OracleInit /\ OracleTypeOK => OracleInv
  <2> SUFFICES ASSUME OracleInit, OracleTypeOK, NEW d \in Duels
               PROVE  DuelInv(d)
    BY DEF OracleInv
  <2>1. duels[d] = EmptyDuel /\ \A e \in Evidence : proposals[d][e] = NoResult
    BY DEF OracleInit
  <2>2. /\ duels[d].status = "NULL" /\ duels[d].winner = "NONE"
        /\ duels[d].active \notin Evidence
        /\ \A e \in Evidence : ~proposals[d][e].exists
    BY <2>1, ProposalAssumption DEF EmptyDuel, NoResult
  <2>3. QED
    BY <2>2 DEF DuelInv, SurvivedDispute, HasOneProposal, NamesWinner, ClosedBeforeLock,
       AdmissibleProposal, InDispute, Started
<1>2. QED
  BY <1>1, OracleInvStep, OracleTypeCorrect, PTL DEF OracleSpec

\* What finalizeResult publishes survived a whole dispute window unchallenged.
THEOREM ResultsAreDisputed == OracleSpec => []ResultSurvivedDispute
<1>1. OracleInv => ResultSurvivedDispute
  BY DEF OracleInv, DuelInv, ResultSurvivedDispute
<1>2. QED
  BY <1>1, OracleInvariant, PTL

\* A duel has at most one proposal in storage, the active one, and only a
\* resolved duel names a winner.
THEOREM ProposalsAndWinners == OracleSpec => [](OneLiveProposal /\ WinnerOnlyWhenResolved)
<1>1. OracleInv => OneLiveProposal /\ WinnerOnlyWhenResolved
  BY DEF OracleInv, DuelInv, OneLiveProposal, WinnerOnlyWhenResolved
<1>2. QED
  BY <1>1, OracleInvariant, PTL

\* A duel is locked only after betting on its terms has closed.
THEOREM LocksAreLate == OracleSpec => []LockedAfterBetClose
<1>1. OracleInv => LockedAfterBetClose
  BY DEF OracleInv, DuelInv, LockedAfterBetClose
<1>2. QED
  BY <1>1, OracleInvariant, PTL

\* A resolved or cancelled duel never changes again.
THEOREM TerminalStatesAreFinal == OracleSpec => TerminalFinal
<1>1. OracleTypeOK /\ [OracleNext]_oracleVars
        => [\A d \in Duels :
               duels[d].status \in {"RESOLVED", "CANCELLED"} => duels'[d] = duels[d]]_oracleVars
  <2> SUFFICES ASSUME OracleTypeOK, OracleNext, NEW c \in Duels,
                      duels[c].status \in {"RESOLVED", "CANCELLED"}
               PROVE  duels'[c] = duels[c]
    OBVIOUS
  <2>1. ASSUME NEW d \in Duels,
               ReporterStep(d) \/ CancelDuel(d) \/ ChallengeResult(d) \/ FinalizeResult(d)
        PROVE  duels'[c] = duels[c]
    <3>1. CASE c # d
      BY <2>1, <3>1, ActsOnOneDuel
    <3>2. CASE c = d
      BY <2>1, <3>2 DEF ReporterStep, UpsertDuel, ProposeResult, ReproposeResult,
         CancelDuel, ChallengeResult, FinalizeResult, Settleable
    <3>3. QED
      BY <3>1, <3>2
  <2>2. ASSUME \/ \E p \in PauserAccounts : PauserStep(p)
               \/ Tick
        PROVE  duels'[c] = duels[c]
    BY <2>2 DEF PauserStep, SetOraclePaused, GrantPauser, DropPauser, Tick
  <2>3. QED
    BY <2>1, <2>2 DEF OracleNext
<1>2. QED
  BY <1>1, OracleTypeCorrect, PTL DEF OracleSpec, TerminalFinal

\* Once betting opens, participants and timings never change.
THEOREM TermsAreFrozen == OracleSpec => TermsFrozenOnceOpen
<1> DEFINE Open(d) == Rank(duels[d].status) >= Rank("BETTING_OPEN")
<1>1. OracleTypeOK /\ OracleTypeOK' /\ [OracleNext]_oracleVars
        => [\A d \in Duels : Open(d) => /\ duels'[d].terms = duels[d].terms
                                        /\ Rank(duels'[d].status) >= Rank("BETTING_OPEN")]_oracleVars
  <2> SUFFICES ASSUME OracleTypeOK, OracleTypeOK', OracleNext, NEW c \in Duels, Open(c)
               PROVE  /\ duels'[c].terms = duels[c].terms
                      /\ Rank(duels'[c].status) >= Rank("BETTING_OPEN")
    OBVIOUS
  <2>1. duels[c] \in DuelState /\ Rank("BETTING_OPEN") = 2
    BY DEF OracleTypeOK, Rank
  <2>2. ASSUME NEW d \in Duels,
               ReporterStep(d) \/ CancelDuel(d) \/ ChallengeResult(d) \/ FinalizeResult(d)
        PROVE  /\ duels'[c].terms = duels[c].terms
               /\ Rank(duels'[c].status) >= Rank("BETTING_OPEN")
    <3>1. CASE c # d
      BY <2>2, <3>1, ActsOnOneDuel
    <3>2. ASSUME NEW t \in Offers, NEW s \in {"SCHEDULED", "BETTING_OPEN", "LOCKED"},
                 c = d, UpsertDuel(d, t, s)
          PROVE  /\ duels'[c].terms = duels[c].terms
                 /\ Rank(duels'[c].status) >= Rank("BETTING_OPEN")
      <4>1. /\ duels'[c] = [duels[c] EXCEPT !.status = s, !.terms = t]
            /\ t = duels[c].terms /\ Rank(s) >= Rank(duels[c].status)
        BY <3>2 DEF UpsertDuel, KeepsTerms, OracleTypeOK
      <4>2. duels'[c].status = s /\ duels'[c].terms = t
        BY <2>1, <4>1 DEF DuelState
      <4>3. Rank(s) \in Nat /\ Rank(duels[c].status) \in Nat
        BY <2>1 DEF DuelState, Statuses, Rank
      <4>4. QED
        BY <2>1, <4>1, <4>2, <4>3
    <3>3. ASSUME NEW st \in {"PROPOSED", "CHALLENGED", "RESOLVED", "CANCELLED"},
                 duels'[c].status = st
          PROVE  Rank(duels'[c].status) >= Rank("BETTING_OPEN")
      BY <3>3 DEF Rank
    <3>4. ASSUME NEW st \in {"PROPOSED", "CHALLENGED", "RESOLVED", "CANCELLED"},
                 duels'[c].terms = duels[c].terms, duels'[c].status = st
          PROVE  /\ duels'[c].terms = duels[c].terms
                 /\ Rank(duels'[c].status) >= Rank("BETTING_OPEN")
      BY <3>4, <3>3
    <3>5. ASSUME c = d, CancelDuel(d) \/ ChallengeResult(d) \/ FinalizeResult(d)
          PROVE  /\ duels'[c].terms = duels[c].terms
                 /\ duels'[c].status \in {"CHALLENGED", "RESOLVED", "CANCELLED"}
      <4>1. CASE CancelDuel(d)
        BY <2>1, <3>5, <4>1 DEF OracleTypeOK, DuelState, CancelDuel
      <4>2. CASE ChallengeResult(d)
        BY <2>1, <3>5, <4>2 DEF OracleTypeOK, DuelState, ChallengeResult
      <4>3. CASE FinalizeResult(d)
        BY <2>1, <3>5, <4>3 DEF OracleTypeOK, DuelState, FinalizeResult
      <4>4. QED
        BY <3>5, <4>1, <4>2, <4>3
    <3>6. ASSUME c = d, NEW e \in Evidence, NEW w \in Sides, NEW end \in EndTimes,
                 ProposeResult(d, e, w, end) \/ ReproposeResult(d, e, w, end)
          PROVE  duels'[c].terms = duels[c].terms /\ duels'[c].status = "PROPOSED"
      <4>1. duels'[c] = [duels[c] EXCEPT !.status = "PROPOSED", !.active = e]
        BY <3>6 DEF OracleTypeOK, ProposeResult, ReproposeResult
      <4>2. QED
        BY <2>1, <4>1 DEF DuelState
    <3>7. CASE c = d
      <4>1. CASE ReporterStep(d)
        BY <3>2, <3>4, <3>6, <3>7, <4>1 DEF ReporterStep
      <4>2. CASE CancelDuel(d) \/ ChallengeResult(d) \/ FinalizeResult(d)
        BY <3>4, <3>5, <3>7, <4>2
      <4>3. QED
        BY <2>2, <4>1, <4>2
    <3>8. QED
      BY <2>2, <3>1, <3>7
  <2>3. ASSUME \/ \E p \in PauserAccounts : PauserStep(p)
               \/ Tick
        PROVE  duels'[c] = duels[c]
    BY <2>3 DEF PauserStep, SetOraclePaused, GrantPauser, DropPauser, Tick
  <2>4. QED
    BY <2>2, <2>3 DEF OracleNext
<1>2. QED
  BY <1>1, OracleTypeCorrect, PTL DEF OracleSpec, TermsFrozenOnceOpen

-----------------------------------------------------------------------------
(***************************************************************************)
(* The contract implements the feed.                                       *)
(***************************************************************************)
LEMMA ViewOfUpdate ==
    ASSUME OracleTypeOK, NEW d \in Duels, NEW new, duels' = [duels EXCEPT ![d] = new]
    PROVE  FeedView' = [FeedView EXCEPT ![d] = MarketView(new)]
BY DEF OracleTypeOK, FeedView

\* What markets see of a reporter's step is a step of the feed.
LEMMA FeedStepOfReporter ==
    ASSUME OracleInv, NEW d \in Duels, ReporterStep(d)
    PROVE  [Feed!FeedNext]_<<now, FeedView>>
<1> USE DEF OracleInv, OracleTypeOK
<1>1. DuelInv(d) /\ duels[d] \in DuelState /\ FeedView[d] = MarketView(duels[d])
  BY DEF FeedView
<1>2. ASSUME NEW t \in Offers, NEW s \in {"SCHEDULED", "BETTING_OPEN", "LOCKED"},
             UpsertDuel(d, t, s)
      PROVE  [Feed!FeedNext]_<<now, FeedView>>
  <2> DEFINE new == [duels[d] EXCEPT !.status = s, !.terms = t]
  <2>1. duels' = [duels EXCEPT ![d] = new] /\ UNCHANGED now
    BY <1>2 DEF UpsertDuel
  <2>2. new.status = s /\ new.terms = t /\ new.winner = duels[d].winner
    BY <1>1 DEF DuelState
  <2>3. duels[d].status \in {"NULL", "SCHEDULED", "BETTING_OPEN", "LOCKED"}
    BY <1>1, <1>2 DEF UpsertDuel, Settleable, Rank, DuelState, Statuses
  <2> HIDE DEF new
  <2>4. duels[d].winner = "NONE"
    BY <1>1, <2>3 DEF DuelInv, NamesWinner
  <2>5. FeedView' = [FeedView EXCEPT ![d] = Feed!Entry(s, t.betClose, "NONE")]
    <3>1. MarketView(new) = Feed!Entry(s, t.betClose, "NONE")
      BY <2>2, <2>4 DEF MarketView, Feed!Entry
    <3>2. QED
      BY <2>1, <3>1, ViewOfUpdate
  <2>6. FeedView[d].status = duels[d].status /\ FeedView[d].betClose = duels[d].terms.betClose
    BY <1>1, <2>3 DEF MarketView
  <2>7. CASE duels[d].status \in {"NULL", "SCHEDULED"}
    <3>1. Feed!Announce(d, s, t.betClose)
      BY <1>2, <2>1, <2>5, <2>6, <2>7 DEF Feed!Announce, Feed!Entry, UpsertDuel, MayLock
    <3>2. QED
      BY <3>1 DEF Feed!FeedNext
  <2>8. CASE duels[d].status \in {"BETTING_OPEN", "LOCKED"}
    <3>1. t = duels[d].terms
      BY <1>2, <2>8 DEF UpsertDuel, KeepsTerms, Rank
    <3>2. s = duels[d].status \/ (duels[d].status = "BETTING_OPEN" /\ s = "LOCKED")
      BY <1>2, <2>8 DEF UpsertDuel, Rank
    <3>3. FeedView[d] = Feed!Entry(duels[d].status, t.betClose, "NONE")
      BY <1>1, <2>4, <2>8, <3>1 DEF MarketView, Feed!Entry
    <3>4. CASE s = duels[d].status
      BY <2>1, <2>5, <3>3, <3>4 DEF FeedView
    <3>5. CASE duels[d].status = "BETTING_OPEN" /\ s = "LOCKED"
      <4>1. Feed!Lock(d)
        BY <1>2, <2>1, <2>5, <2>6, <3>1, <3>5 DEF Feed!Lock, UpsertDuel, MayLock
      <4>2. QED
        BY <4>1 DEF Feed!FeedNext
    <3>6. QED
      BY <3>2, <3>4, <3>5
  <2>9. QED
    BY <2>3, <2>7, <2>8
<1>3. ASSUME NEW e \in Evidence, NEW w \in Sides, NEW end \in EndTimes,
             ProposeResult(d, e, w, end) \/ ReproposeResult(d, e, w, end)
      PROVE  UNCHANGED <<now, FeedView>>
  <2> DEFINE new == [duels[d] EXCEPT !.status = "PROPOSED", !.active = e]
  <2>1. duels' = [duels EXCEPT ![d] = new] /\ UNCHANGED now
    BY <1>3 DEF ProposeResult, ReproposeResult
  <2>2. new.status = "PROPOSED" /\ new.terms = duels[d].terms /\ new.winner = duels[d].winner
    BY <1>1 DEF DuelState
  <2>3. duels[d].status \in {"LOCKED", "CHALLENGED"}
    BY <1>3 DEF ProposeResult, ReproposeResult
  <2>4. MarketView(new) = FeedView[d]
    BY <1>1, <2>2, <2>3 DEF MarketView
  <2> HIDE DEF new
  <2>5. QED
    BY <2>1, <2>4, ViewOfUpdate DEF FeedView
<1>4. QED
  BY <1>2, <1>3 DEF ReporterStep

\* What markets see of the admin's, the challenger's and the finalizer's
\* steps is a step of the feed.
LEMMA FeedStepOfOthers ==
    ASSUME OracleInv, NEW d \in Duels,
           CancelDuel(d) \/ ChallengeResult(d) \/ FinalizeResult(d)
    PROVE  [Feed!FeedNext]_<<now, FeedView>>
<1> USE DEF OracleInv, OracleTypeOK
<1>1. DuelInv(d) /\ duels[d] \in DuelState /\ FeedView[d] = MarketView(duels[d])
  BY DEF FeedView
<1>2. CASE CancelDuel(d)
  <2> DEFINE new == [duels[d] EXCEPT !.status = "CANCELLED", !.active = NoProposal]
  <2>1. duels' = [duels EXCEPT ![d] = new] /\ UNCHANGED now
    BY <1>2 DEF CancelDuel
  <2>2. new.status = "CANCELLED" /\ new.terms = duels[d].terms /\ new.winner = duels[d].winner
    BY <1>1 DEF DuelState
  <2> HIDE DEF new
  <2>3. MarketView(new) = Feed!Entry("CANCELLED", FeedView[d].betClose, "NONE")
    <3>1. duels[d].winner = "NONE"
      BY <1>1, <1>2 DEF DuelInv, NamesWinner, CancelDuel, Settleable
    <3>2. FeedView[d].betClose = duels[d].terms.betClose
      BY <1>1 DEF MarketView
    <3>3. QED
      BY <2>2, <3>1, <3>2 DEF MarketView, Feed!Entry
  <2>4. FeedView[d].status \in {"SCHEDULED", "BETTING_OPEN", "LOCKED"}
    BY <1>1, <1>2 DEF MarketView, CancelDuel, Settleable, DuelState, Statuses
  <2>5. Feed!Cancel(d)
    BY <2>1, <2>3, <2>4, ViewOfUpdate DEF Feed!Cancel
  <2>6. QED
    BY <2>5 DEF Feed!FeedNext
<1>3. CASE ChallengeResult(d)
  <2> DEFINE new == [duels[d] EXCEPT !.status = "CHALLENGED"]
  <2>1. duels' = [duels EXCEPT ![d] = new] /\ UNCHANGED now
    BY <1>3 DEF ChallengeResult
  <2>2. new.status = "CHALLENGED" /\ new.terms = duels[d].terms /\ new.winner = duels[d].winner
    BY <1>1 DEF DuelState
  <2> HIDE DEF new
  <2>3. MarketView(new) = FeedView[d]
    BY <1>1, <1>3, <2>2 DEF MarketView, ChallengeResult
  <2>4. QED
    BY <2>1, <2>3, ViewOfUpdate DEF FeedView
<1>4. CASE FinalizeResult(d)
  <2> DEFINE p == ActiveProposal(d)
             new == [duels[d] EXCEPT !.status = "RESOLVED", !.winner = p.winner,
                                     !.duelEnd = p.duelEnd, !.result = duels[d].active]
  <2>1. duels' = [duels EXCEPT ![d] = new] /\ UNCHANGED now
    BY <1>4 DEF FinalizeResult
  <2>2. new.status = "RESOLVED" /\ new.terms = duels[d].terms /\ new.winner = p.winner
    BY <1>1 DEF DuelState
  <2>3. duels[d].active \in Evidence
    BY <1>1, <1>4 DEF DuelInv, HasOneProposal, InDispute, FinalizeResult
  <2>4. p \in ResultProposal /\ p.winner \in {"A", "B"} /\ p.proposedAt >= duels[d].terms.betClose
    BY <1>1, <2>3 DEF DuelInv, AdmissibleProposal, ActiveProposal, Sides
  <2>5. now >= p.proposedAt + DisputeWindow
    BY <1>4 DEF FinalizeResult, Deadline
  <2> HIDE DEF new, p
  <2>6. MarketView(new) = Feed!Entry("RESOLVED", duels[d].terms.betClose, p.winner)
    BY <2>2 DEF MarketView, Feed!Entry
  <2>7. FeedView[d].status = "LOCKED" /\ FeedView[d].betClose = duels[d].terms.betClose
    BY <1>1, <1>4 DEF MarketView, FinalizeResult
  <2>8. /\ now \in Nat /\ duels[d].terms.betClose \in Nat /\ DisputeWindow \in Nat
        /\ p.proposedAt \in Nat
    BY <1>1, <2>4, TimesAssumption, WindowAssumption DEF DuelState, Terms, ResultProposal
  <2>9. now >= FeedView[d].betClose + DisputeWindow
    BY <2>4, <2>5, <2>7, <2>8
  <2>10. Feed!Resolve(d, p.winner)
    <3>1. FeedView' = [FeedView EXCEPT ![d] = MarketView(new)]
      BY <2>1, ViewOfUpdate
    <3>2. QED
      BY <2>1, <2>6, <2>7, <2>9, <3>1 DEF Feed!Resolve
  <2>11. QED
    BY <2>4, <2>10 DEF Feed!FeedNext
<1>5. QED
  BY <1>2, <1>3, <1>4

\* Every behaviour of the contract, seen through getDuel, is a behaviour of
\* the feed: what holds of a market fed by DuelFeed holds of the deployed pair.
THEOREM OracleImplementsFeed == OracleSpec => ImplementsFeed
<1>1. OracleInit => Feed!FeedInit
  <2> SUFFICES ASSUME OracleInit PROVE Feed!FeedInit
    OBVIOUS
  <2>1. MarketView(EmptyDuel) = Feed!Entry("NULL", 0, "NONE")
    BY DEF MarketView, EmptyDuel, Feed!Entry
  <2>2. QED
    BY <2>1 DEF OracleInit, Feed!FeedInit, FeedView
<1>2. OracleInv /\ [OracleNext]_oracleVars => [Feed!FeedNext]_<<now, FeedView>>
  <2> SUFFICES ASSUME OracleInv, [OracleNext]_oracleVars
               PROVE  [Feed!FeedNext]_<<now, FeedView>>
    OBVIOUS
  <2>1. ASSUME NEW d \in Duels,
               ReporterStep(d) \/ CancelDuel(d) \/ ChallengeResult(d) \/ FinalizeResult(d)
        PROVE  [Feed!FeedNext]_<<now, FeedView>>
    BY <2>1, FeedStepOfReporter, FeedStepOfOthers
  <2>2. ASSUME NEW p \in PauserAccounts, PauserStep(p)
        PROVE  UNCHANGED <<now, FeedView>>
    BY <2>2 DEF PauserStep, SetOraclePaused, GrantPauser, DropPauser, FeedView
  <2>3. CASE Tick
    <3>1. Feed!Advance
      BY <2>3 DEF Tick, Feed!Advance, FeedView
    <3>2. QED
      BY <3>1 DEF Feed!FeedNext
  <2>4. CASE UNCHANGED oracleVars
    BY <2>4 DEF oracleVars, FeedView
  <2>5. QED
    BY <2>1, <2>2, <2>3, <2>4 DEF OracleNext
<1>3. QED
  BY <1>1, <1>2, OracleInvariant, PTL
  DEF OracleSpec, ImplementsFeed, Feed!FeedSpec, Feed!feedVars
=============================================================================
