------------------------------ MODULE DuelFeed ------------------------------
(***************************************************************************)
(* What the duel oracle promises to the markets that read it: for each     *)
(* duel, the status getDuel returns with the dispute phases folded into    *)
(* LOCKED, the time betting closes and the published winner.               *)
(*                                                                         *)
(* DuelOracle implements this specification (DuelOracleProofs), and        *)
(* GoldClob is composed with it rather than with the whole oracle.         *)
(***************************************************************************)
EXTENDS Naturals

CONSTANTS
    Duels,          \* duel keys
    Times,          \* block timestamps
    CloseTimes,     \* closing times a duel may be announced with
    DisputeWindow   \* seconds a result stays open to challenge

VARIABLES
    now,    \* block.timestamp
    feed    \* what getDuel tells a market about each duel

feedVars == <<now, feed>>

FeedStatuses == {"NULL", "SCHEDULED", "BETTING_OPEN", "LOCKED", "RESOLVED", "CANCELLED"}

FeedEntry == [status   : FeedStatuses,
              betClose : CloseTimes \cup {0},
              winner   : {"NONE", "A", "B"}]

Entry(status, close, winner) == [status |-> status, betClose |-> close, winner |-> winner]

FeedInit ==
    /\ now \in Times
    /\ feed = [d \in Duels |-> Entry("NULL", 0, "NONE")]

\* Until betting opens a duel may be announced again with other times.
Announce(d, status, close) ==
    /\ feed[d].status = "NULL" \/ feed[d].status = "SCHEDULED"
    /\ status = "LOCKED" => now >= close
    /\ feed' = [feed EXCEPT ![d] = Entry(status, close, "NONE")]
    /\ UNCHANGED now

Lock(d) ==
    /\ feed[d].status = "BETTING_OPEN"
    /\ now >= feed[d].betClose
    /\ feed' = [feed EXCEPT ![d] = Entry("LOCKED", feed[d].betClose, "NONE")]
    /\ UNCHANGED now

\* No result is published before a whole dispute window has passed since
\* betting closed.
Resolve(d, winner) ==
    /\ feed[d].status = "LOCKED"
    /\ now >= feed[d].betClose + DisputeWindow
    /\ feed' = [feed EXCEPT ![d] = Entry("RESOLVED", feed[d].betClose, winner)]
    /\ UNCHANGED now

Cancel(d) ==
    /\ feed[d].status \in {"SCHEDULED", "BETTING_OPEN", "LOCKED"}
    /\ feed' = [feed EXCEPT ![d] = Entry("CANCELLED", feed[d].betClose, "NONE")]
    /\ UNCHANGED now

Advance ==
    /\ now' \in {t \in Times : t > now}
    /\ UNCHANGED feed

FeedNext ==
    \/ \E d \in Duels :
          \/ \E s \in {"SCHEDULED", "BETTING_OPEN", "LOCKED"}, c \in CloseTimes : Announce(d, s, c)
          \/ Lock(d)
          \/ \E w \in {"A", "B"} : Resolve(d, w)
          \/ Cancel(d)
    \/ Advance

FeedSpec == FeedInit /\ [][FeedNext]_feedVars
=============================================================================
