----------------------------- MODULE BetLedger -----------------------------
(***************************************************************************)
(* Recorded bets, points, referrals and linked wallets of the keeper       *)
(* service (hyperbet-evm/keeper/src: service.ts handlers of /bet/record,   *)
(* /invite, /wallet-link; db.ts).                                          *)
(*                                                                         *)
(* A handler runs to its end once its request is authorized, and it writes *)
(* every change through to SQLite with a statement of its own.  Memory and *)
(* tables agree between two requests, so one copy is kept: a handler is    *)
(* the tables it leaves behind, and a crash leaves the tables as they were *)
(* between two of its statements to the process that loads them next.  A   *)
(* code is named by the wallet that owns it.  Names that MarketOverview    *)
(* defines too have another one here, so that one module can extend both.  *)
(***************************************************************************)
EXTENDS Naturals, FiniteSets, Bags, Functions

CONSTANTS
    Wallets,
    Refs,          \* what identifies a bet: its transaction or external reference
    None,          \* no wallet, no code; a bet that carries no reference
    MaxRequests,   \* bound: requests
    MaxDeaths      \* bound: crashes

ASSUME LedgerAssumption ==
    /\ None \notin Wallets \cup Refs
    /\ {MaxRequests, MaxDeaths} \subseteq Nat

VARIABLES
    db,        \* the tables
    requests, deaths

ledgerVars == <<db, requests, deaths>>

BetPoints == 10     \* a bet of one unit
SharePoints == 2    \* a fifth of it for the referrer
RefereeBonus == 50
ReferrerBonus == 25
LinkBonus == 100

Maybe == Wallets \cup {None}
EventTypes == {"BET_PLACED", "REFERRAL_WIN", "SIGNUP_REFEREE", "SIGNUP_REFERRER", "WALLET_LINK"}
Events == [wallet : Wallets, type : EventTypes, points : Nat, about : Maybe \cup Refs]

\* The columns the handlers read; the history is a bag of events.
Tables(events) ==
    [bets : SUBSET Refs, points : [Wallets -> Nat], fees : [Wallets -> Nat], events : {events},
     canonical : [Wallets -> Maybe], members : [Wallets -> SUBSET Wallets], codes : SUBSET Wallets,
     referrer : [Wallets -> Maybe], invited : [Wallets -> SUBSET Wallets]]

LedgerTypeOK ==
    /\ db \in Tables(db.events)
    /\ IsABag(db.events) /\ DOMAIN db.events \subseteq Events
    /\ \A w \in Wallets : db.referrer[w] # w
    /\ requests \in 0..MaxRequests /\ deaths \in 0..MaxDeaths

EachWallet(value) == [w \in Wallets |-> value]

LedgerInit ==
    /\ db = [bets |-> {}, points |-> EachWallet(0), fees |-> EachWallet(0), events |-> EmptyBag,
             canonical |-> EachWallet(None), members |-> EachWallet({}), codes |-> {},
             referrer |-> EachWallet(None), invited |-> EachWallet({})]
    /\ requests = 0 /\ deaths = 0

----
\* The statements, each by the tables it leaves.  Points and fees are amounts
\* added; a bet that is known, or that carries no reference, leaves no new one.
SaveBet(d, ref) == [d EXCEPT !.bets = @ \cup ({ref} \ {None})]
SavePoints(d, w, points) == [d EXCEPT !.points[w] = @ + points]
SaveFee(d, w) == [d EXCEPT !.fees[w] = @ + 1]
SaveEvent(d, w, type, points, about) ==
    [d EXCEPT !.events = @ (+) SetToBag({[wallet |-> w, type |-> type, points |-> points, about |-> about]})]
SaveCanonical(d, wallets, c) == [d EXCEPT !.canonical = [w \in Wallets |-> IF w \in wallets THEN c ELSE @[w]]]
SaveMembers(d, c, members) == [d EXCEPT !.members[c] = members]
SaveCode(d, w) == [d EXCEPT !.codes = @ \cup {w}]
SaveReferral(d, w, code) == [d EXCEPT !.referrer[w] = code]
SaveInvited(d, code, w) == [d EXCEPT !.invited[code] = @ \cup {w}]

\* A request is handled, or the process dies between two statements.
Handle(between, done) ==
    /\ requests < MaxRequests
    /\ requests' = requests + 1
    /\ \/ /\ db' = done
          /\ UNCHANGED deaths
       \/ /\ deaths < MaxDeaths
          /\ deaths' = deaths + 1
          /\ db' \in {db} \cup between

----
\* ensureIdentity: a wallet that has no identity is named after itself, and
\* becomes its only member.
Named(d, w) == IF d.canonical[w] = None THEN SaveCanonical(d, {w}, w) ELSE d
Identified(d, w) == IF d.canonical[w] = None THEN SaveMembers(Named(d, w), w, {w}) ELSE d

\* Whom a wallet was referred by, or a wallet linked with it.
Owners(d, w) ==
    LET linked == {d.referrer[m] : m \in IF d.canonical[w] = None THEN {} ELSE d.members[d.canonical[w]]} \ {None}
    IN  IF d.referrer[w] # None THEN {d.referrer[w]} ELSE IF linked = {} THEN {None} ELSE linked

\* A code counts once per wallet, and not for its owner.
Redeemable_Again(w, code) == code \in db.codes /\ code # w  \* mutant

Redeemable(w, code) == code \in db.codes /\ code # w /\ db.referrer[w] = None

Referred(d, w, code) == SaveInvited(SaveReferral(d, w, code), code, w)

\* INSERT OR IGNORE: whether the bet is new.
Fresh_Always(ref) == TRUE  \* mutant: the result of the insert is ignored

Fresh(ref) == ref \notin db.bets

Rewarded_WholeBet(d, owner, ref) ==  \* mutant: the event shows the bettor's points
    SaveEvent(d, owner, "REFERRAL_WIN", BetPoints, ref)

\* The event of what the referrer got of a bet.
Rewarded(d, owner, ref) == SaveEvent(d, owner, "REFERRAL_WIN", SharePoints, ref)

\* The bettor's points, the referral, the bettor's event, the referrer's part:
\* points, half of the fee, an event.
RecordBet(w, ref, code) ==
    LET known  == Identified(db, w)
        saved  == SaveBet(known, ref)
        paid   == SavePoints(saved, w, BetPoints)
        redeem == Redeemable(w, code)
        bound  == IF redeem THEN Referred(paid, w, code) ELSE paid
        shown  == SaveEvent(bound, w, "BET_PLACED", BetPoints, ref)
        begun  == {Named(db, w), known, saved, paid, bound} \cup
                  (IF redeem THEN {SaveReferral(paid, w, code)} ELSE {})
    IN  \/ /\ ~Fresh(ref)
           /\ Handle({Named(db, w)}, known)
        \/ /\ Fresh(ref)
           /\ \E owner \in Owners(shown, w) :
                \/ /\ owner \in {None, w}
                   /\ Handle(begun, shown)
                \/ /\ owner \notin {None, w}
                   /\ LET shared   == SavePoints(shown, owner, SharePoints)
                          feeTaken == SaveFee(shared, owner)
                      IN  Handle(begun \cup {shown, shared, feeTaken}, Rewarded(feeTaken, owner, ref))

\* inviteCodeForWallet; the summary makes the code.
InviteSummary(w) ==
    LET coded == SaveCode(db, w)
    IN  Handle({coded, Named(coded, w)}, Identified(coded, w))

\* The invited wallet gets its bonus first, then the one that invited it.
Redeem(w, code) ==
    LET known     == Identified(db, w)
        bound     == Referred(known, w, code)
        paid      == SavePoints(bound, w, RefereeBonus)
        shown     == SaveEvent(paid, w, "SIGNUP_REFEREE", RefereeBonus, code)
        ownerPaid == SavePoints(shown, code, ReferrerBonus)
    IN  IF ~Redeemable(w, code) THEN Handle({Named(db, w)}, known)
        ELSE Handle({Named(db, w), known, SaveReferral(known, w, code), bound, paid, shown, ownerPaid},
                    SaveEvent(ownerPaid, code, "SIGNUP_REFERRER", ReferrerBonus, w))

----
\* mergeIdentity.  The larger identity keeps its name, the first on a tie; the
\* wallets of the first are renamed before those of the second.
MembersOf(d, c) == IF d.members[c] = {} THEN {c} ELSE d.members[c]

Kept(d, ca, cb) == IF Cardinality(MembersOf(d, ca)) >= Cardinality(MembersOf(d, cb)) THEN ca ELSE cb

Renamings(first, second) == SUBSET first \cup {first \cup some : some \in SUBSET second}

Regrouped_KeepObsolete(d, kept, obsolete, members) == SaveMembers(d, kept, members)  \* mutant

Regrouped(d, kept, obsolete, members) == SaveMembers(SaveMembers(d, kept, members), obsolete, {})

LinkWallets(a, b) ==
    LET known    == Identified(Identified(db, a), b)
        ca       == known.canonical[a]
        cb       == known.canonical[b]
        kept     == Kept(known, ca, cb)
        obsolete == IF kept = ca THEN cb ELSE ca
        first    == MembersOf(known, ca)
        second   == MembersOf(known, cb)
        renamed  == SaveCanonical(known, first \cup second, kept)
        merged   == Regrouped(renamed, kept, obsolete, first \cup second)
        paid     == SavePoints(merged, a, LinkBonus)
        begun    == {Named(db, a), Identified(db, a), Named(Identified(db, a), b)}
    IN  IF ca = cb THEN Handle(begun, known)
        ELSE Handle(begun \cup {SaveCanonical(known, some, kept) : some \in Renamings(first, second)}
                          \cup {SaveMembers(renamed, kept, first \cup second), merged, paid},
                    SaveEvent(paid, a, "WALLET_LINK", LinkBonus, b))

LedgerNext ==
    \E w \in Wallets :
        \/ \E ref \in Refs \cup {None}, code \in Maybe : RecordBet(w, ref, code)
        \/ InviteSummary(w)
        \/ \E code \in Wallets : Redeem(w, code)
        \/ \E other \in Wallets : LinkWallets(w, other)

LedgerSpec == LedgerInit /\ [][LedgerNext]_ledgerVars

----
\* What the events are worth, when each is worth so much.
Worth(events, value) == SumFunction([e \in DOMAIN events |-> value[e] * events[e]])

PointsOf(w) == [e \in Events |-> IF e.wallet = w THEN e.points ELSE 0]
Paid(type, about) == [e \in Events |-> IF e.type = type /\ e.about = about THEN 1 ELSE 0]
PaidTo(w, type) == [e \in Events |-> IF e.type = type /\ e.wallet = w THEN 1 ELSE 0]

\* The two books of a wallet's points, the totals and the history the ranking
\* is computed from (leaderboardRows, totalPointsFromEvents), agree; after a
\* crash the history may lack what the totals have, and never the reverse.
LedgerAgrees ==
    \A w \in Wallets :
        /\ db.points[w] >= Worth(db.events, PointsOf(w))
        /\ deaths = 0 => db.points[w] = Worth(db.events, PointsOf(w))

\* The linked ranking counts every wallet in one identity, its own, whatever
\* merges came before (leaderboardRows over identityMembers), as long as the
\* service did not die in a merge.
IdentityPartition ==
    deaths = 0 => \A w \in Wallets :
        {c \in Wallets : w \in db.members[c]} = {db.canonical[w]} \ {None}

\* A bet is paid for at most once, to the bettor and to a referrer, and the
\* referrer never without the bettor, however often the request is repeated
\* and wherever the service died (saveBet's duplicate check).
BetPaidOnce ==
    \A ref \in Refs :
        /\ Worth(db.events, Paid("BET_PLACED", ref)) <= 1
        /\ Worth(db.events, Paid("REFERRAL_WIN", ref)) <= Worth(db.events, Paid("BET_PLACED", ref))

\* A wallet is referred once: the inviter it shows is the only one that shows
\* it as invited, and at most one signup bonus was paid for it on either side
\* (referredByWallet, invitedWalletsByWallet).
ReferredOnce ==
    \A w \in Wallets :
        /\ {i \in Wallets : w \in db.invited[i]} \subseteq {db.referrer[w]}
        /\ Worth(db.events, PaidTo(w, "SIGNUP_REFEREE")) <= 1
        /\ Worth(db.events, Paid("SIGNUP_REFERRER", w)) <= Worth(db.events, PaidTo(w, "SIGNUP_REFEREE"))
=============================================================================
