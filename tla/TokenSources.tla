---------------------------- MODULE TokenSources ----------------------------
(***************************************************************************)
(* Where tokens and cards come from besides draws: promo codes (backend/   *)
(* routers/admin_users.py), token events (routers/auth.py, routers/        *)
(* admin_token_events.py) and the league player's own card (own_card.py).  *)
(*                                                                         *)
(* A code or event row is the offer it was created from.  Ids are handed   *)
(* out as "largest id + 1", so a new code can get the id of a deleted one  *)
(* and with it the redemption rows, which deletion leaves behind.          *)
(* Left out: the text of a code, spending, the popup of the own card.      *)
(***************************************************************************)
EXTENDS Integers, FiniteSetsExt

CONSTANTS
  Claimants,     \* accounts that redeem and claim
  LeaguePlayers, \* players of the pool
  OfferIds,      \* ids of codes and of events: 1..n
  MaxOffers,     \* bound on codes and events ever created
  Amounts, Caps, \* what an admin may enter
  SourceClients, \* redemptions in flight
  NoPlayer       \* no verified player

ASSUME TokenSourcesAssumption ==
  /\ OfferIds \subseteq Nat \ {0} /\ MaxOffers \in Nat
  /\ Amounts \subseteq Nat \ {0} /\ Caps \subseteq Nat
  /\ IsFiniteSet(Claimants)
  /\ NoPlayer \notin LeaguePlayers

VARIABLES
  codes,        \* promo_codes, by id
  redemptions,  \* code_redemptions: pairs <<code id, account>>
  events,       \* token_grant_events, by id
  claims,       \* token_grant_claims: pairs <<event id, account>>
  credited,     \* tokens credited to each account
  sourceReq,    \* redemptions in flight
  made,         \* offers ever created
  settled,      \* pairs <<account, offer>> that were credited
  verified,     \* the player each account is verified as (player_links.py)
  ownGrants     \* own_player_card_grants: pairs <<account, player>>

offerVars == <<codes, redemptions, events, claims, credited, sourceReq, made, settled>>
sourceVars == <<offerVars, verified, ownGrants>>

NoOffer == [kind |-> "none"]
SourceIdle == [op |-> "idle"]

AllOffers ==
  [kind : {"code", "event"}, gen : 1..MaxOffers, amount : Amounts,
   cap : Caps \cup {Cardinality(Claimants)}]

OfferRows(table) == {i \in OfferIds : table[i] # NoOffer}
NextOfferId(table) ==
  IF OfferRows(table) = {} THEN 1 ELSE Max(OfferRows(table)) + 1

NewOffer(kind, amount, cap) ==
  [kind |-> kind, gen |-> Cardinality(made) + 1, amount |-> amount, cap |-> cap]

-----------------------------------------------------------------------------
(* Promo codes *)

CreateCode(amount, cap) ==
  LET offer == NewOffer("code", amount, cap)
  IN /\ Cardinality(made) < MaxOffers /\ NextOfferId(codes) \in OfferIds
     /\ codes' = [codes EXCEPT ![NextOfferId(codes)] = offer]
     /\ made' = made \cup {offer}
     /\ UNCHANGED <<redemptions, events, claims, credited, sourceReq, settled,
                    verified, ownGrants>>

\* The redemption rows stay.
DeleteCode(i) ==
  /\ codes[i] # NoOffer
  /\ codes' = [codes EXCEPT ![i] = NoOffer]
  /\ UNCHANGED <<redemptions, events, claims, credited, sourceReq, made, settled,
                 verified, ownGrants>>

\* The unlocked half of redeem_code.
BeginRedeem(r, u, i) ==
  /\ sourceReq[r] = SourceIdle
  /\ codes[i] # NoOffer
  /\ <<i, u>> \notin redemptions
  /\ sourceReq' = [sourceReq EXCEPT ![r] =
                     [op |-> "redeem", user |-> u, id |-> i, offer |-> codes[i]]]
  /\ UNCHANGED <<codes, redemptions, events, claims, credited, made, settled,
                 verified, ownGrants>>

\* The one INSERT: under the cap, and the unique index on (code, account).
RedeemableUncapped(u, i, cap) == <<i, u>> \notin redemptions
RedeemableAgain(u, i, cap) ==
  Cardinality({p \in redemptions : p[1] = i}) < cap
Redeemable(u, i, cap) ==
  /\ Cardinality({p \in redemptions : p[1] = i}) < cap
  /\ <<i, u>> \notin redemptions

CommitRedeem(r) ==
  LET q == sourceReq[r]
  IN /\ q.op = "redeem"
     /\ IF Redeemable(q.user, q.id, q.offer.cap)
        THEN /\ redemptions' = redemptions \cup {<<q.id, q.user>>}
             /\ credited' = [credited EXCEPT ![q.user] = @ + q.offer.amount]
             /\ settled' = settled \cup {<<q.user, q.offer>>}
        ELSE UNCHANGED <<redemptions, credited, settled>>
     /\ sourceReq' = [sourceReq EXCEPT ![r] = SourceIdle]
     /\ UNCHANGED <<codes, events, claims, made, verified, ownGrants>>

-----------------------------------------------------------------------------
(* Token events *)

CreateEvent(amount) ==
  LET offer == NewOffer("event", amount, Cardinality(Claimants))
  IN /\ Cardinality(made) < MaxOffers /\ NextOfferId(events) \in OfferIds
     /\ events' = [events EXCEPT ![NextOfferId(events)] = offer]
     /\ made' = made \cup {offer}
     /\ UNCHANGED <<codes, redemptions, claims, credited, sourceReq, settled,
                    verified, ownGrants>>

DeleteEvent(i) ==
  /\ events[i] # NoOffer
  /\ events' = [events EXCEPT ![i] = NoOffer]
  /\ UNCHANGED <<codes, redemptions, claims, credited, sourceReq, made, settled,
                 verified, ownGrants>>

Worth(offers) == MapThenSumSet(LAMBDA o : o.amount, offers)

\* claim_events: the events whose time has come that the account has no claim
\* row of; the INSERT ... ON CONFLICT DO NOTHING decides for each.
DueAgain(u, active) == active
Due(u, active) == {i \in active : <<i, u>> \notin claims}

ClaimEvents(u, active) ==
  LET due == Due(u, active)
      offers == {events[i] : i \in due}
  IN /\ active \subseteq OfferRows(events)
     /\ due # {}
     /\ claims' = claims \cup {<<i, u>> : i \in due}
     /\ credited' = [credited EXCEPT ![u] = @ + Worth(offers)]
     /\ settled' = settled \cup {<<u, o>> : o \in offers}
     /\ UNCHANGED <<codes, redemptions, events, sourceReq, made, verified, ownGrants>>

-----------------------------------------------------------------------------
(* The own player card *)

\* Link and unlink Steam; a Steam id belongs to one account.
Verify(u, p) ==
  /\ verified[u] = NoPlayer
  /\ \A v \in Claimants : verified[v] # p
  /\ verified' = [verified EXCEPT ![u] = p]
  /\ UNCHANGED <<offerVars, ownGrants>>

Unverify(u) ==
  /\ verified[u] # NoPlayer
  /\ verified' = [verified EXCEPT ![u] = NoPlayer]
  /\ UNCHANGED <<offerVars, ownGrants>>

\* Neither the account nor the player may have a grant row.
UngrantedUser(u, p) == \A g \in ownGrants : g[1] # u
Ungranted(u, p) == \A g \in ownGrants : g[1] # u /\ g[2] # p

\* After Link Steam and on GET /me.  The unique columns decide a race, so the
\* checks before the INSERT add nothing.
GrantOwnCard(u) ==
  /\ verified[u] # NoPlayer
  /\ Ungranted(u, verified[u])
  /\ ownGrants' = ownGrants \cup {<<u, verified[u]>>}
  /\ UNCHANGED <<offerVars, verified>>

-----------------------------------------------------------------------------
SourcesInit ==
  /\ codes = [i \in OfferIds |-> NoOffer] /\ redemptions = {}
  /\ events = [i \in OfferIds |-> NoOffer] /\ claims = {}
  /\ credited = [u \in Claimants |-> 0]
  /\ sourceReq = [r \in SourceClients |-> SourceIdle]
  /\ made = {} /\ settled = {}
  /\ verified = [u \in Claimants |-> NoPlayer] /\ ownGrants = {}

OffersNext ==
  \/ \E amount \in Amounts :
       CreateEvent(amount) \/ \E cap \in Caps : CreateCode(amount, cap)
  \/ \E i \in OfferIds :
       \/ DeleteCode(i) \/ DeleteEvent(i)
       \/ \E r \in SourceClients, u \in Claimants : BeginRedeem(r, u, i)
  \/ \E r \in SourceClients : CommitRedeem(r)
  \/ \E u \in Claimants, active \in SUBSET OfferRows(events) : ClaimEvents(u, active)

OwnCardNext ==
  \E u \in Claimants :
    Unverify(u) \/ GrantOwnCard(u) \/ \E p \in LeaguePlayers : Verify(u, p)

SourcesNext == OffersNext \/ OwnCardNext

SourcesSpec == SourcesInit /\ [][SourcesNext]_sourceVars

-----------------------------------------------------------------------------
(* Properties *)

\* The tables keep their types.
SourcesTypeOK ==
  /\ \A i \in OfferIds : {codes[i], events[i]} \subseteq AllOffers \cup {NoOffer}
  /\ redemptions \cup claims \subseteq OfferIds \X Claimants
  /\ credited \in [Claimants -> Nat]
  /\ verified \in [Claimants -> LeaguePlayers \cup {NoPlayer}]
  /\ ownGrants \subseteq Claimants \X LeaguePlayers

\* Codes and events implement the promise of OncePayments: every credit is the
\* first payment of an offer to an account and within the offer's cap, also with
\* simultaneous redemptions, codes deleted meanwhile and ids handed out again.
Payments == INSTANCE OncePayments WITH
  Payees <- Claimants, Offers <- AllOffers,
  issued <- made, paid <- settled, credit <- credited
OffersPayOnce == Payments!PaymentsSpec

\* A league player's own card is given once, to one account, also when Steam is
\* unlinked and linked to another account.
OwnCardOnce ==
  \A g, h \in ownGrants : g[1] = h[1] \/ g[2] = h[2] => g = h
=============================================================================
