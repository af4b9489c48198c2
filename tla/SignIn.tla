------------------------------- MODULE SignIn -------------------------------
(***************************************************************************)
(* Sign-in through Steam (backend/steam_openid.py) and the round trip of   *)
(* Connect Twitch (backend/twitch_oauth.py).                               *)
(*                                                                         *)
(* An attempt is used up at the first callback; the check of the attempt   *)
(* and the commit that uses it up are two steps, so two callbacks of one   *)
(* attempt can both go on.  What stops the second is the response nonce    *)
(* that Steam's callback records before it asks Steam, and for Twitch the  *)
(* code, which Twitch swaps once.  An answer of a provider names the       *)
(* attempt and the account of the provider; a browser may deliver it any   *)
(* number of times.  Left out: signatures and parameters (an answer that   *)
(* fails them is refused), display names, the admin seed, audit rows.      *)
(***************************************************************************)
EXTENDS Integers, FiniteSets

CONSTANTS
  Site,          \* accounts of the website, existing or not yet created
  WithPassword,  \* those that register with a password before the run
  Tabs,          \* browsers
  SteamIds,      \* Steam accounts (and Twitch accounts: ids of a provider)
  Attempts,      \* bound on attempts started
  Begun,         \* sign-ups already waiting for a name when the run starts
  SignClients,   \* callbacks and sign-ups in flight
  Nil

ASSUME SignInAssumption ==
  /\ WithPassword \subseteq Site
  /\ Nil \notin Site /\ Nil \notin SteamIds /\ Nil \notin Attempts
  /\ \A x \in Begun : x.attempt \notin Attempts /\ x.id \in SteamIds

VARIABLES
  registered,   \* accounts that exist
  steamOf,      \* users.steam_id
  signedIn,     \* the account each browser is signed in to
  attempt,      \* steam_login_states and twitch_oauth_states
  stateCookie,  \* the attempt in each browser's state cookie
  answers,      \* answers the providers gave
  nonces,       \* steam_openid_nonces, and the codes Twitch has swapped
  signups,      \* steam_pending_signups: pairs of attempt and Steam id, unused
  signReq,      \* requests in flight
  accepted      \* pairs of an answer and a count: the acceptances so far

signVars == <<registered, steamOf, signedIn, attempt, stateCookie, answers, nonces,
              signups, signReq, accepted>>
accountVars == <<registered, steamOf, signedIn, signups>>

NoAttempt == [purpose |-> "none"]
SignIdle == [op |-> "idle"]
Purposes == {"login", "link", "reauth", "connect"}

Done(r) == signReq' = [signReq EXCEPT ![r] = SignIdle]

-----------------------------------------------------------------------------
(* Starting and answering an attempt *)

\* Login needs no session, the others one; link needs an account without Steam,
\* reauth one with Steam.  Older unused attempts of the account are dropped.
MayStart(b, purpose) ==
  LET u == signedIn[b]
  IN CASE purpose = "login" -> TRUE
       [] purpose = "link" -> u # Nil /\ steamOf[u] = Nil
       [] purpose = "reauth" -> u # Nil /\ steamOf[u] # Nil
       [] purpose = "connect" -> u # Nil

StartAttempt(b, a, purpose) ==
  LET u == IF purpose = "login" THEN Nil ELSE signedIn[b]
      dropped == {x \in Attempts : /\ attempt[x] # NoAttempt /\ ~attempt[x].used
                                   /\ attempt[x].user = u /\ u # Nil}
  IN /\ attempt[a] = NoAttempt /\ ~\E x \in answers : x.attempt = a
     /\ MayStart(b, purpose)
     /\ attempt' = [x \in Attempts |->
          CASE x = a -> [purpose |-> purpose, user |-> u, used |-> FALSE]
            [] x \in dropped -> NoAttempt
            [] OTHER -> attempt[x]]
     /\ stateCookie' = [stateCookie EXCEPT ![b] = a]
     /\ UNCHANGED <<accountVars, answers, nonces, signReq, accepted>>

\* The provider's half: somebody approves the attempt with an account of his.
Approve(a, id) ==
  /\ attempt[a] # NoAttempt
  /\ ~\E x \in answers : x.attempt = a /\ x.id = id
  /\ answers' = answers \cup {[attempt |-> a, id |-> id, fresh |-> TRUE]}
  /\ UNCHANGED <<accountVars, attempt, stateCookie, nonces, signReq, accepted>>

\* After NONCE_MAX_AGE an answer is refused.
GoStale(x) ==
  /\ x \in answers /\ x.fresh
  /\ answers' = (answers \ {x}) \cup {[x EXCEPT !.fresh = FALSE]}
  /\ UNCHANGED <<accountVars, attempt, stateCookie, nonces, signReq, accepted>>

-----------------------------------------------------------------------------
(* The callback *)

\* Step 1: the attempt is known and unused, and the browser is the one that
\* started it (the state cookie; for Twitch the session of its account).
CallbackBegins(r, b, x) ==
  LET a == x.attempt
  IN /\ signReq[r] = SignIdle /\ x \in answers
     /\ attempt[a] # NoAttempt /\ ~attempt[a].used
     /\ IF attempt[a].purpose = "connect" THEN signedIn[b] = attempt[a].user
                                          ELSE stateCookie[b] = a
     /\ signReq' = [signReq EXCEPT ![r] =
          [op |-> "seen", tab |-> b, answer |-> [attempt |-> a, id |-> x.id],
           purpose |-> attempt[a].purpose, user |-> attempt[a].user]]
     /\ UNCHANGED <<accountVars, attempt, stateCookie, answers, nonces, accepted>>

\* The commit that uses the attempt up; a row that is gone fails the request.
UseUp(r) ==
  LET q == signReq[r]
  IN /\ q.op = "seen"
     /\ IF attempt[q.answer.attempt] # NoAttempt
        THEN /\ attempt' = [attempt EXCEPT ![q.answer.attempt].used = TRUE]
             /\ signReq' = [signReq EXCEPT ![r].op = "used"]
        ELSE Done(r) /\ UNCHANGED attempt
     /\ UNCHANGED <<accountVars, stateCookie, answers, nonces, accepted>>

\* Step 2: the nonce is recorded (Steam) or the code swapped (Twitch), once.
NonceFreeAlways(x) == \E y \in answers : y.attempt = x.attempt /\ y.id = x.id /\ y.fresh
NonceFree(x) ==
  /\ x \notin nonces
  /\ \E y \in answers : y.attempt = x.attempt /\ y.id = x.id /\ y.fresh

RecordNonce(r) ==
  LET q == signReq[r]
  IN /\ q.op = "used"
     /\ IF NonceFree(q.answer)
        THEN /\ nonces' = nonces \cup {q.answer}
             /\ signReq' = [signReq EXCEPT ![r].op = "recorded"]
        ELSE Done(r) /\ UNCHANGED nonces
     /\ UNCHANGED <<accountVars, attempt, stateCookie, answers, accepted>>

TimesAccepted(x) == Cardinality({p \in accepted : p[1] = x})

\* Steam confirms, or it is unreachable and the attempt is lost.
CheckAuthentication(r, confirmed) ==
  LET q == signReq[r]
  IN /\ q.op = "recorded"
     /\ IF confirmed
        THEN /\ signReq' = [signReq EXCEPT ![r].op = "verified"]
             /\ accepted' = accepted \cup {<<q.answer, TimesAccepted(q.answer) + 1>>}
        ELSE Done(r) /\ UNCHANGED accepted
     /\ UNCHANGED <<accountVars, attempt, stateCookie, answers, nonces>>

Holder(id) == {u \in Site : steamOf[u] = id}

\* _login_or_pending: sign in to the account of the Steam id, or wait for a name.
LogIn(r) ==
  LET q == signReq[r]
  IN /\ q.op = "verified" /\ q.purpose = "login"
     /\ IF Holder(q.answer.id) # {}
        THEN /\ \E u \in Holder(q.answer.id) :
                  signedIn' = [signedIn EXCEPT ![q.tab] = u]
             /\ UNCHANGED signups
        ELSE /\ signups' = signups \cup {q.answer}
             /\ UNCHANGED signedIn
     /\ Done(r)
     /\ UNCHANGED <<registered, steamOf, attempt, stateCookie, answers, nonces, accepted>>

\* _link and link_account: still the account that started, no Steam id yet; the
\* unique column decides between simultaneous links.
SteamIdFreeUnchecked(id) == TRUE
SteamIdFree(id) == Holder(id) = {}

Link(r) ==
  LET q == signReq[r]
      u == signedIn[q.tab]
  IN /\ q.op = "verified" /\ q.purpose = "link"
     /\ steamOf' = IF u = q.user /\ u # Nil /\ steamOf[q.user] = Nil
                        /\ SteamIdFree(q.answer.id)
                   THEN [steamOf EXCEPT ![u] = q.answer.id] ELSE steamOf
     /\ Done(r)
     /\ UNCHANGED <<registered, signedIn, signups, attempt, stateCookie, answers,
                    nonces, accepted>>

\* _reauth marks the session (module Sessions), connect_account stores the
\* Twitch id (module SoftAccounts).
HandOver(r) ==
  /\ signReq[r].op = "verified" /\ signReq[r].purpose \in {"reauth", "connect"}
  /\ Done(r)
  /\ UNCHANGED <<accountVars, attempt, stateCookie, answers, nonces, accepted>>

-----------------------------------------------------------------------------
(* Sign-up, unlink, clean-up *)

BeginSignup(r, b, x) ==
  /\ signReq[r] = SignIdle
  /\ x \in signups
  /\ signReq' = [signReq EXCEPT ![r] = [op |-> "signup", tab |-> b, answer |-> x]]
  /\ UNCHANGED <<accountVars, attempt, stateCookie, answers, nonces, accepted>>

\* The unique Steam id decides.  A sign-up that fails on the check is used up,
\* one that fails on the INSERT is rolled back and stays.
CommitSignup(r, u) ==
  LET q == signReq[r]
  IN /\ q.op = "signup"
     /\ u \notin registered
     /\ IF SteamIdFree(q.answer.id)
        THEN /\ registered' = registered \cup {u}
             /\ steamOf' = [steamOf EXCEPT ![u] = q.answer.id]
             /\ signedIn' = [signedIn EXCEPT ![q.tab] = u]
             /\ signups' = signups \ {q.answer}
        ELSE /\ signups' \in {signups, signups \ {q.answer}}
             /\ UNCHANGED <<registered, steamOf, signedIn>>
     /\ Done(r)
     /\ UNCHANGED <<attempt, stateCookie, answers, nonces, accepted>>

\* Refused to an account that has no password.
MayUnlinkAny(u) == TRUE
MayUnlink(u) == u \in WithPassword

Unlink(b) ==
  LET u == signedIn[b]
  IN /\ u # Nil
     /\ steamOf[u] # Nil
     /\ MayUnlink(u)
     /\ steamOf' = [steamOf EXCEPT ![u] = Nil]
     /\ UNCHANGED <<registered, signedIn, signups, attempt, stateCookie, answers,
                    nonces, signReq, accepted>>

\* The password login and the logout of module Passwords.
PasswordLogin(b, u) ==
  /\ u \in WithPassword /\ signedIn[b] # u
  /\ signedIn' = [signedIn EXCEPT ![b] = u]
  /\ UNCHANGED <<registered, steamOf, signups, attempt, stateCookie, answers, nonces,
                 signReq, accepted>>

SignOut(b) ==
  /\ signedIn[b] # Nil
  /\ signedIn' = [signedIn EXCEPT ![b] = Nil]
  /\ UNCHANGED <<registered, steamOf, signups, attempt, stateCookie, answers, nonces,
                 signReq, accepted>>

\* Used and expired attempts and sign-ups go; nonces are kept for a day, longer
\* than an answer stays fresh.
CleanUp ==
  /\ \E gone \in SUBSET signups :
       /\ signups' = signups \ gone
       /\ attempt' = [a \in Attempts |->
            IF attempt[a] # NoAttempt /\ attempt[a].used THEN NoAttempt ELSE attempt[a]]
       /\ nonces' = {n \in nonces :
            \E x \in answers : x.attempt = n.attempt /\ x.id = n.id /\ x.fresh}
  /\ UNCHANGED <<registered, steamOf, signedIn, stateCookie, answers, signReq, accepted>>

-----------------------------------------------------------------------------
SignInit ==
  /\ registered = WithPassword
  /\ steamOf = [u \in Site |-> Nil]
  /\ signedIn = [b \in Tabs |-> Nil]
  /\ attempt = [a \in Attempts |-> NoAttempt]
  /\ stateCookie = [b \in Tabs |-> Nil]
  /\ answers = {} /\ nonces = {} /\ signups = Begun /\ accepted = {}
  /\ signReq = [r \in SignClients |-> SignIdle]

TabStep(b) ==
  \/ Unlink(b) \/ SignOut(b)
  \/ \E u \in Site : PasswordLogin(b, u)
  \/ \E a \in Attempts, purpose \in Purposes : StartAttempt(b, a, purpose)

SignClientStep(r) ==
  \/ \E b \in Tabs :
       \/ \E x \in answers : CallbackBegins(r, b, x)
       \/ \E x \in signups : BeginSignup(r, b, x)
  \/ UseUp(r) \/ RecordNonce(r)
  \/ \E confirmed \in BOOLEAN : CheckAuthentication(r, confirmed)
  \/ LogIn(r) \/ Link(r) \/ HandOver(r)
  \/ \E u \in Site : CommitSignup(r, u)

SignNext ==
  \/ \E b \in Tabs : TabStep(b)
  \/ \E r \in SignClients : SignClientStep(r)
  \/ \E a \in Attempts, id \in SteamIds : Approve(a, id)
  \/ \E x \in answers : GoStale(x)
  \/ CleanUp

SignSpec == SignInit /\ [][SignNext]_signVars

-----------------------------------------------------------------------------
(* Properties *)

\* The tables keep their types.
SignTypeOK ==
  /\ registered \subseteq Site
  /\ steamOf \in [Site -> SteamIds \cup {Nil}]
  /\ signedIn \in [Tabs -> registered \cup {Nil}]
  /\ \A a \in Attempts : attempt[a].purpose \in Purposes \cup {"none"}
  /\ stateCookie \in [Tabs -> Attempts \cup {Nil}]
  /\ {x.attempt : x \in signups \ Begun} \subseteq Attempts

\* An answer of a provider signs in, links or connects once, also when the
\* browser delivers it twice at the same time and after the daily clean-up.
AnswerAcceptedOnce ==
  \A p \in accepted : TimesAccepted(p[1]) = 1

\* A Steam account belongs to one account of the website, whatever sign-ups and
\* links of it run at the same time.
OneAccountPerSteamId == \A id \in SteamIds : Cardinality(Holder(id)) <= 1

\* Every account can still be signed in to: by its password or through Steam.
EveryoneCanSignIn == \A u \in registered : u \in WithPassword \/ steamOf[u] # Nil

\* Signing in through a provider: each answer counts once, a Steam account signs in to
\* one account, and nobody loses the last way in.
SignInSound == AnswerAcceptedOnce /\ OneAccountPerSteamId /\ EveryoneCanSignIn
=============================================================================
