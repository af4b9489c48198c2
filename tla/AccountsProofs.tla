--------------------------- MODULE AccountsProofs ---------------------------
(* Proofs about accounts: the ways into one (Sessions, Passwords, SignIn),    *)
(* what it is given once (TokenSources, which implements OncePayments, and    *)
(* the own player card) and the migrations of its tables, for every number of *)
(* accounts, browsers, requests, offers and starts and all limits that        *)
(* load_settings accepts.                                                    *)
EXTENDS Sessions, Passwords, SignIn, TokenSources, Migrations, SumTheorems

-----------------------------------------------------------------------------
(* Sessions: the inductive invariant *)

SessionRows ==
  [user : Members, age : 0..MaxAge, idle : 0..MaxAge, quiet : 0..MaxAge,
   confirmed : BOOLEAN, role : BOOLEAN]

\* A row of an account with these rights whose stored times lag by less than a touch.
GoodRow(x, rights) ==
  /\ x \in SessionRows
  /\ x.quiet <= x.idle
  /\ x.idle < MaxAge => x.idle < x.quiet + TouchEvery
  /\ x.role = rights[x.user]

SessionsInv ==
  /\ row \in [Sids -> {NoSession} \cup SessionRows]
  /\ \A s \in Sids : row[s] = NoSession \/ GoodRow(row[s], admin)
  /\ cookie \in [Browsers -> Sids \cup {NoSid}]
  /\ admin \in [Members -> BOOLEAN]
  /\ webReq \in [WebClients ->
       {WebIdle} \cup [op : {"toggle"}, user : Members, to : BOOLEAN]]

\* Ages are naturals.
LEMMA AgeBound == MaxAge \in Nat /\ TouchEvery \in Nat /\ TouchEvery > 0
  BY SessionsAssumption DEF SessionsAssumption, MaxAge

\* A request that a session serves keeps its row good.
LEMMA TouchedGood ==
  ASSUME SessionsInv, NEW s \in Live
  PROVE  GoodRow(Touched(s), admin)
  <1>1. GoodRow(row[s], admin)
    BY DEF SessionsInv, Live
  <1> DEFINE x == row[s]
             t == Touched(s)
  <1>2. /\ x \in SessionRows
        /\ x.quiet <= x.idle
        /\ x.idle < MaxAge => x.idle < x.quiet + TouchEvery
        /\ x.role = admin[x.user]
    BY <1>1 DEF GoodRow
  <1>3. t = [x EXCEPT !.quiet = 0, !.idle = IF x.idle >= TouchEvery THEN 0 ELSE x.idle]
    BY DEF Touched
  <1>4. /\ t \in SessionRows
        /\ t.quiet = 0 /\ t.role = x.role /\ t.user = x.user
        /\ t.idle = IF x.idle >= TouchEvery THEN 0 ELSE x.idle
    <2> DEFINE n == IF x.idle >= TouchEvery THEN 0 ELSE x.idle
    <2>1. n \in 0..MaxAge /\ 0 \in 0..MaxAge
      BY <1>2, AgeBound DEF SessionRows
    <2>2. t = [x EXCEPT !.quiet = 0, !.idle = n]
      BY <1>3
    <2> HIDE DEF x, t, n
    <2>3. t \in SessionRows /\ t.quiet = 0 /\ t.role = x.role /\ t.user = x.user /\ t.idle = n
      BY <1>2, <2>1, <2>2 DEF SessionRows
    <2> QED BY <2>3 DEF n
  <1>5. x.idle \in Nat
    BY <1>2, AgeBound DEF SessionRows
  <1> HIDE DEF x, t
  <1>6. GoodRow(t, admin)
    BY <1>2, <1>4, <1>5, AgeBound DEF GoodRow
  <1> QED BY <1>6 DEF t

\* So does the confirmation of a password.
LEMMA ConfirmedGood ==
  ASSUME SessionsInv, NEW s \in Live
  PROVE  GoodRow([Touched(s) EXCEPT !.confirmed = TRUE], admin)
  BY TouchedGood, Zenon DEF GoodRow, SessionRows

\* A login begins with a good row.
LEMMA FreshGood ==
  ASSUME SessionsInv, NEW u \in Members
  PROVE  GoodRow(FreshSession(u), admin)
  BY AgeBound DEF GoodRow, SessionRows, FreshSession, SessionsInv

\* A tick makes the age, the stored idle time and the true one grow together until
\* they stop.
LEMMA OlderGood ==
  ASSUME SessionsInv, NEW s \in Live, NEW still \in BOOLEAN
  PROVE  GoodRow([row[s] EXCEPT !.age = Older(@), !.idle = Older(@), !.quiet = Older(@),
                                !.confirmed = @ /\ still], admin)
  <1>1. GoodRow(row[s], admin)
    BY DEF SessionsInv, Live
  <1> DEFINE x == row[s]
             t == [x EXCEPT !.age = Older(x.age), !.idle = Older(x.idle),
                            !.quiet = Older(x.quiet), !.confirmed = x.confirmed /\ still]
  <1>2. /\ x \in SessionRows
        /\ x.quiet <= x.idle
        /\ x.idle < MaxAge => x.idle < x.quiet + TouchEvery
        /\ x.role = admin[x.user]
    BY <1>1 DEF GoodRow
  <1>3. x.age \in 0..MaxAge /\ x.idle \in 0..MaxAge /\ x.quiet \in 0..MaxAge
    BY <1>2 DEF SessionRows
  <1>4. \A a \in 0..MaxAge : /\ Older(a) \in 0..MaxAge
                            /\ Older(a) = IF a < MaxAge THEN a + 1 ELSE a
    BY AgeBound DEF Older
  <1> HIDE DEF x
  <1>5. (x.confirmed /\ still) \in BOOLEAN
    BY <1>2, Zenon DEF SessionRows
  <1>6. t \in SessionRows
    BY <1>2, <1>3, <1>4, <1>5, Zenon DEF SessionRows
  <1>7. /\ t.idle = Older(x.idle) /\ t.quiet = Older(x.quiet)
        /\ t.role = x.role /\ t.user = x.user
    BY <1>2 DEF SessionRows
  <1> HIDE DEF t
  <1>8. GoodRow(t, admin)
    BY <1>2, <1>3, <1>4, <1>6, <1>7, AgeBound DEF GoodRow
  <1> QED BY <1>8 DEF t, x

-----------------------------------------------------------------------------
(* Sessions: the steps *)

\* A step keeps the invariant when every row goes, stays or is a good one.
LEMMA RowsKept ==
  ASSUME SessionsInv, NEW rows,
         rows = [s \in Sids |-> rows[s]],
         \A s \in Sids : rows[s] \in {NoSession, row[s]} \/ GoodRow(rows[s], admin)
  PROVE  /\ rows \in [Sids -> {NoSession} \cup SessionRows]
         /\ \A s \in Sids : rows[s] = NoSession \/ GoodRow(rows[s], admin)
  <1>1. \A s \in Sids : rows[s] = NoSession \/ GoodRow(rows[s], admin)
    BY DEF SessionsInv
  <1>2. \A s \in Sids : rows[s] \in {NoSession} \cup SessionRows
    BY <1>1 DEF GoodRow
  <1>3. rows \in [Sids -> {NoSession} \cup SessionRows]
    BY <1>2, Zenon
  <1> QED BY <1>1, <1>3

\* Rows that go.
LEMMA WithoutKept ==
  ASSUME SessionsInv, NEW gone
  PROVE  /\ Without(gone) = [s \in Sids |-> Without(gone)[s]]
         /\ \A s \in Sids : Without(gone)[s] \in {NoSession, row[s]}
         /\ \A s \in Sids : s \in gone => Without(gone)[s] = NoSession
  BY DEF Without

\* A request touches its session or is refused.
LEMMA SessionsNextKept ==
  ASSUME SessionsInv, [SessionsNext]_sessionsVars
  PROVE  SessionsInv'
  <1>1. ASSUME NEW b \in Browsers, BrowserStep(b)
        PROVE  SessionsInv'
    <2> USE <1>1
    <2>0. /\ UNCHANGED <<admin, webReq>>
          /\ cookie' \in [Browsers -> Sids \cup {NoSid}]
      <3> USE DEF SessionsInv
      <3>1. CASE Request(b)
        BY <3>1 DEF Request
      <3>2. CASE MarkReauth(b)
        BY <3>2 DEF MarkReauth
      <3>3. CASE Logout(b)
        BY <3>3 DEF Logout
      <3>4. CASE LogoutEverywhere(b)
        BY <3>4 DEF LogoutEverywhere
      <3>5. CASE \E s \in Sids : DeleteSession(b, s)
        BY <3>5 DEF DeleteSession
      <3>6. CASE \E u \in Members : StartSession(b, u)
        BY <3>6 DEF StartSession, Unused
      <3>7. CASE \E u \in Members : ForceLogout(b, u)
        BY <3>7 DEF ForceLogout
      <3> QED BY <1>1, <3>1, <3>2, <3>3, <3>4, <3>5, <3>6, <3>7 DEF BrowserStep
    <2> SUFFICES /\ row' = [s \in Sids |-> row'[s]]
                 /\ \A s \in Sids : row'[s] \in {NoSession, row[s]} \/ GoodRow(row'[s], admin)
      <3>1. PICK rows : rows = row'
        OBVIOUS
      <3>2. /\ rows = [s \in Sids |-> rows[s]]
            /\ \A s \in Sids : rows[s] \in {NoSession, row[s]} \/ GoodRow(rows[s], admin)
        BY <3>1
      <3>3. /\ rows \in [Sids -> {NoSession} \cup SessionRows]
            /\ \A s \in Sids : rows[s] = NoSession \/ GoodRow(rows[s], admin)
        BY <3>2, RowsKept
      <3> QED BY <2>0, <3>1, <3>3 DEF SessionsInv
    <2>1. CASE Request(b)
      <3>1. CASE Valid(b)
        <4>1. cookie[b] \in Live
          BY <3>1 DEF Valid
        <4>2. GoodRow(Touched(cookie[b]), admin)
          BY <4>1, TouchedGood
        <4> QED BY <2>1, <3>1, <4>2 DEF Request, SessionsInv
      <3>2. CASE ~Valid(b)
        BY <2>1, <3>2, WithoutKept DEF Request
      <3> QED BY <3>1, <3>2
    <2>2. CASE MarkReauth(b)
      <3>1. cookie[b] \in Live
        BY <2>2 DEF MarkReauth, Valid
      <3>2. GoodRow([Touched(cookie[b]) EXCEPT !.confirmed = TRUE], admin)
        BY <3>1, ConfirmedGood
      <3> QED BY <2>2, <3>2 DEF MarkReauth, SessionsInv
    <2>3. CASE Logout(b)
      <3>1. row' = Without({cookie[b]})
        BY <2>3 DEF Logout
      <3> QED BY <3>1, WithoutKept
    <2>4. CASE LogoutEverywhere(b)
      BY <2>4, WithoutKept DEF LogoutEverywhere
    <2>5. CASE \E s \in Sids : DeleteSession(b, s)
      <3>1. PICK s \in Sids : DeleteSession(b, s)
        BY <2>5
      <3>2. cookie[b] \in Live
        BY <3>1 DEF DeleteSession, Valid
      <3>3. GoodRow(Touched(cookie[b]), admin)
        BY <3>2, TouchedGood
      <3>4. PICK rest : rest = Without({s})
        OBVIOUS
      <3>5. /\ rest = [x \in Sids |-> rest[x]]
            /\ \A x \in Sids : rest[x] \in {NoSession, row[x]}
        BY <3>4, WithoutKept
      <3>6. row' = rest \/ row' = [rest EXCEPT ![cookie[b]] = Touched(cookie[b])]
        BY <3>1, <3>4 DEF DeleteSession
      <3> QED BY <3>3, <3>5, <3>6
    <2>6. CASE \E u \in Members : StartSession(b, u)
      <3>1. PICK u \in Members : StartSession(b, u)
        BY <2>6
      <3>2. GoodRow(FreshSession(u), admin)
        BY FreshGood
      <3>3. PICK rest : rest = Without({cookie[b]})
        OBVIOUS
      <3>4. /\ rest = [x \in Sids |-> rest[x]]
            /\ \A x \in Sids : rest[x] \in {NoSession, row[x]}
        BY <3>3, WithoutKept
      <3>5. PICK s \in Unused : row' = [rest EXCEPT ![s] = FreshSession(u)]
        BY <3>1, <3>3 DEF StartSession
      <3> QED BY <3>2, <3>4, <3>5
    <2>7. CASE \E u \in Members : ForceLogout(b, u)
      BY <2>7, WithoutKept DEF ForceLogout
    <2> QED
      BY <1>1, <2>1, <2>2, <2>3, <2>4, <2>5, <2>6, <2>7 DEF BrowserStep
  <1>2. ASSUME NEW c \in WebClients, NEW b \in Browsers, NEW u \in Members,
               BeginToggleAdmin(c, b, u)
        PROVE  SessionsInv'
    <2>1. cookie[b] \in Live
      BY <1>2 DEF BeginToggleAdmin, AdminCall, Valid
    <2>2. GoodRow(Touched(cookie[b]), admin)
      BY <2>1, TouchedGood
    <2>3. /\ row' = [row EXCEPT ![cookie[b]] = Touched(cookie[b])]
          /\ UNCHANGED <<cookie, admin>>
          /\ webReq' = [webReq EXCEPT ![c] = [op |-> "toggle", user |-> u, to |-> ~admin[u]]]
      BY <1>2 DEF BeginToggleAdmin
    <2>4. /\ row' = [s \in Sids |-> row'[s]]
          /\ \A s \in Sids : row'[s] \in {NoSession, row[s]} \/ GoodRow(row'[s], admin)
      BY <2>2, <2>3 DEF SessionsInv
    <2>5. (~admin[u]) \in BOOLEAN
      OBVIOUS
    <2>6. webReq' \in [WebClients ->
            {WebIdle} \cup [op : {"toggle"}, user : Members, to : BOOLEAN]]
      BY <2>3, <2>5 DEF SessionsInv
    <2>7. PICK rows : rows = row'
      OBVIOUS
    <2>8. /\ rows = [s \in Sids |-> rows[s]]
          /\ \A s \in Sids : rows[s] \in {NoSession, row[s]} \/ GoodRow(rows[s], admin)
      BY <2>4, <2>7
    <2>9. /\ rows \in [Sids -> {NoSession} \cup SessionRows]
          /\ \A s \in Sids : rows[s] = NoSession \/ GoodRow(rows[s], admin)
      BY <2>8, RowsKept
    <2> QED BY <2>3, <2>6, <2>7, <2>9 DEF SessionsInv
  <1>3. ASSUME NEW c \in WebClients, CommitToggleAdmin(c)
        PROVE  SessionsInv'
    <2> DEFINE q == webReq[c]
    <2>1. q \in [op : {"toggle"}, user : Members, to : BOOLEAN]
      BY <1>3 DEF CommitToggleAdmin, SessionsInv, WebIdle
    <2>2. /\ admin' = [admin EXCEPT ![q.user] = q.to]
          /\ row' = Without(SessionsOf(q.user))
          /\ webReq' = [webReq EXCEPT ![c] = WebIdle]
          /\ UNCHANGED cookie
      BY <1>3 DEF CommitToggleAdmin, EndedByToggle, Close
    <2>3. /\ row' = [s \in Sids |-> row'[s]]
          /\ \A s \in Sids : row'[s] \in {NoSession, row[s]}
          /\ \A s \in SessionsOf(q.user) : row'[s] = NoSession
      BY <2>2, WithoutKept DEF SessionsOf, Live
    <2>4. ASSUME NEW s \in Sids
          PROVE  row'[s] = NoSession \/ GoodRow(row'[s], admin')
      <3>1. CASE s \in SessionsOf(q.user) \/ row[s] = NoSession
        BY <2>3, <3>1
      <3>2. CASE s \notin SessionsOf(q.user) /\ row[s] # NoSession
        <4>1. row[s].user # q.user /\ GoodRow(row[s], admin)
          BY <3>2 DEF SessionsOf, Live, SessionsInv
        <4>2. row[s].user \in Members
          BY <4>1 DEF GoodRow, SessionRows
        <4>3. admin'[row[s].user] = admin[row[s].user]
          BY <2>2, <4>1, <4>2 DEF SessionsInv
        <4>4. GoodRow(row[s], admin')
          BY <4>1, <4>3 DEF GoodRow
        <4>5. row'[s] \in {NoSession, row[s]}
          BY <2>3
        <4>6. CASE row'[s] = row[s]
          BY <4>4, <4>6
        <4> QED BY <4>5, <4>6
      <3> QED BY <3>1, <3>2
    <2>5. row' \in [Sids -> {NoSession} \cup SessionRows]
      <3>1. \A s \in Sids : row'[s] \in {NoSession} \cup SessionRows
        BY <2>3 DEF SessionsInv
      <3> QED BY <2>3, <3>1
    <2>6. admin' \in [Members -> BOOLEAN]
      BY <2>1, <2>2 DEF SessionsInv
    <2>7. webReq' \in [WebClients ->
            {WebIdle} \cup [op : {"toggle"}, user : Members, to : BOOLEAN]]
      BY <2>2 DEF SessionsInv
    <2> QED BY <2>2, <2>4, <2>5, <2>6, <2>7 DEF SessionsInv
  <1>4. ASSUME UNCHANGED <<cookie, admin, webReq>>,
               row' = [s \in Sids |-> row'[s]],
               \A s \in Sids : row'[s] \in {NoSession, row[s]} \/ GoodRow(row'[s], admin)
        PROVE  SessionsInv'
    <2>1. PICK rows : rows = row'
      OBVIOUS
    <2>2. /\ rows = [s \in Sids |-> rows[s]]
          /\ \A s \in Sids : rows[s] \in {NoSession, row[s]} \/ GoodRow(rows[s], admin)
      BY <1>4, <2>1
    <2>3. /\ rows \in [Sids -> {NoSession} \cup SessionRows]
          /\ \A s \in Sids : rows[s] = NoSession \/ GoodRow(rows[s], admin)
      BY <2>2, RowsKept
    <2> QED BY <1>4, <2>1, <2>3 DEF SessionsInv
  <1>5. CASE Cleanup
    <2>1. UNCHANGED <<cookie, admin, webReq>> /\ row' = Without({s \in Live : IsExpired(s)})
      BY <1>5 DEF Cleanup
    <2>2. PICK gone : gone = {s \in Live : IsExpired(s)}
      OBVIOUS
    <2>3. row' = Without(gone)
      BY <2>1, <2>2
    <2> QED BY <1>4, <2>1, <2>3, WithoutKept
  <1>6. CASE SessionTick
    <2>1. PICK stale \in SUBSET Live :
            row' = [s \in Sids |->
                      IF s \in Live
                      THEN [row[s] EXCEPT !.age = Older(@), !.idle = Older(@),
                                          !.quiet = Older(@),
                                          !.confirmed = @ /\ s \notin stale]
                      ELSE row[s]]
      BY <1>6 DEF SessionTick
    <2>2. ASSUME NEW s \in Live
          PROVE  GoodRow(row'[s], admin)
      <3>1. PICK still \in BOOLEAN : still = (s \notin stale)
        BY Zenon
      <3>2. GoodRow([row[s] EXCEPT !.age = Older(@), !.idle = Older(@),
                                   !.quiet = Older(@), !.confirmed = @ /\ still], admin)
        BY OlderGood
      <3>3. row'[s] = [row[s] EXCEPT !.age = Older(@), !.idle = Older(@),
                                     !.quiet = Older(@), !.confirmed = @ /\ s \notin stale]
        BY <2>1 DEF Live
      <3> QED BY <3>1, <3>2, <3>3, Zenon
    <2>3. row' = [s \in Sids |-> row'[s]]
      BY <2>1
    <2>4. \A s \in Sids : s \notin Live => row'[s] = NoSession
      BY <2>1 DEF Live
    <2>5. UNCHANGED <<cookie, admin, webReq>>
      BY <1>6 DEF SessionTick
    <2>6. \A s \in Sids : row'[s] = NoSession \/ GoodRow(row'[s], admin)
      BY <2>2, <2>4
    <2> QED BY ONLY <1>4, <2>3, <2>5, <2>6, ZenonT(30)
  <1>7. CASE UNCHANGED sessionsVars
    BY <1>7 DEF sessionsVars, SessionsInv
  <1> QED
    BY <1>1, <1>2, <1>3, <1>5, <1>6, <1>7 DEF SessionsNext

\* Sessions keep their types, end with a change of their account's right, and the times
\* stored for them lag by less than a touch.
THEOREM SessionsInvariant == SessionsSpec => []SessionsInv
  <1>1. SessionsInit => SessionsInv
    BY DEF SessionsInit, SessionsInv
  <1>2. SessionsInv /\ [SessionsNext]_sessionsVars => SessionsInv'
    BY SessionsNextKept
  <1> QED BY <1>1, <1>2, PTL DEF SessionsSpec

\* SessionsTypeOK: rows of sessions, cookies and rights are typed, whoever signs in and
\* out, is promoted or demoted.
THEOREM SessionsTyped == SessionsSpec => []SessionsTypeOK
  <1>1. SessionsInv => SessionsTypeOK
    <2> SUFFICES ASSUME SessionsInv PROVE SessionsTypeOK
      OBVIOUS
    <2>1. \A s \in Live : row[s] \in SessionRows
      BY DEF SessionsInv, Live
    <2> QED BY <2>1 DEF SessionsInv, SessionsTypeOK, SessionRows
  <1> QED BY <1>1, SessionsInvariant, PTL

\* No user in use is signed out for idleness, and no session outlives a change of its
\* account's right, also with admins toggling at the same time (sessions.py,
\* routers/admin_users.py).
THEOREM SessionsSoundHold == SessionsSpec => []SessionsSound
  <1>1. SessionsInv => SessionsSound
    BY DEF SessionsInv, SessionsSound, ActiveStaysSignedIn, RoleOfLogin, GoodRow, Live
  <1> QED BY <1>1, SessionsInvariant, PTL

-----------------------------------------------------------------------------
(* Passwords *)

Guesses(u) == {c \in LoginClients : loginReq[c] = [op |-> "guess", user |-> u]}

\* However many guesses run at once, the lockout lets no more of them through than it
\* allows and one per other request in flight.
LockoutHolds ==
  \A u \in Accounts :
    failures[u] + Cardinality(Guesses(u)) < LockoutAfter + Cardinality(LoginClients)

LoginRequests ==
  {LoginIdle}
   \cup [op : {"login"}, user : Accounts, version : 0..MaxPassword]
   \cup [op : {"guess"}, user : Accounts]
   \cup [op : {"reset"}, user : Accounts, link : Links]
   \cup [op : {"change"}, user : Accounts]

Opened == [version : 0..MaxPassword, late : BOOLEAN]

PasswordsInv ==
  /\ password \in [Accounts -> 0..MaxPassword]
  /\ opened \in [Accounts -> SUBSET Opened]
  /\ link \in [Accounts -> SUBSET Links]
  /\ failures \in [Accounts -> Nat]
  /\ cooldown \in [Accounts -> BOOLEAN]
  /\ loginReq \in [LoginClients -> LoginRequests]
  /\ NoSessionOfOldPassword

\* A new request changes nothing but itself.
LEMMA StartKept ==
  ASSUME PasswordsInv, NEW c \in LoginClients, NEW request \in LoginRequests,
         Start(c, request)
  PROVE  PasswordsInv'
  BY DEF PasswordsInv, NoSessionOfOldPassword, Start

\* Each step of logins, reset links, password changes and time.
LEMMA PasswordsNextKept ==
  ASSUME PasswordsInv, [PasswordsNext]_passwordVars
  PROVE  PasswordsInv'
  <1> USE PasswordsAssumption DEF PasswordsAssumption
  <1>1. ASSUME NEW c \in LoginClients, CommitLogin(c)
        PROVE  PasswordsInv'
    <2> DEFINE q == loginReq[c]
               s == [version |-> q.version, late |-> q.version # password[q.user]]
    <2>1. q \in [op : {"login"}, user : Accounts, version : 0..MaxPassword]
      BY <1>1 DEF CommitLogin, PasswordsInv, LoginRequests, LoginIdle
    <2>2. /\ opened' = [opened EXCEPT ![q.user] = @ \cup {s}]
          /\ failures' = [failures EXCEPT ![q.user] = 0]
          /\ loginReq' = [loginReq EXCEPT ![c] = LoginIdle]
          /\ UNCHANGED <<password, link, cooldown>>
      BY <1>1 DEF CommitLogin, Finish
    <2>3. s \in Opened /\ (s.version = password[q.user] \/ s.late)
      <3>1. PICK late \in BOOLEAN : late = (q.version # password[q.user])
        BY Zenon
      <3>2. s = [version |-> q.version, late |-> late]
        BY <3>1
      <3> QED BY <2>1, <3>1, <3>2 DEF Opened
    <2> HIDE DEF s
    <2>4. opened' \in [Accounts -> SUBSET Opened]
      BY <2>1, <2>2, <2>3 DEF PasswordsInv
    <2>5. NoSessionOfOldPassword'
      BY <2>1, <2>2, <2>3 DEF PasswordsInv, NoSessionOfOldPassword
    <2> QED BY <2>1, <2>2, <2>4, <2>5 DEF PasswordsInv, LoginRequests
  <1>2. ASSUME NEW c \in LoginClients, CommitGuess(c)
        PROVE  PasswordsInv'
    BY <1>2 DEF CommitGuess, Finish, PasswordsInv, NoSessionOfOldPassword, LoginRequests,
                LoginIdle
  <1>3. ASSUME NEW c \in LoginClients, CommitReset(c)
        PROVE  PasswordsInv'
    <2>1. loginReq[c].user \in Accounts
      BY <1>3 DEF CommitReset, PasswordsInv, LoginRequests, LoginIdle
    <2> QED
      BY <1>3, <2>1 DEF CommitReset, KeptByReset, Finish, PasswordsInv,
                        NoSessionOfOldPassword, LoginRequests
  <1>4. ASSUME NEW c \in LoginClients, CommitChangePassword(c)
        PROVE  PasswordsInv'
    <2> DEFINE u == loginReq[c].user
               s == [version |-> password[u] + 1, late |-> FALSE]
    <2>1. u \in Accounts
      BY <1>4 DEF CommitChangePassword, PasswordsInv, LoginRequests, LoginIdle
    <2>2. /\ password[u] < MaxPassword
          /\ password' = [password EXCEPT ![u] = @ + 1]
          /\ opened' = [opened EXCEPT ![u] = {s}]
          /\ link' = [link EXCEPT ![u] = {}]
          /\ loginReq' = [loginReq EXCEPT ![c] = LoginIdle]
          /\ UNCHANGED <<cooldown, failures>>
      BY <1>4 DEF CommitChangePassword, Finish
    <2>3. s \in Opened /\ s.version = password'[u]
      BY <2>1, <2>2 DEF Opened, PasswordsInv
    <2> HIDE DEF s, u
    <2>4. NoSessionOfOldPassword'
      BY <2>1, <2>2, <2>3 DEF PasswordsInv, NoSessionOfOldPassword
    <2> QED BY <2>1, <2>2, <2>3, <2>4 DEF PasswordsInv, LoginRequests
  <1>5. ASSUME NEW c \in LoginClients, NEW u \in Accounts,
               \/ BeginLogin(c, u) \/ BeginGuess(c, u) \/ BeginReset(c, u)
               \/ BeginChangePassword(c, u)
        PROVE  PasswordsInv'
    <2>1. password[u] \in 0..MaxPassword /\ link[u] \subseteq Links
      BY DEF PasswordsInv
    <2>2. PICK request \in LoginRequests : Start(c, request)
      <3>1. CASE BeginLogin(c, u)
        BY <2>1, <3>1, Zenon DEF BeginLogin, LoginRequests
      <3>2. CASE BeginGuess(c, u)
        BY <2>1, <3>2, Zenon DEF BeginGuess, LoginRequests
      <3>3. CASE BeginReset(c, u)
        BY <2>1, <3>3, Zenon DEF BeginReset, LoginRequests
      <3>4. CASE BeginChangePassword(c, u)
        BY <2>1, <3>4, Zenon DEF BeginChangePassword, LoginRequests
      <3> QED BY <1>5, <3>1, <3>2, <3>3, <3>4
    <2> QED BY <2>2, StartKept
  <1>6. ASSUME NEW u \in Accounts, ForgetFailure(u)
        PROVE  PasswordsInv'
    BY <1>6 DEF ForgetFailure, PasswordsInv, NoSessionOfOldPassword
  <1>7. ASSUME NEW u \in Accounts, SessionEnds(u)
        PROVE  PasswordsInv'
    BY <1>7 DEF SessionEnds, PasswordsInv, NoSessionOfOldPassword
  <1>8. ASSUME NEW u \in Accounts, CooldownOver(u)
        PROVE  PasswordsInv'
    BY <1>8 DEF CooldownOver, PasswordsInv, NoSessionOfOldPassword
  <1>9. ASSUME NEW u \in Accounts, LinkExpires(u)
        PROVE  PasswordsInv'
    BY <1>9 DEF LinkExpires, PasswordsInv, NoSessionOfOldPassword
  <1>10. ASSUME NEW u \in Accounts, NEW sent \in BOOLEAN, ForgotPassword(u, sent)
         PROVE  PasswordsInv'
    <2>1. UNCHANGED <<password, opened, failures, loginReq>>
      BY <1>10 DEF ForgotPassword
    <2>2. \/ UNCHANGED <<link, cooldown>>
          \/ /\ \E l \in Links : link' = [link EXCEPT ![u] = {l}]
             /\ cooldown' = [cooldown EXCEPT ![u] = TRUE]
      BY <1>10 DEF ForgotPassword, LinksAfter, FreshLinks
    <2>3. link' \in [Accounts -> SUBSET Links] /\ cooldown' \in [Accounts -> BOOLEAN]
      <3>1. CASE UNCHANGED <<link, cooldown>>
        BY <3>1 DEF PasswordsInv
      <3>2. ASSUME NEW l \in Links, link' = [link EXCEPT ![u] = {l}],
                   cooldown' = [cooldown EXCEPT ![u] = TRUE]
            PROVE  link' \in [Accounts -> SUBSET Links] /\ cooldown' \in [Accounts -> BOOLEAN]
        BY <3>2 DEF PasswordsInv
      <3> QED BY <2>2, <3>1, <3>2
    <2> QED BY <2>1, <2>3 DEF PasswordsInv, NoSessionOfOldPassword
  <1>11. CASE UNCHANGED passwordVars
    BY <1>11 DEF passwordVars, PasswordsInv, NoSessionOfOldPassword
  <1> QED
    BY <1>1, <1>2, <1>3, <1>4, <1>5, <1>6, <1>7, <1>8, <1>9, <1>10, <1>11
    DEF PasswordsNext

\* The tables keep their types, and what sessions an account has follows its password.
THEOREM PasswordsInvariant == PasswordsSpec => []PasswordsInv
  <1>1. PasswordsInit => PasswordsInv
    BY PasswordsAssumption DEF PasswordsAssumption, PasswordsInit, PasswordsInv,
       NoSessionOfOldPassword, LoginRequests
  <1>2. PasswordsInv /\ [PasswordsNext]_passwordVars => PasswordsInv'
    BY PasswordsNextKept
  <1> QED BY <1>1, <1>2, PTL DEF PasswordsSpec

\* PasswordsTypeOK: versions, links and counts are typed, however logins, resets and
\* changes overlap.
THEOREM PasswordsTyped == PasswordsSpec => []PasswordsTypeOK
  <1>1. PasswordsInv => PasswordsTypeOK
    BY DEF PasswordsInv, PasswordsTypeOK, Opened
  <1> QED BY <1>1, PasswordsInvariant, PTL

\* After a reset or a change of the password (routers/auth.py, routers/profile.py) only
\* logins that were already running leave a session of the old one.
THEOREM OldPasswordGone == PasswordsSpec => []NoSessionOfOldPassword
  <1>1. PasswordsInv => NoSessionOfOldPassword
    BY DEF PasswordsInv
  <1> QED BY <1>1, PasswordsInvariant, PTL

\* The guesses in flight are some of the requests.
LEMMA GuessesCounted ==
  ASSUME NEW G \in SUBSET LoginClients
  PROVE  /\ IsFiniteSet(G) /\ Cardinality(G) \in Nat /\ Cardinality(LoginClients) \in Nat
         /\ Cardinality(G) <= Cardinality(LoginClients)
  BY PasswordsAssumption, FS_Subset, FS_CardinalityType DEF PasswordsAssumption

\* Only a wrong password counts, and only while the lockout lets guesses in.
LEMMA LockoutKept ==
  ASSUME PasswordsInv, LockoutHolds, [PasswordsNext]_passwordVars
  PROVE  LockoutHolds'
  <1>0. failures \in [Accounts -> Nat] /\ LockoutAfter \in Nat
    BY PasswordsAssumption DEF PasswordsInv, PasswordsAssumption
  <1>1. ASSUME \A v \in Accounts : Guesses(v)' \subseteq Guesses(v)
                                 /\ failures'[v] \in Nat /\ failures'[v] <= failures[v]
        PROVE  LockoutHolds'
    <2> SUFFICES ASSUME NEW v \in Accounts
                 PROVE  failures'[v] + Cardinality(Guesses(v)')
                          < LockoutAfter + Cardinality(LoginClients)
      BY DEF LockoutHolds
    <2>1. PICK old \in SUBSET LoginClients : old = Guesses(v)
      BY DEF Guesses
    <2>2. PICK new \in SUBSET LoginClients : new = Guesses(v)'
      BY DEF Guesses
    <2>3. Cardinality(new) <= Cardinality(old)
      <3>1. IsFiniteSet(old) /\ new \subseteq old
        BY <1>1, <2>1, <2>2, GuessesCounted
      <3> QED BY <3>1, FS_Subset
    <2>4. /\ Cardinality(new) \in Nat /\ Cardinality(old) \in Nat
          /\ Cardinality(LoginClients) \in Nat
      BY GuessesCounted
    <2>5. failures[v] + Cardinality(old) < LockoutAfter + Cardinality(LoginClients)
      BY <2>1 DEF LockoutHolds
    <2> QED BY <1>0, <1>1, <2>2, <2>3, <2>4, <2>5
  <1>2. ASSUME NEW c \in LoginClients, NEW r,
               r \notin [op : {"guess"}, user : Accounts],
               loginReq' = [loginReq EXCEPT ![c] = r],
               \A v \in Accounts : failures'[v] \in Nat /\ failures'[v] <= failures[v]
        PROVE  LockoutHolds'
    <2>1. \A v \in Accounts : Guesses(v)' \subseteq Guesses(v)
      <3> SUFFICES ASSUME NEW v \in Accounts, NEW d \in LoginClients,
                          loginReq'[d] = [op |-> "guess", user |-> v]
                   PROVE  loginReq[d] = [op |-> "guess", user |-> v]
        BY DEF Guesses
      <3>1. loginReq \in [LoginClients -> LoginRequests]
        BY DEF PasswordsInv
      <3>2. [op |-> "guess", user |-> v] \in [op : {"guess"}, user : Accounts]
        OBVIOUS
      <3> QED BY <1>2, <3>1, <3>2
    <2> QED BY <1>1, <1>2, <2>1
  <1>3. LoginIdle \notin [op : {"guess"}, user : Accounts]
    BY DEF LoginIdle
  <1>4. ASSUME NEW c \in LoginClients, CommitGuess(c)
        PROVE  LockoutHolds'
    <2> DEFINE u == loginReq[c].user
    <2>1. loginReq[c] \in [op : {"guess"}, user : Accounts]
      BY <1>4 DEF CommitGuess, PasswordsInv, LoginRequests, LoginIdle
    <2>2. u \in Accounts /\ loginReq[c] = [op |-> "guess", user |-> u]
      BY <2>1
    <2>3. /\ failures' = [failures EXCEPT ![u] = @ + 1]
          /\ loginReq' = [loginReq EXCEPT ![c] = LoginIdle]
      BY <1>4 DEF CommitGuess, Finish
    <2> SUFFICES ASSUME NEW v \in Accounts
                 PROVE  failures'[v] + Cardinality(Guesses(v)')
                          < LockoutAfter + Cardinality(LoginClients)
      BY DEF LockoutHolds
    <2>4. PICK old \in SUBSET LoginClients : old = Guesses(v)
      BY DEF Guesses
    <2>5. Guesses(v)' = old \ {c}
      <3>1. loginReq \in [LoginClients -> LoginRequests]
        BY DEF PasswordsInv
      <3>2. \A d \in LoginClients : (loginReq'[d] = [op |-> "guess", user |-> v])
              = (d # c /\ loginReq[d] = [op |-> "guess", user |-> v])
        BY <2>3, <3>1, <1>3
      <3> QED BY <2>4, <3>2 DEF Guesses
    <2>6. failures[v] + Cardinality(old) < LockoutAfter + Cardinality(LoginClients)
      BY <2>4 DEF LockoutHolds
    <2>7. /\ IsFiniteSet(old) /\ Cardinality(old) \in Nat
          /\ Cardinality(LoginClients) \in Nat
      BY GuessesCounted
    <2>8. /\ c \in old => Cardinality(old \ {c}) = Cardinality(old) - 1
          /\ c \notin old => Cardinality(old \ {c}) = Cardinality(old)
      <3>1. c \notin old => old \ {c} = old
        OBVIOUS
      <3> QED BY <2>7, <3>1, FS_RemoveElement
    <2>9. v = u => c \in old
      BY <2>2, <2>4 DEF Guesses
    <2>10. failures'[v] = IF v = u THEN failures[v] + 1 ELSE failures[v]
      BY <1>0, <2>3
    <2>11. /\ Cardinality(old \ {c}) <= Cardinality(old)
           /\ v = u => Cardinality(old \ {c}) = Cardinality(old) - 1
           /\ Cardinality(old \ {c}) \in Int
      BY <2>7, <2>8, <2>9
    <2>12. failures'[v] + Cardinality(old \ {c}) < LockoutAfter + Cardinality(LoginClients)
      <3> HIDE DEF u
      <3> QED BY <1>0, <2>6, <2>7, <2>10, <2>11
    <2> QED BY <2>5, <2>12
  <1>5. ASSUME NEW c \in LoginClients, NEW u \in Accounts, BeginGuess(c, u)
        PROVE  LockoutHolds'
    <2>1. /\ failures[u] < LockoutAfter
          /\ loginReq' = [loginReq EXCEPT ![c] = [op |-> "guess", user |-> u]]
          /\ UNCHANGED failures
      BY <1>0, <1>5 DEF BeginGuess, LockedOut, Start
    <2> SUFFICES ASSUME NEW v \in Accounts
                 PROVE  failures'[v] + Cardinality(Guesses(v)')
                          < LockoutAfter + Cardinality(LoginClients)
      BY DEF LockoutHolds
    <2>2. PICK new \in SUBSET LoginClients : new = Guesses(v)'
      BY DEF Guesses
    <2>3. Cardinality(new) \in Nat /\ Cardinality(LoginClients) \in Nat
          /\ Cardinality(new) <= Cardinality(LoginClients)
      BY GuessesCounted
    <2>4. CASE v = u
      BY <1>0, <2>1, <2>2, <2>3, <2>4
    <2>5. CASE v # u
      <3>1. PICK old \in SUBSET LoginClients : old = Guesses(v)
        BY DEF Guesses
      <3>2. new \subseteq old
        <4>1. loginReq \in [LoginClients -> LoginRequests]
          BY DEF PasswordsInv
        <4>2. [op |-> "guess", user |-> v] # [op |-> "guess", user |-> u]
          BY <2>5
        <4> QED BY <2>1, <2>2, <3>1, <4>1, <4>2 DEF Guesses
      <3>3. Cardinality(new) <= Cardinality(old) /\ Cardinality(old) \in Nat
        BY <3>2, GuessesCounted, FS_Subset
      <3>4. failures[v] + Cardinality(old) < LockoutAfter + Cardinality(LoginClients)
        BY <3>1 DEF LockoutHolds
      <3> QED BY <1>0, <2>1, <2>2, <2>3, <3>3, <3>4
    <2> QED BY <2>4, <2>5
  <1>6. ASSUME NEW c \in LoginClients, NEW u \in Accounts,
               BeginLogin(c, u) \/ BeginReset(c, u) \/ BeginChangePassword(c, u)
        PROVE  LockoutHolds'
    <2>1. PICK r : /\ r \notin [op : {"guess"}, user : Accounts]
                   /\ loginReq' = [loginReq EXCEPT ![c] = r]
      BY <1>6 DEF BeginLogin, BeginReset, BeginChangePassword, Start
    <2>2. UNCHANGED failures
      BY <1>6 DEF BeginLogin, BeginReset, BeginChangePassword, Start
    <2>3. \A v \in Accounts : failures'[v] \in Nat /\ failures'[v] <= failures[v]
      BY <1>0, <2>2
    <2> QED BY <1>2, <2>1, <2>3
  <1>7. ASSUME NEW c \in LoginClients,
               CommitLogin(c) \/ CommitReset(c) \/ CommitChangePassword(c)
        PROVE  LockoutHolds'
    <2>1. loginReq' = [loginReq EXCEPT ![c] = LoginIdle]
      BY <1>7 DEF CommitLogin, CommitReset, CommitChangePassword, Finish
    <2>2. \/ UNCHANGED failures
          \/ \E u : failures' = [failures EXCEPT ![u] = 0]
      BY <1>7 DEF CommitLogin, CommitReset, CommitChangePassword
    <2>3. \A v \in Accounts : failures'[v] \in Nat /\ failures'[v] <= failures[v]
      BY <1>0, <2>2
    <2> QED BY <1>2, <1>3, <2>1, <2>3
  <1>8. ASSUME UNCHANGED loginReq,
               \A v \in Accounts : failures'[v] \in Nat /\ failures'[v] <= failures[v]
        PROVE  LockoutHolds'
    BY <1>1, <1>8 DEF Guesses
  <1>9. ASSUME NEW u \in Accounts,
               \/ ForgetFailure(u) \/ SessionEnds(u) \/ CooldownOver(u) \/ LinkExpires(u)
               \/ \E sent \in BOOLEAN : ForgotPassword(u, sent)
        PROVE  LockoutHolds'
    <2>1. UNCHANGED loginReq
      BY <1>9 DEF ForgetFailure, SessionEnds, CooldownOver, LinkExpires, ForgotPassword
    <2>2. \/ UNCHANGED failures
          \/ failures[u] > 0 /\ failures' = [failures EXCEPT ![u] = @ - 1]
      BY <1>9 DEF ForgetFailure, SessionEnds, CooldownOver, LinkExpires, ForgotPassword
    <2> QED BY <1>0, <1>8, <2>1, <2>2
  <1>10. CASE UNCHANGED passwordVars
    BY <1>0, <1>8, <1>10 DEF passwordVars
  <1> QED
    BY <1>4, <1>5, <1>6, <1>7, <1>9, <1>10 DEF PasswordsNext

\* The lockout of login and reauth (routers/auth.py) bounds the guesses against a name by
\* its limit and the requests that may run at once, although the check and the count are
\* two steps with a slow one between them.
THEOREM LockoutBoundsGuesses == PasswordsSpec => []LockoutHolds
  <1>1. PasswordsInit => LockoutHolds
    <2> SUFFICES ASSUME PasswordsInit, NEW u \in Accounts
                 PROVE  failures[u] + Cardinality(Guesses(u))
                          < LockoutAfter + Cardinality(LoginClients)
      BY DEF LockoutHolds
    <2>1. PICK G \in SUBSET LoginClients : G = Guesses(u)
      BY DEF Guesses
    <2>2. LockoutAfter \in Nat \ {0} /\ failures[u] = 0
      BY PasswordsAssumption DEF PasswordsAssumption, PasswordsInit
    <2> QED BY <2>1, <2>2, GuessesCounted
  <1>2. PasswordsInv /\ LockoutHolds /\ [PasswordsNext]_passwordVars => LockoutHolds'
    BY LockoutKept
  <1> QED BY <1>1, <1>2, PasswordsInvariant, PTL DEF PasswordsSpec

-----------------------------------------------------------------------------
(* Sign-in: the inductive invariant *)

Identity == [attempt : Attempts, id : SteamIds]
Callback ==
  [op : {"seen", "used", "recorded", "verified"}, tab : Tabs, answer : Identity,
   purpose : Purposes, user : Site \cup {Nil}]
SignupRequest == [op : {"signup"}, tab : Tabs, answer : Begun \cup Identity]

\* The tables; who has a Steam id is registered.
SignTables ==
  /\ registered \in SUBSET Site /\ WithPassword \subseteq registered
  /\ steamOf \in [Site -> SteamIds \cup {Nil}]
  /\ signedIn \in [Tabs -> registered \cup {Nil}]
  /\ attempt \in [Attempts ->
       {NoAttempt} \cup [purpose : Purposes, user : Site \cup {Nil}, used : BOOLEAN]]
  /\ stateCookie \in [Tabs -> Attempts \cup {Nil}]
  /\ answers \in SUBSET [attempt : Attempts, id : SteamIds, fresh : BOOLEAN]
  /\ nonces \in SUBSET Identity
  /\ signups \in SUBSET (Begun \cup Identity)
  /\ signReq \in [SignClients -> {SignIdle} \cup Callback \cup SignupRequest]
  /\ accepted \in SUBSET (Identity \X {1})

\* The unique column.
SteamIdsDiffer ==
  \A u, v \in Site : steamOf[u] = steamOf[v] /\ steamOf[u] # Nil => u = v

SteamRegistered == \A u \in Site : steamOf[u] # Nil => u \in registered

\* A provider has answered so, and answers are never forgotten.
Answered(x) == \E y \in answers : y.attempt = x.attempt /\ y.id = x.id

\* No callback can record this answer again, now or later.
Spent(x) ==
  /\ Answered(x)
  /\ x \in nonces \/ \A y \in answers : y.attempt = x.attempt /\ y.id = x.id => ~y.fresh

Recorded(r) == signReq[r].op = "recorded"

CallbacksAnswered ==
  \A r \in SignClients : signReq[r] \in Callback => Answered(signReq[r].answer)

RecordedOnce ==
  \A r \in SignClients : Recorded(r) =>
    /\ Spent(signReq[r].answer)
    /\ \A p \in accepted : p[1] # signReq[r].answer
    /\ \A s \in SignClients : Recorded(s) /\ signReq[s].answer = signReq[r].answer => s = r

\* Before an answer counts one callback records it, and no other can.
AnswersOK ==
  /\ CallbacksAnswered /\ RecordedOnce /\ \A p \in accepted : Spent(p[1])

SignInv ==
  /\ SignTables /\ SteamIdsDiffer /\ SteamRegistered /\ EveryoneCanSignIn
  /\ AnswersOK

-----------------------------------------------------------------------------
(* Sign-in: the steps *)

\* Requests of either kind tell each other apart by their op.
LEMMA RequestKinds ==
  ASSUME SignInv, NEW r \in SignClients
  PROVE  /\ signReq[r].op \in {"seen", "used", "recorded", "verified"} <=> signReq[r] \in Callback
         /\ signReq[r].op = "signup" <=> signReq[r] \in SignupRequest
  BY DEF SignInv, SignTables, Callback, SignupRequest, SignIdle

\* A browser's other steps.
LEMMA TabKept ==
  ASSUME SignInv, NEW b \in Tabs, TabStep(b)
  PROVE  SignInv'
  <1> USE SignInAssumption DEF SignInAssumption
  <1>1. CASE Unlink(b)
    <2> DEFINE u == signedIn[b]
    <2>1. u \in registered /\ u \in Site /\ u \in WithPassword
      BY <1>1 DEF Unlink, MayUnlink, SignInv, SignTables
    <2>2. steamOf' = [steamOf EXCEPT ![u] = Nil]
      BY <1>1 DEF Unlink
    <2>3. UNCHANGED <<registered, signedIn, signups, attempt, stateCookie, answers, nonces,
                      signReq, accepted>>
      BY <1>1 DEF Unlink
    <2> HIDE DEF u
    <2>4. SignTables'
      BY <2>1, <2>2, <2>3 DEF SignInv, SignTables
    <2>5. SteamIdsDiffer' /\ SteamRegistered'
      BY <2>1, <2>2, <2>3 DEF SignInv, SignTables, SteamIdsDiffer, SteamRegistered
    <2>6. EveryoneCanSignIn'
      BY <2>1, <2>2, <2>3 DEF SignInv, SignTables, EveryoneCanSignIn
    <2>7. AnswersOK'
      BY <2>3 DEF SignInv, AnswersOK, CallbacksAnswered,
         RecordedOnce, Answered, Spent, Recorded
    <2> QED BY <2>4, <2>5, <2>6, <2>7 DEF SignInv
  <1>2. ASSUME UNCHANGED <<registered, steamOf, signups, attempt, stateCookie, answers, nonces,
                           signReq, accepted>>,
               NEW u \in registered \cup {Nil}, signedIn' = [signedIn EXCEPT ![b] = u]
        PROVE  SignInv'
    BY <1>2 DEF SignInv, SignTables, SteamIdsDiffer, SteamRegistered, EveryoneCanSignIn,
                AnswersOK, CallbacksAnswered,
         RecordedOnce, Answered, Spent, Recorded
  <1>3. CASE SignOut(b)
    BY <1>2, <1>3 DEF SignOut
  <1>4. CASE \E u \in Site : PasswordLogin(b, u)
    BY <1>2, <1>4 DEF PasswordLogin, SignInv, SignTables
  <1>5. ASSUME NEW a \in Attempts, NEW purpose \in Purposes, StartAttempt(b, a, purpose)
        PROVE  SignInv'
    <2>1. UNCHANGED <<accountVars, answers, nonces, signReq, accepted>>
          /\ stateCookie' = [stateCookie EXCEPT ![b] = a]
      BY <1>5 DEF StartAttempt
    <2>2. signedIn[b] \in Site \cup {Nil} /\ Nil \in Site \cup {Nil}
      BY DEF SignInv, SignTables
    <2>3. {x \in Attempts : /\ attempt[x] # NoAttempt /\ ~attempt[x].used
                            /\ attempt[x].user = (IF purpose = "login" THEN Nil ELSE signedIn[b])
                            /\ (IF purpose = "login" THEN Nil ELSE signedIn[b]) # Nil}
            \in SUBSET Attempts
      OBVIOUS
    <2>4. PICK u \in Site \cup {Nil}, dropped \in SUBSET Attempts :
            attempt' = [x \in Attempts |->
              CASE x = a -> [purpose |-> purpose, user |-> u, used |-> FALSE]
                [] x \in dropped -> NoAttempt
                [] OTHER -> attempt[x]]
      BY <1>5, <2>2, <2>3, Zenon DEF StartAttempt
    <2>5. attempt' \in [Attempts ->
            {NoAttempt} \cup [purpose : Purposes, user : Site \cup {Nil}, used : BOOLEAN]]
      BY <2>4 DEF SignInv, SignTables
    <2> QED
      BY <2>1, <2>5 DEF SignInv, SignTables, accountVars, SteamIdsDiffer, SteamRegistered,
         EveryoneCanSignIn, AnswersOK, CallbacksAnswered,
         RecordedOnce, Answered, Spent, Recorded
  <1> QED BY <1>1, <1>3, <1>4, <1>5 DEF TabStep

\* A request that ends or goes on without recording its answer leaves the rest as it is.
LEMMA RequestKept ==
  ASSUME SignInv, NEW r \in SignClients,
         NEW q \in {SignIdle} \cup Callback \cup SignupRequest,
         signReq' = [signReq EXCEPT ![r] = q],
         q.op # "recorded", q \in Callback => Answered(q.answer),
         UNCHANGED <<answers, nonces, accepted>>
  PROVE  /\ AnswersOK'
         /\ signReq' \in [SignClients -> {SignIdle} \cup Callback \cup SignupRequest]
  <1>1. signReq' \in [SignClients -> {SignIdle} \cup Callback \cup SignupRequest]
    BY DEF SignInv, SignTables
  <1>2. \A s \in SignClients : signReq'[s] = IF s = r THEN q ELSE signReq[s]
    BY DEF SignInv, SignTables
  <1>3. \A s \in SignClients : Recorded(s)' => s # r /\ Recorded(s) /\ signReq'[s] = signReq[s]
    BY <1>2 DEF Recorded
  <1>4. CallbacksAnswered'
    BY <1>2 DEF SignInv, AnswersOK, CallbacksAnswered, Answered
  <1>5. RecordedOnce'
    BY <1>3 DEF SignInv, AnswersOK, RecordedOnce, Spent, Answered
  <1>6. (\A p \in accepted : Spent(p[1]))'
    BY DEF SignInv, AnswersOK, Spent, Answered
  <1> QED BY <1>1, <1>4, <1>5, <1>6 DEF AnswersOK

\* The steps that begin a request.
LEMMA BeginKept ==
  ASSUME SignInv, NEW r \in SignClients, NEW b \in Tabs,
         \/ \E x \in answers : CallbackBegins(r, b, x)
         \/ \E x \in signups : BeginSignup(r, b, x)
  PROVE  SignInv'
  <1>1. PICK q \in Callback \cup SignupRequest :
          /\ signReq' = [signReq EXCEPT ![r] = q]
          /\ q.op # "recorded"
          /\ q \in Callback => Answered(q.answer)
    <2>1. ASSUME NEW x \in answers, CallbackBegins(r, b, x)
          PROVE  \E q \in Callback \cup SignupRequest :
                   /\ signReq' = [signReq EXCEPT ![r] = q]
                   /\ q.op # "recorded"
                   /\ q \in Callback => Answered(q.answer)
      <3> DEFINE a == x.attempt
                 q == [op |-> "seen", tab |-> b, answer |-> [attempt |-> a, id |-> x.id],
                       purpose |-> attempt[a].purpose, user |-> attempt[a].user]
      <3>1. signReq' = [signReq EXCEPT ![r] = q] /\ attempt[a] # NoAttempt
        BY <2>1 DEF CallbackBegins
      <3>2. x \in [attempt : Attempts, id : SteamIds, fresh : BOOLEAN]
        BY DEF SignInv, SignTables
      <3>3. attempt[a] \in [purpose : Purposes, user : Site \cup {Nil}, used : BOOLEAN]
        BY <3>1, <3>2 DEF SignInv, SignTables
      <3>4. q \in Callback /\ q.op # "recorded"
        BY <3>2, <3>3 DEF Callback, Identity
      <3>5. Answered(q.answer)
        BY DEF Answered
      <3> HIDE DEF q
      <3> QED BY <3>1, <3>4, <3>5
    <2>2. ASSUME NEW x \in signups, BeginSignup(r, b, x)
          PROVE  \E q \in Callback \cup SignupRequest :
                   /\ signReq' = [signReq EXCEPT ![r] = q]
                   /\ q.op # "recorded"
                   /\ q \in Callback => Answered(q.answer)
      <3> DEFINE q == [op |-> "signup", tab |-> b, answer |-> x]
      <3>1. signReq' = [signReq EXCEPT ![r] = q]
        BY <2>2 DEF BeginSignup
      <3>2. q \in SignupRequest /\ q.op # "recorded"
        BY DEF SignInv, SignTables, SignupRequest
      <3>3. q \notin Callback
        BY DEF Callback
      <3> HIDE DEF q
      <3> QED BY <3>1, <3>2, <3>3
    <2> QED BY <2>1, <2>2
  <1>2. UNCHANGED <<accountVars, attempt, stateCookie, answers, nonces, accepted>>
    BY DEF CallbackBegins, BeginSignup
  <1>3. /\ AnswersOK'
        /\ signReq' \in [SignClients -> {SignIdle} \cup Callback \cup SignupRequest]
    BY <1>1, <1>2, RequestKept
  <1> QED
    BY <1>2, <1>3 DEF SignInv, SignTables, accountVars, SteamIdsDiffer, SteamRegistered,
       EveryoneCanSignIn

\* A callback goes on, ends, or leaves its place to none.
LEMMA CallbackMoves ==
  ASSUME SignInv, NEW r \in SignClients, NEW op \in {"used", "recorded", "verified"},
         signReq[r] \in Callback
  PROVE  /\ [signReq[r] EXCEPT !.op = op] \in Callback
         /\ [signReq[r] EXCEPT !.op = op].op = op
         /\ [signReq[r] EXCEPT !.op = op].answer = signReq[r].answer
         /\ Answered(signReq[r].answer) /\ signReq[r].answer \in Identity
         /\ signReq[r].tab \in Tabs
  BY DEF SignInv, AnswersOK, CallbacksAnswered, Callback

\* A client that is done leaves the attempts sound and what other clients hold.
LEMMA IdleKept ==
  ASSUME SignInv, NEW r \in SignClients, Done(r), UNCHANGED <<answers, nonces, accepted>>
  PROVE  /\ AnswersOK'
         /\ signReq' \in [SignClients -> {SignIdle} \cup Callback \cup SignupRequest]
  <1>1. SignIdle.op # "recorded" /\ SignIdle \notin Callback
    BY DEF SignIdle, Callback
  <1> QED BY <1>1, RequestKept DEF Done

\* The commit that uses an attempt up, or finds its row gone.
LEMMA UseUpKept ==
  ASSUME SignInv, NEW r \in SignClients, UseUp(r)
  PROVE  SignInv'
  <1> DEFINE a == signReq[r].answer.attempt
  <1>1. /\ signReq[r] \in Callback
        /\ UNCHANGED <<accountVars, stateCookie, answers, nonces, accepted>>
    BY RequestKinds DEF UseUp
  <1>2. \/ /\ attempt[a] # NoAttempt
           /\ attempt' = [attempt EXCEPT ![a] = [attempt[a] EXCEPT !.used = TRUE]]
           /\ signReq' = [signReq EXCEPT ![r] = [signReq[r] EXCEPT !.op = "used"]]
        \/ Done(r) /\ UNCHANGED attempt
    BY DEF UseUp
  <1>3. attempt' \in [Attempts ->
          {NoAttempt} \cup [purpose : Purposes, user : Site \cup {Nil}, used : BOOLEAN]]
    <2>1. CASE UNCHANGED attempt
      BY <2>1 DEF SignInv, SignTables
    <2>2. CASE /\ attempt[a] # NoAttempt
               /\ attempt' = [attempt EXCEPT ![a] = [attempt[a] EXCEPT !.used = TRUE]]
      <3>1. a \in Attempts
        BY <1>1, CallbackMoves DEF Identity
      <3>2. attempt[a] \in [purpose : Purposes, user : Site \cup {Nil}, used : BOOLEAN]
        BY <2>2, <3>1 DEF SignInv, SignTables
      <3> HIDE DEF a
      <3> QED BY <2>2, <3>1, <3>2 DEF SignInv, SignTables
    <2> QED BY <1>2, <2>1, <2>2
  <1>4. /\ AnswersOK'
        /\ signReq' \in [SignClients -> {SignIdle} \cup Callback \cup SignupRequest]
    <2>1. CASE Done(r)
      BY <1>1, <2>1, IdleKept
    <2>2. CASE signReq' = [signReq EXCEPT ![r] = [signReq[r] EXCEPT !.op = "used"]]
      <3>1. PICK q : q = [signReq[r] EXCEPT !.op = "used"]
        OBVIOUS
      <3>2. q \in Callback /\ q.op = "used" /\ Answered(q.answer)
        BY <1>1, <3>1, CallbackMoves
      <3> QED BY <1>1, <2>2, <3>1, <3>2, RequestKept
    <2> QED BY <1>2, <2>1, <2>2
  <1> QED
    BY <1>1, <1>3, <1>4 DEF SignInv, SignTables, accountVars, SteamIdsDiffer, SteamRegistered,
       EveryoneCanSignIn

\* The nonce is free: nobody recorded this answer, or it would not be fresh.
LEMMA RecordNonceKept ==
  ASSUME SignInv, NEW r \in SignClients, RecordNonce(r)
  PROVE  SignInv'
  <1> DEFINE x == signReq[r].answer
  <1>1. /\ signReq[r] \in Callback
        /\ UNCHANGED <<accountVars, attempt, stateCookie, answers, accepted>>
    BY RequestKinds DEF RecordNonce
  <1>2. SUFFICES /\ AnswersOK' /\ nonces' \in SUBSET Identity
                 /\ signReq' \in [SignClients -> {SignIdle} \cup Callback \cup SignupRequest]
    BY <1>1 DEF SignInv, SignTables, accountVars, SteamIdsDiffer, SteamRegistered,
       EveryoneCanSignIn
  <1>3. CASE Done(r) /\ UNCHANGED nonces
    BY <1>1, <1>3, IdleKept DEF SignInv, SignTables
  <1>4. CASE /\ NonceFree(x) /\ nonces' = nonces \cup {x}
             /\ signReq' = [signReq EXCEPT ![r].op = "recorded"]
    <2>1. PICK q : q = [signReq[r] EXCEPT !.op = "recorded"]
      OBVIOUS
    <2>2. /\ q \in Callback /\ q.op = "recorded" /\ q.answer = x
          /\ Answered(x) /\ x \in Identity
      BY <1>1, <2>1, CallbackMoves
    <2>3. /\ signReq' \in [SignClients -> {SignIdle} \cup Callback \cup SignupRequest]
          /\ \A s \in SignClients : signReq'[s] = IF s = r THEN q ELSE signReq[s]
      BY <1>4, <2>1, <2>2 DEF SignInv, SignTables
    <2>4. ~Spent(x)
      BY <1>4 DEF NonceFree, Spent
    <2>5. /\ \A p \in accepted : p[1] # x
          /\ \A s \in SignClients : Recorded(s) => signReq[s].answer # x
      BY <2>4 DEF SignInv, AnswersOK, RecordedOnce
    <2> HIDE DEF x
    <2>6. CallbacksAnswered'
      BY <1>1, <2>2, <2>3 DEF SignInv, AnswersOK, CallbacksAnswered, Answered
    <2>7. (\A p \in accepted : Spent(p[1]))'
      BY <1>1, <1>4 DEF SignInv, AnswersOK, Spent, Answered
    <2>8. RecordedOnce'
      <3> SUFFICES ASSUME NEW s \in SignClients, Recorded(s)'
                   PROVE  (/\ Spent(signReq[s].answer)
                           /\ \A p \in accepted : p[1] # signReq[s].answer
                           /\ \A t \in SignClients :
                                Recorded(t) /\ signReq[t].answer = signReq[s].answer => t = s)'
        BY DEF RecordedOnce
      <3>1. CASE s = r
        <4>1. signReq'[s].answer = x
          BY <2>2, <2>3, <3>1
        <4>2. Spent(signReq[s].answer)'
          BY <1>1, <1>4, <2>2, <4>1 DEF Spent, Answered
        <4>3. (\A p \in accepted : p[1] # signReq[s].answer)'
          BY <1>1, <2>5, <4>1
        <4>4. \A t \in SignClients :
                 Recorded(t)' /\ signReq'[t].answer = signReq'[s].answer => t = s
          BY <2>3, <2>5, <3>1, <4>1 DEF Recorded
        <4> QED BY <4>2, <4>3, <4>4
      <3>2. CASE s # r
        <4>1. Recorded(s) /\ signReq'[s] = signReq[s]
          BY <2>3, <3>2 DEF Recorded
        <4>2. Spent(signReq[s].answer)'
          BY <1>1, <1>4, <4>1 DEF SignInv, AnswersOK, RecordedOnce, Spent, Answered
        <4>3. (\A p \in accepted : p[1] # signReq[s].answer)'
          BY <1>1, <4>1 DEF SignInv, AnswersOK, RecordedOnce
        <4>4. \A t \in SignClients :
                 Recorded(t)' /\ signReq'[t].answer = signReq'[s].answer => t = s
          BY <2>2, <2>3, <2>5, <4>1 DEF SignInv, AnswersOK, RecordedOnce, Recorded
        <4> QED BY <4>2, <4>3, <4>4
      <3> QED BY <3>1, <3>2
    <2>9. nonces' \in SUBSET Identity
      BY <1>4, <2>2 DEF SignInv, SignTables
    <2> QED BY <2>3, <2>6, <2>7, <2>8, <2>9 DEF AnswersOK
  <1> QED BY <1>3, <1>4 DEF RecordNonce

\* Only the callback that recorded an answer has it confirmed, and then no longer.
LEMMA ConfirmedKept ==
  ASSUME SignInv, NEW r \in SignClients, NEW confirmed \in BOOLEAN,
         CheckAuthentication(r, confirmed)
  PROVE  SignInv'
  <1> DEFINE x == signReq[r].answer
  <1>1. /\ signReq[r] \in Callback /\ Recorded(r)
        /\ UNCHANGED <<accountVars, attempt, stateCookie, answers, nonces>>
    BY RequestKinds DEF CheckAuthentication, Recorded
  <1>2. SUFFICES /\ AnswersOK' /\ accepted' \in SUBSET (Identity \X {1})
                 /\ signReq' \in [SignClients -> {SignIdle} \cup Callback \cup SignupRequest]
    BY <1>1 DEF SignInv, SignTables, accountVars, SteamIdsDiffer, SteamRegistered,
       EveryoneCanSignIn
  <1>3. CASE Done(r) /\ UNCHANGED accepted
    BY <1>1, <1>3, IdleKept DEF SignInv, SignTables
  <1>4. CASE /\ signReq' = [signReq EXCEPT ![r].op = "verified"]
             /\ accepted' = accepted \cup {<<x, TimesAccepted(x) + 1>>}
    <2>1. PICK q : q = [signReq[r] EXCEPT !.op = "verified"]
      OBVIOUS
    <2>2. /\ q \in Callback /\ q.op = "verified" /\ q.answer = x
          /\ Answered(x) /\ x \in Identity
      BY <1>1, <2>1, CallbackMoves
    <2>3. /\ signReq' \in [SignClients -> {SignIdle} \cup Callback \cup SignupRequest]
          /\ \A s \in SignClients : signReq'[s] = IF s = r THEN q ELSE signReq[s]
      BY <1>4, <2>1, <2>2 DEF SignInv, SignTables
    <2>4. /\ Spent(x) /\ \A p \in accepted : p[1] # x
          /\ \A s \in SignClients : Recorded(s) /\ signReq[s].answer = x => s = r
      BY <1>1 DEF SignInv, AnswersOK, RecordedOnce
    <2>5. TimesAccepted(x) = 0
      <3>1. {p \in accepted : p[1] = x} = {}
        BY <2>4
      <3> QED BY <3>1, FS_EmptySet DEF TimesAccepted
    <2>6. accepted' = accepted \cup {<<x, 1>>}
      BY <1>4, <2>5
    <2>7. accepted' \in SUBSET (Identity \X {1})
      BY <2>2, <2>6 DEF SignInv, SignTables
    <2> HIDE DEF x
    <2>8. CallbacksAnswered'
      BY <1>1, <2>2, <2>3 DEF SignInv, AnswersOK, CallbacksAnswered, Answered
    <2>9. (\A p \in accepted : Spent(p[1]))'
      <3>1. \A p \in accepted' : p \in accepted \/ p[1] = x
        BY <2>6
      <3> QED BY <1>1, <2>4, <3>1 DEF SignInv, AnswersOK, Spent, Answered
    <2>10. RecordedOnce'
      <3> SUFFICES ASSUME NEW s \in SignClients, Recorded(s)'
                   PROVE  (/\ Spent(signReq[s].answer)
                           /\ \A p \in accepted : p[1] # signReq[s].answer
                           /\ \A t \in SignClients :
                                Recorded(t) /\ signReq[t].answer = signReq[s].answer => t = s)'
        BY DEF RecordedOnce
      <3>1. s # r /\ Recorded(s) /\ signReq'[s] = signReq[s]
        BY <2>2, <2>3 DEF Recorded
      <3>2. signReq[s].answer # x
        BY <2>4, <3>1
      <3>3. Spent(signReq[s].answer)'
        BY <1>1, <3>1 DEF SignInv, AnswersOK, RecordedOnce, Spent, Answered
      <3>4. (\A p \in accepted : p[1] # signReq[s].answer)'
        BY <2>6, <3>1, <3>2 DEF SignInv, AnswersOK, RecordedOnce
      <3>5. \A t \in SignClients :
               Recorded(t)' /\ signReq'[t].answer = signReq'[s].answer => t = s
        BY <2>2, <2>3, <3>1 DEF SignInv, AnswersOK, RecordedOnce, Recorded
      <3> QED BY <3>3, <3>4, <3>5
    <2> QED BY <2>3, <2>7, <2>8, <2>9, <2>10 DEF AnswersOK
  <1> QED BY <1>3, <1>4 DEF CheckAuthentication

\* A callback that is through signs in, links or hands over, and ends.
LEMMA VerifiedKept ==
  ASSUME SignInv, NEW r \in SignClients, LogIn(r) \/ Link(r) \/ HandOver(r)
  PROVE  SignInv'
  <1> USE SignInAssumption DEF SignInAssumption
  <1> DEFINE q == signReq[r]
             x == q.answer
  <1>1. q \in Callback /\ x \in Identity /\ q.tab \in Tabs
    BY RequestKinds, CallbackMoves DEF LogIn, Link, HandOver
  <1>2. /\ Done(r)
        /\ UNCHANGED <<registered, attempt, stateCookie, answers, nonces, accepted>>
    BY DEF LogIn, Link, HandOver, accountVars
  <1>3. /\ AnswersOK'
        /\ signReq' \in [SignClients -> {SignIdle} \cup Callback \cup SignupRequest]
    BY <1>2, IdleKept
  <1>4. SUFFICES /\ steamOf' \in [Site -> SteamIds \cup {Nil}]
                 /\ signedIn' \in [Tabs -> registered \cup {Nil}]
                 /\ signups' \in SUBSET (Begun \cup Identity)
                 /\ SteamIdsDiffer' /\ SteamRegistered' /\ EveryoneCanSignIn'
    BY <1>2, <1>3 DEF SignInv, SignTables
  <1>5. ASSUME UNCHANGED steamOf
        PROVE  SteamIdsDiffer' /\ SteamRegistered' /\ EveryoneCanSignIn'
               /\ steamOf' \in [Site -> SteamIds \cup {Nil}]
    BY <1>2, <1>5 DEF SignInv, SignTables, SteamIdsDiffer, SteamRegistered, EveryoneCanSignIn
  <1>6. CASE LogIn(r)
    <2>1. UNCHANGED steamOf
      BY <1>6 DEF LogIn
    <2>2. \/ /\ \E u \in Holder(x.id) : signedIn' = [signedIn EXCEPT ![q.tab] = u]
             /\ UNCHANGED signups
          \/ /\ signups' = signups \cup {x}
             /\ UNCHANGED signedIn
      BY <1>6 DEF LogIn
    <2>3. Holder(x.id) \subseteq registered
      BY <1>1 DEF Holder, Identity, SignInv, SteamRegistered
    <2> HIDE DEF q, x
    <2>4. signedIn' \in [Tabs -> registered \cup {Nil}]
      BY <2>2, <2>3 DEF SignInv, SignTables
    <2>5. signups' \in SUBSET (Begun \cup Identity)
      BY <1>1, <2>2 DEF SignInv, SignTables
    <2> QED BY <1>5, <2>1, <2>4, <2>5
  <1>7. CASE Link(r)
    <2> DEFINE u == signedIn[q.tab]
    <2>1. UNCHANGED <<signedIn, signups>>
      BY <1>7 DEF Link
    <2>2. \/ UNCHANGED steamOf
          \/ /\ u # Nil /\ Holder(x.id) = {}
             /\ steamOf' = [steamOf EXCEPT ![u] = x.id]
      BY <1>7 DEF Link, SteamIdFree
    <2>3. u \in registered \cup {Nil} /\ x.id \in SteamIds
      BY <1>1 DEF SignInv, SignTables, Identity
    <2>4. CASE UNCHANGED steamOf
      BY <1>5, <2>1, <2>4 DEF SignInv, SignTables
    <2>5. CASE /\ u # Nil /\ Holder(x.id) = {}
               /\ steamOf' = [steamOf EXCEPT ![u] = x.id]
      <3>1. u \in registered /\ u \in Site /\ x.id # Nil
        BY <2>3, <2>5 DEF SignInv, SignTables
      <3>2. \A v \in Site : steamOf[v] # x.id
        BY <2>5 DEF Holder
      <3>3. \A v \in Site : steamOf'[v] = IF v = u THEN x.id ELSE steamOf[v]
        BY <2>5 DEF SignInv, SignTables
      <3> HIDE DEF u, x, q
      <3>4. steamOf' \in [Site -> SteamIds \cup {Nil}]
        BY <2>3, <2>5, <3>1 DEF SignInv, SignTables
      <3>5. SteamIdsDiffer'
        BY <3>2, <3>3 DEF SignInv, SteamIdsDiffer
      <3>6. SteamRegistered'
        BY <1>2, <3>1, <3>3 DEF SignInv, SteamRegistered
      <3>7. EveryoneCanSignIn'
        BY <1>2, <3>1, <3>3 DEF SignInv, SignTables, EveryoneCanSignIn
      <3> QED BY <2>1, <3>4, <3>5, <3>6, <3>7 DEF SignInv, SignTables
    <2> QED BY <2>2, <2>4, <2>5
  <1>8. CASE HandOver(r)
    <2>1. UNCHANGED accountVars
      BY <1>8 DEF HandOver
    <2> QED BY <1>5, <2>1 DEF accountVars, SignInv, SignTables
  <1> QED BY <1>6, <1>7, <1>8

\* A sign-up that gets its name registers an account nobody else's Steam id has.
LEMMA SignupKept ==
  ASSUME SignInv, NEW r \in SignClients, NEW u \in Site, CommitSignup(r, u)
  PROVE  SignInv'
  <1> USE SignInAssumption DEF SignInAssumption
  <1> DEFINE q == signReq[r]
             x == q.answer
  <1>1. q \in SignupRequest
    BY RequestKinds DEF CommitSignup
  <1>2. x.id \in SteamIds /\ x.id # Nil /\ q.tab \in Tabs
    BY <1>1 DEF SignupRequest, Identity
  <1>3. /\ Done(r) /\ u \notin registered
        /\ UNCHANGED <<attempt, stateCookie, answers, nonces, accepted>>
    BY DEF CommitSignup
  <1>4. /\ AnswersOK'
        /\ signReq' \in [SignClients -> {SignIdle} \cup Callback \cup SignupRequest]
    BY <1>3, IdleKept
  <1>5. signups' \in SUBSET (Begun \cup Identity)
    BY DEF CommitSignup, SignInv, SignTables
  <1>6. \/ UNCHANGED <<registered, steamOf, signedIn>>
        \/ /\ Holder(x.id) = {}
           /\ registered' = registered \cup {u}
           /\ steamOf' = [steamOf EXCEPT ![u] = x.id]
           /\ signedIn' = [signedIn EXCEPT ![q.tab] = u]
    BY DEF CommitSignup, SteamIdFree
  <1> HIDE DEF x, q
  <1>7. CASE UNCHANGED <<registered, steamOf, signedIn>>
    BY <1>3, <1>4, <1>5, <1>7 DEF SignInv, SignTables, SteamIdsDiffer, SteamRegistered,
                                  EveryoneCanSignIn
  <1>8. CASE /\ Holder(x.id) = {}
             /\ registered' = registered \cup {u}
             /\ steamOf' = [steamOf EXCEPT ![u] = x.id]
             /\ signedIn' = [signedIn EXCEPT ![q.tab] = u]
    <2>1. \A v \in Site : steamOf[v] # x.id
      BY <1>8 DEF Holder
    <2>2. \A v \in Site : steamOf'[v] = IF v = u THEN x.id ELSE steamOf[v]
      BY <1>8 DEF SignInv, SignTables
    <2>3. SteamIdsDiffer'
      BY <2>1, <2>2 DEF SignInv, SteamIdsDiffer
    <2>4. SteamRegistered'
      BY <1>8, <2>2 DEF SignInv, SteamRegistered
    <2>5. EveryoneCanSignIn'
      BY <1>2, <1>8, <2>2 DEF SignInv, SignTables, EveryoneCanSignIn
    <2>6. steamOf' \in [Site -> SteamIds \cup {Nil}] /\ registered' \in SUBSET Site
          /\ WithPassword \subseteq registered'
      BY <1>2, <1>8 DEF SignInv, SignTables
    <2>7. signedIn' \in [Tabs -> registered' \cup {Nil}]
      BY <1>2, <1>8 DEF SignInv, SignTables
    <2> QED BY <1>3, <1>4, <1>5, <2>3, <2>4, <2>5, <2>6, <2>7 DEF SignInv, SignTables
  <1> QED BY <1>6, <1>7, <1>8

\* Answers grow stale and nonces are cleaned up, but only of answers that are no longer
\* fresh.
LEMMA SignNextKept ==
  ASSUME SignInv, [SignNext]_signVars
  PROVE  SignInv'
  <1>1. ASSUME NEW a \in Attempts, NEW id \in SteamIds, Approve(a, id)
        PROVE  SignInv'
    <2>1. /\ UNCHANGED <<accountVars, attempt, stateCookie, nonces, signReq, accepted>>
          /\ answers' = answers \cup {[attempt |-> a, id |-> id, fresh |-> TRUE]}
          /\ ~\E x \in answers : x.attempt = a /\ x.id = id
      BY <1>1 DEF Approve
    <2>2. \A x : Answered(x) => Answered(x)'
      BY <2>1 DEF Answered
    <2>3. \A x : Spent(x) => Spent(x)'
      BY <2>1 DEF Spent, Answered
    <2>4. AnswersOK'
      <3>1. CallbacksAnswered'
        BY <2>1, <2>2 DEF SignInv, AnswersOK, CallbacksAnswered, Answered
      <3>2. RecordedOnce'
        BY <2>1, <2>3 DEF SignInv, AnswersOK, RecordedOnce, Recorded, Spent, Answered
      <3>3. (\A p \in accepted : Spent(p[1]))'
        BY <2>1, <2>3 DEF SignInv, AnswersOK, Spent, Answered
      <3> QED BY <3>1, <3>2, <3>3 DEF AnswersOK
    <2>5. answers' \in SUBSET [attempt : Attempts, id : SteamIds, fresh : BOOLEAN]
      <3>1. PICK y : y = [attempt |-> a, id |-> id, fresh |-> TRUE]
        OBVIOUS
      <3>2. y \in [attempt : Attempts, id : SteamIds, fresh : BOOLEAN]
        BY <3>1
      <3> QED BY <2>1, <3>1, <3>2 DEF SignInv, SignTables
    <2> QED
      BY <2>1, <2>4, <2>5 DEF SignInv, SignTables, accountVars, SteamIdsDiffer, SteamRegistered,
         EveryoneCanSignIn
  <1>2. ASSUME NEW x \in answers, GoStale(x)
        PROVE  SignInv'
    <2>1. /\ UNCHANGED <<accountVars, attempt, stateCookie, nonces, signReq, accepted>>
          /\ answers' = (answers \ {x}) \cup {[x EXCEPT !.fresh = FALSE]}
      BY <1>2 DEF GoStale
    <2>2. PICK y : y = [x EXCEPT !.fresh = FALSE]
      OBVIOUS
    <2>3. /\ y \in [attempt : Attempts, id : SteamIds, fresh : BOOLEAN]
          /\ y.attempt = x.attempt /\ y.id = x.id /\ ~y.fresh
      BY <2>2 DEF SignInv, SignTables
    <2>4. answers' = (answers \ {x}) \cup {y}
      BY <2>1, <2>2
    <2>5. \A z : Answered(z) => Answered(z)'
      BY <2>3, <2>4 DEF Answered
    <2>6. \A z : Spent(z) => Spent(z)'
      BY <2>1, <2>3, <2>4 DEF Spent, Answered
    <2>7. AnswersOK'
      <3>1. CallbacksAnswered'
        BY <2>1, <2>3, <2>4 DEF SignInv, AnswersOK, CallbacksAnswered, Answered
      <3>2. RecordedOnce'
        BY <2>1, <2>6 DEF SignInv, AnswersOK, RecordedOnce, Recorded
      <3>3. (\A p \in accepted : Spent(p[1]))'
        BY <2>1, <2>6 DEF SignInv, AnswersOK
      <3> QED BY <3>1, <3>2, <3>3 DEF AnswersOK
    <2>8. answers' \in SUBSET [attempt : Attempts, id : SteamIds, fresh : BOOLEAN]
      BY <2>3, <2>4 DEF SignInv, SignTables
    <2> QED
      BY <2>1, <2>7, <2>8 DEF SignInv, SignTables, accountVars, SteamIdsDiffer, SteamRegistered,
         EveryoneCanSignIn
  <1>3. CASE CleanUp
    <2>1. /\ UNCHANGED <<registered, steamOf, signedIn, stateCookie, answers, signReq, accepted>>
          /\ signups' \subseteq signups
          /\ attempt' = [a \in Attempts |->
               IF attempt[a] # NoAttempt /\ attempt[a].used THEN NoAttempt ELSE attempt[a]]
          /\ nonces' = {n \in nonces :
               \E x \in answers : x.attempt = n.attempt /\ x.id = n.id /\ x.fresh}
      BY <1>3 DEF CleanUp
    <2>2. \A z : Spent(z) => Spent(z)'
      BY <2>1 DEF Spent, Answered
    <2>3. AnswersOK'
      <3>1. CallbacksAnswered'
        BY <2>1 DEF SignInv, AnswersOK, CallbacksAnswered, Answered
      <3>2. RecordedOnce'
        BY <2>1, <2>2 DEF SignInv, AnswersOK, RecordedOnce, Recorded
      <3>3. (\A p \in accepted : Spent(p[1]))'
        BY <2>1, <2>2 DEF SignInv, AnswersOK
      <3> QED BY <3>1, <3>2, <3>3 DEF AnswersOK
    <2>4. attempt' \in [Attempts ->
            {NoAttempt} \cup [purpose : Purposes, user : Site \cup {Nil}, used : BOOLEAN]]
      BY <2>1 DEF SignInv, SignTables
    <2> QED
      BY <2>1, <2>3, <2>4 DEF SignInv, SignTables, SteamIdsDiffer, SteamRegistered,
         EveryoneCanSignIn
  <1>4. ASSUME NEW r \in SignClients, SignClientStep(r)
        PROVE  SignInv'
    BY <1>4, BeginKept, UseUpKept, RecordNonceKept, ConfirmedKept, VerifiedKept, SignupKept
    DEF SignClientStep
  <1>5. CASE UNCHANGED signVars
    BY <1>5 DEF signVars, SignInv, SignTables, SteamIdsDiffer, SteamRegistered,
       EveryoneCanSignIn, AnswersOK, CallbacksAnswered, RecordedOnce, Recorded, Spent, Answered
  <1> QED BY <1>1, <1>2, <1>3, <1>4, <1>5, TabKept DEF SignNext

\* Attempts, answers, nonces and accounts fit together at all times.
THEOREM SignInvariant == SignSpec => []SignInv
  <1>1. SignInit => SignInv
    BY SignInAssumption DEF SignInAssumption, SignInit, SignInv, SignTables, SteamIdsDiffer,
       SteamRegistered, EveryoneCanSignIn, AnswersOK, CallbacksAnswered, RecordedOnce,
       Recorded, SignIdle, Callback
  <1>2. SignInv /\ [SignNext]_signVars => SignInv'
    BY SignNextKept
  <1> QED BY <1>1, <1>2, PTL DEF SignSpec

\* SignTypeOK: attempts, cookies and accounts are typed, whatever the providers answer.
THEOREM SignTyped == SignSpec => []SignTypeOK
  <1>1. SignInv => SignTypeOK
    <2> SUFFICES ASSUME SignTables PROVE SignTypeOK
      BY DEF SignInv
    <2>1. \A a \in Attempts : attempt[a].purpose \in Purposes \cup {"none"}
      BY DEF SignTables, NoAttempt
    <2>2. {x.attempt : x \in signups \ Begun} \subseteq Attempts
      BY DEF SignTables, Identity
    <2> QED BY <2>1, <2>2 DEF SignTables, SignTypeOK
  <1> QED BY <1>1, SignInvariant, PTL

\* An answer of a provider counts once, a Steam account signs in to one account, and
\* nobody loses the last way in, whatever callbacks, links and sign-ups run at the same
\* time (steam_openid.py, twitch_oauth.py).
THEOREM SignInSoundHolds == SignSpec => []SignInSound
  <1>1. SignInv => AnswerAcceptedOnce
    <2> SUFFICES ASSUME SignInv, NEW p \in accepted
                 PROVE  TimesAccepted(p[1]) = 1
      BY DEF AnswerAcceptedOnce
    <2>1. \A n \in accepted : n = <<n[1], 1>>
      BY DEF SignInv, SignTables
    <2>2. {n \in accepted : n[1] = p[1]} = {p}
      BY <2>1
    <2> QED BY <2>2, FS_Singleton DEF TimesAccepted
  <1>2. SignInv => OneAccountPerSteamId
    <2> SUFFICES ASSUME SignInv, NEW id \in SteamIds
                 PROVE  Cardinality(Holder(id)) <= 1
      BY DEF OneAccountPerSteamId
    <2>1. CASE Holder(id) = {}
      BY <2>1, FS_EmptySet
    <2>2. CASE Holder(id) # {}
      <3>1. PICK u : u \in Holder(id)
        BY <2>2
      <3>2. Holder(id) = {u}
        BY <3>1, SignInAssumption DEF SignInAssumption, Holder, SignInv, SteamIdsDiffer
      <3>3. Cardinality({u}) = 1
        BY FS_Singleton
      <3> QED BY <3>2, <3>3
    <2> QED BY <2>1, <2>2
  <1>3. SignInv => EveryoneCanSignIn
    BY DEF SignInv
  <1> QED BY <1>1, <1>2, <1>3, SignInvariant, PTL DEF SignInSound

-----------------------------------------------------------------------------
(* Codes and events: the inductive invariant *)

\* A redemption in flight holds an offer that was made.
RequestsOK ==
  sourceReq \in [SourceClients ->
    {SourceIdle} \cup [op : {"redeem"}, user : Claimants, id : OfferIds, offer : made]]

\* Every offer carries the number it was made as, so the next one is new.
MadeOK ==
  /\ IsFiniteSet(made)
  /\ made \subseteq AllOffers
  /\ \A o \in made : o.gen <= Cardinality(made)
  /\ settled \subseteq Claimants \X made

\* The offer is the code in row i, or a request that read it there is still to
\* redeem it.
CodeAt(i, o) ==
  \/ codes[i] = o /\ o # NoOffer
  \/ \E r \in SourceClients :
       sourceReq[r].op = "redeem" /\ sourceReq[r].id = i /\ sourceReq[r].offer = o

\* A code is only ever at one id, and an account that was paid by it has the
\* redemption row of that id.
CodesOK ==
  \A i \in OfferIds, o \in made :
    CodeAt(i, o) =>
      /\ o.kind = "code"
      /\ \A j \in OfferIds : CodeAt(j, o) => i = j
      /\ \A u \in Claimants : <<u, o>> \in settled => <<i, u>> \in redemptions

\* The same for events and claims.  An event has room for everybody.
EventsOK ==
  \A i \in OfferIds :
    events[i] # NoOffer =>
      /\ events[i].kind = "event" /\ events[i].cap = Cardinality(Claimants)
      /\ \A j \in OfferIds : events[j] = events[i] => i = j
      /\ \A u \in Claimants : <<u, events[i]>> \in settled => <<i, u>> \in claims

OffersInv ==
  /\ codes \in [OfferIds -> made \cup {NoOffer}]
  /\ events \in [OfferIds -> made \cup {NoOffer}]
  /\ redemptions \subseteq OfferIds \X Claimants
  /\ claims \subseteq OfferIds \X Claimants
  /\ credited \in [Claimants -> Nat]
  /\ RequestsOK /\ MadeOK /\ CodesOK /\ EventsOK

-----------------------------------------------------------------------------
(* Codes and events: the operators *)

\* What an offer holds.
LEMMA OfferFields ==
  ASSUME NEW o \in AllOffers
  PROVE  /\ o # NoOffer /\ o.gen \in Nat /\ o.amount \in Nat /\ o.cap \in Nat
         /\ o.kind \in {"code", "event"}
  <1>1. Cardinality(Claimants) \in Nat
    BY TokenSourcesAssumption, FS_CardinalityType DEF TokenSourcesAssumption
  <1>2. o.kind \in {"code", "event"} /\ o.gen \in 1..MaxOffers /\ o.amount \in Amounts
        /\ o.cap \in Caps \cup {Cardinality(Claimants)}
    BY DEF AllOffers
  <1>3. o # NoOffer
    BY <1>2 DEF NoOffer
  <1>4. o.gen \in Nat
    BY <1>2, TokenSourcesAssumption DEF TokenSourcesAssumption
  <1>6. o.amount \in Nat
    BY <1>2, TokenSourcesAssumption DEF TokenSourcesAssumption
  <1>5. o.cap \in Nat
    BY <1>1, <1>2, TokenSourcesAssumption DEF TokenSourcesAssumption
  <1> QED BY <1>2, <1>3, <1>4, <1>5, <1>6

\* A redemption request holds an account, an id and an offer.
LEMMA RequestFields ==
  ASSUME RequestsOK, NEW r \in SourceClients, sourceReq[r].op = "redeem"
  PROVE  /\ sourceReq[r].user \in Claimants /\ sourceReq[r].id \in OfferIds
         /\ sourceReq[r].offer \in made
  BY DEF RequestsOK, SourceIdle

\* OncePayments counts and sums the same.
LEMMA SameCardinality ==
  ASSUME NEW S
  PROVE  Payments!Cardinality(S) = Cardinality(S)
  BY DEF Payments!Cardinality, Cardinality

\* The abstract module means the same by what a set of offers is worth.
LEMMA SameWorth ==
  ASSUME NEW S
  PROVE  Payments!Worth(S) = Worth(S)
  BY DEF Payments!Worth, Payments!MapThenSumSet, Payments!MapThenFoldSet,
         Worth, MapThenSumSet, MapThenFoldSet

\* What a set of offers is worth is a sum of their amounts.
LEMMA WorthIsTotal ==
  ASSUME NEW S \in SUBSET AllOffers, IsFiniteSet(S)
  PROVE  Worth(S) = Total([o \in S |-> o.amount], S)
  <1> DEFINE f == [o \in S |-> o.amount]
             Is(g) == g = [s \in SUBSET S |->
                             IF s = {} THEN 0 ELSE Chosen(s).amount + g[s \ {Chosen(s)}]]
  <1>1. PICK g : SumsUp(f, S, g)
    BY SumsExist
  <1>2. \A s \in SUBSET S : s # {} => f[Chosen(s)] = Chosen(s).amount
    BY DEF Chosen
  <1>3. Is(g)
    BY <1>1, <1>2 DEF SumsUp
  <1> DEFINE h == CHOOSE h : Is(h)
  <1>4. Is(h)
    <2> HIDE DEF Is
    <2> QED BY <1>3
  <1>5. SumsUp(f, S, h)
    BY <1>2, <1>4 DEF SumsUp
  <1>6. Worth(S) = h[S]
    BY DEF Worth, MapThenSumSet, MapThenFoldSet, Chosen
  <1>7. PICK t : SumsUp(f, S, t) /\ Total(f, S) = t[S]
    BY TotalIs
  <1>8. h[S] = t[S]
    <2> HIDE DEF h, f
    <2> QED BY <1>5, <1>7, SumsAgree
  <1> QED BY <1>6, <1>7, <1>8

\* What offers are worth is a number of tokens.
LEMMA WorthNat ==
  ASSUME NEW S \in SUBSET AllOffers, IsFiniteSet(S)
  PROVE  Worth(S) \in Nat
  <1>1. \A o \in S : [x \in S |-> x.amount][o] \in Nat
    BY OfferFields
  <1> QED BY <1>1, WorthIsTotal, TotalType

\* One offer is worth its amount.
LEMMA WorthOfOne ==
  ASSUME NEW o \in AllOffers
  PROVE  Worth({o}) = o.amount
  <1> DEFINE f == [x \in {o} |-> x.amount]
  <1>1. IsFiniteSet({o}) /\ {o} # {} /\ f[o] = o.amount
    BY FS_Singleton
  <1>2. Chosen({o}) = o /\ {o} \ {o} = {}
    BY DEF Chosen
  <1>3. Total(f, {o}) = f[o] + Total(f, {})
    <2> HIDE DEF f
    <2> QED BY <1>1, <1>2, TotalChosen
  <1>4. Total(f, {o}) = o.amount
    BY <1>1, <1>3, TotalEmpty, OfferFields
  <1> QED BY <1>1, <1>4, WorthIsTotal

-----------------------------------------------------------------------------
\* A new offer is one that was not made before.
LEMMA NewOfferIsNew ==
  ASSUME MadeOK, Cardinality(made) < MaxOffers, NEW kind \in {"code", "event"},
         NEW amount \in Amounts, NEW cap \in Caps \cup {Cardinality(Claimants)}
  PROVE  /\ NewOffer(kind, amount, cap) \in AllOffers \ made
         /\ NewOffer(kind, amount, cap).kind = kind /\ NewOffer(kind, amount, cap).cap = cap
         /\ Cardinality(made \cup {NewOffer(kind, amount, cap)}) = Cardinality(made) + 1
         /\ NewOffer(kind, amount, cap).gen = Cardinality(made) + 1
         /\ IsFiniteSet(made \cup {NewOffer(kind, amount, cap)})
         /\ Cardinality(made) \in Nat
  <1> DEFINE o == NewOffer(kind, amount, cap)
  <1>1. Cardinality(made) \in Nat
    BY FS_CardinalityType DEF MadeOK
  <1>2. o.gen = Cardinality(made) + 1 /\ o \in AllOffers /\ o.kind = kind /\ o.cap = cap
    BY <1>1, TokenSourcesAssumption DEF NewOffer, AllOffers, TokenSourcesAssumption
  <1>3. o \notin made
    BY <1>1, <1>2 DEF MadeOK
  <1>4. IsFiniteSet(made \cup {o}) /\ Cardinality(made \cup {o}) = Cardinality(made) + 1
    BY <1>3, FS_AddElement DEF MadeOK
  <1> QED BY <1>1, <1>2, <1>3, <1>4

\* An offer in a row or a request was made.
LEMMA CodeAtMade ==
  ASSUME RequestsOK, codes \in [OfferIds -> made \cup {NoOffer}], NEW i \in OfferIds,
         NEW o, CodeAt(i, o)
  PROVE  o \in made
  BY RequestFields DEF CodeAt

-----------------------------------------------------------------------------
\* What is left of the offers in rows and requests when some go: nothing new
\* is at an id, nobody is paid, no row of redemptions goes.
LEMMA FewerCodes ==
  ASSUME OffersInv, made' = made, settled' = settled, redemptions \subseteq redemptions',
         \A i \in OfferIds, o \in made : CodeAt(i, o)' => CodeAt(i, o)
  PROVE  CodesOK'
  BY DEF OffersInv, CodesOK

\* Every step keeps it.
LEMMA OffersInvStep ==
  ASSUME OffersInv, [SourcesNext]_sourceVars
  PROVE  OffersInv'
  <1> USE DEF OffersInv
  <1>1. ASSUME NEW amount \in Amounts, CreateEvent(amount) PROVE OffersInv'
    <2>0. PICK offer : offer = NewOffer("event", amount, Cardinality(Claimants))
      OBVIOUS
    <2> DEFINE n == NextOfferId(events)
    <2>1. /\ offer \in AllOffers \ made
          /\ offer.kind = "event" /\ offer.cap = Cardinality(Claimants)
          /\ Cardinality(made \cup {offer}) = Cardinality(made) + 1
          /\ offer.gen = Cardinality(made) + 1
          /\ IsFiniteSet(made \cup {offer})
          /\ Cardinality(made) \in Nat
      <3>1. /\ Cardinality(Claimants) \in Caps \cup {Cardinality(Claimants)}
            /\ "event" \in {"code", "event"}
        OBVIOUS
      <3>2. Cardinality(made) < MaxOffers
        BY <1>1 DEF CreateEvent
      <3> HIDE DEF n
      <3> QED BY <2>0, <3>1, <3>2, NewOfferIsNew
    <2>2. /\ events' = [events EXCEPT ![n] = offer] /\ n \in OfferIds /\ made' = made \cup {offer}
          /\ UNCHANGED <<codes, redemptions, claims, credited, sourceReq, settled>>
      BY <1>1, <2>0 DEF CreateEvent
    <2> HIDE DEF n
    <2>3. MadeOK'
      <3>1. \A o \in made : o.gen \in Nat /\ o.gen <= Cardinality(made)
        BY OfferFields DEF MadeOK
      <3>2. \A o \in made' : o.gen <= Cardinality(made')
        BY <2>1, <2>2, <3>1
      <3>3. made' \subseteq AllOffers /\ settled' \subseteq Claimants \X made'
        BY <2>1, <2>2 DEF MadeOK
      <3> QED BY <2>1, <2>2, <3>2, <3>3 DEF MadeOK
    <2>6. RequestsOK'
      BY <2>2 DEF RequestsOK
    <2>4. CodesOK'
      <3>1. \A i \in OfferIds : \A o : CodeAt(i, o)' = CodeAt(i, o)
        BY <2>2 DEF CodeAt
      <3>2. \A i \in OfferIds : ~CodeAt(i, offer)
        BY <2>1, CodeAtMade
      <3> QED BY <2>2, <3>1, <3>2 DEF CodesOK
    <2>5. EventsOK'
      BY <2>1, <2>2 DEF EventsOK, MadeOK
    <2> QED BY <2>2, <2>3, <2>4, <2>5, <2>6
  <1>2. ASSUME NEW amount \in Amounts, NEW cap \in Caps, CreateCode(amount, cap) PROVE OffersInv'
    <2>0. PICK offer : offer = NewOffer("code", amount, cap)
      OBVIOUS
    <2> DEFINE n == NextOfferId(codes)
    <2>1. /\ offer \in AllOffers \ made
          /\ offer.kind = "code" /\ offer.cap = cap
          /\ Cardinality(made \cup {offer}) = Cardinality(made) + 1
          /\ offer.gen = Cardinality(made) + 1
          /\ IsFiniteSet(made \cup {offer})
          /\ Cardinality(made) \in Nat
      BY <1>2, <2>0, NewOfferIsNew DEF CreateCode
    <2>2. /\ codes' = [codes EXCEPT ![n] = offer] /\ n \in OfferIds /\ made' = made \cup {offer}
          /\ UNCHANGED <<events, redemptions, claims, credited, sourceReq, settled>>
      BY <1>2, <2>0 DEF CreateCode
    <2> HIDE DEF n
    <2>3. MadeOK'
      <3>1. \A o \in made : o.gen \in Nat /\ o.gen <= Cardinality(made)
        BY OfferFields DEF MadeOK
      <3>2. \A o \in made' : o.gen <= Cardinality(made')
        BY <2>1, <2>2, <3>1
      <3>3. made' \subseteq AllOffers /\ settled' \subseteq Claimants \X made'
        BY <2>1, <2>2 DEF MadeOK
      <3> QED BY <2>1, <2>2, <3>2, <3>3 DEF MadeOK
    <2>6. RequestsOK'
      BY <2>2 DEF RequestsOK
    <2>4. CodesOK'
      <3>1. ASSUME NEW i \in OfferIds, NEW o \in made PROVE CodeAt(i, o)' => CodeAt(i, o)
        BY <2>1, <2>2 DEF CodeAt
      <3>2. ASSUME NEW i \in OfferIds PROVE CodeAt(i, offer)' => i = n
        <4>1. ~CodeAt(i, offer)
          BY <2>1, CodeAtMade
        <4> QED BY <2>2, <4>1 DEF CodeAt
      <3>3. \A u \in Claimants : <<u, offer>> \notin settled
        BY <2>1 DEF MadeOK
      <3> QED BY <2>1, <2>2, <3>1, <3>2, <3>3 DEF CodesOK
    <2>5. EventsOK'
      BY <2>1, <2>2 DEF EventsOK, MadeOK
    <2> QED BY <2>2, <2>3, <2>4, <2>5, <2>6
  <1>3. ASSUME NEW i \in OfferIds, DeleteCode(i) PROVE OffersInv'
    <2>1. CodesOK'
      BY <1>3, FewerCodes DEF DeleteCode, CodeAt
    <2> QED BY <1>3, <2>1 DEF DeleteCode, RequestsOK, MadeOK, EventsOK
  <1>4. ASSUME NEW i \in OfferIds, DeleteEvent(i) PROVE OffersInv'
    <2>1. CodesOK'
      BY <1>4, FewerCodes DEF DeleteEvent, CodeAt
    <2> QED BY <1>4, <2>1 DEF DeleteEvent, RequestsOK, MadeOK, EventsOK
  <1>5. ASSUME NEW r \in SourceClients, NEW u \in Claimants, NEW i \in OfferIds,
               BeginRedeem(r, u, i)
        PROVE  OffersInv'
    <2>1. codes[i] \in made
      BY <1>5 DEF BeginRedeem
    <2>2. RequestsOK'
      BY <1>5, <2>1 DEF BeginRedeem, RequestsOK
    <2>3. ASSUME NEW j \in OfferIds, NEW o \in made PROVE CodeAt(j, o)' => CodeAt(j, o)
      BY <1>5 DEF BeginRedeem, CodeAt, RequestsOK
    <2>4. CodesOK'
      BY <1>5, <2>3, FewerCodes DEF BeginRedeem
    <2> QED BY <1>5, <2>2, <2>4 DEF BeginRedeem, MadeOK, EventsOK
  <1>6. ASSUME NEW r \in SourceClients, CommitRedeem(r) PROVE OffersInv'
    <2> DEFINE q == sourceReq[r]
    <2>1. q.op = "redeem" /\ q.user \in Claimants /\ q.id \in OfferIds /\ q.offer \in made
      BY <1>6, RequestFields DEF CommitRedeem
    <2>2. CodeAt(q.id, q.offer)
      BY <2>1 DEF CodeAt
    <2>3. RequestsOK'
      BY <1>6 DEF CommitRedeem, RequestsOK
    <2>4. ASSUME NEW j \in OfferIds, NEW o \in made PROVE CodeAt(j, o)' => CodeAt(j, o)
      BY <1>6, RequestsOK DEF CommitRedeem, CodeAt, RequestsOK, SourceIdle
    <2>5. CASE Redeemable(q.user, q.id, q.offer.cap)
      <3>1. /\ redemptions' = redemptions \cup {<<q.id, q.user>>}
            /\ credited' = [credited EXCEPT ![q.user] = @ + q.offer.amount]
            /\ settled' = settled \cup {<<q.user, q.offer>>}
            /\ UNCHANGED <<codes, events, claims, made>>
        BY <1>6, <2>5 DEF CommitRedeem
      <3>2. q.offer.amount \in Nat
        BY <2>1, OfferFields DEF MadeOK
      <3> HIDE DEF q
      <3>3. CodesOK'
        BY <2>1, <2>2, <2>4, <3>1 DEF CodesOK
      <3>4. EventsOK'
        BY <2>1, <2>2, <3>1 DEF EventsOK, CodesOK
      <3>5. MadeOK'
        BY <2>1, <3>1 DEF MadeOK
      <3> QED BY <2>1, <2>3, <3>1, <3>2, <3>3, <3>4, <3>5
    <2>6. CASE ~Redeemable(q.user, q.id, q.offer.cap)
      <3>1. UNCHANGED <<codes, redemptions, events, claims, credited, made, settled>>
        BY <1>6, <2>6 DEF CommitRedeem
      <3>2. CodesOK'
        BY <2>4, <3>1, FewerCodes
      <3> QED BY <2>3, <3>1, <3>2 DEF MadeOK, EventsOK
    <2> QED BY <2>5, <2>6
  <1>7. ASSUME NEW u \in Claimants, NEW active \in SUBSET OfferRows(events), ClaimEvents(u, active)
        PROVE  OffersInv'
    <2> DEFINE due == Due(u, active)
               offers == {events[i] : i \in due}
    <2>1. due \subseteq OfferIds /\ \A i \in due : events[i] # NoOffer
      BY DEF Due, OfferRows
    <2>2. offers \subseteq made /\ \A o \in offers : o.kind = "event"
      BY <2>1 DEF EventsOK
    <2>3. Worth(offers) \in Nat
      <3>1. offers \in SUBSET AllOffers /\ IsFiniteSet(offers)
        BY <2>2, FS_Subset DEF MadeOK
      <3> HIDE DEF offers
      <3> QED BY <3>1, WorthNat
    <2>4. credited' \in [Claimants -> Nat]
      <3>1. credited' = [credited EXCEPT ![u] = @ + Worth(offers)]
        BY <1>7 DEF ClaimEvents
      <3> HIDE DEF offers
      <3> QED BY <2>3, <3>1
    <2>5. /\ claims' = claims \cup {<<i, u>> : i \in due}
          /\ settled' = settled \cup {<<u, o>> : o \in offers}
          /\ UNCHANGED <<codes, redemptions, events, sourceReq, made>>
      BY <1>7 DEF ClaimEvents
    <2>6. CodesOK'
      <3>1. \A i \in OfferIds, o \in made : CodeAt(i, o)' = CodeAt(i, o)
        BY <2>5 DEF CodeAt
      <3> HIDE DEF offers
      <3> QED BY <2>2, <2>5, <3>1 DEF CodesOK
    <2>7. EventsOK'
      BY <2>1, <2>5 DEF EventsOK
    <2>8. RequestsOK' /\ MadeOK'
      BY <2>2, <2>5 DEF RequestsOK, MadeOK
    <2> QED BY <2>1, <2>4, <2>5, <2>6, <2>7, <2>8
  <1>8. CASE UNCHANGED offerVars
    <2>1. CodesOK'
      BY <1>8, FewerCodes DEF offerVars, CodeAt
    <2> QED BY <1>8, <2>1 DEF offerVars, RequestsOK, MadeOK, EventsOK
  <1>9. CASE OwnCardNext
    BY <1>8, <1>9 DEF OwnCardNext, Verify, Unverify, GrantOwnCard
  <1>10. CASE UNCHANGED sourceVars
    BY <1>8, <1>10 DEF sourceVars
  <1> QED
    BY <1>1, <1>2, <1>3, <1>4, <1>5, <1>6, <1>7, <1>9, <1>10 DEF SourcesNext, OffersNext

\* The inductive invariant holds in every reachable state.
THEOREM OffersInvariant == SourcesSpec => []OffersInv
<1>1. SourcesInit => OffersInv
  <2> SUFFICES ASSUME SourcesInit PROVE OffersInv
    OBVIOUS
  <2>1. MadeOK
    BY FS_EmptySet DEF SourcesInit, MadeOK
  <2> QED BY <2>1 DEF SourcesInit, OffersInv, RequestsOK, CodesOK, EventsOK
<1> QED BY <1>1, OffersInvStep, PTL DEF SourcesSpec

-----------------------------------------------------------------------------
(* Codes and events: the refinement, step by step *)

\* The redemption row of an id is there for everybody its code has paid, so a
\* code below its cap by the rows has paid fewer accounts than its cap.
LEMMA CodeUnderCap ==
  ASSUME OffersInv, NEW i \in OfferIds, NEW o \in made, CodeAt(i, o),
         Cardinality({p \in redemptions : p[1] = i}) < o.cap
  PROVE  Cardinality(Payments!PaidTo(o)) < o.cap
  <1> DEFINE P == Payments!PaidTo(o)
             R == {p \in redemptions : p[1] = i}
             rowOf == [u \in P |-> <<i, u>>]
  <1>1. \A u \in P : <<i, u>> \in redemptions
    BY DEF OffersInv, CodesOK, Payments!PaidTo
  <1>2. rowOf \in Injection(P, R)
    BY <1>1 DEF Injection, IsInjective
  <1>3. IsFiniteSet(R)
    <2>1. IsFiniteSet({i} \X Claimants)
      BY FS_Singleton, FS_Product, TokenSourcesAssumption DEF TokenSourcesAssumption
    <2>2. R \subseteq {i} \X Claimants
      BY DEF OffersInv
    <2> HIDE DEF R
    <2> QED BY <2>1, <2>2, FS_Subset
  <1>4. Cardinality(P) <= Cardinality(R) /\ Cardinality(P) \in Nat /\ Cardinality(R) \in Nat
    <2> HIDE DEF P, R, rowOf
    <2> QED BY <1>2, <1>3, FS_Injection, FS_CardinalityType
  <1>5. o.cap \in Nat
    BY OfferFields DEF OffersInv, MadeOK
  <1> QED BY <1>4, <1>5

\* An event has room for every account that was not paid.
LEMMA EventUnderCap ==
  ASSUME NEW o, NEW u \in Claimants, u \notin Payments!PaidTo(o), o.cap = Cardinality(Claimants)
  PROVE  Cardinality(Payments!PaidTo(o)) < o.cap
  <1> DEFINE P == Payments!PaidTo(o)
  <1>1. P \subseteq Claimants
    BY DEF Payments!PaidTo
  <1>2. IsFiniteSet(Claimants)
    BY TokenSourcesAssumption DEF TokenSourcesAssumption
  <1> HIDE DEF P
  <1>3. /\ Cardinality(P) <= Cardinality(Claimants)
        /\ Cardinality(P) \in Nat /\ Cardinality(Claimants) \in Nat
        /\ Cardinality(Claimants) = Cardinality(P) => Claimants = P
    BY <1>1, <1>2, FS_Subset, FS_CardinalityType
  <1> QED BY <1>3 DEF P

\* Every step is one of OncePayments or leaves what it speaks of alone.
LEMMA PaymentsStep ==
  ASSUME OffersInv, [SourcesNext]_sourceVars
  PROVE  [Payments!PaymentsNext]_<<made, settled, credited>>
  <1> USE DEF OffersInv
  <1>1. ASSUME NEW amount \in Amounts, CreateEvent(amount)
        PROVE  Payments!PaymentsNext
    <2>1. NewOffer("event", amount, Cardinality(Claimants)) \in AllOffers \ made
      <3>1. /\ Cardinality(Claimants) \in Caps \cup {Cardinality(Claimants)}
            /\ "event" \in {"code", "event"}
        OBVIOUS
      <3>2. Cardinality(made) < MaxOffers
        BY <1>1 DEF CreateEvent
      <3> QED BY <3>1, <3>2, NewOfferIsNew
    <2>2. Payments!Issue(NewOffer("event", amount, Cardinality(Claimants)))
      BY <1>1, <2>1 DEF CreateEvent, Payments!Issue
    <2> QED BY <2>1, <2>2 DEF Payments!PaymentsNext
  <1>2. ASSUME NEW amount \in Amounts, NEW cap \in Caps, CreateCode(amount, cap)
        PROVE  Payments!PaymentsNext
    <2>1. NewOffer("code", amount, cap) \in AllOffers \ made
      BY <1>2, NewOfferIsNew DEF CreateCode
    <2>2. Payments!Issue(NewOffer("code", amount, cap))
      BY <1>2, <2>1 DEF CreateCode, Payments!Issue
    <2> QED BY <2>1, <2>2 DEF Payments!PaymentsNext
  <1>3. ASSUME NEW r \in SourceClients, CommitRedeem(r)
        PROVE  Payments!PaymentsNext \/ UNCHANGED <<made, settled, credited>>
    <2> DEFINE q == sourceReq[r]
    <2>1. q.op = "redeem" /\ q.user \in Claimants /\ q.id \in OfferIds /\ q.offer \in made
      BY <1>3, RequestFields DEF CommitRedeem
    <2>2. CASE ~Redeemable(q.user, q.id, q.offer.cap)
      BY <1>3, <2>2 DEF CommitRedeem
    <2>3. CASE Redeemable(q.user, q.id, q.offer.cap)
      <3>1. /\ credited' = [credited EXCEPT ![q.user] = @ + q.offer.amount]
            /\ settled' = settled \cup {<<q.user, q.offer>>}
            /\ UNCHANGED made
        BY <1>3, <2>3 DEF CommitRedeem
      <3>2. CodeAt(q.id, q.offer)
        BY <2>1 DEF CodeAt
      <3>3. q.user \notin Payments!PaidTo(q.offer)
        BY <2>1, <2>3, <3>2 DEF CodesOK, Redeemable, Payments!PaidTo
      <3>4. Cardinality(Payments!PaidTo(q.offer)) < q.offer.cap
        BY <2>1, <2>3, <3>2, CodeUnderCap DEF Redeemable
      <3>5. Payments!Worth({q.offer}) = q.offer.amount
        BY <2>1, WorthOfOne, SameWorth DEF MadeOK
      <3>6. settled' = settled \cup {<<q.user, o>> : o \in {q.offer}}
        BY <3>1
      <3> HIDE DEF q
      <3>7. Payments!Pay(q.user, {q.offer})
        <4>1. credited' = [credited EXCEPT ![q.user] = @ + Payments!Worth({q.offer})]
          BY <3>1, <3>5
        <4>2. {q.offer} \subseteq made
          BY <2>1
        <4>3. \A o \in {q.offer} :
                q.user \notin Payments!PaidTo(o) /\ Cardinality(Payments!PaidTo(o)) < o.cap
          BY <3>3, <3>4
        <4> QED BY <3>1, <3>6, <4>1, <4>2, <4>3, SameCardinality DEF Payments!Pay
      <3> QED BY <2>1, <3>7 DEF Payments!PaymentsNext
    <2> QED BY <2>2, <2>3
  <1>4. ASSUME NEW u \in Claimants, NEW active \in SUBSET OfferRows(events), ClaimEvents(u, active)
        PROVE  Payments!PaymentsNext
    <2> DEFINE due == Due(u, active)
               offers == {events[i] : i \in due}
    <2>1. due \subseteq OfferIds /\ \A i \in due : events[i] # NoOffer /\ <<i, u>> \notin claims
      BY DEF Due, OfferRows
    <2>2. offers \subseteq made
      BY <2>1
    <2>3. ASSUME NEW o \in offers
          PROVE  u \notin Payments!PaidTo(o) /\ Cardinality(Payments!PaidTo(o)) < o.cap
      <3>1. PICK i \in due : o = events[i]
        OBVIOUS
      <3>2. u \notin Payments!PaidTo(o) /\ o.cap = Cardinality(Claimants)
        BY <2>1, <3>1 DEF EventsOK, Payments!PaidTo
      <3> QED BY <3>2, EventUnderCap
    <2>4. credited' = [credited EXCEPT ![u] = @ + Payments!Worth(offers)]
      BY <1>4, SameWorth DEF ClaimEvents
    <2>5. settled' = settled \cup {<<u, o>> : o \in offers} /\ UNCHANGED made
      BY <1>4 DEF ClaimEvents
    <2> HIDE DEF offers
    <2>6. Payments!Pay(u, offers)
      BY <2>2, <2>3, <2>4, <2>5, SameCardinality DEF Payments!Pay
    <2> QED BY <2>2, <2>6 DEF Payments!PaymentsNext
  <1>5. ASSUME NEW i \in OfferIds, DeleteCode(i) \/ DeleteEvent(i)
        PROVE  UNCHANGED <<made, settled, credited>>
    BY <1>5 DEF DeleteCode, DeleteEvent
  <1>6. ASSUME NEW i \in OfferIds, NEW r \in SourceClients, NEW u \in Claimants,
               BeginRedeem(r, u, i)
        PROVE  UNCHANGED <<made, settled, credited>>
    BY <1>6 DEF BeginRedeem
  <1>7. CASE OwnCardNext \/ UNCHANGED sourceVars
    BY <1>7 DEF OwnCardNext, Verify, Unverify, GrantOwnCard, sourceVars, offerVars
  <1> QED
    BY <1>1, <1>2, <1>3, <1>4, <1>5, <1>6, <1>7 DEF SourcesNext, OffersNext

\* Every behaviour of codes and events is one of OncePayments: a created code or
\* event is issued, a redemption that gets its row pays one offer, a claim pays
\* the offers that were due, and every other step leaves the promise alone.
THEOREM PaymentsRefined == SourcesSpec => OffersPayOnce
<1>1. SourcesInit => Payments!PaymentsInit
  BY DEF SourcesInit, Payments!PaymentsInit
<1> QED BY <1>1, PaymentsStep, OffersInvariant, PTL
           DEF SourcesSpec, OffersPayOnce, Payments!PaymentsSpec

-----------------------------------------------------------------------------
(* Types and the own player card *)

\* Every table keeps its type: a row of codes or events is an offer an admin may
\* enter, and tokens are only ever added.
THEOREM SourcesTypeCorrect == SourcesSpec => []SourcesTypeOK
<1> DEFINE LinksOK == /\ verified \in [Claimants -> LeaguePlayers \cup {NoPlayer}]
                      /\ ownGrants \subseteq Claimants \X LeaguePlayers
<1>1. SourcesInit => LinksOK
  BY DEF SourcesInit
<1>2. LinksOK /\ [SourcesNext]_sourceVars => LinksOK'
  <2> SUFFICES ASSUME LinksOK, [SourcesNext]_sourceVars PROVE LinksOK'
    OBVIOUS
  <2>1. ASSUME NEW u \in Claimants, GrantOwnCard(u) PROVE LinksOK'
    BY <2>1 DEF GrantOwnCard
  <2>2. ASSUME NEW u \in Claimants, Unverify(u) PROVE LinksOK'
    BY <2>2 DEF Unverify
  <2>3. ASSUME NEW u \in Claimants, NEW p \in LeaguePlayers, Verify(u, p) PROVE LinksOK'
    BY <2>3 DEF Verify
  <2>4. CASE UNCHANGED <<verified, ownGrants>>
    BY <2>4
  <2>5. CASE OffersNext
    BY <2>4, <2>5 DEF OffersNext, CreateEvent, CreateCode, DeleteCode, DeleteEvent,
                      BeginRedeem, CommitRedeem, ClaimEvents
  <2> QED
    BY <2>1, <2>2, <2>3, <2>4, <2>5 DEF SourcesNext, OwnCardNext, sourceVars
<1>3. OffersInv /\ LinksOK => SourcesTypeOK
  BY DEF OffersInv, MadeOK, SourcesTypeOK
<1> QED BY <1>1, <1>2, <1>3, OffersInvariant, PTL DEF SourcesSpec


\* The own player card is given once to an account and once for a player, however
\* often Steam is unlinked and linked in between: a grant row is never taken back
\* and the INSERT finds either of the two taken.
THEOREM OwnCardHolds == SourcesSpec => []OwnCardOnce
<1>1. SourcesInit => OwnCardOnce
  BY DEF SourcesInit, OwnCardOnce
<1>2. OwnCardOnce /\ [SourcesNext]_sourceVars => OwnCardOnce'
  <2> SUFFICES ASSUME OwnCardOnce, [SourcesNext]_sourceVars PROVE OwnCardOnce'
    OBVIOUS
  <2>1. ASSUME NEW u \in Claimants, GrantOwnCard(u) PROVE OwnCardOnce'
    BY <2>1 DEF GrantOwnCard, Ungranted, OwnCardOnce
  <2>2. CASE UNCHANGED ownGrants
    BY <2>2 DEF OwnCardOnce
  <2> QED
    BY <2>1, <2>2
       DEF SourcesNext, OffersNext, OwnCardNext, sourceVars, Verify, Unverify, CreateEvent,
       CreateCode, DeleteCode, DeleteEvent, BeginRedeem, CommitRedeem, ClaimEvents
<1> QED BY <1>1, <1>2, PTL DEF SourcesSpec

-----------------------------------------------------------------------------
(* Migrations: the inductive invariant *)

Grants == [id : TwitchIds, user : Webs \cup {0}, source : {"connect", "join"}]
Ids(grants) == {g.id : g \in grants}

DatabaseTyped(d) ==
  d \in [twitch : [Webs -> TwitchIds \cup {NoTwitch}], joined : SUBSET Webs,
         joins : SUBSET TwitchIds, soft : SUBSET TwitchIds, unknown : SUBSET TwitchIds,
         grants : SUBSET Grants, paidUser : [Webs -> Nat], paidId : [TwitchIds -> Nat],
         active : SUBSET Deck, slot : [Deck -> Nat], index : BOOLEAN, players : Nat,
         links : BOOLEAN, applied : SUBSET {"037", "038", "041"}]

Connected(d, w) == \E g \in d.grants : g.user = w /\ g.source = "connect"
ConnectedId(d, i) == \E g \in d.grants : g.id = i /\ g.source = "connect"

\* Every payment left its row, or came with a Join.
GrantsOK(d) ==
  /\ \A g, o \in d.grants : g.id = o.id => g = o
  /\ \A g, o \in d.grants :
       g.source = "connect" /\ o.source = "connect" /\ g.user = o.user => g = o
  /\ \A w \in Webs : d.paidUser[w] <= 1
  /\ \A w \in Webs : w \notin d.joined /\ ~Connected(d, w) => d.paidUser[w] = 0
  /\ \A i \in TwitchIds \ d.unknown : d.paidId[i] <= 1
  /\ \A i \in TwitchIds : i \notin d.joins /\ ~ConnectedId(d, i) => d.paidId[i] = 0
  /\ \A i \in d.joins : ConnectedId(d, i) => i \in d.unknown

\* A roster has one card per player and fits the limit.
Legal(d) ==
  /\ \A c, o \in d.active : PlayerOf[c] = PlayerOf[o] => c = o
  /\ Cardinality(d.active) <= RosterLimit
ActivePlayers(d) == {PlayerOf[c] : c \in d.active}

\* Whatever was benched, as many players are left as the limit allows.
RosterOK(d) ==
  /\ d.index => Legal(d)
  /\ Cardinality(ActivePlayers(d)) >= RosterLimit \/ Cardinality(ActivePlayers(d)) >= d.players

DatabaseOK(d) == DatabaseTyped(d) /\ GrantsOK(d) /\ RosterOK(d)

Places ==
  [at : {0}, step : {"stopped", "serving"}, todo : {<<>>}]
    \cup [at : 1..3, step : {"start", "index", "record"}, todo : {<<>>}]
    \cup [at : {2}, step : {"grant", "credit"}, todo : Seq(Webs)]

\* What 038 still has to pay: accounts with an id whose starter did not come with a
\* Join.  The Joins have their rows, so nobody else is paid for their ids.
PayingOK ==
  migrating.step \in {"grant", "credit"} =>
    /\ view.joins \subseteq Ids(view.grants)
    /\ \A k \in DOMAIN migrating.todo :
         view.twitch[migrating.todo[k]] # NoTwitch /\ migrating.todo[k] \notin view.joined

\* Between its two statements the row of the next one is there and the payment is not.
CreditingOK ==
  migrating.step = "credit" =>
    /\ migrating.todo # <<>>
    /\ LET w == Head(migrating.todo)
       IN /\ \E g \in view.grants :
               g.user = w /\ g.source = "connect" /\ g.id = view.twitch[w]
          /\ view.paidUser[w] = 0 /\ view.paidId[view.twitch[w]] = 0

MigrationsInv ==
  /\ DatabaseOK(db) /\ DatabaseOK(view)
  /\ migrating \in Places
  /\ migrating.at = 0 => view = db
  /\ migrating.step = "index" => migrating.at = 1 /\ Legal(view)
  /\ PayingOK /\ CreditingOK

-----------------------------------------------------------------------------
(* Migrations: the starters *)

\* The fields of a database.
LEMMA DatabaseFields ==
  ASSUME NEW d, DatabaseTyped(d)
  PROVE  /\ d.twitch \in [Webs -> TwitchIds \cup {NoTwitch}] /\ d.joined \subseteq Webs
         /\ d.joins \subseteq TwitchIds /\ d.soft \subseteq TwitchIds
         /\ d.unknown \subseteq TwitchIds /\ d.grants \subseteq Grants
         /\ d.paidUser \in [Webs -> Nat] /\ d.paidId \in [TwitchIds -> Nat]
         /\ d.active \subseteq Deck /\ d.slot \in [Deck -> Nat] /\ d.index \in BOOLEAN
         /\ d.players \in Nat /\ d.links \in BOOLEAN
         /\ d.applied \subseteq {"037", "038", "041"}
  BY DEF DatabaseTyped

\* The rows of the Joins are new ids, and no payment needs another row for them.
LEMMA JoinsRecorded ==
  ASSUME NEW d, DatabaseOK(d), NEW e, e = [d EXCEPT !.grants = @ \cup JoinRows(d)]
  PROVE  DatabaseOK(e) /\ d.joins \subseteq Ids(e.grants)
  <1> USE DatabaseFields DEF DatabaseOK
  <1>1. JoinRows(d) \subseteq Grants
    BY DEF JoinRows, Grants
  <1>2. DatabaseTyped(e)
    BY <1>1 DEF DatabaseTyped
  <1>3. /\ e.grants = d.grants \cup JoinRows(d) /\ e.paidUser = d.paidUser
        /\ e.paidId = d.paidId /\ e.joined = d.joined /\ e.joins = d.joins
        /\ e.unknown = d.unknown
    BY DEF DatabaseTyped
  <1>4. \A g \in JoinRows(d) : g.source = "join" /\ g.id \in d.joins \ Ids(d.grants)
    BY DEF JoinRows, Ids
  <1>5. \A g, o \in JoinRows(d) : g.id = o.id => g = o
    BY DEF JoinRows
  <1>6. \A g, o \in e.grants : g.id = o.id => g = o
    BY <1>3, <1>4, <1>5 DEF GrantsOK, Ids
  <1>7. \A w \in Webs : Connected(e, w) <=> Connected(d, w)
    BY <1>3, <1>4 DEF Connected
  <1>8. \A i \in TwitchIds : ConnectedId(e, i) <=> ConnectedId(d, i)
    BY <1>3, <1>4 DEF ConnectedId
  <1>9. GrantsOK(e)
    BY <1>3, <1>4, <1>6, <1>7, <1>8 DEF GrantsOK
  <1>10. RosterOK(e)
    BY DEF RosterOK, Legal, ActivePlayers, DatabaseTyped
  <1>11. d.joins \subseteq Ids(e.grants)
    <2> SUFFICES ASSUME NEW i \in d.joins PROVE i \in Ids(e.grants)
      OBVIOUS
    <2>1. CASE i \in Ids(d.grants)
      BY <2>1, <1>3 DEF Ids
    <2>2. CASE i \notin Ids(d.grants)
      <3> DEFINE g == [id |-> i, user |-> 0, source |-> "join"]
      <3>1. g \in JoinRows(d)
        BY <2>2 DEF Ids, JoinRows
      <3>2. g.id = i
        OBVIOUS
      <3> QED BY <3>1, <3>2, <1>3 DEF Ids
    <2> QED BY <2>1, <2>2
  <1> QED BY <1>2, <1>9, <1>10, <1>11

\* A row may be added for an account that was not paid; its payment is then still due.
LEMMA RowAdded ==
  ASSUME NEW d, DatabaseOK(d), NEW w \in Webs, NEW i \in TwitchIds, w \notin d.joined,
         NEW g, g = [id |-> i, user |-> w, source |-> "connect"], Inserted(d, g),
         i \in d.joins => i \in d.unknown,
         NEW e, e = [d EXCEPT !.grants = Granted(d, g)]
  PROVE  /\ DatabaseOK(e) /\ d.paidUser[w] = 0 /\ g \in e.grants
         /\ i \notin d.joins => d.paidId[i] = 0
  <1> USE DatabaseFields DEF DatabaseOK
  <1>1. Granted(d, g) = d.grants \cup {g} /\ g \in Grants
    BY DEF Granted, Grants
  <1>2. DatabaseTyped(e)
    BY <1>1 DEF DatabaseTyped
  <1>3. /\ e.grants = d.grants \cup {g} /\ e.paidUser = d.paidUser
        /\ e.paidId = d.paidId /\ e.joined = d.joined /\ e.joins = d.joins
        /\ e.unknown = d.unknown
    BY <1>1 DEF DatabaseTyped
  <1>4. ~Connected(d, w) /\ ~ConnectedId(d, i)
    BY DEF Inserted, Connected, ConnectedId
  <1>5. /\ d.paidUser[w] = 0
        /\ i \notin d.joins => d.paidId[i] = 0
    BY <1>4 DEF GrantsOK
  <1>6. \A h, o \in e.grants : h.id = o.id => h = o
    BY <1>3 DEF GrantsOK, Inserted
  <1>7. \A h, o \in e.grants :
          h.source = "connect" /\ o.source = "connect" /\ h.user = o.user => h = o
    BY <1>3 DEF GrantsOK, Inserted
  <1>8. \A v \in Webs : Connected(d, v) => Connected(e, v)
    BY <1>3 DEF Connected
  <1>9. \A j \in TwitchIds : /\ ConnectedId(d, j) => ConnectedId(e, j)
                             /\ ConnectedId(e, j) => ConnectedId(d, j) \/ j = i
    BY <1>3 DEF ConnectedId
  <1>10. GrantsOK(e)
    BY <1>3, <1>6, <1>7, <1>8, <1>9 DEF GrantsOK
  <1>11. RosterOK(e)
    BY DEF RosterOK, Legal, ActivePlayers, DatabaseTyped
  <1> QED BY <1>1, <1>2, <1>3, <1>5, <1>10, <1>11

\* The payment of a row that is there.
LEMMA RowPaid ==
  ASSUME NEW d, DatabaseOK(d), NEW w \in Webs, NEW i \in TwitchIds,
         NEW g \in d.grants, g.source = "connect", g.user = w, g.id = i,
         d.paidUser[w] = 0, d.paidId[i] = 0 \/ i \in d.unknown,
         NEW e, e = Paid(d, w, i)
  PROVE  DatabaseOK(e)
  <1> USE DatabaseFields DEF DatabaseOK
  <1>1. /\ e.grants = d.grants /\ e.paidUser = [d.paidUser EXCEPT ![w] = @ + 1]
        /\ e.paidId = [d.paidId EXCEPT ![i] = @ + 1] /\ e.joined = d.joined
        /\ e.joins = d.joins /\ e.unknown = d.unknown
    BY DEF DatabaseTyped, Paid
  <1>2. DatabaseTyped(e)
    <2> DEFINE u == [d.paidUser EXCEPT ![w] = @ + 1]
               p == [d.paidId EXCEPT ![i] = @ + 1]
    <2>1. u \in [Webs -> Nat] /\ p \in [TwitchIds -> Nat]
      OBVIOUS
    <2>2. e = [d EXCEPT !.paidUser = u, !.paidId = p]
      BY DEF DatabaseTyped, Paid
    <2> HIDE DEF u, p
    <2>3. DatabaseTyped(d)
      OBVIOUS
    <2> QED BY ONLY <2>1, <2>2, <2>3 DEF DatabaseTyped
  <1>3. \A v \in Webs : Connected(e, v) <=> Connected(d, v)
    BY <1>1 DEF Connected
  <1>4. \A j \in TwitchIds : ConnectedId(e, j) <=> ConnectedId(d, j)
    BY <1>1 DEF ConnectedId
  <1>5. Connected(d, w) /\ ConnectedId(d, i)
    BY DEF Connected, ConnectedId
  <1>6. \A v \in Webs : e.paidUser[v] = IF v = w THEN 1 ELSE d.paidUser[v]
    BY <1>1
  <1>7. \A j \in TwitchIds : e.paidId[j] = IF j = i THEN d.paidId[i] + 1 ELSE d.paidId[j]
    BY <1>1
  <1>8. GrantsOK(e)
    BY <1>1, <1>3, <1>4, <1>5, <1>6, <1>7 DEF GrantsOK
  <1>9. RosterOK(e)
    BY DEF RosterOK, Legal, ActivePlayers, DatabaseTyped, Paid
  <1> QED BY <1>2, <1>8, <1>9

-----------------------------------------------------------------------------
(* Migrations: the rosters *)

\* The order of the repair: c comes before o.
Before(d, c, o) ==
  \/ d.slot[c] # 0 /\ d.slot[o] = 0
  \/ (d.slot[c] = 0 <=> d.slot[o] = 0)
     /\ (d.slot[c] < d.slot[o] \/ (d.slot[c] = d.slot[o] /\ c < o))

\* It is a strict order of the cards, and any two compare.
LEMMA BeforeOrders ==
  ASSUME NEW d, d.slot \in [Deck -> Nat]
  PROVE  /\ \A c \in Deck : ~Before(d, c, c)
         /\ \A a, b, c \in Deck : Before(d, a, b) /\ Before(d, b, c) => Before(d, a, c)
         /\ \A c, o \in Deck : c # o => Before(d, c, o) \/ Before(d, o, c)
  <1>0. \A c \in Deck : c \in Nat /\ d.slot[c] \in Nat
    BY MigrationsAssumption
  <1> USE <1>0 DEF Before
  <1>1. \A c \in Deck : ~Before(d, c, c)
    OBVIOUS
  <1>2. ASSUME NEW a \in Deck, NEW b \in Deck, NEW c \in Deck,
               Before(d, a, b), Before(d, b, c)
        PROVE  Before(d, a, c)
    BY <1>2
  <1>3. \A c, o \in Deck : c # o => Before(d, c, o) \/ Before(d, o, c)
    OBVIOUS
  <1> QED BY <1>1, <1>2, <1>3

\* Cards ahead of a card are those before it.
LEMMA AheadIs ==
  ASSUME NEW d, NEW cards, NEW c
  PROVE  AheadOf(d, cards, c) = {o \in cards : Before(d, o, c)}
  BY DEF AheadOf, Before

\* Some card of a set has none before it.
LEMMA FirstCard ==
  ASSUME NEW d, d.slot \in [Deck -> Nat], NEW cards \in SUBSET Deck, cards # {}
  PROVE  \E c \in cards : \A o \in cards : ~Before(d, o, c)
  <1> DEFINE Up(c) == {o \in cards : Before(d, o, c)}
             Ups == {Up(c) : c \in cards}
  <1>1. IsFiniteSet(cards) /\ Ups \in SUBSET SUBSET cards /\ Ups # {}
    <2>1. IsFiniteSet(cards)
      BY MigrationsAssumption, FS_Subset
    <2>2. \A c \in cards : Up(c) \in SUBSET cards /\ Up(c) \in Ups
      OBVIOUS
    <2> QED BY <2>1, <2>2
  <1>2. PICK u \in Ups : \A s \in Ups : s \subseteq u => s = u
    <2> HIDE DEF Ups
    <2> QED BY <1>1, SmallestMember
  <1>3. PICK c \in cards : u = Up(c)
    OBVIOUS
  <1>4. ASSUME NEW o \in cards, Before(d, o, c) PROVE FALSE
    <2>1. Up(o) \subseteq Up(c)
      BY <1>4, BeforeOrders
    <2>2. Up(o) = Up(c)
      BY <2>1, <1>2, <1>3
    <2>3. o \in Up(c)
      BY <1>4
    <2>4. o \notin Up(o)
      BY BeforeOrders
    <2> QED BY <2>2, <2>3, <2>4
  <1> QED BY <1>4

\* And some card is before no other.
LEMMA LastCard ==
  ASSUME NEW d, d.slot \in [Deck -> Nat], NEW cards \in SUBSET Deck, cards # {}
  PROVE  \E c \in cards : \A o \in cards : ~Before(d, c, o)
  <1> DEFINE Down(c) == {o \in cards : Before(d, c, o)}
             Downs == {Down(c) : c \in cards}
  <1>1. IsFiniteSet(cards) /\ Downs \in SUBSET SUBSET cards /\ Downs # {}
    <2>1. IsFiniteSet(cards)
      BY MigrationsAssumption, FS_Subset
    <2>2. \A c \in cards : Down(c) \in SUBSET cards /\ Down(c) \in Downs
      OBVIOUS
    <2> QED BY <2>1, <2>2
  <1>2. PICK u \in Downs : \A s \in Downs : s \subseteq u => s = u
    <2> HIDE DEF Downs
    <2> QED BY <1>1, SmallestMember
  <1>3. PICK c \in cards : u = Down(c)
    OBVIOUS
  <1>4. ASSUME NEW o \in cards, Before(d, c, o) PROVE FALSE
    <2>1. Down(o) \subseteq Down(c)
      BY <1>4, BeforeOrders
    <2>2. Down(o) = Down(c)
      BY <2>1, <1>2, <1>3
    <2>3. o \in Down(c)
      BY <1>4
    <2>4. o \notin Down(o)
      BY BeforeOrders
    <2> QED BY <2>2, <2>3, <2>4
  <1> QED BY <1>4

\* Benching cards takes them out of the roster and changes no other slot.
LEMMA BenchedIs ==
  ASSUME NEW d, DatabaseTyped(d), NEW cards \in SUBSET Deck
  PROVE  LET e == Benched(d, cards)
         IN /\ DatabaseTyped(e) /\ e.active = d.active \ cards
            /\ \A c \in Deck \ cards : e.slot[c] = d.slot[c]
            /\ e.index = d.index /\ e.players = d.players /\ e.grants = d.grants
            /\ e.joined = d.joined /\ e.joins = d.joins /\ e.unknown = d.unknown
            /\ e.paidUser = d.paidUser /\ e.paidId = d.paidId /\ e.twitch = d.twitch
  <1> USE DatabaseFields
  <1> DEFINE left == [c \in Deck |-> IF c \in cards THEN 0 ELSE d.slot[c]]
             e == [d EXCEPT !.active = @ \ cards, !.slot = left]
  <1>1. left \in [Deck -> Nat] /\ \A c \in Deck \ cards : left[c] = d.slot[c]
    OBVIOUS
  <1>2. Benched(d, cards) = e
    BY DEF Benched
  <1>3. e.slot = left /\ DatabaseTyped(e)
    <2> HIDE DEF left
    <2> QED BY <1>1 DEF DatabaseTyped
  <1>4. /\ e.active = d.active \ cards
        /\ e.index = d.index /\ e.players = d.players /\ e.grants = d.grants
        /\ e.joined = d.joined /\ e.joins = d.joins /\ e.unknown = d.unknown
        /\ e.paidUser = d.paidUser /\ e.paidId = d.paidId /\ e.twitch = d.twitch
    <2> HIDE DEF left
    <2> QED BY DEF DatabaseTyped
  <1> HIDE DEF e, left
  <1> QED BY <1>1, <1>2, <1>3, <1>4

\* Without the duplicates there is one card of each player, and no player is gone.
LEMMA DuplicatesBenched ==
  ASSUME NEW d, DatabaseTyped(d), NEW e, e = Benched(d, Duplicates(d))
  PROVE  /\ DatabaseTyped(e) /\ e.active \subseteq d.active
         /\ \A c, o \in e.active : PlayerOf[c] = PlayerOf[o] => c = o
         /\ ActivePlayers(e) = ActivePlayers(d)
  <1> DEFINE Rivals(c) == {o \in d.active : PlayerOf[o] = PlayerOf[c]}
  <1>1. d.active \subseteq Deck /\ d.slot \in [Deck -> Nat]
    BY DatabaseFields
  <1>2. Duplicates(d) = {c \in d.active : \E o \in Rivals(c) : Before(d, o, c)}
    BY AheadIs DEF Duplicates
  <1>3. Duplicates(d) \in SUBSET Deck
    BY <1>1, <1>2
  <1>4. DatabaseTyped(e) /\ e.active = d.active \ Duplicates(d)
    BY <1>3, BenchedIs
  <1>5. ASSUME NEW c \in e.active, NEW o \in e.active, PlayerOf[c] = PlayerOf[o]
        PROVE  c = o
    BY <1>1, <1>2, <1>4, <1>5, BeforeOrders
  <1>6. ASSUME NEW c \in d.active
        PROVE  \E o \in e.active : PlayerOf[o] = PlayerOf[c]
    <2>1. Rivals(c) \in SUBSET Deck /\ Rivals(c) # {}
      BY <1>1
    <2>2. PICK o \in Rivals(c) : \A r \in Rivals(c) : ~Before(d, r, o)
      <3> HIDE DEF Rivals
      <3> QED BY <1>1, <2>1, FirstCard
    <2>3. Rivals(o) = Rivals(c)
      OBVIOUS
    <2>4. o \notin Duplicates(d)
      BY <1>2, <2>2, <2>3
    <2> QED BY <2>2, <2>4, <1>4
  <1>7. ActivePlayers(e) = ActivePlayers(d)
    BY <1>4, <1>6 DEF ActivePlayers
  <1> QED BY <1>4, <1>5, <1>7

\* Without the surplus the roster fits, and it is full if there was any.
LEMMA SurplusBenched ==
  ASSUME NEW d, DatabaseTyped(d), NEW e, e = Benched(d, Surplus(d))
  PROVE  /\ DatabaseTyped(e) /\ e.active \subseteq d.active
         /\ Cardinality(e.active) <= RosterLimit
         /\ e.active = d.active \/ Cardinality(e.active) >= RosterLimit
  <1> DEFINE Up(c) == {o \in d.active : Before(d, o, c)}
  <1>1. d.active \subseteq Deck /\ d.slot \in [Deck -> Nat] /\ RosterLimit \in Nat \ {0}
    BY DatabaseFields, MigrationsAssumption
  <1>2. Surplus(d) = {c \in d.active : Cardinality(Up(c)) >= RosterLimit}
    BY AheadIs DEF Surplus
  <1>3. Surplus(d) \in SUBSET Deck
    BY <1>1, <1>2
  <1>4. DatabaseTyped(e) /\ e.active = d.active \ Surplus(d)
    BY <1>3, BenchedIs
  <1>5. /\ IsFiniteSet(d.active) /\ IsFiniteSet(e.active)
        /\ \A c : IsFiniteSet(Up(c))
    <2>1. IsFiniteSet(d.active)
      BY <1>1, FS_Subset, MigrationsAssumption
    <2>2. \A c : Up(c) \in SUBSET d.active
      OBVIOUS
    <2> HIDE DEF Up
    <2> QED BY <2>1, <2>2, <1>4, FS_Subset
  <1>6. /\ Cardinality(e.active) \in Nat
        /\ \A c : Cardinality(Up(c)) \in Nat
    <2> HIDE DEF Up
    <2> QED BY <1>5, FS_CardinalityType
  <1>7. Cardinality(e.active) <= RosterLimit
    <2>1. CASE e.active = {}
      BY <2>1, <1>1, FS_EmptySet
    <2>2. CASE e.active # {}
      <3>1. PICK c \in e.active : \A o \in e.active : ~Before(d, c, o)
        BY <2>2, <1>1, <1>4, LastCard
      <3>2. e.active \ {c} \subseteq Up(c)
        BY <3>1, <1>1, <1>4, BeforeOrders
      <3>3. Cardinality(e.active \ {c}) <= Cardinality(Up(c))
        <4> HIDE DEF Up
        <4> QED BY <3>2, <1>5, FS_Subset
      <3>4. Cardinality(e.active \ {c}) = Cardinality(e.active) - 1
        BY <1>5, FS_RemoveElement
      <3>5. Cardinality(Up(c)) < RosterLimit
        <4>1. c \in d.active /\ ~(Cardinality(Up(c)) >= RosterLimit)
          <5> HIDE DEF Up
          <5> QED BY <1>2, <1>4
        <4> HIDE DEF Up
        <4> QED BY <4>1, <1>1, <1>6
      <3> HIDE DEF Up
      <3> QED BY <3>3, <3>4, <3>5, <1>1, <1>6
    <2> QED BY <2>1, <2>2
  <1>8. ASSUME e.active # d.active PROVE Cardinality(e.active) >= RosterLimit
    <2>1. Surplus(d) # {}
      BY <1>8, <1>4
    <2>2. PICK c \in Surplus(d) : \A o \in Surplus(d) : ~Before(d, o, c)
      BY <2>1, <1>1, <1>3, FirstCard
    <2>3. Up(c) \subseteq e.active
      BY <2>2, <1>4
    <2>4. Cardinality(Up(c)) >= RosterLimit
      <3> HIDE DEF Up
      <3> QED BY <1>2, <2>2
    <2>5. Cardinality(Up(c)) <= Cardinality(e.active)
      <3> HIDE DEF Up
      <3> QED BY <2>3, <1>5, FS_Subset
    <2> HIDE DEF Up
    <2> QED BY <2>4, <2>5, <1>1, <1>6
  <1> QED BY <1>4, <1>7, <1>8

\* Distinct cards have as many players.
LEMMA PlayersCounted ==
  ASSUME NEW d, d.active \subseteq Deck
  PROVE  /\ IsFiniteSet(d.active) /\ IsFiniteSet(ActivePlayers(d))
         /\ Cardinality(d.active) \in Nat /\ Cardinality(ActivePlayers(d)) \in Nat
         /\ Cardinality(ActivePlayers(d)) <= Cardinality(d.active)
         /\ (\A c, o \in d.active : PlayerOf[c] = PlayerOf[o] => c = o) =>
              Cardinality(ActivePlayers(d)) = Cardinality(d.active)
  <1>1. IsFiniteSet(d.active)
    BY FS_Subset, MigrationsAssumption
  <1> DEFINE f == [c \in d.active |-> PlayerOf[c]]
  <1>2. f \in Surjection(d.active, ActivePlayers(d))
    BY DEF Surjection, ActivePlayers
  <1>3. (\A c, o \in d.active : PlayerOf[c] = PlayerOf[o] => c = o) =>
          f \in Injection(d.active, ActivePlayers(d))
    BY <1>2 DEF Injection, IsInjective, Surjection
  <1> HIDE DEF f
  <1>4. /\ IsFiniteSet(ActivePlayers(d))
        /\ Cardinality(ActivePlayers(d)) <= Cardinality(d.active)
        /\ Cardinality(ActivePlayers(d)) = Cardinality(d.active) <=>
             f \in Injection(d.active, ActivePlayers(d))
    BY <1>1, <1>2, FS_Surjection
  <1> QED BY <1>1, <1>3, <1>4, FS_CardinalityType

\* The repair makes a roster legal and benches no card it need not.
LEMMA RostersRepaired ==
  ASSUME NEW d, DatabaseOK(d), NEW e, e = Repaired(d)
  PROVE  DatabaseOK(e) /\ Legal(e) /\ e.index = d.index
  <1> USE DEF DatabaseOK
  <1>1. PICK once : once = Benched(d, Duplicates(d))
    OBVIOUS
  <1>2. e = Benched(once, Surplus(once))
    BY <1>1 DEF Repaired
  <1>3. /\ DatabaseTyped(once)
        /\ \A c, o \in once.active : PlayerOf[c] = PlayerOf[o] => c = o
        /\ ActivePlayers(once) = ActivePlayers(d)
    BY <1>1, DuplicatesBenched
  <1>4. /\ DatabaseTyped(e) /\ e.active \subseteq once.active
        /\ Cardinality(e.active) <= RosterLimit
        /\ e.active = once.active \/ Cardinality(e.active) >= RosterLimit
    BY <1>2, <1>3, SurplusBenched
  <1>5. Legal(e)
    BY <1>3, <1>4 DEF Legal
  <1>6. Duplicates(d) \in SUBSET Deck /\ Surplus(once) \in SUBSET Deck
    BY <1>3, DatabaseFields DEF Duplicates, Surplus
  <1>7. /\ e.index = d.index /\ e.players = d.players /\ e.grants = d.grants
        /\ e.joined = d.joined /\ e.joins = d.joins /\ e.unknown = d.unknown
        /\ e.paidUser = d.paidUser /\ e.paidId = d.paidId
    <2>1. /\ once.index = d.index /\ once.players = d.players /\ once.grants = d.grants
          /\ once.joined = d.joined /\ once.joins = d.joins /\ once.unknown = d.unknown
          /\ once.paidUser = d.paidUser /\ once.paidId = d.paidId
      BY <1>1, <1>6, BenchedIs
    <2>2. /\ e.index = once.index /\ e.players = once.players /\ e.grants = once.grants
          /\ e.joined = once.joined /\ e.joins = once.joins /\ e.unknown = once.unknown
          /\ e.paidUser = once.paidUser /\ e.paidId = once.paidId
      BY <1>2, <1>3, <1>6, BenchedIs
    <2> QED BY <2>1, <2>2
  <1>8. GrantsOK(e)
    BY <1>7 DEF GrantsOK, Connected, ConnectedId
  <1>9. RosterOK(e)
    <2>1. Cardinality(ActivePlayers(e)) = Cardinality(e.active)
      BY <1>4, <1>5, DatabaseFields, PlayersCounted DEF Legal
    <2>2. CASE e.active = once.active
      BY <2>2, <1>3, <1>5, <1>7 DEF RosterOK, ActivePlayers
    <2>3. CASE Cardinality(e.active) >= RosterLimit
      BY <2>1, <2>3, <1>5 DEF RosterOK
    <2> QED BY <1>4, <2>2, <2>3
  <1> QED BY <1>4, <1>5, <1>7, <1>8, <1>9

\* A card put on a roster that has room and not the player.
LEMMA CardPut ==
  ASSUME NEW d, DatabaseOK(d), NEW c \in Deck, c \notin d.active,
         Cardinality(d.active) < RosterLimit,
         \A o \in d.active : PlayerOf[o] # PlayerOf[c],
         NEW e, e = [d EXCEPT !.active = @ \cup {c}]
  PROVE  DatabaseOK(e)
  <1> USE DatabaseFields DEF DatabaseOK
  <1>1. DatabaseTyped(e)
    BY DEF DatabaseTyped
  <1>2. /\ e.active = d.active \cup {c} /\ e.index = d.index /\ e.players = d.players
        /\ e.grants = d.grants /\ e.paidUser = d.paidUser /\ e.paidId = d.paidId
        /\ e.joined = d.joined /\ e.joins = d.joins /\ e.unknown = d.unknown
    BY DEF DatabaseTyped
  <1>3. GrantsOK(e)
    BY <1>2 DEF GrantsOK, Connected, ConnectedId
  <1>4. /\ Cardinality(e.active) = Cardinality(d.active) + 1
        /\ IsFiniteSet(ActivePlayers(e)) /\ Cardinality(ActivePlayers(e)) \in Nat
        /\ Cardinality(d.active) \in Nat
    <2>1. d.active \subseteq Deck /\ e.active \subseteq Deck
      BY <1>1, DatabaseFields
    <2>2. IsFiniteSet(d.active) /\ Cardinality(d.active) \in Nat
      BY ONLY <2>1, PlayersCounted
    <2>3. Cardinality(d.active \cup {c}) = Cardinality(d.active) + 1
      BY ONLY <2>2, c \notin d.active, FS_AddElement
    <2>4. IsFiniteSet(ActivePlayers(e)) /\ Cardinality(ActivePlayers(e)) \in Nat
      BY ONLY <2>1, PlayersCounted
    <2> QED BY ONLY <1>2, <2>2, <2>3, <2>4
  <1>5. Legal(d) => Legal(e)
    BY <1>2, <1>4, MigrationsAssumption DEF Legal
  <1>6. ActivePlayers(d) \in SUBSET ActivePlayers(e)
    BY <1>2 DEF ActivePlayers
  <1>7. /\ Cardinality(ActivePlayers(d)) <= Cardinality(ActivePlayers(e))
        /\ Cardinality(ActivePlayers(d)) \in Nat
    BY <1>4, <1>6, FS_Subset, PlayersCounted
  <1>8. RosterOK(e)
    BY <1>2, <1>4, <1>5, <1>7, MigrationsAssumption DEF RosterOK
  <1> QED BY <1>1, <1>3, <1>8

\* What an earlier version leaves behind is in order.
LEMMA NewIsOK ==
  ASSUME NEW d, IsNew(d)
  PROVE  DatabaseOK(d)
  <1> DEFINE n == {d.twitch[w] : w \in Webs}
             u == [w \in Webs |-> IF w \in d.joined THEN 1 ELSE 0]
             p == [i \in TwitchIds |-> IF i \in d.joins THEN 1 ELSE 0]
             c == Cardinality({PlayerOf[k] : k \in d.active})
             s == d.joins \ n
  <1>1. d = [twitch |-> d.twitch, joined |-> d.joined, joins |-> d.joins, soft |-> s,
             unknown |-> {}, grants |-> {}, paidUser |-> u, paidId |-> p,
             active |-> d.active, slot |-> d.slot, index |-> FALSE, players |-> c,
             links |-> TRUE, applied |-> {}]
    BY DEF IsNew, NewDatabase
  <1>2. /\ d.twitch \in [Webs -> TwitchIds \cup {NoTwitch}]
        /\ d.joined \subseteq Webs /\ d.joins \subseteq TwitchIds
        /\ d.active \subseteq Deck /\ d.slot \in [Deck -> Nat]
    BY DEF IsNew
  <1>3. u \in [Webs -> Nat] /\ p \in [TwitchIds -> Nat] /\ s \subseteq TwitchIds
    BY <1>2
  <1>4. c = Cardinality(ActivePlayers(d)) /\ c \in Nat
    BY <1>2, PlayersCounted DEF ActivePlayers
  <1>5. /\ \A w \in Webs : u[w] <= 1 /\ (w \notin d.joined => u[w] = 0)
        /\ \A i \in TwitchIds : p[i] <= 1 /\ (i \notin d.joins => p[i] = 0)
    OBVIOUS
  <1> HIDE DEF u, p, c, s
  <1>6. DatabaseTyped(d)
    <2>1. PICK t, j, n1, a, sl : /\ t = d.twitch /\ j = d.joined /\ n1 = d.joins
                               /\ a = d.active /\ sl = d.slot
      OBVIOUS
    <2>2. d = [twitch |-> t, joined |-> j, joins |-> n1, soft |-> s, unknown |-> {},
               grants |-> {}, paidUser |-> u, paidId |-> p, active |-> a, slot |-> sl,
               index |-> FALSE, players |-> c, links |-> TRUE, applied |-> {}]
      BY <1>1, <2>1
    <2>3. /\ t \in [Webs -> TwitchIds \cup {NoTwitch}]
          /\ j \subseteq Webs /\ n1 \subseteq TwitchIds /\ a \subseteq Deck
          /\ sl \in [Deck -> Nat]
      BY <1>2, <2>1
    <2>4. /\ s \subseteq TwitchIds /\ u \in [Webs -> Nat] /\ p \in [TwitchIds -> Nat]
          /\ c \in Nat /\ {} \subseteq Grants
      BY <1>3, <1>4
    <2> QED BY ONLY <2>2, <2>3, <2>4, SMTT(30) DEF DatabaseTyped
  <1>7. /\ d.grants = {} /\ d.paidUser = u /\ d.paidId = p /\ d.unknown = {}
        /\ d.index = FALSE /\ d.players = c
    BY <1>1
  <1>8. GrantsOK(d)
    BY <1>5, <1>7 DEF GrantsOK, ConnectedId
  <1>9. RosterOK(d)
    BY <1>4, <1>7 DEF RosterOK
  <1> QED BY <1>6, <1>8, <1>9 DEF DatabaseOK

-----------------------------------------------------------------------------
(* Migrations: the steps *)

\* Where a start is.
LEMMA PlaceFields ==
  ASSUME migrating \in Places
  PROVE  /\ migrating.at \in 0..3
         /\ migrating.at = 0 => migrating \in {Stopped, Serving}
         /\ migrating.step \in {"grant", "credit"} =>
              migrating.at = 2 /\ migrating.todo \in Seq(Webs)
         /\ migrating.step \notin {"grant", "credit"} => migrating.todo = <<>>
         /\ migrating = [at |-> migrating.at, step |-> migrating.step, todo |-> migrating.todo]
  BY DEF Places, Stopped, Serving, At

\* The next place, and no 038 is under way there.
LEMMA Follows ==
  ASSUME NEW k, k \in 1..3
  PROVE  /\ Following(k) \in Places
         /\ Following(k).at = 0 => k = 3
         /\ Following(k).step \in {"start", "serving"}
  BY DEF Following, Places, Stopped, Serving, At, Migrations

\* The places in and between the migrations.
LEMMA Moves ==
  ASSUME migrating \in Places
  PROVE  /\ Stopped \in Places /\ Stopped.at = 0 /\ Stopped.step = "stopped"
         /\ At(1, "start") \in Places /\ At(1, "start").at = 1
         /\ At(1, "start").step = "start"
         /\ migrating.at # 0 =>
              /\ AtStep("record") \in Places /\ AtStep("record").at = migrating.at
              /\ AtStep("record").step = "record"
              /\ AtStep("index") \in Places /\ AtStep("index").at = migrating.at
              /\ AtStep("index").step = "index"
  <1>1. migrating.at \in 0..3
    BY PlaceFields
  <1> QED BY <1>1 DEF Following, Places, Stopped, Serving, At, AtStep, Migrations

\* What holds of a view outside 038 and between the steps of 037.
LEMMA AtRest ==
  ASSUME DatabaseOK(db'), DatabaseOK(view'), migrating' \in Places,
         migrating.at' = 0 => view' = db',
         migrating.step' \notin {"index", "grant", "credit"}
  PROVE  MigrationsInv'
  BY DEF MigrationsInv, PayingOK, CreditingOK

\* Each step of a start or of the program keeps the invariant.
LEMMA StarterStartKept ==
  ASSUME MigrationsInv, StartUp \/ Skip \/ Record \/ Fails \/ Stop \/ ClearLinks
  PROVE  MigrationsInv'
  <1>1. /\ DatabaseOK(db) /\ DatabaseOK(view) /\ migrating \in Places
        /\ migrating.at = 0 => view = db
    BY DEF MigrationsInv
  <1> USE PlaceFields, Moves
  <1>2. ASSUME migrating.at # 0, EndOf(migrating.at) PROVE MigrationsInv'
    <2>1. migrating.at \in 1..3
      BY <1>1, <1>2
    <2>2. migrating' = Following(migrating.at) /\ db' = db
          /\ view' = IF migrating.at = 3 THEN db ELSE view
      BY <1>2 DEF EndOf, Migrations
    <2>3. PICK k \in 1..3 : k = migrating.at
      BY <2>1
    <2> PICK next : next = Following(k)
      OBVIOUS
    <2>6. /\ next \in Places
          /\ next.at = 0 => k = 3
          /\ next.step \in {"start", "serving"}
      BY <2>3, Follows
    <2>5. /\ next.at = 0 => k = 3
          /\ next.step \notin {"index", "grant", "credit"}
      BY <2>6
    <2>4. DatabaseOK(db') /\ DatabaseOK(view') /\ (next.at = 0 => view' = db')
      BY <1>1, <2>2, <2>3, <2>5
    <2> QED BY <2>2, <2>3, <2>4, <2>5, <2>6, AtRest
  <1>3. CASE StartUp
    BY <1>1, <1>3, AtRest DEF StartUp, Stopped, At
  <1>4. CASE Skip
    BY <1>2, <1>4 DEF Skip
  <1>5. CASE Fails
    BY <1>2, <1>5 DEF Fails
  <1>6. CASE Stop
    BY <1>1, <1>6, AtRest DEF Stop
  <1>7. CASE Record
    <2>1. migrating.at \in 1..3
      BY <1>1, <1>7 DEF Record
    <2>2. PICK k \in {"037", "038", "041"} : k = Migrations[migrating.at]
      BY <2>1 DEF Migrations
    <2>3. PICK new : new = [view EXCEPT !.applied = @ \cup {k}]
      OBVIOUS
    <2>4. db' = new /\ view' = new /\ migrating' = Following(migrating.at)
      BY <1>7, <2>2, <2>3 DEF Record, Commits
    <2>5. DatabaseOK(new)
      <3>1. DatabaseTyped(new) /\ new.grants = view.grants
        BY <1>1, <2>3 DEF DatabaseOK, DatabaseTyped
      <3>2. GrantsOK(new) /\ RosterOK(new)
        BY <1>1, <2>3 DEF DatabaseOK, DatabaseTyped, GrantsOK, RosterOK, Connected,
           ConnectedId, Legal, ActivePlayers
      <3> QED BY <3>1, <3>2 DEF DatabaseOK
    <2>6. PICK n \in 1..3 : n = migrating.at
      BY <2>1
    <2>7. Following(n) \in Places /\ Following(n).step \in {"start", "serving"}
      BY <2>6, Follows
    <2> QED BY <2>4, <2>5, <2>6, <2>7, AtRest
  <1>8. CASE ClearLinks
    <2>1. PICK new : new = [view EXCEPT !.links = FALSE]
      OBVIOUS
    <2>2. migrating.at # 0 /\ db' = new /\ view' = new /\ migrating' = AtStep("record")
      BY <1>8, <2>1 DEF ClearLinks, Commits, InStep
    <2>3. DatabaseOK(new)
      <3>1. DatabaseTyped(new)
        BY <1>1, <2>1 DEF DatabaseOK, DatabaseTyped
      <3>2. GrantsOK(new) /\ RosterOK(new)
        BY <1>1, <2>1 DEF DatabaseOK, DatabaseTyped, GrantsOK, RosterOK, Connected,
           ConnectedId, Legal, ActivePlayers
      <3> QED BY <3>1, <3>2 DEF DatabaseOK
    <2> QED BY <1>1, <2>2, <2>3, AtRest
  <1> QED BY <1>3, <1>4, <1>5, <1>6, <1>7, <1>8

\* The two steps of 037.
LEMMA RepairKept ==
  ASSUME MigrationsInv, RepairRosters \/ AddIndex
  PROVE  MigrationsInv'
  <1>1. /\ DatabaseOK(db) /\ DatabaseOK(view) /\ migrating \in Places
        /\ migrating.at = 0 => view = db
        /\ migrating.step = "index" => migrating.at = 1 /\ Legal(view)
    BY DEF MigrationsInv
  <1> USE PlaceFields, Moves
  <1>2. CASE RepairRosters
    <2>1. migrating.at = 1
      BY <1>1, <1>2 DEF RepairRosters, InStep, Migrations
    <2>2. CASE view.index
      BY <1>1, <1>2, <2>1, <2>2, AtRest DEF RepairRosters
    <2>3. CASE ~view.index
      <3>1. PICK new : new = Repaired(view)
        OBVIOUS
      <3>2. db' = db /\ view' = new /\ migrating' = AtStep("index")
        BY <1>2, <2>3, <3>1 DEF RepairRosters, Writes
      <3>3. DatabaseOK(new) /\ Legal(new)
        BY <1>1, <3>1, RostersRepaired
      <3> QED BY <1>1, <2>1, <3>2, <3>3 DEF MigrationsInv, PayingOK, CreditingOK
    <2> QED BY <2>2, <2>3
  <1>3. CASE AddIndex
    <2>1. migrating.at = 1 /\ Legal(view)
      BY <1>1, <1>3 DEF AddIndex, InStep
    <2>2. PICK new : new = [view EXCEPT !.index = TRUE]
      OBVIOUS
    <2>3. db' = new /\ view' = new /\ migrating' = AtStep("record")
      BY <1>3, <2>2 DEF AddIndex, Commits
    <2>4. DatabaseOK(new)
      <3>1. DatabaseTyped(new)
        BY <1>1, <2>2 DEF DatabaseOK, DatabaseTyped
      <3>2. GrantsOK(new) /\ RosterOK(new)
        BY <1>1, <2>1, <2>2 DEF DatabaseOK, DatabaseTyped, GrantsOK, RosterOK, Connected,
           ConnectedId, Legal, ActivePlayers
      <3> QED BY <3>1, <3>2 DEF DatabaseOK
    <2> QED BY <1>1, <2>1, <2>3, <2>4, AtRest
  <1> QED BY <1>2, <1>3

\* The first element of a queue and the rest.
LEMMA QueueParts ==
  ASSUME NEW S, NEW q \in Seq(S), q # <<>>
  PROVE  /\ Head(q) \in S /\ Head(q) = q[1] /\ 1 \in DOMAIN q /\ Tail(q) \in Seq(S)
         /\ \A k \in DOMAIN Tail(q) : k + 1 \in DOMAIN q /\ Tail(q)[k] = q[k + 1]
  OBVIOUS

\* The steps of 038.
LEMMA GrantKept ==
  ASSUME MigrationsInv, GrantJoins \/ GrantNext \/ CreditNext \/ CommitStarters
  PROVE  MigrationsInv'
  <1>1. /\ DatabaseOK(db) /\ DatabaseOK(view) /\ migrating \in Places
        /\ migrating.at = 0 => view = db
        /\ PayingOK
        /\ CreditingOK
    BY DEF MigrationsInv
  <1>2. /\ view.twitch \in [Webs -> TwitchIds \cup {NoTwitch}]
        /\ DatabaseTyped(view)
    BY <1>1, DatabaseFields DEF DatabaseOK
  <1>3. CASE GrantJoins
    <2>1. PICK new : new = [view EXCEPT !.grants = @ \cup JoinRows(view)]
      OBVIOUS
    <2>2. PICK todo \in InOrderOfId(StarterCandidates(new)) :
            Writes(new, [AtStep("grant") EXCEPT !.todo = todo])
      BY <1>3, <2>1 DEF GrantJoins
    <2>3. migrating.at = 2
      BY <1>1, <1>3, PlaceFields DEF GrantJoins, InStep, Migrations
    <2>4. [AtStep("grant") EXCEPT !.todo = todo] = [at |-> 2, step |-> "grant", todo |-> todo]
      BY <2>3 DEF AtStep, At
    <2>5. db' = db /\ view' = new /\ migrating' = [at |-> 2, step |-> "grant", todo |-> todo]
      BY <2>2, <2>4 DEF Writes
    <2>6. DatabaseOK(new) /\ view.joins \subseteq Ids(new.grants)
      BY <1>1, <2>1, JoinsRecorded
    <2>7. new.joins = view.joins
      BY <1>2, <2>1 DEF DatabaseTyped
    <2>8. StarterCandidates(new) \in SUBSET Webs
      BY DEF StarterCandidates
    <2>9. Cardinality(StarterCandidates(new)) \in Nat
      BY <2>8, FS_Subset, FS_CardinalityType, MigrationsAssumption
    <2>10. /\ todo \in Seq(Webs)
           /\ \A k \in DOMAIN todo : todo[k] \in StarterCandidates(new)
      <3>1. todo \in [1..Cardinality(StarterCandidates(new)) -> StarterCandidates(new)]
        BY <2>2 DEF InOrderOfId
      <3> QED BY <2>8, <2>9, <3>1
    <2>11. migrating' \in Places
      BY <2>5, <2>10 DEF Places
    <2>12. PayingOK'
      BY <2>5, <2>6, <2>7, <2>10 DEF PayingOK, StarterCandidates
    <2> QED BY <1>1, <2>5, <2>6, <2>11, <2>12 DEF MigrationsInv, CreditingOK
  <1>4. CASE GrantNext
    <2>1. PICK todo \in Seq(Webs) :
            /\ migrating = [at |-> 2, step |-> "grant", todo |-> todo] /\ todo # <<>>
            /\ migrating.at = 2 /\ migrating.step = "grant" /\ migrating.todo = todo
      BY <1>1, <1>4, PlaceFields DEF GrantNext, InStep
    <2>2. PICK w \in Webs : w = Head(todo) /\ w = todo[1] /\ 1 \in DOMAIN todo
      BY <2>1, QueueParts
    <2>3. PICK rest : rest = Tail(todo)
      OBVIOUS
    <2>11. /\ rest \in Seq(Webs)
           /\ \A k \in DOMAIN rest : k + 1 \in DOMAIN todo /\ rest[k] = todo[k + 1]
      BY <2>1, <2>3, QueueParts, Zenon
    <2>4. PICK i \in TwitchIds : i = view.twitch[w]
      BY <1>1, <1>2, <2>1, <2>2 DEF PayingOK
    <2>5. w \notin view.joined /\ view.joins \subseteq Ids(view.grants)
      BY <1>1, <2>1, <2>2 DEF PayingOK
    <2>6. PICK g : g = [id |-> i, user |-> w, source |-> "connect"]
      OBVIOUS
    <2>7. CASE Inserted(view, g)
      <3>1. PICK new : new = [view EXCEPT !.grants = Granted(view, g)]
        OBVIOUS
      <3>2. db' = db /\ view' = new
            /\ migrating' = [at |-> 2, step |-> "credit", todo |-> todo]
        BY <1>4, <2>1, <2>2, <2>4, <2>6, <2>7, <3>1 DEF GrantNext, Writes
      <3>3. i \notin view.joins
        BY <2>5, <2>6, <2>7 DEF Inserted, Ids
      <3>4. DatabaseOK(new) /\ view.paidUser[w] = 0 /\ view.paidId[i] = 0 /\ g \in new.grants
        BY <1>1, <2>5, <2>6, <2>7, <3>1, <3>3, RowAdded
      <3>5. /\ new.joins = view.joins /\ new.twitch = view.twitch /\ new.joined = view.joined
            /\ new.paidUser = view.paidUser /\ new.paidId = view.paidId
            /\ view.grants \subseteq new.grants
        BY <1>2, <3>1 DEF DatabaseTyped, Granted
      <3>6. migrating' \in Places
        BY <2>1, <3>2 DEF Places
      <3>7. PayingOK'
        BY <1>1, <2>1, <3>2, <3>5 DEF PayingOK, Ids
      <3>8. CreditingOK'
        BY <2>1, <2>2, <2>4, <2>6, <3>2, <3>4, <3>5 DEF CreditingOK
      <3> QED BY <1>1, <3>2, <3>4, <3>6, <3>7, <3>8 DEF MigrationsInv
    <2>8. CASE ~Inserted(view, g)
      <3>1. db' = db /\ view' = view
            /\ migrating' = [at |-> 2, step |-> "grant", todo |-> rest]
        BY <1>4, <2>1, <2>2, <2>3, <2>4, <2>6, <2>8 DEF GrantNext
      <3>2. migrating' \in Places
        BY <2>11, <3>1 DEF Places
      <3>3. PayingOK'
        BY <1>1, <2>1, <2>11, <3>1 DEF PayingOK
      <3> QED BY <1>1, <3>1, <3>2, <3>3 DEF MigrationsInv, CreditingOK
    <2> QED BY <2>7, <2>8
  <1>5. CASE CreditNext
    <2>1. PICK todo \in Seq(Webs) :
            /\ migrating = [at |-> 2, step |-> "credit", todo |-> todo] /\ todo # <<>>
            /\ migrating.at = 2 /\ migrating.step = "credit" /\ migrating.todo = todo
      BY <1>1, <1>5, PlaceFields DEF CreditNext, InStep, CreditingOK
    <2>2. PICK w \in Webs : w = Head(todo) /\ w = todo[1] /\ 1 \in DOMAIN todo
      BY <2>1, QueueParts
    <2>3. PICK rest : rest = Tail(todo)
      OBVIOUS
    <2>11. /\ rest \in Seq(Webs)
           /\ \A k \in DOMAIN rest : k + 1 \in DOMAIN todo /\ rest[k] = todo[k + 1]
      BY <2>1, <2>3, QueueParts, Zenon
    <2>4. PICK i \in TwitchIds : i = view.twitch[w]
      BY <1>1, <1>2, <2>1, <2>2 DEF PayingOK
    <2>5. PICK new : new = Paid(view, w, i)
      OBVIOUS
    <2>6. db' = db /\ view' = new /\ migrating' = [at |-> 2, step |-> "grant", todo |-> rest]
      BY <1>5, <2>1, <2>2, <2>3, <2>4, <2>5 DEF CreditNext, Writes
    <2>7. DatabaseOK(new)
      <3>1. /\ \E g \in view.grants : g.user = w /\ g.source = "connect" /\ g.id = i
            /\ view.paidUser[w] = 0 /\ view.paidId[i] = 0
        BY <1>1, <2>1, <2>2, <2>4 DEF CreditingOK
      <3> QED BY <1>1, <2>5, <3>1, RowPaid
    <2>8. /\ new.joins = view.joins /\ new.twitch = view.twitch /\ new.joined = view.joined
          /\ view.grants = new.grants
      BY <1>2, <2>5 DEF DatabaseTyped, Paid
    <2>9. migrating' \in Places
      BY <2>11, <2>6 DEF Places
    <2>10. PayingOK'
      BY <1>1, <2>1, <2>11, <2>6, <2>8 DEF PayingOK
    <2> QED BY <1>1, <2>6, <2>7, <2>9, <2>10 DEF MigrationsInv, CreditingOK
  <1>6. CASE CommitStarters
    <2>1. migrating.at # 0 /\ db' = view /\ view' = view /\ migrating' = AtStep("record")
      BY <1>6 DEF CommitStarters, Commits, InStep
    <2> QED BY <1>1, <2>1, AtRest, Moves
  <1> QED BY <1>3, <1>4, <1>5, <1>6

\* The program while it serves.
LEMMA ServingKept ==
  ASSUME MigrationsInv,
         \/ \E w \in Webs : DisconnectId(w) \/ \E i \in TwitchIds : ConnectId(w, i)
         \/ \E c \in Deck : PutOnRoster(c)
  PROVE  MigrationsInv'
  <1>1. /\ DatabaseOK(db) /\ DatabaseTyped(db) /\ Serving \in Places
        /\ Serving.step = "serving"
    BY DEF MigrationsInv, DatabaseOK, Places, Serving, At
  <1>2. SUFFICES ASSUME NEW new, DatabaseOK(new), migrating = Serving, Commits(new, migrating)
                 PROVE  MigrationsInv'
    <2>1. migrating = Serving
      BY DEF ConnectId, DisconnectId, PutOnRoster
    <2>2. \E new : DatabaseOK(new) /\ Commits(new, migrating)
      <3>1. CASE \E c \in Deck : PutOnRoster(c)
        BY <1>1, <3>1, CardPut DEF PutOnRoster
      <3>2. ASSUME NEW w \in Webs, DisconnectId(w)
            PROVE  \E new : DatabaseOK(new) /\ Commits(new, migrating)
        <4>1. PICK new : new = [db EXCEPT !.twitch[w] = NoTwitch]
          OBVIOUS
        <4>2. PICK t \in [Webs -> TwitchIds \cup {NoTwitch}] :
                t = [db.twitch EXCEPT ![w] = NoTwitch]
          BY <1>1, <3>2, DatabaseFields
        <4>3. DatabaseTyped(new)
          BY <1>1, <4>1, <4>2 DEF DatabaseTyped
        <4>4. GrantsOK(new) /\ RosterOK(new)
          BY <1>1, <4>1 DEF DatabaseOK, DatabaseTyped, GrantsOK, RosterOK, Connected,
             ConnectedId, Legal, ActivePlayers
        <4> QED BY <3>2, <4>1, <4>3, <4>4 DEF DisconnectId, DatabaseOK
      <3>3. ASSUME NEW w \in Webs, NEW i \in TwitchIds, ConnectId(w, i)
            PROVE  \E new : DatabaseOK(new) /\ Commits(new, migrating)
        <4>1. PICK t \in [Webs -> TwitchIds \cup {NoTwitch}] :
                t = [db.twitch EXCEPT ![w] = i]
          BY <1>1, <3>3, DatabaseFields
        <4>2. PICK g : g = [id |-> i, user |-> w, source |-> "connect"]
          OBVIOUS
        <4>3. PICK d : d = [db EXCEPT !.twitch = t]
          OBVIOUS
        <4>4. DatabaseOK(d) /\ DatabaseTyped(d) /\ d.joins = db.joins /\ d.joined = db.joined
              /\ d.soft = db.soft /\ d.grants = db.grants
          <5>1. DatabaseTyped(d) /\ d.joins = db.joins /\ d.joined = db.joined
                /\ d.soft = db.soft /\ d.grants = db.grants
            BY <1>1, <4>3 DEF DatabaseTyped
          <5>2. GrantsOK(d) /\ RosterOK(d)
            BY <1>1, <4>3 DEF DatabaseOK, DatabaseTyped, GrantsOK, RosterOK, Connected,
               ConnectedId, Legal, ActivePlayers
          <5> QED BY <5>1, <5>2 DEF DatabaseOK
        <4>5. CASE i \in db.soft
          <5>1. PICK new : new = [d EXCEPT !.soft = @ \ {i}, !.joined = @ \cup {w}]
            OBVIOUS
          <5>2. Commits(new, migrating)
            BY <3>3, <4>1, <4>3, <4>5, <5>1 DEF ConnectId
          <5>3. DatabaseTyped(new)
            BY <3>3, <4>4, <5>1 DEF DatabaseTyped
          <5>4. GrantsOK(new) /\ RosterOK(new)
            BY <3>3, <4>4, <5>1 DEF DatabaseOK, DatabaseTyped, GrantsOK, RosterOK, Connected,
               ConnectedId, Legal, ActivePlayers
          <5> QED BY <5>2, <5>3, <5>4 DEF DatabaseOK
        <4>6. CASE i \notin db.soft /\ w \notin db.joined /\ Inserted(db, g)
          <5>1. PICK rowOf : rowOf = [d EXCEPT !.grants = Granted(db, g)]
            OBVIOUS
          <5>2. PICK new : new = [Paid(rowOf, w, i) EXCEPT !.unknown = @ \cup (db.joins \cap {i})]
            OBVIOUS
          <5>3. Commits(new, migrating)
            <6>1. Granted(d, g) = Granted(db, g)
              BY <4>4 DEF Granted, Inserted
            <6> QED BY <3>3, <4>1, <4>2, <4>3, <4>6, <5>1, <5>2, <6>1 DEF ConnectId
          <5>4. PICK told : told = [d EXCEPT !.unknown = @ \cup (db.joins \cap {i})]
            OBVIOUS
          <5>5. /\ DatabaseOK(told) /\ w \notin told.joined
                /\ told.grants = d.grants
                /\ i \in told.joins => i \in told.unknown
            <6>1. /\ DatabaseTyped(told) /\ w \notin told.joined
                  /\ told.grants = d.grants
                  /\ i \in told.joins => i \in told.unknown
              BY <4>4, <4>6, <5>4 DEF DatabaseTyped
            <6>2. GrantsOK(told) /\ RosterOK(told)
              BY <4>4, <5>4 DEF DatabaseOK, DatabaseTyped, GrantsOK, RosterOK, Connected,
                 ConnectedId, Legal, ActivePlayers
            <6> QED BY <6>1, <6>2 DEF DatabaseOK
          <5>6. Inserted(told, g)
            BY <4>4, <4>6, <5>5 DEF Inserted
          <5>12. Granted(told, g) = Granted(db, g)
            BY <4>4, <4>6, <5>5, <5>6 DEF Granted
          <5>7. PICK due : due = [told EXCEPT !.grants = Granted(told, g)]
            OBVIOUS
          <5>8. /\ DatabaseOK(due) /\ told.paidUser[w] = 0 /\ g \in due.grants
                /\ i \notin told.joins => told.paidId[i] = 0
            <6>1. w \notin told.joined
              BY <5>5
            <6>2. i \in told.joins => i \in told.unknown
              BY <5>5
            <6>3. DatabaseOK(told)
              BY <5>5
            <6>4. \A e : e = [told EXCEPT !.grants = Granted(told, g)] => DatabaseOK(e)
              BY <3>3, <4>2, <5>6, <6>1, <6>2, <6>3, RowAdded
            <6> QED BY ONLY <3>3, <4>2, <5>6, <5>7, <6>1, <6>2, <6>3, RowAdded
          <5>9. /\ due.paidUser = told.paidUser /\ due.paidId = told.paidId
                /\ due.unknown = told.unknown
            BY <5>5, <5>7 DEF DatabaseOK, DatabaseTyped
          <5>10. DatabaseOK(Paid(due, w, i))
            <6>1. PICK paid : paid = Paid(due, w, i)
              OBVIOUS
            <6> QED BY <3>3, <4>2, <5>5, <5>8, <5>9, <6>1, RowPaid
          <5>11. new = Paid(due, w, i)
            BY ZenonT(30), <4>4, <5>1, <5>2, <5>4, <5>12, <5>7 DEF DatabaseTyped, Paid
          <5> QED BY <5>3, <5>10, <5>11
        <4>7. CASE i \notin db.soft /\ ~(w \notin db.joined /\ Inserted(db, g))
          BY <3>3, <4>1, <4>2, <4>3, <4>4, <4>7 DEF ConnectId
        <4> QED BY <4>5, <4>6, <4>7
      <3> QED BY <3>1, <3>2, <3>3
    <2> QED BY <2>1, <2>2
  <1> QED BY <1>1, <1>2, AtRest DEF Commits

\* The invariant holds, for every number of accounts and cards.
THEOREM MigrationsInvariant == MigrationsSpec => []MigrationsInv
  <1>1. MigrationsInit => MigrationsInv
    <2> SUFFICES ASSUME MigrationsInit PROVE MigrationsInv
      OBVIOUS
    <2>1. DatabaseOK(db) /\ view = db /\ migrating = Stopped
      BY NewIsOK, MigrationsAssumption DEF MigrationsInit
    <2> QED BY <2>1 DEF MigrationsInv, Places, Stopped, At, PayingOK, CreditingOK
  <1>2. MigrationsInv /\ [StartersNext \/ RostersNext]_migrationVars => MigrationsInv'
    <2> SUFFICES ASSUME MigrationsInv, [StartersNext \/ RostersNext]_migrationVars
                 PROVE  MigrationsInv'
      OBVIOUS
    <2>1. CASE UNCHANGED migrationVars
      BY <2>1 DEF migrationVars, MigrationsInv, PayingOK, CreditingOK
    <2>2. CASE StartNext
      BY <2>2, StarterStartKept, RepairKept, GrantKept DEF StartNext
    <2>3. CASE \E w \in Webs : DisconnectId(w) \/ \E i \in TwitchIds : ConnectId(w, i)
      BY <2>3, ServingKept
    <2>4. CASE \E c \in Deck : PutOnRoster(c)
      BY <2>4, ServingKept
    <2> QED BY <2>1, <2>2, <2>3, <2>4 DEF StartersNext, RostersNext
  <1> QED BY <1>1, <1>2, PTL DEF MigrationsSpec

\* What the migrations read is typed, wherever they were cut short.
THEOREM MigrationsTyped == MigrationsSpec => []MigrationsTypeOK
  <1>1. MigrationsInv => MigrationsTypeOK
    BY DatabaseFields, PlaceFields
       DEF MigrationsInv, DatabaseOK, MigrationsTypeOK, Migrations
  <1> QED BY <1>1, MigrationsInvariant, PTL

\* The starter is paid once per account and per Twitch id, and once the index is there a
\* roster is legal and lost no card it need not: run_migrations, however it is cut short.
THEOREM DatabasesRepairedHolds == MigrationsSpec => []DatabasesRepaired
  <1>1. MigrationsInv => StarterPaidOnce
    <2> SUFFICES ASSUME MigrationsInv PROVE StarterPaidOnce
      OBVIOUS
    <2>1. DatabaseTyped(db) /\ GrantsOK(db)
      BY DEF MigrationsInv, DatabaseOK
    <2> QED BY <2>1, DatabaseFields DEF StarterPaidOnce, GrantsOK, Connected
  <1>2. MigrationsInv => RosterRepaired
    <2> SUFFICES ASSUME MigrationsInv, db.index PROVE RosterRepaired
      BY DEF RosterRepaired
    <2>1. /\ Legal(db) /\ RosterOK(db) /\ db.players \in Nat /\ db.active \subseteq Deck
      BY DatabaseFields DEF MigrationsInv, DatabaseOK, RosterOK
    <2>2. /\ Cardinality(ActivePlayers(db)) = Cardinality(db.active)
          /\ Cardinality(db.active) \in Nat
      BY <2>1, PlayersCounted DEF Legal
    <2>3. PICK m : m = Min({RosterLimit, db.players})
      OBVIOUS
    <2>4. m \in Nat /\ m <= RosterLimit /\ m <= db.players
      <3>1. IsFiniteSet({RosterLimit, db.players})
        <4>1. {RosterLimit, db.players} = {RosterLimit} \cup {db.players}
          OBVIOUS
        <4>2. IsFiniteSet({RosterLimit})
          BY FS_Singleton
        <4> QED BY ONLY <4>1, <4>2, FS_AddElement, Zenon
      <3>2. RosterLimit \in Nat
        BY MigrationsAssumption
      <3> QED BY <2>1, <2>3, <3>1, <3>2, MinIs
    <2> QED BY <2>1, <2>2, <2>3, <2>4, MigrationsAssumption
        DEF RosterRepaired, RosterOK, Legal
  <1> QED BY <1>1, <1>2, MigrationsInvariant, PTL DEF DatabasesRepaired
=============================================================================
