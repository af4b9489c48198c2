------------------------------ MODULE Sessions ------------------------------
(***************************************************************************)
(* Website sessions and the admin right that decides their limits:         *)
(* backend/sessions.py, deps.py, the session handlers of routers/auth.py   *)
(* and the rights of routers/admin_users.py.  Passwords are in module      *)
(* Passwords.                                                              *)
(*                                                                         *)
(* Times are ages: a row carries the ticks since its creation, since the   *)
(* last_seen_at it stores and since the last request it really served.     *)
(***************************************************************************)
EXTENDS Integers, FiniteSets

CONSTANTS
  Members,          \* website accounts
  Browsers,         \* cookie jars
  Sids,             \* session ids (bound on rows at the same time)
  WebClients,       \* requests in flight
  PlayerIdle, PlayerAbsolute, AdminIdle, AdminAbsolute,   \* limits, in ticks
  TouchEvery,       \* SESSION_TOUCH_SECONDS
  NoSid             \* a cookie without a session

ASSUME SessionsAssumption ==
  /\ {PlayerIdle, PlayerAbsolute, AdminIdle, AdminAbsolute, TouchEvery}
       \subseteq Nat \ {0}
  /\ PlayerIdle <= PlayerAbsolute /\ AdminIdle <= AdminAbsolute
  /\ TouchEvery < AdminIdle
  /\ NoSid \notin Sids

VARIABLES
  row,       \* user_sessions
  cookie,    \* the session id each browser sends
  admin,     \* users.is_admin
  webReq     \* requests in flight

sessionsVars == <<row, cookie, admin, webReq>>

NoSession == [user |-> NoSid]
WebIdle == [op |-> "idle"]

-----------------------------------------------------------------------------
(* sessions.py *)

Live == {s \in Sids : row[s] # NoSession}

IdleLimit(u) == IF admin[u] THEN AdminIdle ELSE PlayerIdle
AbsoluteLimit(u) == IF admin[u] THEN AdminAbsolute ELSE PlayerAbsolute

IsExpired(s) ==
  \/ row[s].idle > IdleLimit(row[s].user)
  \/ row[s].age > AbsoluteLimit(row[s].user)

\* validate_request lets the browser in.
Valid(b) == cookie[b] \in Live /\ ~IsExpired(cookie[b])
UserOf(b) == row[cookie[b]].user

\* last_seen_at is written at most once per TouchEvery.
TouchedLate(s) == [row[s] EXCEPT !.quiet = 0,
                                 !.idle = IF @ > TouchEvery THEN 0 ELSE @]
Touched(s) == [row[s] EXCEPT !.quiet = 0,
                             !.idle = IF @ >= TouchEvery THEN 0 ELSE @]

\* role remembers, for RoleOfLogin, the right at the time of the login.
FreshSession(u) ==
  [user |-> u, age |-> 0, idle |-> 0, quiet |-> 0, confirmed |-> FALSE,
   role |-> admin[u]]

SessionsOf(u) == {s \in Live : row[s].user = u}
Without(gone) == [s \in Sids |-> IF s \in gone THEN NoSession ELSE row[s]]

\* An id no browser has seen: ids are random.
Unused == Sids \ (Live \cup {cookie[b] : b \in Browsers})

Close(c) == webReq' = [webReq EXCEPT ![c] = WebIdle]

\* A request that only reads: the session is refused and deleted, or touched.
Request(b) ==
  /\ cookie[b] # NoSid
  /\ IF Valid(b)
     THEN /\ row' = [row EXCEPT ![cookie[b]] = Touched(cookie[b])]
          /\ UNCHANGED cookie
     ELSE /\ row' = Without({cookie[b]})
          /\ cookie' = [cookie EXCEPT ![b] = NoSid]
  /\ UNCHANGED <<admin, webReq>>

\* cleanup_expired, in the maintenance loop.
Cleanup ==
  /\ \E s \in Live : IsExpired(s)
  /\ row' = Without({s \in Live : IsExpired(s)})
  /\ UNCHANGED <<cookie, admin, webReq>>

-----------------------------------------------------------------------------
(* Login, password confirmation, logout *)

\* start_session, at a login or registration: a new id, and the row of the
\* cookie that came along goes.
StartSession(b, u) ==
  /\ \E s \in Unused :
       /\ row' = [Without({cookie[b]}) EXCEPT ![s] = FreshSession(u)]
       /\ cookie' = [cookie EXCEPT ![b] = s]
  /\ UNCHANGED <<admin, webReq>>

\* mark_reauth: the password or the Steam account was confirmed again.
MarkReauth(b) ==
  /\ Valid(b)
  /\ row' = [row EXCEPT ![cookie[b]] = [Touched(cookie[b]) EXCEPT !.confirmed = TRUE]]
  /\ UNCHANGED <<cookie, admin, webReq>>

Logout(b) ==
  /\ cookie[b] # NoSid
  /\ row' = Without({cookie[b]})
  /\ cookie' = [cookie EXCEPT ![b] = NoSid]
  /\ UNCHANGED <<admin, webReq>>

LogoutEverywhere(b) ==
  /\ Valid(b)
  /\ row' = Without(SessionsOf(UserOf(b)))
  /\ cookie' = [cookie EXCEPT ![b] = NoSid]
  /\ UNCHANGED <<admin, webReq>>

\* One of the caller's own sessions; of a foreign id nothing happens.
DeleteSession(b, s) ==
  /\ Valid(b) /\ s \in SessionsOf(UserOf(b))
  /\ row' = IF s = cookie[b] THEN Without({s})
            ELSE [Without({s}) EXCEPT ![cookie[b]] = Touched(cookie[b])]
  /\ cookie' = IF s = cookie[b] THEN [cookie EXCEPT ![b] = NoSid] ELSE cookie
  /\ UNCHANGED <<admin, webReq>>

-----------------------------------------------------------------------------
(* Admin rights *)

\* Destructive admin calls need a password check of this session.
AdminCall(b) == Valid(b) /\ admin[UserOf(b)]

BeginToggleAdmin(c, b, u) ==
  /\ webReq[c] = WebIdle
  /\ AdminCall(b) /\ row[cookie[b]].confirmed
  /\ u # UserOf(b)
  /\ admin[u] => Cardinality({m \in Members : admin[m]}) > 1
  /\ row' = [row EXCEPT ![cookie[b]] = Touched(cookie[b])]
  /\ webReq' = [webReq EXCEPT ![c] = [op |-> "toggle", user |-> u, to |-> ~admin[u]]]
  /\ UNCHANGED <<cookie, admin>>

\* The privilege change ends the sessions, in the same transaction.
EndedByToggleNone(u) == {}
EndedByToggle(u) == SessionsOf(u)

CommitToggleAdmin(c) ==
  LET q == webReq[c]
  IN /\ q.op = "toggle"
     /\ admin' = [admin EXCEPT ![q.user] = q.to]
     /\ row' = Without(EndedByToggle(q.user))
     /\ Close(c)
     /\ UNCHANGED cookie

ForceLogout(b, u) ==
  /\ AdminCall(b)
  /\ row' = Without(SessionsOf(u))
  /\ UNCHANGED <<cookie, admin, webReq>>

-----------------------------------------------------------------------------
\* Ages stop one past the longest limit.
MaxAge == (IF PlayerAbsolute > AdminAbsolute THEN PlayerAbsolute ELSE AdminAbsolute) + 1
Older(a) == IF a < MaxAge THEN a + 1 ELSE a

\* Time passes; a recent password check may stop being recent.
SessionTick ==
  /\ Live # {}
  /\ \E stale \in SUBSET Live :
       row' = [s \in Sids |->
                 IF s \in Live
                 THEN [row[s] EXCEPT !.age = Older(@), !.idle = Older(@),
                                     !.quiet = Older(@),
                                     !.confirmed = @ /\ s \notin stale]
                 ELSE row[s]]
  /\ UNCHANGED <<cookie, admin, webReq>>

SessionsInit ==
  /\ row = [s \in Sids |-> NoSession]
  /\ cookie = [b \in Browsers |-> NoSid]
  /\ admin \in {a \in [Members -> BOOLEAN] : \E u \in Members : a[u]}
  /\ webReq = [c \in WebClients |-> WebIdle]

BrowserStep(b) ==
  \/ Request(b) \/ MarkReauth(b) \/ Logout(b) \/ LogoutEverywhere(b)
  \/ \E s \in Sids : DeleteSession(b, s)
  \/ \E u \in Members : StartSession(b, u) \/ ForceLogout(b, u)

SessionsNext ==
  \/ \E b \in Browsers : BrowserStep(b)
  \/ \E c \in WebClients :
       \/ CommitToggleAdmin(c)
       \/ \E b \in Browsers, u \in Members : BeginToggleAdmin(c, b, u)
  \/ Cleanup \/ SessionTick

SessionsSpec == SessionsInit /\ [][SessionsNext]_sessionsVars

-----------------------------------------------------------------------------
(* Properties *)

\* The tables keep their types.
SessionsTypeOK ==
  /\ \A s \in Live :
       /\ row[s].user \in Members /\ row[s].confirmed \in BOOLEAN
       /\ {row[s].age, row[s].idle, row[s].quiet} \subseteq 0..MaxAge
  /\ cookie \in [Browsers -> Sids \cup {NoSid}]
  /\ admin \in [Members -> BOOLEAN]

\* last_seen_at lags the last request by less than the touch interval, so a
\* user is signed out for idleness only after idle - touch quiet seconds
\* (validate_request against the check of load_settings).
ActiveStaysSignedIn ==
  \A s \in Live :
    /\ row[s].quiet <= row[s].idle
    /\ row[s].idle < MaxAge => row[s].idle < row[s].quiet + TouchEvery

\* No session outlives a change of its account's right: it was opened with the
\* right the account has now, also with two admins toggling at the same time.
RoleOfLogin == \A s \in Live : row[s].role = admin[row[s].user]

\* A session lasts as long as its user is active and no longer than its account's right.
SessionsSound == ActiveStaysSignedIn /\ RoleOfLogin
=============================================================================
