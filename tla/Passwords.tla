----------------------------- MODULE Passwords -----------------------------
(***************************************************************************)
(* Passwords: login with its lockout, reset links and password changes     *)
(* (backend/routers/auth.py, routers/profile.py).                          *)
(*                                                                         *)
(* bcrypt runs for a noticeable time, so the check of a password and the   *)
(* transaction that acts on it are two steps; so are the look-up of a      *)
(* reset link and its use.  A password is its version.  A session is the   *)
(* version it was opened with; its times are in module Sessions.  Left     *)
(* out: the per-address half of the lockout, the wording of mails.         *)
(***************************************************************************)
EXTENDS Integers, FiniteSets

CONSTANTS
  Accounts,        \* accounts with a password and a mail address
  LoginClients,    \* requests in flight
  Links,           \* reset links (bound on links known at the same time)
  LockoutAfter,    \* failed logins inside the window that lock a username
  MaxPassword      \* bound on password changes

ASSUME PasswordsAssumption ==
  /\ LockoutAfter \in Nat \ {0} /\ MaxPassword \in Nat
  /\ IsFiniteSet(LoginClients)

VARIABLES
  password,   \* users.password_hash, as a version
  opened,     \* user_sessions of each account
  link,       \* password_reset_tokens: the live links of each account
  cooldown,   \* _last_forgot_password_request
  failures,   \* _failed_login_attempts inside the window
  loginReq    \* requests in flight

passwordVars == <<password, opened, link, cooldown, failures, loginReq>>

LoginIdle == [op |-> "idle"]

-----------------------------------------------------------------------------
(* Login and lockout *)

LockedOut(u) == failures[u] >= LockoutAfter

Finish(c) == loginReq' = [loginReq EXCEPT ![c] = LoginIdle]

Start(c, request) ==
  /\ loginReq[c] = LoginIdle
  /\ loginReq' = [loginReq EXCEPT ![c] = request]
  /\ UNCHANGED <<password, opened, link, cooldown, failures>>

\* The lockout check comes before the password check, of login and of reauth.
BeginLogin(c, u) ==
  /\ ~LockedOut(u)
  /\ Start(c, [op |-> "login", user |-> u, version |-> password[u]])

BeginGuess(c, u) ==
  /\ ~LockedOut(u)
  /\ Start(c, [op |-> "guess", user |-> u])

\* late marks a session whose password changed while the login ran.
CommitLogin(c) ==
  LET q == loginReq[c]
  IN /\ q.op = "login"
     /\ opened' = [opened EXCEPT ![q.user] =
          @ \cup {[version |-> q.version, late |-> q.version # password[q.user]]}]
     /\ failures' = [failures EXCEPT ![q.user] = 0]
     /\ Finish(c)
     /\ UNCHANGED <<password, link, cooldown>>

CommitGuess(c) ==
  /\ loginReq[c].op = "guess"
  /\ failures' = [failures EXCEPT ![loginReq[c].user] = @ + 1]
  /\ Finish(c)
  /\ UNCHANGED <<password, opened, link, cooldown>>

\* The window of the oldest failure ends.
ForgetFailure(u) ==
  /\ failures[u] > 0
  /\ failures' = [failures EXCEPT ![u] = @ - 1]
  /\ UNCHANGED <<password, opened, link, cooldown, loginReq>>

\* Any logout, expiry or clean-up.
SessionEnds(u) ==
  /\ \E s \in opened[u] : opened' = [opened EXCEPT ![u] = @ \ {s}]
  /\ UNCHANGED <<password, link, cooldown, failures, loginReq>>

-----------------------------------------------------------------------------
(* Reset links *)

\* A link nobody knows yet: links are random.
FreshLinks ==
  Links \ ((UNION {link[u] : u \in Accounts}) \cup
           {loginReq[c].link : c \in {d \in LoginClients : loginReq[d].op = "reset"}})

LinksAfter(u, l) == {l}

\* forgot_password deletes the old link, adds one and sends the mail in one
\* transaction.  A failed send undoes all of it, the cooldown included.
ForgotPassword(u, sent) ==
  /\ ~cooldown[u]
  /\ IF sent
     THEN /\ \E l \in FreshLinks : link' = [link EXCEPT ![u] = LinksAfter(u, l)]
          /\ cooldown' = [cooldown EXCEPT ![u] = TRUE]
     ELSE UNCHANGED <<link, cooldown>>
  /\ UNCHANGED <<password, opened, failures, loginReq>>

CooldownOver(u) ==
  /\ cooldown[u]
  /\ cooldown' = [cooldown EXCEPT ![u] = FALSE]
  /\ UNCHANGED <<password, opened, link, failures, loginReq>>

LinkExpires(u) ==
  /\ \E l \in link[u] : link' = [link EXCEPT ![u] = @ \ {l}]
  /\ UNCHANGED <<password, opened, cooldown, failures, loginReq>>

\* The link is looked up before the write transaction.
BeginReset(c, u) ==
  \E l \in link[u] : Start(c, [op |-> "reset", user |-> u, link |-> l])

KeptByResetAll(u) == opened[u]
KeptByReset(u) == {}

\* The row of the link may be gone by now: deleting it again is no error.
CommitReset(c) ==
  LET u == loginReq[c].user
  IN /\ loginReq[c].op = "reset"
     /\ password[u] < MaxPassword
     /\ password' = [password EXCEPT ![u] = @ + 1]
     /\ opened' = [opened EXCEPT ![u] = KeptByReset(u)]
     /\ link' = [link EXCEPT ![u] = @ \ {loginReq[c].link}]
     /\ failures' = [failures EXCEPT ![u] = 0]
     /\ Finish(c)
     /\ UNCHANGED cooldown

-----------------------------------------------------------------------------
(* Password change on the profile page *)

\* The current password is verified; a session of the account is needed.
BeginChangePassword(c, u) ==
  /\ opened[u] # {}
  /\ Start(c, [op |-> "change", user |-> u])

\* Links and the other sessions go, the requester's session gets a new id.
CommitChangePassword(c) ==
  LET u == loginReq[c].user
  IN /\ loginReq[c].op = "change"
     /\ password[u] < MaxPassword
     /\ password' = [password EXCEPT ![u] = @ + 1]
     /\ opened' = [opened EXCEPT ![u] = {[version |-> password[u] + 1, late |-> FALSE]}]
     /\ link' = [link EXCEPT ![u] = {}]
     /\ Finish(c)
     /\ UNCHANGED <<cooldown, failures>>

-----------------------------------------------------------------------------
PasswordsInit ==
  /\ password = [u \in Accounts |-> 0]
  /\ opened = [u \in Accounts |-> {}]
  /\ link = [u \in Accounts |-> {}]
  /\ cooldown = [u \in Accounts |-> FALSE]
  /\ failures = [u \in Accounts |-> 0]
  /\ loginReq = [c \in LoginClients |-> LoginIdle]

PasswordsNext ==
  \/ \E c \in LoginClients :
       \/ CommitLogin(c) \/ CommitGuess(c) \/ CommitReset(c) \/ CommitChangePassword(c)
       \/ \E u \in Accounts :
            BeginLogin(c, u) \/ BeginGuess(c, u) \/ BeginReset(c, u)
              \/ BeginChangePassword(c, u)
  \/ \E u \in Accounts :
       \/ ForgetFailure(u) \/ SessionEnds(u) \/ CooldownOver(u) \/ LinkExpires(u)
       \/ \E sent \in BOOLEAN : ForgotPassword(u, sent)

PasswordsSpec == PasswordsInit /\ [][PasswordsNext]_passwordVars

-----------------------------------------------------------------------------
(* Properties *)

\* The tables and the in-memory counters keep their types.
PasswordsTypeOK ==
  /\ password \in [Accounts -> 0..MaxPassword]
  /\ \A u \in Accounts : \A s \in opened[u] :
       s.version \in 0..MaxPassword /\ s.late \in BOOLEAN
  /\ link \in [Accounts -> SUBSET Links] /\ failures \in [Accounts -> Nat]
  /\ cooldown \in [Accounts -> BOOLEAN]

\* After a reset or a change no session is left that was opened with the old
\* password, except by a login that was already running.
NoSessionOfOldPassword ==
  \A u \in Accounts : \A s \in opened[u] : s.version = password[u] \/ s.late
=============================================================================
