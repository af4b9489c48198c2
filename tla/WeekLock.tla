------------------------------ MODULE WeekLock ------------------------------
(***************************************************************************)
(* Weeks, their lock and the roster snapshot (backend/weeks.py,            *)
(* routers/admin_weeks.py and the maintenance loop of main.py).            *)
(*                                                                         *)
(* The loop's auto_lock_weeks reads the due weeks and, for the first one,  *)
(* the accounts already in its snapshot, the active cards and the bench    *)
(* cards, each in a SELECT of its own and without a lock.  Its first write *)
(* takes SQLite's write lock, so the other due weeks are snapshot, the     *)
(* accounts to credit are read and everything is committed in one step.    *)
(*                                                                         *)
(* Week ids are handed out as SQLite does, one above the largest id in the *)
(* table, so the id of a deleted last week is used again.                  *)
(*                                                                         *)
(* Left out: the order of the rows of a snapshot, cards of removed players *)
(* and cards changing owner, the demo clock, the end of a season.          *)
(***************************************************************************)
EXTENDS Integers, FiniteSets, FiniteSetsExt

CONSTANTS
  Users,        \* accounts that may register
  Cards,        \* cards that may be drawn
  Admins,       \* admin requests in flight at the same time
  RosterLimit,  \* ROSTER_LIMIT
  MaxWeeks,     \* bound on week ids
  MaxTime,      \* bound on the clock
  MaxEdits,     \* bound on the admins' writes to the weeks table
  None          \* the owner of a card not drawn yet

ASSUME WeekLockAssumption ==
  /\ IsFiniteSet(Users) /\ IsFiniteSet(Cards)
  /\ {RosterLimit, MaxWeeks, MaxTime, MaxEdits} \subseteq Nat
  /\ None \notin Users \cup 1..MaxWeeks

VARIABLES
  now,         \* clock.now
  week,        \* the weeks table
  rosterRows,  \* rows of weekly_roster_entries with is_bench = 0
  benchRows,   \* rows of weekly_roster_entries with is_bench = 1
  users,       \* the users table
  owner,       \* cards.owner_id
  active,      \* cards.is_active
  grants,      \* per account, the tokens that week locks credited
  loop,        \* what the maintenance loop has read in this pass
  req,         \* what each admin request has read
  edits        \* number of admin writes, for MaxEdits only

gameVars == <<users, owner, active>>
rowVars == <<rosterRows, benchRows, grants>>
vars == <<now, week, rosterRows, benchRows, users, owner, active, grants, loop, req, edits>>

Weeks == 1..MaxWeeks
Times == 0..MaxTime
Absent == [exists |-> FALSE]
Idle == [at |-> "idle"]
NoRequest == [op |-> "none"]

-----------------------------------------------------------------------------
(* Accounts and rosters between locks *)

Register(u) ==
  /\ u \notin users
  /\ users' = users \cup {u}
  /\ UNCHANGED <<now, week, rowVars, owner, active, loop, req, edits>>

Owned(u) == {c \in Cards : owner[c] = u}

\* A draw: the card goes to the roster if it fits.
TakeCard(u, c) ==
  /\ u \in users /\ owner[c] = None
  /\ owner' = [owner EXCEPT ![c] = u]
  /\ active' = [active EXCEPT
       ![c] = Cardinality({d \in Owned(u) : active[d]}) < RosterLimit]
  /\ UNCHANGED <<now, week, rowVars, users, loop, req, edits>>

\* Any roster change of the site or the panel: one transaction, any legal roster.
ChangeRoster(u, A) ==
  /\ u \in users /\ A \subseteq Owned(u) /\ Cardinality(A) <= RosterLimit
  /\ active' = [c \in Cards |-> c \in A \/ (owner[c] # u /\ active[c])]
  /\ UNCHANGED <<now, week, rowVars, users, owner, loop, req, edits>>

Tick ==
  /\ now < MaxTime
  /\ now' = now + 1
  /\ UNCHANGED <<week, rowVars, gameVars, loop, req, edits>>

-----------------------------------------------------------------------------
(* auto_lock_weeks *)

Existing == {w \in Weeks : week[w].exists}

DueLockedToo == {w \in Existing : week[w].start <= now}
Due == {w \in Existing : week[w].start <= now /\ ~week[w].locked}

RosterCards == {c \in Cards : owner[c] # None /\ active[c]}
BenchCards == {c \in Cards : owner[c] # None /\ ~active[c]}

\* already_snapshotted
InSnapshotNever(w) == {}
InSnapshot(w) == {u \in Users : \E c \in Owned(u) : rosterRows[w][c] + benchRows[w][c] > 0}

NotOf(cards, done) == {c \in cards : owner[c] \notin done}

ReadDue ==
  /\ loop = Idle /\ Due # {}
  /\ \E w \in Due : loop' = [at |-> "due", due |-> Due, first |-> w]
  /\ UNCHANGED <<now, week, rowVars, gameVars, req, edits>>

ReadSnapshotted ==
  /\ loop.at = "due"
  /\ loop' = [at |-> "snapshotted", due |-> loop.due, first |-> loop.first,
              done |-> InSnapshot(loop.first)]
  /\ UNCHANGED <<now, week, rowVars, gameVars, req, edits>>

ReadActive ==
  /\ loop.at = "snapshotted"
  /\ loop' = [at |-> "active", due |-> loop.due, first |-> loop.first,
              done |-> loop.done, roster |-> RosterCards]
  /\ UNCHANGED <<now, week, rowVars, gameVars, req, edits>>

ReadBench ==
  /\ loop.at = "active"
  /\ loop' = [at |-> "bench", due |-> loop.due, first |-> loop.first,
              done |-> loop.done, roster |-> loop.roster, bench |-> BenchCards]
  /\ UNCHANGED <<now, week, rowVars, gameVars, req, edits>>

\* The rows of week w after the pass, if it adds the cards in first to the first
\* due week and those in current to the others.
AddRows(rows, w, first, current) ==
  LET added == IF w = loop.first THEN NotOf(first, loop.done)
               ELSE IF w \in loop.due THEN NotOf(current, InSnapshot(w))
               ELSE {}
  IN [c \in Cards |-> rows[w][c] + (IF c \in added THEN 1 ELSE 0)]

GrantsPerWeek == [u \in Users |-> grants[u] + (IF u \in users THEN Cardinality(loop.due) ELSE 0)]
Credited == [u \in Users |-> grants[u] + (IF u \in users THEN 1 ELSE 0)]

\* One commit: snapshots, is_locked, one token for every account.
CommitLock ==
  /\ loop.at = "bench"
  /\ loop.due \subseteq Existing
  /\ rosterRows' = [w \in Weeks |-> AddRows(rosterRows, w, loop.roster, RosterCards)]
  /\ benchRows' = [w \in Weeks |-> AddRows(benchRows, w, loop.bench, BenchCards)]
  /\ week' = [w \in Weeks |->
       IF w \in loop.due THEN [week[w] EXCEPT !.locked = TRUE] ELSE week[w]]
  /\ grants' = Credited
  /\ loop' = Idle
  /\ UNCHANGED <<now, gameVars, req, edits>>

\* A due week was deleted since: the UPDATE misses its row, StaleDataError is
\* logged, the session is closed and the next tick starts again.
AfterErrorStopped == [loop EXCEPT !.at = "stopped"]
AfterError == Idle
FailLock ==
  /\ loop.at = "bench"
  /\ ~(loop.due \subseteq Existing)
  /\ loop' = AfterError
  /\ UNCHANGED <<now, week, rowVars, gameVars, req, edits>>

Loop == ReadDue \/ ReadSnapshotted \/ ReadActive \/ ReadBench \/ CommitLock \/ FailLock

-----------------------------------------------------------------------------
(* The admin's week table *)

RangesUnordered == [start : Times, end : Times]
Ranges == {r \in [start : Times, end : Times] : r.start < r.end}

Overlaps(r, w) == week[w].start < r.end /\ week[w].end > r.start

HasOverlapLocked(r, except) ==
  \E w \in Existing \ {except} : week[w].locked /\ Overlaps(r, w)
\* _check_week_overlap refuses the range.
HasOverlap(r, except) == \E w \in Existing \ {except} : Overlaps(r, w)

Answer(a) == req' = [req EXCEPT ![a] = NoRequest]

\* Two SELECTs at most before the INSERT: the overlap check is not locked.
BeginCreate(a, r) ==
  /\ req[a] = NoRequest /\ edits < MaxEdits
  /\ ~HasOverlap(r, None)
  /\ req' = [req EXCEPT ![a] = [op |-> "create", to |-> r]]
  /\ UNCHANGED <<now, week, rowVars, gameVars, loop, edits>>

NextId == Max(Existing \cup {0}) + 1

CommitCreate(a) ==
  /\ req[a].op = "create" /\ NextId \in Weeks /\ edits < MaxEdits
  /\ week' = [week EXCEPT ![NextId] =
       [exists |-> TRUE, start |-> req[a].to.start, end |-> req[a].to.end, locked |-> FALSE]]
  /\ edits' = edits + 1
  /\ Answer(a)
  /\ UNCHANGED <<now, rowVars, gameVars, loop>>

BeginEdit(a, w, r) ==
  /\ req[a] = NoRequest /\ edits < MaxEdits
  /\ w \in Existing /\ ~week[w].locked
  /\ req' = [req EXCEPT ![a] = [op |-> "edit", week |-> w, to |-> r,
                                read |-> [start |-> week[w].start, end |-> week[w].end]]]
  /\ UNCHANGED <<now, week, rowVars, gameVars, loop, edits>>

\* The overlap query flushes the edit first, so it runs under the write lock;
\* only the columns that differ from what was read are written.
CommitEdit(a) ==
  LET w == req[a].week
      to == req[a].to
      read == req[a].read
  IN /\ req[a].op = "edit" /\ edits < MaxEdits
     /\ w \in Existing /\ ~HasOverlap(to, w)
     /\ week' = [week EXCEPT
          ![w].start = IF to.start # read.start THEN to.start ELSE @,
          ![w].end = IF to.end # read.end THEN to.end ELSE @]
     /\ edits' = edits + 1
     /\ Answer(a)
     /\ UNCHANGED <<now, rowVars, gameVars, loop>>

\* 409 for an overlap, or the week is gone: rolled back.
RefuseEdit(a) ==
  /\ req[a].op = "edit"
  /\ req[a].week \in Existing => HasOverlap(req[a].to, req[a].week)
  /\ Answer(a)
  /\ UNCHANGED <<now, week, rowVars, gameVars, loop, edits>>

BeginDelete(a, w) ==
  /\ req[a] = NoRequest /\ edits < MaxEdits
  /\ w \in Existing /\ ~week[w].locked
  /\ \A c \in Cards : rosterRows[w][c] + benchRows[w][c] = 0
  /\ req' = [req EXCEPT ![a] = [op |-> "delete", week |-> w]]
  /\ UNCHANGED <<now, week, rowVars, gameVars, loop, edits>>

CommitDelete(a) ==
  /\ req[a].op = "delete" /\ edits < MaxEdits
  /\ week' = [week EXCEPT ![req[a].week] = Absent]
  /\ edits' = edits + 1
  /\ Answer(a)
  /\ UNCHANGED <<now, rowVars, gameVars, loop>>

-----------------------------------------------------------------------------
Init ==
  /\ now = 0
  /\ week = [w \in Weeks |-> Absent]
  /\ rosterRows = [w \in Weeks |-> [c \in Cards |-> 0]]
  /\ benchRows = [w \in Weeks |-> [c \in Cards |-> 0]]
  /\ users = {}
  /\ owner = [c \in Cards |-> None]
  /\ active = [c \in Cards |-> FALSE]
  /\ grants = [u \in Users |-> 0]
  /\ loop = Idle
  /\ req = [a \in Admins |-> NoRequest]
  /\ edits = 0

Admin(a) ==
  \/ \E r \in Ranges : BeginCreate(a, r)
  \/ CommitCreate(a)
  \/ \E w \in Weeks, r \in Ranges : BeginEdit(a, w, r)
  \/ CommitEdit(a)
  \/ RefuseEdit(a)
  \/ \E w \in Weeks : BeginDelete(a, w)
  \/ CommitDelete(a)

Next ==
  \/ \E u \in Users : Register(u)
  \/ \E u \in Users, c \in Cards : TakeCard(u, c)
  \/ \E u \in Users, A \in SUBSET Cards : ChangeRoster(u, A)
  \/ Tick
  \/ Loop
  \/ \E a \in Admins : Admin(a)

\* The loop's thread catches every exception and tries again at the next tick.
Spec == Init /\ [][Next]_vars /\ WF_vars(Loop)

-----------------------------------------------------------------------------
(* Properties *)

\* Types of the rows; a week ends after it starts, and a pass of the loop has
\* found a due week.
TypeOK ==
  /\ now \in Times
  /\ \A w \in Weeks : week[w] = Absent \/
       /\ week[w] \in [exists : {TRUE}, start : Times, end : Times, locked : BOOLEAN]
       /\ week[w].start < week[w].end
  /\ loop = Idle \/ loop.first \in loop.due
  /\ rosterRows \in [Weeks -> [Cards -> Nat]]
  /\ benchRows \in [Weeks -> [Cards -> Nat]]
  /\ users \subseteq Users
  /\ owner \in [Cards -> Users \cup {None}]
  /\ active \in [Cards -> BOOLEAN]
  /\ grants \in [Users -> Nat]
  /\ edits \in 0..MaxEdits

\* Whatever happens to a week and its id before the lock, a snapshot has at
\* most one roster row for a card and at most ROSTER_LIMIT of them per account:
\* no card is counted twice in a week's points.
SnapshotLegal ==
  \A w \in Weeks :
    /\ \A c \in Cards : rosterRows[w][c] <= 1
    /\ \A u \in Users : Cardinality({c \in Owned(u) : rosterRows[w][c] > 0}) <= RosterLimit

\* With one admin at a time the overlap check keeps the weeks' ranges apart, so
\* a match belongs to one week ("Overlap prevention").
WeeksDisjoint ==
  \A v, w \in Existing : v # w =>
    week[v].end <= week[w].start \/ week[w].end <= week[v].start

\* Locking is idempotent: the rows of a locked week never change again, whoever
\* draws or registers later.
SnapshotImmutable ==
  [][\A w \in Existing : (week[w].locked /\ week'[w].exists /\ week'[w].locked) =>
       rosterRows'[w] = rosterRows[w] /\ benchRows'[w] = benchRows[w]]_vars

\* Tokens are credited exactly by the steps that lock a week, one to every
\* account: a pass that fails or is repeated pays nobody.
GrantsWithLock ==
  [][LET locks == \E w \in Weeks : /\ week'[w].exists /\ week'[w].locked
                                   /\ ~(week[w].exists /\ week[w].locked)
     IN \A u \in Users : grants'[u] = grants[u] + (IF locks /\ u \in users THEN 1 ELSE 0)]_vars

\* A week whose start has passed is locked in the end, even if the pass that
\* finds it fails because another due week is deleted.
DueWeeksGetLocked ==
  \A w \in Weeks : (w \in Due) ~> (w \notin Due)

\* "Locked weeks are read-only: they cannot be edited or deleted."
LockedWeeksReadOnly ==
  [][\A w \in Existing : week[w].locked => week'[w] = week[w]]_vars

\* A lock copies "each user's current active roster" and saves "the bench too":
\* a card is an active card of the week or a bench card of it, not both.
SnapshotConsistent ==
  \A w \in Weeks, c \in Cards : rosterRows[w][c] + benchRows[w][c] <= 1

=============================================================================
