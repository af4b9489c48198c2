----------------------------- MODULE MatchStore -----------------------------
(***************************************************************************)
(* How a match gets its row and stat rows: the ingest of a league, the     *)
(* parse retry, and matches an admin adds from OpenDota or a replay        *)
(* (backend/ingest.py, manual_match.py, routers/admin_ingest.py,           *)
(* routers/admin_matches.py, main.py).                                     *)
(*                                                                         *)
(* INGEST_LOCK is held over a whole pass, and by an admin's request from   *)
(* its first write on; what a request read before it has the lock stays in *)
(* its session.  Stat rows are "raw" (OpenDota before it parsed the        *)
(* replay), "full" or "replay"; teams, bans, caches and parse requests are *)
(* left out.                                                               *)
(***************************************************************************)
EXTENDS Integers, FiniteSets

CONSTANTS
  GameIds,      \* matches that may be stored
  Listed,       \* those in the list of a monitored league
  MaxRequests   \* bound on the requests admins make

ASSUME MatchStoreAssumption == Listed \subseteq GameIds /\ MaxRequests \in Nat

VARIABLES
  stored,       \* stored[m]: row of matches and its stat rows, or NotStored
  upstream,     \* upstream[m]: what OpenDota answers
  aged,         \* matches older than the retry window
  pass,         \* what holds INGEST_LOCK, or NoPass
  adminReqs,    \* requests of admins between their reads and their writes
  nrequests     \* requests so far

matchStoreVars == <<stored, upstream, aged, pass, adminReqs, nrequests>>

NotStored == [source |-> "none", rows |-> "none", status |-> "none", by |-> 0]
NoPass == [stage |-> "none", by |-> "none", todo |-> {}]
Manual == {"opendota_manual", "replay"}
IsStored(m) == stored[m] # NotStored

-----------------------------------------------------------------------------
(* Ingest of a league *)

\* parse status and rows of an OpenDota answer
Fetched(m) == [rows |-> upstream[m],
               status |-> IF upstream[m] = "full" THEN "parsed" ELSE "unparsed"]

\* The poll loop or an admin starts a pass; the stored matches are read once.
StartIngest(by) ==
  /\ pass = NoPass
  /\ pass' = [stage |-> "ingest", by |-> by, todo |-> {m \in Listed : ~IsStored(m)}]
  /\ UNCHANGED <<stored, upstream, aged, adminReqs, nrequests>>

\* ingest_match; an answer that is missing or too short stores nothing.
IngestMatch(m) ==
  /\ pass.stage = "ingest" /\ m \in pass.todo
  /\ pass' = [pass EXCEPT !.todo = @ \ {m}]
  /\ \/ /\ upstream[m] # "short" /\ ~IsStored(m)
        /\ stored' = [stored EXCEPT ![m] =
             [source |-> "league", rows |-> Fetched(m).rows, status |-> Fetched(m).status,
              by |-> 0]]
     \/ UNCHANGED stored
  /\ UNCHANGED <<upstream, aged, adminReqs, nrequests>>

\* A flush fails, such as on a player an admin inserts at the same time; nothing
\* rolls the session back, so the other matches of the pass fail with it.
IngestFails ==
  /\ pass.stage = "ingest" /\ pass.todo # {}
  /\ pass' = [pass EXCEPT !.todo = {}]
  /\ UNCHANGED <<stored, upstream, aged, adminReqs, nrequests>>

-----------------------------------------------------------------------------
(* Parse retry *)

\* find_unparsed_match_ids
Unparsed ==
  {m \in GameIds : /\ IsStored(m) /\ m \notin aged
                   /\ stored[m].status # "unparseable" /\ stored[m].source # "replay"
                   /\ stored[m].rows = "raw"}

\* The poll loop goes on to the retry; an admin's ingest is over.
EndIngest ==
  /\ pass.stage = "ingest" /\ pass.todo = {}
  /\ pass' = IF pass.by = "poll" THEN [pass EXCEPT !.stage = "retry", !.todo = Unparsed]
             ELSE NoPass
  /\ UNCHANGED <<stored, upstream, aged, adminReqs, nrequests>>
StartRetry ==
  /\ pass = NoPass
  /\ pass' = [stage |-> "retry", by |-> "admin", todo |-> Unparsed]
  /\ UNCHANGED <<stored, upstream, aged, adminReqs, nrequests>>

\* refresh_match_stats once OpenDota has parsed the match.
WithFreshRows(row) == [row EXCEPT !.rows = "full", !.status = "parsed"]
RetryMatch(m) ==
  /\ pass.stage = "retry" /\ m \in pass.todo
  /\ pass' = [pass EXCEPT !.todo = @ \ {m}]
  /\ \/ /\ upstream[m] = "full" /\ stored' = [stored EXCEPT ![m] = WithFreshRows(@)]
     \/ UNCHANGED stored    \* unparsed, unavailable or failed
  /\ UNCHANGED <<upstream, aged, adminReqs, nrequests>>

\* mark_stuck_matches_unparseable, and the lock is released.
Stuck == {m \in aged : stored[m].status = "unparsed" /\ stored[m].source # "replay"}
EndRetry ==
  /\ pass.stage = "retry" /\ pass.todo = {} /\ pass' = NoPass
  /\ \/ stored' = [m \in GameIds |-> IF m \in Stuck
                     THEN [stored[m] EXCEPT !.status = "unparseable"] ELSE stored[m]]
     \/ UNCHANGED stored
  /\ UNCHANGED <<upstream, aged, adminReqs, nrequests>>

-----------------------------------------------------------------------------
(* Requests of admins *)

Arrive(r) ==
  /\ nrequests < MaxRequests /\ nrequests' = nrequests + 1
  /\ adminReqs' = adminReqs \cup {[r EXCEPT !.id = nrequests + 1]}
  /\ UNCHANGED <<stored, upstream, aged, pass>>
Leaves(r) ==
  /\ adminReqs' = adminReqs \ {r} /\ UNCHANGED <<upstream, aged, pass, nrequests>>

\* existing_match: what refuses to be replaced.
MayReplace(row, confirm) == row.source # "league" /\ (row = NotStored \/ confirm)

\* manual_match.store up to the lock.  The OpenDota fetch lies between an earlier
\* check and this one.
BeginAdd(m, source, partial, confirm) ==
  /\ MayReplace(stored[m], confirm)
  /\ source = "replay" \/ (~partial /\ upstream[m] # "short")
  /\ Arrive([id |-> 0, op |-> "add", game |-> m, saw |-> stored[m], confirm |-> confirm,
             data |-> IF source = "replay"
                      THEN [source |-> source, rows |-> "replay",
                            status |-> IF partial THEN "unparseable" ELSE "parsed"]
                      ELSE [source |-> source, rows |-> Fetched(m).rows,
                            status |-> Fetched(m).status]])

\* store_manual_match looks again; a row the session holds is not read again.
Existing(r) == IF r.saw # NotStored THEN r.saw ELSE stored[r.game]
StillMayReplaceUnchecked(r) == TRUE
StillMayReplace(r) == MayReplace(Existing(r), r.saw # NotStored)

\* It has the lock and stores, or the lock or the second look refuses it (409).
CommitAdd(r) ==
  /\ r \in adminReqs /\ r.op = "add" /\ Leaves(r)
  /\ stored' = IF pass = NoPass /\ StillMayReplace(r)
               THEN [stored EXCEPT ![r.game] =
                       [source |-> r.data.source, rows |-> r.data.rows,
                        status |-> r.data.status, by |-> r.id]]
               ELSE stored

\* retry_match_parse up to the lock.
MayRefetch(row) == row # NotStored /\ row.source # "replay"
BeginRefetch(m) ==
  /\ MayRefetch(stored[m])
  /\ Arrive([id |-> 0, op |-> "refetch", game |-> m, saw |-> stored[m]])

\* refresh_match_stats under the lock; the status is written if it differs from the
\* one the session read.
CommitRefetch(r) ==
  /\ r \in adminReqs /\ r.op = "refetch" /\ Leaves(r)
  /\ stored' = IF pass = NoPass /\ upstream[r.game] = "full"
               THEN [stored EXCEPT ![r.game].rows = "full",
                       ![r.game].status = IF r.saw.status = "parsed" THEN @ ELSE "parsed"]
               ELSE stored

\* set_match_scoring: the status an admin sets or takes back.
NewStatus(row, unparseable) ==
  CASE unparseable -> "unparseable"
    [] ~unparseable /\ row.status = "unparseable" ->
         IF row.source # "replay" /\ row.rows = "raw" THEN "unparsed" ELSE "parsed"
    [] OTHER -> row.status
BeginScoring(m, unparseable) ==
  /\ IsStored(m) /\ NewStatus(stored[m], unparseable) # stored[m].status
  /\ Arrive([id |-> 0, op |-> "scoring", game |-> m,
             status |-> NewStatus(stored[m], unparseable)])
CommitScoring(r) ==
  /\ r \in adminReqs /\ r.op = "scoring" /\ Leaves(r)
  /\ stored' = [stored EXCEPT ![r.game].status = r.status]

-----------------------------------------------------------------------------
(* OpenDota, time and the process *)

Upstream(m) ==
  /\ upstream[m] = "raw" /\ upstream' = [upstream EXCEPT ![m] = "full"]
  /\ UNCHANGED <<stored, aged, pass, adminReqs, nrequests>>
Ages(m) ==
  /\ m \notin aged /\ aged' = aged \cup {m}
  /\ UNCHANGED <<stored, upstream, pass, adminReqs, nrequests>>
StopProcess ==
  /\ pass # NoPass \/ adminReqs # {}
  /\ pass' = NoPass /\ adminReqs' = {}
  /\ UNCHANGED <<stored, upstream, aged, nrequests>>

MatchStoreInit ==
  /\ stored = [m \in GameIds |-> NotStored]
  /\ upstream \in [GameIds -> {"raw", "short"}]
  /\ aged = {} /\ pass = NoPass /\ adminReqs = {} /\ nrequests = 0

MatchStoreNext ==
  \/ IngestFails \/ EndIngest \/ StartRetry \/ EndRetry \/ StopProcess
  \/ \E by \in {"poll", "admin"} : StartIngest(by)
  \/ \E m \in GameIds :
       \/ IngestMatch(m) \/ RetryMatch(m) \/ BeginRefetch(m) \/ Upstream(m) \/ Ages(m)
       \/ \E source \in Manual, partial \in BOOLEAN, confirm \in BOOLEAN :
            BeginAdd(m, source, partial, confirm)
       \/ \E unparseable \in BOOLEAN : BeginScoring(m, unparseable)
  \/ \E r \in adminReqs : CommitAdd(r) \/ CommitRefetch(r) \/ CommitScoring(r)

MatchStoreSpec == MatchStoreInit /\ [][MatchStoreNext]_matchStoreVars

-----------------------------------------------------------------------------
(* Properties *)

\* Rows and status a stored match may have together with its source.
MatchStoreTypeOK ==
  /\ pass.todo \subseteq GameIds /\ aged \subseteq GameIds
  /\ \A m \in GameIds :
       \/ stored[m] = NotStored
       \/ /\ stored[m].source \in {"league"} \cup Manual
          /\ stored[m].rows \in {"raw", "full", "replay"}
          /\ stored[m].status \in {"parsed", "unparsed", "unparseable"}
          /\ (stored[m].source = "league") <=> (stored[m].by = 0)

\* A league match is never replaced by what an admin adds; what an admin added is
\* replaced only by an admin who confirmed and knew of it; and the rows of a replay
\* import are never fetched again, unless the request saw the match before the import.
ReplaceRule ==
  \A m \in GameIds : IsStored(m) /\ stored'[m] # stored[m] =>
    LET before == stored[m]
        after == stored'[m]
    IN /\ after.source # "league" => before.source # "league"
       /\ after.by # before.by =>
            \E r \in adminReqs \ adminReqs' :
              r.op = "add" /\ r.game = m /\ r.confirm /\ r.saw # NotStored
       /\ after.by = before.by /\ before.rows = "replay" /\ after.rows # "replay" =>
            \E r \in adminReqs \ adminReqs' : r.op = "refetch" /\ r.saw.source # "replay"
MatchesReplaced == [][ReplaceRule]_matchStoreVars
=============================================================================
