------------------------------- MODULE Season -------------------------------
(***************************************************************************)
(* End Season, Season Reset and the titles that outlive both (backend/     *)
(* routers/admin_season.py, accolades.py, routers/admin_accolades.py, the  *)
(* apply step of scripts/season_placements.py).                            *)
(*                                                                         *)
(* Labels are season numbers.  Standings are read before the first write   *)
(* of End Season, the titles after it; Reset checks the archive before it  *)
(* takes a backup, and deletes after it.  Left out: names and values on    *)
(* titles, the three player awards (inserted as the played rows are), one  *)
(* of the two divisions, what Reset does to cards and tokens (module       *)
(* SoftAccounts).                                                          *)
(***************************************************************************)
EXTENDS Integers, FiniteSetsExt

CONSTANTS
  Pros,          \* league players
  Fantasists,    \* website accounts in the standings
  Numbers,       \* season numbers: 1..n
  AddedKinds,    \* titles an admin adds and removes (bound)
  SetKinds,      \* team titles an admin sets (bound)
  LeagueSeasons, \* seasons the monitored leagues name (bound)
  Forces,        \* values of Reset's force flag (bound)
  MaxEdits,      \* bound on corrections of titles
  MaxDay         \* bound on time

ASSUME SeasonAssumption ==
  /\ Numbers \subseteq Nat \ {0} /\ LeagueSeasons \subseteq Numbers
  /\ SetKinds \subseteq {"champion", "placement"} /\ Forces \subseteq BOOLEAN
  /\ AddedKinds \subseteq {"champion", "placement", "played", "winner"}
  /\ MaxDay \in Nat \ {0} /\ MaxEdits \in Nat

VARIABLES
  day,         \* now
  scored,      \* players with a scored match
  seasonPts,   \* points of each account over the locked weeks
  newestMatch, \* MAX(matches.start_time), 0 without a match
  newestLock,  \* start of the newest locked week, 0 without one
  leagueSeason,\* the season the monitored leagues name, 0 when none
  archive,     \* season_archive
  titles,      \* season_accolades
  seasonStalled, \* a request between its reads and its writes
  edits,       \* corrections of titles begun
  recorded     \* titles End Season found or wrote and no admin took away since

playVars == <<scored, seasonPts, newestMatch, newestLock, leagueSeason>>
seasonVars == <<day, playVars, archive, titles, seasonStalled, edits, recorded>>

SeasonIdle == [op |-> "idle"]
Kinds == {"champion", "placement", "played", "winner"}
Title(n, kind, who) == [season |-> n, kind |-> kind, who |-> who]
TitlesOf(n, kind) == {t \in titles : t.season = n /\ t.kind = kind}
ArchiveOf(n) == {row \in archive : row.season = n}

-----------------------------------------------------------------------------
(* The live season's label *)

Archived == {row.season : row \in archive}
LatestArchive == CHOOSE row \in archive : \A other \in archive : other.at <= row.at

\* From the leagues; else the season just archived while no match is newer than
\* its archive; else the one after the highest known.
CurrentSeason ==
  LET known == Archived \cup {t.season : t \in {x \in titles : x.kind # "champion"}}
  IN CASE leagueSeason # 0 -> leagueSeason
       [] leagueSeason = 0 /\ archive # {} /\ newestMatch # 0
            /\ LatestArchive.at >= newestMatch -> LatestArchive.season
       [] OTHER -> IF known = {} THEN 1 ELSE Max(known) + 1

-----------------------------------------------------------------------------
(* Requests: what one read before its first write, and its writes *)

Ends ==
  IF CurrentSeason \in Numbers \ Archived
  THEN {[op |-> "end", season |-> CurrentSeason, pts |-> seasonPts]}
  ELSE {}

\* uq_season_archive_label_user.  A second End Season fails as a whole.
ArchiveFreeAlways(n) == TRUE
ArchiveFree(n) == ArchiveOf(n) = {}

\* The best of the accounts with points, ties included.
Winners ==
  {u \in Fantasists : seasonPts[u] > 0 /\ \A v \in Fantasists : seasonPts[v] <= seasonPts[u]}

SeasonTitles(n, champions) ==
  {Title(n, "champion", p) : p \in champions}
    \cup {Title(n, "played", p) : p \in scored}
    \cup {Title(n, "winner", u) : u \in IF scored = {} THEN {} ELSE Winners}

\* end_season.  The titles that an admin entered before are kept.
EndSeason(q, by) ==
  /\ q.op = "end"
  /\ \E champions \in SUBSET Pros :
       LET new == SeasonTitles(q.season, champions)
       IN IF ArchiveFree(q.season)
          THEN /\ archive' = archive \cup
                    {[season |-> q.season, who |-> u, pts |-> q.pts[u], at |-> day,
                      by |-> by] : u \in Fantasists}
               /\ titles' = titles \cup new
               /\ recorded' = recorded \cup new
          ELSE UNCHANGED <<archive, titles, recorded>>
  /\ UNCHANGED <<day, playVars>>

\* set_champions, set_placement: the rows are read, then the difference written.
\* run_apply of season_placements.py does the same for each reviewed row.
Sets ==
  IF edits = MaxEdits THEN {} ELSE
  {[op |-> "set", season |-> x[1], kind |-> x[2], players |-> x[3],
    read |-> {t.who : t \in TitlesOf(x[1], x[2])}] :
     x \in {y \in Numbers \X SetKinds \X SUBSET Pros :
             {t.who : t \in TitlesOf(y[1], y[2])} # y[3]}}

DroppedOfAnySeason(q) ==
  {t \in titles : t.kind = q.kind /\ t.who \in Pros \ q.players}
Dropped(q) ==
  {t \in TitlesOf(q.season, q.kind) : t.who \in q.read \ q.players}

SetTitle(q) ==
  LET new == {Title(q.season, q.kind, p) : p \in q.players \ q.read}
  IN /\ q.op = "set"
     /\ IF new \cap titles = {}
        THEN /\ titles' = (titles \ Dropped(q)) \cup new
             /\ recorded' = recorded \ {t \in Dropped(q) : t.season = q.season}
        ELSE UNCHANGED <<titles, recorded>>
     /\ UNCHANGED <<day, playVars, archive>>

\* reset_season: without force a locked week needs an archive that is not older
\* than its start.  A backup runs between this check and the deletes.
Resets ==
  IF \E force \in Forces :
       force \/ newestLock = 0 \/ \E row \in archive : row.at >= newestLock
  THEN {[op |-> "reset"]}
  ELSE {}

TitlesAfterResetNone == {}
TitlesAfterReset == titles

Reset(q) ==
  /\ q.op = "reset"
  /\ scored' = {} /\ seasonPts' = [u \in Fantasists |-> 0]
  /\ newestMatch' = 0 /\ newestLock' = 0 /\ leagueSeason' = 0
  /\ titles' = TitlesAfterReset
  /\ UNCHANGED <<day, archive, recorded>>

SeasonHandle(q, by) == EndSeason(q, by) \/ SetTitle(q) \/ Reset(q)

Edited(so) == edits' = IF so THEN edits + 1 ELSE edits

\* A request runs at once, or stalls between its reads and its writes.
SeasonServe ==
  /\ \E q \in Ends \cup Sets \cup Resets :
       SeasonHandle(q, "prompt") /\ Edited(q.op = "set")
  /\ UNCHANGED seasonStalled
SeasonStall ==
  /\ seasonStalled = SeasonIdle
  /\ \E q \in Ends \cup Sets \cup Resets : seasonStalled' = q /\ Edited(q.op = "set")
  /\ UNCHANGED <<day, playVars, archive, titles, recorded>>
SeasonResume ==
  /\ seasonStalled # SeasonIdle /\ SeasonHandle(seasonStalled, "stalled")
  /\ seasonStalled' = SeasonIdle /\ UNCHANGED edits

\* The backup failed; or the process stopped.
SeasonAbandon ==
  /\ seasonStalled # SeasonIdle /\ seasonStalled' = SeasonIdle
  /\ UNCHANGED <<day, playVars, archive, titles, edits, recorded>>

\* POST and DELETE /admin/season-accolades; the unique index refuses a copy.
Holders(kind) == IF kind = "winner" THEN Fantasists ELSE Pros

AddTitle(n, kind, who) ==
  /\ edits < MaxEdits /\ Edited(TRUE)
  /\ Title(n, kind, who) \notin titles
  /\ titles' = titles \cup {Title(n, kind, who)}
  /\ UNCHANGED <<day, playVars, archive, seasonStalled, recorded>>

RemoveTitle(t) ==
  /\ t \in titles /\ edits < MaxEdits /\ Edited(TRUE)
  /\ titles' = titles \ {t} /\ recorded' = recorded \ {t}
  /\ UNCHANGED <<day, playVars, archive, seasonStalled>>

-----------------------------------------------------------------------------
(* The season goes on *)

NextDay == day < MaxDay /\ day' = day + 1
           /\ UNCHANGED <<playVars, archive, titles, seasonStalled, edits, recorded>>

\* A match of today is ingested: its players are scored, accounts gain points.
PlayMatch(p) ==
  /\ scored' = scored \cup {p} /\ newestMatch' = day
  /\ \/ UNCHANGED seasonPts
     \/ /\ newestLock # 0
        /\ \E u \in Fantasists : seasonPts[u] = 0 /\ seasonPts' = [seasonPts EXCEPT ![u] = 1]
  /\ UNCHANGED <<day, newestLock, leagueSeason, archive, titles, seasonStalled, edits, recorded>>

LockSeasonWeek ==
  /\ newestLock # day /\ newestLock' = day
  /\ UNCHANGED <<day, scored, seasonPts, newestMatch, leagueSeason, archive, titles,
                 seasonStalled, edits, recorded>>

\* An admin monitors the leagues of a season, or stops.
MonitorLeagues(n) ==
  /\ leagueSeason # n /\ leagueSeason' = n
  /\ UNCHANGED <<day, scored, seasonPts, newestMatch, newestLock, archive, titles,
                 seasonStalled, edits, recorded>>

SeasonInit ==
  /\ day = 1 /\ scored = {} /\ seasonPts = [u \in Fantasists |-> 0]
  /\ newestMatch = 0 /\ newestLock = 0 /\ leagueSeason = 0
  /\ archive = {} /\ titles = {} /\ recorded = {}
  /\ seasonStalled = SeasonIdle /\ edits = 0

SeasonNext ==
  \/ NextDay \/ LockSeasonWeek
  \/ \E p \in Pros : PlayMatch(p)
  \/ \E n \in LeagueSeasons \cup {0} : MonitorLeagues(n)
  \/ \E n \in Numbers, kind \in AddedKinds : \E who \in Holders(kind) : AddTitle(n, kind, who)
  \/ \E t \in {x \in titles : x.kind \in AddedKinds} : RemoveTitle(t)
  \/ SeasonServe \/ SeasonStall \/ SeasonResume \/ SeasonAbandon

SeasonSpec == SeasonInit /\ [][SeasonNext]_seasonVars

-----------------------------------------------------------------------------
(* Properties *)

\* The archive and the titles keep their types.
SeasonTypeOK ==
  /\ day \in 1..MaxDay /\ {newestMatch, newestLock} \subseteq 0..MaxDay
  /\ leagueSeason \in Numbers \cup {0} /\ scored \subseteq Pros
  /\ \A row \in archive : row.season \in Numbers /\ row.who \in Fantasists
  /\ \A t \in titles : t.season \in Numbers /\ t.kind \in Kinds /\ t.who \in Holders(t.kind)

\* The record of a season is whole: its standings come from one End Season and
\* name every account once, and the titles it found stay, through resets, later
\* seasons and corrections of other rows, until an admin takes that title away.
SeasonRecordWhole ==
  /\ \A n \in Archived : \A a, b \in ArchiveOf(n) :
       <<a.at, a.by>> = <<b.at, b.by>> /\ (a.who = b.who => a = b)
  /\ recorded \subseteq titles
=============================================================================
