------------------------------- MODULE Caches -------------------------------
(***************************************************************************)
(* What the process keeps in memory of the tables, and when it is served:  *)
(* the schedule (backend/schedule.py), the body of the Twitch panel        *)
(* (backend/twitch.py), and the figures of leagues and teams, kept under a *)
(* fingerprint of the data (backend/team_insights.py, player_insights.py). *)
(*                                                                         *)
(* The tables are one version number; a fingerprint tells even from odd    *)
(* versions only, since a match may be excluded and counted again.  What   *)
(* the figures are, and the queries of one computation, are left out.      *)
(***************************************************************************)
EXTENDS Integers, Sequences, FiniteSetsExt

CONSTANTS
  CacheClients,   \* requests in flight
  CacheTTL,       \* CACHE_TTL, LEAGUE_CACHE_TTL, TWITCH_PANEL_CACHE_SECONDS, in ticks
  MaxClock, MaxChanges   \* bounds on time, and on changes of each kind's tables

ASSUME CachesAssumption ==
  CacheTTL \in Nat \ {0} /\ MaxClock \in Nat /\ MaxChanges \in [{"admin", "ingest", "other"} -> Nat]

VARIABLES
  clock,
  version,        \* version of the tables
  superseded,     \* superseded[v]: when version v was replaced
  busts,          \* busts[v]: what the change to v still has to clear
  cleared,        \* history: the changes that have cleared the panel's body
  schedule,       \* _cache: data and fetched_at
  panel,          \* _panel_cache
  keyed,          \* the two caches kept under a fingerprint
  cacheReq        \* requests in flight

cacheVars == <<clock, version, superseded, busts, cleared, schedule, panel, keyed, cacheReq>>
storedVars == <<schedule, panel, keyed>>

Unset == -1
Waiting == [op |-> "none"]
Steps(r, q) == cacheReq' = [cacheReq EXCEPT ![r] = q]
TimeStands == UNCHANGED <<clock, version, superseded, busts, cleared>>

-----------------------------------------------------------------------------
(* Changes of the tables, and what they clear *)

\* After its commit an ingest clears the panel's body; a correction by an admin the
\* schedule, in two assignments, and then the panel's body; other changes nothing.
ClearedBy == [ingest |-> <<"panel">>, admin |-> <<"data", "fetched_at", "panel">>,
              other |-> <<>>]
Change(kind) ==
  /\ version < MaxChanges[kind] /\ version' = version + 1
  /\ superseded' = Append(superseded, clock) /\ busts' = Append(busts, ClearedBy[kind])
  /\ UNCHANGED <<clock, cleared, storedVars, cacheReq>>

\* bust_cache and bust_panel_cache, a step each.
Bust(v) ==
  /\ busts[v] # <<>>
  /\ busts' = [busts EXCEPT ![v] = Tail(@)]
  /\ CASE Head(busts[v]) = "data" -> schedule' = [schedule EXCEPT !.data = Unset]
                                     /\ UNCHANGED <<panel, cleared>>
       [] Head(busts[v]) = "fetched_at" -> schedule' = [schedule EXCEPT !.at = Unset]
                                           /\ UNCHANGED <<panel, cleared>>
       [] OTHER -> /\ panel' = [panel EXCEPT !.body = Unset, !.generation = @ + 1]
                   /\ cleared' = cleared \cup {v} /\ UNCHANGED schedule
  /\ UNCHANGED <<clock, version, superseded, keyed, cacheReq>>

PassTime ==
  /\ clock < MaxClock /\ clock' = clock + 1
  /\ UNCHANGED <<version, superseded, busts, cleared, storedVars, cacheReq>>

-----------------------------------------------------------------------------
(* get_schedule *)

Fresh(at) == at # Unset /\ clock - at < CacheTTL

GetSchedule(r) ==
  /\ cacheReq[r] = Waiting
  /\ Steps(r, [op |-> IF schedule.data # Unset /\ Fresh(schedule.at) THEN "hit" ELSE "fetch",
               start |-> clock])
  /\ TimeStands /\ UNCHANGED storedVars

\* The data is read again to be returned; a bust in between leaves nothing, and the
\* request fails.
ScheduleAnswers(r) == cacheReq[r].op = "hit" /\ schedule.data # Unset
ScheduleHit(r) ==
  cacheReq[r].op = "hit" /\ Steps(r, Waiting) /\ TimeStands /\ UNCHANGED storedVars

\* Without the feed the last schedule is returned, marked stale; with none it is
\* computed without fixtures.
FetchSchedule(r, reached) ==
  /\ cacheReq[r].op = "fetch"
  /\ Steps(r, IF ~reached /\ schedule.data # Unset THEN Waiting
              ELSE [cacheReq[r] EXCEPT !.op = "compute"])
  /\ TimeStands /\ UNCHANGED storedVars
ReadSchedule(r) ==
  /\ cacheReq[r].op = "compute"
  /\ Steps(r, [op |-> "data", start |-> cacheReq[r].start, read |-> version])
  /\ TimeStands /\ UNCHANGED storedVars

\* The data and the time it was fetched at are two assignments.
FetchedAtStored(q) == clock
FetchedAt(q) == q.start
KeepSchedule(r) ==
  LET q == cacheReq[r]
  IN /\ \/ /\ q.op = "data"
           /\ schedule' = [schedule EXCEPT !.data = q.read, !.start = FetchedAt(q)]
           /\ Steps(r, [q EXCEPT !.op = "fetched_at"])
        \/ /\ q.op = "fetched_at"
           /\ schedule' = [schedule EXCEPT !.at = FetchedAt(q)] /\ Steps(r, Waiting)
     /\ TimeStands /\ UNCHANGED <<panel, keyed>>

-----------------------------------------------------------------------------
(* cached_panel_live *)

GetPanel(r) ==
  /\ cacheReq[r] = Waiting
  /\ ~(panel.body # Unset /\ Fresh(panel.at))
  /\ Steps(r, [op |-> "panel", generation |-> panel.generation])
  /\ TimeStands /\ UNCHANGED storedVars
ReadPanel(r) ==
  /\ cacheReq[r].op = "panel"
  /\ Steps(r, [op |-> "body", generation |-> cacheReq[r].generation, read |-> version])
  /\ TimeStands /\ UNCHANGED storedVars

\* Kept unless the panel was cleared since.
MayKeepAlways(q) == TRUE
MayKeep(q) == panel.generation = q.generation
KeepPanel(r) ==
  LET q == cacheReq[r]
  IN /\ q.op = "body" /\ Steps(r, Waiting)
     /\ panel' = IF MayKeep(q) THEN [panel EXCEPT !.body = q.read, !.at = clock] ELSE panel
     /\ TimeStands /\ UNCHANGED <<schedule, keyed>>

-----------------------------------------------------------------------------
(* cached_league_numbers (and cached_league_aggregates), cached_team_list *)

KeyedCaches == {"league", "teams"}
Fingerprint == version % 2
Empty == [key |-> Unset, at |-> Unset, value |-> Unset]

\* The fingerprint and the time are taken before the lock.
GetKeyed(r, c) ==
  /\ cacheReq[r] = Waiting
  /\ Steps(r, [op |-> "look-up", cache |-> c, key |-> Fingerprint, start |-> clock])
  /\ TimeStands /\ UNCHANGED storedVars

\* The figures of the league are computed under the lock, the list of teams is not.
FiguresLocked == \E r \in CacheClients : cacheReq[r].op = "figures" /\ cacheReq[r].cache = "league"
KeyedAnswers(r) ==
  LET q == cacheReq[r]
      kept == keyed[q.cache]
  IN q.op = "look-up" /\ kept.key = q.key /\ q.start - kept.at < CacheTTL
LookUp(r) ==
  /\ cacheReq[r].op = "look-up" /\ ~FiguresLocked
  /\ Steps(r, IF KeyedAnswers(r) THEN Waiting ELSE [cacheReq[r] EXCEPT !.op = "figures"])
  /\ TimeStands /\ UNCHANGED storedVars
ReadFigures(r) ==
  LET q == cacheReq[r]
      of == [key |-> q.key, at |-> q.start, value |-> version]
  IN /\ q.op = "figures"
     /\ IF q.cache = "league"
        THEN keyed' = [keyed EXCEPT !["league"] = of] /\ Steps(r, Waiting)
        ELSE Steps(r, [op |-> "keep", of |-> of]) /\ UNCHANGED keyed
     /\ TimeStands /\ UNCHANGED <<schedule, panel>>
KeepTeams(r) ==
  /\ cacheReq[r].op = "keep" /\ ~FiguresLocked
  /\ keyed' = [keyed EXCEPT !["teams"] = cacheReq[r].of] /\ Steps(r, Waiting)
  /\ TimeStands /\ UNCHANGED <<schedule, panel>>

CachesInit ==
  /\ clock = 0 /\ version = 0 /\ superseded = <<>> /\ busts = <<>> /\ cleared = {}
  /\ schedule = [data |-> Unset, start |-> Unset, at |-> Unset]
  /\ panel = [body |-> Unset, at |-> Unset, generation |-> 0]
  /\ keyed = [c \in KeyedCaches |-> Empty]
  /\ cacheReq = [r \in CacheClients |-> Waiting]

TablesChange(kinds) ==
  \/ PassTime
  \/ \E kind \in kinds : Change(kind)
  \/ \E v \in DOMAIN busts : Bust(v)
ScheduleCacheNext ==
  \/ TablesChange({"admin"})
  \/ \E r \in CacheClients :
       \/ GetSchedule(r) \/ ScheduleHit(r) \/ ReadSchedule(r) \/ KeepSchedule(r)
       \/ \E reached \in BOOLEAN : FetchSchedule(r, reached)
PanelCacheNext ==
  \/ TablesChange({"ingest", "other"})
  \/ \E r \in CacheClients : GetPanel(r) \/ ReadPanel(r) \/ KeepPanel(r)
KeyedCachesNext ==
  \/ TablesChange({"other"})
  \/ \E r \in CacheClients :
       \/ \E c \in KeyedCaches : GetKeyed(r, c)
       \/ LookUp(r) \/ ReadFigures(r) \/ KeepTeams(r)
CachesNext == ScheduleCacheNext \/ PanelCacheNext \/ KeyedCachesNext

CachesSpec == CachesInit /\ [][CachesNext]_cacheVars

-----------------------------------------------------------------------------
(* Properties *)

CachesTypeOK ==
  /\ clock \in 0..MaxClock /\ version \in Nat
  /\ Len(superseded) = version /\ Len(busts) = version
  /\ schedule.data \in Unset..version /\ panel.body \in Unset..version
  /\ \A c \in KeyedCaches : keyed[c].value \in Unset..version

\* What a request is about to answer from a cache was true less than the cache's
\* lifetime before the request began, whatever was cleared, computed, or changed and
\* changed back meanwhile (for the schedule, unless two requests that computed it at
\* once mixed their two assignments, or an older one was stored after the check).
Recent(v, start) == v < version => superseded[v + 1] > start - CacheTTL
StoredWhole(r) ==
  schedule.start = schedule.at /\ cacheReq[r].start - schedule.at < CacheTTL
AnswersRecent ==
  \A r \in CacheClients :
    /\ ScheduleAnswers(r) /\ StoredWhole(r) =>
         Recent(schedule.data, cacheReq[r].start)
    /\ KeyedAnswers(r) => Recent(keyed[cacheReq[r].cache].value, cacheReq[r].start)

\* The panel's body kept in memory holds every change that has cleared it: one that was
\* computed before is not kept after.
PanelHoldsChanges ==
  panel.body # Unset => \A v \in cleared : panel.body >= v

\* No cache hides a change for longer than its lifetime, and the panel's none it was
\* cleared for.
CachesSound == AnswersRecent /\ PanelHoldsChanges
=============================================================================
