------------------------------ MODULE Polling ------------------------------
(***************************************************************************)
(* The live poll, the ingest pass and the matches the Twitch panel offers  *)
(* for an MVP: backend/main.py, steam_live.py, ingest.py,                  *)
(* routers/admin_leagues.py and twitch.py's series selection.              *)
(*                                                                         *)
(* A pass runs under INGEST_LOCK, a poll, an admin and the panel do not.   *)
(* How long the loops sleep is left out: any time may pass.  A poll's      *)
(* request, ten seconds at most, is over before the clock moves.           *)
(***************************************************************************)
EXTENDS Integers, Sequences, FiniteSetsExt, SequencesExt

CONSTANTS
  LeagueOf,      \* league of each game
  TeamPair,      \* the two teams of each game
  PlayedFrom, PlayedTo, \* when each game is played
  StaleAfter,    \* _LIVE_MATCH_STALE_SECONDS
  SeriesLimit,   \* _CURRENT_SERIES_LIMIT
  MaxNow, MaxAdminSteps,
  NoRow, NotYet

PollGames == DOMAIN LeagueOf
Leagues == ToSet([g \in PollGames |-> LeagueOf[g]])

ASSUME PollingAssumption ==
  /\ PollGames \subseteq Nat /\ {StaleAfter, SeriesLimit, MaxNow, MaxAdminSteps} \subseteq Nat
  /\ NotYet \notin Nat /\ NoRow \notin [first : Nat, last : Nat, ended : Nat \cup {NotYet}]
  /\ \A g \in PollGames : PlayedFrom[g] \in Nat /\ PlayedTo[g] \in Nat /\ PlayedFrom[g] < PlayedTo[g]

VARIABLES
  now,
  monitored,    \* leagues.is_monitored
  liveRow,      \* live_matches: first_seen_at, last_seen_at, ended_at
  sighted,      \* match_timings.live_first_seen_at
  ingested,     \* games with player_match_stats
  checkedAt,    \* steam_live.live_checked_at
  poll,         \* the leagues a poll asked for, or NotYet
  leaguePass,   \* [leagues, todo]: what the running pass still has to do, or NotYet
  adminSteps

pollingVars == <<now, monitored, liveRow, sighted, ingested, checkedAt, poll, leaguePass,
                 adminSteps>>

OfLeague(l) == {g \in PollGames : LeagueOf[g] = l}

-----------------------------------------------------------------------------
(* Live poll *)

\* What Steam can list now.
BeingPlayed == {g \in PollGames : now \in PlayedFrom[g]..PlayedTo[g]}

\* One game of store_live_matches: upserted if seen, marked ended if not.
Upserted(g) ==
  [first |-> IF liveRow[g] = NoRow THEN now ELSE liveRow[g].first, last |-> now, ended |-> NotYet]
EndedOfAsked(g) == liveRow[g] # NoRow /\ liveRow[g].ended = NotYet /\ LeagueOf[g] \in poll
EndedUnseen(g) == liveRow[g] # NoRow /\ liveRow[g].ended = NotYet
AfterPoll(g, seen) ==
  CASE g \in seen -> Upserted(g)
    [] g \notin seen /\ EndedUnseen(g) -> [liveRow[g] EXCEPT !.ended = now]
    [] OTHER -> liveRow[g]

\* A row is dropped once its match has stats or it was not seen for a day.
DroppedEnded(g, row) == row # NoRow /\ (g \in ingested \/ row.ended # NotYet)
DroppedUnseen(g, row) == row # NoRow /\ (g \in ingested \/ row.last < now - StaleAfter)

\* record_timing: a field is set once.
LastSighting(g, seen) == IF g \in seen THEN now ELSE sighted[g]
FirstSighting(g, seen) == IF g \in seen /\ sighted[g] = NotYet THEN now ELSE sighted[g]

\* _live_poll_once: without a monitored league nothing is asked.
BeginPoll ==
  /\ poll = NotYet /\ monitored # {}
  /\ poll' = monitored
  /\ UNCHANGED <<now, monitored, liveRow, sighted, ingested, checkedAt, leaguePass, adminSteps>>

StoreLive(listed) ==
  LET seen == {g \in listed : LeagueOf[g] \in poll}
      row(g) == AfterPoll(g, seen)
  IN /\ poll # NotYet /\ poll' = NotYet
     /\ liveRow' = [g \in PollGames |-> IF DroppedUnseen(g, row(g)) THEN NoRow ELSE row(g)]
     /\ sighted' = [g \in PollGames |-> FirstSighting(g, seen)]
     /\ checkedAt' = now
     /\ UNCHANGED <<now, monitored, ingested, leaguePass, adminSteps>>

\* A request that fails keeps the rows as they are.
PollFails ==
  /\ poll # NotYet /\ poll' = NotYet
  /\ UNCHANGED <<now, monitored, liveRow, sighted, ingested, checkedAt, leaguePass, adminSteps>>

-----------------------------------------------------------------------------
(* Ingest pass *)

BeginPass ==
  /\ leaguePass = NotYet /\ monitored # {}
  /\ leaguePass' = [leagues |-> monitored, todo |-> {}]
  /\ UNCHANGED <<now, monitored, liveRow, sighted, ingested, checkedAt, poll, adminSteps>>

\* ingest_league: the matches OpenDota lists, without those stored by then.
ListLeague(l, listed) ==
  /\ leaguePass # NotYet /\ leaguePass.todo = {} /\ l \in leaguePass.leagues
  /\ leaguePass' = [leagues |-> leaguePass.leagues \ {l}, todo |-> listed \ ingested]
  /\ UNCHANGED <<now, monitored, liveRow, sighted, ingested, checkedAt, poll, adminSteps>>

\* ingest_match: stats are stored and the live row goes, or the match is skipped as too
\* short or not available.
IngestListed(g, isStored) ==
  /\ leaguePass # NotYet /\ g \in leaguePass.todo
  /\ leaguePass' = [leaguePass EXCEPT !.todo = @ \ {g}]
  /\ ingested' = IF isStored THEN ingested \cup {g} ELSE ingested
  /\ liveRow' = IF isStored THEN [liveRow EXCEPT ![g] = NoRow] ELSE liveRow
  /\ UNCHANGED <<now, monitored, sighted, checkedAt, poll, adminSteps>>

EndPass ==
  /\ leaguePass # NotYet /\ leaguePass.todo = {} /\ leaguePass.leagues = {}
  /\ leaguePass' = NotYet
  /\ UNCHANGED <<now, monitored, liveRow, sighted, ingested, checkedAt, poll, adminSteps>>

-----------------------------------------------------------------------------
(* Admins, time and restarts *)

AdminStep == adminSteps < MaxAdminSteps /\ adminSteps' = adminSteps + 1

Monitor(l) ==
  /\ AdminStep /\ l \notin monitored
  /\ monitored' = monitored \cup {l}
  /\ UNCHANGED <<now, liveRow, sighted, ingested, checkedAt, poll, leaguePass>>

StopMonitoring(l) ==
  /\ AdminStep /\ l \in monitored
  /\ monitored' = monitored \ {l}
  /\ UNCHANGED <<now, liveRow, sighted, ingested, checkedAt, poll, leaguePass>>

\* purge_league_data takes no lock; the live rows and timings stay.
Purge(l) ==
  /\ AdminStep /\ OfLeague(l) \cap ingested # {}
  /\ ingested' = ingested \ OfLeague(l)
  /\ monitored' = monitored \ {l}
  /\ UNCHANGED <<now, liveRow, sighted, checkedAt, poll, leaguePass>>

PollTick ==
  /\ now < MaxNow /\ now' = now + 1 /\ poll = NotYet
  /\ UNCHANGED <<monitored, liveRow, sighted, ingested, checkedAt, poll, leaguePass, adminSteps>>

\* A restart ends poll and leaguePass, and forgets when Steam was last asked.
PollRestart ==
  /\ poll' = NotYet /\ leaguePass' = NotYet /\ checkedAt' = NotYet
  /\ UNCHANGED <<now, monitored, liveRow, sighted, ingested, adminSteps>>

PollingInit ==
  /\ now = 0 /\ monitored = Leagues /\ ingested = {} /\ adminSteps = 0
  /\ liveRow = [g \in PollGames |-> NoRow] /\ sighted = [g \in PollGames |-> NotYet]
  /\ checkedAt = NotYet /\ poll = NotYet /\ leaguePass = NotYet

PollingNext ==
  \/ BeginPoll \/ PollFails \/ BeginPass \/ EndPass \/ PollTick \/ PollRestart
  \/ \E listed \in SUBSET BeingPlayed : StoreLive(listed)
  \/ \E l \in Leagues :
       \/ Monitor(l) \/ StopMonitoring(l) \/ Purge(l)
       \/ \E listed \in SUBSET {g \in OfLeague(l) : PlayedTo[g] < now} : ListLeague(l, listed)
  \/ \E g \in PollGames, isStored \in BOOLEAN : IngestListed(g, isStored)

PollingSpec == PollingInit /\ [][PollingNext]_pollingVars

-----------------------------------------------------------------------------
(* What the panel offers: _current_series *)

\* A live match counts from its first sighting, a stored one from its start.
ShownStart(g) == IF g \in ingested THEN PlayedFrom[g] ELSE liveRow[g].first
Shown == ingested \cup {g \in PollGames : liveRow[g] # NoRow}

SeriesShown == {TeamPair[g] : g \in Shown}
LastShown(p) == Max({ShownStart(g) : g \in {h \in Shown : TeamPair[h] = p}})

\* The most recent series; any order of those equally recent.
MayBeOffered(p) ==
  Cardinality({q \in SeriesShown : LastShown(q) > LastShown(p)}) < SeriesLimit
Offered == {g \in Shown : MayBeOffered(TeamPair[g])}

-----------------------------------------------------------------------------
(* Properties *)

PollingTypeOK ==
  /\ now \in 0..MaxNow /\ monitored \subseteq Leagues /\ ingested \subseteq PollGames
  /\ \A g \in PollGames : liveRow[g] # NoRow => liveRow[g].first <= liveRow[g].last
  /\ poll # NotYet => poll \subseteq Leagues
  /\ leaguePass # NotYet => leaguePass.leagues \subseteq Leagues /\ leaguePass.todo \subseteq PollGames

\* What is shown as live is what the last check that succeeded saw, whichever leagues
\* were monitored then; a game's timing is never later than its row.
LiveIsLastCheck ==
  \A g \in PollGames : liveRow[g] # NoRow =>
    /\ sighted[g] # NotYet /\ sighted[g] <= liveRow[g].first
    /\ liveRow[g].ended = NotYet /\ checkedAt # NotYet => liveRow[g].last = checkedAt

\* A game offered for an MVP stays on offer between the live list and the stats, until
\* it was unseen for a day, a later series takes its place or an admin purges it.
OfferKept ==
  [][\A g \in Offered : g \notin Offered' =>
       \/ g \in ingested /\ g \notin ingested'
       \/ liveRow[g] # NoRow /\ liveRow[g].last < now - StaleAfter
       \/ ~MayBeOffered(TeamPair[g])']_pollingVars
=============================================================================
