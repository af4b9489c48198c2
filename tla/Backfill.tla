------------------------------ MODULE Backfill ------------------------------
(***************************************************************************)
(* The two scripts that fill in past seasons from OpenDota under a budget  *)
(* of calls, keeping what they read in a file: "played", which records who *)
(* played (backend/scripts/backfill_played.py --all), and "places", which  *)
(* derives a table for review and then applies it (season_placements.py).  *)
(*                                                                         *)
(* A run may stop at its budget, be killed, or fail to read something; it  *)
(* is then run again.  Names, anonymous slots, the discovery of leagues    *)
(* and the table's columns are left out; what a division's matches say is  *)
(* in Placements.                                                          *)
(***************************************************************************)
EXTENDS Integers, Sequences, FiniteSetsExt, SequencesExt

CONSTANTS
  SeasonFile,    \* per season on file, oldest first: its leagues
  LiveSeason,    \* the season that is live
  MatchesOfLeague, \* match ids OpenDota lists for a league, in order
  AppearedIn,    \* accounts in each match
  MaxCalls, MaxRuns,
  NoJob

ASSUME BackfillAssumption ==
  /\ MaxCalls \in Nat \ {0} /\ MaxRuns \in Nat
  /\ SeasonFile \in Seq(Seq(DOMAIN MatchesOfLeague))
  /\ \A l \in DOMAIN MatchesOfLeague : MatchesOfLeague[l] \in Seq(DOMAIN AppearedIn)

PastSeasons == DOMAIN SeasonFile \ {LiveSeason}
Divisions == UNION {ToSet(SeasonFile[s]) : s \in PastSeasons}
MatchesOn(leagues) == UNION {ToSet(MatchesOfLeague[l]) : l \in leagues}
AccountsIn(matches) == UNION {AppearedIn[m] : m \in matches}

VARIABLES
  read,      \* the cache files: per script, the matches read
  lists,     \* leagues whose match list season_placements.py has cached
  played,    \* season_accolades of kind played: accounts of each season
  table,     \* season_placements.csv: "none", "review", "derived" or "reviewed" per league
  places,    \* season_accolades of a league's places: "none", "table" or "by hand"
  job,       \* the running script
  outcome,   \* how the last run ended, and what it gained and missed (auxiliary)
  missed,    \* seasons some run reported incomplete (auxiliary)
  runs

backfillVars == <<read, lists, played, table, places, job, outcome, missed, runs>>

-----------------------------------------------------------------------------
(* A run *)

\* The leagues a run reads: of every season but the live one, in the file's order.
Pending(s) == [i \in DOMAIN SeasonFile[s] |-> <<s, SeasonFile[s][i]>>]
WorkList ==
  LET upTo[s \in 0..Len(SeasonFile)] ==
        IF s = 0 THEN <<>>
        ELSE upTo[s - 1] \o IF s = LiveSeason THEN <<>> ELSE Pending(s)
  IN upTo[Len(SeasonFile)]

StartRun(script, overwrite) ==
  /\ job = NoJob /\ runs < MaxRuns /\ runs' = runs + 1
  /\ script = "places" => overwrite \/ \A l \in Divisions : table[l] # "reviewed"
  /\ job' = [script |-> script, work |-> WorkList, todo |-> <<>>, listed |-> FALSE, calls |-> 0,
             got |-> {}, gained |-> FALSE, failed |-> FALSE, misses |-> FALSE,
             rows |-> [l \in Divisions |-> "none"]]
  /\ outcome' = "running"
  /\ UNCHANGED <<read, lists, played, table, places, missed>>

Current == Head(job.work)
Script(script) == job # NoJob /\ job.script = script
CanCall == job.calls < MaxCalls

\* _BudgetUsed: what the run has of the season is dropped, the cache is kept.
BudgetStop ==
  /\ job' = NoJob
  /\ outcome' = IF job.gained \/ job.failed THEN "stopped" ELSE "stopped for nothing"
  /\ UNCHANGED <<read, lists, played, table, places, missed, runs>>

\* fetch of the league's match list; a cached list costs nothing.
NeedsList == job.script = "played" \/ Current[2] \notin lists

ListLeagueMatches(answered) ==
  /\ job # NoJob /\ job.work # <<>> /\ ~job.listed
  /\ IF NeedsList /\ ~CanCall THEN BudgetStop
     ELSE /\ job' = [job EXCEPT !.listed = TRUE,
                       !.calls = IF NeedsList THEN @ + 1 ELSE @,
                       !.todo = IF answered \/ ~NeedsList THEN MatchesOfLeague[Current[2]] ELSE <<>>,
                       !.gained = @ \/ (answered /\ NeedsList /\ job.script = "places"),
                       !.failed = @ \/ (NeedsList /\ ~answered),
                       !.misses = @ \/ (NeedsList /\ ~answered)]
          /\ lists' = IF answered /\ job.script = "places" THEN lists \cup {Current[2]} ELSE lists
          /\ missed' = IF NeedsList /\ ~answered THEN missed \cup {Current[1]} ELSE missed
          /\ UNCHANGED <<read, played, table, places, outcome, runs>>

\* A match read before is not asked for again; one that cannot be read is left for the
\* next run.
CachedNever(m) == FALSE
Cached(m) == m \in read[job.script]

ReadMatch(answered) ==
  /\ job # NoJob /\ job.listed /\ job.todo # <<>>
  /\ LET m == Head(job.todo) IN
     CASE Cached(m) ->
            /\ job' = [job EXCEPT !.todo = Tail(@), !.got = @ \cup {m}]
            /\ UNCHANGED <<read, lists, played, table, places, outcome, missed, runs>>
       [] ~Cached(m) /\ ~CanCall -> BudgetStop
       [] OTHER ->
            /\ job' = [job EXCEPT !.todo = Tail(@), !.calls = @ + 1,
                         !.got = IF answered THEN @ \cup {m} ELSE @,
                         !.gained = @ \/ (m \notin read[job.script] /\ answered),
                         !.failed = @ \/ ~answered, !.misses = @ \/ ~answered]
            /\ read' = IF answered THEN [read EXCEPT ![job.script] = @ \cup {m}] ELSE read
            /\ missed' = IF answered THEN missed ELSE missed \cup {Current[1]}
            /\ UNCHANGED <<lists, played, table, places, outcome, runs>>

-----------------------------------------------------------------------------
(* The end of a league, of a season and of the run *)

LastOfSeason == Len(job.work) = 1 \/ job.work[2][1] # Current[1]

\* _season: everyone in the matches read gets one row, with the season's last league.
EndPlayedLeague ==
  /\ Script("played") /\ job.listed /\ job.todo = <<>>
  /\ job' = [job EXCEPT !.work = Tail(@), !.listed = FALSE, !.got = IF LastOfSeason THEN {} ELSE @]
  /\ played' = IF LastOfSeason THEN [played EXCEPT ![Current[1]] = @ \cup AccountsIn(job.got)]
               ELSE played
  /\ UNCHANGED <<read, lists, table, places, outcome, missed, runs>>

\* _table_rows: a league that was not read whole is for review.
EndPlacesLeague ==
  /\ Script("places") /\ job.listed /\ job.todo = <<>>
  /\ job' = [job EXCEPT !.work = Tail(@), !.listed = FALSE, !.got = {}, !.misses = FALSE,
               !.rows[Current[2]] = IF job.misses \/ job.got = {} THEN "review" ELSE "derived"]
  /\ UNCHANGED <<read, lists, played, table, places, outcome, missed, runs>>

EndRun ==
  /\ job # NoJob /\ job.work = <<>>
  /\ table' = IF job.script = "places" THEN job.rows ELSE table
  /\ outcome' = CASE job.failed -> "incomplete"
                  [] ~job.failed /\ job.script = "played" -> "played"
                  [] OTHER -> "places"
  /\ job' = NoJob
  /\ UNCHANGED <<read, lists, played, places, missed, runs>>

KillRun ==
  /\ job # NoJob /\ job' = NoJob /\ outcome' = "killed"
  /\ UNCHANGED <<read, lists, played, table, places, missed, runs>>

-----------------------------------------------------------------------------
(* Review and apply *)

\* The operator checks a derived row against its evidence.
ReviewRow(l) ==
  /\ table[l] = "derived" /\ table' = [table EXCEPT ![l] = "reviewed"]
  /\ UNCHANGED <<read, lists, played, places, job, outcome, missed, runs>>

EnterByHand(l) ==
  /\ places[l] = "none" /\ places' = [places EXCEPT ![l] = "by hand"]
  /\ UNCHANGED <<read, lists, played, table, job, outcome, missed, runs>>

\* run_apply, one transaction per season: reviewed rows, over others only with --replace.
ApplySeason(s, replace) ==
  LET rows == {l \in ToSet(SeasonFile[s]) :
                 table[l] = "reviewed" /\ (places[l] = "none" \/ (places[l] = "by hand" /\ replace))}
  IN /\ rows # {}
     /\ places' = [l \in Divisions |-> IF l \in rows THEN "table" ELSE places[l]]
     /\ UNCHANGED <<read, lists, played, table, job, outcome, missed, runs>>

BackfillInit ==
  /\ read = [script \in {"played", "places"} |-> {}] /\ lists = {}
  /\ played = [s \in PastSeasons |-> {}]
  /\ table = [l \in Divisions |-> "none"] /\ places = [l \in Divisions |-> "none"]
  /\ job = NoJob /\ outcome = "none" /\ missed = {} /\ runs = 0

BackfillNext ==
  \/ EndPlayedLeague \/ EndPlacesLeague \/ EndRun \/ KillRun
  \/ \E script \in {"played", "places"}, overwrite \in BOOLEAN : StartRun(script, overwrite)
  \/ \E answered \in BOOLEAN : ListLeagueMatches(answered) \/ ReadMatch(answered)
  \/ \E l \in Divisions : ReviewRow(l) \/ EnterByHand(l)
  \/ \E s \in PastSeasons, replace \in BOOLEAN : ApplySeason(s, replace)

BackfillSpec == BackfillInit /\ [][BackfillNext]_backfillVars

-----------------------------------------------------------------------------
(* Properties *)

BackfillTypeOK ==
  /\ \A script \in DOMAIN read : read[script] \subseteq MatchesOn(Divisions)
  /\ lists \subseteq Divisions /\ missed \subseteq PastSeasons
  /\ job # NoJob => job.calls \in 0..MaxCalls

EveryoneWhoPlayed(s) == AccountsIn(MatchesOn(ToSet(SeasonFile[s])))

\* A run that reports nothing unread has recorded everyone who played in any past season.
CleanRunRecordsAll ==
  outcome = "played" => \A s \in PastSeasons : played[s] = EveryoneWhoPlayed(s)

\* A season is recorded whole or not at all, unless a run said what it missed of it,
\* wherever a run was killed or its budget ended.
SeasonsWhole ==
  \A s \in PastSeasons \ missed : played[s] \in {{}, EveryoneWhoPlayed(s)}

\* "Run it again to continue": with a budget above the number of leagues, a run stopped
\* by it has read something new, unless OpenDota failed to answer.
StoppedRunsAdvance == MaxCalls > Len(WorkList) => outcome # "stopped for nothing"

\* Places are only derived and applied from leagues that were read whole.
PlacesFromWholeLeagues ==
  \A l \in Divisions : table[l] \in {"derived", "reviewed"} \/ places[l] = "table" =>
    MatchesOn({l}) \subseteq read["places"]

BackfillSound ==
  /\ CleanRunRecordsAll /\ SeasonsWhole
  /\ StoppedRunsAdvance /\ PlacesFromWholeLeagues
=============================================================================
