-------------------------------- MODULE Parts --------------------------------
(***************************************************************************)
(* The parts of the program whose tables no other part writes, in one      *)
(* specification: a behaviour is one of a single part, chosen at the       *)
(* start, while the others rest in their initial states.  Since they share *)
(* no variable, nothing is lost against running them side by side, and the *)
(* state space is the sum of theirs and not the product.                   *)
(***************************************************************************)
EXTENDS Sessions, Passwords, TokenSources, SignIn, FinalsTable, Finals, Season,
        Reports, MatchStore, Migrations, Channels, Caches, Series, SiteSync, Polling,
        Placements, Backfill, Enrichment

VARIABLE part    \* the part that runs

AllParts ==
  {"sessions", "passwords", "offers", "own-card", "sign-in", "table", "finals", "season",
   "bench", "matches", "starters", "rosters", "channels", "schedule", "panel", "figures",
   "series", "site", "polling", "places", "backfill", "ranks"}

partsVars == <<part, sessionsVars, passwordVars, sourceVars, signVars, wins,
               finalsVars, seasonVars, benchVars, matchStoreVars, migrationVars, channelVars,
               cacheVars, seriesVars, siteVars, pollingVars, placementVars, backfillVars, rankVars>>

PartsInit ==
  /\ part \in AllParts
  /\ SessionsInit /\ (part # "sessions" => \A m \in Members : admin[m])
  /\ BenchInit /\ (part # "bench" => bench = [w \in Rounds |-> <<>>])
  /\ MatchStoreInit /\ (part # "matches" => \A m \in GameIds : upstream[m] = "raw")
  /\ MigrationsInit
  /\ db \in CASE part = "starters" -> LegacyStarters
             [] part = "rosters" -> LegacyRosters
             [] OTHER -> {CHOOSE d \in LegacyStarters : TRUE}
  /\ IF part = "table" THEN TableInit ELSE wins = CHOOSE w \in GroupTables : TRUE
  /\ PasswordsInit /\ SourcesInit /\ SignInit /\ FinalsInit /\ SeasonInit /\ ChannelsInit
  /\ CachesInit /\ SeriesInit /\ SiteInit /\ PollingInit /\ BackfillInit /\ RankInit
  /\ PlacementsInit /\ (part # "places" => playoff = CHOOSE b \in Brackets : TRUE)
  /\ (part # "places" => ~withIds /\ ~oneDay)

\* The parts that rest.
OthersRest ==
  /\ IF part = "sessions" THEN TRUE ELSE UNCHANGED sessionsVars
  /\ IF part = "passwords" THEN TRUE ELSE UNCHANGED passwordVars
  /\ IF part \in {"offers", "own-card"} THEN TRUE ELSE UNCHANGED sourceVars
  /\ IF part = "sign-in" THEN TRUE ELSE UNCHANGED signVars
  /\ IF part = "table" THEN TRUE ELSE UNCHANGED wins
  /\ IF part = "finals" THEN TRUE ELSE UNCHANGED finalsVars
  /\ IF part = "season" THEN TRUE ELSE UNCHANGED seasonVars
  /\ IF part = "bench" THEN TRUE ELSE UNCHANGED benchVars
  /\ IF part = "matches" THEN TRUE ELSE UNCHANGED matchStoreVars
  /\ IF part \in {"starters", "rosters"} THEN TRUE ELSE UNCHANGED migrationVars
  /\ IF part = "channels" THEN TRUE ELSE UNCHANGED channelVars
  /\ IF part \in {"schedule", "panel", "figures"} THEN TRUE ELSE UNCHANGED cacheVars
  /\ IF part = "series" THEN UNCHANGED siteVars
     ELSE IF part = "site" THEN TRUE ELSE UNCHANGED <<seriesVars, siteVars>>
  /\ IF part = "polling" THEN TRUE ELSE UNCHANGED pollingVars
  /\ IF part = "places" THEN TRUE ELSE UNCHANGED placementVars
  /\ IF part = "backfill" THEN TRUE ELSE UNCHANGED backfillVars
  /\ IF part = "ranks" THEN TRUE ELSE UNCHANGED rankVars

PartsNext ==
  /\ UNCHANGED part /\ OthersRest
  /\ CASE part = "sessions" -> SessionsNext
       [] part = "passwords" -> PasswordsNext
       [] part = "offers" -> OffersNext
       [] part = "own-card" -> OwnCardNext
       [] part = "sign-in" -> SignNext
       [] part = "table" -> TableNext
       [] part = "finals" -> FinalsNext
       [] part = "season" -> SeasonNext
       [] part = "bench" -> BenchNext
       [] part = "matches" -> MatchStoreNext
       [] part = "starters" -> StartersNext
       [] part = "rosters" -> RostersNext
       [] part = "channels" -> ChannelsNext
       [] part = "schedule" -> ScheduleCacheNext
       [] part = "panel" -> PanelCacheNext
       [] part = "figures" -> KeyedCachesNext
       [] part = "series" -> SeriesNext
       [] part = "site" -> SiteNext
       [] part = "polling" -> PollingNext
       [] part = "places" -> PlacementsNext
       [] part = "backfill" -> BackfillNext
       [] part = "ranks" -> RankNext

PartsSpec == PartsInit /\ [][PartsNext]_partsVars

-----------------------------------------------------------------------------
\* Every table of every part keeps its type.
PartsTypeOK ==
  /\ part = "sessions" => SessionsTypeOK
  /\ part = "passwords" => PasswordsTypeOK
  /\ part \in {"offers", "own-card"} => SourcesTypeOK
  /\ part = "sign-in" => SignTypeOK
  /\ part = "finals" => FinalsTypeOK
  /\ part = "season" => SeasonTypeOK
  /\ part = "bench" => BenchTypeOK
  /\ part = "matches" => MatchStoreTypeOK
  /\ part \in {"starters", "rosters"} => MigrationsTypeOK
  /\ part = "channels" => ChannelsTypeOK
  /\ part \in {"schedule", "panel", "figures"} => CachesTypeOK
  /\ part = "series" => SeriesTypeOK
  /\ part = "site" => SiteTypeOK
  /\ part = "polling" => PollingTypeOK
  /\ part = "places" => PlacementsTypeOK
  /\ part = "backfill" => BackfillTypeOK
  /\ part = "ranks" => RankTypeOK

\* The bracket's seeding, evaluated where the table moves.
TableSeeding == part = "table" => SeedingFollowsRules

\* What the schedule, the teams' records and the tournament site say of the same matches
\* agrees, and so does what the leaderboards, My Team and the weekly report say of the
\* same weeks, evaluated where the matches move.
RecordsAgree ==
  (part = "series" => SeriesSound) /\ (part = "site" => SiteAgrees)
    /\ (part = "bench" => ReportsAgree)

\* The places derived from a season that is over and the leaderboards rebuilt for it are
\* those of its results, evaluated where the playoff and the matches move.
PastSeasonsSound == (part = "places" => PlacesTrue) /\ BackfillSound
=============================================================================
