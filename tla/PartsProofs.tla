---------------------------- MODULE PartsProofs -----------------------------
(* Proofs about all parts of the program together, module Parts: what the     *)
(* proofs about the parts say holds in every behaviour of one of them.        *)
EXTENDS Parts, AccountsProofs, RecordsProofs, FiguresProofs

-----------------------------------------------------------------------------
(* The parts together: a behaviour is one of a single part *)

\* The part that runs.
InPart(p) == part = p

\* No other part takes over.
LEMMA PartStays ==
  ASSUME NEW CONSTANT p
  PROVE  [PartsNext]_partsVars => (InPart(p) => InPart(p)') /\ (~InPart(p) => ~InPart(p)')
  BY DEF InPart, PartsNext, partsVars

\* A part starts as its module says.
LEMMA PartStarts ==
  PartsInit =>
    /\ SessionsInit /\ PasswordsInit /\ SourcesInit /\ SignInit
    /\ FinalsInit /\ SeasonInit /\ BenchInit /\ MatchStoreInit
    /\ MigrationsInit /\ ChannelsInit /\ CachesInit /\ SeriesInit /\ SiteInit
    /\ PollingInit /\ PlacementsInit /\ BackfillInit /\ RankInit
  BY DEF PartsInit

\* The series and the syncs of the tournament site, which share tables, move as their
\* modules say where theirs is the part.
LEMMA FiguresMove ==
  [PartsNext]_partsVars =>
    /\ InPart("series") => [SeriesNext]_seriesVars
    /\ InPart("site") => [SiteNext]_<<seriesVars, siteVars>>
  BY DEF InPart, PartsNext, partsVars

\* Whatever part runs, the tables of the accounts' parts move as their modules say: where
\* another part runs, they rest.
LEMMA AccountsAlwaysMove ==
  [PartsNext]_partsVars =>
    /\ [SessionsNext]_sessionsVars /\ [PasswordsNext]_passwordVars
    /\ [SourcesNext]_sourceVars /\ [SignNext]_signVars
    /\ [StartersNext \/ RostersNext]_migrationVars
  <1> SUFFICES ASSUME [PartsNext]_partsVars
               PROVE  /\ [SessionsNext]_sessionsVars /\ [PasswordsNext]_passwordVars
                      /\ [SourcesNext]_sourceVars /\ [SignNext]_signVars
                      /\ [StartersNext \/ RostersNext]_migrationVars
    OBVIOUS
  <1>1. [SessionsNext]_sessionsVars
    BY DEF PartsNext, partsVars, OthersRest
  <1>2. [PasswordsNext]_passwordVars
    BY DEF PartsNext, partsVars, OthersRest
  <1>3. [SourcesNext]_sourceVars
    BY DEF PartsNext, partsVars, OthersRest, SourcesNext
  <1>4. [SignNext]_signVars
    BY DEF PartsNext, partsVars, OthersRest
  <1>5. [StartersNext \/ RostersNext]_migrationVars
    BY DEF PartsNext, partsVars, OthersRest
  <1> QED BY <1>1, <1>2, <1>3, <1>4, <1>5

\* So do those of the season and its matches.
LEMMA SeasonAlwaysMoves ==
  [PartsNext]_partsVars =>
    /\ [FinalsNext]_finalsVars /\ [SeasonNext]_seasonVars /\ [BenchNext]_benchVars
    /\ [MatchStoreNext]_matchStoreVars /\ [PollingNext]_pollingVars
    /\ [PlacementsNext]_placementVars
  <1> SUFFICES ASSUME [PartsNext]_partsVars
               PROVE  /\ [FinalsNext]_finalsVars /\ [SeasonNext]_seasonVars
                      /\ [BenchNext]_benchVars /\ [MatchStoreNext]_matchStoreVars
                      /\ [PollingNext]_pollingVars /\ [PlacementsNext]_placementVars
    OBVIOUS
  <1>1. [FinalsNext]_finalsVars
    BY DEF PartsNext, partsVars, OthersRest
  <1>2. [SeasonNext]_seasonVars
    BY DEF PartsNext, partsVars, OthersRest
  <1>3. [BenchNext]_benchVars
    BY DEF PartsNext, partsVars, OthersRest
  <1>4. [MatchStoreNext]_matchStoreVars
    BY DEF PartsNext, partsVars, OthersRest
  <1>5. [PollingNext]_pollingVars
    BY DEF PartsNext, partsVars, OthersRest
  <1>6. [PlacementsNext]_placementVars
    BY DEF PartsNext, partsVars, OthersRest
  <1> QED BY <1>1, <1>2, <1>3, <1>4, <1>5, <1>6

\* And those of the channels, the caches, the scripts and the ranks.
LEMMA CachesAlwaysMove ==
  [PartsNext]_partsVars =>
    /\ [ChannelsNext]_channelVars /\ [CachesNext]_cacheVars /\ [BackfillNext]_backfillVars
    /\ [RankNext]_rankVars
  <1> SUFFICES ASSUME [PartsNext]_partsVars
               PROVE  /\ [ChannelsNext]_channelVars /\ [CachesNext]_cacheVars
                      /\ [BackfillNext]_backfillVars /\ [RankNext]_rankVars
    OBVIOUS
  <1>1. [ChannelsNext]_channelVars
    BY DEF PartsNext, partsVars, OthersRest
  <1>2. [CachesNext]_cacheVars
    BY DEF PartsNext, partsVars, OthersRest, CachesNext
  <1>3. [BackfillNext]_backfillVars
    BY DEF PartsNext, partsVars, OthersRest
  <1>4. [RankNext]_rankVars
    BY DEF PartsNext, partsVars, OthersRest
  <1> QED BY <1>1, <1>2, <1>3, <1>4

\* A behaviour of the parts is one of the accounts' parts, ...
LEMMA AccountsRun ==
  PartsSpec => SessionsSpec /\ PasswordsSpec /\ SourcesSpec /\ SignSpec /\ MigrationsSpec
  BY PartStarts, AccountsAlwaysMove, PTL
     DEF PartsSpec, SessionsSpec, PasswordsSpec, SourcesSpec, SignSpec, MigrationsSpec

\* ... one of the season's and its matches', ...
LEMMA SeasonRuns ==
  PartsSpec =>
    FinalsSpec /\ SeasonSpec /\ BenchSpec /\ MatchStoreSpec /\ PollingSpec /\ PlacementsSpec
  BY PartStarts, SeasonAlwaysMoves, PTL
     DEF PartsSpec, FinalsSpec, SeasonSpec, BenchSpec, MatchStoreSpec, PollingSpec,
         PlacementsSpec

\* ... and one of the channels, the caches, the scripts and the ranks.
LEMMA CachesRun == PartsSpec => ChannelsSpec /\ CachesSpec /\ BackfillSpec /\ RankSpec
  BY PartStarts, CachesAlwaysMove, PTL
     DEF PartsSpec, ChannelsSpec, CachesSpec, BackfillSpec, RankSpec

\* The series run, where theirs is the part.
LEMMA SeriesRuns ==
  PartsSpec => [](InPart("series") => SeriesTypeOK /\ SeriesSound)
  <1>1. [PartsNext]_partsVars =>
          (InPart("series") => InPart("series")') /\ (~InPart("series") => ~InPart("series")')
    BY PartStays
  <1> QED BY <1>1, PartStarts, FiguresMove, SeriesTyped, SeriesSoundHolds, PTL
          DEF PartsSpec, SeriesSpec

\* The syncs of the tournament site run, where theirs is the part.
LEMMA SiteRuns ==
  PartsSpec => [](InPart("site") => SiteTypeOK /\ SiteAgrees)
  <1>1. [PartsNext]_partsVars =>
          (InPart("site") => InPart("site")') /\ (~InPart("site") => ~InPart("site")')
    BY PartStays
  <1> QED BY <1>1, PartStarts, FiguresMove, SiteAgreesHolds, PTL DEF PartsSpec, SiteSpec

\* Every table of every part keeps its type, for any number of accounts, cards, matches,
\* requests and all else the parts keep.
THEOREM PartsTyped == PartsSpec => []PartsTypeOK
  <1>1. ASSUME SessionsTypeOK, PasswordsTypeOK, SourcesTypeOK, SignTypeOK, MigrationsTypeOK,
               FinalsTypeOK, SeasonTypeOK, BenchTypeOK, MatchStoreTypeOK, PollingTypeOK,
               PlacementsTypeOK, ChannelsTypeOK, CachesTypeOK, BackfillTypeOK, RankTypeOK,
               InPart("series") => SeriesTypeOK, InPart("site") => SiteTypeOK
        PROVE  PartsTypeOK
    BY <1>1 DEF PartsTypeOK, InPart
  <1>2. PartsSpec => [](SessionsTypeOK /\ PasswordsTypeOK /\ SourcesTypeOK /\ SignTypeOK
                          /\ MigrationsTypeOK)
    BY AccountsRun, SessionsTyped, PasswordsTyped, SourcesTypeCorrect, SignTyped,
       MigrationsTyped, PTL
  <1>3. PartsSpec => [](FinalsTypeOK /\ SeasonTypeOK /\ BenchTypeOK /\ MatchStoreTypeOK
                          /\ PollingTypeOK /\ PlacementsTypeOK)
    BY SeasonRuns, FinalsTyped, SeasonTypedHolds, BenchTyped, StoredMatchesTyped, PollingTyped,
       PlacementsTyped, PTL
  <1>4. PartsSpec => [](ChannelsTypeOK /\ CachesTypeOK /\ BackfillTypeOK /\ RankTypeOK)
    BY CachesRun, ChannelsTypedHolds, CachesTypedHolds, BackfillSoundHolds, RanksTypedHolds, PTL
  <1> QED BY <1>1, <1>2, <1>3, <1>4, SeriesRuns, SiteRuns, PTL

\* What is shown of the same matches agrees in every part: the schedule, the teams'
\* records and the tournament site of the series, and the leaderboards, My Team and the
\* weekly report of the weeks, for any number of each.
THEOREM RecordsAgreeHolds == PartsSpec => []RecordsAgree
  <1>1. (InPart("series") => SeriesSound) /\ (InPart("site") => SiteAgrees) /\ ReportsAgree
          => RecordsAgree
    BY DEF RecordsAgree, InPart
  <1> QED BY <1>1, SeriesRuns, SiteRuns, SeasonRuns, ReportsAgreeHolds, PTL

\* The places derived from a season that is over are those played for, in every format and
\* with any admitted games on record, and the leaderboards rebuilt for past seasons are
\* those of their results, for any number of leagues, matches, seasons and runs.
THEOREM PastSeasonsSoundHolds == PartsSpec => []PastSeasonsSound
  <1>1. PlacesTrue /\ BackfillSound => PastSeasonsSound
    BY DEF PastSeasonsSound
  <1> QED BY <1>1, SeasonRuns, CachesRun, PlacesTrueHolds, BackfillSoundHolds, PTL

\* Where the group table is played, it ranks and the bracket seeds as the rules do, for any
\* number of teams and seeds and all results.
THEOREM TableSeedingHolds == PartsSpec => []TableSeeding
  <1>1. TableSeeding
    BY SeedingAlways DEF TableSeeding
  <1> QED BY <1>1, PTL

\* What is left of the run's invariants, of all parts at once: sessions and passwords,
\* codes and cards, sign-in, finals, seasons, substitutions, migrations, tags, caches, the
\* live list and the ranks stay sound whichever part runs.
THEOREM PartsSound ==
  PartsSpec =>
    [](/\ SessionsSound /\ NoSessionOfOldPassword /\ OwnCardOnce /\ SignInSound
       /\ DatabasesRepaired /\ CountedBeforeResult /\ SeasonRecordWhole /\ SwapsFollowGames
       /\ LiveIsLastCheck /\ TagsFollowChannels /\ CachesSound /\ NobodyStarves)
  <1>1. PartsSpec => [](SessionsSound /\ NoSessionOfOldPassword /\ OwnCardOnce /\ SignInSound
                          /\ DatabasesRepaired)
    BY AccountsRun, SessionsSoundHold, OldPasswordGone, OwnCardHolds, SignInSoundHolds,
       DatabasesRepairedHolds, PTL
  <1>2. PartsSpec => [](CountedBeforeResult /\ SeasonRecordWhole /\ SwapsFollowGames
                          /\ LiveIsLastCheck)
    BY SeasonRuns, CountedBeforeResultHolds, SeasonRecordsWhole, SwapsFollowGamesHolds,
       LiveIsLastCheckHolds, PTL
  <1>3. PartsSpec => [](TagsFollowChannels /\ CachesSound /\ NobodyStarves)
    BY CachesRun, TagsFollowChannelsHolds, CachesSoundHold, NobodyStarvesHolds, PTL
  <1> QED BY <1>1, <1>2, <1>3, PTL

\* And the run's properties of steps: codes and events pay as OncePayments promises, stored
\* matches are replaced by the rules, and what is offered for an MVP stays on offer.
THEOREM PartsStepsSound == PartsSpec => OffersPayOnce /\ MatchesReplaced /\ OfferKept
  BY AccountsRun, SeasonRuns, PaymentsRefined, MatchesReplacedHolds, OfferKeptHolds, PTL
=============================================================================
