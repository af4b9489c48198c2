SPECIFICATION PartsSpec
CONSTANTS
  Members = {m1, m2}
  Browsers = {b1, b2}
  Sids = {s1, s2}
  WebClients = {c1}
  PlayerIdle = 3
  PlayerAbsolute = 3
  AdminIdle = 3
  AdminAbsolute = 3
  TouchEvery = 2
  NoSid = NoSid
  Accounts = {m1}
  LoginClients = {c1, c2}
  LockoutAfter = 2
  Links = {l1, l2, l3}
  MaxPassword = 2
  Claimants = {u1, u2}
  LeaguePlayers = {p1, p2}
  OfferIds = {1}
  MaxOffers = 2
  Amounts = {1}
  Caps = {1, 2}
  SourceClients = {c1, c2}
  NoPlayer = NoPlayer
  Site = {w1, w2}
  WithPassword = {w1}
  Tabs = {b1}
  SteamIds = {i1, i2}
  Attempts = {a1}
  Begun <- OneSignup
  SignClients = {c1, c2}
  Nil = Nil
  DivTeams = {1, 2, 3, 4, 5, 6}
  SeedsInBracket = 4
  GroupTables <- LevelTables
  Fans = {u1}
  PickChoices <- OnePick
  MaxRevisions = 1
  WinsToTake = 1
  MaxFacts = 1
  StallOps = {"view", "save"}
  GamePairs <- OnePair
  AdminWinners = {1, 2}
  FixtureTimes = {2}
  MaxTime = 2
  Pros = {p1}
  Fantasists = {u1}
  Numbers = {1, 2}
  AddedKinds = {"winner"}
  SetKinds = {"champion"}
  LeagueSeasons = {2}
  Forces = {FALSE}
  MaxEdits = 1
  MaxDay = 2
  Rounds = {1, 2}
  Games = {1, 2}
  PlayedIn <- PlayedInGame
  SamePlayer <- SamePlayerPairs
  Roster <- LockedRoster
  Benches <- LockedBenches
  Scheduled <- OneFixture
  SeriesOf <- OneSeries
  MaxCorrections = 2
  GameIds = {1}
  Listed = {1}
  MaxRequests = 2
  Webs = {1, 2}
  TwitchIds = {i1, i2}
  NoTwitch = NoTwitch
  Deck = {1, 2, 3, 4}
  PlayerOf <- DeckPlayers
  RosterLimit = 2
  LegacyStarters <- EarlierStarters
  LegacyRosters <- EarlierRosters
  MaxStarts = 2
  Streamers = {1, 2}
  ChannelIds = {1, 2, 3}
  NoChannel = NoChannel
  PendingCap = 1
  EnvSettings <- OneSetting
  MaxSteps = 4
  CacheClients = {q1, q2}
  CacheTTL = 1
  MaxClock = 1
  MaxChanges <- ChangesOfKind
  TeamKeys <- NamesInside
  SidesOf <- SidesPlayed
  RadiantWin <- KnownResults
  PlayTimes = {0, 1, 2}
  Feeds <- SomeFeeds
  Disputed = {1}
  SeriesGap = 1
  SeriesWindow = 1
  WeekAnchor = 1
  NoName = NoName
  UnknownTeam = UnknownTeam
  NoDate = NoDate
  SiteMatch <- ParticipantNames
  SiteScores <- HandScores
  PurgedTogether = {1, 2}
  Syncers = {"loop", "admin"}
  MaxSiteEdits = 1
  NoSiteScore = NoSiteScore
  LeagueOf <- GameLeague
  TeamPair <- GameTeams
  PlayedFrom <- GameFrom
  PlayedTo <- GameTo
  StaleAfter = 1
  SeriesLimit = 1
  MaxNow = 3
  MaxAdminSteps = 1
  NoRow = NoRow
  NotYet = NotYet
  Brackets = {"plain", "third", "double"}
  Records <- SeriesRecords
  SeasonFile <- SeasonLeagues
  LiveSeason = 3
  MatchesOfLeague <- LeagueGames
  AppearedIn <- WhoPlayed
  MaxCalls = 4
  MaxRuns = 2
  NoJob = NoJob
  PoolIds = {1, 2, 3, 4}
  Silent = {2}
  BatchSize = 2
  CooldownTicks = 1
  LastTick = 3
  MaxAdminJobs = 1
INVARIANTS
  PartsTypeOK
  
  NoSessionOfOldPassword
  OwnCardOnce
  SignInSound
  TableSeeding CountedBeforeResult SeasonRecordWhole
  SwapsFollowGames
  DatabasesRepaired
  TagsFollowChannels 
  CachesSound
  LiveIsLastCheck  NobodyStarves
PROPERTIES OffersPayOnce MatchesReplaced OfferKept
CHECK_DEADLOCK FALSE
VIEW PartView
