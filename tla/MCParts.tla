------------------------------- MODULE MCParts -------------------------------
\* The parts on small instances.
EXTENDS Parts

OneSignup == {[attempt |-> "earlier", id |-> CHOOSE i \in SteamIds : TRUE]}

OnePick == {<<1, 2, 1>>}
OnePair == {{1, 4}}

\* Group tables in which four teams are level on points and series wins through
\* two others, for every result among the four that does not only rename them,
\* with the series of the two others to play.
FourTeams == 1..4
FourPairs == {p \in FourTeams \X FourTeams : p[1] < p[2]}
Among(g, t) ==
  MapThenSumSet(LAMBDA p : IF t = p[1] THEN g[p] ELSE 2 - g[p],
                {p \in FourPairs : t \in {p[1], p[2]}})
InOrder(g) == \A t \in 1..3 : Among(g, t) >= Among(g, t + 1)

LevelTable(g, pts, won) ==
  LET own(t) == {p \in FourPairs : t \in {p[1], p[2]}}
      got(t, p) == IF t = p[1] THEN g[p] ELSE 2 - g[p]
      v(t) == won - Cardinality({p \in own(t) : got(t, p) = 2})
      d(t) == pts - 2 * won - Cardinality({p \in own(t) : got(t, p) = 1})
      against(t, o) == CASE o <= 4 + v(t) -> 2
                         [] o = 5 + v(t) /\ d(t) >= 1 -> 1
                         [] o = 6 + v(t) /\ d(t) = 2 -> 1
                         [] OTHER -> 0
  IN IF \A t \in FourTeams : v(t) >= 0 /\ d(t) >= 0 /\ v(t) + d(t) <= 2
     THEN {[p \in {q \in (1..6) \X (1..6) : q[1] < q[2]} |->
              CASE p \in FourPairs -> g[p]
                [] p = <<5, 6>> -> -1
                [] OTHER -> against(p[1], p[2])]}
     ELSE {}
LevelTables ==
  UNION {LevelTable(g, 5, 2) : g \in {h \in [FourPairs -> 0..2] : InOrder(h)}}

\* Two locked weeks, the second with a bench player who is a roster player's
\* other card; the games of a series, of one fixture.
PlayedInGame == 1 :> {"c1", "c3"} @@ 2 :> {"c2", "c4"}
SamePlayerPairs == {{"c1", "c3"}}
LockedRoster == <<<<"c1", "c2">>, <<"c1", "c5">>>>
LockedBenches == {<<<<>>, <<>>>>, <<<<"c3", "c4">>, <<"c3", "c4">>>>}
OneFixture == 1 :> 1 @@ 2 :> 1
OneSeries == 1 :> {1, 2} @@ 2 :> {1, 2}

\* Databases of earlier versions: who is connected, who merged and whose starter came
\* with Join; and rosters with duplicates, too many cards and cards without a slot.
DeckPlayers == <<"p", "p", "q", "r">>
NoSlots == [c \in Deck |-> 0]
ConnectedBefore ==
  {t \in [Webs -> TwitchIds \cup {NoTwitch}] :
     /\ t[1] = CHOOSE i \in TwitchIds : TRUE
     /\ t[2] # t[1]}
EarlierStarters ==
  UNION {{NewDatabase(t, j, n, {}, NoSlots) :
            j \in SUBSET {w \in Webs : t[w] \in n}} :
         t \in ConnectedBefore, n \in SUBSET TwitchIds}
EarlierRosters ==
  UNION {{NewDatabase([w \in Webs |-> NoTwitch], {}, {}, a, s) :
            s \in {z \in [Deck -> 0..1] : \A c \in Deck \ a : z[c] = 0}} :
         a \in SUBSET Deck}

OneSetting == {{2}}

\* Two changes show a match that is excluded and counted again.
ChangesOfKind == [admin |-> 1, ingest |-> 2, other |-> 2]

\* Names that contain each other, two teams with three matches and one of another, and
\* a feed with a fixture of each kind of date.
NamesInside == 1 :> <<1, 2>> @@ 2 :> <<1, 3>> @@ 3 :> <<5, 5>>
SidesPlayed == 1 :> <<1, 2>> @@ 2 :> <<2, 1>> @@ 3 :> <<1, 2>> @@ 4 :> <<3, 1>>
KnownResults == 1 :> "yes" @@ 2 :> "yes" @@ 3 :> "no" @@ 4 :> "unknown"
ListedFixture(a, b, s, w) == [team1 |-> a, team2 |-> b, starts |-> s, weekStart |-> w]
FeedFixtures ==
  {ListedFixture(<<1, 2>>, <<3, 3>>, 1, 0), ListedFixture(<<1, 1>>, <<1, 2>>, NoDate, 2),
   ListedFixture(<<1, 2>>, <<4, 6>>, NoDate, NoDate)}
SomeFeeds ==
  {[source |-> "fixtures", fixtures |-> FeedFixtures]}
   \cup {[source |-> "sheet", fixtures |-> {f}] : f \in FeedFixtures}

\* A match on the site between two teams with three matches, and a score entered by hand.
ParticipantNames == <<<<1, 2>>, <<3, 3>>>>
HandScores == {<<1, 0>>}

\* A game in each of two leagues, the second starting as the first ends.
GameLeague == 1 :> "first" @@ 2 :> "second"
GameTeams == 1 :> {1, 2} @@ 2 :> {3, 4}
GameFrom == 1 :> 0 @@ 2 :> 1
GameTo == 1 :> 1 @@ 2 :> 2

\* A series won two to nothing, and one of three games with one result missing.
SeriesRecords ==
  {[won |-> 2, lost |-> 0, played |-> 2], [won |-> 1, lost |-> 1, played |-> 3]}

\* A season of two leagues, one of a single league and the live one.
SeasonLeagues == <<<<"l1", "l2">>, <<"l3">>, <<"l4">>>>
LeagueGames == "l1" :> <<1, 2>> @@ "l2" :> <<3>> @@ "l3" :> <<4>> @@ "l4" :> <<5>>
WhoPlayed == 1 :> {"a"} @@ 2 :> {"b"} @@ 3 :> {"b", "c"} @@ 4 :> {"a"} @@ 5 :> {"a"}

\* By whom a season was archived is only compared with rows of the same season, and the
\* rows of a season all carry the same one unless it has too many.
SeasonView ==
  <<day, playVars, {[a EXCEPT !.by = "any"] : a \in archive}, Cardinality(archive),
    titles, seasonStalled, edits, recorded>>

\* The parts that rest hold their initial values throughout.
PartView ==
  <<part, CASE part = "sessions" -> sessionsVars
    [] part = "passwords" -> passwordVars
    [] part \in {"offers", "own-card"} -> sourceVars
    [] part = "sign-in" -> signVars
    [] part = "table" -> wins
    [] part = "finals" -> finalsVars
    [] part = "season" -> SeasonView
    [] part = "bench" -> benchVars
    [] part = "matches" -> matchStoreVars
    [] part \in {"starters", "rosters"} -> migrationVars
    [] part = "channels" -> channelVars
    [] part \in {"schedule", "panel", "figures"} -> cacheVars
    [] part \in {"series", "site"} -> <<seriesVars, siteVars>>
    [] part = "polling" -> pollingVars
    [] part = "places" -> placementVars
    [] part = "backfill" -> backfillVars
    [] part = "ranks" -> rankVars>>
=============================================================================
