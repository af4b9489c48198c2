------------------------------- MODULE Series -------------------------------
(***************************************************************************)
(* Which matches make a series: the fixtures of the schedule feed claim    *)
(* the matches near them, the rest is grouped by the time between matches  *)
(* (backend/schedule.py), and the records of the teams come from both      *)
(* (team_insights.py).                                                     *)
(*                                                                         *)
(* A name is an interval of one text, so that names contain each other the *)
(* way substrings do.  Start times, the gap and the window are in units of *)
(* the gap; streams, heroes, kills and divisions are left out.             *)
(***************************************************************************)
EXTENDS Integers, Sequences, FiniteSetsExt, SequencesExt

CONSTANTS
  TeamKeys,      \* normalised name of each team
  SidesOf,       \* radiant and dire team of each match
  RadiantWin,    \* matches.radiant_win: "yes", "no" or "unknown"
  PlayTimes,     \* when a match may start
  Feeds,         \* what the feed may list
  Disputed,      \* matches an admin may exclude from scoring
  SeriesGap, SeriesWindow, WeekAnchor,
  NoName, UnknownTeam, NoDate

Teams == DOMAIN TeamKeys
MatchIds == DOMAIN SidesOf

ASSUME SeriesAssumption ==
  /\ PlayTimes \subseteq Nat /\ PlayTimes # {}
  /\ {SeriesGap, SeriesWindow, WeekAnchor} \subseteq Nat /\ NoDate \notin Int
  /\ IsInjective(TeamKeys) /\ IsFiniteSet(Teams) /\ UnknownTeam \notin Teams
  /\ MatchIds \subseteq Nat /\ IsFiniteSet(MatchIds)
  /\ \A m \in MatchIds : SidesOf[m] \in Teams \X Teams /\ SidesOf[m][1] # SidesOf[m][2]
  /\ RadiantWin \in [MatchIds -> {"yes", "no", "unknown"}]
  /\ \A f \in Feeds : /\ IsFiniteSet(f.fixtures)
                      /\ \A x \in f.fixtures : {x.starts, x.weekStart} \subseteq Int \cup {NoDate}

VARIABLES
  startOf,      \* start_time of the stored matches, NoDate for the others
  unscored,     \* matches an admin excluded from scoring
  feed          \* [source, fixtures], as last read

seriesVars == <<startOf, unscored, feed>>

Stored == {m \in MatchIds : startOf[m] # NoDate}

-----------------------------------------------------------------------------
(* Names and fixtures *)

Within(n, key) == key[1] <= n[1] /\ n[2] <= key[2]
Length(n) == n[2] - n[1]

\* find_team_id: the exact name, else the longest of the names that contain it or are
\* contained in it, else, or without a single longest, nobody.
Alike(n) == {t \in Teams : Within(n, TeamKeys[t]) \/ Within(TeamKeys[t], n)}
Longest(S) == {t \in S : \A u \in S : Length(TeamKeys[u]) <= Length(TeamKeys[t])}
FindTeam(n) ==
  LET exact == {t \in Teams : TeamKeys[t] = n}
      found == IF exact # {} THEN exact ELSE Longest(Alike(n))
  IN IF n # NoName /\ Cardinality(found) = 1 THEN CHOOSE t \in found : TRUE ELSE UnknownTeam

\* _fixture_to_series: the start, else the Thursday of the fixture's league week.
PlannedAt(f) ==
  CASE f.starts # NoDate -> f.starts
    [] f.starts = NoDate /\ f.weekStart # NoDate -> f.weekStart + WeekAnchor
    [] OTHER -> NoDate

\* The fixtures feed drops what it cannot place; the sheet keeps rows without a date.
InFeed == {f \in feed.fixtures : feed.source = "sheet" \/ PlannedAt(f) # NoDate}

TeamsOf(f) == <<FindTeam(f.team1), FindTeam(f.team2)>>

-----------------------------------------------------------------------------
(* Series *)

PairOf(m) == ToSet(SidesOf[m])

\* resolve_series_result: the matches of the two teams near the fixture's time, or at
\* any time when it has none.
Near(m, at) == at = NoDate \/ startOf[m] \in (at - SeriesWindow)..(at + SeriesWindow)
MatchesOf(f) ==
  IF UnknownTeam \in ToSet(TeamsOf(f)) THEN {}
  ELSE {m \in Stored : PairOf(m) = ToSet(TeamsOf(f)) /\ Near(m, PlannedAt(f))}

ClaimedMatches == UNION {MatchesOf(f) : f \in InFeed}

\* One match of _build_unscheduled_results: it joins the open series of its pair when it
\* starts soon after the one before, and otherwise opens another.
First(matches) == Min({startOf[m] : m \in matches})
Latest(matches) == Max({startOf[m] : m \in matches})
Joined(series, m) ==
  LET mine == {k \in DOMAIN series : \A g \in series[k] : PairOf(g) = PairOf(m)}
  IN IF mine # {} /\ startOf[m] - Latest(series[Max(mine)]) <= SeriesGap
     THEN [series EXCEPT ![Max(mine)] = @ \cup {m}]
     ELSE Append(series, {m})

\* The matches join by their start, those that start together by their id.
StartsBefore(m, n) == startOf[m] < startOf[n] \/ (startOf[m] = startOf[n] /\ m < n)
LastMatch(matches) == CHOOSE m \in matches : \A n \in matches \ {m} : StartsBefore(n, m)
Grouped(matches) ==
  LET after[S \in SUBSET matches] ==
        IF S = {} THEN <<>> ELSE Joined(after[S \ {LastMatch(S)}], LastMatch(S))
  IN after[matches]
ExtraSeries == Grouped(Stored \ ClaimedMatches)

\* _tally_wins: of the first team; the other one has the rest of the known results.
Known(matches) == {m \in matches : RadiantWin[m] # "unknown"}
TalliedRadiant(matches, team) == Cardinality({m \in matches : RadiantWin[m] = "yes"})
Tallied(matches, team) ==
  Cardinality({m \in Known(matches) : (SidesOf[m][1] = team) <=> (RadiantWin[m] = "yes")})
WinsOf(f) ==
  LET first == Tallied(MatchesOf(f), TeamsOf(f)[1])
  IN <<first, Cardinality(Known(MatchesOf(f))) - first>>

-----------------------------------------------------------------------------
(* Records of a team *)

\* feed_series and series_record: each fixture with a result, seen from both sides.
SeenBy(t) ==
  {s \in {f \in InFeed : MatchesOf(f) # {}} \X {1, 2} : TeamsOf(s[1])[s[2]] = t}
SeriesRecord(t) ==
  LET of(result) ==
        Cardinality({s \in SeenBy(t) :
          LET w == WinsOf(s[1]) IN
          CASE result = "W" -> w[s[2]] > w[3 - s[2]]
            [] result = "L" -> w[s[2]] < w[3 - s[2]]
            [] OTHER -> w[s[2]] = w[3 - s[2]]})
  IN [wins |-> of("W"), losses |-> of("L"), draws |-> of("D")]

\* player_insights.won and games_records, over the matches that count.
Won(t, m) ==
  IF t = SidesOf[m][1] THEN RadiantWin[m] = "yes" ELSE RadiantWin[m] = "no"
GamesRecord(t) ==
  LET mine == {m \in Stored \ unscored : t \in PairOf(m)}
  IN [games |-> Cardinality(mine),
      wins |-> Cardinality({m \in mine : Won(t, m)}),
      losses |-> Cardinality({m \in Known(mine) : ~Won(t, m)})]

-----------------------------------------------------------------------------
StoreMatch(m, at) ==
  /\ m \notin Stored
  /\ startOf' = [startOf EXCEPT ![m] = at]
  /\ UNCHANGED <<unscored, feed>>

SetScoring(m) ==
  /\ m \in Stored \cap Disputed
  /\ unscored' = (unscored \ {m}) \cup ({m} \ unscored)
  /\ UNCHANGED <<startOf, feed>>

\* The feed is read again after the cache's hour.
ReadFeed(f) == f # feed /\ feed' = f /\ UNCHANGED <<startOf, unscored>>

SeriesInit ==
  /\ startOf = [m \in MatchIds |-> NoDate] /\ unscored = {}
  /\ feed = [source |-> "sheet", fixtures |-> {}]

SeriesNext ==
  \/ \E m \in MatchIds : SetScoring(m) \/ \E at \in PlayTimes : StoreMatch(m, at)
  \/ \E f \in Feeds : ReadFeed(f)

SeriesSpec == SeriesInit /\ [][SeriesNext]_seriesVars

-----------------------------------------------------------------------------
(* Properties *)

SeriesTypeOK ==
  /\ startOf \in [MatchIds -> PlayTimes \cup {NoDate}]
  /\ unscored \subseteq Stored
  /\ \A f \in InFeed : ToSet(TeamsOf(f)) \subseteq Teams \cup {UnknownTeam}

\* The matches reached from m over matches of its pair no further apart than the gap.
Reached(m, matches) ==
  {x \in matches :
     \A C \in SUBSET matches :
       /\ m \in C
       /\ \A c \in C, d \in matches :
            PairOf(c) = PairOf(d) /\ startOf[d] - startOf[c] \in -SeriesGap..SeriesGap => d \in C
       => x \in C}

\* The matches no fixture claims are grouped into what the gap connects, in whatever
\* order they were stored, each into one series.
GroupsConnected ==
  ToSet(ExtraSeries) = {Reached(m, Stored \ ClaimedMatches) : m \in Stored \ ClaimedMatches}

\* A match counts in one series, but for fixtures of the same teams whose windows meet.
CountedInOneSeries ==
  \A f, g \in InFeed : f # g /\ MatchesOf(f) \cap MatchesOf(g) # {} =>
    \/ NoDate \in {PlannedAt(f), PlannedAt(g)}
    \/ PlannedAt(f) - PlannedAt(g) \in -(2 * SeriesWindow)..(2 * SeriesWindow)

\* A series' score is what its matches say of each team, and what one team wins
\* another loses, in series and in matches.
RecordsBalance ==
  /\ \A f \in InFeed : MatchesOf(f) # {} => \A me \in {1, 2} :
       WinsOf(f)[me] = Cardinality({m \in MatchesOf(f) : Won(TeamsOf(f)[me], m)})
  /\ SumFunction([t \in Teams |-> SeriesRecord(t).wins - SeriesRecord(t).losses]) = 0
  /\ SumFunction([t \in Teams |-> GamesRecord(t).wins - GamesRecord(t).losses]) = 0

\* What the schedule and the teams' records say of the same matches agrees.
SeriesSound == GroupsConnected /\ CountedInOneSeries /\ RecordsBalance
=============================================================================
