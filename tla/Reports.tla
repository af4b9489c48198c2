------------------------------- MODULE Reports -------------------------------
(***************************************************************************)
(* What an account is shown of its locked weeks: the weekly and the season *)
(* leaderboard (backend/routers/leaderboard.py), My Team (routers/         *)
(* cards.py) and the weekly report, before and after it is revealed        *)
(* (routers/weekly_summary.py).  Each has a query of its own over the rows *)
(* that module Bench changes; points are a point a game, unrounded.        *)
(* Series, names, logos and the steps of a card's points are left out, and *)
(* so is which reports an account has opened.                              *)
(***************************************************************************)
EXTENDS Bench

\* The window of a week in the queries that join matches.
InWindow(w) ==
  {g \in Games : gameWeek[g] # 0 /\ (override[g] = w \/ (override[g] = 0 /\ gameWeek[g] = w))}
ScoredOf(games) == {g \in games : ~excluded[g]}
PointsOf(card, games) == Cardinality({g \in games : card \in PlayedIn[g]})

AllEntries(w) == CardsOf(Roster[w]) \cup CardsOf(bench[w])
OutCards(w) == {Roster[w][i] : i \in subbed[w].out}

-----------------------------------------------------------------------------
(* The leaderboards *)

\* compute_season_standings sums each card over its locked weeks; every week it is in,
\* or only those it counts in.
WeeksOwned(card) == {w \in Rounds : card \in AllEntries(w)}
WeeksCounted(card) == {w \in Rounds : card \in CountedCards(w)}
SeasonSum(card) ==
  SumOf([w \in WeeksCounted(card) |-> PointsOf(card, ScoredOf(InWindow(w)))], WeeksCounted(card))
SeasonCards == UNION {CountedCards(w) : w \in Rounds}
SeasonStanding == SumOf([c \in SeasonCards |-> SeasonSum(c)], SeasonCards)

WeekStanding(w) ==
  SumOf([c \in CountedCards(w) |-> PointsOf(c, ScoredOf(InWindow(w)))], CountedCards(w))

-----------------------------------------------------------------------------
(* My Team, in a locked week *)

\* The season's points: over every counted row of a locked week.
CountedRows == UNION {{w} \X CountedCards(w) : w \in Rounds}
TeamSeason ==
  SumOf([r \in CountedRows |-> PointsOf(r[2], ScoredOf(InWindow(r[1])))], CountedRows)

\* The counted rows are the roster, the saved bench and the cards that are out the bench.
TeamActive(w) == CountedCards(w)
TeamBench(w) == AllEntries(w) \ CountedCards(w)
TeamTotal(w) == SumOf([c \in TeamActive(w) |-> PointsOf(c, ScoredOf(InWindow(w)))], TeamActive(w))

-----------------------------------------------------------------------------
(* The weekly report *)

\* The card that a substitute is shown for, if any.
ReplacedBy(w, card) ==
  {Roster[w][subbed[w].for[s]] :
     s \in {t \in Seats(bench[w]) : bench[w][t] = card /\ subbed[w].for[t] # 0}}
LockTimeCards(w) ==
  UNION {IF ReplacedBy(w, c) = {} THEN {c} ELSE ReplacedBy(w, c) : c \in TeamActive(w)}

RevealedCards(w) == TeamActive(w) \cup (TeamBench(w) \cap OutCards(w))

\* _card_games: the games of a card in the week, each with points unless excluded.
ReportGames(w, card) == {g \in InWindow(w) : card \in PlayedIn[g]}
ReportedPoints(w) ==
  SumOf([c \in TeamActive(w) |-> Cardinality(ScoredOf(ReportGames(w, c)))], TeamActive(w))

\* The cards of the players marked in a match as counted for the account.
MarkedCards(w, g) ==
  {d \in PlayedIn[g] : g \in InWindow(w) /\ \E c \in CountedCards(w) : OnePlayer(c, d)}

-----------------------------------------------------------------------------
(* Properties *)

\* The leaderboards, My Team and the weekly report tell one story, after overlapping runs
\* and changes that no run follows too: the season is the sum of its weeks, a week's
\* total that of the games listed for it, a revealed report has every card the week was
\* locked with and an unrevealed one none that came in since.  While the swaps follow the
\* games, the unrevealed one also has all the others but those out with nobody in for
\* them, and no player who is out is marked in a match.
ReportsAgree ==
  /\ SeasonStanding = TeamSeason
  /\ SeasonStanding = SumOf([w \in Rounds |-> WeekStanding(w)], Rounds)
  /\ \A w \in Rounds :
       /\ WeekStanding(w) = WeekPoints(w, CountedCards(w))
       /\ TeamTotal(w) = ReportedPoints(w) /\ WeekStanding(w) = TeamTotal(w)
       /\ CardsOf(Roster[w]) \subseteq RevealedCards(w)
       /\ LockTimeCards(w) \subseteq CardsOf(Roster[w])
       /\ w \notin stale =>
            /\ CardsOf(Roster[w]) \ LockTimeCards(w) \subseteq
                 OutCards(w) \ UNION {ReplacedBy(w, c) : c \in CardsOf(bench[w])}
            /\ \A g \in Games : ~excluded[g] => MarkedCards(w, g) \cap OutCards(w) = {}
=============================================================================
