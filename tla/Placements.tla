----------------------------- MODULE Placements -----------------------------
(***************************************************************************)
(* The places of a past season as derived from its matches (backend/       *)
(* scripts/season_placements.py), beside the playoff that was played.      *)
(*                                                                         *)
(* The log holds, in playing order, each day's games of a series: who won  *)
(* the series and how many of the games the two have on record there.      *)
(* Team ids and names, which Teams joins, are one team here.               *)
(***************************************************************************)
EXTENDS Integers, FiniteSetsExt, SequencesExt

CONSTANTS
  Brackets,   \* formats of a playoff: "plain", "third" (with a third-place match), "double"
  Records     \* games on record of a series' winner and loser, and games played

\* A series is played until somebody has won it, and not so many of its results are
\* missing that the other side is ahead on record.
ASSUME PlacementsAssumption ==
  /\ Brackets \subseteq {"plain", "third", "double"}
  /\ \A r \in Records :
       /\ r.won \in 0..2 /\ r.lost \in 0..r.won /\ r.played \in 0..3 /\ r.won + r.lost <= r.played
       /\ r.won + r.lost = r.played => r.lost < r.won

VARIABLES
  playoff,
  withIds,   \* the matches have a series_id
  oneDay,    \* the playoff was played on one UTC day
  log

placementVars == <<playoff, withIds, oneDay, log>>

Finalists == 1..4

-----------------------------------------------------------------------------
(* The playoff *)

Slate ==
  CASE playoff = "plain" -> <<"group", "semi1", "semi2", "final">>
    [] playoff = "third" -> <<"group", "semi1", "semi2", "third", "final">>
    [] OTHER -> <<"semi1", "semi2", "lower1", "upper", "lower", "final">>

PartsOf(slot) == {i \in DOMAIN log : log[i].slot = slot}
SlotWinner(slot) == log[CHOOSE i \in PartsOf(slot) : TRUE].winner
SlotLoser(slot) == log[CHOOSE i \in PartsOf(slot) : TRUE].loser

PairIn(slot) ==
  CASE slot = "group" -> {1, 2}
    [] slot = "semi1" -> {1, 4}
    [] slot = "semi2" -> {2, 3}
    [] slot = "third" \/ slot = "lower1" -> {SlotLoser("semi1"), SlotLoser("semi2")}
    [] slot = "upper" \/ (slot = "final" /\ playoff # "double") ->
         {SlotWinner("semi1"), SlotWinner("semi2")}
    [] slot = "lower" -> {SlotLoser("upper"), SlotWinner("lower1")}
    [] OTHER -> {SlotWinner("upper"), SlotWinner("lower")}

SlotsPlayed == Cardinality({log[i].slot : i \in DOMAIN log})
Over == SlotsPlayed = Len(Slate)

\* The day of a part: the group stage is earlier, a part after midnight is later.
DayOf(slot, late) ==
  (IF slot = "group" THEN 0 ELSE IF oneDay THEN 1 ELSE SlotsPlayed + 1) + (IF late THEN 1 ELSE 0)

Part(slot, w, l, record, late) ==
  [slot |-> slot, winner |-> w, loser |-> l, won |-> record.won, lost |-> record.lost,
   played |-> record.played, day |-> DayOf(slot, late)]

\* The next series is played on one day, or the final past midnight with its last game
\* on record for the winner.
PlayNextSeries(w, l, record) ==
  LET slot == Slate[SlotsPlayed + 1]
      last == [won |-> 1, lost |-> 0, played |-> 1]
      first == [record EXCEPT !.won = @ - 1, !.played = @ - 1]
  IN /\ ~Over /\ PairIn(slot) = {w, l} /\ w # l
     /\ \/ log' = Append(log, Part(slot, w, l, record, FALSE))
        \/ /\ slot = "final" /\ record.won = 2
           /\ log' = log \o <<Part(slot, w, l, first, FALSE), Part(slot, w, l, last, TRUE)>>
     /\ UNCHANGED <<playoff, withIds, oneDay>>

PlacementsInit ==
  /\ playoff \in Brackets /\ log = <<>>
  /\ withIds \in BOOLEAN /\ oneDay \in BOOLEAN /\ ~(withIds /\ oneDay)

PlacementsNext == \E w, l \in Finalists, record \in Records : PlayNextSeries(w, l, record)

PlacementsSpec == PlacementsInit /\ [][PlacementsNext]_placementVars

-----------------------------------------------------------------------------
(* group_series *)

\* What puts games in one series: its id, or without one the pair and the day.
KeyOf(p) == IF withIds THEN <<p.slot, 0>> ELSE <<{p.winner, p.loser}, p.day>>

SeriesGroups == {{i \in DOMAIN log : KeyOf(log[i]) = KeyOf(log[j])} : j \in DOMAIN log}

LastPart(g) == Max(g)
TeamsIn(g) == UNION {{log[i].winner, log[i].loser} : i \in g}
WinsIn(g, t) == SumFunction([i \in g |-> IF log[i].winner = t THEN log[i].won ELSE log[i].lost])
GamesIn(g) == SumFunction([i \in g |-> log[i].played])
\* Nobody, if the games are level.
Ahead(g) == {t \in TeamsIn(g) : \A u \in TeamsIn(g) \ {t} : WinsIn(g, t) > WinsIn(g, u)}
Behind(g) == IF Ahead(g) = {} THEN {} ELSE TeamsIn(g) \ Ahead(g)

LastOf(groups) == {g \in groups : \A h \in groups : LastPart(h) <= LastPart(g)}

-----------------------------------------------------------------------------
(* derive_placements: places as sets of at most one team, with the confidence *)

Review == [team |-> {}, confidence |-> "review"]
Place(team, confidence) == [team |-> team, confidence |-> confidence]

LastBefore(team, final) == LastOf({g \in SeriesGroups \ {final} : team \subseteq TeamsIn(g)})

ThirdPlaceAnyTime(a, b, after, final) ==
  LastOf({g \in SeriesGroups \ {final} : TeamsIn(g) = a \cup b /\ Ahead(g) # {}})

\* A series of the semifinals' losers after both of them.
ThirdPlaceMatches(a, b, after, final) ==
  LastOf({g \in SeriesGroups \ {final} :
            TeamsIn(g) = a \cup b /\ LastPart(g) > after /\ Ahead(g) # {}})

\* Who won it, if the two semifinals were won by the final's teams.
ThirdAfter(sw, sl, final) ==
  IF sw # sl /\ Ahead(sw) = Ahead(final) /\ Ahead(sl) = Behind(final)
  THEN UNION {Ahead(g) : g \in ThirdPlaceMatches(Behind(sw), Behind(sl),
                                                 Max({LastPart(sw), LastPart(sl)}), final)}
  ELSE {}

ThirdHigh(final) ==
  UNION {ThirdAfter(sw, sl, final) :
         sw \in LastBefore(Ahead(final), final), sl \in LastBefore(Behind(final), final)}

ThirdLow(final) ==
  UNION {IF Ahead(sl) = Behind(final) THEN Behind(sl) \ Ahead(final) ELSE {} :
         sl \in LastBefore(Behind(final), final)}

ThirdPlace(final) ==
  CASE ThirdHigh(final) # {} -> Place(ThirdHigh(final), "high")
    [] ThirdHigh(final) = {} /\ ThirdLow(final) # {} -> Place(ThirdLow(final), "low")
    [] OTHER -> Review

DerivedOf(final) ==
  IF GamesIn(final) < 2 \/ Ahead(final) = {} THEN <<Review, Review, Review>>
  ELSE <<Place(Ahead(final), "high"), Place(Behind(final), "high"), ThirdPlace(final)>>
Derived == DerivedOf(CHOOSE g \in LastOf(SeriesGroups) : TRUE)

-----------------------------------------------------------------------------
(* Properties *)

PlacementsTypeOK ==
  /\ playoff \in Brackets
  /\ \A i \in DOMAIN log : {log[i].winner, log[i].loser} \subseteq Finalists

TruePlaces ==
  <<{SlotWinner("final")}, {SlotLoser("final")},
    CASE playoff = "third" -> {SlotWinner("third")}
      [] playoff = "double" -> {SlotLoser("lower")}
      [] OTHER -> {SlotLoser("semi1"), SlotLoser("semi2")}>>

\* The matches tell the series apart: by id, or as nobody met twice on a day or past
\* midnight.
Told == \A i, j \in DOMAIN log : log[i].slot = log[j].slot <=> KeyOf(log[i]) = KeyOf(log[j])

NothingMissing == \A i \in DOMAIN log : log[i].played = log[i].won + log[i].lost

\* A place derived for a season that is over is the one that was played for, in every
\* playoff, if the matches tell the series apart; one of high confidence also with
\* results missing from the record.
PlacesTrue ==
  Over /\ Told => LET places == Derived IN
    \A n \in 1..3 : places[n].confidence = "high" \/ NothingMissing =>
      places[n].team \subseteq TruePlaces[n]
=============================================================================
