-------------------------------- MODULE Bench --------------------------------
(***************************************************************************)
(* Bench substitutions and the fantasy week a match counts for (backend/   *)
(* weeks.py, match_scoring.py, routers/admin_ingest.py, the scoring flag   *)
(* of routers/admin_matches.py, scripts/backfill_bench.py).                *)
(*                                                                         *)
(* One account, whose snapshots of two locked weeks are fixed but for the  *)
(* bench of a week that was locked before benches were saved.  A run reads *)
(* the flags and who played before it holds SQLite's write lock, and then  *)
(* writes the flags that it found or made TRUE; the runs that follow a     *)
(* change of week start under the lock.  A point per game stands for card  *)
(* points; audit rows are left out.                                        *)
(***************************************************************************)
EXTENDS Integers, Sequences, FiniteSetsExt

CONSTANTS
  Rounds,         \* fantasy weeks: 1..n in order of their windows
  Games,          \* matches
  PlayedIn,       \* PlayedIn[g]: cards whose player is in game g
  SamePlayer,     \* pairs of cards of one player
  Roster,         \* Roster[w]: the active cards of week w in slot order
  Benches,        \* benches the weeks may have been locked with
  Scheduled,      \* Scheduled[g]: the week of the feed's fixture that g is of
  SeriesOf,       \* SeriesOf[g]: games of the same teams within six hours of g
  MaxCorrections  \* bound on what admins correct

CardsOf(cards) == {cards[i] : i \in DOMAIN cards}
OnePlayer(c, d) == c = d \/ {c, d} \in SamePlayer

\* A roster has no player twice.
ASSUME BenchAssumption ==
  /\ IsFiniteSet(Rounds) /\ Rounds = 1..Cardinality(Rounds) /\ MaxCorrections \in Nat
  /\ IsFiniteSet(Games) /\ Scheduled \in [Games -> Rounds]
  /\ SeriesOf \in [Games -> SUBSET Games] /\ \A g \in Games : g \in SeriesOf[g]
  /\ DOMAIN Roster = Rounds /\ \A b \in Benches : b = [w \in Rounds |-> b[w]]
  /\ \A w \in Rounds :
       /\ Roster[w] \in Seq(CardsOf(Roster[w]))
       /\ \A i, j \in 1..Len(Roster[w]) : OnePlayer(Roster[w][i], Roster[w][j]) => i = j
       /\ \A b \in Benches : b[w] \in Seq(CardsOf(b[w]))

VARIABLES
  gameWeek,     \* gameWeek[g]: week whose window g started in, 0 while not stored
  override,     \* matches.week_override_id, 0 for NULL
  excluded,     \* matches.excluded_from_scoring
  bench,        \* bench[w]: the bench rows of week w in bench_order
  subbed,       \* subbed[w]: the flags of its rows
  ended,        \* weeks whose substitution time has passed
  processed,    \* weeks with substitutions_at
  benchStalled, \* a run between its reads and its writes
  corrections,  \* corrections so far
  stale         \* weeks whose last run missed a change

gameVars == <<gameWeek, override, excluded>>
benchVars == <<gameVars, bench, subbed, ended, processed, benchStalled, corrections, stale>>

NoRun == [op |-> "none"]
Slots(w) == 1..Len(Roster[w])
Seats(b) == 1..Len(b)
NoFlags(w, b) == [out |-> {}, for |-> [s \in Seats(b) |-> 0]]

-----------------------------------------------------------------------------
(* The week a match counts for, and who played *)

ScoringWeek(g) == IF override[g] # 0 THEN override[g] ELSE gameWeek[g]

\* The games that count for a week.
Counting(w) ==
  {g \in Games : gameWeek[g] # 0 /\ ~excluded[g] /\ ScoringWeek(g) = w}

\* _players_who_played, as cards: those of a player with a counted game.
Played(w) == UNION {PlayedIn[g] : g \in Counting(w)}

-----------------------------------------------------------------------------
(* run_substitutions *)

\* The cards that count while slots are gone through: of the slots that played and of
\* the bench seats that are in.
Kept(w, played) == {Roster[w][j] : j \in {k \in Slots(w) : Roster[w][k] \in played}}
CountedSoFar(w, b, played, for) ==
  Kept(w, played) \cup {b[s] : s \in {t \in Seats(b) : for[t] # 0}}
Fit(w, b, played, for) ==
  {s \in Seats(b) : /\ for[s] = 0 /\ b[s] \in played
                    /\ \A c \in CountedSoFar(w, b, played, for) : ~OnePlayer(c, b[s])}

\* A slot that did not play is out, and the first bench card that played, is not in yet
\* and brings no player twice, is in for it.
Filled(for, fit, i) == IF fit = {} THEN for ELSE [for EXCEPT ![Min(fit)] = i]
Swapped(w, b, played, f, i) ==
  IF Roster[w][i] \in played THEN f
  ELSE [out |-> f.out \cup {i}, for |-> Filled(f.for, Fit(w, b, played, f.for), i)]

\* The active cards in slot order.
Swaps(w, b, played) ==
  LET after[i \in 0..Len(Roster[w])] ==
        IF i = 0 THEN NoFlags(w, b) ELSE Swapped(w, b, played, after[i - 1], i)
  IN IF b = <<>> THEN NoFlags(w, b) ELSE after[Len(Roster[w])]

\* The flags a run leaves: those it read or set TRUE are written.
Merged(read, result, now) ==
  [out |-> (now.out \ read.out) \cup result.out,
   for |-> [s \in DOMAIN now.for |->
              IF s \in DOMAIN read.for /\ (read.for[s] # 0 \/ result.for[s] # 0)
              THEN result.for[s] ELSE now.for[s]]]

Reading(w) == [week |-> w, flags |-> subbed[w], bench |-> bench[w], played |-> Played(w)]

\* The run of one week, from what it read before; it missed what changed since.
FinishRun(r) ==
  /\ subbed' = [subbed EXCEPT ![r.week] =
       Merged(r.flags, Swaps(r.week, r.bench, r.played), @)]
  /\ processed' = processed \cup {r.week}
  /\ stale' = IF r = Reading(r.week) THEN stale \ {r.week} ELSE stale \cup {r.week}

DueWeeks == ended \ processed

\* due_substitutions one week at a time, rerun_substitutions, or the second
\* transaction of store_manual_match.
Runs == {Reading(w) : w \in DueWeeks}
          \cup {Reading(w) : w \in IF corrections < MaxCorrections THEN ended ELSE {}}

RunSubstitutions ==
  \E r \in Runs :
    /\ FinishRun(r)
    /\ corrections' = IF r.week \in processed THEN corrections + 1 ELSE corrections
    /\ UNCHANGED <<gameVars, bench, ended, benchStalled>>
StallRun ==
  /\ benchStalled = NoRun
  /\ \E r \in Runs :
       /\ benchStalled' = [op |-> "run", read |-> r]
       /\ corrections' = IF r.week \in processed THEN corrections + 1 ELSE corrections
  /\ UNCHANGED <<gameVars, bench, subbed, ended, processed, stale>>
ResumeRun ==
  /\ benchStalled # NoRun /\ FinishRun(benchStalled.read) /\ benchStalled' = NoRun
  /\ UNCHANGED <<gameVars, bench, ended, corrections>>

\* The process stops: what the run had not committed is gone.
DropRun ==
  /\ benchStalled # NoRun /\ benchStalled' = NoRun
  /\ UNCHANGED <<gameVars, bench, subbed, ended, processed, corrections, stale>>

-----------------------------------------------------------------------------
(* Changes of a match's week *)

\* rerun_substitutions_for, in the transaction of the change.
RerunFor(weeks) ==
  LET due == weeks \cap processed
  IN /\ subbed' = [w \in Rounds |->
          IF w \in due THEN Swaps(w, bench[w], Played(w)') ELSE subbed[w]]
     /\ stale' = stale \ due

\* The old and the new week of each game that moved.
AffectedNew(moved) == {ScoringWeek(g)' : g \in moved} \ {0}
Affected(moved) ==
  (UNION {{ScoringWeek(g), ScoringWeek(g)'} :
            g \in {h \in moved : ScoringWeek(h) # ScoringWeek(h)'}}) \ {0}

MoveGames(games, w) ==
  LET moved == {g \in games : gameWeek[g] # 0 /\ override[g] # w[g]}
  IN /\ override' = [g \in Games |-> IF g \in moved THEN w[g] ELSE override[g]]
     /\ UNCHANGED <<gameWeek, excluded>>
     /\ RerunFor(Affected(moved))
     /\ UNCHANGED <<bench, ended, processed, benchStalled>>

Correct == corrections < MaxCorrections /\ corrections' = corrections + 1

\* PUT /matches/{id}/week for one game, or for its whole series.
SetMatchWeek(g, w, series) ==
  /\ Correct /\ gameWeek[g] # 0 /\ override[g] # w
  /\ MoveGames(IF series THEN SeriesOf[g] ELSE {g}, [h \in Games |-> w])

\* out_of_week_series: the fixtures of the feed with a game that counts for another week
\* than the fixture's, unless an admin has decided on every one of its games.
FixtureGames(w) == {g \in Games : gameWeek[g] # 0 /\ Scheduled[g] = w}
OutOfWeek ==
  {w \in Rounds : /\ \E g \in FixtureGames(w) : ScoringWeek(g) # w
                  /\ \E g \in FixtureGames(w) : override[g] = 0}

\* POST /admin/sync-match-weeks: all the games of those fixtures.
SyncMatchWeeks ==
  Correct /\ OutOfWeek # {} /\ MoveGames(UNION {FixtureGames(w) : w \in OutOfWeek}, Scheduled)

-----------------------------------------------------------------------------
(* Changes that start no run *)

\* The weeks in which somebody's game appears or goes.
Touches == {w \in processed : Played(w)' # Played(w)}
NoRunFollows ==
  /\ stale' = stale \cup Touches
  /\ UNCHANGED <<bench, subbed, ended, processed, benchStalled>>

\* ingest_match: a league game is stored, possibly long after its week.
Ingest(g) ==
  /\ gameWeek[g] = 0
  /\ \E w \in Rounds : gameWeek' = [gameWeek EXCEPT ![g] = w]
  /\ UNCHANGED <<override, excluded, corrections>> /\ NoRunFollows

\* store_manual_match over an earlier manual match; its own second transaction
\* (RunSubstitutions of the weeks it left and entered) may still be lost.
ReplaceMatch(g, w) ==
  /\ Correct /\ gameWeek[g] \notin {0, w}
  /\ gameWeek' = [gameWeek EXCEPT ![g] = w]
  /\ UNCHANGED <<override, excluded>> /\ NoRunFollows

\* set_match_scoring
Exclude(g) ==
  /\ Correct /\ gameWeek[g] # 0
  /\ excluded' = [excluded EXCEPT ![g] = ~@]
  /\ UNCHANGED <<gameWeek, override>> /\ NoRunFollows

-----------------------------------------------------------------------------
(* Weeks *)

\* substitution_time of the earliest week that has not ended.
EndWeek ==
  /\ ended # Rounds /\ ended' = ended \cup {Min(Rounds \ ended)}
  /\ UNCHANGED <<gameVars, bench, subbed, processed, benchStalled, corrections, stale>>

\* backfill_bench_candidates: cards on the roster of this week or an earlier one,
\* not on this one's; some may be gone or their player inactive by now.
Candidates(w) == (UNION {CardsOf(Roster[v]) : v \in 1..w}) \ CardsOf(Roster[w])
BenchOrders(cards) ==
  {b \in [1..Cardinality(cards) -> cards] : CardsOf(b) = cards}

\* scripts/backfill_bench.py: a week whose time has passed and has no bench rows.
BackfillBench(w) ==
  /\ w \in ended /\ bench[w] = <<>>
  /\ \E kept \in (SUBSET Candidates(w)) \ {{}} : \E b \in BenchOrders(kept) :
       /\ bench' = [bench EXCEPT ![w] = b]
       /\ subbed' = [subbed EXCEPT ![w] = Swaps(w, b, Played(w))]
  /\ processed' = processed \cup {w} /\ stale' = stale \ {w}
  /\ UNCHANGED <<gameVars, ended, benchStalled, corrections>>

BenchInit ==
  /\ gameWeek = [g \in Games |-> 0] /\ override = [g \in Games |-> 0]
  /\ excluded = [g \in Games |-> FALSE]
  /\ bench \in Benches
  /\ subbed = [w \in Rounds |-> NoFlags(w, bench[w])]
  /\ ended = {} /\ processed = {} /\ benchStalled = NoRun
  /\ corrections = 0 /\ stale = {}

BenchNext ==
  \/ RunSubstitutions \/ StallRun \/ ResumeRun \/ DropRun \/ EndWeek \/ SyncMatchWeeks
  \/ \E g \in Games : Ingest(g) \/ Exclude(g)
  \/ \E g \in Games, w \in Rounds : ReplaceMatch(g, w)
  \/ \E g \in Games, w \in Rounds \cup {0}, series \in BOOLEAN : SetMatchWeek(g, w, series)
  \/ \E w \in Rounds : BackfillBench(w)

BenchSpec == BenchInit /\ [][BenchNext]_benchVars

-----------------------------------------------------------------------------
(* Properties *)

\* Flags belong to rows of the week.
BenchTypeOK ==
  /\ gameWeek \in [Games -> Rounds \cup {0}] /\ override \in [Games -> Rounds \cup {0}]
  /\ processed \subseteq Rounds /\ stale \subseteq processed
  /\ \A w \in Rounds :
       /\ subbed[w].out \subseteq Slots(w)
       /\ subbed[w].for \in [Seats(bench[w]) -> Slots(w) \cup {0}]

\* counted_roster_entry_sql
CountedCards(w) ==
  {Roster[w][i] : i \in Slots(w) \ subbed[w].out}
    \cup {bench[w][s] : s \in {t \in Seats(bench[w]) : subbed[w].for[t] # 0}}

SumOf(f, S) == MapThenSumSet(LAMBDA x : f[x], S)

\* weekly_leaderboard: a counted card's points over the games of the week.
CardPoints(w, c) == Cardinality({g \in Counting(w) : c \in PlayedIn[g]})
WeekPoints(w, cards) == SumOf([c \in cards |-> CardPoints(w, c)], cards)

\* The swaps of a week are right for its games: a seat stands in for one slot that
\* is out, no player counts twice, nobody on the bench who could help sits out, and
\* the swap never costs points.  It holds after every run and every move of a game,
\* in either week, until a change that starts no run, or one that a run missed.
SwapsFollowGames ==
  \A w \in processed \ stale :
    LET f == subbed[w]
        b == bench[w]
        in == {s \in Seats(b) : f.for[s] # 0}
        idle == {s \in Seats(b) \ in : b[s] \in Played(w)
                   /\ \A c \in CountedCards(w) : ~OnePlayer(c, b[s])}
    IN /\ f.out = IF b = <<>> THEN {} ELSE {i \in Slots(w) : Roster[w][i] \notin Played(w)}
       /\ \A s \in in : f.for[s] \in f.out /\ b[s] \in Played(w)
       /\ \A s, t \in in : f.for[s] = f.for[t] => s = t
       /\ \A c, d \in CountedCards(w) : c # d => ~OnePlayer(c, d)
       /\ idle # {} => Cardinality(in) = Cardinality(f.out)
       /\ WeekPoints(w, CountedCards(w)) >= WeekPoints(w, CardsOf(Roster[w]))
=============================================================================
