------------------------------- MODULE Finals -------------------------------
(***************************************************************************)
(* Predictions of the Div 1 finals (backend/finals.py, routers/finals.py,  *)
(* routers/admin_finals.py): the bracket, the lock that is only learned    *)
(* after the fact, results from matches and admins, and saved predictions. *)
(*                                                                         *)
(* Every request first refreshes the bracket from the matches, the live    *)
(* rows and the cached schedule.  The reads come before the first write    *)
(* (Begin); the writes (Commit) set the columns that differ from what was  *)
(* read.  Seeds 1..4 stand for the teams, 0 is the end of the group stage. *)
(* The table itself is module FinalsTable.  Left out: the caches of GET    *)
(* /finals (saves refresh first), the views, the site's cross-check.       *)
(***************************************************************************)
EXTENDS Integers, Sequences, FiniteSetsExt

CONSTANTS
  Fans,            \* accounts that predict
  PickChoices,     \* predictions <<sf1, sf2, final>> they make (bound)
  MaxRevisions,    \* MAX_REVISIONS
  WinsToTake,      \* WINS_TO_TAKE_SERIES
  GamePairs,       \* pairs of teams that play them (bound)
  AdminWinners,    \* winners admins enter (bound)
  MaxFacts,        \* bound on games, live rows and fixture times known at a time
  StallOps,        \* requests that stall (bound)
  FixtureTimes,    \* start times the schedule may name (bound)
  MaxTime          \* bound on the clock

ASSUME FinalsAssumption ==
  /\ {MaxRevisions, WinsToTake, MaxTime} \subseteq Nat \ {0} /\ MaxFacts \in Nat
  /\ FixtureTimes \subseteq Nat \ {0}
  /\ PickChoices \subseteq {1, 4} \X {2, 3} \X (1..4)
  /\ \A p \in PickChoices : p[3] \in {p[1], p[2]}

VARIABLES
  time,        \* now
  group,       \* the group table: "open", "tied" (a holding tier) or "clear"
  games,       \* playoff games ingested
  sightings,   \* first_seen_at of the live rows of semi-finals
  fixtures,    \* start times the cached schedule gives the semi-finals
  bracket,     \* finals_brackets row
  picks,       \* finals_predictions, by id
  stalled,     \* a request between its reads and its writes
  resultAt     \* when the first result was committed

worldVars == <<time, group, games, sightings, fixtures>>
finalsVars == <<worldVars, bracket, picks, stalled, resultAt>>

Never == MaxTime + 1
NoTeam == 0
NoScore == -1
NoBracket == [lock |-> Never]
FinalsIdle == [op |-> "idle"]
Semis == {"sf1", "sf2"}
AllSeries == Semis \cup {"final"}

NewBracket ==
  [lock |-> Never, paused |-> FALSE, win |-> [s \in AllSeries |-> NoTeam],
   source |-> [s \in AllSeries |-> "none"]]

SeriesTeams(b, s) ==
  CASE s = "sf1" -> {1, 4}
    [] s = "sf2" -> {2, 3}
    [] OTHER -> IF \E semi \in Semis : b.win[semi] = NoTeam THEN {}
                ELSE {b.win[semi] : semi \in Semis}

SemiPairs == {{1, 4}, {2, 3}}

-----------------------------------------------------------------------------
(* refresh: lock, results, scores *)

\* What a request reads of the world.
Seen == [games |-> games, sightings |-> sightings, fixtures |-> fixtures]

\* _update_lock: the earliest start known, and never later than before.
Locked(b, seen, now) ==
  Min({b.lock} \cup seen.sightings \cup {t \in seen.fixtures : t <= now}
        \cup {g.start : g \in {h \in seen.games : h.pair \in SemiPairs}})

\* _series_score: the first to WinsToTake wins.
Taken(G, t) ==
  \E g \in G : /\ Cardinality({h \in G : h.winner = t /\ h.start <= g.start}) >= WinsToTake
               /\ \A u \in g.pair \ {t} :
                    Cardinality({h \in G : h.winner = u /\ h.start <= g.start}) < WinsToTake
WinnerOf(seen, teams) ==
  LET G == {g \in seen.games : g.pair = teams}
  IN IF \E t \in teams : Taken(G, t) THEN CHOOSE t \in teams : Taken(G, t) ELSE NoTeam

FromMatches(b, s, seen) ==
  LET w == WinnerOf(seen, SeriesTeams(b, s))
  IN [b EXCEPT !.win[s] = w, !.source[s] = IF w = NoTeam THEN "none" ELSE "matches"]

\* _update_results: an admin's result stands, unless its teams are gone.
SemiResult(b, s, seen) ==
  IF b.source[s] = "admin" THEN b ELSE FromMatches(b, s, seen)
FinalResult(b, seen) ==
  IF b.source["final"] = "admin" /\ b.win["final"] \in SeriesTeams(b, "final") THEN b
  ELSE FromMatches(b, "final", seen)
WithResults(b, seen) ==
  FinalResult(SemiResult(SemiResult(b, "sf1", seen), "sf2", seen), seen)

Refreshed(b, seen, now) ==
  WithResults([b EXCEPT !.lock = Locked(b, seen, now)], seen)

\* effective_predictions: the latest of each account before the lock.
Counted(rows, lock) ==
  {i \in DOMAIN rows :
     /\ rows[i].at < lock
     /\ \A j \in DOMAIN rows :
          rows[j].fan = rows[i].fan /\ rows[j].at < lock =>
            rows[j].at < rows[i].at \/ (rows[j].at = rows[i].at /\ j <= i)}

Score(b, row) ==
  Cardinality({n \in 1..3 : row.pick[n] = b.win[<<"sf1", "sf2", "final">>[n]]})

\* _update_correct_picks
Scored(rows, b) ==
  [i \in DOMAIN rows |->
     [rows[i] EXCEPT !.score =
        IF b.win["final"] # NoTeam /\ i \in Counted(rows, b.lock)
        THEN Score(b, rows[i]) ELSE NoScore]]

\* The columns that differ from what was read are written.
Written(from, to) ==
  IF from = NoBracket THEN to
  ELSE [lock |-> IF to.lock # from.lock THEN to.lock ELSE bracket.lock,
        paused |-> IF to.paused # from.paused THEN to.paused ELSE bracket.paused,
        win |-> [s \in AllSeries |-> IF to.win[s] # from.win[s] THEN to.win[s]
                                     ELSE bracket.win[s]],
        source |-> IF to.source # from.source THEN to.source ELSE bracket.source]

-----------------------------------------------------------------------------
(* Requests *)

HasResult(b) == b # NoBracket /\ \E s \in AllSeries : b.win[s] # NoTeam

\* refresh up to its first write: the row as read, and as it should be.  Without
\* a row the bracket is stored once the table is clear.
FinalsRequest ==
  LET base == IF bracket = NoBracket THEN NewBracket ELSE bracket
  IN [from |-> bracket, to |-> Refreshed(base, Seen, time), now |-> time]
Asks(op, read) == [op |-> op, from |-> read.from, to |-> read.to, now |-> read.now]

\* to is the row the request wrote, rows the predictions after it.
Commit(from, to, rows) ==
  /\ bracket' = Written(from, to)
  /\ picks' = rows
  /\ resultAt' = IF resultAt = Never /\ HasResult(bracket') THEN time ELSE resultAt
  /\ UNCHANGED worldVars

Rescored(b, to) ==
  IF b # NoBracket /\ <<b.lock, b.win>> # <<to.lock, to.win>> THEN Scored(picks, to)
  ELSE picks

\* GET /finals past its cache, GET /admin/finals; and an admin's tiebreak, which
\* stores the bracket as well.  The unique season and division turn a second
\* bracket into the first.  A view that finds nothing new writes nothing.
Views(read) ==
  IF IF bracket = NoBracket THEN group \in {"clear", "tied"} ELSE read.to # bracket
  THEN {Asks("view", read)}
  ELSE {}

View(q) ==
  LET late == q.from = NoBracket /\ bracket # NoBracket
      from == IF late THEN bracket ELSE q.from
      to == IF late THEN Refreshed(bracket, Seen, q.now) ELSE q.to
  IN q.op = "view" /\ Commit(from, to, Rescored(from, to))

\* save_prediction; without an effect when closed, or when it repeats the last.
MaySave(read) ==
  read.to.lock = Never /\ read.to.win["final"] = NoTeam /\ ~read.to.paused
MySaves(u) == {i \in DOMAIN picks : picks[i].fan = u}
Saves(read) ==
  {[op |-> "save", from |-> read.from, to |-> read.to, now |-> read.now, fan |-> x[1],
    pick |-> x[2]] :
     x \in {y \in Fans \X PickChoices :
            /\ MaySave(read)
            /\ \A i \in Counted(picks, bracket.lock) :
                 picks[i].fan = y[1] => picks[i].pick # y[2]
            /\ Cardinality(MySaves(y[1])) < MaxRevisions}}
Save(q) ==
  /\ q.op = "save"
  /\ Commit(q.from, q.to,
            Append(Rescored(q.from, q.to),
                   [fan |-> q.fan, pick |-> q.pick, at |-> q.now, score |-> NoScore]))

\* toggle_pause
Pause(q) ==
  LET to == [q.to EXCEPT !.paused = ~@]
  IN q.op = "pause" /\ Commit(q.from, to, Rescored(q.from, to))

\* close_now and set_result change the refreshed row and refresh it again, now
\* holding the write lock.
CloseFinals(q) ==
  LET to == Refreshed([q.to EXCEPT !.lock = Min({@, q.now})], Seen, q.now)
  IN q.op = "close" /\ Commit(q.from, to, Rescored(q.from, to))

Results(read) ==
  {[op |-> "result", from |-> read.from, to |-> read.to, now |-> read.now, series |-> x[1],
    winner |-> x[2]] :
     x \in {y \in AllSeries \X AdminWinners : y[2] \in SeriesTeams(read.to, y[1])}}

\* A result while predictions are open locks them.
LockByResultNot(b, now) == b.lock
LockByResult(b, now) == IF b.lock = Never THEN now ELSE b.lock

Result(q) ==
  LET set == [q.to EXCEPT !.lock = LockByResult(q.to, q.now),
                          !.win[q.series] = q.winner, !.source[q.series] = "admin"]
      to == Refreshed(set, Seen, q.now)
  IN q.op = "result" /\ Commit(q.from, to, Scored(picks, to))

Handle(q) == View(q) \/ Save(q) \/ Pause(q) \/ CloseFinals(q) \/ Result(q)

\* Requests that can come now.
Requests(read) ==
  Views(read) \cup
  (IF bracket = NoBracket THEN {}
   ELSE Saves(read) \cup Results(read)
        \cup {Asks("pause", read), Asks("close", read)})

\* A request runs at once, or stalls between its reads and its writes.
Serve(q) == Handle(q) /\ UNCHANGED stalled
Stall(q) ==
  /\ stalled = FinalsIdle /\ q.op \in StallOps /\ stalled' = q
  /\ UNCHANGED <<worldVars, bracket, picks, resultAt>>
SomeRequest ==
  \E read \in {FinalsRequest} : \E q \in Requests(read) : Serve(q) \/ Stall(q)
Resume == stalled # FinalsIdle /\ Handle(stalled) /\ stalled' = FinalsIdle

-----------------------------------------------------------------------------
(* The world *)

FewFacts ==
  Cardinality(games') + Cardinality(sightings') + Cardinality(fixtures') <= MaxFacts

FinalsTick == /\ time < MaxTime /\ time' = time + 1
              /\ UNCHANGED <<group, games, sightings, fixtures, bracket, picks,
                             stalled, resultAt>>

\* Group series are ingested and corrected; of interest until the bracket is set.
GroupMoves == /\ bracket = NoBracket
              /\ \E g \in {"open", "tied", "clear"} \ {group} : group' = g
              /\ UNCHANGED <<time, games, sightings, fixtures, bracket, picks,
                             stalled, resultAt>>

\* The live poll sees a semi-final.
SeeLive == /\ sightings' = sightings \cup {time}
           /\ UNCHANGED <<time, group, games, fixtures, bracket, picks, stalled, resultAt>>

\* A playoff game is ingested, with or without a result, and its live row goes.
IngestGame ==
  /\ \E pair \in GamePairs, start \in 1..time :
       /\ \A g \in games : g.pair = pair => g.start # start
       /\ \E winner \in pair \cup {NoTeam} :
            games' = games \cup {[pair |-> pair, start |-> start, winner |-> winner]}
       /\ \/ UNCHANGED sightings
          \/ /\ pair \in SemiPairs
             /\ \E t \in sightings : t >= start /\ sightings' = sightings \ {t}
  /\ UNCHANGED <<time, group, fixtures, bracket, picks, stalled, resultAt>>

\* The schedule is fetched again.
FetchFixtures ==
  /\ \E f \in {{}} \cup {{t} : t \in FixtureTimes} : fixtures' = f
  /\ UNCHANGED <<time, group, games, sightings, bracket, picks, stalled, resultAt>>

FinalsInit ==
  /\ time = 1 /\ group = "clear" /\ games = {} /\ sightings = {} /\ fixtures = {}
  /\ bracket = NoBracket /\ picks = <<>> /\ resultAt = Never
  /\ stalled = FinalsIdle

FinalsNext ==
  \/ FinalsTick \/ GroupMoves
  \/ (SeeLive \/ IngestGame \/ FetchFixtures) /\ FewFacts
  \/ SomeRequest \/ Resume

FinalsSpec == FinalsInit /\ [][FinalsNext]_finalsVars

-----------------------------------------------------------------------------
(* Properties *)

\* Requests and rows keep their types.
FinalsTypeOK ==
  /\ time \in 1..MaxTime /\ resultAt \in 1..Never
  /\ bracket # NoBracket =>
       /\ bracket.lock \in 1..Never /\ bracket.paused \in BOOLEAN
       /\ bracket.win \in [AllSeries -> 0..4]
  /\ \A i \in DOMAIN picks :
       /\ picks[i].fan \in Fans /\ picks[i].pick \in PickChoices
       /\ picks[i].score \in -1..3

\* "Nobody can save after a result is known": a prediction that counts was saved
\* before the first result of the finals was committed, whatever the requests,
\* the matches, the live poll and the schedule did in between.
CountedBeforeResult ==
  \A i \in Counted(picks, bracket.lock) : picks[i].at < resultAt
=============================================================================
