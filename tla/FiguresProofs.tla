--------------------------- MODULE FiguresProofs ----------------------------
(* Proofs about what the program makes of its matches: bench substitutions    *)
(* and what is shown of them (Bench, Reports), series and the tournament site *)
(* (Series, SiteSync), the scripts that fill in past seasons (Backfill) and   *)
(* the places derived for them (Placements), for every number of weeks,       *)
(* games, seats, teams, matches, seasons and runs.                            *)
EXTENDS Reports, SiteSync, Backfill, Placements, SumTheorems

-----------------------------------------------------------------------------
(* What run_substitutions computes *)

Flags(w, b) == [out : SUBSET Slots(w), for : [Seats(b) -> Slots(w) \cup {0}]]

\* g[i] is what the flags are after the first i slots.
Afters(w, b, inTime, n, g) ==
  g = [i \in 0..n |-> IF i = 0 THEN NoFlags(w, b) ELSE Swapped(w, b, inTime, g[i - 1], i)]

\* The slots are gone through one at a time.
LEMMA AftersExist ==
  ASSUME NEW w, NEW b, NEW inTime, NEW n \in Nat
  PROVE  \E g : Afters(w, b, inTime, n, g)
  <1> DEFINE Not == {k \in 0..n : ~ \E g : Afters(w, b, inTime, k, g)}
  <1> SUFFICES ASSUME Not # {} PROVE FALSE
    BY DEF Not
  <1>1. PICK k \in Not : \A j \in Not : k <= j
    <2>0. IsFiniteSet(0..n)
      BY FS_Interval
    <2>1. IsFiniteSet(Not) /\ \A j \in Not : j \in Nat
      BY <2>0, FS_Subset
    <2> HIDE DEF Not
    <2> QED BY <2>1, MinIs
  <1>2. k # 0
    <2>1. Afters(w, b, inTime, 0, [i \in 0..0 |-> NoFlags(w, b)])
      BY DEF Afters
    <2> QED BY <1>1, <2>1
  <1>3. k - 1 \in 0..n /\ k - 1 \notin Not
    BY <1>1, <1>2
  <1>4. PICK g : Afters(w, b, inTime, k - 1, g)
    BY <1>3
  <1> DEFINE last == Swapped(w, b, inTime, g[k - 1], k)
             h == [i \in 0..k |-> IF i = k THEN last ELSE g[i]]
  <1>5. Afters(w, b, inTime, k, h)
    <2>1. ASSUME NEW i \in 0..k
          PROVE  h[i] = IF i = 0 THEN NoFlags(w, b)
                        ELSE Swapped(w, b, inTime, h[i - 1], i)
      <3>1. CASE i = k
        <4>1. h[k - 1] = g[k - 1]
          BY <1>1, <1>2
        <4> QED BY <3>1, <4>1, <1>2
      <3>2. CASE i # k
        <4>1. i \in 0..(k - 1) /\ h[i] = g[i]
          BY <3>2, <1>1
        <4>2. CASE i = 0
          BY <4>1, <4>2, <1>4, Zenon DEF Afters
        <4>3. CASE i # 0
          <5>1. i - 1 \in 0..k /\ i - 1 # k /\ h[i - 1] = g[i - 1]
            BY <4>1, <4>3, <1>1
          <5>2. g[i] = Swapped(w, b, inTime, g[i - 1], i)
            BY <4>1, <4>3, <1>4, Zenon DEF Afters
          <5> HIDE DEF h
          <5> QED BY <4>1, <4>3, <5>1, <5>2
        <4> QED BY <4>2, <4>3
      <3> QED BY <3>1, <3>2
    <2> DEFINE step(i) == IF i = 0 THEN NoFlags(w, b) ELSE Swapped(w, b, inTime, h[i - 1], i)
    <2>2. h = [i \in 0..k |-> h[i]]
      OBVIOUS
    <2> HIDE DEF h
    <2>3. h = [i \in 0..k |-> step(i)]
      BY <2>1, <2>2
    <2> QED BY <2>3, Zenon DEF Afters
  <1> QED BY <1>1, <1>5

\* The seats that are in stand in for slots that are out, each for one, with players that
\* played and nobody twice; and who could still help was left no slot.
RightIn(w, b, inTime, out, for) ==
  \A s \in Seats(b) : for[s] # 0 =>
    /\ for[s] \in out /\ b[s] \in inTime
    /\ \A c \in Kept(w, inTime) : ~OnePlayer(c, b[s])
EachOnce(b, for) ==
  \A s, t \in Seats(b) : for[s] # 0 /\ for[t] # 0 /\ s # t =>
    for[s] # for[t] /\ ~OnePlayer(b[s], b[t])
NobodyIdle(w, b, inTime, out, for) ==
  \A s \in Fit(w, b, inTime, for) : \A j \in out : \E t \in Seats(b) : for[t] = j
StageOK(w, b, inTime, i, f) ==
  /\ f \in Flags(w, b)
  /\ f.out = {j \in Slots(w) : j <= i /\ Roster[w][j] \notin inTime}
  /\ RightIn(w, b, inTime, f.out, f.for)
  /\ EachOnce(b, f.for)
  /\ NobodyIdle(w, b, inTime, f.out, f.for)

\* Who counts as one player with whom is symmetric.
LEMMA OnePlayerBoth ==
  ASSUME NEW c, NEW d, OnePlayer(c, d)
  PROVE  OnePlayer(d, c)
  <1>1. {c, d} = {d, c}
    OBVIOUS
  <1> QED BY <1>1 DEF OnePlayer

\* No flags are right before the first slot.
LEMMA StageStarts ==
  ASSUME NEW w \in Rounds, NEW b, Len(b) \in Nat, NEW inTime
  PROVE  StageOK(w, b, inTime, 0, NoFlags(w, b))
  BY DEF StageOK, RightIn, EachOnce, NobodyIdle, NoFlags, Flags, Slots, Seats, Fit

\* One more slot keeps them right.
LEMMA StageKept ==
  ASSUME NEW w \in Rounds, NEW b, Len(b) \in Nat, Len(Roster[w]) \in Nat, NEW inTime,
         NEW i \in Slots(w), NEW f, StageOK(w, b, inTime, i - 1, f)
  PROVE  StageOK(w, b, inTime, i, Swapped(w, b, inTime, f, i))
  <1> DEFINE fit == Fit(w, b, inTime, f.for)
             g == Swapped(w, b, inTime, f, i)
  <1>0. f \in Flags(w, b)
    BY DEF StageOK
  <1>1. CASE Roster[w][i] \in inTime
    <2>1. g = f
      BY <1>1 DEF Swapped
    <2>2. f.out = {j \in Slots(w) : j <= i /\ Roster[w][j] \notin inTime}
      <3>1. \A j \in Slots(w) : j <= i <=> j <= i - 1 \/ j = i
        BY DEF Slots
      <3> QED BY <1>1, <3>1 DEF StageOK
    <2> QED BY <2>1, <2>2 DEF StageOK
  <1>2. CASE Roster[w][i] \notin inTime
    <2>1. g = [out |-> f.out \cup {i}, for |-> Filled(f.for, fit, i)]
      BY <1>2 DEF Swapped
    <2>2. g.out = {j \in Slots(w) : j <= i /\ Roster[w][j] \notin inTime}
      <3>1. \A j \in Slots(w) : j <= i <=> j <= i - 1 \/ j = i
        BY DEF Slots
      <3>2. g.out = f.out \cup {i}
        BY <2>1
      <3> QED BY <1>2, <3>1, <3>2 DEF StageOK
    <2>3. i \notin f.out /\ i # 0
      BY DEF StageOK, Slots
    <2>4. CASE fit = {}
      <3>1. g = [out |-> f.out \cup {i}, for |-> f.for]
        BY <2>1, <2>4 DEF Filled
      <3>2. g \in Flags(w, b)
        BY <3>1, <1>0 DEF Flags
      <3>3. Fit(w, b, inTime, g.for) = {}
        BY <3>1, <2>4
      <3>4. g.out = f.out \cup {i} /\ g.for = f.for
        BY <3>1
      <3>5. RightIn(w, b, inTime, g.out, g.for)
        BY <3>4 DEF StageOK, RightIn
      <3>6. EachOnce(b, g.for) /\ NobodyIdle(w, b, inTime, g.out, g.for)
        BY <3>3, <3>4 DEF StageOK, NobodyIdle
      <3>7. StageOK(w, b, inTime, i, g)
        <4> HIDE DEF g, fit
        <4> QED BY <2>2, <3>2, <3>5, <3>6 DEF StageOK
      <3> QED BY <3>7
    <2>5. CASE fit # {}
      <3>1. PICK m \in fit : m = Min(fit)
        <4>0. IsFiniteSet(Seats(b))
          BY FS_Interval DEF Seats
        <4>1. fit \subseteq Seats(b) /\ IsFiniteSet(Seats(b)) /\ \A s \in Seats(b) : s \in Nat
          BY <4>0 DEF Fit, Seats
        <4>2. IsFiniteSet(fit) /\ \A s \in fit : s \in Nat
          BY <4>1, FS_Subset
        <4> HIDE DEF fit
        <4> QED BY <2>5, <4>2, MinIs
      <3>2. g = [out |-> f.out \cup {i}, for |-> [f.for EXCEPT ![m] = i]]
        BY <2>1, <2>5, <3>1 DEF Filled
      <3>3. /\ m \in Seats(b) /\ f.for[m] = 0 /\ b[m] \in inTime
            /\ \A c \in CountedSoFar(w, b, inTime, f.for) : ~OnePlayer(c, b[m])
        BY <3>1 DEF Fit
      <3>4. PICK out, for : /\ g = [out |-> out, for |-> for] /\ out = f.out \cup {i}
                            /\ for = [f.for EXCEPT ![m] = i]
        BY <3>2
      <3>5. f.for \in [Seats(b) -> Slots(w) \cup {0}] /\ f.out \subseteq Slots(w)
        BY <1>0 DEF Flags
      <3>6. for \in [Seats(b) -> Slots(w) \cup {0}] /\ out \subseteq Slots(w)
        BY <3>4, <3>5
      <3>7. /\ for[m] = i
            /\ \A s \in Seats(b) : s # m => for[s] = f.for[s]
        BY <3>3, <3>4, <3>5
      <3>8. RightIn(w, b, inTime, out, for)
        <4>1. Kept(w, inTime) \subseteq CountedSoFar(w, b, inTime, f.for)
          BY DEF CountedSoFar
        <4>2. i \in out /\ f.out \subseteq out
          BY <3>4
        <4> QED BY <4>1, <4>2, <3>3, <3>7 DEF StageOK, RightIn
      <3>9. ASSUME NEW s \in Seats(b), NEW t \in Seats(b), for[s] # 0, for[t] # 0, s # t
            PROVE  for[s] # for[t] /\ ~OnePlayer(b[s], b[t])
        <4>1. ASSUME NEW u \in Seats(b), f.for[u] # 0
              PROVE  ~OnePlayer(b[u], b[m]) /\ ~OnePlayer(b[m], b[u]) /\ f.for[u] # i
          <5>1. b[u] \in CountedSoFar(w, b, inTime, f.for)
            BY <4>1 DEF CountedSoFar
          <5>2. ~OnePlayer(b[u], b[m])
            BY <5>1, <3>3
          <5>3. f.for[u] # i
            BY <4>1, <2>3 DEF StageOK, RightIn
          <5> QED BY <5>2, <5>3, OnePlayerBoth
        <4>2. CASE s = m
          BY <4>1, <4>2, <3>7, <3>9
        <4>3. CASE t = m
          BY <4>1, <4>3, <3>7, <3>9
        <4>4. CASE s # m /\ t # m
          BY <4>4, <3>7, <3>9 DEF StageOK, EachOnce
        <4> QED BY <4>2, <4>3, <4>4
      <3>10. ASSUME NEW s \in Fit(w, b, inTime, for), NEW j \in out
             PROVE  \E t \in Seats(b) : for[t] = j
        <4>1. s \in Seats(b) /\ for[s] = 0
          BY DEF Fit
        <4>2. s # m /\ f.for[s] = 0
          BY <4>1, <3>7, <2>3
        <4>3. CountedSoFar(w, b, inTime, f.for) \subseteq CountedSoFar(w, b, inTime, for)
          <5>1. \A u \in Seats(b) : f.for[u] # 0 => for[u] # 0
            BY <3>3, <3>7
          <5> QED BY <5>1 DEF CountedSoFar
        <4>4. s \in fit
          BY <4>1, <4>2, <4>3 DEF Fit
        <4>5. CASE j = i
          BY <4>5, <3>3, <3>7
        <4>6. CASE j \in f.out
          <5>1. PICK t \in Seats(b) : f.for[t] = j
            BY <4>4, <4>6 DEF StageOK, NobodyIdle
          <5>2. t # m
            BY <5>1, <4>6, <3>3, <3>5 DEF Slots
          <5> QED BY <5>1, <5>2, <3>7
        <4> QED BY <4>5, <4>6, <3>4
      <3>11. g \in Flags(w, b)
        BY <3>4, <3>6 DEF Flags
      <3>12. g.out = out /\ g.for = for
        BY <3>4
      <3>13. EachOnce(b, for) /\ NobodyIdle(w, b, inTime, out, for)
        BY <3>9, <3>10 DEF EachOnce, NobodyIdle
      <3>14. StageOK(w, b, inTime, i, g)
        <4> HIDE DEF g, fit
        <4> QED BY <2>2, <3>8, <3>11, <3>12, <3>13 DEF StageOK
      <3> QED BY <3>14
    <2> QED BY <2>4, <2>5
  <1> QED BY <1>1, <1>2

\* The flags that the algorithm returns.
LEMMA SwapsRight ==
  ASSUME NEW w \in Rounds, NEW b, Len(b) \in Nat, Len(Roster[w]) \in Nat, NEW inTime, b # <<>>
  PROVE  StageOK(w, b, inTime, Len(Roster[w]), Swaps(w, b, inTime))
  <1> DEFINE n == Len(Roster[w])
             g == CHOOSE g : Afters(w, b, inTime, n, g)
             Not == {k \in 0..n : ~StageOK(w, b, inTime, k, g[k])}
  <1>1. Afters(w, b, inTime, n, g)
    BY AftersExist
  <1>2. Swaps(w, b, inTime) = g[n]
    BY DEF Swaps, Afters
  <1> HIDE DEF g
  <1> SUFFICES ASSUME Not # {} PROVE FALSE
    BY <1>2
  <1>3. PICK k \in Not : \A j \in Not : k <= j
    <2>0. IsFiniteSet(0..n)
      <3>1. n \in Int
        OBVIOUS
      <3> HIDE DEF n
      <3> QED BY <3>1, FS_Interval
    <2>1. IsFiniteSet(Not) /\ \A j \in Not : j \in Nat
      BY <2>0, FS_Subset
    <2> HIDE DEF Not
    <2> QED BY <2>1, MinIs
  <1>4. CASE k = 0
    <2>1. 0 \in 0..n
      OBVIOUS
    <2>2. g[0] = NoFlags(w, b)
      BY <1>1, <2>1, Zenon DEF Afters
    <2> QED BY <1>3, <1>4, <2>2, StageStarts
  <1>5. CASE k # 0
    <2>1. k - 1 \in 0..n /\ k - 1 \notin Not /\ k \in Slots(w) /\ k \in 0..n
      BY <1>3, <1>5 DEF Slots
    <2>2. StageOK(w, b, inTime, k - 1, g[k - 1])
      BY <2>1
    <2>3. g[k] = Swapped(w, b, inTime, g[k - 1], k)
      BY <1>1, <1>5, <2>1, Zenon DEF Afters
    <2>4. StageOK(w, b, inTime, k, g[k])
      <3> HIDE DEF Not
      <3> QED BY <2>1, <2>2, <2>3, StageKept
    <2> QED BY <1>3, <2>4
  <1> QED BY <1>4, <1>5
-----------------------------------------------------------------------------
(* The inductive invariant of Bench *)

GamesOK ==
  /\ gameWeek \in [Games -> Rounds \cup {0}]
  /\ override \in [Games -> Rounds \cup {0}]
  /\ excluded \in [Games -> BOOLEAN]
BenchRow(w, b, f) == b \in Seq(CardsOf(b)) /\ f \in Flags(w, b)
RowsOK ==
  /\ bench = [w \in Rounds |-> bench[w]]
  /\ subbed = [w \in Rounds |-> subbed[w]]
  /\ \A w \in Rounds : BenchRow(w, bench[w], subbed[w])
WeeksOK == ended \subseteq Rounds /\ processed \subseteq ended /\ stale \subseteq processed

\* A run that stalls read a week that has ended.
ReadOK(r) == r.week \in ended /\ BenchRow(r.week, r.bench, r.flags)
StallOK == benchStalled = NoRun \/ ReadOK(benchStalled.read)

\* A week's flags are the algorithm's answer for its games unless a change was missed,
\* and untouched before its first run.
FlagsFollow ==
  \A w \in Rounds :
    /\ w \in processed \ stale => subbed[w] = Swaps(w, bench[w], Played(w))
    /\ w \notin processed => subbed[w] = NoFlags(w, bench[w])

BenchInv == GamesOK /\ RowsOK /\ WeeksOK /\ StallOK /\ FlagsFollow

\* Weeks are numbers from one on.
LEMMA RoundsCounted ==
  /\ IsFiniteSet(Rounds) /\ Cardinality(Rounds) \in Nat /\ Rounds = 1..Cardinality(Rounds)
  /\ \A w \in Rounds : w \in Nat /\ w # 0
  <1>1. IsFiniteSet(Rounds) /\ Rounds = 1..Cardinality(Rounds)
    BY BenchAssumption DEF BenchAssumption
  <1>2. Cardinality(Rounds) \in Nat
    BY <1>1, FS_CardinalityType
  <1>3. \A n \in Nat : \A w \in 1..n : w \in Nat /\ w # 0
    OBVIOUS
  <1> QED BY <1>1, <1>2, <1>3

\* The roster of a week is a sequence.
LEMMA RosterSlots ==
  ASSUME NEW w \in Rounds
  PROVE  Roster[w] \in Seq(CardsOf(Roster[w])) /\ Len(Roster[w]) \in Nat
  BY BenchAssumption DEF BenchAssumption

\* No flags, and what the algorithm returns, are flags of the week's rows.
LEMMA FlagsTyped ==
  ASSUME NEW w \in Rounds, NEW b, b \in Seq(CardsOf(b)), NEW inTime
  PROVE  NoFlags(w, b) \in Flags(w, b) /\ Swaps(w, b, inTime) \in Flags(w, b)
  <1>1. Len(b) \in Nat
    OBVIOUS
  <1>2. NoFlags(w, b) \in Flags(w, b)
    BY DEF NoFlags, Flags
  <1>3. CASE b = <<>>
    BY <1>2, <1>3 DEF Swaps
  <1>4. CASE b # <<>>
    BY <1>1, <1>2, <1>4, RosterSlots, SwapsRight DEF StageOK
  <1> QED BY <1>3, <1>4

\* What a run writes are flags too, also when a bench was saved since it read.
LEMMA MergedTyped ==
  ASSUME NEW w \in Rounds, NEW b, NEW c, NEW seen \in Flags(w, b),
         NEW result \in Flags(w, b), NEW kept \in Flags(w, c)
  PROVE  Merged(seen, result, kept) \in Flags(w, c)
  <1> DEFINE out == (kept.out \ seen.out) \cup result.out
             for == [s \in DOMAIN kept.for |->
                       IF s \in DOMAIN seen.for /\ (seen.for[s] # 0 \/ result.for[s] # 0)
                       THEN result.for[s] ELSE kept.for[s]]
  <1>1. /\ out \subseteq Slots(w) /\ DOMAIN kept.for = Seats(c) /\ DOMAIN seen.for = Seats(b)
        /\ \A s \in Seats(b) : result.for[s] \in Slots(w) \cup {0}
        /\ \A s \in Seats(c) : kept.for[s] \in Slots(w) \cup {0}
    BY DEF Flags
  <1>2. for \in [Seats(c) -> Slots(w) \cup {0}]
    BY <1>1
  <1>3. Merged(seen, result, kept) = [out |-> out, for |-> for]
    BY DEF Merged
  <1> HIDE DEF out, for
  <1> QED BY <1>1, <1>2, <1>3 DEF Flags

\* A run that missed nothing writes the algorithm's answer.
LEMMA MergedSame ==
  ASSUME NEW w, NEW b, NEW seen \in Flags(w, b), NEW result \in Flags(w, b)
  PROVE  Merged(seen, result, seen) = result
  <1> DEFINE out == (seen.out \ seen.out) \cup result.out
             for == [s \in DOMAIN seen.for |->
                       IF s \in DOMAIN seen.for /\ (seen.for[s] # 0 \/ result.for[s] # 0)
                       THEN result.for[s] ELSE seen.for[s]]
  <1>1. /\ result = [out |-> result.out, for |-> result.for]
        /\ result.for \in [Seats(b) -> Slots(w) \cup {0}]
        /\ seen.for \in [Seats(b) -> Slots(w) \cup {0}]
    BY DEF Flags
  <1>2. out = result.out
    OBVIOUS
  <1>3. for = result.for
    <2>1. \A s \in Seats(b) : for[s] = result.for[s]
      BY <1>1
    <2>2. for \in [Seats(b) -> Slots(w) \cup {0}]
      BY <1>1
    <2> HIDE DEF for
    <2> QED BY <1>1, <2>1, <2>2
  <1>4. Merged(seen, result, seen) = [out |-> out, for |-> for]
    BY DEF Merged
  <1> HIDE DEF out, for
  <1> QED BY <1>1, <1>2, <1>3, <1>4

\* Who played follows from the matches.
LEMMA PlayedStays ==
  ASSUME UNCHANGED gameVars
  PROVE  \A w \in Rounds : Played(w)' = Played(w)
  BY DEF gameVars, Played, Counting, ScoringWeek

\* A run of a week that it read at some time.
LEMMA FinishKept ==
  ASSUME BenchInv, NEW r, ReadOK(r), FinishRun(r), UNCHANGED <<gameVars, bench, ended>>
  PROVE  GamesOK' /\ RowsOK' /\ WeeksOK' /\ FlagsFollow'
  <1> DEFINE v == r.week
  <1> USE DEF BenchInv
  <1>0. v \in Rounds /\ v \in ended /\ BenchRow(v, bench[v], subbed[v])
    BY DEF ReadOK, WeeksOK, RowsOK
  <1>1. PICK f : f = Merged(r.flags, Swaps(v, r.bench, r.played), subbed[v])
    OBVIOUS
  <1>2. subbed' = [subbed EXCEPT ![v] = f]
    BY <1>1 DEF FinishRun
  <1>3. f \in Flags(v, bench[v])
    <2>1. Swaps(v, r.bench, r.played) \in Flags(v, r.bench) /\ r.flags \in Flags(v, r.bench)
      BY <1>0, FlagsTyped DEF ReadOK, BenchRow
    <2>2. subbed[v] \in Flags(v, bench[v])
      BY <1>0 DEF BenchRow
    <2> HIDE DEF v
    <2> QED BY <1>0, <1>1, <2>1, <2>2, MergedTyped
  <1>4. GamesOK' /\ bench' = bench /\ ended' = ended
    BY DEF GamesOK, gameVars
  <1>5. processed' = processed \cup {v}
    BY DEF FinishRun
  <1>6. stale' = IF r = Reading(v) THEN stale \ {v} ELSE stale \cup {v}
    BY DEF FinishRun
  <1>7. WeeksOK'
    BY <1>0, <1>4, <1>5, <1>6 DEF WeeksOK
  <1>8. RowsOK'
    <2>1. \A w \in Rounds : subbed'[w] = IF w = v THEN f ELSE subbed[w]
      BY <1>2 DEF RowsOK
    <2>2. subbed' = [w \in Rounds |-> subbed'[w]]
      BY <1>2 DEF RowsOK
    <2> HIDE DEF v
    <2>3. \A w \in Rounds : BenchRow(w, bench'[w], subbed'[w])
      BY <2>1, <1>0, <1>3, <1>4 DEF RowsOK, BenchRow
    <2> QED BY <2>2, <2>3, <1>4 DEF RowsOK
  <1>9. \A w \in Rounds : Played(w)' = Played(w)
    BY PlayedStays
  <1>10. ASSUME NEW w \in Rounds
         PROVE  /\ w \in processed' \ stale' => subbed'[w] = Swaps(w, bench'[w], Played(w)')
                /\ w \notin processed' => subbed'[w] = NoFlags(w, bench'[w])
    <2>1. CASE w # v
      <3>1. subbed'[w] = subbed[w]
        BY <1>2, <2>1 DEF RowsOK
      <3>2. w \in processed' \ stale' => w \in processed \ stale
        BY <1>5, <1>6, <2>1
      <3>3. w \notin processed' => w \notin processed
        BY <1>5
      <3> HIDE DEF v
      <3> QED BY <3>1, <3>2, <3>3, <1>4, <1>9 DEF FlagsFollow
    <2>2. CASE w = v /\ r = Reading(v)
      <3>1. r.flags = subbed[v] /\ r.bench = bench[v] /\ r.played = Played(v)
        BY <2>2 DEF Reading
      <3>2. subbed[v] \in Flags(v, bench[v]) /\ Swaps(v, bench[v], Played(v)) \in Flags(v, bench[v])
        BY <1>0, FlagsTyped DEF BenchRow
      <3>3. f = Swaps(v, bench[v], Played(v))
        <4> HIDE DEF v
        <4> QED BY <1>1, <3>1, <3>2, MergedSame
      <3>4. subbed'[v] = f
        BY <1>2, <1>0 DEF RowsOK
      <3> HIDE DEF v
      <3> QED BY <3>3, <3>4, <2>2, <1>4, <1>5, <1>9
    <2>3. CASE w = v /\ r # Reading(v)
      BY <2>3, <1>5, <1>6
    <2> QED BY <2>1, <2>2, <2>3
  <1> QED BY <1>4, <1>7, <1>8, <1>10 DEF FlagsFollow

\* Writing the algorithm's answer for the games as they become, in the weeks where the
\* players who played change.
LEMMA RerunKept ==
  ASSUME BenchInv, NEW weeks, RerunFor(weeks), GamesOK',
         \A w \in Rounds : Played(w)' # Played(w) => w \in weeks,
         UNCHANGED <<bench, ended, processed, benchStalled>>
  PROVE  BenchInv'
  <1> USE DEF BenchInv
  <1>1. PICK due : due = weeks \cap processed
    OBVIOUS
  <1>2. /\ subbed' = [w \in Rounds |->
                 IF w \in due THEN Swaps(w, bench[w], Played(w)') ELSE subbed[w]]
        /\ stale' = stale \ due
    BY <1>1 DEF RerunFor
  <1>3. bench' = bench /\ ended' = ended /\ processed' = processed
    OBVIOUS
  <1>4. WeeksOK' /\ StallOK'
    BY <1>2, <1>3 DEF WeeksOK, StallOK, ReadOK
  <1>5. \A w \in Rounds :
          subbed'[w] = IF w \in due THEN Swaps(w, bench[w], Played(w)') ELSE subbed[w]
    BY <1>2
  <1>6. RowsOK'
    <2>1. ASSUME NEW w \in Rounds
          PROVE  BenchRow(w, bench'[w], subbed'[w])
      <3>1. BenchRow(w, bench[w], subbed[w])
        BY DEF RowsOK
      <3>2. Swaps(w, bench[w], Played(w)') \in Flags(w, bench[w])
        BY <3>1, FlagsTyped DEF BenchRow
      <3> QED BY <3>1, <3>2, <1>3, <1>5 DEF BenchRow
    <2>2. subbed' = [w \in Rounds |-> subbed'[w]]
      BY <1>2
    <2> QED BY <2>1, <2>2, <1>3 DEF RowsOK
  <1>7. ASSUME NEW w \in Rounds
        PROVE  /\ w \in processed' \ stale' => subbed'[w] = Swaps(w, bench'[w], Played(w)')
               /\ w \notin processed' => subbed'[w] = NoFlags(w, bench'[w])
    <2>1. CASE w \in due
      BY <2>1, <1>1, <1>3, <1>5
    <2>2. CASE w \notin due /\ w \in processed
      <3>1. Played(w)' = Played(w) /\ subbed'[w] = subbed[w]
        BY <2>2, <1>1, <1>5
      <3>2. w \in processed' \ stale' => w \in processed \ stale
        BY <2>2, <1>2, <1>3
      <3> QED BY <2>2, <3>1, <3>2, <1>3 DEF FlagsFollow
    <2>3. CASE w \notin processed
      <3>1. subbed'[w] = subbed[w]
        BY <2>3, <1>1, <1>5
      <3> QED BY <2>3, <3>1, <1>3 DEF FlagsFollow
    <2> QED BY <2>1, <2>2, <2>3
  <1> QED BY <1>4, <1>6, <1>7 DEF FlagsFollow

\* A change of games that starts no run.
LEMMA TouchedKept ==
  ASSUME BenchInv, NoRunFollows, GamesOK'
  PROVE  BenchInv'
  <1> USE DEF BenchInv
  <1>1. /\ bench' = bench /\ subbed' = subbed /\ ended' = ended /\ processed' = processed
        /\ benchStalled' = benchStalled /\ stale' = stale \cup Touches
    BY DEF NoRunFollows
  <1>2. WeeksOK' /\ StallOK'
    BY <1>1 DEF WeeksOK, StallOK, ReadOK, Touches
  <1>3. RowsOK'
    BY <1>1 DEF RowsOK, BenchRow
  <1>4. \A w \in Rounds : w \in processed' \ stale' =>
          w \in processed \ stale /\ Played(w)' = Played(w)
    BY <1>1 DEF Touches
  <1>5. FlagsFollow'
    BY <1>1, <1>4 DEF FlagsFollow
  <1> QED BY <1>2, <1>3, <1>5

\* The weeks whose runs follow a move are those in which somebody's games change.
LEMMA MoveKept ==
  ASSUME BenchInv, NEW gone, NEW to, \A g \in Games : to[g] \in Rounds \cup {0},
         MoveGames(gone, to)
  PROVE  BenchInv'
  <1> USE DEF BenchInv
  <1>1. PICK moved : moved = {g \in gone : gameWeek[g] # 0 /\ override[g] # to[g]}
    OBVIOUS
  <1>2. /\ override' = [g \in Games |-> IF g \in moved THEN to[g] ELSE override[g]]
        /\ gameWeek' = gameWeek /\ excluded' = excluded
        /\ RerunFor(Affected(moved))
        /\ UNCHANGED <<bench, ended, processed, benchStalled>>
    BY <1>1 DEF MoveGames
  <1>3. GamesOK'
    BY <1>2 DEF GamesOK
  <1>4. ASSUME NEW w \in Rounds, Played(w)' # Played(w)
        PROVE  w \in Affected(moved)
    <2>1. PICK g \in Games : ~(g \in Counting(w) <=> g \in Counting(w)')
      BY <1>4 DEF Played, Counting
    <2>2. ScoringWeek(g) # ScoringWeek(g)' /\ w \in {ScoringWeek(g), ScoringWeek(g)'}
      BY <2>1, <1>2 DEF Counting
    <2>3. g \in moved
      BY <2>2, <1>2 DEF ScoringWeek
    <2>4. w # 0
      BY RoundsCounted
    <2>5. g \in {h \in moved : ScoringWeek(h) # ScoringWeek(h)'}
      BY <2>2, <2>3
    <2>6. w \in UNION {{ScoringWeek(x), ScoringWeek(x)'} :
                       x \in {h \in moved : ScoringWeek(h) # ScoringWeek(h)'}}
      BY <2>2, <2>5
    <2> QED BY <2>4, <2>6 DEF Affected
  <1> QED BY <1>2, <1>3, <1>4, RerunKept

\* The candidates of a backfill are finitely many cards, and an order of some is a bench.
LEMMA OrderIsBench ==
  ASSUME NEW w \in Rounds, NEW kept \in SUBSET Candidates(w), NEW b \in BenchOrders(kept)
  PROVE  b \in Seq(CardsOf(b))
  <1>1. \A v \in 1..w : v \in Rounds
    BY RoundsCounted
  <1> DEFINE cards == [v \in 1..w |-> CardsOf(Roster[v])]
             all == {cards[v] : v \in 1..w}
  <1>2. IsFiniteSet(1..w) /\ w \in Int
    BY RoundsCounted, FS_Interval
  <1>3. IsFiniteSet(all)
    <2>1. cards = [v \in 1..w |-> cards[v]]
      OBVIOUS
    <2> HIDE DEF cards
    <2> QED BY <1>2, <2>1, ValuesFinite
  <1>4. ASSUME NEW v \in 1..w
        PROVE  IsFiniteSet(CardsOf(Roster[v]))
    <2>1. Roster[v] \in Seq(CardsOf(Roster[v])) /\ Len(Roster[v]) \in Nat
      BY <1>1, RosterSlots
    <2>2. /\ DOMAIN Roster[v] = 1..Len(Roster[v])
          /\ Roster[v] = [i \in DOMAIN Roster[v] |-> Roster[v][i]]
      BY <2>1
    <2>3. IsFiniteSet(DOMAIN Roster[v])
      BY <2>1, <2>2, FS_Interval
    <2>4. IsFiniteSet({Roster[v][i] : i \in DOMAIN Roster[v]})
      BY <2>2, <2>3, ValuesFinite
    <2> QED BY <2>4 DEF CardsOf
  <1>5. IsFiniteSet(UNION all)
    <2>1. \A T \in all : IsFiniteSet(T)
      BY <1>4
    <2> HIDE DEF all
    <2> QED BY <1>3, <2>1, FS_UNION
  <1>6. kept \subseteq UNION all
    BY DEF Candidates
  <1>7. IsFiniteSet(kept)
    BY <1>5, <1>6, FS_Subset
  <1>8. Cardinality(kept) \in Nat /\ b \in [1..Cardinality(kept) -> kept] /\ CardsOf(b) = kept
    BY <1>7, FS_CardinalityType DEF BenchOrders
  <1> QED BY <1>8

\* A bench found for a week that had none.
LEMMA BackfillKept ==
  ASSUME BenchInv, NEW w \in Rounds, BackfillBench(w)
  PROVE  BenchInv'
  <1> USE DEF BenchInv
  <1>0. PICK kept \in SUBSET Candidates(w) : \E b \in BenchOrders(kept) :
          /\ bench' = [bench EXCEPT ![w] = b]
          /\ subbed' = [subbed EXCEPT ![w] = Swaps(w, b, Played(w))]
    BY DEF BackfillBench
  <1>1. PICK b \in BenchOrders(kept) :
          /\ bench' = [bench EXCEPT ![w] = b]
          /\ subbed' = [subbed EXCEPT ![w] = Swaps(w, b, Played(w))]
    BY <1>0
  <1>2. b \in Seq(CardsOf(b))
    BY <1>0, <1>1, OrderIsBench
  <1>3. /\ w \in ended /\ ended' = ended /\ processed' = processed \cup {w}
        /\ stale' = stale \ {w} /\ benchStalled' = benchStalled /\ UNCHANGED gameVars
    BY DEF BackfillBench
  <1>4. GamesOK' /\ WeeksOK' /\ StallOK'
    BY <1>3 DEF GamesOK, WeeksOK, StallOK, ReadOK, gameVars
  <1>5. \A v \in Rounds : Played(v)' = Played(v)
    BY <1>3, PlayedStays
  <1>6. PICK f : f = Swaps(w, b, Played(w))
    OBVIOUS
  <1>7. f \in Flags(w, b)
    BY <1>2, <1>6, FlagsTyped
  <1>8. subbed' = [subbed EXCEPT ![w] = f]
    BY <1>1, <1>6
  <1>9. /\ bench' = [v \in Rounds |-> bench'[v]] /\ subbed' = [v \in Rounds |-> subbed'[v]]
        /\ \A v \in Rounds : bench'[v] = IF v = w THEN b ELSE bench[v]
        /\ \A v \in Rounds : subbed'[v] = IF v = w THEN f ELSE subbed[v]
    BY <1>1, <1>8 DEF RowsOK
  <1>10. RowsOK'
    BY <1>2, <1>7, <1>9 DEF RowsOK, BenchRow
  <1>11. FlagsFollow'
    BY <1>3, <1>5, <1>6, <1>9 DEF FlagsFollow
  <1> QED BY <1>4, <1>10, <1>11

\* The runs that may start.
LEMMA RunsRead ==
  ASSUME BenchInv, NEW r \in Runs
  PROVE  ReadOK(r)
  <1>1. PICK w \in ended : r = Reading(w)
    BY DEF Runs, DueWeeks
  <1> QED BY <1>1 DEF BenchInv, WeeksOK, RowsOK, ReadOK, Reading

\* It holds at the start, and every step keeps it.
LEMMA BenchStarts == BenchInit => BenchInv
  <1> SUFFICES ASSUME BenchInit PROVE BenchInv
    OBVIOUS
  <1>1. GamesOK /\ WeeksOK /\ StallOK /\ FlagsFollow
    BY DEF BenchInit, GamesOK, WeeksOK, StallOK, FlagsFollow
  <1>2. bench = [w \in Rounds |-> bench[w]] /\ \A w \in Rounds : bench[w] \in Seq(CardsOf(bench[w]))
    BY BenchAssumption DEF BenchAssumption, BenchInit
  <1>3. subbed = [w \in Rounds |-> NoFlags(w, bench[w])]
    BY DEF BenchInit
  <1>4. \A w \in Rounds : BenchRow(w, bench[w], subbed[w])
    BY <1>2, <1>3, FlagsTyped DEF BenchRow
  <1>5. subbed = [w \in Rounds |-> subbed[w]]
    BY <1>3
  <1> QED BY <1>1, <1>2, <1>4, <1>5 DEF RowsOK, BenchInv

\* Every step of the bench substitutions keeps the invariant.
LEMMA BenchStep ==
  ASSUME BenchInv, [BenchNext]_benchVars
  PROVE  BenchInv'
  <1> USE DEF BenchInv
  <1>1. CASE RunSubstitutions
    <2>1. PICK r \in Runs : FinishRun(r) /\ UNCHANGED <<gameVars, bench, ended, benchStalled>>
      BY <1>1 DEF RunSubstitutions
    <2>2. StallOK'
      BY <2>1 DEF StallOK, ReadOK
    <2> QED BY <2>1, <2>2, RunsRead, FinishKept
  <1>2. CASE StallRun
    <2>1. PICK r \in Runs : benchStalled' = [op |-> "run", read |-> r]
      BY <1>2 DEF StallRun
    <2>2. UNCHANGED <<gameVars, bench, subbed, ended, processed, stale>>
      BY <1>2 DEF StallRun
    <2>3. ReadOK(r) /\ benchStalled'.read = r
      BY <2>1, RunsRead
    <2>4. StallOK'
      BY <2>2, <2>3 DEF StallOK, ReadOK
    <2> QED BY <2>2, <2>4, PlayedStays DEF GamesOK, RowsOK, WeeksOK, FlagsFollow, BenchRow, gameVars
  <1>3. CASE ResumeRun
    <2>1. /\ FinishRun(benchStalled.read) /\ ReadOK(benchStalled.read) /\ benchStalled' = NoRun
          /\ UNCHANGED <<gameVars, bench, ended>>
      BY <1>3 DEF ResumeRun, StallOK
    <2>2. StallOK'
      BY <2>1 DEF StallOK
    <2> QED BY <2>1, <2>2, FinishKept
  <1>4. CASE DropRun
    <2>1. UNCHANGED <<gameVars, bench, subbed, ended, processed, stale>> /\ benchStalled' = NoRun
      BY <1>4 DEF DropRun
    <2> QED BY <2>1, PlayedStays
            DEF GamesOK, RowsOK, WeeksOK, FlagsFollow, BenchRow, gameVars, StallOK
  <1>5. CASE EndWeek
    <2>1. /\ UNCHANGED <<gameVars, bench, subbed, processed, benchStalled, stale>>
          /\ ended' = ended \cup {Min(Rounds \ ended)} /\ ended # Rounds
      BY <1>5 DEF EndWeek
    <2>2. Min(Rounds \ ended) \in Rounds
      <3>1. IsFiniteSet(Rounds \ ended) /\ \A w \in Rounds \ ended : w \in Nat
        BY RoundsCounted, FS_Subset
      <3>2. Rounds \ ended # {}
        BY <2>1 DEF WeeksOK
      <3> QED BY <3>1, <3>2, MinIs
    <2> QED BY <2>1, <2>2, PlayedStays
            DEF GamesOK, RowsOK, WeeksOK, FlagsFollow, BenchRow, gameVars, StallOK, ReadOK
  <1>6. CASE SyncMatchWeeks
    <2>1. \A g \in Games : Scheduled[g] \in Rounds \cup {0}
      BY BenchAssumption DEF BenchAssumption
    <2> QED BY <1>6, <2>1, MoveKept DEF SyncMatchWeeks
  <1>7. ASSUME NEW g \in Games, Ingest(g)
        PROVE  BenchInv'
    <2>1. GamesOK' /\ NoRunFollows
      BY <1>7 DEF Ingest, GamesOK
    <2> QED BY <2>1, TouchedKept
  <1>8. ASSUME NEW g \in Games, Exclude(g)
        PROVE  BenchInv'
    <2>1. GamesOK' /\ NoRunFollows
      BY <1>8 DEF Exclude, GamesOK
    <2> QED BY <2>1, TouchedKept
  <1>9. ASSUME NEW g \in Games, NEW w \in Rounds, ReplaceMatch(g, w)
        PROVE  BenchInv'
    <2>1. GamesOK' /\ NoRunFollows
      BY <1>9 DEF ReplaceMatch, GamesOK
    <2> QED BY <2>1, TouchedKept
  <1>10. ASSUME NEW g \in Games, NEW w \in Rounds \cup {0}, NEW series \in BOOLEAN,
                SetMatchWeek(g, w, series)
         PROVE  BenchInv'
    <2>1. PICK gone, to : /\ MoveGames(gone, to) /\ \A h \in Games : to[h] \in Rounds \cup {0}
      BY <1>10 DEF SetMatchWeek
    <2> QED BY <2>1, MoveKept
  <1>11. CASE UNCHANGED benchVars
    BY <1>11, PlayedStays
       DEF benchVars, GamesOK, RowsOK, WeeksOK, FlagsFollow, BenchRow, gameVars, StallOK, ReadOK
  <1> QED BY <1>1, <1>2, <1>3, <1>4, <1>5, <1>6, <1>7, <1>8, <1>9, <1>10, <1>11,
             BackfillKept DEF BenchNext

\* What every step keeps of the benches, for any weeks, games, rosters and overlapping runs.
THEOREM BenchInvariant == BenchSpec => []BenchInv
  <1>1. BenchInv /\ [BenchNext]_benchVars => BenchInv'
    BY BenchStep
  <1> QED BY <1>1, BenchStarts, PTL DEF BenchSpec
-----------------------------------------------------------------------------
(* The swaps are right for the week's games *)

\* Sums of the model are those of module SumTheorems.
LEMMA SumIsTotal ==
  ASSUME NEW f, NEW S
  PROVE  SumOf(f, S) = Total(f, S)
  BY DEF SumOf, Total

\* Cards of a sequence of rows are finitely many.
LEMMA CardsFinite ==
  ASSUME NEW b, b \in Seq(CardsOf(b)), NEW T \in SUBSET DOMAIN b
  PROVE  IsFiniteSet({b[i] : i \in T}) /\ DOMAIN b = 1..Len(b) /\ IsFiniteSet(T)
  <1>1. DOMAIN b = 1..Len(b) /\ Len(b) \in Int
    OBVIOUS
  <1>2. IsFiniteSet(1..Len(b))
    BY <1>1, FS_Interval
  <1>3. IsFiniteSet(T)
    BY <1>1, <1>2, FS_Subset
  <1> QED BY <1>1, <1>3, ImageFinite

\* A card has a natural number of points, and none without a game.
LEMMA CardPointsNat ==
  ASSUME NEW w, NEW c
  PROVE  CardPoints(w, c) \in Nat /\ (c \notin Played(w) => CardPoints(w, c) = 0)
  <1> DEFINE mine == {g \in Counting(w) : c \in PlayedIn[g]}
  <1>1. IsFiniteSet(mine)
    <2>1. mine \subseteq Games /\ IsFiniteSet(Games)
      BY BenchAssumption DEF BenchAssumption, Counting
    <2> QED BY <2>1, FS_Subset
  <1>2. c \notin Played(w) => mine = {}
    BY DEF Played
  <1>3. Cardinality(mine) \in Nat /\ Cardinality({}) = 0
    BY <1>1, FS_CardinalityType, FS_EmptySet
  <1>4. CardPoints(w, c) = Cardinality(mine)
    BY DEF CardPoints
  <1> HIDE DEF mine
  <1> QED BY <1>2, <1>3, <1>4

\* Points over some cards, by one function of all of them.
LEMMA PointsWithin ==
  ASSUME NEW w, NEW all, NEW cards \in SUBSET all, IsFiniteSet(cards)
  PROVE  WeekPoints(w, cards) = Total([c \in all |-> CardPoints(w, c)], cards)
  <1> DEFINE f == [c \in cards |-> CardPoints(w, c)]
             g == [c \in all |-> CardPoints(w, c)]
  <1>1. WeekPoints(w, cards) = Total(f, cards)
    BY SumIsTotal DEF WeekPoints
  <1>2. \A c \in cards : f[c] = g[c]
    OBVIOUS
  <1>3. Total(f, cards) = Total(g, cards)
    <2> HIDE DEF f, g
    <2> QED BY <1>2, TotalSame
  <1> QED BY <1>1, <1>3

\* The cards that count in a week where the bench was used, or without a bench.
LEMMA CountedAre ==
  ASSUME BenchInv, NEW w \in processed \ stale
  PROVE  /\ w \in Rounds /\ bench[w] \in Seq(CardsOf(bench[w])) /\ Len(Roster[w]) \in Nat
         /\ bench[w] = <<>> => subbed[w] = NoFlags(w, bench[w])
         /\ bench[w] # <<>> =>
              /\ StageOK(w, bench[w], Played(w), Len(Roster[w]), subbed[w])
              /\ CountedCards(w) = CountedSoFar(w, bench[w], Played(w), subbed[w].for)
         /\ Kept(w, Played(w)) \subseteq CountedCards(w)
         /\ IsFiniteSet(CountedCards(w))
  <1> DEFINE b == bench[w]
             f == subbed[w]
  <1>1. /\ w \in Rounds /\ b \in Seq(CardsOf(b)) /\ Len(b) \in Nat /\ f \in Flags(w, b)
        /\ f = Swaps(w, b, Played(w))
    BY DEF BenchInv, RowsOK, BenchRow, WeeksOK, FlagsFollow
  <1>2. /\ Len(Roster[w]) \in Nat /\ Roster[w] \in Seq(CardsOf(Roster[w]))
        /\ DOMAIN Roster[w] = Slots(w)
    BY <1>1, RosterSlots DEF Slots
  <1>3. b = <<>> => f = NoFlags(w, b)
    BY <1>1 DEF Swaps
  <1>4. ASSUME b # <<>>
        PROVE  /\ StageOK(w, b, Played(w), Len(Roster[w]), f)
               /\ CountedCards(w) = CountedSoFar(w, b, Played(w), f.for)
    <2>1. StageOK(w, b, Played(w), Len(Roster[w]), f)
      <3> HIDE DEF b, f
      <3> QED BY <1>1, <1>2, <1>4, SwapsRight
    <2>2. f.out = {j \in Slots(w) : Roster[w][j] \notin Played(w)}
      <3>1. \A j \in Slots(w) : j <= Len(Roster[w])
        BY <1>2 DEF Slots
      <3> QED BY <2>1, <3>1 DEF StageOK
    <2>3. Slots(w) \ f.out = {k \in Slots(w) : Roster[w][k] \in Played(w)}
      BY <2>2
    <2> QED BY <2>1, <2>3 DEF CountedCards, CountedSoFar, Kept
  <1>5. Kept(w, Played(w)) \subseteq CountedCards(w)
    <2>1. CASE b = <<>>
      BY <2>1, <1>3 DEF Kept, CountedCards, NoFlags
    <2>2. CASE b # <<>>
      BY <2>2, <1>4 DEF CountedSoFar
    <2> QED BY <2>1, <2>2
  <1>6. IsFiniteSet(CountedCards(w))
    <2>1. IsFiniteSet({Roster[w][i] : i \in Slots(w) \ f.out})
      BY <1>2, CardsFinite
    <2>2. IsFiniteSet({b[s] : s \in {t \in Seats(b) : f.for[t] # 0}})
      <3>1. Seats(b) = DOMAIN b
        BY <1>1 DEF Seats
      <3>2. {t \in Seats(b) : f.for[t] # 0} \in SUBSET DOMAIN b
        BY <3>1
      <3> HIDE DEF b, f
      <3> QED BY <1>1, <3>2, CardsFinite
    <2> QED BY <2>1, <2>2, FS_Union DEF CountedCards
  <1> QED BY <1>1, <1>2, <1>3, <1>4, <1>5, <1>6

\* No player counts twice.
LEMMA NobodyTwice ==
  ASSUME BenchInv, NEW w \in processed \ stale,
         NEW c \in CountedCards(w), NEW d \in CountedCards(w), c # d
  PROVE  ~OnePlayer(c, d)
  <1> DEFINE b == bench[w]
             f == subbed[w]
             inTime == Played(w)
  <1>1. w \in Rounds
    BY CountedAre
  <1>2. \A i, j \in Slots(w) : OnePlayer(Roster[w][i], Roster[w][j]) => i = j
    BY <1>1, BenchAssumption DEF BenchAssumption, Slots
  <1>3. CASE b = <<>>
    <2>1. f = NoFlags(w, b) /\ Seats(b) = {}
      BY <1>3, CountedAre DEF Seats
    <2>2. \A x \in CountedCards(w) : \E i \in Slots(w) : x = Roster[w][i]
      BY <2>1 DEF CountedCards
    <2> QED BY <1>2, <2>2
  <1>4. CASE b # <<>>
    <2>1. /\ RightIn(w, b, inTime, f.out, f.for) /\ EachOnce(b, f.for)
          /\ CountedCards(w) = CountedSoFar(w, b, inTime, f.for)
      BY <1>4, CountedAre DEF StageOK
    <2>2. \A x \in CountedCards(w) :
            \/ x \in Kept(w, inTime)
            \/ \E s \in Seats(b) : f.for[s] # 0 /\ x = b[s]
      BY <2>1 DEF CountedSoFar
    <2>3. \A x \in Kept(w, inTime) : \E i \in Slots(w) : x = Roster[w][i]
      BY DEF Kept
    <2>4. CASE c \in Kept(w, inTime) /\ d \in Kept(w, inTime)
      BY <2>3, <2>4, <1>2
    <2>5. CASE c \in Kept(w, inTime) /\ d \notin Kept(w, inTime)
      BY <2>1, <2>2, <2>5 DEF RightIn
    <2>6. CASE c \notin Kept(w, inTime) /\ d \in Kept(w, inTime)
      <3>1. ~OnePlayer(d, c)
        BY <2>1, <2>2, <2>6 DEF RightIn
      <3> QED BY <3>1, OnePlayerBoth
    <2>7. CASE c \notin Kept(w, inTime) /\ d \notin Kept(w, inTime)
      <3>1. PICK s \in Seats(b) : f.for[s] # 0 /\ c = b[s]
        BY <2>2, <2>7
      <3>2. PICK t \in Seats(b) : f.for[t] # 0 /\ d = b[t]
        BY <2>2, <2>7
      <3> QED BY <3>1, <3>2, <2>1 DEF EachOnce
    <2> QED BY <2>4, <2>5, <2>6, <2>7
  <1> QED BY <1>3, <1>4

\* The cards that count have at least the points of the roster.
LEMMA SwapsNeverCost ==
  ASSUME BenchInv, NEW w \in processed \ stale
  PROVE  WeekPoints(w, CountedCards(w)) >= WeekPoints(w, CardsOf(Roster[w]))
  <1> DEFINE kept == Kept(w, Played(w))
             cards == CardsOf(Roster[w])
             all == cards \cup CountedCards(w)
             f == [c \in all |-> CardPoints(w, c)]
  <1>1. /\ w \in Rounds /\ kept \subseteq CountedCards(w) /\ IsFiniteSet(CountedCards(w))
    BY CountedAre
  <1>2. Roster[w] \in Seq(CardsOf(Roster[w])) /\ DOMAIN Roster[w] = Slots(w)
    BY <1>1, RosterSlots DEF Slots
  <1>3. IsFiniteSet(cards)
    BY <1>2, CardsFinite DEF CardsOf
  <1>4. kept \subseteq cards /\ \A c \in cards \ kept : c \notin Played(w)
    BY <1>2 DEF Kept, CardsOf
  <1>5. WeekPoints(w, cards) = Total(f, cards)
    <2> HIDE DEF cards
    <2> QED BY <1>3, PointsWithin
  <1>6. WeekPoints(w, CountedCards(w)) = Total(f, CountedCards(w))
    <2> HIDE DEF cards
    <2> QED BY <1>1, PointsWithin
  <1>7. (\A c \in all : f[c] \in Nat) /\ \A c \in cards \ kept : f[c] = 0
    BY <1>4, CardPointsNat
  <1> HIDE DEF f, cards, kept
  <1>8. Total(f, cards) = Total(f, kept)
    <2>1. /\ IsFiniteSet(kept) /\ IsFiniteSet(cards \ kept) /\ kept \cup (cards \ kept) = cards
          /\ kept \cap (cards \ kept) = {} /\ \A c \in kept \cup (cards \ kept) : f[c] \in Int
      BY <1>3, <1>4, <1>7, FS_Subset
    <2>2. Total(f, kept \cup (cards \ kept)) = Total(f, kept) + Total(f, cards \ kept)
      BY <2>1, TotalUnion
    <2>3. Total(f, cards \ kept) = 0
      BY <2>1, <1>7, TotalZero
    <2>4. Total(f, kept) \in Int
      BY <2>1, TotalType
    <2>5. Total(f, cards) = Total(f, kept) + Total(f, cards \ kept)
      BY <2>1, <2>2
    <2> QED BY <2>3, <2>4, <2>5
  <1>9. Total(f, kept) <= Total(f, CountedCards(w))
    BY <1>1, <1>7, TotalGrows
  <1> QED BY <1>5, <1>6, <1>8, <1>9 DEF cards

\* While somebody on the bench could help, every slot that is out has a substitute.
LEMMA NobodyWaits ==
  ASSUME BenchInv, NEW w \in processed \ stale,
         NEW s \in Seats(bench[w]), subbed[w].for[s] = 0, bench[w][s] \in Played(w),
         \A c \in CountedCards(w) : ~OnePlayer(c, bench[w][s])
  PROVE  Cardinality({t \in Seats(bench[w]) : subbed[w].for[t] # 0}) = Cardinality(subbed[w].out)
  <1> DEFINE b == bench[w]
             f == subbed[w]
             in == {t \in Seats(b) : f.for[t] # 0}
             for == [t \in in |-> f.for[t]]
  <1>1. b # <<>>
    BY DEF Seats
  <1>2. /\ StageOK(w, b, Played(w), Len(Roster[w]), f) /\ b \in Seq(CardsOf(b))
        /\ CountedCards(w) = CountedSoFar(w, b, Played(w), f.for)
    BY <1>1, CountedAre
  <1>3. s \in Fit(w, b, Played(w), f.for)
    BY <1>2 DEF Fit
  <1>4. \A j \in f.out : \E t \in Seats(b) : f.for[t] = j
    BY <1>2, <1>3 DEF StageOK, NobodyIdle
  <1>5. f.out \subseteq Slots(w)
    BY <1>2 DEF StageOK, Flags
  <1>6. for \in [in -> f.out]
    BY <1>2 DEF StageOK, RightIn
  <1>7. \A t, u \in in : for[t] = for[u] => t = u
    BY <1>2 DEF StageOK, EachOnce
  <1>8. \A j \in f.out : \E t \in in : for[t] = j
    BY <1>4, <1>5 DEF Slots
  <1>9. IsFiniteSet(in)
    <2>1. in \in SUBSET DOMAIN b
      BY <1>2 DEF Seats
    <2> HIDE DEF in, b
    <2> QED BY <1>2, <2>1, CardsFinite
  <1>10. Cardinality(f.out) = Cardinality(in)
    <2> HIDE DEF for, in, b, f
    <2>1. for \in Bijection(in, f.out)
      BY <1>6, <1>7, <1>8 DEF Bijection, Injection, Surjection, IsInjective
    <2> QED BY <2>1, <1>9, FS_Bijection DEF ExistsBijection
  <1> QED BY <1>10

\* The swaps of one week.
LEMMA SwapsFollow ==
  ASSUME BenchInv
  PROVE  SwapsFollowGames
  <1> SUFFICES ASSUME NEW w \in processed \ stale
               PROVE
        LET f == subbed[w]
            b == bench[w]
            in == {s \in Seats(b) : f.for[s] # 0}
            idle == {s \in Seats(b) \ in : b[s] \in Played(w)
                       /\ \A c \in CountedCards(w) : ~OnePlayer(c, b[s])}
        IN /\ f.out = IF b = <<>> THEN {} ELSE {i \in Slots(w) : Roster[w][i] \notin Played(w)}
           /\ \A s \in in : f.for[s] \in f.out /\ b[s] \in Played(w)
           /\ \A s, t \in in : f.for[s] = f.for[t] => s = t
           /\ \A c, d \in CountedCards(w) : c # d => ~OnePlayer(c, d)
           /\ idle # {} => Cardinality(in) = Cardinality(f.out)
           /\ WeekPoints(w, CountedCards(w)) >= WeekPoints(w, CardsOf(Roster[w]))
    BY DEF SwapsFollowGames
  <1> DEFINE b == bench[w]
             f == subbed[w]
             in == {s \in Seats(b) : f.for[s] # 0}
             idle == {s \in Seats(b) \ in : b[s] \in Played(w)
                        /\ \A c \in CountedCards(w) : ~OnePlayer(c, b[s])}
  <1>1. w \in Rounds /\ b \in Seq(CardsOf(b)) /\ Len(Roster[w]) \in Nat
    BY CountedAre
  <1>2. b = <<>> => f.out = {} /\ in = {}
    <2>1. b = <<>> => f = NoFlags(w, b)
      BY CountedAre
    <2>2. b = <<>> => Seats(b) = {}
      BY DEF Seats
    <2> QED BY <2>1, <2>2 DEF NoFlags
  <1>3. b # <<>> =>
          /\ f.out = {j \in Slots(w) : j <= Len(Roster[w]) /\ Roster[w][j] \notin Played(w)}
          /\ RightIn(w, b, Played(w), f.out, f.for) /\ EachOnce(b, f.for)
    BY CountedAre DEF StageOK
  <1>4. f.out = IF b = <<>> THEN {} ELSE {i \in Slots(w) : Roster[w][i] \notin Played(w)}
    <2>1. \A j \in Slots(w) : j <= Len(Roster[w])
      BY <1>1 DEF Slots
    <2> QED BY <1>2, <1>3, <2>1
  <1>5. \A s \in in : f.for[s] \in f.out /\ b[s] \in Played(w)
    BY <1>2, <1>3 DEF RightIn
  <1>6. \A s, t \in in : f.for[s] = f.for[t] => s = t
    BY <1>2, <1>3 DEF EachOnce
  <1>7. \A c, d \in CountedCards(w) : c # d => ~OnePlayer(c, d)
    BY NobodyTwice
  <1>8. idle # {} => Cardinality(in) = Cardinality(f.out)
    BY NobodyWaits
  <1>9. WeekPoints(w, CountedCards(w)) >= WeekPoints(w, CardsOf(Roster[w]))
    BY SwapsNeverCost
  <1> QED BY <1>4, <1>5, <1>6, <1>7, <1>8, <1>9

\* The swaps of a week are right for its games after every run and every move of a game,
\* for any weeks, games, rosters, benches and overlapping runs.
THEOREM SwapsFollowGamesHolds == BenchSpec => []SwapsFollowGames
  BY BenchInvariant, SwapsFollow, PTL

\* Flags belong to rows of the week.
THEOREM BenchTyped == BenchSpec => []BenchTypeOK
  <1>1. BenchInv => BenchTypeOK
    BY DEF BenchInv, GamesOK, RowsOK, BenchRow, WeeksOK, Flags, BenchTypeOK
  <1> QED BY <1>1, BenchInvariant, PTL
-----------------------------------------------------------------------------
(* What is shown of the weeks *)

\* The window of a week has the games that count for it, and others that do not count.
LEMMA WindowCounts ==
  ASSUME NEW w \in Rounds, NEW c
  PROVE  /\ ScoredOf(InWindow(w)) = Counting(w)
         /\ PointsOf(c, ScoredOf(InWindow(w))) = CardPoints(w, c)
         /\ Cardinality(ScoredOf(ReportGames(w, c))) = CardPoints(w, c)
         /\ PointsOf(c, ScoredOf(InWindow(w))) \in Nat
  <1>1. ScoredOf(InWindow(w)) = Counting(w)
    BY RoundsCounted DEF ScoredOf, InWindow, Counting, ScoringWeek
  <1>2. PointsOf(c, ScoredOf(InWindow(w))) = CardPoints(w, c)
    BY <1>1 DEF PointsOf, CardPoints
  <1>3. ScoredOf(ReportGames(w, c)) = {g \in ScoredOf(InWindow(w)) : c \in PlayedIn[g]}
    BY DEF ScoredOf, ReportGames
  <1>4. Cardinality(ScoredOf(ReportGames(w, c))) = CardPoints(w, c)
    BY <1>1, <1>3 DEF CardPoints
  <1> QED BY <1>1, <1>2, <1>4, CardPointsNat

\* The cards that count in a week are finitely many, whatever its flags.
LEMMA CountedFinite ==
  ASSUME BenchInv, NEW w \in Rounds
  PROVE  IsFiniteSet(CountedCards(w))
  <1> DEFINE b == bench[w]
             f == subbed[w]
  <1>1. b \in Seq(CardsOf(b)) /\ DOMAIN b = Seats(b)
    BY DEF BenchInv, RowsOK, BenchRow, Seats
  <1>2. Roster[w] \in Seq(CardsOf(Roster[w])) /\ DOMAIN Roster[w] = Slots(w)
    BY RosterSlots DEF Slots
  <1>3. IsFiniteSet({Roster[w][i] : i \in Slots(w) \ f.out})
    BY <1>2, CardsFinite
  <1>4. IsFiniteSet({b[s] : s \in {t \in Seats(b) : f.for[t] # 0}})
    <2>1. {t \in Seats(b) : f.for[t] # 0} \in SUBSET DOMAIN b
      BY <1>1
    <2> HIDE DEF b, f
    <2> QED BY <1>1, <2>1, CardsFinite
  <1> QED BY <1>3, <1>4, FS_Union DEF CountedCards

\* The weekly leaderboard, My Team and the report give a week the same points.
LEMMA WeekAgrees ==
  ASSUME BenchInv, NEW w \in Rounds
  PROVE  /\ WeekStanding(w) = WeekPoints(w, CountedCards(w))
         /\ TeamTotal(w) = ReportedPoints(w) /\ WeekStanding(w) = TeamTotal(w)
         /\ WeekStanding(w) \in Nat
  <1> DEFINE C == CountedCards(w)
             f == [c \in C |-> CardPoints(w, c)]
  <1>1. [c \in C |-> PointsOf(c, ScoredOf(InWindow(w)))] = f
    BY WindowCounts
  <1>2. [c \in C |-> Cardinality(ScoredOf(ReportGames(w, c)))] = f
    BY WindowCounts
  <1>3. WeekStanding(w) = SumOf(f, C) /\ WeekPoints(w, C) = SumOf(f, C)
    BY <1>1 DEF WeekStanding, WeekPoints
  <1>4. TeamTotal(w) = SumOf(f, C) /\ ReportedPoints(w) = SumOf(f, C)
    BY <1>1, <1>2 DEF TeamTotal, ReportedPoints, TeamActive
  <1>5. SumOf(f, C) \in Nat
    <2>1. IsFiniteSet(C) /\ \A c \in C : f[c] \in Nat
      BY CountedFinite, CardPointsNat
    <2> HIDE DEF f, C
    <2> QED BY <2>1, SumIsTotal, TotalType
  <1> QED BY <1>3, <1>4, <1>5

\* The season of My Team is the sum of the weeks.
LEMMA TeamSeasonIsWeeks ==
  ASSUME BenchInv
  PROVE  /\ TeamSeason = SumOf([w \in Rounds |-> WeekStanding(w)], Rounds)
         /\ IsFiniteSet(CountedRows)
  <1> DEFINE f == [r \in CountedRows |-> PointsOf(r[2], ScoredOf(InWindow(r[1])))]
             R == [w \in Rounds |-> CountedCards(w)]
             g == [w \in Rounds |-> WeekStanding(w)]
             rows == UNION {{w} \X R[w] : w \in Rounds}
  <1>1. CountedRows = rows
    BY DEF CountedRows
  <1>2. IsFiniteSet(Rounds) /\ \A w \in Rounds : IsFiniteSet(R[w])
    BY RoundsCounted, CountedFinite
  <1>3. \A w \in Rounds : g[w] \in Int
    BY WeekAgrees
  <1>4. ASSUME NEW w \in Rounds, NEW c \in R[w]
        PROVE  f[<<w, c>>] = PointsOf(c, ScoredOf(InWindow(w))) /\ f[<<w, c>>] \in Int
    <2>1. <<w, c>> \in CountedRows
      BY <1>1
    <2>2. f[<<w, c>>] = PointsOf(c, ScoredOf(InWindow(w)))
      BY <2>1
    <2> QED BY <2>2, WindowCounts
  <1>5. ASSUME NEW w \in Rounds
        PROVE  g[w] = Total(f, {w} \X R[w])
    <2> DEFINE k == [c \in R[w] |-> PointsOf(c, ScoredOf(InWindow(w)))]
    <2>1. IsRow(f, k, w, R[w])
      <3> HIDE DEF f, R
      <3> QED BY <1>4 DEF IsRow
    <2>2. Total(f, {w} \X R[w]) = Total(k, R[w])
      <3>1. IsFiniteSet(R[w])
        BY <1>2
      <3> HIDE DEF f, R, k
      <3> QED BY ONLY <2>1, <3>1, TotalRow
    <2>3. g[w] = SumOf(k, R[w])
      BY DEF WeekStanding
    <2> QED BY <2>2, <2>3, SumIsTotal
  <1>6. IsFiniteSet(rows) /\ Total(f, rows) = Total(g, Rounds)
    <2> HIDE DEF f, R, g
    <2>1. SumsRows(f, g, Rounds, R)
      BY <1>2, <1>3, <1>4, <1>5 DEF SumsRows
    <2> QED BY <1>2, <2>1, TotalPairs
  <1>7. TeamSeason = Total(f, CountedRows)
    BY SumIsTotal DEF TeamSeason
  <1> QED BY <1>1, <1>6, <1>7, SumIsTotal

\* The leaderboard of the season sums the same rows card by card.
LEMMA SeasonIsTeamSeason ==
  ASSUME BenchInv
  PROVE  SeasonStanding = TeamSeason
  <1> DEFINE f == [r \in CountedRows |-> PointsOf(r[2], ScoredOf(InWindow(r[1])))]
             R == [c \in SeasonCards |-> WeeksCounted(c)]
             g == [c \in SeasonCards |-> SeasonSum(c)]
             turned == UNION {{c} \X R[c] : c \in SeasonCards}
             h == [r \in CountedRows |-> <<r[2], r[1]>>]
             t == [r \in turned |-> PointsOf(r[1], ScoredOf(InWindow(r[2])))]
  <1>1. \A r \in CountedRows :
          r = <<r[1], r[2]>> /\ r[1] \in Rounds /\ r[2] \in CountedCards(r[1])
    BY DEF CountedRows
  <1>2. \A w \in Rounds : \A c \in CountedCards(w) : <<w, c>> \in CountedRows
    BY DEF CountedRows
  <1>3. {h[r] : r \in CountedRows} = turned
    <2>1. ASSUME NEW r \in CountedRows
          PROVE  h[r] \in turned
      <3>1. r[2] \in SeasonCards /\ r[1] \in R[r[2]]
        BY <1>1 DEF SeasonCards, WeeksCounted
      <3> QED BY <3>1
    <2>2. ASSUME NEW c \in SeasonCards, NEW w \in R[c]
          PROVE  <<c, w>> \in {h[r] : r \in CountedRows}
      <3>1. w \in Rounds /\ c \in CountedCards(w)
        BY <2>2 DEF WeeksCounted
      <3>2. <<w, c>> \in CountedRows /\ h[<<w, c>>] = <<c, w>>
        BY <3>1, <1>2
      <3> QED BY <3>2
    <2>3. \A p \in turned : \E c \in SeasonCards : \E w \in R[c] : p = <<c, w>>
      OBVIOUS
    <2> HIDE DEF h, R, turned
    <2> QED BY <2>1, <2>2, <2>3
  <1>4. \A r, s \in CountedRows : h[r] = h[s] => r = s
    BY <1>1
  <1>5. ASSUME NEW r \in CountedRows
        PROVE  f[r] \in Int /\ t[h[r]] = f[r]
    <2>1. h[r] \in turned
      BY <1>3
    <2>2. h[r] = <<r[2], r[1]>> /\ f[r] = PointsOf(r[2], ScoredOf(InWindow(r[1])))
      OBVIOUS
    <2>3. t[h[r]] = PointsOf(h[r][1], ScoredOf(InWindow(h[r][2])))
      <3> HIDE DEF h, turned
      <3> QED BY <2>1
    <2> QED BY <2>2, <2>3, <1>1, WindowCounts
  <1>6. Total(t, turned) = Total(f, CountedRows)
    <2>1. IsFiniteSet(CountedRows)
      BY TeamSeasonIsWeeks
    <2>2. Total(t, {h[r] : r \in CountedRows}) = Total(f, CountedRows)
      <3> HIDE DEF t, h, f, turned
      <3> QED BY <2>1, <1>4, <1>5, TotalReindexed
    <2> QED BY <2>2, <1>3
  <1>7. IsFiniteSet(SeasonCards)
    <2> DEFINE k == [w \in Rounds |-> CountedCards(w)]
    <2>1. k = [w \in Rounds |-> k[w]] /\ SeasonCards = UNION {k[w] : w \in Rounds}
          /\ \A w \in Rounds : IsFiniteSet(k[w])
      BY CountedFinite DEF SeasonCards
    <2> HIDE DEF k
    <2>2. IsFiniteSet({k[w] : w \in Rounds}) /\ \A T \in {k[w] : w \in Rounds} : IsFiniteSet(T)
      BY <2>1, RoundsCounted, ValuesFinite
    <2>3. IsFiniteSet(UNION {k[w] : w \in Rounds})
      BY <2>2, FS_UNION
    <2> QED BY <2>1, <2>3
  <1>8. \A c \in SeasonCards : R[c] \subseteq Rounds /\ IsFiniteSet(R[c])
    <2>1. \A c \in SeasonCards : R[c] \subseteq Rounds
      BY DEF WeeksCounted
    <2> HIDE DEF R
    <2> QED BY <2>1, RoundsCounted, FS_Subset
  <1>9. ASSUME NEW c \in SeasonCards, NEW w \in R[c]
        PROVE  t[<<c, w>>] = PointsOf(c, ScoredOf(InWindow(w))) /\ t[<<c, w>>] \in Int
    <2>1. <<c, w>> \in turned
      OBVIOUS
    <2>2. t[<<c, w>>] = PointsOf(c, ScoredOf(InWindow(w)))
      <3> HIDE DEF turned
      <3> QED BY <2>1
    <2>3. w \in Rounds
      BY <1>8
    <2> QED BY <2>2, <2>3, WindowCounts
  <1>10. ASSUME NEW c \in SeasonCards
         PROVE  g[c] = Total(t, {c} \X R[c]) /\ g[c] \in Int
    <2> DEFINE k == [w \in R[c] |-> PointsOf(c, ScoredOf(InWindow(w)))]
    <2>1. IsRow(t, k, c, R[c])
      <3> HIDE DEF t, R
      <3> QED BY <1>9 DEF IsRow
    <2>2. Total(t, {c} \X R[c]) = Total(k, R[c]) /\ Total(k, R[c]) \in Int
      <3>1. IsFiniteSet(R[c])
        BY <1>8
      <3> HIDE DEF t, R, k
      <3>2. Total(k, R[c]) \in Int
        BY <2>1, <3>1, TotalType DEF IsRow
      <3>3. Total(t, {c} \X R[c]) = Total(k, R[c])
        BY ONLY <2>1, <3>1, TotalRow
      <3> QED BY <3>2, <3>3
    <2>3. g[c] = SumOf(k, R[c])
      BY DEF SeasonSum
    <2> QED BY <2>2, <2>3, SumIsTotal
  <1>11. Total(t, turned) = Total(g, SeasonCards)
    <2> HIDE DEF t, R, g
    <2>1. SumsRows(t, g, SeasonCards, R)
      BY <1>8, <1>9, <1>10 DEF SumsRows
    <2> QED BY <1>7, <2>1, TotalPairs
  <1>12. TeamSeason = Total(f, CountedRows) /\ SeasonStanding = Total(g, SeasonCards)
    BY SumIsTotal DEF TeamSeason, SeasonStanding
  <1> HIDE DEF f, g, t, turned
  <1> QED BY <1>6, <1>11, <1>12

\* A week's rows outside the runs that missed a change.
LEMMA OutDidNotPlay ==
  ASSUME BenchInv, NEW w \in Rounds \ stale, NEW i \in subbed[w].out
  PROVE  w \in processed /\ bench[w] # <<>> /\ i \in Slots(w) /\ Roster[w][i] \notin Played(w)
  <1> DEFINE f == subbed[w]
  <1>1. w \in processed
    <2>1. w \notin processed => f = NoFlags(w, bench[w])
      BY DEF BenchInv, FlagsFollow
    <2> QED BY <2>1 DEF NoFlags
  <1>2. bench[w] # <<>>
    <2>1. bench[w] = <<>> => f = NoFlags(w, bench[w])
      BY <1>1, CountedAre
    <2> QED BY <2>1 DEF NoFlags
  <1> QED BY <1>1, <1>2, CountedAre DEF StageOK

\* A revealed report has every card the week was locked with, an unrevealed one no other.
LEMMA ReportCards ==
  ASSUME BenchInv, NEW w \in Rounds
  PROVE  /\ CardsOf(Roster[w]) \subseteq RevealedCards(w)
         /\ LockTimeCards(w) \subseteq CardsOf(Roster[w])
  <1> DEFINE b == bench[w]
             f == subbed[w]
  <1>1. DOMAIN Roster[w] = Slots(w)
    BY RosterSlots DEF Slots
  <1>2. f.out \subseteq Slots(w) /\ \A s \in Seats(b) : f.for[s] # 0 => f.for[s] \in Slots(w)
    BY DEF BenchInv, RowsOK, BenchRow, Flags
  <1>3. ASSUME NEW i \in Slots(w)
        PROVE  Roster[w][i] \in RevealedCards(w)
    <2>1. Roster[w][i] \in AllEntries(w)
      BY <1>1 DEF AllEntries, CardsOf
    <2>2. CASE i \notin f.out
      BY <2>2 DEF CountedCards, RevealedCards, TeamActive
    <2>3. CASE i \in f.out
      BY <2>1, <2>3 DEF OutCards, RevealedCards, TeamActive, TeamBench
    <2> QED BY <2>2, <2>3
  <1>4. ASSUME NEW c \in CountedCards(w)
        PROVE  /\ ReplacedBy(w, c) \subseteq CardsOf(Roster[w])
               /\ ReplacedBy(w, c) = {} => c \in CardsOf(Roster[w])
    <2>1. ReplacedBy(w, c) \subseteq CardsOf(Roster[w])
      BY <1>1, <1>2 DEF ReplacedBy, CardsOf
    <2>2. CASE \E i \in Slots(w) : c = Roster[w][i]
      BY <1>1, <2>1, <2>2 DEF CardsOf
    <2>3. CASE \E s \in Seats(b) : f.for[s] # 0 /\ c = b[s]
      <3>1. ReplacedBy(w, c) # {}
        BY <2>3 DEF ReplacedBy
      <3> QED BY <2>1, <3>1
    <2> QED BY <2>2, <2>3 DEF CountedCards
  <1>5. CardsOf(Roster[w]) \subseteq RevealedCards(w)
    BY <1>1, <1>3 DEF CardsOf
  <1>6. LockTimeCards(w) \subseteq CardsOf(Roster[w])
    BY <1>4 DEF LockTimeCards, TeamActive
  <1> QED BY <1>5, <1>6

\* While the swaps follow the games, the cards that an unrevealed report leaves out are out
\* with nobody in for them, and nobody who is out is marked in a match.
LEMMA ReportFollows ==
  ASSUME BenchInv, NEW w \in Rounds \ stale
  PROVE  /\ CardsOf(Roster[w]) \ LockTimeCards(w) \subseteq
              OutCards(w) \ UNION {ReplacedBy(w, c) : c \in CardsOf(bench[w])}
         /\ \A g \in Games : ~excluded[g] => MarkedCards(w, g) \cap OutCards(w) = {}
  <1> DEFINE b == bench[w]
             f == subbed[w]
  <1>1. DOMAIN Roster[w] = Slots(w)
    BY RosterSlots DEF Slots
  <1>2. DOMAIN b = Seats(b)
    BY DEF BenchInv, RowsOK, BenchRow, Seats
  <1>3. ASSUME NEW i \in Slots(w), Roster[w][i] \notin LockTimeCards(w)
        PROVE  Roster[w][i] \in OutCards(w)
    <2> DEFINE x == Roster[w][i]
    <2> SUFFICES ASSUME i \notin f.out PROVE FALSE
      BY DEF OutCards
    <2>1. x \in CountedCards(w)
      BY DEF CountedCards
    <2>2. ReplacedBy(w, x) # {}
      <3>1. ReplacedBy(w, x) = {} => x \in LockTimeCards(w)
        BY <2>1 DEF LockTimeCards, TeamActive
      <3> QED BY <3>1, <1>3
    <2>3. PICK s \in Seats(b) : b[s] = x /\ f.for[s] # 0
      BY <2>2 DEF ReplacedBy
    <2>4. w \in processed
      <3>1. w \notin processed => f = NoFlags(w, b)
        BY DEF BenchInv, FlagsFollow
      <3> HIDE DEF f
      <3> QED BY <2>3, <3>1 DEF NoFlags
    <2>5. b # <<>>
      BY <2>3 DEF Seats
    <2>6. StageOK(w, b, Played(w), Len(Roster[w]), f) /\ Len(Roster[w]) \in Nat
      BY <2>4, <2>5, CountedAre
    <2>7. x \in Kept(w, Played(w))
      <3>1. i <= Len(Roster[w])
        BY <2>6 DEF Slots
      <3>2. x \in Played(w)
        BY <2>6, <3>1 DEF StageOK
      <3> QED BY <3>2 DEF Kept
    <2>8. ~OnePlayer(x, b[s])
      BY <2>3, <2>6, <2>7 DEF StageOK, RightIn
    <2> QED BY <2>3, <2>8 DEF OnePlayer
  <1>4. ASSUME NEW c \in CardsOf(b), NEW x \in ReplacedBy(w, c)
        PROVE  x \in LockTimeCards(w)
    <2>1. PICK s \in Seats(b) : b[s] = c /\ f.for[s] # 0
      BY <1>4 DEF ReplacedBy
    <2>2. c \in TeamActive(w)
      BY <2>1 DEF TeamActive, CountedCards
    <2> QED BY <1>4, <2>2 DEF LockTimeCards
  <1>5. CardsOf(Roster[w]) \ LockTimeCards(w) \subseteq
          OutCards(w) \ UNION {ReplacedBy(w, c) : c \in CardsOf(b)}
    BY <1>1, <1>3, <1>4 DEF CardsOf
  <1>6. ASSUME NEW g \in Games, ~excluded[g], NEW d \in MarkedCards(w, g), d \in OutCards(w)
        PROVE  FALSE
    <2>1. d \in PlayedIn[g] /\ g \in InWindow(w)
      BY <1>6 DEF MarkedCards
    <2>2. g \in Counting(w)
      BY <1>6, <2>1, WindowCounts DEF ScoredOf
    <2>3. d \in Played(w)
      BY <2>1, <2>2 DEF Played
    <2>4. PICK i \in f.out : d = Roster[w][i]
      BY <1>6 DEF OutCards
    <2> QED BY <2>3, <2>4, OutDidNotPlay
  <1> QED BY <1>5, <1>6

\* The leaderboards, My Team and the weekly report tell one story, for any weeks, games,
\* rosters, benches, overlapping runs and changes that no run follows.
THEOREM ReportsAgreeHolds == BenchSpec => []ReportsAgree
  <1>1. ASSUME BenchInv PROVE ReportsAgree
    BY <1>1, SeasonIsTeamSeason, TeamSeasonIsWeeks, WeekAgrees, ReportCards, ReportFollows
       DEF ReportsAgree
  <1> QED BY <1>1, BenchInvariant, PTL

-----------------------------------------------------------------------------
(* The grouping *)

\* Matches that are stored, finitely many.
AreStored(S) == IsFiniteSet(S) /\ S \subseteq MatchIds /\ \A m \in S : startOf[m] \in Nat

\* Of stored matches one starts last.
LEMMA LastMatchIs ==
  ASSUME NEW S, AreStored(S), S # {}
  PROVE  LastMatch(S) \in S /\ \A n \in S : n # LastMatch(S) => StartsBefore(n, LastMatch(S))
  <1> DEFINE Starts == {startOf[m] : m \in S}
             last == Max(Starts)
             LastOnes == {m \in S : startOf[m] = last}
  <1>1. last \in Starts /\ \A t \in Starts : t <= last
    <2>1. IsFiniteSet(Starts) /\ (\A t \in Starts : t \in Nat) /\ Starts # {}
      BY ImageFinite DEF AreStored
    <2> HIDE DEF Starts
    <2> QED BY <2>1, MaxIs
  <1>2. Max(LastOnes) \in LastOnes /\ \A m \in LastOnes : m <= Max(LastOnes)
    <2>1. IsFiniteSet(LastOnes) /\ (\A m \in LastOnes : m \in Nat) /\ LastOnes # {}
      BY <1>1, FS_Subset, SeriesAssumption DEF AreStored
    <2> HIDE DEF LastOnes
    <2> QED BY <2>1, MaxIs
  <1>3. PICK m : m = Max(LastOnes)
    OBVIOUS
  <1>4. m \in S /\ startOf[m] = last /\ \A n \in S : startOf[n] = last => n <= m
    BY <1>2, <1>3
  <1>5. \A n \in S : startOf[n] <= last
    BY <1>1
  <1>6. \A n \in S : n \in Nat /\ startOf[n] \in Nat
    BY SeriesAssumption DEF AreStored
  <1> HIDE DEF last, LastOnes
  <1>7. m \in S /\ \A n \in S \ {m} : StartsBefore(n, m)
    BY <1>4, <1>5, <1>6 DEF StartsBefore
  <1>8. LastMatch(S) \in S /\ \A n \in S \ {LastMatch(S)} : StartsBefore(n, LastMatch(S))
    BY <1>7 DEF LastMatch
  <1> QED BY <1>8

\* g is the function on the subsets of S that the groups are computed by.
Groups(S, g) ==
  g = [s \in SUBSET S |->
         IF s = {} THEN <<>> ELSE Joined(g[s \ {LastMatch(s)}], LastMatch(s))]

\* Fewer of the stored matches.
LEMMA FewerStored ==
  ASSUME NEW S, AreStored(S), NEW s \in SUBSET S
  PROVE  AreStored(s)
  BY FS_Subset DEF AreStored

\* Two such functions agree where both are defined.
LEMMA GroupsAgree ==
  ASSUME NEW S, NEW T, AreStored(S), NEW g, NEW h,
         Groups(S, g), Groups(T, h), NEW s \in SUBSET S, s \subseteq T
  PROVE  g[s] = h[s]
  <1> DEFINE Differ == {t \in SUBSET s : g[t] # h[t]}
  <1> SUFFICES ASSUME Differ # {} PROVE FALSE
    OBVIOUS
  <1>1. PICK t \in Differ : \A r \in Differ : r \subseteq t => r = t
    <2>1. Differ \in SUBSET SUBSET S /\ IsFiniteSet(S)
      BY DEF AreStored
    <2> HIDE DEF Differ
    <2> QED BY <2>1, SmallestMember
  <1>2. t # {}
    BY <1>1 DEF Groups
  <1>3. LastMatch(t) \in t
    <2>1. AreStored(t)
      BY <1>1, FewerStored
    <2> QED BY <2>1, <1>2, LastMatchIs
  <1>4. g[t \ {LastMatch(t)}] = h[t \ {LastMatch(t)}]
    BY <1>1, <1>3
  <1>5. t \in SUBSET S /\ t \in SUBSET T
    BY <1>1
  <1>6. g[t] = Joined(g[t \ {LastMatch(t)}], LastMatch(t))
    BY <1>2, <1>5 DEF Groups
  <1>7. h[t] = Joined(h[t \ {LastMatch(t)}], LastMatch(t))
    BY <1>2, <1>5 DEF Groups
  <1> QED BY <1>1, <1>4, <1>6, <1>7

\* There is such a function for the stored matches.
LEMMA GroupsExist ==
  ASSUME NEW S, AreStored(S)
  PROVE  \E g : Groups(S, g)
  <1> DEFINE Ungrouped == {T \in SUBSET S : ~ \E g : Groups(T, g)}
  <1> SUFFICES ASSUME Ungrouped # {} PROVE FALSE
    OBVIOUS
  <1>1. PICK T \in Ungrouped : \A R \in Ungrouped : R \subseteq T => R = T
    <2>1. Ungrouped \in SUBSET SUBSET S /\ IsFiniteSet(S)
      BY DEF AreStored
    <2> HIDE DEF Ungrouped
    <2> QED BY <2>1, SmallestMember
  <1>2. AreStored(T)
    BY FewerStored
  <1> DEFINE of(s) == CHOOSE g : Groups(s, g)
  <1>3. ASSUME NEW s \in SUBSET T, s # T
        PROVE  Groups(s, of(s)) /\ AreStored(s)
    <2>1. s \notin Ungrouped
      BY <1>1, <1>3
    <2>2. \E g : Groups(s, g)
      BY <2>1
    <2>3. AreStored(s)
      BY <1>2, FewerStored
    <2> QED BY <2>2, <2>3
  <1> DEFINE v(s) == of(s)[s]
             g == [s \in SUBSET T |->
                     IF s = {} THEN <<>> ELSE Joined(v(s \ {LastMatch(s)}), LastMatch(s))]
  <1> HIDE DEF of
  <1>4. ASSUME NEW s \in SUBSET T, s # T
        PROVE  v(s) = g[s]
    <2>1. Groups(s, of(s)) /\ s \in SUBSET s /\ AreStored(s)
      BY <1>3, <1>4
    <2>2. CASE s = {}
      BY <2>1, <2>2 DEF Groups
    <2>3. CASE s # {}
      <3> DEFINE r == s \ {LastMatch(s)}
      <3>1. LastMatch(s) \in s
        BY <2>1, <2>3, LastMatchIs
      <3>2. r \in SUBSET T /\ r # T /\ r \in SUBSET r /\ r \subseteq s
        BY <3>1
      <3>3. Groups(r, of(r)) /\ AreStored(r)
        BY <1>3, <3>2
      <3>4. of(r)[r] = of(s)[r]
        <4> HIDE DEF r, v, g, Ungrouped
        <4> QED BY <2>1, <3>2, <3>3, GroupsAgree
      <3>5. of(s)[s] = Joined(of(s)[r], LastMatch(s))
        BY <2>1, <2>3 DEF Groups
      <3>6. g[s] = Joined(of(r)[r], LastMatch(s))
        BY <2>3
      <3> QED BY <3>4, <3>5, <3>6
    <2> QED BY <2>2, <2>3
  <1>5. ASSUME NEW s \in SUBSET T, s # {}
        PROVE  v(s \ {LastMatch(s)}) = g[s \ {LastMatch(s)}]
    <2>1. LastMatch(s) \in s
      BY <1>2, <1>5, FewerStored, LastMatchIs
    <2>2. s \ {LastMatch(s)} \in SUBSET T /\ s \ {LastMatch(s)} # T
      BY <2>1
    <2> HIDE DEF g, v
    <2> QED BY <1>4, <2>2
  <1>6. g = [s \in SUBSET T |->
               IF s = {} THEN <<>> ELSE Joined(g[s \ {LastMatch(s)}], LastMatch(s))]
    BY <1>5
  <1>7. Groups(T, g)
    <2> HIDE DEF g
    <2> QED BY <1>6 DEF Groups
  <1> QED BY <1>7

\* What the series are computed by.
LEMMA GroupedIs ==
  ASSUME NEW S, AreStored(S)
  PROVE  \E g : Groups(S, g) /\ Grouped(S) = g[S]
  <1> DEFINE g == CHOOSE g : Groups(S, g)
  <1>1. Groups(S, g)
    BY GroupsExist
  <1>2. Grouped(S) = g[S]
    BY DEF Groups, Grouped
  <1> QED BY <1>1, <1>2

\* Who is in C brings along whoever the gap connects in S.
IsClosed(C, S) ==
  \A c \in C, d \in S :
    PairOf(c) = PairOf(d) /\ startOf[d] - startOf[c] \in -SeriesGap..SeriesGap => d \in C

\* A series is of one pair, and the gap connects all of it.
OneSeriesOK(g, S) ==
  /\ g \subseteq S /\ g # {}
  /\ \A x, y \in g : PairOf(x) = PairOf(y)
  /\ \A C \in SUBSET S : IsClosed(C, S) /\ C \cap g # {} => g \subseteq C

\* The later series of a pair starts more than the gap after the earlier one.
IsApart(g, h) ==
  \A x \in g, y \in h : PairOf(x) = PairOf(y) => startOf[y] - startOf[x] > SeriesGap

SeriesOK(series, S) ==
  /\ series \in Seq(SUBSET S)
  /\ \A k \in DOMAIN series : OneSeriesOK(series[k], S)
  /\ \A j, k \in DOMAIN series : j < k => IsApart(series[j], series[k])
  /\ \A m \in S : \E k \in DOMAIN series : m \in series[k]

\* A series stays one when a later match comes to the others.
LEMMA SeriesStays ==
  ASSUME NEW S, NEW m, m \notin S, NEW g, OneSeriesOK(g, S)
  PROVE  OneSeriesOK(g, S \cup {m})
  <1>1. ASSUME NEW C \in SUBSET (S \cup {m}), IsClosed(C, S \cup {m}), C \cap g # {}
        PROVE  g \subseteq C
    <2>1. C \cap S \in SUBSET S /\ (C \cap S) \cap g # {}
      BY <1>1 DEF OneSeriesOK
    <2>2. IsClosed(C \cap S, S)
      BY <1>1 DEF IsClosed
    <2>3. g \subseteq C \cap S
      BY <2>1, <2>2 DEF OneSeriesOK
    <2> QED BY <2>3
  <1> QED BY <1>1 DEF OneSeriesOK

\* A later match of the pair, soon after the latest of a series, makes it longer.
LEMMA SeriesGrows ==
  ASSUME NEW S, NEW m, AreStored(S \cup {m}), m \notin S, NEW g, OneSeriesOK(g, S),
         NEW x \in g, PairOf(x) = PairOf(m),
         startOf[x] <= startOf[m], startOf[m] - startOf[x] <= SeriesGap
  PROVE  OneSeriesOK(g \cup {m}, S \cup {m})
  <1>1. startOf[m] - startOf[x] \in -SeriesGap..SeriesGap
        /\ startOf[x] - startOf[m] \in -SeriesGap..SeriesGap
    BY SeriesAssumption DEF AreStored, OneSeriesOK
  <1>2. OneSeriesOK(g, S \cup {m})
    BY SeriesStays
  <1>3. \A y, z \in g \cup {m} : PairOf(y) = PairOf(z)
    BY DEF OneSeriesOK
  <1>4. ASSUME NEW C \in SUBSET (S \cup {m}), IsClosed(C, S \cup {m}), C \cap (g \cup {m}) # {}
        PROVE  g \cup {m} \subseteq C
    <2>1. m \in S \cup {m} /\ x \in S \cup {m}
      BY DEF OneSeriesOK
    <2>2. m \in C <=> x \in C
      BY <1>1, <1>4, <2>1 DEF IsClosed
    <2>3. C \cap g # {}
      BY <1>4, <2>2
    <2>4. g \subseteq C
      BY <1>2, <1>4, <2>3 DEF OneSeriesOK
    <2> QED BY <2>2, <2>4
  <1> QED BY <1>2, <1>3, <1>4 DEF OneSeriesOK

\* A match on its own is a series.
LEMMA SeriesStarts ==
  ASSUME NEW S, NEW m
  PROVE  OneSeriesOK({m}, S \cup {m})
  BY DEF OneSeriesOK

\* The latest start in a series.
LEMMA LatestIs ==
  ASSUME NEW S, AreStored(S), NEW g, OneSeriesOK(g, S)
  PROVE  \E x \in g : startOf[x] = Latest(g) /\ \A y \in g : startOf[y] <= startOf[x]
  <1> DEFINE Starts == {startOf[y] : y \in g}
  <1>1. IsFiniteSet(Starts) /\ (\A t \in Starts : t \in Nat) /\ Starts # {}
    <2>1. IsFiniteSet(g)
      BY FS_Subset DEF AreStored, OneSeriesOK
    <2>2. IsFiniteSet(Starts)
      BY <2>1, ImageFinite
    <2> QED BY <2>2 DEF AreStored, OneSeriesOK
  <1>2. Max(Starts) \in Starts /\ \A t \in Starts : t <= Max(Starts)
    <2> HIDE DEF Starts
    <2> QED BY <1>1, MaxIs
  <1> QED BY <1>2 DEF Latest

\* The series a later match may join.
Mine(series, m) == {k \in DOMAIN series : \A g \in series[k] : PairOf(g) = PairOf(m)}

\* The last one of its pair is the one with the latest match of the pair.
LEMMA LastMine ==
  ASSUME NEW S, AreStored(S), NEW series, SeriesOK(series, S), NEW m, Mine(series, m) # {}
  PROVE  LET k == Max(Mine(series, m)) IN
         /\ k \in Mine(series, m) /\ \A j \in Mine(series, m) : j <= k
         /\ \E x \in series[k] :
              /\ startOf[x] = Latest(series[k])
              /\ \A j \in Mine(series, m) : \A y \in series[j] :
                   startOf[y] <= startOf[x] /\ (j # k => startOf[x] - startOf[y] > SeriesGap)
  <1> DEFINE M == Mine(series, m)
             k == Max(M)
  <1>1. k \in M /\ \A j \in M : j <= k
    <2>1. DOMAIN series = 1..Len(series) /\ Len(series) \in Nat
      BY DEF SeriesOK
    <2>2. IsFiniteSet(1..Len(series))
      BY <2>1, FS_Interval
    <2>3. IsFiniteSet(M) /\ \A j \in M : j \in Nat
      BY <2>1, <2>2, FS_Subset DEF Mine
    <2>4. M # {}
      OBVIOUS
    <2> HIDE DEF M
    <2>5. Max(M) \in M /\ \A j \in M : j <= Max(M)
      BY ONLY <2>3, <2>4, MaxIs
    <2> QED BY <2>5
  <1> HIDE DEF k
  <1>2. OneSeriesOK(series[k], S)
    BY <1>1 DEF SeriesOK, Mine
  <1>3. PICK x \in series[k] : startOf[x] = Latest(series[k])
                               /\ \A y \in series[k] : startOf[y] <= startOf[x]
    BY <1>2, LatestIs
  <1>4. ASSUME NEW j \in M, NEW y \in series[j]
        PROVE  startOf[y] <= startOf[x] /\ (j # k => startOf[x] - startOf[y] > SeriesGap)
    <2>1. CASE j = k
      BY <1>3, <2>1
    <2>2. CASE j # k
      <3>1. j \in DOMAIN series /\ k \in DOMAIN series /\ j < k
        BY <1>1, <2>2 DEF SeriesOK, Mine
      <3>2. IsApart(series[j], series[k])
        BY <3>1 DEF SeriesOK
      <3>3. PairOf(y) = PairOf(x)
        BY <1>1 DEF Mine
      <3>4. startOf[x] - startOf[y] > SeriesGap
        BY <3>2, <3>3 DEF IsApart
      <3>5. startOf[x] \in Nat /\ startOf[y] \in Nat /\ SeriesGap \in Nat
        <4>1. y \in S /\ x \in S
          BY <3>1, <1>2 DEF SeriesOK, OneSeriesOK
        <4> QED BY <4>1, SeriesAssumption DEF AreStored
      <3> QED BY <2>2, <3>4, <3>5
    <2> QED BY <2>1, <2>2
  <1> QED BY <1>1, <1>3, <1>4 DEF k

\* A sequence over a set is one over a larger set.
LEMMA SeqLarger ==
  ASSUME NEW A, NEW B, A \subseteq B, NEW s \in Seq(A)
  PROVE  s \in Seq(B)
  OBVIOUS

\* A later match joins the series, or opens one.
LEMMA JoinedOK ==
  ASSUME NEW S, NEW m, AreStored(S \cup {m}), m \notin S, NEW series, SeriesOK(series, S),
         \A x \in S : startOf[x] <= startOf[m]
  PROVE  SeriesOK(Joined(series, m), S \cup {m})
  <1> DEFINE T == S \cup {m}
             M == Mine(series, m)
             k == Max(M)
  <1>1. AreStored(S)
    BY FewerStored
  <1>2. Joined(series, m) = IF M # {} /\ startOf[m] - Latest(series[k]) <= SeriesGap
                            THEN [series EXCEPT ![k] = @ \cup {m}] ELSE Append(series, {m})
    BY DEF Joined, Mine
  <1>3. series \in Seq(SUBSET T) /\ \A j \in DOMAIN series : OneSeriesOK(series[j], T)
    <2>1. \A j \in DOMAIN series : OneSeriesOK(series[j], T)
      BY SeriesStays DEF SeriesOK
    <2>2. series \in Seq(SUBSET S) /\ SUBSET S \subseteq SUBSET T
      BY DEF SeriesOK
    <2>3. series \in Seq(SUBSET T)
      BY ONLY <2>2, SeqLarger
    <2> QED BY <2>1, <2>3
  <1>4. \A j \in DOMAIN series : j \notin M => \A x \in series[j] : PairOf(x) # PairOf(m)
    BY DEF SeriesOK, OneSeriesOK, Mine
  <1>5. \A x \in T : startOf[x] \in Nat
    BY DEF AreStored
  <1>6. CASE M # {} /\ startOf[m] - Latest(series[k]) <= SeriesGap
    <2>1. k \in M /\ \A j \in M : j <= k
      BY <1>1, <1>6, LastMine
    <2>2. PICK x \in series[k] :
            /\ startOf[x] = Latest(series[k])
            /\ \A j \in M : \A y \in series[j] :
                 startOf[y] <= startOf[x] /\ (j # k => startOf[x] - startOf[y] > SeriesGap)
      BY <1>1, <1>6, LastMine
    <2> HIDE DEF k, M
    <2>3. k \in DOMAIN series /\ x \in S /\ PairOf(x) = PairOf(m)
      BY <2>1 DEF M, Mine, SeriesOK
    <2> DEFINE new == series[k] \cup {m}
               after == [series EXCEPT ![k] = new]
    <2>4. OneSeriesOK(new, T)
      <3>1. OneSeriesOK(series[k], S) /\ startOf[x] <= startOf[m]
            /\ startOf[m] - startOf[x] <= SeriesGap
        BY <2>2, <2>3, <1>6 DEF SeriesOK
      <3> QED BY <3>1, <2>3, SeriesGrows
    <2>5. after \in Seq(SUBSET T) /\ DOMAIN after = DOMAIN series /\ after[k] = new
          /\ \A j \in DOMAIN series : j # k => after[j] = series[j]
      BY <1>3, <2>3, <2>4 DEF OneSeriesOK
    <2> HIDE DEF after
    <2>6. \A j \in DOMAIN after : OneSeriesOK(after[j], T)
      BY <1>3, <2>4, <2>5
    <2>7. ASSUME NEW i \in DOMAIN after, NEW j \in DOMAIN after, i < j
          PROVE  IsApart(after[i], after[j])
      <3>1. IsApart(series[i], series[j])
        BY <2>5, <2>7 DEF SeriesOK
      <3>2. CASE i # k /\ j # k
        BY <3>1, <3>2, <2>5
      <3>3. CASE i = k
        <4>1. j # k /\ j \notin M
          BY <2>1, <2>3, <2>5, <2>7, <3>3 DEF SeriesOK
        <4>2. \A y \in series[j] : PairOf(y) # PairOf(m)
          BY <1>4, <2>5, <4>1
        <4> QED BY <3>1, <3>3, <2>5, <4>1, <4>2 DEF IsApart
      <3>4. CASE j = k
        <4>1. i # k /\ i \in DOMAIN series
          BY <2>5, <2>7, <3>4 DEF SeriesOK
        <4>2. ASSUME NEW y \in series[i], PairOf(y) = PairOf(m)
              PROVE  startOf[m] - startOf[y] > SeriesGap
          <5>1. i \in M /\ y \in S
            BY <1>4, <4>1, <4>2 DEF SeriesOK
          <5>2. startOf[x] - startOf[y] > SeriesGap /\ startOf[x] <= startOf[m]
            BY <2>2, <2>3, <4>1, <5>1
          <5> QED BY <5>1, <5>2, <1>5, <2>3, SeriesAssumption
        <4> QED BY <3>1, <3>4, <2>5, <4>1, <4>2 DEF IsApart
      <3> QED BY <3>2, <3>3, <3>4
    <2>8. \A y \in T : \E j \in DOMAIN after : y \in after[j]
      BY <2>3, <2>5 DEF SeriesOK
    <2>9. SeriesOK(after, T)
      BY <2>5, <2>6, <2>7, <2>8 DEF SeriesOK
    <2> QED BY <2>9, <1>2, <1>6 DEF after
  <1>7. CASE ~(M # {} /\ startOf[m] - Latest(series[k]) <= SeriesGap)
    <2> HIDE DEF k, M
    <2> DEFINE after == Append(series, {m})
               n == Len(series) + 1
    <2>1. after \in Seq(SUBSET T) /\ DOMAIN after = 1..n /\ after[n] = {m} /\ n \in Nat /\ n >= 1
          /\ DOMAIN series = 1..(n - 1)
          /\ \A j \in DOMAIN series : j \in DOMAIN after /\ after[j] = series[j]
      BY <1>3
    <2> HIDE DEF after, n
    <2>2. \A j \in DOMAIN after : OneSeriesOK(after[j], T)
      <3>1. OneSeriesOK({m}, T)
        BY SeriesStarts
      <3>2. \A j \in DOMAIN after : j \in DOMAIN series \/ j = n
        BY <2>1
      <3> QED BY <1>3, <2>1, <3>1, <3>2
    <2>3. ASSUME NEW y \in S, PairOf(y) = PairOf(m)
          PROVE  startOf[m] - startOf[y] > SeriesGap
      <3>1. PICK j \in DOMAIN series : y \in series[j]
        BY DEF SeriesOK
      <3>2. j \in M
        BY <1>4, <2>3, <3>1
      <3>3. PICK x \in series[k] :
              /\ startOf[x] = Latest(series[k])
              /\ \A i \in M : \A z \in series[i] : startOf[z] <= startOf[x]
        BY <1>1, <3>2, LastMine DEF k, M
      <3>4. k \in M /\ x \in S
        <4>1. k \in M
          BY <1>1, <3>2, LastMine DEF k, M
        <4> QED BY <4>1 DEF M, Mine, SeriesOK
      <3>5. startOf[y] <= startOf[x] /\ ~(startOf[m] - startOf[x] <= SeriesGap)
        BY <1>7, <3>1, <3>2, <3>3
      <3> QED BY <3>4, <3>5, <1>5, SeriesAssumption
    <2>4. ASSUME NEW i \in DOMAIN after, NEW j \in DOMAIN after, i < j
          PROVE  IsApart(after[i], after[j])
      <3>1. i \in DOMAIN series /\ (j \in DOMAIN series \/ j = n)
        BY <2>1, <2>4
      <3>2. CASE j \in DOMAIN series
        BY <2>1, <2>4, <3>1, <3>2 DEF SeriesOK
      <3>3. CASE j = n
        <4>1. series[i] \subseteq S
          BY <3>1 DEF SeriesOK
        <4> QED BY <2>1, <2>3, <3>1, <3>3, <4>1 DEF IsApart
      <3> QED BY <3>1, <3>2, <3>3
    <2>5. \A y \in T : \E j \in DOMAIN after : y \in after[j]
      <3>1. n \in DOMAIN after /\ m \in after[n]
        BY <2>1
      <3>2. \A y \in S : \E j \in DOMAIN series : y \in series[j]
        BY DEF SeriesOK
      <3> QED BY <2>1, <3>1, <3>2
    <2>6. SeriesOK(after, T)
      BY <2>1, <2>2, <2>4, <2>5 DEF SeriesOK
    <2> QED BY <2>6, <1>2, <1>7 DEF after
  <1> QED BY <1>6, <1>7

\* The groups are such series.
LEMMA GroupedOK ==
  ASSUME NEW S, AreStored(S)
  PROVE  SeriesOK(Grouped(S), S)
  <1>1. PICK g : Groups(S, g) /\ Grouped(S) = g[S]
    BY GroupedIs
  <1> DEFINE Not == {T \in SUBSET S : ~SeriesOK(g[T], T)}
  <1> SUFFICES ASSUME Not # {} PROVE FALSE
    BY <1>1 DEF Not
  <1>2. PICK T \in Not : \A R \in Not : R \subseteq T => R = T
    <2>1. Not \in SUBSET SUBSET S /\ IsFiniteSet(S)
      BY DEF AreStored
    <2> HIDE DEF Not
    <2> QED BY <2>1, SmallestMember
  <1>3. AreStored(T) /\ T \in SUBSET S
    BY FewerStored
  <1>4. T # {}
    <2>1. SUFFICES ASSUME T = {} PROVE FALSE
      OBVIOUS
    <2>2. g[T] = <<>>
      BY <1>1, <1>3, <2>1 DEF Groups
    <2>3. SeriesOK(<<>>, {})
      BY DEF SeriesOK
    <2> QED BY <2>1, <2>2, <2>3, <1>2
  <1> DEFINE m == LastMatch(T)
             R == T \ {m}
  <1>5. m \in T /\ \A n \in T : n # m => StartsBefore(n, m)
    BY <1>3, <1>4, LastMatchIs
  <1>6. g[T] = Joined(g[R], m)
    BY <1>1, <1>3, <1>4 DEF Groups
  <1> HIDE DEF m
  <1>7. SeriesOK(g[R], R)
    BY <1>2, <1>3, <1>5
  <1>8. R \cup {m} = T /\ m \notin R
    BY <1>5
  <1>9. \A x \in R : startOf[x] <= startOf[m]
    BY <1>3, <1>5 DEF StartsBefore, AreStored
  <1> HIDE DEF R
  <1>10. SeriesOK(g[T], T)
    BY <1>3, <1>6, <1>7, <1>8, <1>9, JoinedOK
  <1> QED BY <1>2, <1>10

\* A matched series is what the gap reaches from each of its matches.
LEMMA ReachedIs ==
  ASSUME NEW S, AreStored(S), NEW series, SeriesOK(series, S),
         NEW k \in DOMAIN series, NEW m \in series[k]
  PROVE  Reached(m, S) = series[k]
  <1>1. OneSeriesOK(series[k], S) /\ m \in S
    BY DEF SeriesOK, OneSeriesOK
  <1>2. IsClosed(series[k], S)
    <2>1. SUFFICES ASSUME NEW c \in series[k], NEW d \in S, PairOf(c) = PairOf(d),
                          startOf[d] - startOf[c] \in -SeriesGap..SeriesGap
                   PROVE  d \in series[k]
      BY DEF IsClosed
    <2>2. PICK j \in DOMAIN series : d \in series[j]
      BY DEF SeriesOK
    <2>3. j < k => startOf[c] - startOf[d] > SeriesGap
      BY <2>1, <2>2 DEF SeriesOK, IsApart
    <2>4. k < j => startOf[d] - startOf[c] > SeriesGap
      BY <2>1, <2>2 DEF SeriesOK, IsApart
    <2>5. ~(j < k) /\ ~(k < j)
      <3>1. startOf[c] \in Nat /\ startOf[d] \in Nat /\ SeriesGap \in Nat
        BY <1>1, SeriesAssumption DEF AreStored, OneSeriesOK
      <3> QED BY <2>1, <2>3, <2>4, <3>1
    <2>6. j = k
      BY <2>5 DEF SeriesOK
    <2> QED BY <2>2, <2>6
  <1>3. \A C \in SUBSET S : m \in C /\ IsClosed(C, S) => series[k] \subseteq C
    BY <1>1 DEF OneSeriesOK
  <1>4. Reached(m, S) = {x \in S : \A C \in SUBSET S : m \in C /\ IsClosed(C, S) => x \in C}
    BY DEF Reached, IsClosed
  <1> QED BY <1>1, <1>2, <1>3, <1>4 DEF OneSeriesOK

-----------------------------------------------------------------------------
(* The records *)

Dated(f) == {f.starts, f.weekStart} \subseteq Int \cup {NoDate}

FeedOK(fd) == IsFiniteSet(fd.fixtures) /\ \A f \in fd.fixtures : Dated(f)

\* The tables of the series, and the feed as it may be listed.
SeriesInv ==
  /\ startOf \in [MatchIds -> PlayTimes \cup {NoDate}]
  /\ unscored \subseteq Stored
  /\ FeedOK(feed)

\* What is stored has a start.
LEMMA StoredAre ==
  ASSUME SeriesInv
  PROVE  AreStored(Stored)
  <1>1. IsFiniteSet(Stored) /\ Stored \subseteq MatchIds
    BY FS_Subset, SeriesAssumption DEF Stored
  <1>2. \A m \in Stored : startOf[m] \in Nat
    BY SeriesAssumption DEF Stored, SeriesInv
  <1> QED BY <1>1, <1>2 DEF AreStored

\* Matches no fixture claims are grouped into what the gap connects.
LEMMA GroupsFollow ==
  ASSUME SeriesInv
  PROVE  GroupsConnected
  <1> DEFINE S == Stored \ ClaimedMatches
  <1>1. AreStored(S)
    BY StoredAre, FewerStored
  <1>2. SeriesOK(ExtraSeries, S)
    BY <1>1, GroupedOK DEF ExtraSeries
  <1> HIDE DEF S
  <1>3. ASSUME NEW k \in DOMAIN ExtraSeries
        PROVE  \E m \in S : ExtraSeries[k] = Reached(m, S)
    <2>1. PICK m : m \in ExtraSeries[k]
      BY <1>2 DEF SeriesOK, OneSeriesOK
    <2>2. m \in S
      BY <1>2, <2>1 DEF SeriesOK, OneSeriesOK
    <2>3. Reached(m, S) = ExtraSeries[k]
      BY <1>1, <1>2, <2>1, ReachedIs
    <2> QED BY <2>2, <2>3
  <1>4. ASSUME NEW m \in S
        PROVE  \E k \in DOMAIN ExtraSeries : ExtraSeries[k] = Reached(m, S)
    <2>1. PICK k \in DOMAIN ExtraSeries : m \in ExtraSeries[k]
      BY <1>2 DEF SeriesOK
    <2>2. Reached(m, S) = ExtraSeries[k]
      BY <1>1, <1>2, <2>1, ReachedIs
    <2> QED BY <2>1, <2>2
  <1>5. ToSet(ExtraSeries) = {Reached(m, S) : m \in S}
    BY <1>3, <1>4 DEF ToSet
  <1> QED BY <1>5 DEF GroupsConnected, S

\* When a fixture is planned is a time, if anything is.
LEMMA PlannedTyped ==
  ASSUME NEW f, Dated(f)
  PROVE  PlannedAt(f) \in Int \cup {NoDate}
  BY SeriesAssumption DEF Dated, PlannedAt

\* A match is claimed twice only by fixtures whose windows meet.
LEMMA OneSeriesEach ==
  ASSUME SeriesInv
  PROVE  CountedInOneSeries
  <1>1. SUFFICES ASSUME NEW f \in InFeed, NEW g \in InFeed,
                        NEW m \in MatchesOf(f) \cap MatchesOf(g),
                        PlannedAt(f) # NoDate, PlannedAt(g) # NoDate
                 PROVE  PlannedAt(f) - PlannedAt(g) \in -(2 * SeriesWindow)..(2 * SeriesWindow)
    BY DEF CountedInOneSeries
  <1>2. PICK a, b : a = PlannedAt(f) /\ b = PlannedAt(g)
    OBVIOUS
  <1>3. a \in Int /\ b \in Int
    BY <1>1, <1>2, PlannedTyped DEF InFeed, SeriesInv, FeedOK
  <1>4. m \in Stored /\ Near(m, a) /\ Near(m, b)
    BY <1>2 DEF MatchesOf
  <1>5. startOf[m] \in Nat /\ SeriesWindow \in Nat
    BY <1>4, StoredAre, SeriesAssumption DEF AreStored
  <1>6. startOf[m] \in (a - SeriesWindow)..(a + SeriesWindow)
        /\ startOf[m] \in (b - SeriesWindow)..(b + SeriesWindow)
    BY <1>1, <1>2, <1>4 DEF Near
  <1>7. a - b \in -(2 * SeriesWindow)..(2 * SeriesWindow)
    BY <1>3, <1>5, <1>6
  <1> QED BY <1>2, <1>7

\* The two sides of a match.
LEMMA PairIs ==
  ASSUME NEW m \in MatchIds
  PROVE  PairOf(m) = {SidesOf[m][1], SidesOf[m][2]} /\ SidesOf[m][1] # SidesOf[m][2]
         /\ PairOf(m) \subseteq Teams
  <1>1. PICK a \in Teams, b \in Teams : SidesOf[m] = <<a, b>> /\ a # b
    BY SeriesAssumption
  <1>2. ToSet(<<a, b>>) = {a, b}
    BY DEF ToSet
  <1> QED BY <1>1, <1>2 DEF PairOf

\* The teams of a fixture with matches are theirs.
LEMMA FixtureTeams ==
  ASSUME SeriesInv, NEW f, NEW m \in MatchesOf(f)
  PROVE  /\ m \in MatchIds /\ TeamsOf(f)[1] \in Teams /\ TeamsOf(f)[2] \in Teams
         /\ TeamsOf(f)[1] # TeamsOf(f)[2]
         /\ {SidesOf[m][1], SidesOf[m][2]} = {TeamsOf(f)[1], TeamsOf(f)[2]}
         /\ SidesOf[m][1] # SidesOf[m][2]
  <1> DEFINE a == FindTeam(f.team1)
             b == FindTeam(f.team2)
  <1>1. TeamsOf(f) = <<a, b>>
    BY DEF TeamsOf
  <1> HIDE DEF a, b
  <1>2. ToSet(<<a, b>>) = {a, b}
    BY DEF ToSet
  <1>3. m \in Stored /\ PairOf(m) = {a, b}
    BY <1>1, <1>2 DEF MatchesOf
  <1>4. m \in MatchIds
    BY <1>3 DEF Stored
  <1> QED BY <1>1, <1>3, <1>4, PairIs

\* Finitely many matches.
LEMMA MatchesFinite ==
  ASSUME SeriesInv, NEW f
  PROVE  MatchesOf(f) \subseteq Stored /\ IsFiniteSet(MatchesOf(f))
  <1>1. MatchesOf(f) \subseteq Stored /\ IsFiniteSet(Stored)
    BY StoredAre DEF MatchesOf, AreStored
  <1> QED BY <1>1, FS_Subset

\* A series' score is what its matches say of each team.
LEMMA ScoreFollows ==
  ASSUME SeriesInv, NEW f
  PROVE  /\ WinsOf(f) \in Nat \X Nat
         /\ \A me \in {1, 2} :
              WinsOf(f)[me] = Cardinality({m \in MatchesOf(f) : Won(TeamsOf(f)[me], m)})
  <1> DEFINE S == MatchesOf(f)
             W(t) == {m \in S : Won(t, m)}
             a == TeamsOf(f)[1]
             b == TeamsOf(f)[2]
  <1>1. IsFiniteSet(S) /\ \A t : IsFiniteSet(W(t))
    BY MatchesFinite, FS_Subset
  <1>2. \A m \in S : RadiantWin[m] \in {"yes", "no", "unknown"}
    BY FixtureTeams, SeriesAssumption
  <1>3. \A m \in S : /\ a # b /\ SidesOf[m][1] # SidesOf[m][2]
                     /\ {SidesOf[m][1], SidesOf[m][2]} = {a, b}
    BY FixtureTeams
  <1>4. Tallied(S, a) = Cardinality(W(a))
    <2>1. {m \in Known(S) : (SidesOf[m][1] = a) <=> (RadiantWin[m] = "yes")} = W(a)
      BY <1>2, <1>3 DEF Known, Won
    <2> QED BY <2>1 DEF Tallied
  <1>5. Cardinality(Known(S)) = Cardinality(W(a)) + Cardinality(W(b))
    <2>1. Known(S) = W(a) \cup W(b) /\ W(a) \cap W(b) = {}
      BY <1>2, <1>3 DEF Known, Won
    <2>2. Cardinality(W(a)) \in Nat /\ Cardinality(W(b)) \in Nat
      BY <1>1, FS_CardinalityType
    <2> HIDE DEF W
    <2>3. Cardinality(W(a) \cup W(b)) = Cardinality(W(a)) + Cardinality(W(b)) - 0
      BY <1>1, <2>1, FS_Union, FS_EmptySet
    <2> QED BY <2>1, <2>2, <2>3
  <1>6. Cardinality(W(a)) \in Nat /\ Cardinality(W(b)) \in Nat
    BY <1>1, FS_CardinalityType
  <1> HIDE DEF W, a, b, S
  <1>7. WinsOf(f) = <<Tallied(S, a), Cardinality(Known(S)) - Tallied(S, a)>>
    BY DEF WinsOf, S, a
  <1>8. WinsOf(f) = <<Cardinality(W(a)), Cardinality(W(b))>>
    BY <1>4, <1>5, <1>6, <1>7
  <1> QED BY <1>6, <1>8 DEF W, a, b, S

\* Sums over the teams.
LEMMA SumOfFunction ==
  ASSUME NEW T, NEW f, f = [t \in T |-> f[t]]
  PROVE  SumFunction(f) = Total(f, T)
  <1>1. DOMAIN f = T
    OBVIOUS
  <1> QED BY <1>1 DEF SumFunction, SumFunctionOnSet, FoldFunctionOnSet, Total, MapThenSumSet

\* What one team wins another one loses, if both are counted over pieces of sets with as
\* many elements.
LEMMA BalanceIs ==
  ASSUME NEW W, NEW L, ArePieces(W, Teams), ArePieces(L, Teams),
         Cardinality(UNION {W[t] : t \in Teams}) = Cardinality(UNION {L[t] : t \in Teams})
  PROVE  SumFunction([t \in Teams |-> Cardinality(W[t]) - Cardinality(L[t])]) = 0
  <1> DEFINE f == [t \in Teams |-> Cardinality(W[t])]
             g == [t \in Teams |-> Cardinality(L[t])]
             h == [t \in Teams |-> Cardinality(W[t]) - Cardinality(L[t])]
  <1>1. \A t \in Teams : f[t] \in Int /\ g[t] \in Int /\ h[t] = f[t] - g[t]
    BY FS_CardinalityType DEF ArePieces
  <1>2. IsFiniteSet(Teams)
    BY SeriesAssumption
  <1>3. (\A t \in Teams : f[t] = Cardinality(W[t])) /\ \A t \in Teams : g[t] = Cardinality(L[t])
    OBVIOUS
  <1>4. SumFunction(h) = Total(h, Teams)
    <2>1. h = [t \in Teams |-> h[t]]
      OBVIOUS
    <2> HIDE DEF h
    <2> QED BY <2>1, SumOfFunction
  <1> HIDE DEF f, g, h
  <1>5. Total(h, Teams) = Total(f, Teams) - Total(g, Teams)
    BY <1>1, <1>2, TotalDifference
  <1>6. Total(f, Teams) = Cardinality(UNION {W[t] : t \in Teams})
        /\ IsFiniteSet(UNION {W[t] : t \in Teams})
    BY <1>2, <1>3, TotalPieces
  <1>7. Total(g, Teams) = Cardinality(UNION {L[t] : t \in Teams})
    BY SMTT(20), <1>2, <1>3, TotalPieces
  <1>8. Total(f, Teams) \in Int
    BY <1>6, FS_CardinalityType
  <1>9. SumFunction(h) = 0
    BY <1>4, <1>5, <1>6, <1>7, <1>8
  <1> QED BY <1>9 DEF h

\* A fixture with matches, seen from a side, and who won or lost it.
Sides == {f \in InFeed : MatchesOf(f) # {}} \X {1, 2}
WonSide(s) == WinsOf(s[1])[s[2]] > WinsOf(s[1])[3 - s[2]]
LostSide(s) == WinsOf(s[1])[s[2]] < WinsOf(s[1])[3 - s[2]]

\* A team's record counts the sides it won and those it lost.
LEMMA SeriesRecordIs ==
  ASSUME NEW t
  PROVE  /\ SeriesRecord(t).wins = Cardinality({s \in SeenBy(t) : WonSide(s)})
         /\ SeriesRecord(t).losses = Cardinality({s \in SeenBy(t) : LostSide(s)})
  <1> DEFINE of(result) ==
        Cardinality({s \in SeenBy(t) :
          LET w == WinsOf(s[1]) IN
          CASE result = "W" -> w[s[2]] > w[3 - s[2]]
            [] result = "L" -> w[s[2]] < w[3 - s[2]]
            [] OTHER -> w[s[2]] = w[3 - s[2]]})
  <1>1. SeriesRecord(t) = [wins |-> of("W"), losses |-> of("L"), draws |-> of("D")]
    BY DEF SeriesRecord
  <1>2. of("W") = Cardinality({s \in SeenBy(t) : WonSide(s)})
    BY DEF WonSide
  <1>3. of("L") = Cardinality({s \in SeenBy(t) : LostSide(s)})
    BY DEF LostSide
  <1> HIDE DEF of
  <1> QED BY <1>1, <1>2, <1>3

\* As many sides are won as are lost.
LEMMA SidesEven ==
  ASSUME SeriesInv
  PROVE  /\ IsFiniteSet(Sides)
         /\ Cardinality({s \in Sides : WonSide(s)}) = Cardinality({s \in Sides : LostSide(s)})
  <1> DEFINE F == {f \in InFeed : MatchesOf(f) # {}}
             W == {s \in Sides : WonSide(s)}
             L == {s \in Sides : LostSide(s)}
             other == [s \in W |-> <<s[1], 3 - s[2]>>]
  <1>1. IsFiniteSet(Sides)
    <2>1. IsFiniteSet(F)
      BY FS_Subset DEF InFeed, SeriesInv, FeedOK
    <2>2. IsFiniteSet({1, 2})
      <3>1. IsFiniteSet({1} \cup {2}) /\ {1} \cup {2} = {1, 2}
        BY FS_Singleton, FS_Union
      <3> QED BY <3>1
    <2> HIDE DEF F
    <2>3. IsFiniteSet(F \X {1, 2})
      BY <2>1, <2>2, FS_Product
    <2> QED BY <2>3 DEF Sides, F
  <1>2. IsFiniteSet(W)
    BY <1>1, FS_Subset
  <1>3. \A s \in Sides : /\ s = <<s[1], s[2]>> /\ s[2] \in {1, 2} /\ 3 - s[2] \in {1, 2}
                         /\ <<s[1], 3 - s[2]>> \in Sides
                         /\ 3 - (3 - s[2]) = s[2]
    <2> HIDE DEF W, L, other
    <2>1. \A n \in {1, 2} : 3 - n \in {1, 2} /\ 3 - (3 - n) = n
      OBVIOUS
    <2> QED BY <2>1 DEF Sides
  <1>4. ASSUME NEW s \in Sides
        PROVE  /\ WonSide(s) => LostSide(<<s[1], 3 - s[2]>>)
               /\ LostSide(s) => WonSide(<<s[1], 3 - s[2]>>)
    <2>1. PICK n, v : n \in {1, 2} /\ n = s[2] /\ v = WinsOf(s[1])
      BY <1>3
    <2>2. v[1] \in Nat /\ v[2] \in Nat
      BY <2>1, ScoreFollows
    <2>3. 3 - n \in {1, 2} /\ 3 - (3 - n) = n
      BY <2>1
    <2>4. v[n] \in Nat /\ v[3 - n] \in Nat
      BY <2>2, <2>3
    <2>5. (WonSide(s) <=> v[n] > v[3 - n]) /\ (LostSide(s) <=> v[n] < v[3 - n])
      BY <2>1 DEF WonSide, LostSide
    <2>6. /\ WonSide(<<s[1], 3 - s[2]>>) <=> v[3 - n] > v[n]
          /\ LostSide(<<s[1], 3 - s[2]>>) <=> v[3 - n] < v[n]
      BY <2>1, <2>3 DEF WonSide, LostSide
    <2> QED BY <2>4, <2>5, <2>6
  <1>5. (\A s \in W : <<s[1], 3 - s[2]>> \in L) /\ \A s \in L : <<s[1], 3 - s[2]>> \in W
    BY <1>3, <1>4
  <1>6. other \in Bijection(W, L)
    <2>1. other \in [W -> L]
      BY <1>5
    <2>2. ASSUME NEW s \in W, NEW r \in W, other[s] = other[r]
          PROVE  s = r
      <3>1. s[1] = r[1] /\ 3 - s[2] = 3 - r[2]
        BY <2>2
      <3>2. s[2] = r[2]
        <4>1. s[2] = 3 - (3 - s[2]) /\ r[2] = 3 - (3 - r[2])
          BY <1>3
        <4> QED BY <3>1, <4>1
      <3> QED BY <1>3, <3>1, <3>2
    <2>3. ASSUME NEW s \in L
          PROVE  \E r \in W : other[r] = s
      <3>1. <<s[1], 3 - s[2]>> \in W
        BY <1>5
      <3>2. other[<<s[1], 3 - s[2]>>] = <<s[1], 3 - (3 - s[2])>>
        BY <3>1
      <3>3. <<s[1], 3 - (3 - s[2])>> = s
        BY <1>3
      <3> QED BY <3>1, <3>2, <3>3
    <2> HIDE DEF other, W, L
    <2> QED BY <2>1, <2>2, <2>3 DEF Bijection, Injection, Surjection, IsInjective
  <1>7. Cardinality(L) = Cardinality(W)
    <2>1. ExistsBijection(W, L)
      BY <1>6 DEF ExistsBijection
    <2> HIDE DEF other, W, L
    <2> QED BY <1>2, <2>1, FS_Bijection
  <1> QED BY <1>1, <1>7

\* What teams win and lose in series is even.
LEMMA SeriesEven ==
  ASSUME SeriesInv
  PROVE  SumFunction([t \in Teams |-> SeriesRecord(t).wins - SeriesRecord(t).losses]) = 0
  <1> DEFINE W == [t \in Teams |-> {s \in SeenBy(t) : WonSide(s)}]
             L == [t \in Teams |-> {s \in SeenBy(t) : LostSide(s)}]
  <1>1. \A t : SeenBy(t) = {s \in Sides : TeamsOf(s[1])[s[2]] = t}
    BY DEF SeenBy, Sides
  <1>2. \A s \in Sides : TeamsOf(s[1])[s[2]] \in Teams
    BY FixtureTeams DEF Sides
  <1>3. ArePieces(W, Teams) /\ ArePieces(L, Teams)
    <2>1. IsFiniteSet(Sides)
      BY SidesEven
    <2>2. \A t \in Teams : IsFiniteSet(W[t]) /\ IsFiniteSet(L[t])
      BY <1>1, <2>1, FS_Subset
    <2>3. \A t, u \in Teams : t # u => W[t] \cap W[u] = {} /\ L[t] \cap L[u] = {}
      BY <1>1
    <2> HIDE DEF W, L
    <2> QED BY <2>2, <2>3 DEF ArePieces
  <1>4. UNION {W[t] : t \in Teams} = {s \in Sides : WonSide(s)}
    BY <1>1, <1>2
  <1>5. UNION {L[t] : t \in Teams} = {s \in Sides : LostSide(s)}
    BY <1>1, <1>2
  <1>6. \A t \in Teams : SeriesRecord(t).wins = Cardinality(W[t])
                         /\ SeriesRecord(t).losses = Cardinality(L[t])
    BY SeriesRecordIs
  <1> HIDE DEF W, L
  <1>7. SumFunction([t \in Teams |-> Cardinality(W[t]) - Cardinality(L[t])]) = 0
    BY SMTT(30), <1>3, <1>4, <1>5, SidesEven, BalanceIs
  <1>8. [t \in Teams |-> SeriesRecord(t).wins - SeriesRecord(t).losses]
          = [t \in Teams |-> Cardinality(W[t]) - Cardinality(L[t])]
    BY <1>6
  <1> QED BY <1>7, <1>8

\* So is what they win and lose in the matches that count.
LEMMA GamesEven ==
  ASSUME SeriesInv
  PROVE  SumFunction([t \in Teams |-> GamesRecord(t).wins - GamesRecord(t).losses]) = 0
  <1> DEFINE mine(t) == {m \in Stored \ unscored : t \in PairOf(m)}
             W == [t \in Teams |-> {m \in mine(t) : Won(t, m)}]
             L == [t \in Teams |-> {m \in Known(mine(t)) : ~Won(t, m)}]
             K == Known(Stored \ unscored)
  <1>1. \A m \in Stored : /\ RadiantWin[m] \in {"yes", "no", "unknown"}
                          /\ PairOf(m) = {SidesOf[m][1], SidesOf[m][2]}
                          /\ SidesOf[m][1] # SidesOf[m][2] /\ PairOf(m) \subseteq Teams
    BY PairIs, SeriesAssumption DEF Stored
  <1>2. \A m \in Stored : \A t : t \in PairOf(m) =>
          (m \in Known(mine(t)) <=> m \in K) /\ (Won(t, m) => RadiantWin[m] # "unknown")
    BY <1>1 DEF Known, Won
  <1>3. ArePieces(W, Teams) /\ ArePieces(L, Teams)
    <2>1. IsFiniteSet(Stored)
      BY StoredAre DEF AreStored
    <2>2. \A t \in Teams : W[t] \subseteq Stored /\ L[t] \subseteq Stored
      BY DEF Known
    <2>3. \A t \in Teams : IsFiniteSet(W[t]) /\ IsFiniteSet(L[t])
      <3> HIDE DEF W, L
      <3> QED BY <2>1, <2>2, FS_Subset
    <2>4. \A t, u \in Teams : t # u => W[t] \cap W[u] = {}
      BY <1>1 DEF Won
    <2>5. \A t, u \in Teams : t # u => L[t] \cap L[u] = {}
      BY <1>1 DEF Won, Known
    <2> HIDE DEF W, L
    <2> QED BY <2>3, <2>4, <2>5 DEF ArePieces
  <1>4. UNION {W[t] : t \in Teams} = K
    <2>1. \A t \in Teams : W[t] \subseteq K
      BY <1>1 DEF Known, Won
    <2>2. ASSUME NEW m \in K
          PROVE  \E t \in Teams : m \in W[t]
      <3>1. m \in Stored \ unscored /\ RadiantWin[m] \in {"yes", "no"}
        BY <1>1 DEF Known
      <3>2. CASE RadiantWin[m] = "yes"
        BY <1>1, <3>1, <3>2 DEF Won
      <3>3. CASE RadiantWin[m] = "no"
        BY <1>1, <3>1, <3>3 DEF Won
      <3> QED BY <3>1, <3>2, <3>3
    <2> HIDE DEF W, K
    <2> QED BY <2>1, <2>2
  <1>5. UNION {L[t] : t \in Teams} = K
    <2>1. \A t \in Teams : L[t] \subseteq K
      BY <1>1 DEF Known, Won
    <2>2. ASSUME NEW m \in K
          PROVE  \E t \in Teams : m \in L[t]
      <3>1. m \in Stored \ unscored /\ RadiantWin[m] \in {"yes", "no"}
        BY <1>1 DEF Known
      <3>2. CASE RadiantWin[m] = "yes"
        BY <1>1, <3>1, <3>2 DEF Won, Known
      <3>3. CASE RadiantWin[m] = "no"
        BY <1>1, <3>1, <3>3 DEF Won, Known
      <3> QED BY <3>1, <3>2, <3>3
    <2> HIDE DEF L, K
    <2> QED BY <2>1, <2>2
  <1>6. \A t \in Teams : GamesRecord(t).wins = Cardinality(W[t])
                         /\ GamesRecord(t).losses = Cardinality(L[t])
    BY DEF GamesRecord
  <1> HIDE DEF W, L
  <1>7. SumFunction([t \in Teams |-> Cardinality(W[t]) - Cardinality(L[t])]) = 0
    BY <1>3, <1>4, <1>5, BalanceIs
  <1>8. [t \in Teams |-> GamesRecord(t).wins - GamesRecord(t).losses]
          = [t \in Teams |-> Cardinality(W[t]) - Cardinality(L[t])]
    BY <1>6
  <1> QED BY <1>7, <1>8

\* What the schedule and the records say of the same matches agrees.
LEMMA SeriesFollows ==
  ASSUME SeriesInv
  PROVE  SeriesSound
  <1>1. RecordsBalance
    BY ScoreFollows, SeriesEven, GamesEven DEF RecordsBalance
  <1> QED BY <1>1, GroupsFollow, OneSeriesEach DEF SeriesSound

-----------------------------------------------------------------------------
(* The tables of the series *)

\* Before a match is stored the invariant holds.
LEMMA SeriesStarted == SeriesInit => SeriesInv
  <1> SUFFICES ASSUME SeriesInit PROVE SeriesInv
    OBVIOUS
  <1>1. IsFiniteSet(feed.fixtures) /\ feed.fixtures = {}
    BY FS_EmptySet DEF SeriesInit
  <1> QED BY <1>1 DEF SeriesInit, SeriesInv, FeedOK

\* Matches and what is excluded of them change, the feed does not.
LEMMA TablesKept ==
  ASSUME SeriesInv, feed' = feed,
         startOf' \in [MatchIds -> PlayTimes \cup {NoDate}], unscored' \subseteq Stored'
  PROVE  SeriesInv'
  BY DEF SeriesInv, FeedOK, Dated

\* A match that is stored, or stored again, is grouped with the others.
LEMMA StoreKept ==
  ASSUME SeriesInv, NEW m \in MatchIds, NEW at \in PlayTimes, StoreMatch(m, at)
  PROVE  SeriesInv'
  <1>1. startOf' \in [MatchIds -> PlayTimes \cup {NoDate}] /\ feed' = feed
    BY DEF StoreMatch, SeriesInv
  <1>2. unscored' \subseteq Stored'
    <2>1. at # NoDate
      BY SeriesAssumption
    <2> QED BY <2>1 DEF StoreMatch, SeriesInv, Stored
  <1> QED BY <1>1, <1>2, TablesKept

\* Every step of matches, scoring and fixtures keeps the invariant.
LEMMA SeriesStep ==
  ASSUME SeriesInv, [SeriesNext]_seriesVars
  PROVE  SeriesInv'
  <1>1. ASSUME NEW m \in MatchIds, SetScoring(m)
        PROVE  SeriesInv'
    <2>1. startOf' \in [MatchIds -> PlayTimes \cup {NoDate}] /\ feed' = feed
          /\ unscored' \subseteq Stored'
      BY <1>1 DEF SetScoring, SeriesInv, Stored
    <2> QED BY <2>1, TablesKept
  <1>2. ASSUME NEW m \in MatchIds, NEW at \in PlayTimes, StoreMatch(m, at)
        PROVE  SeriesInv'
    BY <1>2, StoreKept
  <1>3. ASSUME NEW f \in Feeds, ReadFeed(f)
        PROVE  SeriesInv'
    <2>1. FeedOK(f)
      <3>1. \A x \in f.fixtures : {x.starts, x.weekStart} \subseteq Int \cup {NoDate}
        BY SeriesAssumption
      <3>2. \A x \in f.fixtures : Dated(x)
        BY <3>1 DEF Dated
      <3> QED BY <3>2, SeriesAssumption DEF FeedOK
    <2>2. FeedOK(feed')
      BY <1>3, <2>1 DEF ReadFeed
    <2> QED BY <1>3, <2>2 DEF ReadFeed, SeriesInv, Stored
  <1>4. CASE UNCHANGED seriesVars
    <2>1. startOf' \in [MatchIds -> PlayTimes \cup {NoDate}] /\ feed' = feed
          /\ unscored' \subseteq Stored'
      BY <1>4 DEF seriesVars, SeriesInv, Stored
    <2> QED BY <2>1, TablesKept
  <1> QED BY <1>1, <1>2, <1>3, <1>4 DEF SeriesNext

\* The series' tables keep their types, whatever is stored, excluded and read.
THEOREM SeriesInvariant == SeriesSpec => []SeriesInv
  <1>1. SeriesInv /\ [SeriesNext]_seriesVars => SeriesInv'
    BY SeriesStep
  <1> QED BY <1>1, SeriesStarted, PTL DEF SeriesSpec

\* Names are found to be of the teams there are.
LEMMA SeriesTypes ==
  ASSUME SeriesInv
  PROVE  SeriesTypeOK
  <1>1. ASSUME NEW n
        PROVE  FindTeam(n) \in Teams \cup {UnknownTeam}
    <2> DEFINE exact == {t \in Teams : TeamKeys[t] = n}
               found == IF exact # {} THEN exact ELSE Longest(Alike(n))
    <2>1. found \subseteq Teams
      BY DEF Longest, Alike
    <2>2. IsFiniteSet(found)
      <3> HIDE DEF found
      <3> QED BY <2>1, FS_Subset, SeriesAssumption
    <2>3. FindTeam(n) = IF n # NoName /\ Cardinality(found) = 1 THEN CHOOSE t \in found : TRUE
                        ELSE UnknownTeam
      BY DEF FindTeam
    <2>4. Cardinality(found) = 1 => found # {}
      <3> HIDE DEF found
      <3> QED BY FS_EmptySet
    <2> HIDE DEF found
    <2> QED BY <2>1, <2>3, <2>4
  <1>2. ASSUME NEW f
        PROVE  ToSet(TeamsOf(f)) \subseteq Teams \cup {UnknownTeam}
    <2>1. PICK a, b : a = FindTeam(f.team1) /\ b = FindTeam(f.team2)
      OBVIOUS
    <2>2. TeamsOf(f) = <<a, b>> /\ ToSet(<<a, b>>) = {a, b}
      BY <2>1 DEF TeamsOf, ToSet
    <2> QED BY <1>1, <2>1, <2>2
  <1> QED BY <1>2 DEF SeriesTypeOK, SeriesInv

\* SeriesTypeOK: nothing is excluded from scoring that is not stored, and names are of
\* teams or of nobody.
THEOREM SeriesTyped == SeriesSpec => []SeriesTypeOK
  <1>1. SeriesInv => SeriesTypeOK
    BY SeriesTypes
  <1> QED BY <1>1, SeriesInvariant, PTL

\* SeriesSound: the matches no fixture claims are grouped into what the gap connects, a
\* match counts in one series but for fixtures whose windows meet, and what one team wins
\* another one loses.
THEOREM SeriesSoundHolds == SeriesSpec => []SeriesSound
  <1>1. SeriesInv => SeriesSound
    BY SeriesFollows
  <1> QED BY <1>1, SeriesInvariant, PTL

-----------------------------------------------------------------------------
(* The tournament site *)

SiteScoresShown == (Nat \X Nat) \cup {NoSiteScore}
SiteStates == [started : BOOLEAN, score : SiteScoresShown]
SyncStates ==
  [stage : {"read", "push", "done", "failed"}, seen : SiteStates, score : SiteScoresShown,
   fresh : BOOLEAN]

\* A started match with games of ours shows their result.
SiteRight(st, series, score) == st.started /\ series # {} => st.score = score

\* What a sync has read is so while nothing changed.
SyncOK(c, st, series, score) ==
  c.fresh =>
    /\ c.stage = "read" => c.seen = st
    /\ c.stage = "push" => c.score = score
    /\ c.stage = "done" => SiteRight(st, series, score)

SiteInv ==
  /\ site \in SiteStates /\ sync \in [Syncers -> SyncStates]
  /\ \A s \in Syncers : SyncOK(sync[s], site, SiteSeries, SiteScore)

\* Before the first sync nothing is shown that was not computed.
LEMMA SiteStarts == SiteInit => SiteInv
  <1> SUFFICES ASSUME SiteInit PROVE SiteInv
    OBVIOUS
  <1>1. Unstarted \in SiteStates
    BY DEF Unstarted, SiteStates, SiteScoresShown
  <1>2. [stage |-> "failed", seen |-> Unstarted, score |-> NoSiteScore, fresh |-> FALSE]
          \in SyncStates
    BY <1>1 DEF SyncStates, SiteScoresShown
  <1> QED BY <1>1, <1>2 DEF SiteInit, SiteInv, SyncOK

\* Where the matches are what they were, so are the series and its score.
LEMMA SeriesSame ==
  ASSUME UNCHANGED seriesVars
  PROVE  SiteSeries' = SiteSeries /\ SiteScore' = SiteScore
  BY DEF seriesVars, SiteSeries, SiteScore, SiteFixture, WinsOf, MatchesOf, Stored, Near,
         TeamsOf, PlannedAt

\* Nothing a sync has read counts after a change of the others.
LEMMA OutdatedIs ==
  ASSUME SiteInv, NEW others \in SUBSET Syncers
  PROVE  /\ Outdated(others) \in [Syncers -> SyncStates]
         /\ \A s \in Syncers : Outdated(others)[s] =
              IF s \in others THEN [sync[s] EXCEPT !.fresh = FALSE] ELSE sync[s]
         /\ \A s \in others : ~Outdated(others)[s].fresh
  <1>1. \A s \in Syncers : [sync[s] EXCEPT !.fresh = FALSE] \in SyncStates
    BY DEF SiteInv, SyncStates
  <1>2. \A s \in Syncers : [sync[s] EXCEPT !.fresh = FALSE].fresh = FALSE
    BY DEF SiteInv, SyncStates
  <1> QED BY <1>1, <1>2 DEF Outdated, SiteInv

\* A change of the matches or of the site, with every sync outdated.
LEMMA OutdatedKept ==
  ASSUME SiteInv, sync' = Outdated(Syncers), site' \in SiteStates
  PROVE  SiteInv'
  <1>1. sync' \in [Syncers -> SyncStates] /\ \A s \in Syncers : ~sync'[s].fresh
    BY OutdatedIs
  <1> QED BY <1>1 DEF SiteInv, SyncOK

\* The step of one sync, with the matches as they were.
LEMMA OneSyncKept ==
  ASSUME SiteInv, UNCHANGED seriesVars, NEW s \in Syncers, NEW c \in SyncStates,
         site' \in SiteStates, SyncOK(c, site', SiteSeries, SiteScore),
         \/ site' = site /\ sync' = [sync EXCEPT ![s] = c]
         \/ sync' = [Outdated(Syncers \ {s}) EXCEPT ![s] = c]
  PROVE  SiteInv'
  <1>1. sync' \in [Syncers -> SyncStates]
    BY OutdatedIs DEF SiteInv
  <1>2. ASSUME NEW r \in Syncers
        PROVE  SyncOK(sync'[r], site', SiteSeries, SiteScore)
    <2>1. CASE r = s
      BY <2>1, OutdatedIs DEF SiteInv
    <2>2. CASE r # s /\ site' = site /\ sync' = [sync EXCEPT ![s] = c]
      BY <2>2 DEF SiteInv
    <2>3. CASE r # s /\ sync' = [Outdated(Syncers \ {s}) EXCEPT ![s] = c]
      <3>1. ~sync'[r].fresh
        BY <2>3, OutdatedIs
      <3> QED BY <3>1 DEF SyncOK
    <2> QED BY <2>1, <2>2, <2>3
  <1> QED BY <1>1, <1>2, SeriesSame DEF SiteInv

\* What a sync that ends becomes.
LEMMA EndedIs ==
  ASSUME SiteInv, NEW s \in Syncers, NEW stage \in {"done", "failed"}
  PROVE  Ended(s, stage) \in SyncStates /\ Ended(s, stage).stage = stage
         /\ Ended(s, stage).fresh = sync[s].fresh
  BY DEF SiteInv, SyncStates, Ended, Unstarted, SiteStates, SiteScoresShown

\* A push, or one that fails, keeps the invariant of the site.
LEMMA PushStepKept ==
  ASSUME SeriesInv, SiteInv, UNCHANGED seriesVars, NEW s \in Syncers,
         BeginPush(s) \/ Compute(s) \/ Push(s) \/ PushFails(s)
  PROVE  SiteInv'
  <1> USE DEF InStage
  <1>1. CASE BeginPush(s)
    <2> DEFINE c == [stage |-> "read", seen |-> site, score |-> NoSiteScore, fresh |-> TRUE]
    <2>1. c \in SyncStates /\ SyncOK(c, site, SiteSeries, SiteScore)
      BY DEF SiteInv, SyncStates, SiteScoresShown, SyncOK
    <2>2. sync' = [sync EXCEPT ![s] = c] /\ site' = site /\ site \in SiteStates
      BY <1>1 DEF BeginPush, SiteInv
    <2> HIDE DEF c
    <2> QED BY <2>1, <2>2, OneSyncKept
  <1>2. CASE Compute(s)
    <2> DEFINE due == sync[s].seen.started /\ SiteSeries # {}
                      /\ ~ShowsScore(sync[s].seen.score, SiteScore)
    <2>1. site' = site /\ site \in SiteStates /\ sync[s] \in SyncStates
          /\ sync[s].stage = "read" /\ SyncOK(sync[s], site, SiteSeries, SiteScore)
      BY <1>2 DEF Compute, SiteInv
    <2>2. CASE due
      <3> DEFINE c == [sync[s] EXCEPT !.stage = "push", !.score = SiteScore]
      <3>1. SiteScore \in SiteScoresShown
        BY ScoreFollows DEF SiteScore, SiteScoresShown
      <3>2. c \in SyncStates /\ c.stage = "push" /\ c.score = SiteScore
        BY <2>1, <3>1 DEF SyncStates
      <3>3. SyncOK(c, site, SiteSeries, SiteScore)
        BY <3>2 DEF SyncOK
      <3>4. sync' = [sync EXCEPT ![s] = c]
        BY <1>2, <2>2 DEF Compute, SiteInv
      <3> HIDE DEF c
      <3> QED BY <2>1, <3>2, <3>3, <3>4, OneSyncKept
    <2>3. CASE ~due
      <3>1. SyncOK(Ended(s, "done"), site, SiteSeries, SiteScore)
        BY <2>1, <2>3, EndedIs DEF SyncOK, SiteRight, ShowsScore
      <3>2. sync' = [sync EXCEPT ![s] = Ended(s, "done")]
        BY <1>2, <2>3 DEF Compute
      <3> QED BY <2>1, <3>1, <3>2, EndedIs, OneSyncKept
    <2> QED BY <2>2, <2>3
  <1>3. ASSUME sync[s].stage = "push", site' = [site EXCEPT !.score = sync[s].score]
        PROVE  /\ site' \in SiteStates
               /\ \A stage \in {"done", "failed"} :
                    SyncOK(Ended(s, stage), site', SiteSeries, SiteScore)
    <2>1. site' \in SiteStates /\ site'.score = sync[s].score
      BY <1>3 DEF SiteInv, SyncStates, SiteStates
    <2>2. sync[s].fresh => sync[s].score = SiteScore
      BY <1>3 DEF SiteInv, SyncOK
    <2> QED BY <2>1, <2>2, EndedIs DEF SyncOK, SiteRight
  <1>4. CASE Push(s)
    <2>1. site' \in SiteStates /\ SyncOK(Ended(s, "done"), site', SiteSeries, SiteScore)
          /\ sync' = [Outdated(Syncers \ {s}) EXCEPT ![s] = Ended(s, "done")]
      BY <1>3, <1>4 DEF Push
    <2> QED BY <2>1, EndedIs, OneSyncKept
  <1>5. CASE PushFails(s)
    <2>1. CASE UNCHANGED site /\ sync' = [sync EXCEPT ![s] = Ended(s, "failed")]
      <3>1. SyncOK(Ended(s, "failed"), site, SiteSeries, SiteScore) /\ site \in SiteStates
        BY EndedIs DEF SyncOK, SiteInv
      <3> QED BY <2>1, <3>1, EndedIs, OneSyncKept
    <2>2. CASE /\ site' = [site EXCEPT !.score = sync[s].score]
               /\ sync' = [Outdated(Syncers \ {s}) EXCEPT ![s] = Ended(s, "failed")]
      <3>1. site' \in SiteStates /\ SyncOK(Ended(s, "failed"), site', SiteSeries, SiteScore)
        BY <1>3, <1>5, <2>2 DEF PushFails
      <3> QED BY <2>2, <3>1, EndedIs, OneSyncKept
    <2> QED BY <1>5, <2>1, <2>2 DEF PushFails
  <1> QED BY <1>1, <1>2, <1>4, <1>5

\* Every step, of the site or of the matches' storage for it, keeps both.
LEMMA SiteStep ==
  ASSUME SeriesInv, SiteInv, [SiteNext]_<<seriesVars, siteVars>>
  PROVE  SeriesInv' /\ SiteInv'
  <1>1. CASE PurgeForSite
    <2>1. startOf' \in [MatchIds -> PlayTimes \cup {NoDate}] /\ feed' = feed
          /\ unscored' \subseteq Stored'
      BY <1>1 DEF PurgeForSite, SeriesInv, Stored
    <2>2. sync' = Outdated(Syncers) /\ site' \in SiteStates
      BY <1>1 DEF PurgeForSite, SiteInv
    <2> QED BY <2>1, <2>2, TablesKept, OutdatedKept
  <1>2. ASSUME NEW m \in MatchIds, StoreForSite(m)
        PROVE  SeriesInv' /\ SiteInv'
    <2>1. (CHOOSE at \in PlayTimes : TRUE) \in PlayTimes
      BY SeriesAssumption
    <2>2. SeriesInv'
      BY <1>2, <2>1, StoreKept DEF StoreForSite
    <2>3. sync' = Outdated(Syncers) /\ site' \in SiteStates
      BY <1>2 DEF StoreForSite, SiteInv
    <2> QED BY <2>2, <2>3, OutdatedKept
  <1>3. ASSUME UNCHANGED seriesVars
        PROVE  SeriesInv'
    BY <1>3, SeriesStep
  <1>4. ASSUME UNCHANGED seriesVars, NEW s \in Syncers,
               BeginPush(s) \/ Compute(s) \/ Push(s) \/ PushFails(s)
        PROVE  SeriesInv' /\ SiteInv'
    BY <1>3, <1>4, PushStepKept
  <1>5. ASSUME UNCHANGED seriesVars, NEW started \in BOOLEAN,
               NEW score \in SiteScores \cup {NoSiteScore}, EditSite(started, score)
        PROVE  SeriesInv' /\ SiteInv'
    <2>1. sync' = Outdated(Syncers) /\ site' \in SiteStates
      BY <1>5, SiteAssumption DEF EditSite, SiteStates, SiteScoresShown
    <2> QED BY <2>1, <1>3, <1>5, OutdatedKept
  <1>6. CASE UNCHANGED <<seriesVars, siteVars>>
    <2>1. SiteInv'
      BY <1>6, SeriesSame DEF siteVars, SiteInv
    <2> QED BY <1>3, <1>6, <2>1
  <1> QED BY <1>1, <1>2, <1>4, <1>5, <1>6 DEF SiteNext

\* What a sync has read of the site's match and computed of its series is so while
\* neither changed.
THEOREM SiteInvariant == SiteSpec => [](SeriesInv /\ SiteInv)
  <1>1. SeriesInit /\ SiteInit => SeriesInv /\ SiteInv
    BY SeriesStarted, SiteStarts
  <1>2. SeriesInv /\ SiteInv /\ [SiteNext]_<<seriesVars, siteVars>> => (SeriesInv /\ SiteInv)'
    BY SiteStep
  <1> QED BY <1>1, <1>2, PTL DEF SiteSpec

\* What the invariant of the site says of a sync that failed nowhere.
LEMMA SiteFollows ==
  ASSUME SiteInv
  PROVE  SiteTypeOK /\ SiteAgrees
  <1>1. SiteTypeOK
    BY DEF SiteInv, SiteTypeOK, SyncStates, SiteStates, SiteScoresShown
  <1>2. SiteAgrees
    BY DEF SiteInv, SiteAgrees, InStage, SyncOK, SiteRight
  <1> QED BY <1>1, <1>2

\* SiteTypeOK, and SiteAgrees: after a sync that failed nowhere, with no change since it
\* read the matches and the site, a started match with games of ours shows their result.
THEOREM SiteAgreesHolds == SiteSpec => [](SiteTypeOK /\ SiteAgrees)
  <1>1. SiteInv => SiteTypeOK /\ SiteAgrees
    BY SiteFollows
  <1> QED BY <1>1, SiteInvariant, PTL

-----------------------------------------------------------------------------
(* The leagues a run goes through *)

SeasonCount == Len(SeasonFile)

\* The leagues of one season, in the file's order.
OfSeason(s) == IF s = LiveSeason THEN <<>> ELSE Pending(s)

\* g[n] is the list of the leagues of the first n seasons.
Works(n, g) == g = [s \in 0..n |-> IF s = 0 THEN <<>> ELSE g[s - 1] \o OfSeason(s)]

\* The seasons are gone through one at a time.
LEMMA WorksExist ==
  ASSUME NEW n \in Nat
  PROVE  \E g : Works(n, g)
  <1> DEFINE Not == {k \in 0..n : ~ \E g : Works(k, g)}
  <1> SUFFICES ASSUME Not # {} PROVE FALSE
    BY DEF Not
  <1>1. PICK k \in Not : \A j \in Not : k <= j
    <2>0. IsFiniteSet(0..n)
      BY FS_Interval
    <2>1. IsFiniteSet(Not) /\ \A j \in Not : j \in Nat
      BY <2>0, FS_Subset
    <2> HIDE DEF Not
    <2> QED BY <2>1, MinIs
  <1>2. k # 0
    <2>1. Works(0, [s \in 0..0 |-> <<>>])
      BY DEF Works
    <2> QED BY <1>1, <2>1
  <1>3. k - 1 \in 0..n /\ k - 1 \notin Not
    BY <1>1, <1>2
  <1>4. PICK g : Works(k - 1, g)
    BY <1>3
  <1> DEFINE last == g[k - 1] \o OfSeason(k)
             h == [s \in 0..k |-> IF s = k THEN last ELSE g[s]]
  <1>5. Works(k, h)
    <2>1. ASSUME NEW s \in 0..k
          PROVE  h[s] = IF s = 0 THEN <<>> ELSE h[s - 1] \o OfSeason(s)
      <3>1. CASE s = k
        <4>1. h[k - 1] = g[k - 1]
          BY <1>1, <1>2
        <4> QED BY <3>1, <4>1, <1>2
      <3>2. CASE s # k
        <4>1. s \in 0..(k - 1) /\ h[s] = g[s]
          BY <3>2, <1>1
        <4>2. CASE s = 0
          BY <4>1, <4>2, <1>4, Zenon DEF Works
        <4>3. CASE s # 0
          <5>1. s - 1 \in 0..k /\ s - 1 # k /\ h[s - 1] = g[s - 1]
            BY <4>1, <4>3, <1>1
          <5>2. g[s] = g[s - 1] \o OfSeason(s)
            BY <4>1, <4>3, <1>4, Zenon DEF Works
          <5> HIDE DEF h
          <5> QED BY <4>1, <4>3, <5>1, <5>2
        <4> QED BY <4>2, <4>3
      <3> QED BY <3>1, <3>2
    <2> DEFINE step(s) == IF s = 0 THEN <<>> ELSE h[s - 1] \o OfSeason(s)
    <2>2. h = [s \in 0..k |-> h[s]]
      OBVIOUS
    <2> HIDE DEF h
    <2>3. h = [s \in 0..k |-> step(s)]
      BY <2>1, <2>2
    <2> QED BY <2>3, Zenon DEF Works
  <1> QED BY <1>1, <1>5

\* A list of leagues of the first n seasons but the live one, season by season and whole.
WorkOK(w, n) ==
  /\ w \in Seq(PastSeasons \X Divisions)
  /\ \A i \in DOMAIN w : w[i][1] <= n /\ w[i][2] \in ToSet(SeasonFile[w[i][1]])
  /\ \A i, j \in DOMAIN w : i < j => w[i][1] <= w[j][1]
  /\ \A s \in PastSeasons : s <= n =>
       \A l \in ToSet(SeasonFile[s]) : \E i \in DOMAIN w : w[i] = <<s, l>>

\* One more season.
LEMMA WorkGrows ==
  ASSUME NEW s \in 1..SeasonCount, NEW w, WorkOK(w, s - 1)
  PROVE  WorkOK(w \o OfSeason(s), s)
  <1>1. SeasonCount \in Nat /\ DOMAIN SeasonFile = 1..SeasonCount
    BY BackfillAssumption DEF SeasonCount
  <1>2. CASE s = LiveSeason
    <2>1. w \in Seq(PastSeasons \X Divisions) /\ w \o <<>> = w
      BY DEF WorkOK
    <2>2. \A r \in PastSeasons : r <= s => r <= s - 1
      BY <1>1, <1>2 DEF PastSeasons
    <2>3. \A i \in DOMAIN w : w[i][1] <= s
      <3>1. \A i \in DOMAIN w : w[i][1] \in PastSeasons
        BY DEF WorkOK
      <3> QED BY <1>1, <3>1 DEF WorkOK, PastSeasons
    <2> QED BY <1>2, <2>1, <2>2, <2>3 DEF WorkOK, OfSeason
  <1>3. CASE s # LiveSeason
    <2> DEFINE f == SeasonFile[s]
               p == Pending(s)
               v == w \o p
    <2>1. s \in PastSeasons /\ f \in Seq(DOMAIN MatchesOfLeague)
      BY <1>1, <1>3, BackfillAssumption DEF PastSeasons
    <2>2. ToSet(f) \subseteq Divisions /\ ToSet(f) = {f[i] : i \in 1..Len(f)}
      BY <2>1 DEF Divisions, ToSet
    <2>3. /\ Len(f) \in Nat /\ p \in Seq(PastSeasons \X Divisions) /\ Len(p) = Len(f)
          /\ \A i \in 1..Len(f) : p[i] = <<s, f[i]>>
      <3>1. Len(f) \in Nat /\ DOMAIN f = 1..Len(f) /\ \A i \in 1..Len(f) : f[i] \in Divisions
        BY <2>1, <2>2
      <3>2. p = [i \in 1..Len(f) |-> <<s, f[i]>>]
        BY <3>1 DEF Pending
      <3> HIDE DEF f, p
      <3> QED BY <2>1, <3>1, <3>2
    <2> HIDE DEF f, p
    <2>4. w \in Seq(PastSeasons \X Divisions) /\ Len(w) \in Nat /\ DOMAIN w = 1..Len(w)
      BY DEF WorkOK
    <2>5. /\ v \in Seq(PastSeasons \X Divisions) /\ DOMAIN v = 1..(Len(w) + Len(f))
          /\ \A i \in 1..Len(w) : v[i] = w[i]
          /\ \A i \in 1..Len(f) : v[Len(w) + i] = <<s, f[i]>>
      <3>1. w \in Seq(PastSeasons \X Divisions) /\ p \in Seq(PastSeasons \X Divisions)
            /\ Len(p) = Len(f) /\ Len(f) \in Nat /\ Len(w) \in Nat
        BY <2>3, <2>4
      <3>2. v \in Seq(PastSeasons \X Divisions) /\ Len(v) = Len(w) + Len(f)
        BY <3>1
      <3>3. DOMAIN v = 1..Len(v)
        BY <3>2
      <3>4. \A i \in 1..Len(w) : v[i] = w[i]
        BY <3>1
      <3>5. \A i \in 1..Len(f) : v[Len(w) + i] = p[i]
        BY <3>1
      <3> HIDE DEF v
      <3> QED BY <2>3, <3>2, <3>3, <3>4, <3>5
    <2> HIDE DEF v
    <2>6. \A i \in DOMAIN v : i \in 1..Len(w) \/ (i > Len(w) /\ v[i][1] = s /\ v[i][2] \in ToSet(f))
      <3>1. SUFFICES ASSUME NEW i \in DOMAIN v, i > Len(w)
                     PROVE  v[i][1] = s /\ v[i][2] \in ToSet(f)
        BY <2>4, <2>5
      <3>2. i - Len(w) \in 1..Len(f) /\ Len(w) + (i - Len(w)) = i
        BY <3>1, <2>3, <2>4, <2>5
      <3>3. v[i] = <<s, f[i - Len(w)]>> /\ f[i - Len(w)] \in ToSet(f)
        BY <3>2, <2>2, <2>5
      <3> QED BY <3>3
    <2>7. \A i \in 1..Len(w) : /\ v[i] = w[i] /\ v[i][1] \in PastSeasons /\ v[i][1] <= s - 1
                               /\ v[i][2] \in ToSet(SeasonFile[v[i][1]])
      BY <2>4, <2>5 DEF WorkOK
    <2>8. \A i \in DOMAIN v : v[i][1] <= s /\ v[i][2] \in ToSet(SeasonFile[v[i][1]])
      BY <1>1, <2>6, <2>7 DEF PastSeasons, f
    <2>9. ASSUME NEW i \in DOMAIN v, NEW j \in DOMAIN v, i < j
          PROVE  v[i][1] <= v[j][1]
      <3>1. CASE j \in 1..Len(w)
        <4>1. i \in 1..Len(w)
          BY <2>4, <2>5, <2>9, <3>1
        <4> QED BY <4>1, <3>1, <2>4, <2>7, <2>9 DEF WorkOK
      <3>2. CASE v[j][1] = s
        BY <3>2, <2>8
      <3> QED BY <3>1, <3>2, <2>6
    <2>10. ASSUME NEW r \in PastSeasons, r <= s, NEW l \in ToSet(SeasonFile[r])
           PROVE  \E i \in DOMAIN v : v[i] = <<r, l>>
      <3>1. CASE r = s
        <4>1. PICK i \in 1..Len(f) : l = f[i]
          BY <2>2, <3>1 DEF f
        <4>2. Len(w) + i \in DOMAIN v /\ v[Len(w) + i] = <<r, l>>
          BY <2>3, <2>4, <2>5, <3>1, <4>1
        <4> QED BY <4>2
      <3>2. CASE r # s
        <4>1. r <= s - 1
          BY <1>1, <2>10, <3>2 DEF PastSeasons
        <4>2. PICK i \in DOMAIN w : w[i] = <<r, l>>
          BY <4>1 DEF WorkOK
        <4>3. i \in DOMAIN v /\ v[i] = <<r, l>>
          BY <2>3, <2>4, <2>5, <4>2
        <4> QED BY <4>3
      <3> QED BY <3>1, <3>2
    <2>11. WorkOK(v, s)
      BY <2>5, <2>8, <2>9, <2>10 DEF WorkOK
    <2> QED BY <1>3, <2>11 DEF v, p, OfSeason
  <1> QED BY <1>2, <1>3

\* A run goes through the leagues of every past season, season by season.
LEMMA WorkListIs == WorkOK(WorkList, SeasonCount)
  <1>1. SeasonCount \in Nat /\ DOMAIN SeasonFile = 1..SeasonCount
    BY BackfillAssumption DEF SeasonCount
  <1> DEFINE g == CHOOSE g : Works(SeasonCount, g)
  <1>2. Works(SeasonCount, g) /\ WorkList = g[SeasonCount]
    <2>1. Works(SeasonCount, g)
      BY <1>1, WorksExist
    <2> QED BY <2>1, Zenon DEF WorkList, Works, SeasonCount, OfSeason
  <1> HIDE DEF g
  <1> DEFINE Not == {n \in 0..SeasonCount : ~WorkOK(g[n], n)}
  <1> SUFFICES ASSUME Not # {} PROVE FALSE
    BY <1>1, <1>2 DEF Not
  <1>3. PICK n \in Not : \A j \in Not : n <= j
    <2>0. IsFiniteSet(0..SeasonCount)
      BY <1>1, FS_Interval
    <2>1. Not \in SUBSET (0..SeasonCount) /\ \A j \in Not : j \in Nat
      BY <1>1
    <2> HIDE DEF Not
    <2>2. IsFiniteSet(Not)
      BY <2>0, <2>1, FS_Subset
    <2> QED BY <2>1, <2>2, MinIs
  <1>4. n # 0
    <2>1. SUFFICES ASSUME n = 0 PROVE FALSE
      OBVIOUS
    <2>2. g[0] = <<>>
      BY <1>1, <1>2 DEF Works
    <2>3. \A s \in PastSeasons : ~(s <= 0)
      BY <1>1 DEF PastSeasons
    <2>4. WorkOK(<<>>, 0)
      BY <2>3 DEF WorkOK
    <2> QED BY <1>3, <2>1, <2>2, <2>4
  <1>5. n \in 1..SeasonCount /\ n - 1 \in 0..SeasonCount /\ n - 1 \notin Not
    BY <1>1, <1>3, <1>4
  <1>6. g[n] = g[n - 1] \o OfSeason(n)
    BY <1>2, <1>4, <1>5, Zenon DEF Works
  <1>7. WorkOK(g[n - 1], n - 1)
    BY <1>5
  <1>8. WorkOK(g[n], n)
    BY <1>5, <1>6, <1>7, WorkGrows
  <1> QED BY <1>3, <1>8

-----------------------------------------------------------------------------
(* What the scripts know *)

MatchesIn(l) == ToSet(MatchesOfLeague[l])
PlacesInRun == {"none", "review", "derived"}

\* A running script.
JobStates ==
  [script : {"played", "places"}, work : Seq(PastSeasons \X Divisions),
   todo : Seq(MatchesOn(Divisions)), listed : BOOLEAN, calls : 0..MaxCalls,
   got : SUBSET MatchesOn(Divisions), gained : BOOLEAN, failed : BOOLEAN, misses : BOOLEAN,
   rows : [Divisions -> PlacesInRun]]

\* The leagues a run has gone through, and the seasons they are all of.
AtLeague == Len(WorkList) - Len(job.work)
IsPast(s, n) == \A i \in DOMAIN WorkList : WorkList[i][1] = s => i <= n

\* The cached and stored tables.
TablesOK ==
  /\ read \in [{"played", "places"} -> SUBSET MatchesOn(Divisions)]
  /\ lists \subseteq Divisions /\ missed \subseteq PastSeasons
  /\ played = [s \in PastSeasons |-> played[s]]
  /\ \A s \in PastSeasons : played[s] \subseteq EveryoneWhoPlayed(s)
  /\ table \in [Divisions -> PlacesInRun \cup {"reviewed"}]
  /\ places \in [Divisions -> {"none", "table", "by hand"}]

\* How the last run ended.
OutcomeOK ==
  /\ CleanRunRecordsAll /\ StoppedRunsAdvance
  /\ job # NoJob => outcome = "running"

\* A run is at some league of the list, with matches of it to read.
JobPlace ==
  /\ AtLeague \in 0..Len(WorkList)
  /\ \A i \in 1..Len(job.work) : job.work[i] = WorkList[AtLeague + i]
  /\ job.listed => job.work # <<>> /\ ToSet(job.todo) \subseteq MatchesIn(Current[2])

\* A run without anything new has only asked for the lists.
JobCalls == ~job.gained /\ ~job.failed => job.calls <= AtLeague + IF job.listed THEN 1 ELSE 0

\* A league derived, or being read without a miss, is in the cache.
JobPlaces ==
  /\ \A l \in Divisions : job.rows[l] = "derived" => MatchesIn(l) \subseteq read["places"]
  /\ job.script = "places" /\ job.listed /\ ~job.misses =>
       MatchesIn(Current[2]) \subseteq read["places"] \cup ToSet(job.todo)

\* A season being recorded has nobody else, and everybody if nothing of it was missed; the
\* seasons before are recorded.
JobSeason ==
  job.script = "played" /\ job.work # <<>> =>
    /\ job.got \subseteq MatchesOn(ToSet(SeasonFile[Current[1]]))
    /\ ~job.failed \/ Current[1] \notin missed =>
         /\ \A i \in 1..AtLeague :
              WorkList[i][1] = Current[1] => MatchesIn(WorkList[i][2]) \subseteq job.got
         /\ job.listed => MatchesIn(Current[2]) \subseteq job.got \cup ToSet(job.todo)
JobRecorded ==
  job.script = "played" /\ ~job.failed =>
    \A s \in PastSeasons : IsPast(s, AtLeague) => played[s] = EveryoneWhoPlayed(s)

JobOK ==
  /\ job \in JobStates /\ JobPlace /\ JobCalls /\ JobPlaces /\ JobSeason /\ JobRecorded

BackfillInv ==
  /\ TablesOK /\ OutcomeOK /\ SeasonsWhole /\ PlacesFromWholeLeagues
  /\ job # NoJob => JobOK

\* The list is one of leagues of past seasons.
LEMMA WorkIs ==
  /\ WorkList \in Seq(PastSeasons \X Divisions)
  /\ Len(WorkList) \in Nat /\ DOMAIN WorkList = 1..Len(WorkList)
  /\ \A i \in DOMAIN WorkList :
       /\ WorkList[i] \in PastSeasons \X Divisions
       /\ WorkList[i][2] \in ToSet(SeasonFile[WorkList[i][1]])
  /\ \A i, j \in DOMAIN WorkList : i < j => WorkList[i][1] <= WorkList[j][1]
  /\ \A s \in PastSeasons : \A l \in ToSet(SeasonFile[s]) :
       \E i \in DOMAIN WorkList : WorkList[i] = <<s, l>>
  <1>1. \A s \in PastSeasons : s <= SeasonCount
    BY BackfillAssumption DEF PastSeasons, SeasonCount
  <1>2. WorkOK(WorkList, SeasonCount)
    BY WorkListIs
  <1>3. WorkList \in Seq(PastSeasons \X Divisions)
    BY <1>2 DEF WorkOK
  <1>4. /\ Len(WorkList) \in Nat /\ DOMAIN WorkList = 1..Len(WorkList)
        /\ \A i \in DOMAIN WorkList : WorkList[i] \in PastSeasons \X Divisions
    BY <1>3
  <1>5. \A i \in DOMAIN WorkList : WorkList[i][2] \in ToSet(SeasonFile[WorkList[i][1]])
    BY <1>2 DEF WorkOK
  <1>6. \A i, j \in DOMAIN WorkList : i < j => WorkList[i][1] <= WorkList[j][1]
    BY <1>2 DEF WorkOK
  <1>7. \A s \in PastSeasons : \A l \in ToSet(SeasonFile[s]) :
          \E i \in DOMAIN WorkList : WorkList[i] = <<s, l>>
    BY <1>1, <1>2 DEF WorkOK
  <1> QED BY <1>3, <1>4, <1>5, <1>6, <1>7

\* Seasons are numbers.
LEMMA SeasonsAre ==
  ASSUME NEW s \in PastSeasons
  PROVE  s \in Nat
  BY BackfillAssumption DEF PastSeasons

\* The leagues of a season are past ones.
LEMMA SeasonLeaguesPast ==
  ASSUME NEW s \in PastSeasons
  PROVE  ToSet(SeasonFile[s]) \subseteq Divisions
  BY DEF Divisions

\* The matches on leagues.
LEMMA MatchesOnIs ==
  ASSUME NEW L, NEW l \in L
  PROVE  MatchesIn(l) \subseteq MatchesOn(L)
  BY DEF MatchesOn, MatchesIn

\* The league a run is at.
LEMMA CurrentIs ==
  ASSUME job \in JobStates, JobPlace, job.work # <<>>
  PROVE  /\ AtLeague + 1 \in DOMAIN WorkList /\ AtLeague \in Nat /\ Current = WorkList[AtLeague + 1]
         /\ Current[1] \in PastSeasons /\ Current[2] \in Divisions
         /\ Current[2] \in ToSet(SeasonFile[Current[1]])
         /\ MatchesIn(Current[2]) \subseteq MatchesOn(ToSet(SeasonFile[Current[1]]))
         /\ MatchesIn(Current[2]) \subseteq MatchesOn(Divisions)
  <1>1. job.work \in Seq(PastSeasons \X Divisions)
    BY DEF JobStates
  <1>2. Len(job.work) \in Nat /\ Len(job.work) >= 1 /\ Current = job.work[1]
    BY <1>1 DEF Current
  <1>3. AtLeague + 1 \in DOMAIN WorkList /\ AtLeague \in Nat /\ Current = WorkList[AtLeague + 1]
    <2>1. Len(WorkList) \in Nat /\ DOMAIN WorkList = 1..Len(WorkList)
      BY WorkIs
    <2>2. AtLeague + 1 <= Len(WorkList) /\ AtLeague \in Nat
      BY <1>2, <2>1 DEF AtLeague, JobPlace
    <2>3. job.work[1] = WorkList[AtLeague + 1]
      BY <1>2 DEF JobPlace
    <2> QED BY <1>2, <2>1, <2>2, <2>3
  <1>4. WorkList[AtLeague + 1] \in PastSeasons \X Divisions
        /\ WorkList[AtLeague + 1][2] \in ToSet(SeasonFile[WorkList[AtLeague + 1][1]])
    BY <1>3, WorkIs
  <1> HIDE DEF AtLeague
  <1>5. Current[1] \in PastSeasons /\ Current[2] \in Divisions
        /\ Current[2] \in ToSet(SeasonFile[Current[1]])
    BY <1>3, <1>4
  <1> QED BY <1>3, <1>5, MatchesOnIs

\* A run that has gone through the last league of a season has all of them.
LEMMA SeasonEnds ==
  ASSUME job \in JobStates, JobPlace, job.work # <<>>, LastOfSeason
  PROVE  /\ IsPast(Current[1], AtLeague + 1)
         /\ \A i \in DOMAIN WorkList : i > AtLeague + 1 => WorkList[i][1] # Current[1]
  <1>1. AtLeague + 1 \in DOMAIN WorkList /\ AtLeague \in Nat /\ Current = WorkList[AtLeague + 1]
    BY CurrentIs
  <1>2. Len(WorkList) \in Nat /\ DOMAIN WorkList = 1..Len(WorkList)
    BY WorkIs
  <1>3. ASSUME NEW i \in DOMAIN WorkList, i > AtLeague + 1
        PROVE  WorkList[i][1] # Current[1]
    <2>1. Len(job.work) \in Nat /\ Len(job.work) = Len(WorkList) - AtLeague
      BY <1>2 DEF AtLeague, JobStates
    <2>2. /\ Len(job.work) # 1 /\ 2 \in 1..Len(job.work)
          /\ AtLeague + 2 \in DOMAIN WorkList /\ AtLeague + 2 <= i
      <3>1. PICK a, n, k : a = AtLeague /\ n = Len(WorkList) /\ k = Len(job.work)
        OBVIOUS
      <3>2. a \in Nat /\ n \in Nat /\ k = n - a /\ i \in 1..n /\ i > a + 1
        BY <1>1, <1>2, <1>3, <2>1, <3>1
      <3>3. k # 1 /\ 2 \in 1..k /\ a + 2 \in 1..n /\ a + 2 <= i
        BY ONLY <3>2
      <3> QED BY <1>2, <3>1, <3>3
    <2>3. WorkList[AtLeague + 2][1] # Current[1]
      BY <2>2 DEF LastOfSeason, JobPlace
    <2>4. WorkList[AtLeague + 1][1] <= WorkList[AtLeague + 2][1]
      BY <1>1, <2>2, WorkIs
    <2>5. WorkList[AtLeague + 2][1] <= WorkList[i][1]
      <3>1. CASE AtLeague + 2 = i
        <4>1. WorkList[i][1] \in Nat
          BY WorkIs, SeasonsAre
        <4> QED BY <3>1, <4>1
      <3>2. CASE AtLeague + 2 # i
        <4>1. AtLeague + 2 < i
          BY <2>2, <3>2, <1>1, <1>2
        <4> QED BY <2>2, <4>1, WorkIs
      <3> QED BY <3>1, <3>2
    <2>6. WorkList[AtLeague + 2][1] \in Nat /\ WorkList[i][1] \in Nat /\ Current[1] \in Nat
      BY <1>1, <2>2, WorkIs, SeasonsAre
    <2> QED BY <1>1, <2>3, <2>4, <2>5, <2>6
  <1>4. IsPast(Current[1], AtLeague + 1)
    BY <1>1, <1>2, <1>3 DEF IsPast
  <1> QED BY <1>3, <1>4

-----------------------------------------------------------------------------
(* Steps *)

\* Before the first run nothing is stored.
LEMMA BackfillStarts == BackfillInit => BackfillInv
  <1> SUFFICES ASSUME BackfillInit PROVE BackfillInv
    OBVIOUS
  <1>1. TablesOK
    BY DEF BackfillInit, TablesOK, PlacesInRun
  <1>2. OutcomeOK
    BY DEF BackfillInit, OutcomeOK, CleanRunRecordsAll, StoppedRunsAdvance
  <1>3. SeasonsWhole
    BY DEF BackfillInit, SeasonsWhole
  <1>4. PlacesFromWholeLeagues
    BY DEF BackfillInit, PlacesFromWholeLeagues
  <1>5. job = NoJob
    BY DEF BackfillInit
  <1> QED BY <1>1, <1>2, <1>3, <1>4, <1>5 DEF BackfillInv

\* Where the tables stay what they are.
LEMMA TablesSame ==
  ASSUME BackfillInv, UNCHANGED <<read, lists, played, table, places, missed>>
  PROVE  TablesOK' /\ SeasonsWhole' /\ PlacesFromWholeLeagues'
  <1>1. TablesOK'
    BY DEF BackfillInv, TablesOK
  <1>2. SeasonsWhole'
    BY DEF BackfillInv, SeasonsWhole
  <1>3. PlacesFromWholeLeagues'
    BY DEF BackfillInv, PlacesFromWholeLeagues
  <1> QED BY <1>1, <1>2, <1>3

\* A run that stops at its budget has something new.
LEMMA StopKept ==
  ASSUME BackfillInv, BudgetStop, MaxCalls > Len(WorkList) => job.gained \/ job.failed
  PROVE  BackfillInv'
  <1>1. TablesOK' /\ SeasonsWhole' /\ PlacesFromWholeLeagues'
    BY TablesSame DEF BudgetStop
  <1>2. OutcomeOK'
    BY DEF BudgetStop, OutcomeOK, CleanRunRecordsAll, StoppedRunsAdvance
  <1>3. job' = NoJob
    BY DEF BudgetStop
  <1> QED BY <1>1, <1>2, <1>3 DEF BackfillInv

\* Between the steps of a run nothing is said of how it ends.
LEMMA RunGoesOn ==
  ASSUME BackfillInv, job # NoJob \/ outcome' = "running",
         outcome' # outcome => outcome' = "running"
  PROVE  OutcomeOK'
  BY DEF BackfillInv, OutcomeOK, CleanRunRecordsAll, StoppedRunsAdvance

\* A run starts with the leagues that are past, in the order of the file.
LEMMA StartRunKept ==
  ASSUME BackfillInv, NEW script \in {"played", "places"}, NEW overwrite,
         StartRun(script, overwrite)
  PROVE  BackfillInv'
  <1>1. TablesOK' /\ SeasonsWhole' /\ PlacesFromWholeLeagues'
    BY TablesSame DEF StartRun
  <1>2. OutcomeOK'
    BY RunGoesOn DEF StartRun
  <1>3. PICK j : j = [script |-> script, work |-> WorkList, todo |-> <<>>, listed |-> FALSE,
                      calls |-> 0, got |-> {}, gained |-> FALSE, failed |-> FALSE,
                      misses |-> FALSE, rows |-> [l \in Divisions |-> "none"]]
    OBVIOUS
  <1>4. job' = j
    BY <1>3 DEF StartRun
  <1>5. /\ j.script = script /\ j.work = WorkList /\ j.todo = <<>> /\ ~j.listed /\ j.calls = 0
        /\ j.got = {} /\ j.rows = [l \in Divisions |-> "none"]
    BY <1>3
  <1>6. (job \in JobStates)'
    <2>1. 0 \in 0..MaxCalls
      BY BackfillAssumption
    <2>2. WorkList \in Seq(PastSeasons \X Divisions)
      BY WorkIs
    <2>3. <<>> \in Seq(MatchesOn(Divisions))
      OBVIOUS
    <2>4. j \in JobStates
      BY <1>3, <2>1, <2>2, <2>3 DEF JobStates, PlacesInRun
    <2> QED BY <1>4, <2>4
  <1>7. AtLeague' = 0
    <2>1. AtLeague' = Len(WorkList) - Len(WorkList)
      BY <1>4, <1>5 DEF AtLeague
    <2> QED BY <2>1, WorkIs
  <1>8. JobPlace'
    <2>1. \A i \in 1..Len(WorkList) : 0 + i = i
      BY WorkIs
    <2> QED BY <1>4, <1>5, <1>7, <2>1, WorkIs DEF JobPlace
  <1>9. JobCalls'
    BY <1>4, <1>5, <1>7 DEF JobCalls
  <1>10. JobPlaces'
    BY <1>4, <1>5 DEF JobPlaces
  <1>11. JobSeason'
    BY <1>4, <1>5, <1>7 DEF JobSeason
  <1>12. JobRecorded'
    <2>1. ASSUME NEW s \in PastSeasons, IsPast(s, 0)
          PROVE  played[s] = EveryoneWhoPlayed(s)
      <3>1. \A i \in DOMAIN WorkList : WorkList[i][1] # s
        BY <2>1, WorkIs DEF IsPast
      <3>2. ToSet(SeasonFile[s]) = {}
        <4>1. SUFFICES ASSUME NEW l \in ToSet(SeasonFile[s]) PROVE FALSE
          OBVIOUS
        <4>2. PICK i \in DOMAIN WorkList : WorkList[i] = <<s, l>>
          BY WorkIs
        <4> QED BY <3>1, <4>2
      <3>3. EveryoneWhoPlayed(s) = {}
        BY <3>2 DEF EveryoneWhoPlayed, AccountsIn, MatchesOn
      <3> QED BY <3>3 DEF BackfillInv, TablesOK
    <2>2. played' = played
      BY DEF StartRun
    <2> QED BY <1>7, <2>1, <2>2 DEF JobRecorded
  <1>13. JobOK'
    BY <1>6, <1>8, <1>9, <1>10, <1>11, <1>12 DEF JobOK
  <1> QED BY <1>1, <1>2, <1>13 DEF BackfillInv

\* Listing the matches of a league keeps the invariant.
LEMMA ListKept ==
  ASSUME BackfillInv, NEW answered \in BOOLEAN, ListLeagueMatches(answered)
  PROVE  BackfillInv'
  <1>1. JobOK /\ job # NoJob /\ job.work # <<>> /\ ~job.listed
    BY DEF ListLeagueMatches, BackfillInv
  <1>2. job \in JobStates /\ JobPlace
    BY <1>1 DEF JobOK
  <1>3. /\ AtLeague + 1 \in DOMAIN WorkList /\ AtLeague \in Nat
        /\ Current[1] \in PastSeasons /\ Current[2] \in Divisions
        /\ MatchesIn(Current[2]) \subseteq MatchesOn(ToSet(SeasonFile[Current[1]]))
        /\ MatchesIn(Current[2]) \subseteq MatchesOn(Divisions)
    BY <1>1, <1>2, CurrentIs
  <1>4. AtLeague + 1 <= Len(WorkList) /\ Len(WorkList) \in Nat
    BY <1>3, WorkIs
  <1>5. CASE NeedsList /\ ~CanCall
    <2>1. MaxCalls > Len(WorkList) => job.gained \/ job.failed
      <3>1. job.calls \in Nat /\ ~(job.calls < MaxCalls) /\ MaxCalls \in Nat
        BY <1>2, <1>5, BackfillAssumption DEF JobStates, CanCall
      <3>2. ~job.gained /\ ~job.failed => job.calls <= AtLeague + 0
        BY <1>1 DEF JobOK, JobCalls
      <3> QED BY <1>3, <1>4, <3>1, <3>2
    <2> QED BY <1>5, <2>1, StopKept DEF ListLeagueMatches
  <1>6. CASE ~(NeedsList /\ ~CanCall)
    <2> DEFINE whole == answered \/ ~NeedsList
               todo == IF whole THEN MatchesOfLeague[Current[2]] ELSE <<>>
    <2>1. /\ job' = [job EXCEPT !.listed = TRUE,
                       !.calls = IF NeedsList THEN @ + 1 ELSE @,
                       !.todo = todo,
                       !.gained = @ \/ (answered /\ NeedsList /\ job.script = "places"),
                       !.failed = @ \/ (NeedsList /\ ~answered),
                       !.misses = @ \/ (NeedsList /\ ~answered)]
          /\ lists' = IF answered /\ job.script = "places" THEN lists \cup {Current[2]} ELSE lists
          /\ missed' = IF NeedsList /\ ~answered THEN missed \cup {Current[1]} ELSE missed
          /\ UNCHANGED <<read, played, table, places, outcome, runs>>
      BY <1>6 DEF ListLeagueMatches
    <2>2. todo \in Seq(MatchesOn(Divisions)) /\ ToSet(todo) \subseteq MatchesIn(Current[2])
      <3>1. DOMAIN SeasonFile = 1..Len(SeasonFile) /\ Current[2] \in DOMAIN MatchesOfLeague
        BY <1>3, BackfillAssumption DEF Divisions, PastSeasons, ToSet
      <3>2. PICK q : q = MatchesOfLeague[Current[2]]
        OBVIOUS
      <3>3. q \in Seq(DOMAIN AppearedIn) /\ ToSet(q) = MatchesIn(Current[2])
        BY <3>1, <3>2, BackfillAssumption DEF MatchesIn
      <3>4. \A i \in 1..Len(q) : q[i] \in MatchesOn(Divisions)
        BY <1>3, <3>3 DEF ToSet
      <3>5. q \in Seq(MatchesOn(Divisions))
        BY <3>3, <3>4
      <3>6. ToSet(<<>>) = {} /\ <<>> \in Seq(MatchesOn(Divisions))
        BY DEF ToSet
      <3> QED BY <3>2, <3>3, <3>5, <3>6
    <2> HIDE DEF todo
    <2> DEFINE calls == IF NeedsList THEN job.calls + 1 ELSE job.calls
               gained == job.gained \/ (answered /\ NeedsList /\ job.script = "places")
               failed == job.failed \/ (NeedsList /\ ~answered)
               misses == job.misses \/ (NeedsList /\ ~answered)
    <2>3. /\ calls = IF NeedsList THEN job.calls + 1 ELSE job.calls
          /\ gained <=> (job.gained \/ (answered /\ NeedsList /\ job.script = "places"))
          /\ failed <=> (job.failed \/ (NeedsList /\ ~answered))
          /\ misses <=> (job.misses \/ (NeedsList /\ ~answered))
          /\ gained \in BOOLEAN /\ failed \in BOOLEAN /\ misses \in BOOLEAN
          /\ job' = [job EXCEPT !.listed = TRUE, !.calls = calls, !.todo = todo,
                       !.gained = gained, !.failed = failed, !.misses = misses]
      <3>1. gained \in BOOLEAN /\ failed \in BOOLEAN /\ misses \in BOOLEAN
        BY Zenon
      <3>2. job' = [job EXCEPT !.listed = TRUE, !.calls = calls, !.todo = todo,
                      !.gained = gained, !.failed = failed, !.misses = misses]
        BY <1>2, <2>1 DEF JobStates
      <3> QED BY <3>1, <3>2
    <2> HIDE DEF calls, gained, failed, misses
    <2>4. calls \in 0..MaxCalls /\ calls <= job.calls + 1
      BY <1>2, <1>6, <2>3, BackfillAssumption DEF JobStates, CanCall
    <2>5. job' \in JobStates
      BY ZenonT(40), <1>2, <2>2, <2>3, <2>4 DEF JobStates
    <2>6. /\ job'.script = job.script /\ job'.work = job.work /\ job'.todo = todo /\ job'.listed
          /\ job'.calls = calls /\ job'.got = job.got /\ (job'.gained <=> gained)
          /\ (job'.failed <=> failed) /\ (job'.misses <=> misses) /\ job'.rows = job.rows
      BY <1>2, <2>3 DEF JobStates
    <2>7. AtLeague' = AtLeague /\ Current' = Current
      BY <2>6 DEF AtLeague, Current
    <2>8. JobPlace'
      BY <1>1, <1>2, <2>2, <2>6, <2>7 DEF JobPlace
    <2>9. JobCalls'
      <3>1. ~job.gained /\ ~job.failed => job.calls <= AtLeague + 0
        BY <1>1 DEF JobOK, JobCalls
      <3>2. job.calls \in Nat
        BY <1>2 DEF JobStates
      <3>3. ~gained /\ ~failed => calls <= AtLeague + 1
        BY <1>3, <2>3, <2>4, <3>1, <3>2
      <3> QED BY <2>6, <2>7, <3>3 DEF JobCalls
    <2>10. whole => ToSet(todo) = MatchesIn(Current[2])
      BY DEF todo, MatchesIn
    <2>11. (~misses => whole) /\ (~failed => whole)
      BY <2>3
    <2>12. JobPlaces'
      <3>1. read' = read /\ (~misses => MatchesIn(Current[2]) \subseteq ToSet(todo))
        BY <2>1, <2>10, <2>11
      <3> QED BY <1>1, <2>6, <2>7, <3>1 DEF JobOK, JobPlaces
    <2>13. JobSeason'
      <3>1. ~failed \/ Current[1] \notin missed' =>
              whole /\ (~job.failed \/ Current[1] \notin missed)
        BY <2>1, <2>3
      <3> QED BY <1>1, <2>6, <2>7, <2>10, <3>1 DEF JobOK, JobSeason
    <2>14. JobRecorded'
      BY <1>1, <2>1, <2>3, <2>6, <2>7 DEF JobOK, JobRecorded
    <2>15. JobOK'
      BY <2>5, <2>8, <2>9, <2>12, <2>13, <2>14 DEF JobOK
    <2>16. TablesOK' /\ SeasonsWhole' /\ PlacesFromWholeLeagues'
      <3>1. TablesOK'
        BY <1>3, <2>1 DEF BackfillInv, TablesOK
      <3>2. SeasonsWhole'
        BY <2>1 DEF BackfillInv, SeasonsWhole
      <3>3. PlacesFromWholeLeagues'
        BY <2>1 DEF BackfillInv, PlacesFromWholeLeagues
      <3> QED BY <3>1, <3>2, <3>3
    <2>17. OutcomeOK'
      BY <1>1, <2>1, RunGoesOn
    <2> QED BY <2>15, <2>16, <2>17 DEF BackfillInv
  <1> QED BY <1>5, <1>6

\* The first of a list and the rest.
LEMMA HeadTail ==
  ASSUME NEW A, NEW q \in Seq(A), q # <<>>
  PROVE  /\ Head(q) \in A /\ Tail(q) \in Seq(A) /\ ToSet(q) = {Head(q)} \cup ToSet(Tail(q))
         /\ Len(Tail(q)) = Len(q) - 1 /\ \A i \in 1..Len(Tail(q)) : Tail(q)[i] = q[i + 1]
  <1>1. /\ Head(q) \in A /\ Tail(q) \in Seq(A) /\ Len(q) \in Nat /\ Len(q) >= 1
        /\ Len(Tail(q)) = Len(q) - 1 /\ \A i \in 1..Len(Tail(q)) : Tail(q)[i] = q[i + 1]
    OBVIOUS
  <1>2. Head(q) = q[1] /\ DOMAIN q = 1..Len(q) /\ DOMAIN Tail(q) = 1..Len(Tail(q))
    BY <1>1
  <1>3. ToSet(Tail(q)) \subseteq ToSet(q) /\ Head(q) \in ToSet(q)
    BY <1>1, <1>2 DEF ToSet
  <1>4. ASSUME NEW i \in 1..Len(q)
        PROVE  q[i] = Head(q) \/ q[i] \in ToSet(Tail(q))
    <2>1. CASE i = 1
      BY <2>1, <1>2
    <2>2. CASE i # 1
      <3>1. i - 1 \in 1..Len(Tail(q)) /\ (i - 1) + 1 = i
        BY <1>1, <2>2
      <3>2. Tail(q)[i - 1] = q[i]
        BY <1>1, <3>1
      <3> QED BY <1>2, <3>1, <3>2 DEF ToSet
    <2> QED BY <2>1, <2>2
  <1>5. ToSet(q) \subseteq {Head(q)} \cup ToSet(Tail(q))
    BY <1>2, <1>4 DEF ToSet
  <1> QED BY <1>1, <1>3, <1>5

\* The next match is gone on from: what was got of the season, read into the cache and
\* counted stays, and a match that was not got or not cached is one the run missed.
LEMMA MatchGone ==
  ASSUME BackfillInv, job # NoJob, job.listed, job.todo # <<>>,
         NEW calls \in 0..MaxCalls, NEW got, NEW gained \in BOOLEAN, NEW failed \in BOOLEAN,
         NEW misses \in BOOLEAN,
         job' = [job EXCEPT !.todo = Tail(@), !.calls = calls, !.got = got, !.gained = gained,
                   !.failed = failed, !.misses = misses],
         job.got \subseteq got, got \subseteq job.got \cup {Head(job.todo)},
         ~gained /\ ~failed => calls = job.calls /\ ~job.gained /\ ~job.failed,
         ~failed => ~job.failed,
         read["places"] \subseteq read'["places"], played' = played,
         ~failed \/ Current[1] \notin missed' =>
           Head(job.todo) \in got /\ (~job.failed \/ Current[1] \notin missed),
         ~misses => ~job.misses /\ (job.script = "places" => Head(job.todo) \in read'["places"])
  PROVE  JobOK'
  <1>1. JobOK
    BY DEF BackfillInv
  <1>2. job \in JobStates /\ JobPlace /\ job.work # <<>> /\ job.todo \in Seq(MatchesOn(Divisions))
    BY <1>1 DEF JobOK, JobPlace, JobStates
  <1>3. /\ Current[1] \in PastSeasons /\ Current[2] \in Divisions
        /\ MatchesIn(Current[2]) \subseteq MatchesOn(ToSet(SeasonFile[Current[1]]))
        /\ MatchesIn(Current[2]) \subseteq MatchesOn(Divisions)
    BY <1>2, CurrentIs
  <1>4. PICK m, rest : m = Head(job.todo) /\ rest = Tail(job.todo)
    OBVIOUS
  <1>5. m \in MatchesOn(Divisions) /\ rest \in Seq(MatchesOn(Divisions))
        /\ ToSet(job.todo) = {m} \cup ToSet(rest)
    BY <1>2, <1>4, HeadTail
  <1>6. got \in SUBSET MatchesOn(Divisions)
    BY <1>2, <1>4, <1>5 DEF JobStates
  <1>7. job' = [job EXCEPT !.todo = rest, !.calls = calls, !.got = got, !.gained = gained,
                  !.failed = failed, !.misses = misses]
    BY <1>2, <1>4 DEF JobStates
  <1>8. job' \in JobStates
    BY ZenonT(40), <1>2, <1>5, <1>6, <1>7 DEF JobStates
  <1>9. /\ job'.script = job.script /\ job'.work = job.work /\ job'.todo = rest
        /\ job'.listed = job.listed /\ job'.calls = calls /\ job'.got = got
        /\ job'.gained = gained /\ job'.failed = failed /\ job'.misses = misses
        /\ job'.rows = job.rows
    BY <1>2, <1>7 DEF JobStates
  <1>10. AtLeague' = AtLeague /\ Current' = Current
    BY <1>9 DEF AtLeague, Current
  <1>11. m \in MatchesIn(Current[2])
    BY <1>1, <1>5 DEF JobOK, JobPlace
  <1>12. JobPlace'
    BY ZenonT(30), <1>2, <1>5, <1>9, <1>10 DEF JobPlace
  <1>13. JobCalls'
    BY <1>1, <1>9, <1>10 DEF JobOK, JobCalls
  <1>14. JobPlaces'
    BY <1>1, <1>4, <1>5, <1>9, <1>10 DEF JobOK, JobPlaces
  <1>15. JobSeason'
    <2>1. SUFFICES ASSUME job.script = "played"
                   PROVE  /\ got \subseteq MatchesOn(ToSet(SeasonFile[Current[1]]))
                          /\ ~failed \/ Current[1] \notin missed' =>
                               /\ \A i \in 1..AtLeague : WorkList[i][1] = Current[1] =>
                                    MatchesIn(WorkList[i][2]) \subseteq got
                               /\ MatchesIn(Current[2]) \subseteq got \cup ToSet(rest)
      BY <1>9, <1>10 DEF JobSeason
    <2>2. job.got \subseteq MatchesOn(ToSet(SeasonFile[Current[1]]))
      BY <1>1, <1>2, <2>1 DEF JobOK, JobSeason
    <2>3. ~failed \/ Current[1] \notin missed' =>
            /\ m \in got
            /\ \A i \in 1..AtLeague : WorkList[i][1] = Current[1] =>
                 MatchesIn(WorkList[i][2]) \subseteq job.got
            /\ MatchesIn(Current[2]) \subseteq job.got \cup ToSet(job.todo)
      BY <1>1, <1>2, <1>4, <2>1 DEF JobOK, JobSeason
    <2> QED BY <1>3, <1>4, <1>5, <1>11, <2>2, <2>3
  <1>16. JobRecorded'
    BY <1>1, <1>9, <1>10 DEF JobOK, JobRecorded
  <1> QED BY <1>8, <1>12, <1>13, <1>14, <1>15, <1>16 DEF JobOK

\* Reading a match, from the cache or with a call, keeps the invariant.
LEMMA ReadKept ==
  ASSUME BackfillInv, NEW answered \in BOOLEAN, ReadMatch(answered)
  PROVE  BackfillInv'
  <1>1. JobOK /\ job # NoJob /\ job.listed /\ job.todo # <<>>
    BY DEF ReadMatch, BackfillInv
  <1>2. job \in JobStates /\ JobPlace /\ job.work # <<>> /\ job.todo \in Seq(MatchesOn(Divisions))
    BY <1>1 DEF JobOK, JobPlace, JobStates
  <1>3. /\ AtLeague + 1 \in DOMAIN WorkList /\ AtLeague \in Nat /\ Current[1] \in PastSeasons
    BY <1>2, CurrentIs
  <1>4. PICK m : m = Head(job.todo)
    OBVIOUS
  <1>5. m \in MatchesOn(Divisions)
    BY ONLY <1>1, <1>2, <1>4, HeadTail
  <1>6. /\ job.calls \in 0..MaxCalls /\ job.script \in {"played", "places"}
        /\ job.gained \in BOOLEAN /\ job.failed \in BOOLEAN /\ job.misses \in BOOLEAN
    BY <1>2 DEF JobStates
  <1>7. CASE Cached(m)
    <2>1. /\ job' = [job EXCEPT !.todo = Tail(@), !.got = @ \cup {m}]
          /\ UNCHANGED <<read, lists, played, table, places, outcome, missed, runs>>
      BY <1>4, <1>7 DEF ReadMatch
    <2>2. job' = [job EXCEPT !.todo = Tail(@), !.calls = job.calls, !.got = job.got \cup {m},
                    !.gained = job.gained, !.failed = job.failed, !.misses = job.misses]
      BY <1>2, <2>1 DEF JobStates
    <2>3. job.script = "places" => m \in read'["places"]
      BY <1>7, <2>1 DEF Cached
    <2>4. JobOK'
      <3>1. PICK got : got = job.got \cup {m}
        OBVIOUS
      <3>2. job' = [job EXCEPT !.todo = Tail(@), !.calls = job.calls, !.got = got,
                      !.gained = job.gained, !.failed = job.failed, !.misses = job.misses]
        BY <2>2, <3>1
      <3>3. job.got \subseteq got /\ got \subseteq job.got \cup {Head(job.todo)}
            /\ Head(job.todo) \in got
        BY <1>4, <3>1
      <3> QED BY <1>1, <1>4, <1>6, <2>1, <2>3, <3>2, <3>3, MatchGone
    <2>5. TablesOK' /\ SeasonsWhole' /\ PlacesFromWholeLeagues'
      BY <2>1, TablesSame
    <2>6. OutcomeOK'
      BY <1>1, <2>1, RunGoesOn
    <2> QED BY <2>4, <2>5, <2>6 DEF BackfillInv
  <1>8. CASE ~Cached(m) /\ ~CanCall
    <2>1. MaxCalls > Len(WorkList) => job.gained \/ job.failed
      <3>1. job.calls \in Nat /\ ~(job.calls < MaxCalls) /\ MaxCalls \in Nat
        BY <1>6, <1>8, BackfillAssumption DEF CanCall
      <3>2. ~job.gained /\ ~job.failed => job.calls <= AtLeague + 1
        BY <1>1 DEF JobOK, JobCalls
      <3>3. AtLeague + 1 <= Len(WorkList) /\ Len(WorkList) \in Nat
        BY <1>3, WorkIs
      <3> QED BY <1>3, <3>1, <3>2, <3>3
    <2>2. BudgetStop
      BY <1>4, <1>8 DEF ReadMatch
    <2> QED BY <2>1, <2>2, StopKept
  <1>9. CASE ~Cached(m) /\ CanCall
    <2> DEFINE got == IF answered THEN job.got \cup {m} ELSE job.got
               gained == job.gained \/ (m \notin read[job.script] /\ answered)
               failed == job.failed \/ ~answered
               misses == job.misses \/ ~answered
    <2>1. /\ job' = [job EXCEPT !.todo = Tail(@), !.calls = @ + 1,
                         !.got = IF answered THEN @ \cup {m} ELSE @,
                         !.gained = @ \/ (m \notin read[job.script] /\ answered),
                         !.failed = @ \/ ~answered, !.misses = @ \/ ~answered]
          /\ read' = IF answered THEN [read EXCEPT ![job.script] = @ \cup {m}] ELSE read
          /\ missed' = IF answered THEN missed ELSE missed \cup {Current[1]}
          /\ UNCHANGED <<lists, played, table, places, outcome, runs>>
      BY <1>4, <1>9 DEF ReadMatch
    <2>2. gained \in BOOLEAN /\ failed \in BOOLEAN /\ misses \in BOOLEAN
      BY Zenon
    <2>3. PICK calls : calls = job.calls + 1
      OBVIOUS
    <2>4. job' = [job EXCEPT !.todo = Tail(@), !.calls = calls, !.got = got,
                    !.gained = gained, !.failed = failed, !.misses = misses]
      BY <1>2, <2>1, <2>3 DEF JobStates
    <2>5. calls \in 0..MaxCalls
      BY <1>6, <1>9, <2>3, BackfillAssumption DEF CanCall
    <2>6. /\ job.got \subseteq got /\ got \subseteq job.got \cup {m}
          /\ (gained \/ failed) /\ (~failed => ~job.failed)
      BY <1>9 DEF Cached
    <2>7. /\ read' \in [{"played", "places"} -> SUBSET MatchesOn(Divisions)]
          /\ read["places"] \subseteq read'["places"]
          /\ answered /\ job.script = "places" => m \in read'["places"]
      <3>1. read \in [{"played", "places"} -> SUBSET MatchesOn(Divisions)]
        BY DEF BackfillInv, TablesOK
      <3> HIDE DEF got, gained, failed, misses
      <3> QED BY <1>5, <1>6, <2>1, <3>1
    <2>8. ~failed \/ Current[1] \notin missed' =>
            m \in got /\ (~job.failed \/ Current[1] \notin missed)
      BY <2>1
    <2>9. ~misses => ~job.misses /\ (job.script = "places" => m \in read'["places"])
      BY <2>7
    <2> HIDE DEF got, gained, failed, misses
    <2>10. JobOK'
      BY ZenonT(40), <1>1, <1>4, <2>1, <2>2, <2>4, <2>5, <2>6, <2>7, <2>8, <2>9, MatchGone
    <2>11. TablesOK'
      BY <1>3, <2>1, <2>7 DEF BackfillInv, TablesOK
    <2>12. SeasonsWhole'
      BY <2>1 DEF BackfillInv, SeasonsWhole
    <2>13. PlacesFromWholeLeagues'
      BY <2>1, <2>7 DEF BackfillInv, PlacesFromWholeLeagues
    <2>14. OutcomeOK'
      BY <1>1, <2>1, RunGoesOn
    <2> QED BY <2>10, <2>11, <2>12, <2>13, <2>14 DEF BackfillInv
  <1> QED BY <1>7, <1>8, <1>9

\* A run that ends the last league of a season it missed nothing of has got it all.
LEMMA SeasonGot ==
  ASSUME JobOK, job.script = "played", job.work # <<>>, job.listed, job.todo = <<>>,
         LastOfSeason, ~job.failed \/ Current[1] \notin missed
  PROVE  AccountsIn(job.got) = EveryoneWhoPlayed(Current[1])
  <1>1. job \in JobStates /\ JobPlace
    BY DEF JobOK
  <1>2. AtLeague + 1 \in DOMAIN WorkList /\ AtLeague \in Nat /\ Current = WorkList[AtLeague + 1]
        /\ Current[1] \in PastSeasons /\ Current[2] \in ToSet(SeasonFile[Current[1]])
    BY <1>1, CurrentIs
  <1>3. /\ job.got \subseteq MatchesOn(ToSet(SeasonFile[Current[1]]))
        /\ \A i \in 1..AtLeague : WorkList[i][1] = Current[1] =>
             MatchesIn(WorkList[i][2]) \subseteq job.got
        /\ MatchesIn(Current[2]) \subseteq job.got \cup ToSet(job.todo)
    BY DEF JobOK, JobSeason
  <1>4. ToSet(job.todo) = {}
    BY DEF ToSet
  <1>5. ASSUME NEW l \in ToSet(SeasonFile[Current[1]])
        PROVE  MatchesIn(l) \subseteq job.got
    <2>1. PICK i \in DOMAIN WorkList : WorkList[i] = <<Current[1], l>>
      BY <1>2, WorkIs
    <2>2. ~(i > AtLeague + 1)
      BY <1>1, <2>1, SeasonEnds
    <2>3. i \in 1..AtLeague \/ i = AtLeague + 1
      BY <1>2, <2>1, <2>2, WorkIs
    <2> QED BY <1>2, <1>3, <1>4, <2>1, <2>3
  <1>6. job.got = MatchesOn(ToSet(SeasonFile[Current[1]]))
    BY <1>3, <1>5 DEF MatchesOn, MatchesIn
  <1> QED BY <1>6 DEF EveryoneWhoPlayed

\* A season with a league the run has not come to is not past.
LEMMA NotYetPast ==
  ASSUME JobOK, job.work # <<>>, NEW s \in PastSeasons, IsPast(s, AtLeague + 1)
  PROVE  IsPast(s, AtLeague) \/ (s = Current[1] /\ LastOfSeason)
  <1>1. job \in JobStates /\ JobPlace
    BY DEF JobOK
  <1>2. AtLeague + 1 \in DOMAIN WorkList /\ AtLeague \in Nat /\ Current = WorkList[AtLeague + 1]
    BY <1>1, CurrentIs
  <1>3. CASE WorkList[AtLeague + 1][1] # s
    <2>1. \A i \in DOMAIN WorkList : WorkList[i][1] = s => i <= AtLeague + 1 /\ i # AtLeague + 1
      BY <1>3 DEF IsPast
    <2>2. DOMAIN WorkList = 1..Len(WorkList) /\ Len(WorkList) \in Nat
      BY WorkIs
    <2> QED BY <1>2, <2>1, <2>2 DEF IsPast
  <1>4. CASE WorkList[AtLeague + 1][1] = s /\ ~LastOfSeason
    <2>1. /\ Len(job.work) \in Nat /\ Len(job.work) # 1 /\ Len(job.work) # 0
          /\ job.work[2][1] = Current[1] /\ 2 \in 1..Len(job.work)
      <3>1. job.work \in Seq(PastSeasons \X Divisions)
        BY <1>1 DEF JobStates
      <3>2. Len(job.work) \in Nat /\ Len(job.work) # 0
        BY <3>1
      <3>3. Len(job.work) # 1 /\ job.work[2][1] = Current[1]
        BY <1>4 DEF LastOfSeason
      <3>4. PICK k : k = Len(job.work)
        OBVIOUS
      <3>5. k \in Nat /\ k # 0 /\ k # 1
        BY <3>2, <3>3, <3>4
      <3>6. 2 \in 1..k
        BY ONLY <3>5
      <3>7. 2 \in 1..Len(job.work)
        BY ONLY <3>4, <3>6
      <3> QED BY <3>2, <3>3, <3>7
    <2>2. job.work[2] = WorkList[AtLeague + 2]
      BY <1>1, <2>1 DEF JobPlace
    <2>3. AtLeague + 2 \in DOMAIN WorkList
      <3>1. Len(job.work) = Len(WorkList) - AtLeague /\ Len(WorkList) \in Nat
            /\ DOMAIN WorkList = 1..Len(WorkList)
        BY <1>1, <1>2, <2>1, WorkIs DEF AtLeague
      <3>2. PICK a, n, k : a = AtLeague /\ n = Len(WorkList) /\ k = Len(job.work)
        OBVIOUS
      <3>3. a \in Nat /\ n \in Nat /\ k \in Nat /\ k = n - a /\ 2 \in 1..k
        BY <1>2, <2>1, <3>1, <3>2
      <3>4. a + 2 \in 1..n
        BY ONLY <3>3
      <3> QED BY <3>1, <3>2, <3>4
    <2>4. AtLeague + 2 <= AtLeague + 1
      BY <1>2, <1>4, <2>1, <2>2, <2>3 DEF IsPast
    <2> QED BY <1>2, <2>4
  <1> QED BY <1>2, <1>3, <1>4

\* A run goes on to the next league.
LEMMA NextLeague ==
  ASSUME JobOK, job.work # <<>>, job.listed, job' \in JobStates, job'.work = Tail(job.work),
         ~job'.listed, job'.calls = job.calls, job'.gained = job.gained,
         job'.failed = job.failed
  PROVE  AtLeague' = AtLeague + 1 /\ JobPlace' /\ JobCalls'
         /\ (job'.work # <<>> =>
               /\ Current' = WorkList[AtLeague + 2] /\ AtLeague + 2 \in DOMAIN WorkList
               /\ Current'[1] = Current[1] <=> ~LastOfSeason)
  <1>1. job \in JobStates /\ JobPlace
    BY DEF JobOK
  <1>2. AtLeague + 1 \in DOMAIN WorkList /\ AtLeague \in Nat /\ Current = WorkList[AtLeague + 1]
    BY <1>1, CurrentIs
  <1>3. DOMAIN WorkList = 1..Len(WorkList) /\ Len(WorkList) \in Nat
    BY WorkIs
  <1>4. PICK w, v : w = job.work /\ v = job'.work
    OBVIOUS
  <1>5. w \in Seq(PastSeasons \X Divisions) /\ w # <<>> /\ v = Tail(w)
    BY <1>1, <1>4 DEF JobStates
  <1>6. /\ Len(w) \in Nat /\ Len(w) >= 1 /\ Len(v) = Len(w) - 1
        /\ \A i \in 1..Len(v) : v[i] = w[i + 1]
    BY <1>5, HeadTail
  <1>7. AtLeague = Len(WorkList) - Len(w) /\ AtLeague' = Len(WorkList) - Len(v)
    BY <1>4 DEF AtLeague
  <1>8. AtLeague' = AtLeague + 1
    BY <1>3, <1>6, <1>7
  <1>9. \A i \in 1..Len(w) : w[i] = WorkList[AtLeague + i]
    BY <1>1, <1>4 DEF JobPlace
  <1>10. \A i \in 1..Len(v) : v[i] = WorkList[AtLeague' + i]
    <2>1. \A i \in 1..Len(v) : i + 1 \in 1..Len(w) /\ AtLeague + (i + 1) = (AtLeague + 1) + i
      BY <1>2, <1>6
    <2> QED BY <1>6, <1>8, <1>9, <2>1
  <1>11. AtLeague' \in 0..Len(WorkList)
    BY <1>2, <1>3, <1>8
  <1>12. JobPlace'
    BY <1>4, <1>10, <1>11 DEF JobPlace
  <1>13. JobCalls'
    <2>1. ~job.gained /\ ~job.failed => job.calls <= AtLeague + 1
      BY DEF JobOK, JobCalls
    <2>2. job.calls \in Nat
      BY <1>1 DEF JobStates
    <2> QED BY <1>2, <1>8, <2>1, <2>2 DEF JobCalls
  <1>14. ASSUME v # <<>>
         PROVE  /\ Current' = WorkList[AtLeague + 2] /\ AtLeague + 2 \in DOMAIN WorkList
                /\ Current'[1] = Current[1] <=> ~LastOfSeason
    <2>1. Len(v) >= 1 /\ v[1] = w[2] /\ Head(v) = v[1] /\ Len(w) # 1
      BY <1>5, <1>6, <1>14
    <2>2. Current' = w[2]
      BY <1>4, <2>1 DEF Current
    <2>3. AtLeague + 2 \in DOMAIN WorkList /\ w[2] = WorkList[AtLeague + 2]
      BY <1>2, <1>3, <1>6, <1>7, <1>9, <2>1
    <2>4. LastOfSeason <=> w[2][1] # Current[1]
      BY <1>4, <2>1 DEF LastOfSeason
    <2> QED BY <2>2, <2>3, <2>4
  <1> QED BY <1>4, <1>8, <1>12, <1>13, <1>14

\* Storing who played keeps the invariant.
LEMMA EndPlayedKept ==
  ASSUME BackfillInv, EndPlayedLeague
  PROVE  BackfillInv'
  <1>1. /\ job # NoJob /\ job.script = "played" /\ job.listed /\ job.todo = <<>>
        /\ job' = [job EXCEPT !.work = Tail(@), !.listed = FALSE,
                     !.got = IF LastOfSeason THEN {} ELSE @]
        /\ played' = IF LastOfSeason
                     THEN [played EXCEPT ![Current[1]] = @ \cup AccountsIn(job.got)] ELSE played
        /\ UNCHANGED <<read, lists, table, places, outcome, missed, runs>>
    BY DEF EndPlayedLeague, Script
  <1>2. JobOK
    BY <1>1 DEF BackfillInv
  <1>3. job \in JobStates /\ JobPlace /\ job.work # <<>>
    BY <1>1, <1>2 DEF JobOK, JobPlace
  <1>4. PICK w, got : w = Tail(job.work) /\ got = IF LastOfSeason THEN {} ELSE job.got
    OBVIOUS
  <1>5. w \in Seq(PastSeasons \X Divisions) /\ got \in SUBSET MatchesOn(Divisions)
    <2>1. job.work \in Seq(PastSeasons \X Divisions)
      BY <1>3 DEF JobStates
    <2> QED BY <1>3, <1>4, <2>1, HeadTail DEF JobStates
  <1>6. job' = [job EXCEPT !.work = w, !.listed = FALSE, !.got = got]
    BY <1>1, <1>3, <1>4 DEF JobStates
  <1>7. job' \in JobStates
    BY <1>3, <1>5, <1>6 DEF JobStates
  <1>8. /\ job'.script = "played" /\ job'.work = w /\ job'.todo = <<>>
        /\ ~job'.listed /\ job'.calls = job.calls /\ job'.got = got
        /\ job'.gained = job.gained /\ job'.failed = job.failed /\ job'.rows = job.rows
    BY <1>1, <1>3, <1>6 DEF JobStates
  <1>9. /\ AtLeague' = AtLeague + 1 /\ JobPlace' /\ JobCalls'
        /\ (w # <<>> =>
              /\ Current' = WorkList[AtLeague + 2] /\ AtLeague + 2 \in DOMAIN WorkList
              /\ Current'[1] = Current[1] <=> ~LastOfSeason)
    BY <1>2, <1>3, <1>1, <1>4, <1>7, <1>8, NextLeague
  <1>10. /\ AtLeague + 1 \in DOMAIN WorkList /\ AtLeague \in Nat /\ Current = WorkList[AtLeague + 1]
         /\ Current[1] \in PastSeasons
    BY <1>3, CurrentIs
  <1>11. JobPlaces'
    <2>1. read' = read
      BY <1>1
    <2> QED BY <1>2, <1>8, <2>1 DEF JobOK, JobPlaces
  <1>12. JobSeason'
    <2>1. SUFFICES ASSUME w # <<>>
                   PROVE  /\ got \subseteq MatchesOn(ToSet(SeasonFile[Current'[1]]))
                          /\ ~job.failed \/ Current'[1] \notin missed =>
                               \A i \in 1..(AtLeague + 1) : WorkList[i][1] = Current'[1] =>
                                 MatchesIn(WorkList[i][2]) \subseteq got
      <3>1. missed' = missed
        BY <1>1
      <3> QED BY <1>8, <1>9, <3>1 DEF JobSeason
    <2>2. CASE LastOfSeason
      <3>1. got = {} /\ Current'[1] # Current[1] /\ Current' = WorkList[AtLeague + 2]
            /\ AtLeague + 2 \in DOMAIN WorkList
        BY <1>4, <1>9, <2>1, <2>2
      <3>2. ASSUME NEW i \in 1..(AtLeague + 1), WorkList[i][1] = Current'[1]
            PROVE  FALSE
        <4>1. /\ i \in DOMAIN WorkList /\ (i = AtLeague + 1 \/ i < AtLeague + 1)
              /\ AtLeague + 1 < AtLeague + 2
              /\ DOMAIN WorkList \subseteq Nat
          BY <1>10, WorkIs
        <4>2. /\ WorkList[i][1] \in Nat /\ WorkList[AtLeague + 1][1] \in Nat
              /\ WorkList[AtLeague + 2][1] \in Nat
          BY <1>10, <3>1, <4>1, WorkIs, SeasonsAre
        <4>3. WorkList[i][1] <= WorkList[AtLeague + 1][1]
          BY <1>10, <4>1, <4>2, WorkIs
        <4>4. WorkList[AtLeague + 1][1] <= WorkList[AtLeague + 2][1]
          BY <1>10, <3>1, <4>1, WorkIs
        <4> QED BY <1>10, <3>1, <3>2, <4>2, <4>3, <4>4
      <3> QED BY <3>1, <3>2
    <2>3. CASE ~LastOfSeason
      <3>1. got = job.got /\ Current'[1] = Current[1]
        BY <1>4, <1>9, <2>1, <2>3
      <3>2. got \subseteq MatchesOn(ToSet(SeasonFile[Current'[1]]))
        BY <1>1, <1>2, <1>3, <3>1 DEF JobOK, JobSeason
      <3>3. ASSUME ~job.failed \/ Current'[1] \notin missed, NEW i \in 1..(AtLeague + 1),
                   WorkList[i][1] = Current'[1]
            PROVE  MatchesIn(WorkList[i][2]) \subseteq got
        <4>1. /\ \A k \in 1..AtLeague : WorkList[k][1] = Current[1] =>
                   MatchesIn(WorkList[k][2]) \subseteq job.got
              /\ MatchesIn(Current[2]) \subseteq job.got \cup ToSet(job.todo)
          BY <1>1, <1>2, <1>3, <3>1, <3>3 DEF JobOK, JobSeason
        <4>2. ToSet(job.todo) = {}
          BY <1>1 DEF ToSet
        <4>3. i \in 1..AtLeague \/ i = AtLeague + 1
          BY <1>10
        <4> QED BY <1>10, <3>1, <3>3, <4>1, <4>2, <4>3
      <3> QED BY <3>2, <3>3
    <2> QED BY <2>2, <2>3
  <1>13. /\ played' = [s \in PastSeasons |-> played'[s]]
         /\ \A s \in PastSeasons :
              played'[s] = IF LastOfSeason /\ s = Current[1] THEN played[s] \cup AccountsIn(job.got)
                           ELSE played[s]
    <2>1. played = [s \in PastSeasons |-> played[s]]
      BY DEF BackfillInv, TablesOK
    <2> QED BY <1>1, <1>10, <2>1
  <1>14. \A s \in PastSeasons : played[s] \subseteq EveryoneWhoPlayed(s)
    BY DEF BackfillInv, TablesOK
  <1>15. LastOfSeason /\ (~job.failed \/ Current[1] \notin missed) =>
           played'[Current[1]] = EveryoneWhoPlayed(Current[1])
    <2>1. SUFFICES ASSUME LastOfSeason, ~job.failed \/ Current[1] \notin missed
                   PROVE  played'[Current[1]] = EveryoneWhoPlayed(Current[1])
      OBVIOUS
    <2>2. AccountsIn(job.got) = EveryoneWhoPlayed(Current[1])
      BY <1>1, <1>2, <1>3, <2>1, SeasonGot
    <2> QED BY <1>10, <1>13, <1>14, <2>1, <2>2
  <1>16. \A s \in PastSeasons : played'[s] \subseteq EveryoneWhoPlayed(s)
    <2>1. AccountsIn(job.got) \subseteq EveryoneWhoPlayed(Current[1])
      <3>1. job.got \subseteq MatchesOn(ToSet(SeasonFile[Current[1]]))
        BY <1>1, <1>2, <1>3 DEF JobOK, JobSeason
      <3> QED BY <3>1 DEF EveryoneWhoPlayed, AccountsIn
    <2> QED BY <1>13, <1>14, <2>1
  <1>17. JobRecorded'
    <2>1. ASSUME ~job.failed, NEW s \in PastSeasons, IsPast(s, AtLeague + 1)
          PROVE  played'[s] = EveryoneWhoPlayed(s)
      <3>1. CASE IsPast(s, AtLeague)
        <4>1. played[s] = EveryoneWhoPlayed(s)
          BY <1>1, <1>2, <2>1, <3>1 DEF JobOK, JobRecorded
        <4> QED BY <1>13, <1>16, <4>1
      <3>2. CASE s = Current[1] /\ LastOfSeason
        BY <1>15, <2>1, <3>2
      <3> QED BY <1>2, <1>3, <2>1, <3>1, <3>2, NotYetPast
    <2> QED BY <1>8, <1>9, <2>1 DEF JobRecorded
  <1>18. JobOK'
    BY <1>7, <1>9, <1>11, <1>12, <1>17 DEF JobOK
  <1>19. TablesOK'
    BY <1>1, <1>13, <1>16 DEF BackfillInv, TablesOK
  <1>20. SeasonsWhole'
    <2>1. ASSUME NEW s \in PastSeasons \ missed
          PROVE  played'[s] \in {{}, EveryoneWhoPlayed(s)}
      <3>1. CASE LastOfSeason /\ s = Current[1]
        BY <1>15, <3>1
      <3>2. CASE ~(LastOfSeason /\ s = Current[1])
        BY <1>13, <3>2 DEF BackfillInv, SeasonsWhole
      <3> QED BY <3>1, <3>2
    <2> QED BY <1>1, <2>1 DEF SeasonsWhole
  <1>21. PlacesFromWholeLeagues' /\ OutcomeOK'
    <2>1. PlacesFromWholeLeagues'
      BY <1>1 DEF BackfillInv, PlacesFromWholeLeagues
    <2>2. OutcomeOK'
      BY <1>1, RunGoesOn
    <2> QED BY <2>1, <2>2
  <1> QED BY <1>18, <1>19, <1>20, <1>21 DEF BackfillInv

\* Storing the places of a league keeps the invariant.
LEMMA EndPlacesKept ==
  ASSUME BackfillInv, EndPlacesLeague
  PROVE  BackfillInv'
  <1> DEFINE whole == ~(job.misses \/ job.got = {})
  <1>1. /\ job # NoJob /\ job.script = "places" /\ job.listed /\ job.todo = <<>>
        /\ job' = [job EXCEPT !.work = Tail(@), !.listed = FALSE, !.got = {}, !.misses = FALSE,
                     !.rows[Current[2]] = IF job.misses \/ job.got = {} THEN "review"
                                          ELSE "derived"]
        /\ UNCHANGED <<read, lists, played, table, places, outcome, missed, runs>>
    BY DEF EndPlacesLeague, Script
  <1>2. JobOK
    BY <1>1 DEF BackfillInv
  <1>3. job \in JobStates /\ JobPlace /\ job.work # <<>>
    BY <1>1, <1>2 DEF JobOK, JobPlace
  <1>4. Current[2] \in Divisions
    BY <1>3, CurrentIs
  <1>5. PICK w, rows : /\ w = Tail(job.work)
                       /\ rows = [job.rows EXCEPT ![Current[2]] =
                                    IF job.misses \/ job.got = {} THEN "review" ELSE "derived"]
    OBVIOUS
  <1>6. /\ w \in Seq(PastSeasons \X Divisions) /\ rows \in [Divisions -> PlacesInRun]
        /\ \A l \in Divisions : rows[l] = "derived" =>
             job.rows[l] = "derived" \/ (l = Current[2] /\ whole)
    <2>1. job.work \in Seq(PastSeasons \X Divisions) /\ job.rows \in [Divisions -> PlacesInRun]
      BY <1>3 DEF JobStates
    <2>2. w \in Seq(PastSeasons \X Divisions)
      BY <1>3, <1>5, <2>1, HeadTail
    <2>3. rows \in [Divisions -> PlacesInRun]
      BY <1>5, <2>1 DEF PlacesInRun
    <2>4. \A l \in Divisions : rows[l] = "derived" =>
            job.rows[l] = "derived" \/ (l = Current[2] /\ whole)
      BY <1>5, <2>1
    <2> QED BY <2>2, <2>3, <2>4
  <1> HIDE DEF whole
  <1>7. job' = [job EXCEPT !.work = w, !.listed = FALSE, !.got = {}, !.misses = FALSE,
                  !.rows = rows]
    BY <1>1, <1>3, <1>5 DEF JobStates
  <1>8. job' \in JobStates
    BY <1>3, <1>6, <1>7 DEF JobStates
  <1>9. /\ job'.script = "places" /\ job'.work = w /\ job'.todo = <<>>
        /\ ~job'.listed /\ job'.calls = job.calls
        /\ job'.gained = job.gained /\ job'.failed = job.failed /\ job'.rows = rows
    BY <1>1, <1>3, <1>7 DEF JobStates
  <1>10. JobPlace' /\ JobCalls'
    BY <1>1, <1>2, <1>3, <1>5, <1>8, <1>9, NextLeague
  <1>11. JobPlaces'
    <2>1. whole => MatchesIn(Current[2]) \subseteq read["places"]
      <3>1. ToSet(job.todo) = {}
        BY <1>1 DEF ToSet
      <3> QED BY <1>1, <1>2, <3>1 DEF JobOK, JobPlaces, whole
    <2>2. \A l \in Divisions : rows[l] = "derived" => MatchesIn(l) \subseteq read["places"]
      BY <1>2, <1>6, <2>1 DEF JobOK, JobPlaces
    <2> QED BY <1>1, <1>9, <2>2 DEF JobPlaces
  <1>12. JobSeason' /\ JobRecorded'
    BY <1>9 DEF JobSeason, JobRecorded
  <1>13. JobOK'
    BY <1>8, <1>10, <1>11, <1>12 DEF JobOK
  <1>14. TablesOK' /\ SeasonsWhole' /\ PlacesFromWholeLeagues'
    BY <1>1, TablesSame
  <1>15. OutcomeOK'
    BY <1>1, RunGoesOn
  <1> QED BY <1>13, <1>14, <1>15 DEF BackfillInv

\* The matches of one league.
LEMMA OneLeague ==
  ASSUME NEW l
  PROVE  MatchesOn({l}) = MatchesIn(l)
  BY DEF MatchesOn, MatchesIn

\* The end of a run keeps the invariant.
LEMMA EndRunKept ==
  ASSUME BackfillInv, EndRun
  PROVE  BackfillInv'
  <1>1. /\ job # NoJob /\ job.work = <<>> /\ job' = NoJob
        /\ table' = IF job.script = "places" THEN job.rows ELSE table
        /\ outcome' = CASE job.failed -> "incomplete"
                        [] ~job.failed /\ job.script = "played" -> "played"
                        [] OTHER -> "places"
        /\ UNCHANGED <<read, lists, played, places, missed, runs>>
    BY DEF EndRun
  <1>2. JobOK
    BY <1>1 DEF BackfillInv
  <1>3. job.rows \in [Divisions -> PlacesInRun] /\ job.script \in {"played", "places"}
        /\ job.failed \in BOOLEAN
    BY <1>2 DEF JobOK, JobStates
  <1>4. TablesOK'
    BY <1>1, <1>3 DEF BackfillInv, TablesOK
  <1>5. SeasonsWhole'
    BY <1>1 DEF BackfillInv, SeasonsWhole
  <1>6. PlacesFromWholeLeagues'
    <2>1. \A l \in Divisions : job.rows[l] \in {"derived", "reviewed"} =>
            MatchesOn({l}) \subseteq read["places"]
      BY <1>2, <1>3, OneLeague DEF JobOK, JobPlaces, PlacesInRun
    <2> QED BY <1>1, <2>1 DEF BackfillInv, PlacesFromWholeLeagues
  <1>7. OutcomeOK'
    <2>1. outcome' = "played" => job.script = "played" /\ ~job.failed
      BY <1>1, <1>3
    <2>2. outcome' # "stopped for nothing"
      BY <1>1, <1>3
    <2>3. \A s \in PastSeasons : IsPast(s, AtLeague)
      <3>1. AtLeague = Len(WorkList)
        BY <1>1, WorkIs DEF AtLeague
      <3> QED BY <3>1, WorkIs DEF IsPast
    <2>4. outcome' = "played" => \A s \in PastSeasons : played[s] = EveryoneWhoPlayed(s)
      BY <1>2, <2>1, <2>3 DEF JobOK, JobRecorded
    <2> QED BY <1>1, <2>2, <2>4 DEF OutcomeOK, CleanRunRecordsAll, StoppedRunsAdvance
  <1> QED BY <1>1, <1>4, <1>5, <1>6, <1>7 DEF BackfillInv

\* A run that is killed keeps the invariant.
LEMMA KillKept ==
  ASSUME BackfillInv, KillRun
  PROVE  BackfillInv'
  <1>1. TablesOK' /\ SeasonsWhole' /\ PlacesFromWholeLeagues'
    BY TablesSame DEF KillRun
  <1>2. OutcomeOK' /\ job' = NoJob
    BY DEF KillRun, OutcomeOK, CleanRunRecordsAll, StoppedRunsAdvance
  <1> QED BY <1>1, <1>2 DEF BackfillInv

\* The table's review and what is applied of it leave a run as it is.
LEMMA RunUntouched ==
  ASSUME BackfillInv, UNCHANGED <<read, played, job, outcome, missed>>
  PROVE  OutcomeOK' /\ SeasonsWhole' /\ (job' # NoJob => JobOK')
  <1>1. OutcomeOK'
    BY DEF BackfillInv, OutcomeOK, CleanRunRecordsAll, StoppedRunsAdvance
  <1>2. SeasonsWhole'
    BY DEF BackfillInv, SeasonsWhole
  <1>3. AtLeague' = AtLeague /\ Current' = Current
    BY DEF AtLeague, Current
  <1>4. ASSUME job # NoJob
        PROVE  JobOK'
    <2>1. JobOK
      BY <1>4 DEF BackfillInv
    <2>2. (job \in JobStates)'
      BY <2>1 DEF JobOK
    <2>3. JobPlace' /\ JobCalls'
      BY <1>3, <2>1 DEF JobOK, JobPlace, JobCalls
    <2>4. JobPlaces' /\ JobSeason'
      BY <1>3, <2>1 DEF JobOK, JobPlaces, JobSeason
    <2>5. JobRecorded'
      BY <1>3, <2>1 DEF JobOK, JobRecorded
    <2> QED BY <2>2, <2>3, <2>4, <2>5 DEF JobOK
  <1> QED BY <1>1, <1>2, <1>4

\* What an admin reviews or enters keeps the invariant.
LEMMA ReviewKept ==
  ASSUME BackfillInv, NEW l \in Divisions,
         ReviewRow(l) \/ EnterByHand(l)
         \/ \E s \in PastSeasons, replace \in BOOLEAN : ApplySeason(s, replace)
  PROVE  BackfillInv'
  <1>1. OutcomeOK' /\ SeasonsWhole' /\ (job' # NoJob => JobOK')
    BY RunUntouched DEF ReviewRow, EnterByHand, ApplySeason
  <1>2. TablesOK'
    <2>1. /\ UNCHANGED <<read, lists, played, missed>>
          /\ table' \in [Divisions -> PlacesInRun \cup {"reviewed"}]
          /\ places' \in [Divisions -> {"none", "table", "by hand"}]
      BY DEF ReviewRow, EnterByHand, ApplySeason, BackfillInv, TablesOK
    <2> QED BY <2>1 DEF BackfillInv, TablesOK
  <1>3. PlacesFromWholeLeagues'
    <2>1. table \in [Divisions -> PlacesInRun \cup {"reviewed"}]
          /\ places \in [Divisions -> {"none", "table", "by hand"}]
      BY DEF BackfillInv, TablesOK
    <2>2. /\ read' = read
          /\ \A k \in Divisions : table'[k] \in {"derived", "reviewed"} \/ places'[k] = "table" =>
               table[k] \in {"derived", "reviewed"} \/ places[k] = "table"
      BY <2>1 DEF ReviewRow, EnterByHand, ApplySeason
    <2> QED BY <2>2 DEF BackfillInv, PlacesFromWholeLeagues
  <1> QED BY <1>1, <1>2, <1>3 DEF BackfillInv

\* Every step of the scripts keeps the invariant.
LEMMA BackfillStep ==
  ASSUME BackfillInv, [BackfillNext]_backfillVars
  PROVE  BackfillInv'
  <1>1. ASSUME NEW s \in PastSeasons, NEW replace \in BOOLEAN, ApplySeason(s, replace)
        PROVE  BackfillInv'
    <2>1. \E l : l \in Divisions
      BY <1>1, SeasonLeaguesPast DEF ApplySeason
    <2> QED BY <1>1, <2>1, ReviewKept
  <1>2. CASE UNCHANGED backfillVars
    <2>1. TablesOK' /\ PlacesFromWholeLeagues'
      BY <1>2, TablesSame DEF backfillVars
    <2>2. OutcomeOK' /\ SeasonsWhole' /\ (job' # NoJob => JobOK')
      BY <1>2, RunUntouched DEF backfillVars
    <2> QED BY <2>1, <2>2 DEF BackfillInv
  <1>3. ASSUME NEW l \in Divisions, ReviewRow(l) \/ EnterByHand(l)
        PROVE  BackfillInv'
    BY <1>3, ReviewKept
  <1>4. ASSUME NEW answered \in BOOLEAN, ListLeagueMatches(answered) \/ ReadMatch(answered)
        PROVE  BackfillInv'
    BY <1>4, ListKept, ReadKept
  <1>5. ASSUME NEW script \in {"played", "places"}, NEW overwrite \in BOOLEAN,
               StartRun(script, overwrite)
        PROVE  BackfillInv'
    BY <1>5, StartRunKept
  <1> QED BY <1>1, <1>2, <1>3, <1>4, <1>5, EndPlayedKept, EndPlacesKept, EndRunKept, KillKept
          DEF BackfillNext

\* What a run has gone through, read and missed; and what the tables owe to the runs.
THEOREM BackfillInvariant == BackfillSpec => []BackfillInv
  <1>1. BackfillInv /\ [BackfillNext]_backfillVars => BackfillInv'
    BY BackfillStep
  <1> QED BY <1>1, BackfillStarts, PTL DEF BackfillSpec

\* What the invariant of the scripts says of the tables.
LEMMA BackfillFollows ==
  ASSUME BackfillInv
  PROVE  BackfillTypeOK /\ BackfillSound
  <1>1. BackfillTypeOK
    <2>1. job # NoJob => job.calls \in 0..MaxCalls
      BY DEF BackfillInv, JobOK, JobStates
    <2> QED BY <2>1 DEF BackfillInv, BackfillTypeOK, TablesOK
  <1>2. BackfillSound
    BY DEF BackfillInv, BackfillSound, OutcomeOK
  <1> QED BY <1>1, <1>2

\* BackfillSound: a run that reports nothing unread has recorded everyone, a season is
\* recorded whole or not at all unless a run missed some of it, a run stopped by its
\* budget has read something new, and places come from leagues that were read whole.
THEOREM BackfillSoundHolds == BackfillSpec => [](BackfillTypeOK /\ BackfillSound)
  <1>1. BackfillInv => BackfillTypeOK /\ BackfillSound
    BY BackfillFollows
  <1> QED BY <1>1, BackfillInvariant, PTL

-----------------------------------------------------------------------------
(* The log of a playoff *)

SlotNames == {"group", "semi1", "semi2", "third", "lower1", "upper", "lower", "final"}
LogParts ==
  [slot : SlotNames, winner : Finalists, loser : Finalists, won : Nat, lost : Nat,
   played : Nat, day : Nat]
SlotsOn == {log[i].slot : i \in DOMAIN log}

\* The slots on the log are the first ones of the slate, in its order.
LogTyped ==
  /\ playoff \in Brackets /\ withIds \in BOOLEAN /\ oneDay \in BOOLEAN
  /\ log \in Seq(LogParts)
SlotsFilled ==
  /\ SlotsPlayed \in 0..Len(Slate)
  /\ SlotsOn = {Slate[k] : k \in 1..SlotsPlayed}
InOrder ==
  \A i, j \in DOMAIN log : \A a, b \in 1..Len(Slate) :
    i < j /\ log[i].slot = Slate[a] /\ log[j].slot = Slate[b] => a <= b

\* The parts of a series are of one pair, the one that the slate calls for.
OneSeries ==
  \A i, j \in DOMAIN log : log[i].slot = log[j].slot =>
    log[i].winner = log[j].winner /\ log[i].loser = log[j].loser
Drawn ==
  \A i \in DOMAIN log :
    log[i].winner # log[i].loser /\ PairIn(log[i].slot) = {log[i].winner, log[i].loser}

\* They add up to the record of a series.
OnRecord(p, won, lost, games) == p.won = won /\ p.lost = lost /\ p.played = games
InOnePart(slot, r) ==
  \E i \in DOMAIN log : PartsOf(slot) = {i} /\ OnRecord(log[i], r.won, r.lost, r.played)
InTwoParts(slot, r) ==
  \E i, j \in DOMAIN log :
    /\ i # j /\ PartsOf(slot) = {i, j} /\ r.won = 2
    /\ OnRecord(log[i], r.won - 1, r.lost, r.played - 1) /\ OnRecord(log[j], 1, 0, 1)
SeriesRecorded == \A s \in SlotsOn : \E r \in Records : InOnePart(s, r) \/ InTwoParts(s, r)

PlacementsInv == LogTyped /\ SlotsFilled /\ InOrder /\ OneSeries /\ Drawn /\ SeriesRecorded

\* A tuple of slots that differ.
IsSlate(v, n) ==
  /\ v \in Seq(SlotNames) /\ Len(v) = n
  /\ \A a, b \in 1..n : v[a] = v[b] => a = b

\* The slate of the format "plain".
LEMMA SlatePlain ==
  ASSUME playoff = "plain"
  PROVE  /\ IsSlate(Slate, 4)
         /\ Slate[1] = "group" /\ Slate[2] = "semi1" /\ Slate[3] = "semi2"
         /\ Slate[4] = "final"
  <1> DEFINE v == <<"group", "semi1", "semi2", "final">>
  <1>1. Slate = v
    BY DEF Slate
  <1>2. v \in Seq(SlotNames)
    BY DEF SlotNames
  <1>3. Len(v) = 4
    OBVIOUS
  <1>4. /\ v[1] = "group" /\ v[2] = "semi1" /\ v[3] = "semi2"
        /\ v[4] = "final"
    OBVIOUS
  <1> HIDE DEF v
  <1>5. \A a \in 1..4 : a = 1 \/ a = 2 \/ a = 3 \/ a = 4
    OBVIOUS
  <1>6. \A a, b \in 1..4 : v[a] = v[b] => a = b
    BY <1>4, <1>5, SMTT(30)
  <1> QED BY <1>1, <1>2, <1>3, <1>4, <1>6 DEF IsSlate

\* The slate of the format "third".
LEMMA SlateThird ==
  ASSUME playoff = "third"
  PROVE  /\ IsSlate(Slate, 5)
         /\ Slate[1] = "group" /\ Slate[2] = "semi1" /\ Slate[3] = "semi2"
         /\ Slate[4] = "third" /\ Slate[5] = "final"
  <1> DEFINE v == <<"group", "semi1", "semi2", "third", "final">>
  <1>1. Slate = v
    BY DEF Slate
  <1>2. v \in Seq(SlotNames)
    BY DEF SlotNames
  <1>3. Len(v) = 5
    OBVIOUS
  <1>4. /\ v[1] = "group" /\ v[2] = "semi1" /\ v[3] = "semi2"
        /\ v[4] = "third" /\ v[5] = "final"
    OBVIOUS
  <1> HIDE DEF v
  <1>5. \A a \in 1..5 : a = 1 \/ a = 2 \/ a = 3 \/ a = 4 \/ a = 5
    OBVIOUS
  <1>6. \A a, b \in 1..5 : v[a] = v[b] => a = b
    BY <1>4, <1>5, SMTT(30)
  <1> QED BY <1>1, <1>2, <1>3, <1>4, <1>6 DEF IsSlate

\* The slate of the format "double".
LEMMA SlateDouble ==
  ASSUME playoff = "double"
  PROVE  /\ IsSlate(Slate, 6)
         /\ Slate[1] = "semi1" /\ Slate[2] = "semi2" /\ Slate[3] = "lower1"
         /\ Slate[4] = "upper" /\ Slate[5] = "lower" /\ Slate[6] = "final"
  <1> DEFINE v == <<"semi1", "semi2", "lower1", "upper", "lower", "final">>
  <1>1. Slate = v
    BY DEF Slate
  <1>2. v \in Seq(SlotNames)
    BY DEF SlotNames
  <1>3. Len(v) = 6
    OBVIOUS
  <1>4. /\ v[1] = "semi1" /\ v[2] = "semi2" /\ v[3] = "lower1"
        /\ v[4] = "upper" /\ v[5] = "lower" /\ v[6] = "final"
    OBVIOUS
  <1> HIDE DEF v
  <1>5. \A a \in 1..6 : a = 1 \/ a = 2 \/ a = 3 \/ a = 4 \/ a = 5 \/ a = 6
    OBVIOUS
  <1>6. \A a, b \in 1..6 : v[a] = v[b] => a = b
    BY <1>4, <1>5, SMTT(30)
  <1> QED BY <1>1, <1>2, <1>3, <1>4, <1>6 DEF IsSlate

\* Every format has its slate.
LEMMA SlateIs ==
  ASSUME playoff \in Brackets
  PROVE  /\ Len(Slate) \in Nat /\ IsSlate(Slate, Len(Slate))
         /\ playoff = "plain" \/ playoff = "third" \/ playoff = "double"
         /\ \A k \in 1..Len(Slate) : Slate[k] = "final" <=> k = Len(Slate)
  <1>1. playoff = "plain" \/ playoff = "third" \/ playoff = "double"
    BY PlacementsAssumption
  <1>2. Len(Slate) \in Nat \ {0} /\ IsSlate(Slate, Len(Slate)) /\ Slate[Len(Slate)] = "final"
    <2>1. CASE playoff = "plain"
      <3>1. IsSlate(Slate, 4) /\ Slate[4] = "final"
        BY <2>1, SlatePlain
      <3>2. Len(Slate) = 4
        BY <3>1 DEF IsSlate
      <3> QED BY <3>1, <3>2
    <2>2. CASE playoff = "third"
      <3>1. IsSlate(Slate, 5) /\ Slate[5] = "final"
        BY <2>2, SlateThird
      <3>2. Len(Slate) = 5
        BY <3>1 DEF IsSlate
      <3> QED BY <3>1, <3>2
    <2>3. CASE playoff = "double"
      <3>1. IsSlate(Slate, 6) /\ Slate[6] = "final"
        BY <2>3, SlateDouble
      <3>2. Len(Slate) = 6
        BY <3>1 DEF IsSlate
      <3> QED BY <3>1, <3>2
    <2> QED BY <1>1, <2>1, <2>2, <2>3
  <1> QED BY <1>1, <1>2 DEF IsSlate

\* The series a slot's pair comes from are played by then.
LEMMA FedBefore ==
  ASSUME PlacementsInv, NEW s \in SlotNames, NEW k \in 1..Len(Slate), s = Slate[k],
         k <= SlotsPlayed + 1
  PROVE  /\ s = "third" \/ s = "lower1" \/ s = "upper" \/ (s = "final" /\ playoff # "double")
              => {"semi1", "semi2"} \subseteq SlotsOn
         /\ s = "lower" => {"upper", "lower1"} \subseteq SlotsOn
         /\ s = "final" /\ playoff = "double" => {"upper", "lower"} \subseteq SlotsOn
  <1>1. playoff \in Brackets /\ SlotsPlayed \in 0..Len(Slate)
        /\ \A n \in 1..SlotsPlayed : Slate[n] \in SlotsOn
    BY DEF PlacementsInv, LogTyped, SlotsFilled
  <1>2. CASE playoff = "plain"
    <2>1. \A n \in 1..4 : n = 1 \/ n = 2 \/ n = 3 \/ n = 4
      OBVIOUS
    <2>0. Len(Slate) = 4
      BY <1>2, SlatePlain DEF IsSlate
    <2>2. k \in 1..4 /\ SlotsPlayed \in Nat
      BY <1>1, <2>0
    <2>3. s \in {"third", "lower1", "upper", "lower", "final"} => s = "final" /\ k = 4
      BY <1>2, <2>1, <2>2, SlatePlain
    <2>4. k = 4 => 2 \in 1..SlotsPlayed /\ 3 \in 1..SlotsPlayed
      BY <2>2
    <2> QED BY <1>1, <1>2, <2>3, <2>4, SlatePlain
  <1>3. CASE playoff = "third"
    <2>1. \A n \in 1..5 : n = 1 \/ n = 2 \/ n = 3 \/ n = 4 \/ n = 5
      OBVIOUS
    <2>0. Len(Slate) = 5
      BY <1>3, SlateThird DEF IsSlate
    <2>2. k \in 1..5 /\ SlotsPlayed \in Nat
      BY <1>1, <2>0
    <2>3. s \in {"third", "lower1", "upper", "lower", "final"} =>
            s \in {"third", "final"} /\ k >= 4
      BY <1>3, <2>1, <2>2, SlateThird
    <2>4. k >= 4 => 2 \in 1..SlotsPlayed /\ 3 \in 1..SlotsPlayed
      BY <2>2
    <2> QED BY <1>1, <1>3, <2>3, <2>4, SlateThird
  <1>4. CASE playoff = "double"
    <2>1. \A n \in 1..6 : n = 1 \/ n = 2 \/ n = 3 \/ n = 4 \/ n = 5 \/ n = 6
      OBVIOUS
    <2> QED BY <1>1, <1>4, <2>1, SlateDouble DEF IsSlate
  <1> QED BY <1>1, <1>2, <1>3, <1>4, PlacementsAssumption

\* A step appends parts of one series.
Extended(slot, w, l) ==
  /\ UNCHANGED <<playoff, withIds, oneDay>>
  /\ log' \in Seq(LogParts) /\ Len(log) \in Nat /\ Len(log') \in Nat /\ Len(log) < Len(log')
  /\ \A i \in 1..Len(log) : log'[i] = log[i]
  /\ \A i \in (Len(log) + 1)..Len(log') :
       log'[i].slot = slot /\ log'[i].winner = w /\ log'[i].loser = l

\* A next series is that of the next slot.
NextSlot(slot, w, l) ==
  /\ SlotsPlayed + 1 \in 1..Len(Slate) /\ slot = Slate[SlotsPlayed + 1] /\ slot \in SlotNames
  /\ PairIn(slot) = {w, l} /\ w # l

\* The series before keep their parts.
LEMMA PartsKept ==
  ASSUME PlacementsInv, NEW slot, NEW w, NEW l, NextSlot(slot, w, l), Extended(slot, w, l)
  PROVE  /\ slot \notin SlotsOn
         /\ \A s \in SlotsOn : PartsOf(s) # {} /\ PartsOf(s)' = PartsOf(s)
         /\ PartsOf(slot)' = (Len(log) + 1)..Len(log')
         /\ SlotsOn' = SlotsOn \cup {slot}
  <1>1. /\ log \in Seq(LogParts) /\ log' \in Seq(LogParts)
        /\ DOMAIN log = 1..Len(log) /\ DOMAIN log' = 1..Len(log')
        /\ Len(log) \in Nat /\ Len(log') \in Nat /\ Len(log) < Len(log')
    BY DEF PlacementsInv, LogTyped, Extended
  <1>2. slot \notin SlotsOn
    <2>1. SUFFICES ASSUME NEW k \in 1..SlotsPlayed, Slate[k] = slot PROVE FALSE
      BY DEF PlacementsInv, SlotsFilled
    <2>2. SlotsPlayed \in 0..Len(Slate) /\ playoff \in Brackets
      BY DEF PlacementsInv, SlotsFilled, LogTyped
    <2>3. IsSlate(Slate, Len(Slate)) /\ Len(Slate) \in Nat
      BY <2>2, SlateIs
    <2>4. k = SlotsPlayed + 1
      BY <2>1, <2>2, <2>3 DEF NextSlot, IsSlate
    <2> QED BY <2>1, <2>2, <2>4
  <1>3. \A i \in DOMAIN log : log'[i].slot = log[i].slot /\ log[i].slot # slot
    BY <1>1, <1>2 DEF Extended, SlotsOn
  <1>4. \A i \in (Len(log) + 1)..Len(log') : log'[i].slot = slot
    BY DEF Extended
  <1>5. \A i \in DOMAIN log' : i \in DOMAIN log \/ i \in (Len(log) + 1)..Len(log')
    BY <1>1
  <1>6. ASSUME NEW s \in SlotsOn PROVE PartsOf(s) # {} /\ PartsOf(s)' = PartsOf(s)
    <2>1. PartsOf(s) # {}
      BY DEF SlotsOn, PartsOf
    <2>2. PartsOf(s)' = {i \in DOMAIN log' : log'[i].slot = s}
      BY DEF PartsOf
    <2>3. DOMAIN log \subseteq DOMAIN log'
      BY <1>1
    <2>4. s # slot
      BY <1>2
    <2> QED BY <2>1, <2>2, <2>3, <2>4, <1>3, <1>4, <1>5 DEF PartsOf
  <1>7. PartsOf(slot)' = (Len(log) + 1)..Len(log')
    <2>1. PartsOf(slot)' = {i \in DOMAIN log' : log'[i].slot = slot}
      BY DEF PartsOf
    <2>2. (Len(log) + 1)..Len(log') \subseteq DOMAIN log'
      BY <1>1
    <2> QED BY <2>1, <2>2, <1>3, <1>4, <1>5
  <1>8. SlotsOn' = SlotsOn \cup {slot}
    <2>1. SlotsOn' = {log'[i].slot : i \in DOMAIN log'}
      BY DEF SlotsOn
    <2>2. DOMAIN log \subseteq DOMAIN log' /\ Len(log') \in (Len(log) + 1)..Len(log')
          /\ Len(log') \in DOMAIN log'
      BY <1>1
    <2> QED BY <2>1, <2>2, <1>3, <1>4, <1>5 DEF SlotsOn
  <1> QED BY <1>2, <1>6, <1>7, <1>8

\* The slots filled are one more.
LEMMA SlotFilled ==
  ASSUME PlacementsInv, NEW slot, NEW w, NEW l, NextSlot(slot, w, l), Extended(slot, w, l)
  PROVE  SlotsFilled' /\ SlotsPlayed' = SlotsPlayed + 1 /\ Slate' = Slate
  <1>1. Slate' = Slate
    BY DEF Slate, Extended
  <1>2. slot \notin SlotsOn /\ SlotsOn' = SlotsOn \cup {slot}
    BY PartsKept
  <1>3. SlotsPlayed = Cardinality(SlotsOn) /\ SlotsPlayed' = Cardinality(SlotsOn')
    BY DEF SlotsPlayed, SlotsOn
  <1>4. SlotsPlayed \in Nat /\ Len(Slate) \in Nat /\ SlotsOn = {Slate[k] : k \in 1..SlotsPlayed}
    BY SlateIs DEF PlacementsInv, SlotsFilled, LogTyped
  <1>5. IsFiniteSet(SlotsOn)
    <2>1. IsFiniteSet(1..SlotsPlayed)
      BY <1>4, FS_Interval
    <2> QED BY <1>4, <2>1, ImageFinite
  <1>6. SlotsPlayed' = SlotsPlayed + 1
    BY <1>2, <1>3, <1>5, FS_AddElement
  <1>7. SlotsOn' = {Slate'[k] : k \in 1..SlotsPlayed'}
    <2>1. \A k \in 1..(SlotsPlayed + 1) : k \in 1..SlotsPlayed \/ k = SlotsPlayed + 1
      BY <1>4
    <2>2. 1..SlotsPlayed \subseteq 1..(SlotsPlayed + 1) /\ SlotsPlayed + 1 \in 1..(SlotsPlayed + 1)
      BY <1>4
    <2> QED BY <2>1, <2>2, <1>1, <1>2, <1>4, <1>6 DEF NextSlot
  <1>8. SlotsPlayed' \in 0..Len(Slate')
    BY <1>1, <1>4, <1>6 DEF NextSlot
  <1> QED BY <1>1, <1>6, <1>7, <1>8 DEF SlotsFilled

\* Who won them and lost them stays.
LEMMA ResultsKept ==
  ASSUME PlacementsInv, NEW slot, NEW w, NEW l, NextSlot(slot, w, l), Extended(slot, w, l)
  PROVE  \A s \in SlotsOn : SlotWinner(s)' = SlotWinner(s) /\ SlotLoser(s)' = SlotLoser(s)
  <1> SUFFICES ASSUME NEW s \in SlotsOn
               PROVE  SlotWinner(s)' = SlotWinner(s) /\ SlotLoser(s)' = SlotLoser(s)
    OBVIOUS
  <1>1. PartsOf(s)' = PartsOf(s) /\ PartsOf(s) # {}
    BY PartsKept
  <1>2. PICK i : i = CHOOSE j \in PartsOf(s) : TRUE
    OBVIOUS
  <1>3. i \in PartsOf(s)
    BY <1>1, <1>2
  <1>4. log'[i] = log[i]
    <2>1. i \in 1..Len(log)
      BY <1>3 DEF PartsOf, PlacementsInv, LogTyped
    <2> QED BY <2>1 DEF Extended
  <1>5. SlotWinner(s) = log[i].winner /\ SlotLoser(s) = log[i].loser
    BY <1>2 DEF SlotWinner, SlotLoser
  <1>6. SlotWinner(s)' = log'[i].winner /\ SlotLoser(s)' = log'[i].loser
    BY <1>1, <1>2 DEF SlotWinner, SlotLoser
  <1> QED BY <1>4, <1>5, <1>6

\* So do the pairs of the series so far and of the next one.
LEMMA PairsKept ==
  ASSUME PlacementsInv, NEW slot, NEW w, NEW l, NextSlot(slot, w, l), Extended(slot, w, l),
         NEW s \in SlotNames, NEW k \in 1..Len(Slate), s = Slate[k], k <= SlotsPlayed + 1
  PROVE  PairIn(s)' = PairIn(s)
  <1>1. playoff' = playoff
    BY DEF Extended
  <1>2. CASE s = "group" \/ s = "semi1" \/ s = "semi2"
    BY <1>2 DEF PairIn
  <1>3. CASE s = "third" \/ s = "lower1"
    <2>1. {"semi1", "semi2"} \subseteq SlotsOn
      BY <1>3, FedBefore
    <2> QED BY <1>3, <2>1, ResultsKept DEF PairIn
  <1>4. CASE s = "upper" \/ (s = "final" /\ playoff # "double")
    <2>1. {"semi1", "semi2"} \subseteq SlotsOn
      BY <1>4, FedBefore
    <2> QED BY <1>1, <1>4, <2>1, ResultsKept DEF PairIn
  <1>5. CASE s = "lower"
    <2>1. {"upper", "lower1"} \subseteq SlotsOn
      BY <1>5, FedBefore
    <2> QED BY <1>5, <2>1, ResultsKept DEF PairIn
  <1>6. CASE s = "final" /\ playoff = "double"
    <2>1. {"upper", "lower"} \subseteq SlotsOn
      BY <1>6, FedBefore
    <2> QED BY <1>1, <1>6, <2>1, ResultsKept DEF PairIn
  <1> QED BY <1>2, <1>3, <1>4, <1>5, <1>6 DEF SlotNames

\* The order, the pairs and who won stay as told.
LEMMA OrderKept ==
  ASSUME PlacementsInv, NEW slot, NEW w, NEW l, NextSlot(slot, w, l), Extended(slot, w, l)
  PROVE  InOrder' /\ OneSeries' /\ Drawn'
  <1>1. /\ log \in Seq(LogParts) /\ log' \in Seq(LogParts)
        /\ DOMAIN log = 1..Len(log) /\ DOMAIN log' = 1..Len(log')
        /\ Len(log) \in Nat /\ Len(log') \in Nat /\ Len(log) < Len(log')
        /\ playoff \in Brackets
    BY DEF PlacementsInv, LogTyped, Extended
  <1>2. \A i \in DOMAIN log' : i \in DOMAIN log \/ i \in (Len(log) + 1)..Len(log')
    BY <1>1
  <1>3. /\ \A i \in DOMAIN log : log'[i] = log[i] /\ log[i].slot \in SlotsOn
        /\ slot \notin SlotsOn
    BY <1>1, PartsKept DEF Extended, SlotsOn
  <1>4. \A i \in (Len(log) + 1)..Len(log') :
          log'[i].slot = slot /\ log'[i].winner = w /\ log'[i].loser = l
    BY DEF Extended
  <1>5. Slate' = Slate /\ IsSlate(Slate, Len(Slate)) /\ Len(Slate) \in Nat
    BY <1>1, SlotFilled, SlateIs
  <1>6. /\ SlotsPlayed \in Nat /\ SlotsPlayed + 1 \in 1..Len(Slate)
        /\ SlotsOn = {Slate[k] : k \in 1..SlotsPlayed} /\ slot = Slate[SlotsPlayed + 1]
    BY <1>5 DEF PlacementsInv, SlotsFilled, NextSlot
  <1>7. InOrder'
    <2> SUFFICES ASSUME NEW i \in DOMAIN log', NEW j \in DOMAIN log', i < j,
                        NEW a \in 1..Len(Slate), NEW b \in 1..Len(Slate),
                        log'[i].slot = Slate[a], log'[j].slot = Slate[b]
                 PROVE  a <= b
      BY <1>5 DEF InOrder
    <2>1. CASE j \in DOMAIN log
      <3>1. i \in DOMAIN log
        BY <1>1, <2>1
      <3> QED BY <2>1, <3>1, <1>3 DEF PlacementsInv, InOrder
    <2>2. CASE j \in (Len(log) + 1)..Len(log')
      <3>1. b = SlotsPlayed + 1
        BY <2>2, <1>4, <1>5, <1>6 DEF IsSlate
      <3>2. CASE i \in DOMAIN log
        <4>1. PICK k \in 1..SlotsPlayed : log[i].slot = Slate[k]
          BY <3>2, <1>3, <1>6
        <4>2. a = k
          BY <3>2, <4>1, <1>3, <1>5, <1>6 DEF IsSlate
        <4> QED BY <4>2, <3>1, <1>6
      <3>3. CASE i \in (Len(log) + 1)..Len(log')
        <4>1. a = SlotsPlayed + 1
          BY <3>3, <1>4, <1>5, <1>6 DEF IsSlate
        <4> QED BY <4>1, <3>1, <1>6
      <3> QED BY <3>2, <3>3, <1>2
    <2> QED BY <2>1, <2>2, <1>2
  <1>8. OneSeries'
    BY <1>2, <1>3, <1>4 DEF PlacementsInv, OneSeries
  <1>9. Drawn'
    <2> SUFFICES ASSUME NEW i \in DOMAIN log'
                 PROVE  /\ log'[i].winner # log'[i].loser
                        /\ PairIn(log[i].slot)' = {log'[i].winner, log'[i].loser}
      BY DEF Drawn
    <2>1. CASE i \in DOMAIN log
      <3>1. PICK k \in 1..SlotsPlayed : log[i].slot = Slate[k]
        BY <2>1, <1>3, <1>6
      <3>2. log[i].slot \in SlotNames
        <4>1. log[i] \in LogParts
          BY <1>1, <2>1
        <4> QED BY <4>1 DEF LogParts
      <3>3. PairIn(log[i].slot) = {log[i].winner, log[i].loser} /\ log[i].winner # log[i].loser
        BY <2>1 DEF PlacementsInv, Drawn
      <3>4. k \in 1..Len(Slate) /\ k <= SlotsPlayed + 1
        BY <1>5, <1>6
      <3>5. PICK s \in SlotNames : s = log[i].slot
        BY <3>2
      <3>6. PairIn(s)' = PairIn(s)
        BY <3>1, <3>4, <3>5, PairsKept
      <3>7. log'[i].slot = s /\ log'[i] = log[i]
        BY <1>3, <2>1, <3>5
      <3> QED BY <3>3, <3>5, <3>6, <3>7
    <2>2. CASE i \in (Len(log) + 1)..Len(log')
      <3>1. PairIn(slot)' = PairIn(slot)
        BY <1>5, <1>6, PairsKept DEF NextSlot
      <3> QED BY <3>1, <2>2, <1>4 DEF NextSlot
    <2> QED BY <2>1, <2>2, <1>2
  <1> QED BY <1>7, <1>8, <1>9

\* A record has the numbers of a series of three games at the most.
LEMMA RecordIs ==
  ASSUME NEW r \in Records
  PROVE  /\ r.won \in Nat /\ r.lost \in Nat /\ r.played \in Nat
         /\ r.won <= 2 /\ r.lost <= 1 /\ r.lost <= r.won /\ r.won + r.lost <= r.played
         /\ r.won + r.lost = r.played => r.lost < r.won
  BY PlacementsAssumption

\* What is on record of the series before stays.
LEMMA RecordsKept ==
  ASSUME PlacementsInv, NEW slot, NEW w, NEW l, NextSlot(slot, w, l), Extended(slot, w, l),
         NEW r \in Records, (InOnePart(slot, r) \/ InTwoParts(slot, r))'
  PROVE  SeriesRecorded'
  <1> SUFFICES ASSUME NEW s \in SlotsOn'
               PROVE  (\E q \in Records : InOnePart(s, q) \/ InTwoParts(s, q))'
    BY DEF SeriesRecorded
  <1>1. CASE s = slot
    BY <1>1
  <1>2. CASE s \in SlotsOn
    <2>1. PICK q \in Records : InOnePart(s, q) \/ InTwoParts(s, q)
      BY <1>2 DEF PlacementsInv, SeriesRecorded
    <2>2. PartsOf(s)' = PartsOf(s)
      BY <1>2, PartsKept
    <2>3. \A i \in DOMAIN log : i \in DOMAIN log' /\ log'[i] = log[i]
      BY DEF Extended, PlacementsInv, LogTyped
    <2>4. InOnePart(s, q) => InOnePart(s, q)'
      BY <2>2, <2>3 DEF InOnePart, OnRecord
    <2>5. InTwoParts(s, q) => InTwoParts(s, q)'
      BY <2>2, <2>3 DEF InTwoParts, OnRecord
    <2> QED BY <2>1, <2>4, <2>5
  <1> QED BY <1>1, <1>2, PartsKept

\* One sequence after another.
LEMMA Concatenated ==
  ASSUME NEW S, NEW s \in Seq(S), NEW v \in Seq(S)
  PROVE  /\ s \o v \in Seq(S) /\ Len(s \o v) = Len(s) + Len(v)
         /\ \A i \in 1..Len(s) : (s \o v)[i] = s[i]
         /\ \A i \in 1..Len(v) : (s \o v)[Len(s) + i] = v[i]
  <1>1. s \o v \in Seq(S)
    OBVIOUS
  <1>2. Len(s \o v) = Len(s) + Len(v)
    OBVIOUS
  <1>3. \A i \in 1..Len(s) : (s \o v)[i] = s[i]
    OBVIOUS
  <1>4. \A i \in 1..Len(v) : (s \o v)[Len(s) + i] = v[i]
    OBVIOUS
  <1> QED BY <1>1, <1>2, <1>3, <1>4

\* The next series on one day.
LEMMA OneDayKept ==
  ASSUME PlacementsInv, NEW slot, NEW w \in Finalists, NEW l \in Finalists,
         NEW r \in Records, NextSlot(slot, w, l), UNCHANGED <<playoff, withIds, oneDay>>,
         log' = Append(log, Part(slot, w, l, r, FALSE))
  PROVE  Extended(slot, w, l) /\ (InOnePart(slot, r))'
  <1> DEFINE p == Part(slot, w, l, r, FALSE)
  <1>1. log \in Seq(LogParts) /\ Len(log) \in Nat /\ slot \in SlotNames
    BY DEF PlacementsInv, LogTyped, NextSlot
  <1>2. SlotsPlayed \in Nat
    BY SlateIs DEF PlacementsInv, SlotsFilled, LogTyped
  <1>3. /\ p \in LogParts /\ p.slot = slot /\ p.winner = w /\ p.loser = l
        /\ OnRecord(p, r.won, r.lost, r.played)
    <2>1. DayOf(slot, FALSE) \in Nat
      BY <1>2 DEF DayOf
    <2> QED BY <1>1, <2>1, RecordIs DEF Part, LogParts, OnRecord
  <1> HIDE DEF p
  <1>4. log' = Append(log, p)
    BY DEF p
  <1>5. log' \in Seq(LogParts) /\ Len(log') = Len(log) + 1 /\ log'[Len(log) + 1] = p
        /\ \A i \in 1..Len(log) : log'[i] = log[i]
    BY ONLY <1>1, <1>3, <1>4
  <1>6. \A i \in (Len(log) + 1)..Len(log') : i = Len(log) + 1
    BY <1>1, <1>5
  <1>7. Extended(slot, w, l)
    <2>1. \A i \in (Len(log) + 1)..Len(log') :
            log'[i].slot = slot /\ log'[i].winner = w /\ log'[i].loser = l
      BY <1>3, <1>5, <1>6
    <2>2. Len(log') \in Nat /\ Len(log) < Len(log')
      BY <1>1, <1>5
    <2> QED BY <1>1, <1>5, <2>1, <2>2 DEF Extended
  <1>8. PartsOf(slot)' = {Len(log) + 1}
    <2>1. PartsOf(slot)' = (Len(log) + 1)..Len(log')
      BY <1>7, PartsKept
    <2> QED BY <2>1, <1>1, <1>5
  <1>9. Len(log) + 1 \in DOMAIN log'
    BY <1>1, <1>5
  <1> QED BY <1>3, <1>5, <1>7, <1>8, <1>9 DEF InOnePart, OnRecord

\* The final past midnight.
LEMMA TwoDaysKept ==
  ASSUME PlacementsInv, NEW slot, NEW w \in Finalists, NEW l \in Finalists,
         NEW r \in Records, NextSlot(slot, w, l), UNCHANGED <<playoff, withIds, oneDay>>,
         r.won = 2,
         log' = log \o <<Part(slot, w, l, [r EXCEPT !.won = @ - 1, !.played = @ - 1], FALSE),
                         Part(slot, w, l, [won |-> 1, lost |-> 0, played |-> 1], TRUE)>>
  PROVE  Extended(slot, w, l) /\ (InTwoParts(slot, r))'
  <1> DEFINE f == [r EXCEPT !.won = @ - 1, !.played = @ - 1]
             p == Part(slot, w, l, f, FALSE)
             q == Part(slot, w, l, [won |-> 1, lost |-> 0, played |-> 1], TRUE)
  <1>1. log \in Seq(LogParts) /\ Len(log) \in Nat /\ slot \in SlotNames
    BY DEF PlacementsInv, LogTyped, NextSlot
  <1>2. SlotsPlayed \in Nat
    BY SlateIs DEF PlacementsInv, SlotsFilled, LogTyped
  <1>3. f.won = r.won - 1 /\ f.lost = r.lost /\ f.played = r.played - 1
    BY PlacementsAssumption
  <1>4. DayOf(slot, FALSE) \in Nat /\ DayOf(slot, TRUE) \in Nat
    BY <1>2 DEF DayOf
  <1>5. /\ p \in LogParts /\ p.slot = slot /\ p.winner = w /\ p.loser = l
        /\ OnRecord(p, r.won - 1, r.lost, r.played - 1)
    <2>1. f.won \in Nat /\ f.lost \in Nat /\ f.played \in Nat
      BY <1>3, RecordIs
    <2> HIDE DEF f
    <2> QED BY <1>1, <1>3, <1>4, <2>1 DEF Part, LogParts, OnRecord
  <1>6. /\ q \in LogParts /\ q.slot = slot /\ q.winner = w /\ q.loser = l /\ OnRecord(q, 1, 0, 1)
    BY <1>1, <1>4 DEF Part, LogParts, OnRecord
  <1>7. log' = log \o <<p, q>>
    OBVIOUS
  <1> HIDE DEF p, q
  <1>8. <<p, q>> \in Seq(LogParts)
    BY <1>5, <1>6
  <1>9. log' \in Seq(LogParts) /\ Len(log') = Len(log) + 2
        /\ log'[Len(log) + 1] = p /\ log'[Len(log) + 2] = q
        /\ \A i \in 1..Len(log) : log'[i] = log[i]
    <2> DEFINE v == <<p, q>>
    <2>1. v \in Seq(LogParts) /\ Len(v) = 2 /\ v[1] = p /\ v[2] = q
      BY <1>8
    <2>2. log' = log \o v
      BY <1>7
    <2> HIDE DEF v
    <2>3. /\ log \o v \in Seq(LogParts) /\ Len(log \o v) = Len(log) + Len(v)
          /\ \A i \in 1..Len(log) : (log \o v)[i] = log[i]
          /\ \A i \in 1..Len(v) : (log \o v)[Len(log) + i] = v[i]
      <3>1. PICK S : S = LogParts
        OBVIOUS
      <3>2. log \in Seq(S) /\ v \in Seq(S)
        BY <1>1, <2>1, <3>1
      <3>3. /\ log \o v \in Seq(S) /\ Len(log \o v) = Len(log) + Len(v)
            /\ \A i \in 1..Len(log) : (log \o v)[i] = log[i]
            /\ \A i \in 1..Len(v) : (log \o v)[Len(log) + i] = v[i]
        BY ONLY <3>2, Concatenated
      <3> QED BY <3>1, <3>3
    <2>4. (log \o v)[Len(log) + 1] = p /\ (log \o v)[Len(log) + 2] = q
      BY <2>1, <2>3
    <2> QED BY <2>1, <2>2, <2>3, <2>4
  <1>10. \A i \in (Len(log) + 1)..Len(log') : i = Len(log) + 1 \/ i = Len(log) + 2
    BY <1>1, <1>9
  <1>11. Extended(slot, w, l)
    <2>1. \A i \in (Len(log) + 1)..Len(log') :
            log'[i].slot = slot /\ log'[i].winner = w /\ log'[i].loser = l
      BY <1>5, <1>6, <1>9, <1>10
    <2>2. Len(log') \in Nat /\ Len(log) < Len(log')
      BY <1>1, <1>9
    <2> QED BY <1>1, <1>9, <2>1, <2>2 DEF Extended
  <1>12. PartsOf(slot)' = {Len(log) + 1, Len(log) + 2}
    <2>1. PartsOf(slot)' = (Len(log) + 1)..Len(log')
      BY <1>11, PartsKept
    <2> QED BY <2>1, <1>1, <1>9
  <1>13. Len(log) + 1 \in DOMAIN log' /\ Len(log) + 2 \in DOMAIN log'
         /\ Len(log) + 1 # Len(log) + 2
    BY <1>1, <1>9
  <1>14. /\ OnRecord(log'[Len(log) + 1], r.won - 1, r.lost, r.played - 1)
         /\ OnRecord(log'[Len(log) + 2], 1, 0, 1)
    BY <1>5, <1>6, <1>9
  <1>15. \E i, j \in DOMAIN log' :
           /\ i # j /\ PartsOf(slot)' = {i, j} /\ r.won = 2
           /\ OnRecord(log'[i], r.won - 1, r.lost, r.played - 1) /\ OnRecord(log'[j], 1, 0, 1)
    BY <1>12, <1>13, <1>14
  <1>16. (InTwoParts(slot, r))'
    BY <1>15 DEF InTwoParts, OnRecord
  <1> QED BY <1>11, <1>16

\* Every series that is played keeps what the places are read from.
LEMMA SeriesKept ==
  ASSUME PlacementsInv, NEW w \in Finalists, NEW l \in Finalists, NEW r \in Records,
         PlayNextSeries(w, l, r)
  PROVE  PlacementsInv'
  <1> PICK slot : slot = Slate[SlotsPlayed + 1]
    OBVIOUS
  <1>1. NextSlot(slot, w, l)
    <2>1. SlotsPlayed \in 0..Len(Slate) /\ SlotsPlayed # Len(Slate) /\ Len(Slate) \in Nat
          /\ IsSlate(Slate, Len(Slate))
      BY SlateIs DEF PlacementsInv, SlotsFilled, LogTyped, PlayNextSeries, Over
    <2>2. SlotsPlayed + 1 \in 1..Len(Slate)
      BY <2>1
    <2>3. slot \in SlotNames
      BY <2>1, <2>2 DEF IsSlate
    <2> QED BY <2>2, <2>3 DEF NextSlot, PlayNextSeries
  <1>2. UNCHANGED <<playoff, withIds, oneDay>>
    BY DEF PlayNextSeries
  <1>3. Extended(slot, w, l) /\ (InOnePart(slot, r) \/ InTwoParts(slot, r))'
    <2>1. CASE log' = Append(log, Part(slot, w, l, r, FALSE))
      BY <2>1, <1>1, <1>2, OneDayKept
    <2>2. CASE /\ r.won = 2
               /\ log' = log \o
                    <<Part(slot, w, l, [r EXCEPT !.won = @ - 1, !.played = @ - 1], FALSE),
                      Part(slot, w, l, [won |-> 1, lost |-> 0, played |-> 1], TRUE)>>
      BY <2>2, <1>1, <1>2, TwoDaysKept
    <2> QED BY <2>1, <2>2 DEF PlayNextSeries
  <1>4. LogTyped'
    BY <1>3 DEF Extended, PlacementsInv, LogTyped
  <1>5. SlotsFilled' /\ InOrder' /\ OneSeries' /\ Drawn' /\ SeriesRecorded'
    <2>1. SlotsFilled' /\ InOrder' /\ OneSeries' /\ Drawn'
      BY <1>1, <1>3, SlotFilled, OrderKept
    <2>2. SeriesRecorded'
      BY <1>1, <1>3, RecordsKept
    <2> QED BY <2>1, <2>2
  <1> QED BY <1>4, <1>5 DEF PlacementsInv

\* A playoff begins with nothing played.
LEMMA PlayoffStarts == PlacementsInit => PlacementsInv
  <1> SUFFICES ASSUME PlacementsInit PROVE PlacementsInv
    OBVIOUS
  <1>1. log = <<>> /\ DOMAIN log = {} /\ playoff \in Brackets
    BY DEF PlacementsInit
  <1>2. LogTyped
    BY <1>1 DEF PlacementsInit, LogTyped
  <1>3. SlotsOn = {} /\ SlotsPlayed = Cardinality(SlotsOn)
    BY <1>1 DEF SlotsOn, SlotsPlayed
  <1>4. SlotsPlayed = 0
    BY <1>3, FS_EmptySet
  <1>5. SlotsFilled
    BY <1>1, <1>3, <1>4, SlateIs DEF SlotsFilled
  <1>6. InOrder /\ OneSeries /\ Drawn /\ SeriesRecorded
    BY <1>1, <1>3 DEF InOrder, OneSeries, Drawn, SeriesRecorded
  <1> QED BY <1>2, <1>5, <1>6 DEF PlacementsInv

\* What the log says of a playoff at any time, for any records of its series.
THEOREM PlacementsInvariant == PlacementsSpec => []PlacementsInv
  <1>1. PlacementsInv /\ [PlacementsNext]_placementVars => PlacementsInv'
    <2> SUFFICES ASSUME PlacementsInv, [PlacementsNext]_placementVars PROVE PlacementsInv'
      OBVIOUS
    <2>1. CASE PlacementsNext
      BY <2>1, SeriesKept DEF PlacementsNext
    <2>2. CASE UNCHANGED placementVars
      <3>1. playoff' = playoff /\ withIds' = withIds /\ oneDay' = oneDay /\ log' = log
        BY <2>2 DEF placementVars
      <3>2. LogTyped' /\ OneSeries'
        BY <3>1 DEF PlacementsInv, LogTyped, OneSeries
      <3>3. Slate' = Slate /\ SlotsPlayed' = SlotsPlayed /\ SlotsOn' = SlotsOn
            /\ \A s : PartsOf(s)' = PartsOf(s)
        BY <3>1 DEF SlotsPlayed, SlotsOn, Slate, PartsOf
      <3>4. SlotsFilled' /\ InOrder'
        BY <3>1, <3>3 DEF PlacementsInv, SlotsFilled, InOrder
      <3>5. \A s : SlotWinner(s)' = SlotWinner(s) /\ SlotLoser(s)' = SlotLoser(s)
        BY <3>1, <3>3 DEF SlotWinner, SlotLoser
      <3>6. Drawn'
        <4> SUFFICES ASSUME NEW i \in DOMAIN log PROVE PairIn(log[i].slot)' = PairIn(log[i].slot)
          BY <3>1 DEF PlacementsInv, Drawn
        <4> QED BY <3>1, <3>5 DEF PairIn
      <3>7. SeriesRecorded'
        BY <3>1 DEF PlacementsInv, SeriesRecorded, SlotsOn, InOnePart, InTwoParts, PartsOf, OnRecord
      <3> QED BY <3>2, <3>4, <3>6, <3>7 DEF PlacementsInv
    <2> QED BY <2>1, <2>2
  <1> QED BY <1>1, PlayoffStarts, PTL DEF PlacementsSpec

\* The sum over one thing.
LEMMA SumOfOne ==
  ASSUME NEW i, NEW f, f = [t \in {i} |-> f[t]], f[i] \in Int
  PROVE  SumFunction(f) = f[i]
  <1>1. IsFiniteSet({i}) /\ \A t \in {i} : f[t] \in Int
    BY FS_Singleton
  <1>2. Total(f, {i}) = f[i] + Total(f, {i} \ {i})
    BY <1>1, TotalWithout
  <1>3. Total(f, {i} \ {i}) = 0
    <2>1. {i} \ {i} = {}
      OBVIOUS
    <2> QED BY <2>1, TotalEmpty
  <1> QED BY <1>2, <1>3, SumOfFunction

\* The sum over two things.
LEMMA SumOfTwo ==
  ASSUME NEW i, NEW j, i # j, NEW f, f = [t \in {i, j} |-> f[t]], f[i] \in Int, f[j] \in Int
  PROVE  SumFunction(f) = f[i] + f[j]
  <1>1. IsFiniteSet({i, j}) /\ \A t \in {i, j} : f[t] \in Int
    <2>1. IsFiniteSet({i} \cup {j})
      BY FS_Singleton, FS_Union
    <2>2. {i} \cup {j} = {i, j}
      OBVIOUS
    <2> QED BY <2>1, <2>2
  <1>2. Total(f, {i, j}) = f[i] + Total(f, {i, j} \ {i})
    BY <1>1, TotalWithout
  <1>3. {i, j} \ {i} = {j} /\ IsFiniteSet({j}) /\ \A t \in {j} : f[t] \in Int
    BY FS_Singleton
  <1>4. Total(f, {j}) = f[j] + Total(f, {j} \ {j})
    BY <1>3, TotalWithout
  <1>5. Total(f, {j} \ {j}) = 0
    <2>1. {j} \ {j} = {}
      OBVIOUS
    <2> QED BY <2>1, TotalEmpty
  <1>6. Total(f, {i, j}) = f[i] + f[j]
    <2>1. Total(f, {i, j}) = f[i] + Total(f, {j})
      BY <1>2, <1>3
    <2>2. Total(f, {j}) = f[j] + 0
      BY <1>4, <1>5
    <2> QED BY <2>1, <2>2
  <1> QED BY <1>6, SumOfFunction

-----------------------------------------------------------------------------
(* What the series of a log say *)

\* A series is one of two teams, the parts all have the same winner.
LEMMA SeriesIs ==
  ASSUME PlacementsInv, NEW s \in SlotsOn
  PROVE  /\ PartsOf(s) # {} /\ PartsOf(s) \subseteq DOMAIN log /\ IsFiniteSet(PartsOf(s))
         /\ \A i \in PartsOf(s) : log[i].winner = SlotWinner(s) /\ log[i].loser = SlotLoser(s)
         /\ SlotWinner(s) # SlotLoser(s) /\ PairIn(s) = {SlotWinner(s), SlotLoser(s)}
         /\ {SlotWinner(s), SlotLoser(s)} \subseteq Finalists
  <1>1. log \in Seq(LogParts) /\ DOMAIN log = 1..Len(log) /\ Len(log) \in Nat
    BY DEF PlacementsInv, LogTyped
  <1>2. PartsOf(s) # {} /\ PartsOf(s) \subseteq DOMAIN log
    BY DEF SlotsOn, PartsOf
  <1>3. IsFiniteSet(PartsOf(s))
    <2>1. IsFiniteSet(1..Len(log))
      BY <1>1, FS_Interval
    <2> QED BY <2>1, <1>1, <1>2, FS_Subset
  <1>4. PICK i \in PartsOf(s) :
          SlotWinner(s) = log[i].winner /\ SlotLoser(s) = log[i].loser
    BY <1>2 DEF SlotWinner, SlotLoser
  <1>5. i \in DOMAIN log /\ log[i].slot = s
    BY DEF PartsOf
  <1>6. \A j \in PartsOf(s) : log[j].winner = SlotWinner(s) /\ log[j].loser = SlotLoser(s)
    BY <1>4, <1>5 DEF PartsOf, PlacementsInv, OneSeries
  <1>7. log[i].winner # log[i].loser /\ PairIn(s) = {log[i].winner, log[i].loser}
    BY <1>5 DEF PlacementsInv, Drawn
  <1>8. log[i] \in LogParts
    BY <1>1, <1>5
  <1>9. log[i].winner \in Finalists /\ log[i].loser \in Finalists
    BY <1>8 DEF LogParts
  <1> QED BY <1>2, <1>3, <1>4, <1>6, <1>7, <1>9

\* The teams of a series are its winner and its loser.
LEMMA TeamsAre ==
  ASSUME PlacementsInv, NEW s \in SlotsOn
  PROVE  TeamsIn(PartsOf(s)) = {SlotWinner(s), SlotLoser(s)}
  <1>1. PartsOf(s) # {}
        /\ \A i \in PartsOf(s) : {log[i].winner, log[i].loser} = {SlotWinner(s), SlotLoser(s)}
    BY SeriesIs
  <1> QED BY <1>1 DEF TeamsIn

\* What is on record of a series adds up to one of the records.
LEMMA GamesAre ==
  ASSUME PlacementsInv, NEW s \in SlotsOn
  PROVE  \E r \in Records :
           /\ WinsIn(PartsOf(s), SlotWinner(s)) = r.won
           /\ WinsIn(PartsOf(s), SlotLoser(s)) = r.lost
           /\ NothingMissing => r.won + r.lost = r.played
  <1>1. PICK r \in Records : InOnePart(s, r) \/ InTwoParts(s, r)
    BY DEF PlacementsInv, SeriesRecorded
  <1> DEFINE W == SlotWinner(s)
             L == SlotLoser(s)
             P == PartsOf(s)
             won == [i \in P |-> IF log[i].winner = W THEN log[i].won ELSE log[i].lost]
             lost == [i \in P |-> IF log[i].winner = L THEN log[i].won ELSE log[i].lost]
  <1>2. WinsIn(P, W) = SumFunction(won) /\ WinsIn(P, L) = SumFunction(lost)
    BY DEF WinsIn
  <1>3. \A i \in P : won[i] = log[i].won /\ lost[i] = log[i].lost
    BY SeriesIs
  <1>4. won = [i \in P |-> won[i]] /\ lost = [i \in P |-> lost[i]]
    OBVIOUS
  <1>5. r.won \in Int /\ r.lost \in Int /\ r.played \in Int
    BY RecordIs
  <1> HIDE DEF won, lost, W, L
  <1>6. CASE InOnePart(s, r)
    <2>1. PICK i \in DOMAIN log : P = {i} /\ OnRecord(log[i], r.won, r.lost, r.played)
      BY <1>6 DEF InOnePart
    <2>2. won[i] = r.won /\ lost[i] = r.lost /\ log[i].played = r.played
          /\ log[i].won = r.won /\ log[i].lost = r.lost
      BY <2>1, <1>3 DEF OnRecord
    <2> HIDE DEF P
    <2>3. SumFunction(won) = r.won
      BY <2>1, <2>2, <1>4, <1>5, SumOfOne
    <2>4. SumFunction(lost) = r.lost
      BY <2>1, <2>2, <1>4, <1>5, SumOfOne
    <2>5. NothingMissing => r.won + r.lost = r.played
      BY <2>2 DEF NothingMissing
    <2> QED BY <1>2, <2>3, <2>4, <2>5 DEF P, W, L
  <1>7. CASE InTwoParts(s, r)
    <2>1. PICK i \in DOMAIN log, j \in DOMAIN log :
            /\ i # j /\ P = {i, j}
            /\ OnRecord(log[i], r.won - 1, r.lost, r.played - 1) /\ OnRecord(log[j], 1, 0, 1)
      BY <1>7 DEF InTwoParts
    <2>2. /\ won[i] = r.won - 1 /\ lost[i] = r.lost /\ won[j] = 1 /\ lost[j] = 0
          /\ log[i].won = r.won - 1 /\ log[i].lost = r.lost /\ log[i].played = r.played - 1
      BY <2>1, <1>3 DEF OnRecord
    <2> HIDE DEF P
    <2>3. won[i] \in Int /\ won[j] \in Int /\ lost[i] \in Int /\ lost[j] \in Int
      BY <2>2, <1>5
    <2>4. SumFunction(won) = won[i] + won[j]
      BY <2>1, <2>3, <1>4, SumOfTwo
    <2>5. SumFunction(lost) = lost[i] + lost[j]
      BY <2>1, <2>3, <1>4, SumOfTwo
    <2>6. SumFunction(won) = r.won /\ SumFunction(lost) = r.lost
      BY <2>2, <2>4, <2>5, <1>5
    <2>7. NothingMissing => r.won + r.lost = r.played
      <3>1. NothingMissing => r.played - 1 = (r.won - 1) + r.lost
        BY <2>2 DEF NothingMissing
      <3>2. \A a, b, c \in Int : c - 1 = (a - 1) + b => a + b = c
        OBVIOUS
      <3> QED BY ONLY <3>1, <3>2, <1>5
    <2> QED BY <1>2, <2>6, <2>7 DEF P, W, L
  <1> QED BY <1>1, <1>6, <1>7

\* Only the winner can be ahead, and is if no result is missing.
LEMMA AheadAre ==
  ASSUME PlacementsInv, NEW s \in SlotsOn
  PROVE  /\ \/ Ahead(PartsOf(s)) = {} /\ Behind(PartsOf(s)) = {} /\ ~NothingMissing
            \/ Ahead(PartsOf(s)) = {SlotWinner(s)} /\ Behind(PartsOf(s)) = {SlotLoser(s)}
  <1> DEFINE W == SlotWinner(s)
             L == SlotLoser(s)
             P == PartsOf(s)
  <1>1. TeamsIn(P) = {W, L} /\ W # L
    BY TeamsAre, SeriesIs
  <1>2. PICK r \in Records :
          /\ WinsIn(P, W) = r.won /\ WinsIn(P, L) = r.lost
          /\ NothingMissing => r.won + r.lost = r.played
    BY GamesAre
  <1>3. r.won \in Nat /\ r.lost \in Nat /\ r.lost <= r.won
        /\ (r.won + r.lost = r.played => r.lost < r.won)
    BY RecordIs
  <1> HIDE DEF W, L, P
  <1>4. TeamsIn(P) \ {W} = {L} /\ TeamsIn(P) \ {L} = {W}
    BY <1>1
  <1>5. Ahead(P) = {t \in {W, L} : \A u \in {W, L} \ {t} : WinsIn(P, t) > WinsIn(P, u)}
    BY <1>1 DEF Ahead
  <1>6. L \notin Ahead(P) /\ (W \in Ahead(P) <=> r.won > r.lost) /\ Ahead(P) \subseteq {W, L}
    BY <1>1, <1>2, <1>3, <1>5
  <1>7. CASE r.won > r.lost
    <2>1. Ahead(P) = {W}
      BY <1>6, <1>7
    <2>2. Behind(P) = {L}
      BY <2>1, <1>4 DEF Behind
    <2> QED BY <2>1, <2>2 DEF W, L, P
  <1>8. CASE ~(r.won > r.lost)
    <2>1. Ahead(P) = {} /\ ~NothingMissing
      BY <1>2, <1>3, <1>6, <1>8
    <2>2. Behind(P) = {}
      BY <2>1 DEF Behind
    <2> QED BY <2>1, <2>2 DEF W, L, P
  <1> QED BY <1>7, <1>8

-----------------------------------------------------------------------------
(* A playoff that is over, series by series *)

Turn(k) == PartsOf(Slate[k])
WinnerAt(k) == SlotWinner(Slate[k])
LoserAt(k) == SlotLoser(Slate[k])
Turns == 1..Len(Slate)

\* The groups are the series in turn, each of two teams of whom only the winner is ahead.
TurnsTold ==
  /\ Len(Slate) \in Nat /\ SeriesGroups = {Turn(k) : k \in Turns}
  /\ \A a, b \in Turns :
       LastPart(Turn(a)) \in Nat /\ (a < b => LastPart(Turn(a)) < LastPart(Turn(b)))
  /\ \A k \in Turns :
       /\ PairIn(Slate[k]) = {WinnerAt(k), LoserAt(k)} /\ WinnerAt(k) # LoserAt(k)
       /\ TeamsIn(Turn(k)) = {WinnerAt(k), LoserAt(k)}
       /\ \/ Ahead(Turn(k)) = {} /\ Behind(Turn(k)) = {} /\ ~NothingMissing
          \/ Ahead(Turn(k)) = {WinnerAt(k)} /\ Behind(Turn(k)) = {LoserAt(k)}

\* The last part of a series.
LEMMA LastPartIs ==
  ASSUME PlacementsInv, NEW s \in SlotsOn
  PROVE  LastPart(PartsOf(s)) \in PartsOf(s) /\ LastPart(PartsOf(s)) \in Nat
  <1>1. PartsOf(s) # {} /\ PartsOf(s) \subseteq DOMAIN log /\ IsFiniteSet(PartsOf(s))
    BY SeriesIs
  <1>2. \A i \in DOMAIN log : i \in Nat
    BY DEF PlacementsInv, LogTyped
  <1>3. \A i \in PartsOf(s) : i \in Nat
    BY <1>1, <1>2
  <1>4. Max(PartsOf(s)) \in PartsOf(s)
    BY <1>1, <1>3, MaxIs
  <1> QED BY <1>3, <1>4 DEF LastPart

\* If the matches tell the series apart, they are grouped as they were played.
LEMMA ToldInTurns ==
  ASSUME PlacementsInv, Over, Told
  PROVE  TurnsTold
  <1>1. /\ Len(Slate) \in Nat /\ IsSlate(Slate, Len(Slate))
        /\ SlotsOn = {Slate[k] : k \in Turns}
    BY SlateIs DEF PlacementsInv, LogTyped, SlotsFilled, Over, Turns
  <1>2. SeriesGroups = {Turn(k) : k \in Turns}
    <2>1. \A j \in DOMAIN log :
            {i \in DOMAIN log : KeyOf(log[i]) = KeyOf(log[j])} = PartsOf(log[j].slot)
      BY DEF Told, PartsOf
    <2>2. SeriesGroups = {PartsOf(log[j].slot) : j \in DOMAIN log}
      BY <2>1 DEF SeriesGroups
    <2>3. SeriesGroups = {PartsOf(s) : s \in SlotsOn}
      BY <2>2 DEF SlotsOn
    <2> QED BY <2>3, <1>1 DEF Turn
  <1>3. ASSUME NEW a \in Turns, NEW b \in Turns
        PROVE  LastPart(Turn(a)) \in Nat /\ (a < b => LastPart(Turn(a)) < LastPart(Turn(b)))
    <2>1. Slate[a] \in SlotsOn /\ Slate[b] \in SlotsOn
      BY <1>1
    <2>2. PICK i : i = LastPart(Turn(a))
      OBVIOUS
    <2>3. PICK j : j = LastPart(Turn(b))
      OBVIOUS
    <2>4. i \in PartsOf(Slate[a]) /\ i \in Nat /\ j \in PartsOf(Slate[b]) /\ j \in Nat
      BY <2>1, <2>2, <2>3, LastPartIs DEF Turn
    <2>5. i \in DOMAIN log /\ log[i].slot = Slate[a] /\ j \in DOMAIN log /\ log[j].slot = Slate[b]
      BY <2>4 DEF PartsOf
    <2>6. j < i => b <= a
      BY <2>5 DEF PlacementsInv, InOrder, Turns
    <2>7. i = j => a = b
      BY <2>5, <1>1 DEF IsSlate, Turns
    <2>8. a \in Nat /\ b \in Nat
      BY <1>1 DEF Turns
    <2>9. a < b => i < j
      BY <2>4, <2>6, <2>7, <2>8
    <2> QED BY <2>2, <2>3, <2>4, <2>9
  <1>4. ASSUME NEW k \in Turns
        PROVE  /\ PairIn(Slate[k]) = {WinnerAt(k), LoserAt(k)} /\ WinnerAt(k) # LoserAt(k)
               /\ TeamsIn(Turn(k)) = {WinnerAt(k), LoserAt(k)}
               /\ \/ Ahead(Turn(k)) = {} /\ Behind(Turn(k)) = {} /\ ~NothingMissing
                  \/ Ahead(Turn(k)) = {WinnerAt(k)} /\ Behind(Turn(k)) = {LoserAt(k)}
    <2>1. PICK s \in SlotsOn : s = Slate[k]
      BY <1>1
    <2>2. PairIn(s) = {SlotWinner(s), SlotLoser(s)} /\ SlotWinner(s) # SlotLoser(s)
      BY SeriesIs
    <2>3. TeamsIn(PartsOf(s)) = {SlotWinner(s), SlotLoser(s)}
      BY TeamsAre
    <2>4. \/ Ahead(PartsOf(s)) = {} /\ Behind(PartsOf(s)) = {} /\ ~NothingMissing
          \/ Ahead(PartsOf(s)) = {SlotWinner(s)} /\ Behind(PartsOf(s)) = {SlotLoser(s)}
      BY AheadAre
    <2> QED BY <2>1, <2>2, <2>3, <2>4 DEF WinnerAt, LoserAt, Turn
  <1> QED BY <1>1, <1>2, <1>3, <1>4 DEF TurnsTold

\* The last of some of them.
LEMMA LastTurn ==
  ASSUME TurnsTold, NEW T \in SUBSET Turns, NEW m \in T, \A k \in T : k <= m
  PROVE  LastOf({Turn(k) : k \in T}) = {Turn(m)}
  <1>1. \A k \in T : /\ LastPart(Turn(k)) \in Nat /\ LastPart(Turn(k)) <= LastPart(Turn(m))
                     /\ k # m => LastPart(Turn(k)) < LastPart(Turn(m))
    BY DEF TurnsTold, Turns
  <1>2. ASSUME NEW g \in LastOf({Turn(k) : k \in T}) PROVE g = Turn(m)
    <2>1. PICK k \in T : g = Turn(k)
      BY DEF LastOf
    <2>2. LastPart(Turn(m)) <= LastPart(Turn(k))
      BY <2>1 DEF LastOf
    <2> QED BY <2>1, <2>2, <1>1
  <1>3. Turn(m) \in LastOf({Turn(k) : k \in T})
    BY <1>1 DEF LastOf
  <1> QED BY <1>2, <1>3

\* Turns differ.
LEMMA TurnsDiffer ==
  ASSUME TurnsTold, NEW a \in Turns, NEW b \in Turns, Turn(a) = Turn(b)
  PROVE  a = b
  <1>1. a \in Nat /\ b \in Nat /\ LastPart(Turn(a)) \in Nat
        /\ (a < b => LastPart(Turn(a)) < LastPart(Turn(b)))
        /\ (b < a => LastPart(Turn(b)) < LastPart(Turn(a)))
    BY DEF TurnsTold, Turns
  <1> QED BY <1>1

\* A team's last series before the final.
LEMMA LastBeforeIs ==
  ASSUME TurnsTold, NEW n, n = Len(Slate), NEW m \in 1..(n - 1), NEW t,
         t \in {WinnerAt(m), LoserAt(m)},
         \A k \in (m + 1)..(n - 1) : t \notin {WinnerAt(k), LoserAt(k)}
  PROVE  LastBefore({t}, Turn(n)) = {Turn(m)}
  <1> DEFINE T == {k \in 1..(n - 1) : t \in {WinnerAt(k), LoserAt(k)}}
  <1>1. n \in Nat /\ m \in Turns /\ 1..(n - 1) \subseteq Turns /\ n \in Turns
        /\ \A k \in Turns : k \in 1..(n - 1) \/ k = n
    BY DEF TurnsTold, Turns
  <1>2. \A k \in Turns : TeamsIn(Turn(k)) = {WinnerAt(k), LoserAt(k)}
    BY DEF TurnsTold
  <1>3. {g \in SeriesGroups \ {Turn(n)} : {t} \subseteq TeamsIn(g)} = {Turn(k) : k \in T}
    <2>1. \A k \in Turns : Turn(k) # Turn(n) <=> k \in 1..(n - 1)
      <3>1. n \notin 1..(n - 1)
        BY <1>1
      <3> QED BY <1>1, <3>1, TurnsDiffer
    <2>2. SeriesGroups = {Turn(k) : k \in Turns}
      BY DEF TurnsTold
    <2> QED BY <1>1, <1>2, <2>1, <2>2
  <1>4. m \in T /\ T \in SUBSET Turns
    BY <1>1
  <1>5. \A k \in T : k <= m
    BY <1>1
  <1> HIDE DEF T
  <1>6. LastOf({Turn(k) : k \in T}) = {Turn(m)}
    BY <1>4, <1>5, LastTurn
  <1> QED BY <1>3, <1>6 DEF LastBefore

\* The maximum of two numbers is one of them.
LEMMA MaxOfTwo ==
  ASSUME NEW i \in Nat, NEW j \in Nat
  PROVE  /\ Max({i, j}) \in {i, j} /\ Max({i, j}) \in Nat
         /\ i <= Max({i, j}) /\ j <= Max({i, j})
  <1> DEFINE S == {i, j}
  <1>1. IsFiniteSet(S)
    <2>1. IsFiniteSet({i} \cup {j})
      BY FS_Singleton, FS_Union
    <2>2. {i} \cup {j} = S
      OBVIOUS
    <2> QED BY <2>1, <2>2
  <1>2. S # {} /\ (\A y \in S : y \in Nat) /\ i \in S /\ j \in S
    OBVIOUS
  <1> HIDE DEF S
  <1>3. Max(S) \in S /\ \A y \in S : y <= Max(S)
    BY <1>1, <1>2, MaxIs
  <1> QED BY <1>2, <1>3 DEF S

\* A third place of high confidence was won after both series it is read from.
LEMMA HighIs ==
  ASSUME TurnsTold, NEW n, n = Len(Slate), NEW a \in 1..(n - 1), NEW b \in 1..(n - 1),
         LastBefore(Ahead(Turn(n)), Turn(n)) = {Turn(a)},
         LastBefore(Behind(Turn(n)), Turn(n)) = {Turn(b)},
         NEW x \in ThirdHigh(Turn(n))
  PROVE  \E k \in 1..(n - 1) : k > a /\ k > b /\ x \in Ahead(Turn(k))
  <1> DEFINE after == Max({LastPart(Turn(a)), LastPart(Turn(b))})
  <1>1. PICK g \in ThirdPlaceMatches(Behind(Turn(a)), Behind(Turn(b)), after, Turn(n)) :
          x \in Ahead(g)
    <2>1. PICK sw \in LastBefore(Ahead(Turn(n)), Turn(n)),
               sl \in LastBefore(Behind(Turn(n)), Turn(n)) :
            x \in ThirdAfter(sw, sl, Turn(n))
      BY DEF ThirdHigh
    <2>2. sw = Turn(a) /\ sl = Turn(b)
      OBVIOUS
    <2>3. x \in UNION {Ahead(g) : g \in ThirdPlaceMatches(Behind(sw), Behind(sl),
                                      Max({LastPart(sw), LastPart(sl)}), Turn(n))}
      BY <2>1 DEF ThirdAfter
    <2> QED BY <2>2, <2>3
  <1>2. g \in SeriesGroups /\ g # Turn(n) /\ LastPart(g) > after
    BY <1>1 DEF ThirdPlaceMatches, LastOf
  <1>3. PICK k \in Turns : g = Turn(k)
    BY <1>2 DEF TurnsTold
  <1>4. n \in Nat /\ a \in Turns /\ b \in Turns /\ k # n
    BY <1>2, <1>3 DEF TurnsTold, Turns
  <1>5. /\ LastPart(Turn(a)) \in Nat /\ LastPart(Turn(b)) \in Nat /\ LastPart(Turn(k)) \in Nat
        /\ k <= a => LastPart(Turn(k)) <= LastPart(Turn(a))
        /\ k <= b => LastPart(Turn(k)) <= LastPart(Turn(b))
    BY <1>3, <1>4 DEF TurnsTold, Turns
  <1>6. after \in Nat /\ LastPart(Turn(a)) <= after /\ LastPart(Turn(b)) <= after
    BY <1>5, MaxOfTwo
  <1> HIDE DEF after
  <1>7. k > a /\ k > b
    <2>1. k \in Nat /\ a \in Nat /\ b \in Nat
      BY <1>3, <1>4 DEF Turns
    <2> QED BY <2>1, <1>2, <1>3, <1>5, <1>6
  <1>8. k \in 1..(n - 1)
    BY <1>3, <1>4 DEF Turns
  <1> QED BY <1>1, <1>3, <1>7, <1>8

\* One of low confidence lost to the final's loser in its series before.
LEMMA LowIs ==
  ASSUME NEW n, NEW b, LastBefore(Behind(Turn(n)), Turn(n)) = {Turn(b)},
         NEW x \in ThirdLow(Turn(n))
  PROVE  x \in Behind(Turn(b)) /\ x \notin Ahead(Turn(n)) /\ Ahead(Turn(b)) = Behind(Turn(n))
  BY DEF ThirdLow

\* What may be derived as the third place.
ThirdTrue(n) ==
  /\ \A x \in ThirdHigh(Turn(n)) : x \in TruePlaces[3]
  /\ ThirdHigh(Turn(n)) = {} /\ NothingMissing =>
       \A x \in ThirdLow(Turn(n)) : x \in TruePlaces[3]

\* Without a third-place match it is a loser of the semifinals.
LEMMA PlainThird ==
  ASSUME TurnsTold, playoff = "plain", Ahead(Turn(4)) # {}
  PROVE  ThirdTrue(4)
  <1>1. /\ Len(Slate) = 4 /\ Slate[2] = "semi1" /\ Slate[3] = "semi2" /\ Slate[4] = "final"
    BY SlatePlain DEF IsSlate
  <1>2. 2 \in Turns /\ 3 \in Turns /\ 4 \in Turns
    BY <1>1 DEF Turns
  <1>3. /\ {WinnerAt(2), LoserAt(2)} = {1, 4} /\ {WinnerAt(3), LoserAt(3)} = {2, 3}
        /\ {WinnerAt(4), LoserAt(4)} = {WinnerAt(2), WinnerAt(3)}
        /\ WinnerAt(4) # LoserAt(4)
    <2>1. PairIn(Slate[2]) = {1, 4} /\ PairIn(Slate[3]) = {2, 3}
          /\ PairIn(Slate[4]) = {WinnerAt(2), WinnerAt(3)}
      BY <1>1 DEF PairIn, WinnerAt
    <2> QED BY <2>1, <1>2 DEF TurnsTold
  <1>4. /\ Ahead(Turn(4)) = {WinnerAt(4)} /\ Behind(Turn(4)) = {LoserAt(4)}
        /\ \A k \in {2, 3} : Behind(Turn(k)) \subseteq {LoserAt(k)}
    BY <1>2 DEF TurnsTold
  <1>5. TruePlaces[3] = {LoserAt(2), LoserAt(3)}
    BY <1>1 DEF TruePlaces, LoserAt
  <1>6. LastBefore({WinnerAt(2)}, Turn(4)) = {Turn(2)}
    <2>1. \A k \in 3..3 : WinnerAt(2) \notin {WinnerAt(k), LoserAt(k)}
      BY <1>3
    <2>2. 2 \in 1..3 /\ 2 + 1 = 3 /\ 4 - 1 = 3
      OBVIOUS
    <2> QED BY <2>1, <2>2, <1>1, LastBeforeIs
  <1>7. LastBefore({WinnerAt(3)}, Turn(4)) = {Turn(3)}
    <2>1. \A k \in 4..3 : WinnerAt(3) \notin {WinnerAt(k), LoserAt(k)}
      OBVIOUS
    <2>2. 3 \in 1..3 /\ 3 + 1 = 4 /\ 4 - 1 = 3
      OBVIOUS
    <2> QED BY <2>1, <2>2, <1>1, LastBeforeIs
  <1>8. PICK a \in {2, 3}, b \in {2, 3} :
          /\ a # b /\ LastBefore(Ahead(Turn(4)), Turn(4)) = {Turn(a)}
          /\ LastBefore(Behind(Turn(4)), Turn(4)) = {Turn(b)}
    BY <1>3, <1>4, <1>6, <1>7
  <1>9. ThirdHigh(Turn(4)) = {}
    <2>1. SUFFICES ASSUME NEW x \in ThirdHigh(Turn(4)) PROVE FALSE
      OBVIOUS
    <2>2. a \in 1..(4 - 1) /\ b \in 1..(4 - 1)
      BY <1>8
    <2>3. \E k \in 1..(4 - 1) : k > a /\ k > b /\ x \in Ahead(Turn(k))
      BY <2>2, <1>1, <1>8, HighIs
    <2> QED BY <2>3, <1>8
  <1>10. \A x \in ThirdLow(Turn(4)) : x \in TruePlaces[3]
    BY <1>4, <1>5, <1>8, LowIs
  <1> QED BY <1>9, <1>10 DEF ThirdTrue

\* With a third-place match it is its winner.
LEMMA ThirdThird ==
  ASSUME TurnsTold, playoff = "third", Ahead(Turn(5)) # {}
  PROVE  ThirdTrue(5)
  <1>1. /\ Len(Slate) = 5 /\ Slate[2] = "semi1" /\ Slate[3] = "semi2" /\ Slate[4] = "third"
        /\ Slate[5] = "final"
    BY SlateThird DEF IsSlate
  <1>2. 2 \in Turns /\ 3 \in Turns /\ 4 \in Turns /\ 5 \in Turns
        /\ \A k \in Turns : k = 1 \/ k = 2 \/ k = 3 \/ k = 4 \/ k = 5
    BY <1>1 DEF Turns
  <1>3. /\ {WinnerAt(2), LoserAt(2)} = {1, 4} /\ {WinnerAt(3), LoserAt(3)} = {2, 3}
        /\ {WinnerAt(4), LoserAt(4)} = {LoserAt(2), LoserAt(3)}
        /\ {WinnerAt(5), LoserAt(5)} = {WinnerAt(2), WinnerAt(3)}
        /\ WinnerAt(5) # LoserAt(5)
    <2>1. PairIn(Slate[2]) = {1, 4} /\ PairIn(Slate[3]) = {2, 3}
          /\ PairIn(Slate[4]) = {LoserAt(2), LoserAt(3)}
          /\ PairIn(Slate[5]) = {WinnerAt(2), WinnerAt(3)}
      BY <1>1 DEF PairIn, WinnerAt, LoserAt
    <2> QED BY <2>1, <1>2 DEF TurnsTold
  <1>4. /\ Ahead(Turn(5)) = {WinnerAt(5)} /\ Behind(Turn(5)) = {LoserAt(5)}
        /\ \A k \in Turns : Ahead(Turn(k)) \subseteq {WinnerAt(k)}
        /\ NothingMissing =>
             \A k \in Turns : Ahead(Turn(k)) = {WinnerAt(k)} /\ Behind(Turn(k)) = {LoserAt(k)}
    BY <1>2 DEF TurnsTold
  <1>5. TruePlaces[3] = {WinnerAt(4)}
    BY <1>1 DEF TruePlaces, WinnerAt
  <1>6. LastBefore({WinnerAt(2)}, Turn(5)) = {Turn(2)}
    <2>1. \A k \in 3..4 : WinnerAt(2) \notin {WinnerAt(k), LoserAt(k)}
      <3>1. \A k \in 3..4 : k = 3 \/ k = 4
        OBVIOUS
      <3>2. LoserAt(2) # WinnerAt(2)
        BY <1>2 DEF TurnsTold
      <3> QED BY <3>1, <3>2, <1>3
    <2>2. 2 \in 1..4 /\ 2 + 1 = 3 /\ 5 - 1 = 4
      OBVIOUS
    <2> QED BY <2>1, <2>2, <1>1, LastBeforeIs
  <1>7. LastBefore({WinnerAt(3)}, Turn(5)) = {Turn(3)}
    <2>1. \A k \in 4..4 : WinnerAt(3) \notin {WinnerAt(k), LoserAt(k)}
      <3>1. \A k \in 4..4 : k = 4
        OBVIOUS
      <3>2. LoserAt(3) # WinnerAt(3)
        BY <1>2 DEF TurnsTold
      <3> QED BY <3>1, <3>2, <1>3
    <2>2. 3 \in 1..4 /\ 3 + 1 = 4 /\ 5 - 1 = 4
      OBVIOUS
    <2> QED BY <2>1, <2>2, <1>1, LastBeforeIs
  <1>8. PICK a \in {2, 3}, b \in {2, 3} :
          /\ a # b /\ WinnerAt(5) = WinnerAt(a) /\ LoserAt(5) = WinnerAt(b)
          /\ LastBefore(Ahead(Turn(5)), Turn(5)) = {Turn(a)}
          /\ LastBefore(Behind(Turn(5)), Turn(5)) = {Turn(b)}
    BY <1>3, <1>4, <1>6, <1>7
  <1>9. \A x \in ThirdHigh(Turn(5)) : x \in TruePlaces[3]
    <2>1. SUFFICES ASSUME NEW x \in ThirdHigh(Turn(5)) PROVE x = WinnerAt(4)
      BY <1>5
    <2>2. a \in 1..(5 - 1) /\ b \in 1..(5 - 1)
      BY <1>8
    <2>3. PICK k \in 1..(5 - 1) : k > a /\ k > b /\ x \in Ahead(Turn(k))
      BY <2>2, <1>1, <1>8, HighIs
    <2>4. k = 4
      BY <2>3, <1>8
    <2> QED BY <2>3, <2>4, <1>2, <1>4
  <1>10. ASSUME NothingMissing PROVE ThirdHigh(Turn(5)) # {}
    <2>1. /\ Turn(a) # Turn(b) /\ Ahead(Turn(a)) = Ahead(Turn(5))
          /\ Ahead(Turn(b)) = Behind(Turn(5))
      BY <1>2, <1>4, <1>8, <1>10, TurnsDiffer
    <2>2. Behind(Turn(a)) \cup Behind(Turn(b)) = {LoserAt(2), LoserAt(3)}
      <3>1. Behind(Turn(a)) = {LoserAt(a)} /\ Behind(Turn(b)) = {LoserAt(b)}
        BY <1>2, <1>4, <1>8, <1>10
      <3> QED BY <3>1, <1>8
    <2>3. PICK after : after = Max({LastPart(Turn(a)), LastPart(Turn(b))})
      OBVIOUS
    <2>4. after = LastPart(Turn(2)) \/ after = LastPart(Turn(3))
      <3>1. LastPart(Turn(a)) \in Nat /\ LastPart(Turn(b)) \in Nat
        BY <1>2, <1>8 DEF TurnsTold
      <3>2. after \in {LastPart(Turn(a)), LastPart(Turn(b))}
        BY <3>1, <2>3, MaxOfTwo
      <3> QED BY <3>2, <1>8
    <2>5. LastPart(Turn(4)) > after /\ LastPart(Turn(1)) <= after
      <3>1. 1 \in Turns
        BY <1>1 DEF Turns
      <3>2. /\ \A k \in {1, 2, 3, 4} : LastPart(Turn(k)) \in Nat
            /\ LastPart(Turn(1)) < LastPart(Turn(2)) /\ LastPart(Turn(1)) < LastPart(Turn(3))
            /\ LastPart(Turn(2)) < LastPart(Turn(4)) /\ LastPart(Turn(3)) < LastPart(Turn(4))
        BY <3>1, <1>2 DEF TurnsTold
      <3> QED BY <3>2, <2>4
    <2>6. Turn(4) \in ThirdPlaceMatches(Behind(Turn(a)), Behind(Turn(b)), after, Turn(5))
      <3>1. PICK G : G = {g \in SeriesGroups \ {Turn(5)} :
                             /\ TeamsIn(g) = Behind(Turn(a)) \cup Behind(Turn(b))
                             /\ LastPart(g) > after /\ Ahead(g) # {}}
        OBVIOUS
      <3>2. Turn(4) \in G
        <4>1. Turn(4) \in SeriesGroups /\ Turn(4) # Turn(5)
          BY <1>2, TurnsDiffer DEF TurnsTold
        <4>2. TeamsIn(Turn(4)) = {LoserAt(2), LoserAt(3)}
          BY <1>2, <1>3 DEF TurnsTold
        <4>3. Ahead(Turn(4)) # {}
          BY <1>2, <1>4, <1>10
        <4> QED BY <4>1, <4>2, <4>3, <3>1, <2>2, <2>5
      <3>3. ASSUME NEW g \in G PROVE LastPart(g) <= LastPart(Turn(4))
        <4>1. PICK k \in Turns : g = Turn(k) /\ k # 5
          BY <3>1 DEF TurnsTold
        <4>2. LastPart(Turn(k)) \in Nat /\ LastPart(Turn(4)) \in Nat
              /\ (k < 4 => LastPart(Turn(k)) < LastPart(Turn(4)))
          BY <1>2 DEF TurnsTold
        <4>3. k < 4 \/ k = 4
          BY <1>2, <4>1
        <4> QED BY <4>1, <4>2, <4>3
      <3> QED BY <3>1, <3>2, <3>3 DEF ThirdPlaceMatches, LastOf
    <2>7. WinnerAt(4) \in Ahead(Turn(4))
      BY <1>2, <1>4, <1>10
    <2>8. WinnerAt(4) \in ThirdHigh(Turn(5))
      <3>1. WinnerAt(4) \in ThirdAfter(Turn(a), Turn(b), Turn(5))
        BY <2>1, <2>3, <2>6, <2>7 DEF ThirdAfter
      <3>2. Turn(a) \in LastBefore(Ahead(Turn(5)), Turn(5))
            /\ Turn(b) \in LastBefore(Behind(Turn(5)), Turn(5))
        BY <1>8
      <3> QED BY <3>1, <3>2 DEF ThirdHigh
    <2> QED BY <2>8
  <1> QED BY <1>9, <1>10 DEF ThirdTrue

\* With a lower bracket it is the loser of its final.
LEMMA DoubleThird ==
  ASSUME TurnsTold, playoff = "double", Ahead(Turn(6)) # {}
  PROVE  ThirdTrue(6)
  <1>1. /\ Len(Slate) = 6 /\ Slate[1] = "semi1" /\ Slate[2] = "semi2" /\ Slate[3] = "lower1"
        /\ Slate[4] = "upper" /\ Slate[5] = "lower" /\ Slate[6] = "final"
    BY SlateDouble DEF IsSlate
  <1>2. \A k \in 1..6 : k \in Turns
    BY <1>1 DEF Turns
  <1>3. /\ {WinnerAt(1), LoserAt(1)} = {1, 4} /\ {WinnerAt(2), LoserAt(2)} = {2, 3}
        /\ {WinnerAt(3), LoserAt(3)} = {LoserAt(1), LoserAt(2)}
        /\ {WinnerAt(4), LoserAt(4)} = {WinnerAt(1), WinnerAt(2)}
        /\ {WinnerAt(5), LoserAt(5)} = {LoserAt(4), WinnerAt(3)}
        /\ {WinnerAt(6), LoserAt(6)} = {WinnerAt(4), WinnerAt(5)}
        /\ \A k \in 1..6 : WinnerAt(k) # LoserAt(k)
    <2>1. /\ PairIn(Slate[1]) = {1, 4} /\ PairIn(Slate[2]) = {2, 3}
          /\ PairIn(Slate[3]) = {LoserAt(1), LoserAt(2)}
          /\ PairIn(Slate[4]) = {WinnerAt(1), WinnerAt(2)}
          /\ PairIn(Slate[5]) = {LoserAt(4), WinnerAt(3)}
          /\ PairIn(Slate[6]) = {WinnerAt(4), WinnerAt(5)}
      BY <1>1 DEF PairIn, WinnerAt, LoserAt
    <2>2. \A k \in Turns :
            PairIn(Slate[k]) = {WinnerAt(k), LoserAt(k)} /\ WinnerAt(k) # LoserAt(k)
      BY DEF TurnsTold
    <2>3. 1 \in 1..6 /\ 2 \in 1..6 /\ 3 \in 1..6 /\ 4 \in 1..6 /\ 5 \in 1..6 /\ 6 \in 1..6
      OBVIOUS
    <2> QED BY <2>1, <2>2, <2>3, <1>2
  <1>4. /\ Ahead(Turn(6)) = {WinnerAt(6)} /\ Behind(Turn(6)) = {LoserAt(6)}
        /\ \A k \in {4, 5} : Behind(Turn(k)) \subseteq {LoserAt(k)}
    BY <1>2 DEF TurnsTold
  <1>5. TruePlaces[3] = {LoserAt(5)}
    BY <1>1 DEF TruePlaces, LoserAt
  <1>6. WinnerAt(4) # WinnerAt(5)
    BY <1>3
  <1>7. LastBefore({WinnerAt(4)}, Turn(6)) = {Turn(4)}
    <2>1. WinnerAt(4) \notin {WinnerAt(5), LoserAt(5)}
      <3>1. LoserAt(4) # WinnerAt(4) /\ WinnerAt(3) # WinnerAt(4)
        <4>1. WinnerAt(3) \in {LoserAt(1), LoserAt(2)}
          BY <1>3
        <4> QED BY <4>1, <1>3, SMTT(30)
      <3> QED BY <3>1, <1>3
    <2>2. \A k \in 5..5 : WinnerAt(4) \notin {WinnerAt(k), LoserAt(k)}
      BY <2>1
    <2>3. 4 \in 1..5 /\ 4 + 1 = 5 /\ 6 - 1 = 5
      OBVIOUS
    <2> QED BY <2>2, <2>3, <1>1, LastBeforeIs
  <1>8. LastBefore({WinnerAt(5)}, Turn(6)) = {Turn(5)}
    <2>1. \A k \in 6..5 : WinnerAt(5) \notin {WinnerAt(k), LoserAt(k)}
      OBVIOUS
    <2>2. 5 \in 1..5 /\ 5 + 1 = 6 /\ 6 - 1 = 5
      OBVIOUS
    <2> QED BY <2>1, <2>2, <1>1, LastBeforeIs
  <1>9. PICK a \in {4, 5}, b \in {4, 5} :
          /\ a # b /\ WinnerAt(6) = WinnerAt(a) /\ LoserAt(6) = WinnerAt(b)
          /\ LastBefore(Ahead(Turn(6)), Turn(6)) = {Turn(a)}
          /\ LastBefore(Behind(Turn(6)), Turn(6)) = {Turn(b)}
    BY <1>3, <1>4, <1>6, <1>7, <1>8
  <1>10. ThirdHigh(Turn(6)) = {}
    <2>1. SUFFICES ASSUME NEW x \in ThirdHigh(Turn(6)) PROVE FALSE
      OBVIOUS
    <2>2. a \in 1..(6 - 1) /\ b \in 1..(6 - 1)
      BY <1>9
    <2>3. \E k \in 1..(6 - 1) : k > a /\ k > b /\ x \in Ahead(Turn(k))
      BY <2>2, <1>1, <1>9, HighIs
    <2> QED BY <2>3, <1>9
  <1>11. ASSUME NEW x \in ThirdLow(Turn(6)) PROVE x = LoserAt(5)
    <2>1. x \in Behind(Turn(b)) /\ x \notin Ahead(Turn(6))
      BY <1>9, LowIs
    <2>2. x = LoserAt(b) /\ x # WinnerAt(6)
      BY <2>1, <1>4, <1>9
    <2>3. CASE b = 4
      <3>1. a = 5 /\ x = LoserAt(4) /\ x # WinnerAt(5)
        BY <2>2, <2>3, <1>9
      <3> QED BY <3>1, <1>3
    <2> QED BY <2>2, <2>3, <1>9
  <1> QED BY <1>5, <1>10, <1>11 DEF ThirdTrue

\* Every format has its third place.
LEMMA ThirdIs ==
  ASSUME TurnsTold, playoff \in Brackets, Ahead(Turn(Len(Slate))) # {}
  PROVE  ThirdTrue(Len(Slate))
  <1>1. playoff = "plain" \/ playoff = "third" \/ playoff = "double"
    BY SlateIs
  <1>2. /\ playoff = "plain" => Len(Slate) = 4
        /\ playoff = "third" => Len(Slate) = 5
        /\ playoff = "double" => Len(Slate) = 6
    BY SlatePlain, SlateThird, SlateDouble DEF IsSlate
  <1> QED BY <1>1, <1>2, PlainThird, ThirdThird, DoubleThird

\* A past season's places are true to its invariant.
LEMMA PlacesAreTrue == PlacementsInv => PlacesTrue
  <1>1. SUFFICES ASSUME PlacementsInv, Over, Told
                 PROVE  \A n \in 1..3 : Derived[n].confidence = "high" \/ NothingMissing =>
                          Derived[n].team \subseteq TruePlaces[n]
    BY DEF PlacesTrue
  <1>2. TurnsTold
    BY <1>1, ToldInTurns
  <1>3. PICK n : n = Len(Slate)
    OBVIOUS
  <1>4. playoff \in Brackets /\ Slate[n] = "final" /\ n \in Turns /\ \A k \in Turns : k <= n
    BY <1>1, <1>3, SlateIs, SlatePlain, SlateThird, SlateDouble
    DEF PlacementsInv, LogTyped, Turns, IsSlate
  <1>5. LastOf(SeriesGroups) = {Turn(n)}
    <2>1. SeriesGroups = {Turn(k) : k \in Turns}
      BY <1>2 DEF TurnsTold
    <2>2. LastOf({Turn(k) : k \in Turns}) = {Turn(n)}
      BY <1>2, <1>4, LastTurn
    <2> QED BY <2>1, <2>2
  <1>6. Derived = DerivedOf(Turn(n))
    BY <1>5 DEF Derived
  <1>7. CASE GamesIn(Turn(n)) < 2 \/ Ahead(Turn(n)) = {}
    <2>1. Derived = <<Review, Review, Review>>
      BY <1>6, <1>7 DEF DerivedOf
    <2>2. Review.team = {}
      BY DEF Review
    <2> QED BY <2>1, <2>2
  <1>8. CASE ~(GamesIn(Turn(n)) < 2 \/ Ahead(Turn(n)) = {})
    <2>1. /\ Derived[1] = Place(Ahead(Turn(n)), "high")
          /\ Derived[2] = Place(Behind(Turn(n)), "high") /\ Derived[3] = ThirdPlace(Turn(n))
      BY <1>6, <1>8 DEF DerivedOf
    <2>2. Ahead(Turn(n)) = {WinnerAt(n)} /\ Behind(Turn(n)) = {LoserAt(n)}
      BY <1>2, <1>4, <1>8 DEF TurnsTold
    <2>3. TruePlaces[1] = {WinnerAt(n)} /\ TruePlaces[2] = {LoserAt(n)}
      BY <1>4 DEF TruePlaces, WinnerAt, LoserAt
    <2>4. Derived[1].team = TruePlaces[1] /\ Derived[2].team = TruePlaces[2]
      BY <2>1, <2>2, <2>3 DEF Place
    <2>5. ThirdTrue(n)
      BY <1>2, <1>3, <1>4, <1>8, ThirdIs
    <2>6. Derived[3].confidence = "high" \/ NothingMissing =>
            Derived[3].team \subseteq TruePlaces[3]
      <3>1. CASE ThirdHigh(Turn(n)) # {}
        <4>1. Derived[3].team = ThirdHigh(Turn(n))
          BY <2>1, <3>1 DEF ThirdPlace, Place
        <4> QED BY <4>1, <2>5 DEF ThirdTrue
      <3>2. CASE ThirdHigh(Turn(n)) = {} /\ ThirdLow(Turn(n)) # {}
        <4>1. Derived[3] = Place(ThirdLow(Turn(n)), "low")
          BY <2>1, <3>2 DEF ThirdPlace
        <4>2. Derived[3].team = ThirdLow(Turn(n)) /\ Derived[3].confidence # "high"
          BY <4>1 DEF Place
        <4> QED BY <4>2, <3>2, <2>5 DEF ThirdTrue
      <3>3. CASE ThirdHigh(Turn(n)) = {} /\ ThirdLow(Turn(n)) = {}
        <4>1. Derived[3].team = {}
          BY <2>1, <3>3 DEF ThirdPlace, Review
        <4> QED BY <4>1
      <3> QED BY <3>1, <3>2, <3>3
    <2>7. \A k \in 1..3 : k = 1 \/ k = 2 \/ k = 3
      OBVIOUS
    <2> QED BY <2>4, <2>6, <2>7
  <1> QED BY <1>7, <1>8

\* The places derived for a past season are those played for, in every behaviour.
THEOREM PlacesTrueHolds == PlacementsSpec => []PlacesTrue
  BY PlacementsInvariant, PlacesAreTrue, PTL

\* A playoff's log is of its format and of the four finalists.
THEOREM PlacementsTyped == PlacementsSpec => []PlacementsTypeOK
  <1>1. PlacementsInv => PlacementsTypeOK
    <2>1. SUFFICES ASSUME PlacementsInv, NEW i \in DOMAIN log
                   PROVE  {log[i].winner, log[i].loser} \subseteq Finalists
      BY DEF PlacementsInv, LogTyped, PlacementsTypeOK
    <2>2. log[i] \in LogParts
      BY <2>1 DEF PlacementsInv, LogTyped
    <2> QED BY <2>2 DEF LogParts
  <1> QED BY <1>1, PlacementsInvariant, PTL
=============================================================================
