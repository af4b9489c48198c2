---------------------------- MODULE FinalsTable ----------------------------
(***************************************************************************)
(* The Div 1 group table behind the finals bracket (backend/finals.py):    *)
(* series points, the tiers of the ranking with their head-to-head         *)
(* mini-tables, and the ties that hold the bracket back.                   *)
(*                                                                         *)
(* A pair of teams has a result once both games of its series are decided; *)
(* it is kept as the wins of the team with the lower id.  Teams stand in   *)
(* for their names: a tier is listed in the order of the ids.  Which two   *)
(* games are the series and the texts of the rows are left out.            *)
(***************************************************************************)
EXTENDS Integers, SequencesExt

CONSTANTS
  DivTeams,        \* teams of the division
  SeedsInBracket,  \* SEEDS_IN_BRACKET
  GroupTables      \* tables to start from (bound)

ASSUME FinalsTableAssumption ==
  /\ IsFiniteSet(DivTeams) /\ DivTeams \subseteq Nat /\ SeedsInBracket \in Nat

VARIABLE wins      \* results: games the lower team won of the pair's two

NotPlayed == -1
Pairs == {p \in DivTeams \X DivTeams : p[1] < p[2]}
Pair(a, b) == IF a < b THEN <<a, b>> ELSE <<b, a>>

\* A win is 2 points, a 1-1 is 1, a loss 0.
SeriesPoints(t, o) ==
  CASE wins[Pair(t, o)] = NotPlayed -> 0
    [] OTHER -> IF t < o THEN wins[Pair(t, o)] ELSE 2 - wins[Pair(t, o)]

Series(t, S, points) == Cardinality({o \in S \ {t} : SeriesPoints(t, o) = points})
\* The points of t in the table of the teams S.
TablePoints(t, S) == 2 * Series(t, S, 2) + Series(t, S, 1)
Points(S) == [t \in S |-> TablePoints(t, S)]
SeriesWins == [t \in DivTeams |-> Series(t, DivTeams, 2)]

\* S split by what is counted, the most first.
SplitBy(S, count) ==
  LET levels == {count[t] : t \in S}
  IN [i \in 1..Cardinality(levels) |->
        {t \in S : Cardinality({k \in levels : k > count[t]}) = i - 1}]

\* _h2h_tiers: the mini-table of the group, again within each part it splits
\* off; a group that it cannot split is one shared tier.
H2HOnce(group) == SplitBy(group, Points(group))
H2HTiers(group) ==
  LET tiers[S \in SUBSET DivTeams] ==
        LET parts == SplitBy(S, Points(S))
        IN IF Len(parts) <= 1 THEN parts
           ELSE FlattenSeq([i \in DOMAIN parts |-> tiers[parts[i]]])
  IN tiers[group]

\* _rank: by points, then by series wins, then head to head.
LevelTiers(level) ==
  LET byWins == SplitBy(level, SeriesWins)
  IN FlattenSeq([i \in DOMAIN byWins |-> H2HTiers(byWins[i])])
Tiers ==
  LET byPoints == SplitBy(DivTeams, Points(DivTeams))
  IN FlattenSeq([i \in DOMAIN byPoints |-> LevelTiers(byPoints[i])])

\* Shared tiers that touch the seeds.
HoldingTiers(tiers) ==
  LET before(i) == UNION {tiers[j] : j \in 1..(i - 1)}
  IN {tiers[i] : i \in {j \in DOMAIN tiers :
        Cardinality(tiers[j]) > 1 /\ Cardinality(before(j)) < SeedsInBracket}}

Complete ==
  /\ \A p \in Pairs : wins[p] # NotPlayed
  /\ Cardinality(DivTeams) >= SeedsInBracket

\* A set as a list, before being the pairs in order.
AsList(S, before) ==
  [i \in 1..Cardinality(S) |->
     CHOOSE x \in S : Cardinality({y \in S : <<y, x>> \in before}) = i - 1]

\* _flat_order; order gives the teams of the holding tiers their places in the admin's list.
InFlatOrder(order) ==
  {p \in DivTeams \X DivTeams :
     IF {p[1], p[2]} \subseteq DOMAIN order THEN order[p[1]] < order[p[2]] ELSE p[1] < p[2]}
FlatOrder(tiers, order) == FlattenSeq([i \in DOMAIN tiers |-> AsList(tiers[i], InFlatOrder(order))])

\* The lists of the teams that are tied, each once.
Orders(tiers) ==
  LET tied == UNION HoldingTiers(tiers) IN Injection(tied, 1..Cardinality(tied))

-----------------------------------------------------------------------------
TableInit == wins \in GroupTables

PlaySeries(p, k) == wins[p] = NotPlayed /\ wins' = [wins EXCEPT ![p] = k]

TableNext == \E p \in Pairs, k \in 0..2 : PlaySeries(p, k)
TableSpec == TableInit /\ [][TableNext]_wins

-----------------------------------------------------------------------------
(* Properties *)

\* The order of the rules without tiers: classes of teams that no rule so far
\* has told apart, refined by one rule after the other.
Rule(n, class) ==
  CASE n = 1 -> Points(DivTeams)
    [] n = 2 -> SeriesWins
    [] OTHER -> Points(class)

RulesNeeded == Cardinality(DivTeams) + 2

Refined(n, C) == {{u \in C : Rule(n, C)[u] = Rule(n, C)[t]} : t \in C}
Classes ==
  LET classes[k \in 0..RulesNeeded] ==
        IF k = 0 THEN {DivTeams} ELSE UNION {Refined(k, C) : C \in classes[k - 1]}
  IN classes

\* The first rule that tells two teams apart decides.
DecidedBy(n, C) == {p \in C \X C : Rule(n, C)[p[1]] > Rule(n, C)[p[2]]}
Outranks ==
  LET classes == Classes
  IN UNION {UNION {DecidedBy(n, C) : C \in classes[n - 1]} : n \in 1..RulesNeeded}

\* The recursive head-to-head of finals.py ranks as the rules do: two teams share
\* a tier exactly when no rule tells them apart, and otherwise the better one is
\* above, also when a mini-table splits only a part of a group.  So the four seeds
\* the bracket takes, with the admin's order of the tied teams where it needs one,
\* are teams that no other team outranks.
TiersFollowRules(tiers, outranks) ==
  outranks = UNION {tiers[p[1]] \X tiers[p[2]] :
                      p \in {q \in (DOMAIN tiers) \X (DOMAIN tiers) : q[1] < q[2]}}
SeedsUnbeaten(flat, outranks) ==
  LET seeds == {flat[i] : i \in 1..SeedsInBracket}
  IN /\ Cardinality(seeds) = SeedsInBracket
     /\ \A t \in DivTeams \ seeds, s \in seeds : <<t, s>> \notin outranks
SeedingFollowsRules ==
  \E tiers \in {Tiers}, outranks \in {Outranks} :
     /\ TiersFollowRules(tiers, outranks)
     /\ Complete => \A order \in Orders(tiers) : SeedsUnbeaten(FlatOrder(tiers, order), outranks)
=============================================================================
