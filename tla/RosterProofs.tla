---------------------------- MODULE RosterProofs ----------------------------
(* Proofs about Roster for every number of accounts, cards and requests.   *)
EXTENDS Roster, FiniteSetTheorems, TLAPS

\* What a request record holds, by its kind.
LEMMA RequestFields ==
  ASSUME NEW q \in Requests
  PROVE  /\ q.op \in {"draw", "booster"} => q.user \in Users /\ q.player \in Players
         /\ q.op = "reroll" => q.user \in Users
         /\ q.op = "activate" => q.user \in Users /\ q.card \in CardIds
         /\ q.op = "swap" => q.user \in Users /\ q.in \in CardIds /\ q.out \in CardIds
         /\ q.op = "save" => q.user \in Users
  BY DEF Requests, Idle

\* A picked player is one of the pool the pick was made from.
LEMMA EligibleInPool ==
  ASSUME NEW u, NEW pool
  PROVE  Eligible(u, pool) \subseteq pool
  BY DEF Eligible

\* The number of cards of one player that an account holds is a number.
LEMMA HeldNat ==
  ASSUME NEW u, NEW p
  PROVE  Held(u, p) \in Nat
  <1>1. IsFiniteSet({c \in Owned(u) : player[c] = p})
    BY FS_Subset, RosterAssumption DEF Owned, RosterAssumption
  <1> QED BY <1>1, FS_CardinalityType DEF Held

\* Type correctness: every row keeps its type, and a card that exists has an
\* owner and a player.
THEOREM TypeCorrect == Spec => []TypeOK
<1>1. Init => TypeOK
  BY RosterAssumption DEF Init, TypeOK, Requests, RosterAssumption
<1>2. TypeOK /\ [Next]_vars => TypeOK'
  <2> SUFFICES ASSUME TypeOK, [Next]_vars PROVE TypeOK'
    OBVIOUS
  <2> USE DEF TypeOK, cardVars
  <2>1. ASSUME NEW r \in Clients, NEW u \in Users, BeginDraw(r, u) PROVE TypeOK'
    BY <2>1, EligibleInPool DEF BeginDraw, Requests
  <2>2. ASSUME NEW r \in Clients, NEW u \in Users, BeginBooster(r, u) PROVE TypeOK'
    BY <2>2, EligibleInPool, RosterAssumption DEF BeginBooster, Requests, RosterAssumption
  <2>3. ASSUME NEW r \in Clients, CommitDraw(r) PROVE TypeOK'
    <3>1. req[r].user \in Users /\ req[r].player \in Players
      BY <2>3, RequestFields DEF CommitDraw
    <3>2. owner' \in [CardIds -> Users \cup {None}] /\ player' \in [CardIds -> Players \cup {None}]
      BY <2>3, <3>1 DEF CommitDraw
    <3>3. active' \in [CardIds -> BOOLEAN]
      BY <2>3 DEF CommitDraw, CanActivate
    <3>4. /\ \A c \in CardIds : owner'[c] = None <=> player'[c] = None
          /\ \A c \in CardIds : active'[c] => owner'[c] # None
      BY <2>3, <3>1, RosterAssumption DEF CommitDraw, RosterAssumption
    <3>5. Cost(req[r].op) \in Nat
      BY RosterAssumption DEF Cost, RosterAssumption
    <3>6. tokens' \in [Users -> Int]
      BY <2>3, <3>1, <3>5 DEF CommitDraw, Spend
    <3>7. log' \in [Users -> [draws : Nat, boosters : Nat, rerolls : Nat, credits : Nat]]
      BY <2>3, <3>1 DEF CommitDraw
    <3>8. req' \in [Clients -> Requests] /\ inPool' = inPool
      BY <2>3 DEF CommitDraw, Reply, Requests
    <3> QED BY <3>2, <3>3, <3>4, <3>6, <3>7, <3>8
  <2>4. ASSUME NEW r \in Clients, NEW u \in Users, BeginReroll(r, u) PROVE TypeOK'
    BY <2>4 DEF BeginReroll, Requests
  <2>5. ASSUME NEW r \in Clients, CommitReroll(r) PROVE TypeOK'
    <3>1. req[r].user \in Users
      BY <2>5, RequestFields DEF CommitReroll
    <3> QED BY <2>5, <3>1 DEF CommitReroll, Spend, Reply, Requests
  <2>6. ASSUME NEW r \in Clients, NotEnoughTokens(r) PROVE TypeOK'
    BY <2>6 DEF NotEnoughTokens, Reply, Requests
  <2>7. ASSUME NEW r \in Clients, NEW c \in CardIds, BeginActivate(r, c) PROVE TypeOK'
    BY <2>7 DEF BeginActivate, Requests
  <2>8. ASSUME NEW r \in Clients, CommitActivate(r) PROVE TypeOK'
    <3>1. req[r].user \in Users /\ req[r].card \in CardIds
      BY <2>8, RequestFields DEF CommitActivate
    <3> QED BY <2>8, <3>1, RosterAssumption DEF CommitActivate, Reply, Requests, RosterAssumption
  <2>9. ASSUME NEW c \in CardIds, Deactivate(c) PROVE TypeOK'
    BY <2>9 DEF Deactivate
  <2>10. ASSUME NEW r \in Clients, NEW in \in CardIds, NEW out \in CardIds, BeginSwap(r, in, out)
         PROVE  TypeOK'
    BY <2>10 DEF BeginSwap, Requests
  <2>11. ASSUME NEW r \in Clients, CommitSwap(r) PROVE TypeOK'
    <3>1. req[r].user \in Users /\ req[r].in \in CardIds /\ req[r].out \in CardIds
      BY <2>11, RequestFields DEF CommitSwap
    <3>2. active' \in [CardIds -> BOOLEAN] /\ \A c \in CardIds : active'[c] => owner[c] # None
      BY <2>11, <3>1, RosterAssumption DEF CommitSwap, CanSwap, RosterAssumption
    <3> QED BY <2>11, <3>2 DEF CommitSwap, Reply, Requests
  <2>12. ASSUME NEW r \in Clients, NEW u \in Users, OpenPage(r, u) PROVE TypeOK'
    <3>1. Layout(u) \in [roster : SUBSET CardIds, bench : SUBSET CardIds]
      BY DEF Layout, Roster, Owned
    <3> QED BY <2>12, <3>1 DEF OpenPage, Requests
  <2>13. ASSUME NEW r \in Clients, SaveLayout(r) PROVE TypeOK'
    <3>1. req[r].user \in Users
      BY <2>13, RequestFields DEF SaveLayout
    <3>2. PICK A \in SUBSET CardIds :
            /\ ValidRoster(req[r].user, A)
            /\ \/ active' = [c \in CardIds |-> c \in A \/ (owner[c] # req[r].user /\ active[c])]
               \/ active' = active
      BY <2>13 DEF SaveLayout
    <3>3. active' \in [CardIds -> BOOLEAN]
      BY <3>2
    <3>4. \A c \in CardIds : active'[c] => owner[c] # None
      BY <3>1, <3>2, RosterAssumption DEF RosterAssumption, ValidRoster, Owned
    <3> QED BY <2>13, <3>3, <3>4 DEF SaveLayout, Reply, Requests
  <2>14. ASSUME NEW r \in Clients, DropPage(r) PROVE TypeOK'
    BY <2>14 DEF DropPage, Reply, Requests
  <2>15. ASSUME NEW p \in Players, RemovePlayer(p) PROVE TypeOK'
    <3>1. /\ inPool' \in [Players -> BOOLEAN] /\ active' \in [CardIds -> BOOLEAN]
          /\ \A c \in CardIds : active'[c] => active[c]
      BY <2>15 DEF RemovePlayer
    <3>2. tokens' \in [Users -> Int]
      BY <2>15, HeldNat DEF RemovePlayer
    <3>3. log' \in [Users -> [draws : Nat, boosters : Nat, rerolls : Nat, credits : Nat]]
      <4> DEFINE Rows == [draws : Nat, boosters : Nat, rerolls : Nat, credits : Nat]
      <4>1. log' = [u \in Users |-> [log[u] EXCEPT !.credits = @ + Held(u, p)]]
        BY <2>15 DEF RemovePlayer
      <4>2. ASSUME NEW u \in Users
            PROVE  [log[u] EXCEPT !.credits = @ + Held(u, p)] \in Rows
        <5> PICK held \in Nat : held = Held(u, p)
          BY HeldNat
        <5>1. log[u] \in Rows
          OBVIOUS
        <5>2. [log[u] EXCEPT !.credits = @ + held] \in Rows
          BY <5>1
        <5> QED BY <5>2
      <4> HIDE DEF Rows
      <4>3. log' \in [Users -> Rows]
        BY <4>1, <4>2
      <4> QED BY <4>3 DEF Rows
    <3>4. UNCHANGED <<owner, player, req>>
      BY <2>15 DEF RemovePlayer
    <3> QED BY <3>1, <3>2, <3>3, <3>4
  <2>16. ASSUME NEW p \in Players, AddPlayer(p) PROVE TypeOK'
    BY <2>16 DEF AddPlayer
  <2>17. ASSUME NEW u \in Users, GrantToken(u) PROVE TypeOK'
    BY <2>17 DEF GrantToken
  <2>18. CASE UNCHANGED vars
    BY <2>18 DEF vars
  <2> QED
    BY <2>1, <2>2, <2>3, <2>4, <2>5, <2>6, <2>7, <2>8, <2>9, <2>10, <2>11, <2>12, <2>13,
       <2>14, <2>15, <2>16, <2>17, <2>18 DEF Next, Request
<1> QED BY <1>1, <1>2, PTL DEF Spec

-----------------------------------------------------------------------------
\* The steps that write a card.
LEMMA CardSteps ==
  ASSUME [Next]_vars
  PROVE  \/ UNCHANGED cardVars
         \/ \E r \in Clients : CommitDraw(r) \/ CommitActivate(r) \/ CommitSwap(r) \/ SaveLayout(r)
         \/ \E c \in CardIds : Deactivate(c)
         \/ \E p \in Players : RemovePlayer(p)
  BY DEF Next, Request, vars, cardVars, BeginDraw, BeginBooster, BeginReroll, CommitReroll,
         NotEnoughTokens, BeginActivate, BeginSwap, OpenPage, DropPage, AddPlayer, GrantToken

\* A roster is a finite set, so that its size is a number.
LEMMA RosterFinite ==
  ASSUME NEW u
  PROVE  IsFiniteSet(Roster(u)) /\ Cardinality(Roster(u)) \in Nat
  <1>1. Roster(u) \in SUBSET CardIds
    BY DEF Roster, Owned
  <1> QED BY <1>1, FS_Subset, FS_CardinalityType, RosterAssumption DEF RosterAssumption

\* A roster that only loses cards keeps the limit.
LEMMA SmallerRoster ==
  ASSUME NEW u, NEW S \in SUBSET Roster(u), Cardinality(Roster(u)) <= RosterLimit
  PROVE  Cardinality(S) <= RosterLimit
  <1>1. IsFiniteSet(S) /\ Cardinality(S) <= Cardinality(Roster(u))
    BY RosterFinite, FS_Subset
  <1>2. Cardinality(S) \in Nat /\ Cardinality(Roster(u)) \in Nat
    BY <1>1, RosterFinite, FS_CardinalityType
  <1> QED BY <1>1, <1>2, RosterAssumption DEF RosterAssumption

\* No reachable state has an account with more than RosterLimit active cards:
\* the count is checked again by the UPDATE that activates (CanActivate), a
\* swap takes one card off for the one it puts on, and a save lists at most
\* RosterLimit cards.
THEOREM RosterLimitHolds == Spec => []RosterWithinLimit
<1>1. Init => RosterWithinLimit
  <2> SUFFICES ASSUME Init, NEW u \in Users PROVE Cardinality(Roster(u)) <= RosterLimit
    BY DEF RosterWithinLimit
  <2>1. Roster(u) = {}
    BY DEF Init, Roster, Owned
  <2> QED BY <2>1, FS_EmptySet, RosterAssumption DEF RosterAssumption
<1>2. TypeOK /\ RosterWithinLimit /\ [Next]_vars => RosterWithinLimit'
  <2> SUFFICES ASSUME TypeOK, RosterWithinLimit, [Next]_vars, NEW v \in Users
               PROVE  Cardinality(Roster(v)') <= RosterLimit
    BY DEF RosterWithinLimit
  <2>0. Cardinality(Roster(v)) <= RosterLimit /\ Cardinality(Roster(v)) \in Nat /\ RosterLimit \in Nat
    BY RosterFinite, RosterAssumption DEF RosterWithinLimit, RosterAssumption
  <2>1. ASSUME UNCHANGED cardVars PROVE Cardinality(Roster(v)') <= RosterLimit
    <3>1. Roster(v)' = Roster(v)
      BY <2>1 DEF cardVars, Roster, Owned
    <3> QED BY <2>0, <3>1
  <2>2. ASSUME NEW r \in Clients, CommitDraw(r) PROVE Cardinality(Roster(v)') <= RosterLimit
    <3>1. PICK c \in CardIds :
            /\ owner[c] = None
            /\ owner' = [owner EXCEPT ![c] = req[r].user]
            /\ active' = [active EXCEPT ![c] = CanActivate(req[r].user, c, req[r].player)]
      BY <2>2 DEF CommitDraw
    <3>2. CASE v = req[r].user /\ CanActivate(v, c, req[r].player)
      <4>1. Roster(v)' = Roster(v) \cup {c} /\ c \notin Roster(v)
        BY <3>1, <3>2, RosterAssumption DEF TypeOK, Roster, Owned, RosterAssumption
      <4>2. Cardinality(Roster(v) \cup {c}) = Cardinality(Roster(v)) + 1
        BY <4>1, FS_AddElement, RosterFinite
      <4>3. Cardinality(Roster(v)) < RosterLimit
        BY <3>2 DEF CanActivate
      <4> QED BY <2>0, <4>1, <4>2, <4>3
    <3>3. CASE ~(v = req[r].user /\ CanActivate(v, c, req[r].player))
      <4>1. Roster(v)' \in SUBSET Roster(v)
        BY <3>1, <3>3, RosterAssumption DEF TypeOK, Roster, Owned, RosterAssumption
      <4> QED BY <2>0, <4>1, SmallerRoster
    <3> QED BY <3>2, <3>3
  <2>3. ASSUME NEW r \in Clients, CommitActivate(r) PROVE Cardinality(Roster(v)') <= RosterLimit
    <3> DEFINE c == req[r].card
    <3>1. c \in CardIds
      BY <2>3, RequestFields DEF CommitActivate, TypeOK
    <3>2. CASE owner[c] = v /\ ~active[c] /\ CanActivate(v, c, player[c]) /\ req[r].user = v
      <4>1. Roster(v)' = Roster(v) \cup {c} /\ c \notin Roster(v)
        BY <2>3, <3>1, <3>2 DEF CommitActivate, TypeOK, Roster, Owned
      <4>2. Cardinality(Roster(v) \cup {c}) = Cardinality(Roster(v)) + 1
        BY <4>1, FS_AddElement, RosterFinite
      <4>3. Cardinality(Roster(v)) < RosterLimit
        BY <3>2 DEF CanActivate
      <4> QED BY <2>0, <4>1, <4>2, <4>3
    <3>3. CASE ~(owner[c] = v /\ ~active[c] /\ CanActivate(v, c, player[c]) /\ req[r].user = v)
      <4>1. Roster(v)' \in SUBSET Roster(v)
        BY <2>3, <3>1, <3>3 DEF CommitActivate, TypeOK, Roster, Owned
      <4> QED BY <2>0, <4>1, SmallerRoster
    <3> QED BY <3>2, <3>3
  <2>4. ASSUME NEW r \in Clients, CommitSwap(r) PROVE Cardinality(Roster(v)') <= RosterLimit
    <3> DEFINE in == req[r].in
               out == req[r].out
    <3>1. in \in CardIds /\ out \in CardIds
      BY <2>4, RequestFields DEF CommitSwap, TypeOK
    <3>2. CASE CanSwap(v, in, out) /\ req[r].user = v
      <4>1. Roster(v)' = (Roster(v) \ {out}) \cup {in} /\ out \in Roster(v)
        BY <2>4, <3>1, <3>2 DEF CommitSwap, CanSwap, TypeOK, Roster, Owned
      <4>2. /\ IsFiniteSet(Roster(v) \ {out})
            /\ Cardinality(Roster(v) \ {out}) = Cardinality(Roster(v)) - 1
        BY <4>1, FS_RemoveElement, RosterFinite
      <4>3. \/ Cardinality(Roster(v)') = Cardinality(Roster(v) \ {out})
            \/ Cardinality(Roster(v)') = Cardinality(Roster(v) \ {out}) + 1
        BY <4>1, <4>2, FS_AddElement
      <4> QED BY <2>0, <4>2, <4>3
    <3>3. CASE ~(CanSwap(v, in, out) /\ req[r].user = v)
      <4>1. Roster(v)' \in SUBSET Roster(v)
        BY <2>4, <3>1, <3>3 DEF CommitSwap, CanSwap, TypeOK, Roster, Owned
      <4> QED BY <2>0, <4>1, SmallerRoster
    <3> QED BY <3>2, <3>3
  <2>5. ASSUME NEW r \in Clients, SaveLayout(r) PROVE Cardinality(Roster(v)') <= RosterLimit
    <3>1. PICK A \in SUBSET CardIds :
            /\ ValidRoster(req[r].user, A)
            /\ \/ active' = [c \in CardIds |-> c \in A \/ (owner[c] # req[r].user /\ active[c])]
               \/ active' = active
            /\ owner' = owner
      BY <2>5 DEF SaveLayout
    <3>2. Roster(v)' = A \/ Roster(v)' = Roster(v)
      <4>1. CASE active' = active
        BY <3>1, <4>1 DEF Roster, Owned
      <4>2. CASE active' = [c \in CardIds |-> c \in A \/ (owner[c] # req[r].user /\ active[c])]
        <5>1. CASE v = req[r].user
          BY <3>1, <4>2, <5>1 DEF ValidRoster, Roster, Owned
        <5>2. CASE v # req[r].user
          BY <3>1, <4>2, <5>2 DEF ValidRoster, Roster, Owned
        <5> QED BY <5>1, <5>2
      <4> QED BY <3>1, <4>1, <4>2
    <3>3. CASE Roster(v)' = Roster(v)
      BY <3>3, <2>0
    <3>4. CASE Roster(v)' = A
      BY <3>4, <3>1 DEF ValidRoster
    <3> QED BY <3>2, <3>3, <3>4
  <2>6. ASSUME NEW c \in CardIds, Deactivate(c) PROVE Cardinality(Roster(v)') <= RosterLimit
    <3>1. Roster(v)' \in SUBSET Roster(v)
      BY <2>6 DEF Deactivate, TypeOK, Roster, Owned
    <3> QED BY <2>0, <3>1, SmallerRoster
  <2>7. ASSUME NEW p \in Players, RemovePlayer(p) PROVE Cardinality(Roster(v)') <= RosterLimit
    <3>1. Roster(v)' \in SUBSET Roster(v)
      BY <2>7 DEF RemovePlayer, TypeOK, Roster, Owned
    <3> QED BY <2>0, <3>1, SmallerRoster
  <2> QED BY CardSteps, <2>1, <2>2, <2>3, <2>4, <2>5, <2>6, <2>7
<1> QED BY <1>1, <1>2, TypeCorrect, PTL DEF Spec

-----------------------------------------------------------------------------
\* Two active cards of one account never have the same player.  The guards of
\* the three writes that activate a card are enough; the unique index is not
\* used, so it never refuses a write.
THEOREM OneActivePerPlayerHolds == Spec => []OneActivePerPlayer
<1>1. Init => OneActivePerPlayer
  BY DEF Init, OneActivePerPlayer, Roster, Owned
<1>2. TypeOK /\ OneActivePerPlayer /\ [Next]_vars => OneActivePerPlayer'
  <2> SUFFICES ASSUME TypeOK, OneActivePerPlayer, [Next]_vars,
                      NEW v \in Users, NEW a \in Roster(v)', NEW b \in Roster(v)',
                      player'[a] = player'[b]
               PROVE  a = b
    BY DEF OneActivePerPlayer
  <2>0. /\ a \in CardIds /\ owner'[a] = v /\ active'[a]
        /\ b \in CardIds /\ owner'[b] = v /\ active'[b]
        /\ \A c, d \in Roster(v) : player[c] = player[d] => c = d
    BY DEF Roster, Owned, OneActivePerPlayer
  <2>1. CASE UNCHANGED cardVars
    BY <2>0, <2>1 DEF cardVars, Roster, Owned
  <2>2. ASSUME NEW r \in Clients, CommitDraw(r) PROVE a = b
    <3>1. PICK c \in CardIds :
            /\ owner[c] = None /\ ~active[c]
            /\ owner' = [owner EXCEPT ![c] = req[r].user]
            /\ player' = [player EXCEPT ![c] = req[r].player]
            /\ active' = [active EXCEPT ![c] = CanActivate(req[r].user, c, req[r].player)]
      BY <2>2 DEF CommitDraw, TypeOK
    <3>2. \A d \in CardIds : d # c => owner'[d] = owner[d] /\ player'[d] = player[d]
                                       /\ active'[d] = active[d]
      BY <3>1 DEF TypeOK
    <3>3. CASE a # c /\ b # c
      BY <2>0, <3>2, <3>3 DEF Roster, Owned
    <3>4. CASE a = c \/ b = c
      <4>1. owner'[c] = req[r].user /\ player'[c] = req[r].player
            /\ active'[c] = CanActivate(req[r].user, c, req[r].player)
        BY <3>1 DEF TypeOK
      <4>2. ~PlayerTaken(v, player'[c], c)
        BY <2>0, <3>4, <4>1 DEF CanActivate
      <4>3. \A d \in CardIds : d # c /\ owner'[d] = v /\ active'[d] => player'[d] # player'[c]
        BY <3>2, <4>2 DEF PlayerTaken, Roster, Owned
      <4> QED BY <2>0, <3>4, <4>3
    <3> QED BY <3>3, <3>4
  <2>3. ASSUME NEW r \in Clients, CommitActivate(r) PROVE a = b
    <3> DEFINE c == req[r].card
    <3>1. c \in CardIds /\ owner' = owner /\ player' = player
      BY <2>3, RequestFields DEF CommitActivate, TypeOK
    <3>2. CASE active' = active
      BY <2>0, <3>1, <3>2 DEF Roster, Owned
    <3>3. CASE /\ owner[c] = req[r].user /\ CanActivate(req[r].user, c, player[c])
               /\ active' = [active EXCEPT ![c] = TRUE]
      <4>1. \A d \in CardIds : d # c => active'[d] = active[d]
        BY <3>3 DEF TypeOK
      <4>2. \A d \in CardIds : d # c /\ owner[d] = owner[c] /\ active[d] => player[d] # player[c]
        BY <3>3 DEF CanActivate, PlayerTaken, Roster, Owned
      <4> QED BY <2>0, <3>1, <4>1, <4>2 DEF Roster, Owned
    <3> QED BY <2>3, <3>2, <3>3 DEF CommitActivate
  <2>4. ASSUME NEW r \in Clients, CommitSwap(r) PROVE a = b
    <3> DEFINE in == req[r].in
               out == req[r].out
    <3>1. in \in CardIds /\ out \in CardIds /\ owner' = owner /\ player' = player
      BY <2>4, RequestFields DEF CommitSwap, TypeOK
    <3>2. CASE active' = active
      BY <2>0, <3>1, <3>2 DEF Roster, Owned
    <3>3. CASE /\ CanSwap(req[r].user, in, out)
               /\ active' = [active EXCEPT ![out] = FALSE, ![in] = TRUE]
      <4>1. /\ in # out /\ owner[in] = req[r].user
            /\ ~active'[out]
            /\ \A d \in CardIds : d # in /\ d # out => active'[d] = active[d]
        BY <3>1, <3>3 DEF TypeOK, CanSwap
      <4>2. \A d \in CardIds : d # out /\ owner[d] = owner[in] /\ active[d] => player[d] # player[in]
        BY <3>3 DEF CanSwap, Roster, Owned
      <4> QED BY <2>0, <3>1, <4>1, <4>2 DEF Roster, Owned
    <3> QED BY <2>4, <3>2, <3>3 DEF CommitSwap
  <2>5. ASSUME NEW r \in Clients, SaveLayout(r) PROVE a = b
    <3>1. PICK A \in SUBSET CardIds :
            /\ ValidRoster(req[r].user, A)
            /\ \/ active' = [c \in CardIds |-> c \in A \/ (owner[c] # req[r].user /\ active[c])]
               \/ active' = active
            /\ owner' = owner /\ player' = player
      BY <2>5 DEF SaveLayout
    <3>2. CASE active' = active
      BY <2>0, <3>1, <3>2 DEF Roster, Owned
    <3>3. CASE active' = [c \in CardIds |-> c \in A \/ (owner[c] # req[r].user /\ active[c])]
      <4>1. CASE v = req[r].user
        BY <2>0, <3>1, <3>3, <4>1 DEF ValidRoster
      <4>2. CASE v # req[r].user
        BY <2>0, <3>1, <3>3, <4>2 DEF ValidRoster, Roster, Owned
      <4> QED BY <4>1, <4>2
    <3> QED BY <3>1, <3>2, <3>3
  <2>6. ASSUME NEW c \in CardIds, Deactivate(c) PROVE a = b
    BY <2>0, <2>6 DEF Deactivate, TypeOK, Roster, Owned
  <2>7. ASSUME NEW p \in Players, RemovePlayer(p) PROVE a = b
    BY <2>0, <2>7 DEF RemovePlayer, TypeOK, Roster, Owned
  <2> QED BY CardSteps, <2>1, <2>2, <2>3, <2>4, <2>5, <2>6, <2>7
<1> QED BY <1>1, <1>2, TypeCorrect, PTL DEF Spec

-----------------------------------------------------------------------------
\* The steps that write a balance.
LEMMA TokenSteps ==
  ASSUME [Next]_vars
  PROVE  \/ UNCHANGED <<tokens, log, owner>>
         \/ \E r \in Clients : CommitDraw(r) \/ CommitReroll(r)
         \/ \E p \in Players : RemovePlayer(p)
         \/ \E u \in Users : GrantToken(u)
  BY DEF Next, Request, vars, cardVars, BeginDraw, BeginBooster, BeginReroll,
         NotEnoughTokens, BeginActivate, BeginSwap, OpenPage, DropPage, AddPlayer,
         CommitActivate, CommitSwap, SaveLayout, Deactivate

\* No balance goes below zero: the UPDATE that spends tests the current
\* balance, not the one the request saw, and every other write is a credit.
THEOREM TokensHold == Spec => []TokensNeverNegative
<1>1. Init => TokensNeverNegative
  BY RosterAssumption DEF Init, TokensNeverNegative, RosterAssumption
<1>2. TypeOK /\ TokensNeverNegative /\ [Next]_vars => TokensNeverNegative'
  <2> SUFFICES ASSUME TypeOK, TokensNeverNegative, [Next]_vars PROVE TokensNeverNegative'
    OBVIOUS
  <2>1. ASSUME NEW r \in Clients, CommitDraw(r) PROVE TokensNeverNegative'
    <3>1. Cost(req[r].op) \in Nat /\ req[r].user \in Users
      BY <2>1, RequestFields, RosterAssumption DEF Cost, RosterAssumption, CommitDraw, TypeOK
    <3> QED BY <2>1, <3>1 DEF CommitDraw, CanSpend, Spend, TokensNeverNegative, TypeOK
  <2>2. ASSUME NEW r \in Clients, CommitReroll(r) PROVE TokensNeverNegative'
    <3>1. req[r].user \in Users
      BY <2>2, RequestFields DEF CommitReroll, TypeOK
    <3> QED BY <2>2, <3>1 DEF CommitReroll, CanSpend, Spend, TokensNeverNegative, TypeOK
  <2>3. ASSUME NEW p \in Players, RemovePlayer(p) PROVE TokensNeverNegative'
    BY <2>3, HeldNat DEF RemovePlayer, TokensNeverNegative, TypeOK
  <2>4. ASSUME NEW u \in Users, GrantToken(u) PROVE TokensNeverNegative'
    BY <2>4 DEF GrantToken, TokensNeverNegative, TypeOK
  <2>5. CASE UNCHANGED <<tokens, log, owner>>
    BY <2>5 DEF TokensNeverNegative
  <2> QED BY TokenSteps, <2>1, <2>2, <2>3, <2>4, <2>5
<1> QED BY <1>1, <1>2, TypeCorrect, PTL DEF Spec

\* Balances, cards and audit log agree: every card was paid for by one logged
\* draw, and the balance is what the log leaves of the initial tokens.
THEOREM LedgerHolds == Spec => []LedgerBalances
<1>1. Init => LedgerBalances
  <2> SUFFICES ASSUME Init, NEW u \in Users
               PROVE  /\ tokens[u] = InitTokens + log[u].credits - log[u].draws
                                       - BoosterCost * log[u].boosters - log[u].rerolls
                      /\ Cardinality(Owned(u)) = log[u].draws + log[u].boosters
    BY DEF LedgerBalances
  <2>1. Owned(u) = {}
    BY RosterAssumption DEF Init, Owned, RosterAssumption
  <2> QED BY <2>1, FS_EmptySet, RosterAssumption DEF Init, RosterAssumption
<1>2. TypeOK /\ LedgerBalances /\ [Next]_vars => LedgerBalances'
  <2> SUFFICES ASSUME TypeOK, LedgerBalances, [Next]_vars, NEW v \in Users
               PROVE  /\ tokens'[v] = InitTokens + log'[v].credits - log'[v].draws
                                        - BoosterCost * log'[v].boosters - log'[v].rerolls
                      /\ Cardinality(Owned(v)') = log'[v].draws + log'[v].boosters
    BY DEF LedgerBalances
  <2>0. /\ tokens[v] = InitTokens + log[v].credits - log[v].draws
                         - BoosterCost * log[v].boosters - log[v].rerolls
        /\ Cardinality(Owned(v)) = log[v].draws + log[v].boosters
        /\ tokens[v] \in Int /\ InitTokens \in Nat /\ BoosterCost \in Nat
        /\ log[v] \in [draws : Nat, boosters : Nat, rerolls : Nat, credits : Nat]
        /\ BoosterCost * log[v].boosters \in Nat
    BY RosterAssumption DEF LedgerBalances, RosterAssumption, TypeOK
  <2>1. ASSUME NEW r \in Clients, CommitDraw(r)
        PROVE  /\ tokens'[v] = InitTokens + log'[v].credits - log'[v].draws
                                 - BoosterCost * log'[v].boosters - log'[v].rerolls
               /\ Cardinality(Owned(v)') = log'[v].draws + log'[v].boosters
    <3>1. req[r].user \in Users
      BY <2>1, RequestFields DEF CommitDraw, TypeOK
    <3>2. PICK c \in CardIds : owner[c] = None /\ owner' = [owner EXCEPT ![c] = req[r].user]
      BY <2>1 DEF CommitDraw
    <3>3. CASE v # req[r].user
      <4>1. Owned(v)' = Owned(v)
        BY <3>2, <3>3, RosterAssumption DEF Owned, TypeOK, RosterAssumption
      <4>2. tokens'[v] = tokens[v] /\ log'[v] = log[v]
        BY <2>1, <3>1, <3>3 DEF CommitDraw, Spend, TypeOK
      <4> QED BY <2>0, <4>1, <4>2
    <3>4. CASE v = req[r].user
      <4>1. Owned(v)' = Owned(v) \cup {c} /\ c \notin Owned(v)
        BY <3>2, <3>4, RosterAssumption DEF Owned, TypeOK, RosterAssumption
      <4>2. IsFiniteSet(Owned(v))
        BY FS_Subset, RosterAssumption DEF Owned, RosterAssumption
      <4>3. Cardinality(Owned(v)') = Cardinality(Owned(v)) + 1
        BY <4>1, <4>2, FS_AddElement
      <4>4. CASE req[r].op = "draw"
        <5>1. tokens'[v] = tokens[v] - 1 /\ log'[v] = [log[v] EXCEPT !.draws = @ + 1]
          BY <2>1, <3>4, <4>4 DEF CommitDraw, Spend, Cost, TypeOK
        <5> QED BY <2>0, <4>3, <5>1
      <4>5. CASE req[r].op = "booster"
        <5>1. tokens'[v] = tokens[v] - BoosterCost /\ log'[v] = [log[v] EXCEPT !.boosters = @ + 1]
          BY <2>1, <3>4, <4>5 DEF CommitDraw, Spend, Cost, TypeOK
        <5>2. BoosterCost * log'[v].boosters = BoosterCost * log[v].boosters + BoosterCost
          BY <2>0, <5>1
        <5> QED BY <2>0, <4>3, <5>1, <5>2
      <4> QED BY <2>1, <4>4, <4>5 DEF CommitDraw
    <3> QED BY <3>3, <3>4
  <2>2. ASSUME NEW r \in Clients, CommitReroll(r)
        PROVE  /\ tokens'[v] = InitTokens + log'[v].credits - log'[v].draws
                                 - BoosterCost * log'[v].boosters - log'[v].rerolls
               /\ Cardinality(Owned(v)') = log'[v].draws + log'[v].boosters
    <3>1. Owned(v)' = Owned(v) /\ req[r].user \in Users
      BY <2>2, RequestFields DEF CommitReroll, TypeOK, cardVars, Owned
    <3>2. \/ tokens'[v] = tokens[v] /\ log'[v] = log[v]
          \/ tokens'[v] = tokens[v] - 1 /\ log'[v] = [log[v] EXCEPT !.rerolls = @ + 1]
      BY <2>2, <3>1 DEF CommitReroll, Spend, TypeOK
    <3> QED BY <2>0, <3>1, <3>2
  <2>3. ASSUME NEW p \in Players, RemovePlayer(p)
        PROVE  /\ tokens'[v] = InitTokens + log'[v].credits - log'[v].draws
                                 - BoosterCost * log'[v].boosters - log'[v].rerolls
               /\ Cardinality(Owned(v)') = log'[v].draws + log'[v].boosters
    <3>1. Owned(v)' = Owned(v)
      BY <2>3 DEF RemovePlayer, Owned
    <3>2. tokens'[v] = tokens[v] + Held(v, p) /\ log'[v] = [log[v] EXCEPT !.credits = @ + Held(v, p)]
      BY <2>3 DEF RemovePlayer
    <3> QED BY <2>0, <3>1, <3>2, HeldNat
  <2>4. ASSUME NEW u \in Users, GrantToken(u)
        PROVE  /\ tokens'[v] = InitTokens + log'[v].credits - log'[v].draws
                                 - BoosterCost * log'[v].boosters - log'[v].rerolls
               /\ Cardinality(Owned(v)') = log'[v].draws + log'[v].boosters
    <3>1. Owned(v)' = Owned(v)
      BY <2>4 DEF GrantToken, cardVars, Owned
    <3>2. \/ tokens'[v] = tokens[v] /\ log'[v] = log[v]
          \/ tokens'[v] = tokens[v] + 1 /\ log'[v] = [log[v] EXCEPT !.credits = @ + 1]
      BY <2>4 DEF GrantToken, TypeOK
    <3> QED BY <2>0, <3>1, <3>2
  <2>5. CASE UNCHANGED <<tokens, log, owner>>
    BY <2>0, <2>5 DEF Owned
  <2> QED BY TokenSteps, <2>1, <2>2, <2>3, <2>4, <2>5
<1> QED BY <1>1, <1>2, TypeCorrect, PTL DEF Spec

\* The only steps that end a save are the save itself and its refusal.
LEMMA SaveEnds ==
  ASSUME TypeOK, Next, NEW r \in Clients, req[r].op = "save", req'[r] # req[r]
  PROVE  SaveLayout(r) \/ DropPage(r)
<1>1. ASSUME NEW q \in Clients, Request(q) PROVE SaveLayout(r) \/ DropPage(r)
  <2>1. req' = [req EXCEPT ![q] = req'[q]]
    BY <1>1 DEF TypeOK, Request, Reply, BeginDraw, BeginBooster, CommitDraw, BeginReroll,
         CommitReroll, NotEnoughTokens, BeginActivate, CommitActivate, BeginSwap,
         CommitSwap, OpenPage, SaveLayout, DropPage
  <2>2. q = r
    BY <2>1 DEF TypeOK
  <2>3. req[r] # Idle
    BY DEF Idle
  <2> QED
    BY <1>1, <2>2, <2>3 DEF Request, BeginDraw, BeginBooster, CommitDraw, BeginReroll,
         CommitReroll, NotEnoughTokens, BeginActivate, CommitActivate, BeginSwap,
         CommitSwap, OpenPage
<1>2. req' = req \/ \E q \in Clients : Request(q)
  BY DEF Next, Deactivate, RemovePlayer, AddPlayer, GrantToken
<1> QED BY <1>1, <1>2

\* A save never undoes a roster change made since its page was loaded.
THEOREM NoLostUpdateHolds == Spec => NoLostUpdate
<1>1. TypeOK /\ [Next]_vars =>
        [\A r \in Clients :
           (req[r].op = "save" /\ req'[r] # req[r]) =>
             \A c \in Owned(req[r].user) :
               (inPool[player[c]] /\ active'[c] # active[c]) =>
                 (active[c] <=> c \in req[r].base.roster)]_vars
  <2> SUFFICES ASSUME TypeOK, Next, NEW r \in Clients,
                      req[r].op = "save", req'[r] # req[r],
                      NEW c \in Owned(req[r].user),
                      inPool[player[c]], active'[c] # active[c]
               PROVE  active[c] <=> c \in req[r].base.roster
    OBVIOUS
  <2>1. SaveLayout(r)
    BY SaveEnds DEF DropPage, cardVars
  <2>2. req[r].base = Layout(req[r].user)
    BY <2>1 DEF SaveLayout, VersionMatches
  <2>3. req[r].base.roster = {d \in Roster(req[r].user) : inPool[player[d]]}
    BY <2>2 DEF Layout
  <2> QED BY <2>3 DEF Roster
<1> QED BY <1>1, TypeCorrect, PTL DEF Spec, NoLostUpdate
=============================================================================
