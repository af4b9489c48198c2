--------------------------- MODULE WeekLockProofs ---------------------------
(* Proofs about WeekLock for every number of accounts, cards and weeks.      *)
EXTENDS WeekLock, FiniteSetTheorems, TLAPS

-----------------------------------------------------------------------------
(* The inductive invariant, for any number of admins *)

WeekRows == [exists : {TRUE}, start : Times, end : Times, locked : BOOLEAN]

RowsOK ==
  /\ now \in Times
  /\ week \in [Weeks -> WeekRows \cup {Absent}]
  /\ rosterRows \in [Weeks -> [Cards -> Nat]]
  /\ benchRows \in [Weeks -> [Cards -> Nat]]
  /\ users \subseteq Users
  /\ owner \in [Cards -> Users \cup {None}]
  /\ active \in [Cards -> BOOLEAN]
  /\ grants \in [Users -> Nat]
  /\ edits \in 0..MaxEdits

\* What an admin request holds.
RequestsOK ==
  /\ req \in [Admins ->
       {NoRequest}
        \cup [op : {"create"}, to : Ranges]
        \cup [op : {"edit"}, week : Weeks, to : Ranges, read : [start : Times, end : Times]]
        \cup [op : {"delete"}, week : Weeks]]

\* Only drawn cards are in a snapshot or on a roster, and a roster keeps the limit.
CardsOK ==
  /\ \A w \in Weeks, c \in Cards : rosterRows[w][c] + benchRows[w][c] > 0 => owner[c] # None
  /\ \A c \in Cards : active[c] => owner[c] # None
  /\ \A u \in Users : Cardinality({c \in Owned(u) : active[c]}) <= RosterLimit

\* A pass of the loop: the weeks it found are still unlocked or deleted, it knows who
\* is in the first one's snapshot, and the roster it read was legal.
LoopOK ==
  \/ loop = Idle
  \/ /\ loop.at \in {"due", "snapshotted", "active", "bench"}
     /\ loop.due \subseteq Weeks /\ loop.first \in loop.due
     /\ \A w \in loop.due : week[w].exists => ~week[w].locked
     /\ loop.at \in {"snapshotted", "active", "bench"} => loop.done = InSnapshot(loop.first)
     /\ loop.at \in {"active", "bench"} =>
          /\ \A c \in loop.roster : c \in Cards /\ owner[c] # None
          /\ \A u \in Users : Cardinality({c \in Owned(u) : c \in loop.roster}) <= RosterLimit
     /\ loop.at = "bench" => \A c \in loop.bench : c \in Cards /\ owner[c] # None

LockInv == RowsOK /\ RequestsOK /\ CardsOK /\ LoopOK /\ SnapshotLegal

\* With one admin at a time: what a request checked still holds when it writes.
OneAdminInv ==
  /\ \A w \in Existing : week[w].start < week[w].end
  /\ \A a \in Admins :
       /\ req[a].op = "create" => ~HasOverlap(req[a].to, None)
       /\ req[a].op = "edit" /\ req[a].week \in Existing =>
            req[a].read = [start |-> week[req[a].week].start, end |-> week[req[a].week].end]
  /\ WeeksDisjoint

-----------------------------------------------------------------------------
(* Which steps write what *)

\* The variables a step may write, by its kind.
LEMMA Frames ==
  ASSUME [Next]_vars
  PROVE  /\ \/ UNCHANGED rowVars
            \/ CommitLock
         /\ \/ UNCHANGED <<owner, active>>
            \/ \E u \in Users, c \in Cards : TakeCard(u, c)
            \/ \E u \in Users, A \in SUBSET Cards : ChangeRoster(u, A)
         /\ \/ UNCHANGED week
            \/ CommitLock
            \/ \E a \in Admins : CommitCreate(a) \/ CommitEdit(a) \/ CommitDelete(a)
         /\ \/ UNCHANGED loop
            \/ Loop
         /\ UNCHANGED users \/ \E u \in Users : Register(u)
  <1>1. CASE UNCHANGED vars
    BY <1>1 DEF vars, rowVars
  <1>2. ASSUME NEW u \in Users, Register(u)
        PROVE  UNCHANGED <<rowVars, owner, active, week, loop>>
    BY <1>2 DEF Register
  <1>3. ASSUME NEW u \in Users, NEW c \in Cards, TakeCard(u, c)
        PROVE  UNCHANGED <<rowVars, week, loop, users>>
    BY <1>3 DEF TakeCard
  <1>4. ASSUME NEW u \in Users, NEW A \in SUBSET Cards, ChangeRoster(u, A)
        PROVE  UNCHANGED <<rowVars, week, loop, users>>
    BY <1>4 DEF ChangeRoster
  <1>5. CASE Tick
    BY <1>5 DEF Tick, gameVars
  <1>6. CASE Loop
    BY <1>6
       DEF Loop, ReadDue, ReadSnapshotted, ReadActive, ReadBench, CommitLock, FailLock, gameVars
  <1>7. ASSUME NEW a \in Admins, Admin(a)
        PROVE  /\ UNCHANGED <<rowVars, owner, active, loop, users>>
               /\ UNCHANGED week \/ CommitCreate(a) \/ CommitEdit(a) \/ CommitDelete(a)
    BY <1>7 DEF Admin, BeginCreate, CommitCreate, BeginEdit, CommitEdit, RefuseEdit, BeginDelete,
                CommitDelete, gameVars
  <1> QED BY <1>1, <1>2, <1>3, <1>4, <1>5, <1>6, <1>7 DEF Next

\* What a week's row holds.
LEMMA WeekFields ==
  ASSUME RowsOK, NEW w \in Weeks
  PROVE  /\ week[w].exists \in BOOLEAN
         /\ week[w].exists => /\ week[w] \in WeekRows
                              /\ week[w].start \in Times /\ week[w].end \in Times
                              /\ week[w].locked \in BOOLEAN
         /\ ~week[w].exists => week[w] = Absent
  <1>1. CASE week[w] \in WeekRows
    BY <1>1 DEF WeekRows
  <1>2. CASE week[w] = Absent
    BY <1>2 DEF Absent
  <1> QED BY <1>1, <1>2 DEF RowsOK

\* What an admin request holds.
LEMMA AdminFields ==
  ASSUME RequestsOK, NEW a \in Admins
  PROVE  /\ req[a].op = "create" => req[a].to \in Ranges
         /\ req[a].op = "edit" => /\ req[a].week \in Weeks /\ req[a].to \in Ranges
                                  /\ req[a].read \in [start : Times, end : Times]
         /\ req[a].op = "delete" => req[a].week \in Weeks
  BY DEF RequestsOK, NoRequest

\* The ends of a week of the range.
LEMMA RangeFields ==
  ASSUME NEW r \in Ranges
  PROVE  r.start \in Times /\ r.end \in Times /\ r.start < r.end
  BY DEF Ranges

-----------------------------------------------------------------------------
\* The rows of a snapshot after a pass.
LEMMA AddRowsType ==
  ASSUME NEW rows \in [Weeks -> [Cards -> Nat]], NEW first, NEW current
  PROVE  [w \in Weeks |-> AddRows(rows, w, first, current)] \in [Weeks -> [Cards -> Nat]]
  BY DEF AddRows

\* Each step keeps the types of the rows, the requests and what the loop holds.
LEMMA TypesStep ==
  ASSUME RowsOK, RequestsOK, LoopOK, [Next]_vars
  PROVE  RowsOK' /\ RequestsOK'
  <1> USE DEF RowsOK
  <1>1. ASSUME NEW u \in Users, Register(u) PROVE RowsOK' /\ RequestsOK'
    BY <1>1 DEF Register, rowVars, RequestsOK
  <1>2. ASSUME NEW u \in Users, NEW c \in Cards, TakeCard(u, c) PROVE RowsOK' /\ RequestsOK'
    <2>1. (Cardinality({d \in Owned(u) : active[d]}) < RosterLimit) \in BOOLEAN
      OBVIOUS
    <2> QED BY <1>2, <2>1 DEF TakeCard, rowVars, RequestsOK
  <1>3. ASSUME NEW u \in Users, NEW A \in SUBSET Cards, ChangeRoster(u, A)
        PROVE  RowsOK' /\ RequestsOK'
    BY <1>3 DEF ChangeRoster, rowVars, RequestsOK
  <1>4. CASE Tick
    BY <1>4, WeekLockAssumption DEF Tick, rowVars, gameVars, Times, RequestsOK, WeekLockAssumption
  <1>5. CASE ReadDue \/ ReadSnapshotted \/ ReadActive \/ ReadBench \/ FailLock
    BY <1>5 DEF ReadDue, ReadSnapshotted, ReadActive, ReadBench, FailLock, rowVars, gameVars,
       RequestsOK
  <1>6. CASE CommitLock
    <2>1. rosterRows' \in [Weeks -> [Cards -> Nat]] /\ benchRows' \in [Weeks -> [Cards -> Nat]]
      <3>1. /\ rosterRows' = [w \in Weeks |-> AddRows(rosterRows, w, loop.roster, RosterCards)]
            /\ benchRows' = [w \in Weeks |-> AddRows(benchRows, w, loop.bench, BenchCards)]
        BY <1>6 DEF CommitLock
      <3>2. rosterRows \in [Weeks -> [Cards -> Nat]] /\ benchRows \in [Weeks -> [Cards -> Nat]]
        OBVIOUS
      <3>3. [w \in Weeks |-> AddRows(rosterRows, w, loop.roster, RosterCards)]
               \in [Weeks -> [Cards -> Nat]]
        BY ONLY <3>2, AddRowsType, SMT
      <3>4. [w \in Weeks |-> AddRows(benchRows, w, loop.bench, BenchCards)]
               \in [Weeks -> [Cards -> Nat]]
        BY ONLY <3>2, AddRowsType, SMT
      <3> QED BY ONLY <3>1, <3>3, <3>4, Zenon
    <2>2. grants' \in [Users -> Nat]
      BY <1>6 DEF CommitLock, Credited
    <2>3. week' \in [Weeks -> WeekRows \cup {Absent}]
      <3>1. ASSUME NEW w \in Weeks, w \in loop.due
            PROVE  [week[w] EXCEPT !.locked = TRUE] \in WeekRows
        BY <1>6, <3>1, WeekFields DEF CommitLock, Existing, WeekRows
      <3> QED BY <1>6, <3>1 DEF CommitLock
    <2> QED BY <1>6, <2>1, <2>2, <2>3 DEF CommitLock, gameVars, RequestsOK
  <1>7. ASSUME NEW a \in Admins, NEW r \in Ranges, BeginCreate(a, r)
        PROVE  RowsOK' /\ RequestsOK'
    BY <1>7 DEF BeginCreate, RequestsOK, rowVars, gameVars
  <1>8. ASSUME NEW a \in Admins, CommitCreate(a) PROVE RowsOK' /\ RequestsOK'
    <2>1. [exists |-> TRUE, start |-> req[a].to.start, end |-> req[a].to.end, locked |-> FALSE]
            \in WeekRows
      BY <1>8, AdminFields, RangeFields DEF CommitCreate, WeekRows
    <2>2. week' \in [Weeks -> WeekRows \cup {Absent}]
      BY <1>8, <2>1 DEF CommitCreate
    <2>3. edits' \in 0..MaxEdits
      BY <1>8, WeekLockAssumption DEF CommitCreate, WeekLockAssumption
    <2> QED BY <1>8, <2>2, <2>3 DEF CommitCreate, Answer, RequestsOK, rowVars, gameVars
  <1>9. ASSUME NEW a \in Admins, NEW w \in Weeks, NEW r \in Ranges, BeginEdit(a, w, r)
        PROVE  RowsOK' /\ RequestsOK'
    <2>1. [start |-> week[w].start, end |-> week[w].end] \in [start : Times, end : Times]
      BY <1>9, WeekFields DEF BeginEdit, Existing
    <2> QED BY <1>9, <2>1 DEF BeginEdit, RequestsOK, rowVars, gameVars
  <1>10. ASSUME NEW a \in Admins, CommitEdit(a) PROVE RowsOK' /\ RequestsOK'
    <2> DEFINE w == req[a].week
               start == IF req[a].to.start # req[a].read.start THEN req[a].to.start ELSE week[w].start
               end == IF req[a].to.end # req[a].read.end THEN req[a].to.end ELSE week[w].end
    <2>1. w \in Weeks /\ week[w] \in WeekRows /\ start \in Times /\ end \in Times
      BY <1>10, AdminFields, RangeFields, WeekFields DEF CommitEdit, Existing
    <2>2. week' = [week EXCEPT ![w] = [week[w] EXCEPT !.start = start, !.end = end]]
      BY <1>10, <2>1 DEF CommitEdit
    <2>3. [week[w] EXCEPT !.start = start, !.end = end] \in WeekRows
      <3> HIDE DEF start, end
      <3> QED BY <2>1 DEF WeekRows
    <2>4. week' \in [Weeks -> WeekRows \cup {Absent}]
      BY <2>2, <2>3
    <2>5. edits' \in 0..MaxEdits
      BY <1>10, WeekLockAssumption DEF CommitEdit, WeekLockAssumption
    <2> QED BY <1>10, <2>4, <2>5 DEF CommitEdit, Answer, RequestsOK, rowVars, gameVars
  <1>11. ASSUME NEW a \in Admins, RefuseEdit(a) PROVE RowsOK' /\ RequestsOK'
    BY <1>11 DEF RefuseEdit, Answer, RequestsOK, rowVars, gameVars
  <1>12. ASSUME NEW a \in Admins, NEW w \in Weeks, BeginDelete(a, w) PROVE RowsOK' /\ RequestsOK'
    BY <1>12 DEF BeginDelete, RequestsOK, rowVars, gameVars
  <1>13. ASSUME NEW a \in Admins, CommitDelete(a) PROVE RowsOK' /\ RequestsOK'
    <2>1. edits' \in 0..MaxEdits
      BY <1>13, WeekLockAssumption DEF CommitDelete, WeekLockAssumption
    <2> QED BY <1>13, <2>1 DEF CommitDelete, Answer, RequestsOK, rowVars, gameVars
  <1>14. CASE UNCHANGED vars
    BY <1>14 DEF vars, RequestsOK
  <1> QED
    BY <1>1, <1>2, <1>3, <1>4, <1>5, <1>6, <1>7, <1>8, <1>9, <1>10, <1>11, <1>12, <1>13, <1>14
       DEF Next, Admin, Loop

-----------------------------------------------------------------------------
(* Cards, the pass of the loop and the snapshots *)

\* A set of cards of an account is finite.
LEMMA CardsFinite ==
  ASSUME NEW S \in SUBSET Cards
  PROVE  IsFiniteSet(S) /\ Cardinality(S) \in Nat
  BY FS_Subset, FS_CardinalityType, WeekLockAssumption DEF WeekLockAssumption

\* Fewer cards keep the limit.
LEMMA FewerCards ==
  ASSUME NEW S \in SUBSET Cards, NEW T \in SUBSET S, Cardinality(S) <= RosterLimit
  PROVE  Cardinality(T) <= RosterLimit
  <1>1. IsFiniteSet(S) /\ Cardinality(S) \in Nat /\ Cardinality(T) \in Nat
    BY CardsFinite
  <1>2. Cardinality(T) <= Cardinality(S)
    BY <1>1, FS_Subset
  <1> QED BY <1>1, <1>2, WeekLockAssumption DEF WeekLockAssumption

\* What a pass added to a snapshot: nothing, or in the first week the cards it read
\* and in the others the cards of the moment, each of an account not in it before.
LEMMA Added ==
  ASSUME RowsOK, LoopOK, CommitLock, NEW w \in Weeks, NEW c \in Cards
  PROVE  /\ \/ rosterRows'[w][c] = rosterRows[w][c]
            \/ /\ rosterRows'[w][c] = rosterRows[w][c] + 1
               /\ w \in loop.due /\ owner[c] \notin InSnapshot(w)
               /\ c \in (IF w = loop.first THEN loop.roster ELSE RosterCards)
         /\ \/ benchRows'[w][c] = benchRows[w][c]
            \/ /\ benchRows'[w][c] = benchRows[w][c] + 1
               /\ w \in loop.due /\ owner[c] \notin InSnapshot(w)
               /\ c \in (IF w = loop.first THEN loop.bench ELSE BenchCards)
  <1>1. loop.at = "bench"
    BY DEF CommitLock
  <1>2. loop.first \in loop.due /\ loop.done = InSnapshot(loop.first)
    BY <1>1 DEF LoopOK, Idle
  <1>3. /\ rosterRows'[w] = AddRows(rosterRows, w, loop.roster, RosterCards)
        /\ benchRows'[w] = AddRows(benchRows, w, loop.bench, BenchCards)
    BY DEF CommitLock
  <1>4. rosterRows[w][c] \in Nat /\ benchRows[w][c] \in Nat
    BY DEF RowsOK
  <1>5. CASE w = loop.first
    BY <1>2, <1>3, <1>4, <1>5 DEF AddRows, NotOf
  <1>6. CASE w # loop.first
    BY <1>2, <1>3, <1>4, <1>6 DEF AddRows, NotOf
  <1> QED BY <1>5, <1>6

\* A card drawn just now is in no snapshot.
LEMMA NewCard ==
  ASSUME RowsOK, CardsOK, NEW u \in Users, NEW c \in Cards, TakeCard(u, c)
  PROVE  /\ \A w \in Weeks : rosterRows[w][c] = 0 /\ benchRows[w][c] = 0
         /\ \A w \in Weeks : InSnapshot(w)' = InSnapshot(w)
         /\ \A v \in Users : Owned(v)' = IF v = u THEN Owned(v) \cup {c} ELSE Owned(v)
         /\ UNCHANGED <<rosterRows, benchRows, loop, week>>
         /\ owner[c] = None /\ u # None
  <1>1. owner[c] = None /\ u # None /\ owner' = [owner EXCEPT ![c] = u]
    BY WeekLockAssumption DEF TakeCard, WeekLockAssumption
  <1>2. ASSUME NEW w \in Weeks PROVE rosterRows[w][c] = 0 /\ benchRows[w][c] = 0
    <2>1. rosterRows[w][c] \in Nat /\ benchRows[w][c] \in Nat
      BY DEF RowsOK
    <2>2. ~(rosterRows[w][c] + benchRows[w][c] > 0)
      BY <1>1 DEF CardsOK
    <2> QED BY <2>1, <2>2
  <1>3. \A v \in Users : Owned(v)' = IF v = u THEN Owned(v) \cup {c} ELSE Owned(v)
    BY <1>1, WeekLockAssumption DEF Owned, RowsOK, WeekLockAssumption
  <1>4. UNCHANGED <<rosterRows, benchRows, loop, week>>
    BY DEF TakeCard, rowVars
  <1>5. \A w \in Weeks : InSnapshot(w)' = InSnapshot(w)
    BY <1>2, <1>3, <1>4 DEF InSnapshot
  <1> QED BY <1>1, <1>2, <1>3, <1>4, <1>5

\* No step puts a card nobody has drawn onto a roster or into a snapshot, or more cards
\* onto a roster than it may have.
LEMMA CardsStep ==
  ASSUME LockInv, [Next]_vars
  PROVE  CardsOK'
  <1> USE DEF LockInv
  <1>1. CASE UNCHANGED <<rowVars, owner, active>>
    BY <1>1 DEF CardsOK, rowVars, Owned
  <1>2. CASE CommitLock
    <2>1. UNCHANGED <<owner, active>>
      BY <1>2 DEF CommitLock, gameVars
    <2>2. ASSUME NEW w \in Weeks, NEW c \in Cards, rosterRows'[w][c] + benchRows'[w][c] > 0
          PROVE  owner[c] # None
      <3>1. CASE rosterRows'[w][c] = rosterRows[w][c] /\ benchRows'[w][c] = benchRows[w][c]
        BY <2>2, <3>1 DEF CardsOK
      <3>2. CASE c \in (IF w = loop.first THEN loop.roster ELSE RosterCards)
        BY <1>2, <3>2 DEF LoopOK, CommitLock, RosterCards, Idle
      <3>3. CASE c \in (IF w = loop.first THEN loop.bench ELSE BenchCards)
        BY <1>2, <3>3 DEF LoopOK, CommitLock, BenchCards, Idle
      <3> QED BY <1>2, <3>1, <3>2, <3>3, Added
    <2> QED BY <2>1, <2>2 DEF CardsOK, Owned
  <1>3. ASSUME NEW u \in Users, NEW c \in Cards, TakeCard(u, c) PROVE CardsOK'
    <2> DEFINE On(v) == {d \in Owned(v) : active[d]}
    <2>1. \A v \in Users : On(v) \in SUBSET Cards /\ Cardinality(On(v)) <= RosterLimit
      BY DEF CardsOK, Owned
    <2>2. active' = [active EXCEPT ![c] = Cardinality(On(u)) < RosterLimit]
      BY <1>3 DEF TakeCard
    <2>3. ASSUME NEW v \in Users
          PROVE  Cardinality({d \in Owned(v)' : active'[d]}) <= RosterLimit
      <3>1. CASE v = u /\ Cardinality(On(u)) < RosterLimit
        <4>1. {d \in Owned(v)' : active'[d]} \subseteq On(u) \cup {c}
          BY <1>3, <2>2, <3>1, NewCard DEF RowsOK, Owned
        <4>2. IsFiniteSet(On(u)) /\ Cardinality(On(u)) \in Nat
          BY <2>1, CardsFinite
        <4> HIDE DEF On
        <4>3. Cardinality(On(u) \cup {c}) <= Cardinality(On(u)) + 1
          BY <4>2, FS_AddElement
        <4>4. On(u) \cup {c} \in SUBSET Cards /\ Cardinality(On(u) \cup {c}) <= RosterLimit
          <5>1. Cardinality(On(u) \cup {c}) \in Nat
            BY <4>2, FS_AddElement, FS_CardinalityType
          <5> QED BY <2>1, <3>1, <4>2, <4>3, <5>1, WeekLockAssumption DEF WeekLockAssumption
        <4> QED BY <4>1, <4>4, FewerCards
      <3>2. CASE v # u \/ ~(Cardinality(On(u)) < RosterLimit)
        <4>1. {d \in Owned(v)' : active'[d]} \subseteq On(v)
          <5> DEFINE room == Cardinality(On(u)) < RosterLimit
          <5>1. active' = [active EXCEPT ![c] = room] /\ (v # u \/ ~room)
            BY <2>2, <3>2
          <5>2. c \notin Owned(v) /\ owner[c] = None
            BY <1>3, NewCard, WeekLockAssumption DEF Owned, WeekLockAssumption
          <5> HIDE DEF room
          <5> QED BY <1>3, <5>1, <5>2, NewCard DEF RowsOK, Owned
        <4> HIDE DEF On
        <4> QED BY <2>1, <4>1, FewerCards
      <3> QED BY <3>1, <3>2
    <2>4. \A d \in Cards : active'[d] => owner'[d] # None
      BY <1>3, NewCard DEF TakeCard, CardsOK, RowsOK
    <2>5. \A w \in Weeks, d \in Cards : rosterRows'[w][d] + benchRows'[w][d] > 0 => owner'[d] # None
      BY <1>3, NewCard DEF TakeCard, CardsOK, RowsOK
    <2> QED BY <2>3, <2>4, <2>5 DEF CardsOK
  <1>4. ASSUME NEW u \in Users, NEW A \in SUBSET Cards, ChangeRoster(u, A) PROVE CardsOK'
    <2>1. /\ A \subseteq Owned(u) /\ Cardinality(A) <= RosterLimit
          /\ active' = [c \in Cards |-> c \in A \/ (owner[c] # u /\ active[c])]
          /\ UNCHANGED <<rosterRows, benchRows, owner>>
      BY <1>4 DEF ChangeRoster, rowVars
    <2>2. ASSUME NEW v \in Users
          PROVE  Cardinality({d \in Owned(v) : active'[d]}) <= RosterLimit
      <3>1. CASE v = u
        <4>1. {d \in Owned(v) : active'[d]} = A
          BY <2>1, <3>1 DEF Owned
        <4> QED BY <2>1, <4>1
      <3>2. CASE v # u
        <4>1. {d \in Owned(v) : active'[d]} = {d \in Owned(v) : active[d]}
          BY <2>1, <3>2 DEF Owned
        <4> QED BY <4>1 DEF CardsOK
      <3> QED BY <3>1, <3>2
    <2>3. \A c \in Cards : active'[c] => owner[c] # None
      BY <2>1, WeekLockAssumption DEF Owned, CardsOK, WeekLockAssumption
    <2> QED BY <2>1, <2>2, <2>3 DEF CardsOK, Owned
  <1> QED BY <1>1, <1>2, <1>3, <1>4, Frames DEF CommitLock

\* What a pass of the loop has found and read stays so until its commit.
LEMMA LoopStep ==
  ASSUME LockInv, [Next]_vars
  PROVE  LoopOK'
  <1> USE DEF LockInv
  <1>1. CASE ReadDue
    BY <1>1 DEF ReadDue, LoopOK, Due, Existing, Idle
  <1>2. CASE ReadSnapshotted
    BY <1>2 DEF ReadSnapshotted, LoopOK, Idle, InSnapshot, Owned, rowVars, gameVars
  <1>3. CASE ReadActive
    <2>1. \A u \in Users : {c \in Owned(u) : c \in RosterCards} = {c \in Owned(u) : active[c]}
      BY WeekLockAssumption DEF RosterCards, Owned, WeekLockAssumption
    <2>2. \A u \in Users : Cardinality({c \in Owned(u) : c \in RosterCards}) <= RosterLimit
      BY <2>1 DEF CardsOK
    <2>3. \A c \in RosterCards : c \in Cards /\ owner[c] # None
      BY DEF RosterCards
    <2> QED BY <1>3, <2>2, <2>3 DEF ReadActive, LoopOK, Idle, InSnapshot, Owned, rowVars, gameVars
  <1>4. CASE ReadBench
    <2>1. \A c \in BenchCards : c \in Cards /\ owner[c] # None
      BY DEF BenchCards
    <2> QED BY <1>4, <2>1 DEF ReadBench, LoopOK, Idle, InSnapshot, Owned, rowVars, gameVars
  <1>5. CASE CommitLock \/ FailLock
    BY <1>5 DEF CommitLock, FailLock, AfterError, LoopOK
  <1>6. ASSUME UNCHANGED loop, UNCHANGED rowVars, UNCHANGED owner,
               \A w \in Weeks : week'[w].exists /\ week'[w].locked =>
                                  week[w].exists /\ week[w].locked
        PROVE  LoopOK'
    BY <1>6, WeekFields DEF LoopOK, InSnapshot, Owned, rowVars
  <1>7. ASSUME NEW u \in Users, NEW c \in Cards, TakeCard(u, c) PROVE LoopOK'
    <2>1. ASSUME loop.at \in {"active", "bench"}, loop # Idle
          PROVE  /\ \A d \in loop.roster : d \in Cards /\ owner'[d] # None
                 /\ \A v \in Users : Cardinality({d \in Owned(v)' : d \in loop.roster}) <= RosterLimit
      <3>1. \A d \in loop.roster : d \in Cards /\ owner[d] # None
        BY <2>1 DEF LoopOK
      <3>2. c \notin loop.roster
        BY <1>7, <3>1, NewCard
      <3>3. \A v \in Users : {d \in Owned(v)' : d \in loop.roster} = {d \in Owned(v) : d \in loop.roster}
        BY <1>7, <3>2, NewCard
      <3> QED BY <1>7, <2>1, <3>1, <3>2, <3>3 DEF LoopOK, TakeCard, RowsOK
    <2>2. loop.at = "bench" /\ loop # Idle => \A d \in loop.bench : d \in Cards /\ owner'[d] # None
      BY <1>7, NewCard DEF LoopOK, TakeCard, RowsOK
    <2> QED BY <1>7, <2>1, <2>2, NewCard DEF LoopOK
  <1>8. ASSUME NEW a \in Admins, CommitCreate(a) \/ CommitEdit(a) \/ CommitDelete(a)
        PROVE  \A w \in Weeks : week'[w].exists /\ week'[w].locked => week[w].exists /\ week[w].locked
    <2>1. CASE CommitCreate(a)
      BY <2>1 DEF CommitCreate, RowsOK
    <2>2. CASE CommitEdit(a)
      BY <2>2, AdminFields DEF CommitEdit, Existing, RowsOK
    <2>3. CASE CommitDelete(a)
      BY <2>3, AdminFields DEF CommitDelete, RowsOK, Absent
    <2> QED BY <1>8, <2>1, <2>2, <2>3
  <1>9. CASE UNCHANGED loop /\ ~CommitLock
    <2>1. UNCHANGED rowVars
      BY <1>9, Frames
    <2>2. \A w \in Weeks : week'[w].exists /\ week'[w].locked => week[w].exists /\ week[w].locked
      BY <1>8, <1>9, Frames
    <2>3. UNCHANGED owner \/ \E u \in Users, c \in Cards : TakeCard(u, c)
      BY Frames DEF ChangeRoster
    <2> QED BY <1>6, <1>7, <1>9, <2>1, <2>2, <2>3
  <1> QED BY <1>1, <1>2, <1>3, <1>4, <1>5, <1>9, Frames DEF Loop

\* No step, the commit of a lock included, gives a card two rows of a week or an account
\* more than a roster of them.
LEMMA SnapshotStep ==
  ASSUME LockInv, [Next]_vars
  PROVE  SnapshotLegal'
  <1> USE DEF LockInv
  <1>1. CASE CommitLock
    <2>1. UNCHANGED owner /\ loop.at = "bench" /\ loop # Idle
      BY <1>1 DEF CommitLock, gameVars, Idle
    <2>2. ASSUME NEW w \in Weeks, NEW c \in Cards
          PROVE  rosterRows'[w][c] <= 1
      <3>1. CASE rosterRows'[w][c] = rosterRows[w][c]
        BY <3>1 DEF SnapshotLegal
      <3>2. CASE /\ rosterRows'[w][c] = rosterRows[w][c] + 1
                 /\ owner[c] \notin InSnapshot(w)
                 /\ c \in (IF w = loop.first THEN loop.roster ELSE RosterCards)
        <4>1. owner[c] \in Users
          BY <2>1, <3>2 DEF LoopOK, RosterCards, RowsOK
        <4>2. rosterRows[w][c] \in Nat /\ benchRows[w][c] \in Nat
          BY DEF RowsOK
        <4>3. ~(rosterRows[w][c] + benchRows[w][c] > 0)
          BY <3>2, <4>1 DEF InSnapshot, Owned
        <4> QED BY <3>2, <4>2, <4>3
      <3> QED BY <1>1, <3>1, <3>2, Added
    <2>3. ASSUME NEW w \in Weeks, NEW u \in Users
          PROVE  Cardinality({c \in Owned(u) : rosterRows'[w][c] > 0}) <= RosterLimit
      <3>1. CASE u \in InSnapshot(w)
        <4>1. \A c \in Owned(u) : rosterRows'[w][c] = rosterRows[w][c]
          BY <1>1, <3>1, Added DEF Owned
        <4>2. {c \in Owned(u) : rosterRows'[w][c] > 0} = {c \in Owned(u) : rosterRows[w][c] > 0}
          BY <4>1
        <4> QED BY <4>2 DEF SnapshotLegal
      <3>2. CASE u \notin InSnapshot(w)
        <4> DEFINE source == IF w = loop.first THEN loop.roster ELSE RosterCards
        <4>1. ASSUME NEW c \in Owned(u), rosterRows'[w][c] > 0 PROVE c \in source
          <5>1. rosterRows[w][c] \in Nat /\ benchRows[w][c] \in Nat /\ c \in Cards
            BY DEF RowsOK, Owned
          <5>2. ~(rosterRows[w][c] + benchRows[w][c] > 0)
            BY <3>2 DEF InSnapshot
          <5>3. rosterRows'[w][c] # rosterRows[w][c]
            BY <4>1, <5>1, <5>2
          <5> QED BY <1>1, <5>1, <5>3, Added
        <4>2. Cardinality({c \in Owned(u) : c \in source}) <= RosterLimit
          <5>1. CASE w = loop.first
            BY <2>1, <5>1 DEF LoopOK
          <5>2. CASE w # loop.first
            <6>1. {c \in Owned(u) : c \in RosterCards} = {c \in Owned(u) : active[c]}
              BY WeekLockAssumption DEF RosterCards, Owned, WeekLockAssumption
            <6> QED BY <5>2, <6>1 DEF CardsOK
          <5> QED BY <5>1, <5>2
        <4>3. {c \in Owned(u) : c \in source} \in SUBSET Cards
          BY DEF Owned
        <4> HIDE DEF source
        <4> QED BY <4>1, <4>2, <4>3, FewerCards
      <3> QED BY <3>1, <3>2
    <2> QED BY <2>1, <2>2, <2>3 DEF SnapshotLegal, Owned
  <1>2. ASSUME NEW u \in Users, NEW c \in Cards, TakeCard(u, c) PROVE SnapshotLegal'
    <2>1. ASSUME NEW v \in Users, NEW w \in Weeks
          PROVE  {d \in Owned(v)' : rosterRows[w][d] > 0} = {d \in Owned(v) : rosterRows[w][d] > 0}
      BY <1>2, NewCard
    <2> QED BY <1>2, <2>1, NewCard DEF SnapshotLegal
  <1>3. CASE UNCHANGED rowVars /\ UNCHANGED owner
    BY <1>3 DEF SnapshotLegal, rowVars, Owned
  <1> QED BY <1>1, <1>2, <1>3, Frames DEF ChangeRoster

\* The inductive invariant holds in every reachable state.
THEOREM LockInvariant == Spec => []LockInv
<1>1. Init => LockInv
  <2> SUFFICES ASSUME Init PROVE LockInv
    OBVIOUS
  <2>1. RowsOK /\ RequestsOK /\ LoopOK
    BY WeekLockAssumption DEF Init, RowsOK, RequestsOK, LoopOK, Times, Weeks, WeekLockAssumption
  <2>2. \A u \in Users : Owned(u) = {}
    BY WeekLockAssumption DEF Init, Owned, WeekLockAssumption
  <2>3. Cardinality({}) = 0 /\ 0 <= RosterLimit
    BY FS_EmptySet, WeekLockAssumption DEF WeekLockAssumption
  <2>4. \A u \in Users : {c \in Owned(u) : active[c]} = {}
    BY <2>2
  <2>5. \A w \in Weeks, u \in Users : {c \in Owned(u) : rosterRows[w][c] > 0} = {}
    BY <2>2
  <2>6. CardsOK
    <3>1. \A u \in Users : Cardinality({c \in Owned(u) : active[c]}) <= RosterLimit
      BY <2>3, <2>4
    <3>2. \A w \in Weeks, c \in Cards : ~(rosterRows[w][c] + benchRows[w][c] > 0)
      BY DEF Init
    <3>3. \A c \in Cards : ~active[c]
      BY DEF Init
    <3> QED BY <3>1, <3>2, <3>3 DEF CardsOK
  <2>7. SnapshotLegal
    <3>1. \A w \in Weeks, u \in Users : Cardinality({c \in Owned(u) : rosterRows[w][c] > 0}) <= RosterLimit
      BY <2>3, <2>5
    <3> QED BY <3>1 DEF Init, SnapshotLegal
  <2> QED BY <2>1, <2>6, <2>7 DEF LockInv
<1>2. LockInv /\ [Next]_vars => LockInv'
  BY TypesStep, CardsStep, LoopStep, SnapshotStep DEF LockInv
<1> QED BY <1>1, <1>2, PTL DEF Spec

\* Whatever happens to a week and its id before the lock, no card is in the roster
\* of a snapshot twice and nobody has more than RosterLimit cards in it: the loop
\* skips accounts that are in the snapshot already, and the roster it read was legal
\* when it read it.
THEOREM SnapshotLegalHolds == Spec => []SnapshotLegal
<1>1. LockInv => SnapshotLegal
  BY DEF LockInv
<1> QED BY <1>1, LockInvariant, PTL

\* The rows of a locked week never change: a pass only adds rows to the weeks it
\* found unlocked, and until it commits nobody else locks a week.
THEOREM SnapshotImmutableHolds == Spec => SnapshotImmutable
<1>1. LockInv /\ [Next]_vars =>
        \A w \in Existing : (week[w].locked /\ week'[w].exists /\ week'[w].locked) =>
          rosterRows'[w] = rosterRows[w] /\ benchRows'[w] = benchRows[w]
  <2> SUFFICES ASSUME LockInv, [Next]_vars, NEW w \in Existing, week[w].locked
               PROVE  rosterRows'[w] = rosterRows[w] /\ benchRows'[w] = benchRows[w]
    OBVIOUS
  <2>1. CASE CommitLock
    <3>1. w \in Weeks /\ w \notin loop.due
      BY <2>1 DEF LockInv, LoopOK, CommitLock, Idle, Existing
    <3>2. \A c \in Cards : rosterRows'[w][c] = rosterRows[w][c] /\ benchRows'[w][c] = benchRows[w][c]
      BY <2>1, <3>1, Added DEF LockInv
    <3>3. rosterRows'[w] \in [Cards -> Nat] /\ benchRows'[w] \in [Cards -> Nat]
      BY <3>1, TypesStep DEF LockInv, RowsOK
    <3>4. rosterRows[w] \in [Cards -> Nat] /\ benchRows[w] \in [Cards -> Nat]
      BY <3>1 DEF LockInv, RowsOK
    <3> QED BY <3>2, <3>3, <3>4
  <2>2. CASE UNCHANGED rowVars
    BY <2>2 DEF rowVars
  <2> QED BY <2>1, <2>2, Frames
<1>2. LockInv /\ [Next]_vars =>
        [\A w \in Existing : (week[w].locked /\ week'[w].exists /\ week'[w].locked) =>
           rosterRows'[w] = rosterRows[w] /\ benchRows'[w] = benchRows[w]]_vars
  BY <1>1
<1> QED BY <1>2, LockInvariant, PTL DEF Spec, SnapshotImmutable

\* The steps that lock a week are those of the loop's commit.
LEMMA LocksAreCommits ==
  ASSUME LockInv, [Next]_vars
  PROVE  (\E w \in Weeks : /\ week'[w].exists /\ week'[w].locked
                           /\ ~(week[w].exists /\ week[w].locked))
           <=> CommitLock
  <1> USE DEF LockInv
  <1>1. ASSUME CommitLock
        PROVE  \E w \in Weeks : /\ week'[w].exists /\ week'[w].locked
                                /\ ~(week[w].exists /\ week[w].locked)
    <2>1. loop.first \in Weeks /\ loop.first \in loop.due /\ loop.first \in Existing
          /\ ~week[loop.first].locked
      BY <1>1 DEF LoopOK, CommitLock, Idle, Existing
    <2>2. week[loop.first] \in WeekRows
      BY <2>1, WeekFields DEF Existing
    <2>3. week'[loop.first] = [week[loop.first] EXCEPT !.locked = TRUE]
      BY <1>1, <2>1 DEF CommitLock
    <2>4. week'[loop.first].exists /\ week'[loop.first].locked
      BY <2>1, <2>2, <2>3 DEF WeekRows, Existing
    <2> QED BY <2>1, <2>4
  <1>2. ASSUME NEW a \in Admins, NEW w \in Weeks, CommitCreate(a) \/ CommitEdit(a) \/ CommitDelete(a),
               week'[w].exists, week'[w].locked
        PROVE  week[w].exists /\ week[w].locked
    <2>1. CASE CommitCreate(a)
      BY <1>2, <2>1 DEF CommitCreate, RowsOK
    <2>2. CASE CommitEdit(a)
      BY <1>2, <2>2, AdminFields DEF CommitEdit, Existing, RowsOK
    <2>3. CASE CommitDelete(a)
      BY <1>2, <2>3, AdminFields DEF CommitDelete, RowsOK, Absent
    <2> QED BY <1>2, <2>1, <2>2, <2>3
  <1> QED BY <1>1, <1>2, Frames

\* A step credits one token to every account if it locks a week and none otherwise.
THEOREM GrantsWithLockHolds == Spec => GrantsWithLock
<1> DEFINE Locks == \E w \in Weeks : /\ week'[w].exists /\ week'[w].locked
                                     /\ ~(week[w].exists /\ week[w].locked)
           Credits == \A u \in Users : grants'[u] = grants[u] + (IF Locks /\ u \in users THEN 1 ELSE 0)
<1>1. LockInv /\ [Next]_vars => Credits
  <2> SUFFICES ASSUME LockInv, [Next]_vars PROVE Credits
    OBVIOUS
  <2>1. Locks <=> CommitLock
    BY LocksAreCommits
  <2>2. grants \in [Users -> Nat]
    BY DEF LockInv, RowsOK
  <2> HIDE DEF Locks
  <2>3. CASE CommitLock
    BY <2>1, <2>2, <2>3 DEF CommitLock, Credited
  <2>4. CASE ~CommitLock
    BY <2>1, <2>2, <2>4, Frames DEF rowVars
  <2> QED BY <2>3, <2>4
<1>2. LockInv /\ [Next]_vars => [Credits]_vars
  BY <1>1
<1> QED BY <1>2, LockInvariant, PTL DEF Spec, GrantsWithLock

-----------------------------------------------------------------------------
(* With one admin at a time *)

OneAdmin == \A a, b \in Admins : a = b

\* Two weeks that do not overlap lie one before the other.
LEMMA NotOverlapping ==
  ASSUME RowsOK, NEW r \in [start : Times, end : Times], NEW w \in Existing, ~Overlaps(r, w)
  PROVE  r.end <= week[w].start \/ week[w].end <= r.start
  <1>1. week[w].start \in Int /\ week[w].end \in Int /\ r.start \in Int /\ r.end \in Int
    BY WeekFields, WeekLockAssumption DEF Existing, Times, WeekLockAssumption
  <1> QED BY <1>1 DEF Overlaps

\* With one admin, what a request has checked still holds when it is written.
LEMMA OneAdminStep ==
  ASSUME OneAdmin, LockInv, OneAdminInv, [Next]_vars
  PROVE  OneAdminInv'
  <1> USE DEF LockInv
  <1> DEFINE Kept == \A w \in Weeks :
               /\ week'[w].exists <=> week[w].exists
               /\ week[w].exists => week'[w].start = week[w].start /\ week'[w].end = week[w].end
  <1>1. ASSUME Kept, UNCHANGED req PROVE OneAdminInv'
    <2>1. Existing' = Existing
      BY <1>1 DEF Existing
    <2>2. \A w \in Existing : week'[w].start = week[w].start /\ week'[w].end = week[w].end
      BY <1>1 DEF Existing
    <2>3. \A w \in Existing' : week'[w].start < week'[w].end
      BY <2>1, <2>2 DEF OneAdminInv
    <2>4. WeeksDisjoint'
      BY <2>1, <2>2 DEF OneAdminInv, WeeksDisjoint
    <2>5. \A r : HasOverlap(r, None) <=> HasOverlap(r, None)'
      BY <2>1, <2>2 DEF HasOverlap, Overlaps
    <2>6. UNCHANGED req
      BY <1>1
    <2> HIDE DEF Kept
    <2>7. ASSUME NEW a \in Admins, req[a].op = "edit", req[a].week \in Existing
          PROVE  req[a].read = [start |-> week'[req[a].week].start,
                                end |-> week'[req[a].week].end]
      BY <2>2, <2>7 DEF OneAdminInv
    <2> QED BY <2>1, <2>3, <2>4, <2>5, <2>6, <2>7 DEF OneAdminInv
  <1>2. CASE UNCHANGED week /\ UNCHANGED req
    BY <1>1, <1>2
  <1>3. CASE CommitLock
    <2>1. UNCHANGED req
      BY <1>3 DEF CommitLock
    <2>2. ASSUME NEW w \in Weeks
          PROVE  /\ week'[w].exists <=> week[w].exists
                 /\ week[w].exists => week'[w].start = week[w].start /\ week'[w].end = week[w].end
      <3>1. CASE w \in loop.due
        <4>1. week[w] \in WeekRows
          BY <1>3, <3>1, WeekFields DEF CommitLock, Existing
        <4>2. week'[w] = [week[w] EXCEPT !.locked = TRUE]
          BY <1>3, <3>1 DEF CommitLock
        <4> QED BY <4>1, <4>2 DEF WeekRows
      <3>2. CASE w \notin loop.due
        BY <1>3, <3>2 DEF CommitLock
      <3> QED BY <3>1, <3>2
    <2> QED BY <1>1, <2>1, <2>2
  <1>4. ASSUME NEW a \in Admins, NEW r \in Ranges, BeginCreate(a, r) PROVE OneAdminInv'
    <2>1. UNCHANGED week /\ ~HasOverlap(r, None)
          /\ req' = [req EXCEPT ![a] = [op |-> "create", to |-> r]]
      BY <1>4 DEF BeginCreate
    <2>2. \A b \in Admins : req'[b] = [op |-> "create", to |-> r]
      BY <2>1 DEF OneAdmin, RequestsOK
    <2> QED BY <2>1, <2>2 DEF OneAdminInv, Existing, HasOverlap, Overlaps, WeeksDisjoint
  <1>5. ASSUME NEW a \in Admins, CommitCreate(a) PROVE OneAdminInv'
    <2> DEFINE to == req[a].to
    <2>1. to \in Ranges /\ ~HasOverlap(to, None) /\ NextId \in Weeks
      BY <1>5, AdminFields DEF CommitCreate, OneAdminInv
    <2>2. PICK n \in Weeks : n = NextId
      BY <2>1
    <2>3. /\ week' = [week EXCEPT ![n] =
                        [exists |-> TRUE, start |-> to.start, end |-> to.end, locked |-> FALSE]]
          /\ req' = [req EXCEPT ![a] = NoRequest]
      BY <1>5, <2>2 DEF CommitCreate, Answer
    <2>4. \A b \in Admins : req'[b].op = "none"
      BY <2>3 DEF OneAdmin, RequestsOK, NoRequest
    <2>5. Existing' \subseteq Existing \cup {n} /\ week'[n].start = to.start /\ week'[n].end = to.end
          /\ \A w \in Weeks : w # n => week'[w] = week[w]
      BY <2>3 DEF Existing, RowsOK
    <2>6. ASSUME NEW w \in Existing, w # n
          PROVE  to.end <= week[w].start \/ week[w].end <= to.start
      <3>1. ~Overlaps(to, w)
        BY <2>1, WeekLockAssumption DEF HasOverlap, Existing, Weeks, WeekLockAssumption
      <3>2. to \in [start : Times, end : Times]
        BY <2>1 DEF Ranges
      <3> QED BY <3>1, <3>2, NotOverlapping
    <2>7. to.start < to.end
      BY <2>1, RangeFields
    <2> HIDE DEF to
    <2>8. \A w \in Existing' : week'[w].start < week'[w].end
      BY <2>5, <2>7 DEF OneAdminInv, Existing
    <2>9. WeeksDisjoint'
      BY <2>5, <2>6 DEF OneAdminInv, WeeksDisjoint, Existing
    <2> QED BY <2>4, <2>8, <2>9 DEF OneAdminInv
  <1>6. ASSUME NEW a \in Admins, NEW w \in Weeks, NEW r \in Ranges, BeginEdit(a, w, r)
        PROVE  OneAdminInv'
    <2> DEFINE edit == [op |-> "edit", week |-> w, to |-> r,
                        read |-> [start |-> week[w].start, end |-> week[w].end]]
    <2>1. UNCHANGED week /\ req' = [req EXCEPT ![a] = edit]
      BY <1>6 DEF BeginEdit
    <2>2. \A b \in Admins : req'[b] = edit
      BY <2>1 DEF OneAdmin, RequestsOK
    <2> QED BY <2>1, <2>2 DEF OneAdminInv, Existing, HasOverlap, Overlaps, WeeksDisjoint
  <1>7. ASSUME NEW a \in Admins, CommitEdit(a) PROVE OneAdminInv'
    <2> DEFINE to == req[a].to
    <2>1. PICK n \in Existing : n = req[a].week
      BY <1>7 DEF CommitEdit
    <2>2. /\ to \in Ranges /\ ~HasOverlap(to, n)
          /\ req[a].read = [start |-> week[n].start, end |-> week[n].end]
      BY <1>7, <2>1, AdminFields DEF CommitEdit, OneAdminInv
    <2>3. week[n] \in WeekRows /\ n \in Weeks
      BY <2>1, WeekFields DEF Existing
    <2>4. /\ week' = [week EXCEPT ![n] = [week[n] EXCEPT !.start = to.start, !.end = to.end]]
          /\ req' = [req EXCEPT ![a] = NoRequest]
      <3>1. /\ week' = [week EXCEPT
                 ![n].start = IF to.start # req[a].read.start THEN to.start ELSE week[n].start,
                 ![n].end = IF to.end # req[a].read.end THEN to.end ELSE week[n].end]
            /\ req' = [req EXCEPT ![a] = NoRequest]
        BY <1>7, <2>1, <2>3 DEF CommitEdit, Answer, WeekRows, RowsOK
      <3>2. (IF to.start # req[a].read.start THEN to.start ELSE week[n].start) = to.start
            /\ (IF to.end # req[a].read.end THEN to.end ELSE week[n].end) = to.end
        BY <2>2
      <3> HIDE DEF to
      <3> QED BY <2>3, <3>1, <3>2 DEF RowsOK, WeekRows
    <2>5. \A b \in Admins : req'[b].op = "none"
      BY <2>4 DEF OneAdmin, RequestsOK, NoRequest
    <2>6. week'[n] = [week[n] EXCEPT !.start = to.start, !.end = to.end]
          /\ \A w \in Weeks : w # n => week'[w] = week[w]
      BY <2>3, <2>4 DEF RowsOK
    <2>7. week'[n].start = to.start /\ week'[n].end = to.end
      BY <2>3, <2>6 DEF WeekRows
    <2>8. Existing' \subseteq Existing \cup {n}
      BY <2>6 DEF Existing
    <2>9. ASSUME NEW w \in Existing, w # n
          PROVE  to.end <= week[w].start \/ week[w].end <= to.start
      <3>1. ~Overlaps(to, w)
        BY <2>2, <2>9 DEF HasOverlap
      <3>2. to \in [start : Times, end : Times]
        BY <2>2 DEF Ranges
      <3> QED BY <3>1, <3>2, NotOverlapping
    <2>10. to.start < to.end
      BY <2>2, RangeFields
    <2> HIDE DEF to
    <2>11. \A w \in Existing' : week'[w].start < week'[w].end
      BY <2>6, <2>7, <2>8, <2>10 DEF OneAdminInv, Existing
    <2>12. WeeksDisjoint'
      <3>1. ASSUME NEW v \in Existing', NEW w \in Existing', v # w
            PROVE  week'[v].end <= week'[w].start \/ week'[w].end <= week'[v].start
        <4>1. v \in Existing /\ w \in Existing /\ v \in Weeks /\ w \in Weeks
          BY <2>8 DEF Existing
        <4>2. CASE v = n
          BY <2>6, <2>7, <2>9, <3>1, <4>1, <4>2
        <4>3. CASE w = n
          BY <2>6, <2>7, <2>9, <3>1, <4>1, <4>3
        <4>4. CASE v # n /\ w # n
          BY <2>6, <3>1, <4>1, <4>4 DEF OneAdminInv, WeeksDisjoint
        <4> QED BY <4>2, <4>3, <4>4
      <3> QED BY <3>1 DEF WeeksDisjoint
    <2> QED BY <2>5, <2>11, <2>12 DEF OneAdminInv
  <1>8. ASSUME NEW a \in Admins, CommitDelete(a) PROVE OneAdminInv'
    <2>1. PICK n \in Weeks : n = req[a].week
      BY <1>8, AdminFields DEF CommitDelete
    <2>2. week' = [week EXCEPT ![n] = Absent] /\ req' = [req EXCEPT ![a] = NoRequest]
      BY <1>8, <2>1 DEF CommitDelete, Answer
    <2>3. \A b \in Admins : req'[b].op = "none"
      BY <2>2 DEF OneAdmin, RequestsOK, NoRequest
    <2>4. Existing' \subseteq Existing \ {n} /\ \A w \in Weeks : w # n => week'[w] = week[w]
      BY <2>2 DEF Existing, RowsOK, Absent
    <2> QED BY <2>3, <2>4 DEF OneAdminInv, WeeksDisjoint, Existing
  <1>9. ASSUME NEW a \in Admins, RefuseEdit(a) \/ \E w \in Weeks : BeginDelete(a, w)
        PROVE  OneAdminInv'
    <2>1. UNCHANGED week
      BY <1>9 DEF RefuseEdit, BeginDelete
    <2>2. \A b \in Admins : req'[b].op \in {"none", "delete"}
      BY <1>9 DEF RefuseEdit, BeginDelete, Answer, NoRequest, OneAdmin, RequestsOK
    <2> QED BY <2>1, <2>2 DEF OneAdminInv, WeeksDisjoint, Existing
  <1>10. \/ UNCHANGED week /\ UNCHANGED req
         \/ CommitLock
         \/ \E a \in Admins : Admin(a)
    BY DEF Next, vars, Loop, Register, TakeCard, ChangeRoster, Tick, ReadDue, ReadSnapshotted,
           ReadActive, ReadBench, FailLock
  <1> QED BY <1>2, <1>3, <1>4, <1>5, <1>6, <1>7, <1>8, <1>9, <1>10 DEF Admin

\* With one admin, whatever happens the weeks start before they end and stay apart.
LEMMA OneAdminInvariant ==
  ASSUME OneAdmin
  PROVE  Spec => []OneAdminInv
<1>1. Init => OneAdminInv
  BY DEF Init, OneAdminInv, Existing, Absent, NoRequest, WeeksDisjoint
<1>2. LockInv /\ OneAdminInv /\ [Next]_vars => OneAdminInv'
  BY OneAdminStep
<1> QED BY <1>1, <1>2, LockInvariant, PTL DEF Spec

\* With one admin at a time no two weeks overlap: a create checks the range it
\* inserts and nobody changes a range before it does, and an edit checks under the
\* write lock the range it has written.
THEOREM WeeksDisjointHolds ==
  ASSUME OneAdmin
  PROVE  Spec => []WeeksDisjoint
<1>1. OneAdminInv => WeeksDisjoint
  BY DEF OneAdminInv
<1> QED BY <1>1, OneAdminInvariant, PTL

\* Type correctness.  That a week ends after it starts needs the one admin: of two
\* edits that read the same row each writes only the times it changed.
THEOREM TypeCorrect ==
  ASSUME OneAdmin
  PROVE  Spec => []TypeOK
<1>1. LockInv /\ OneAdminInv => TypeOK
  <2> SUFFICES ASSUME LockInv, OneAdminInv PROVE TypeOK
    OBVIOUS
  <2>1. ASSUME NEW w \in Weeks, week[w] # Absent
        PROVE  /\ week[w] \in [exists : {TRUE}, start : Times, end : Times, locked : BOOLEAN]
               /\ week[w].start < week[w].end
    BY <2>1, WeekFields DEF LockInv, OneAdminInv, Existing, WeekRows
  <2> QED BY <2>1 DEF LockInv, RowsOK, LoopOK, TypeOK
<1> QED BY <1>1, LockInvariant, OneAdminInvariant, PTL
=============================================================================
