--------------------------- MODULE RecordsProofs ---------------------------
(* Proofs about what the server keeps of the outside world, modules           *)
(* MatchStore, Season, Polling, Channels, Finals, Caches and Enrichment, for  *)
(* every set of matches, accounts, series and players and every number of     *)
(* polls, requests and batches, and about the group table behind the finals,  *)
(* module FinalsTable, for every number of teams and all results.             *)
EXTENDS MatchStore, Season, Polling, Channels, Finals, Caches, Enrichment, FinalsTable,
        SumTheorems

-----------------------------------------------------------------------------
(* Matches of the store: the inductive invariant *)

Sources == {"league"} \cup Manual
Statuses == {"parsed", "unparsed", "unparseable"}
Rows == {"raw", "full", "replay"}
MatchRows == [source : Sources, rows : Rows, status : Statuses, by : 0..nrequests]

\* A row as it may be read: without the match, or one of these.
MaybeRow(row) ==
  row = NotStored \/ (row \in MatchRows /\ (row.source = "league" <=> row.by = 0))

AddRequests ==
  [id : 1..nrequests, op : {"add"}, game : GameIds, saw : MatchRows \cup {NotStored},
   confirm : BOOLEAN, data : [source : Manual, rows : Rows, status : Statuses]]
RefetchRequests ==
  [id : 1..nrequests, op : {"refetch"}, game : GameIds, saw : MatchRows]
ScoringRequests ==
  [id : 1..nrequests, op : {"scoring"}, game : GameIds, status : Statuses]

\* What a request read still says this of the match it is about.
AddReads(r) ==
  /\ r.saw.source # "league" /\ (r.saw = NotStored \/ r.confirm)
  /\ r.saw # NotStored => IsStored(r.game) /\ stored[r.game].source # "league"
  /\ r.id # stored[r.game].by

StoreTypes ==
  /\ upstream \in [GameIds -> {"raw", "short", "full"}]
  /\ aged \subseteq GameIds
  /\ nrequests \in Nat
  /\ stored \in [GameIds -> MatchRows \cup {NotStored}]
  /\ pass \in [stage : {"none", "ingest", "retry"}, by : {"none", "poll", "admin"},
               todo : SUBSET GameIds]
  /\ adminReqs \subseteq AddRequests \cup RefetchRequests \cup ScoringRequests
StoreRows == \A m \in GameIds : MaybeRow(stored[m])
RetryReads ==
  pass.stage = "retry" => \A m \in pass.todo : IsStored(m) /\ stored[m].rows = "raw"
StoreIds == \A r, s \in adminReqs : r.id = s.id => r = s
StoreReads ==
  \A r \in adminReqs :
    /\ r.op = "add" => AddReads(r)
    /\ r.op = "refetch" => IsStored(r.game) /\ r.saw.source # "replay"
    /\ r.op = "scoring" => IsStored(r.game)

StoreInv == StoreTypes /\ StoreRows /\ RetryReads /\ StoreIds /\ StoreReads

\* A row after a step that takes in no request: as it was, or a match row that no open
\* request has written and that is of no league unless it was or is new.
RowStep(m) ==
  \/ stored'[m] = stored[m]
  \/ /\ stored'[m] \in MatchRows
     /\ (stored'[m].source = "league") <=> (stored'[m].by = 0)
     /\ IsStored(m) => (stored'[m].source = "league" => stored[m].source = "league")
     /\ \A r \in adminReqs' : r.op = "add" /\ r.game = m => r.id # stored'[m].by

\* A step that changes each row as a pass or a confirmed request may keeps the invariant,
\* and what the requests that stay have read.
LEMMA RequestsKept ==
  ASSUME StoreInv, nrequests' = nrequests, adminReqs' \subseteq adminReqs,
         stored' \in [GameIds -> MatchRows \cup {NotStored}],
         \A m \in GameIds : RowStep(m),
         upstream' \in [GameIds -> {"raw", "short", "full"}], aged' \subseteq GameIds,
         pass' \in [stage : {"none", "ingest", "retry"}, by : {"none", "poll", "admin"},
                    todo : SUBSET GameIds],
         RetryReads'
  PROVE  StoreInv'
  <1>1. StoreTypes'
    BY DEF StoreInv, StoreTypes, MatchRows, AddRequests, RefetchRequests, ScoringRequests
  <1>2. StoreRows'
    BY DEF StoreInv, StoreRows, RowStep, MaybeRow, MatchRows
  <1>3. StoreIds'
    BY DEF StoreInv, StoreIds
  <1>4. StoreReads'
    <2> SUFFICES ASSUME NEW r \in adminReqs'
                 PROVE  /\ r.op = "add" => AddReads(r)'
                        /\ r.op = "refetch" => IsStored(r.game)' /\ r.saw.source # "replay"
                        /\ r.op = "scoring" => IsStored(r.game)'
      BY DEF StoreReads
    <2>1. r \in adminReqs /\ r.game \in GameIds
      BY DEF StoreInv, StoreTypes, AddRequests, RefetchRequests, ScoringRequests
    <2>2. RowStep(r.game)
      BY <2>1
    <2>3. /\ r.op = "add" => AddReads(r)
          /\ r.op = "refetch" => IsStored(r.game) /\ r.saw.source # "replay"
          /\ r.op = "scoring" => IsStored(r.game)
      BY <2>1 DEF StoreInv, StoreReads
    <2>4. IsStored(r.game) => IsStored(r.game)'
      BY <2>2 DEF RowStep, IsStored, MatchRows, NotStored, Sources, Manual
    <2>5. r.op = "add" => AddReads(r)'
      BY <2>2, <2>3, <2>4 DEF AddReads, RowStep
    <2> QED BY <2>3, <2>4, <2>5
  <1> QED BY <1>1, <1>2, <1>3, <1>4 DEF StoreInv

\* A request takes the next number.
LEMMA RequestTaken ==
  ASSUME StoreInv, NEW r, Arrive(r),
         [r EXCEPT !.id = nrequests + 1] \in (AddRequests \cup RefetchRequests \cup ScoringRequests)',
         LET q == [r EXCEPT !.id = nrequests + 1] IN
           /\ q.id = nrequests + 1
           /\ q.op = "add" => /\ q.saw.source # "league" /\ (q.saw = NotStored \/ q.confirm)
                              /\ q.saw # NotStored =>
                                   IsStored(q.game) /\ stored[q.game].source # "league"
           /\ q.op = "refetch" => IsStored(q.game) /\ q.saw.source # "replay"
           /\ q.op = "scoring" => IsStored(q.game)
  PROVE  StoreInv'
  <1> PICK q : q = [r EXCEPT !.id = nrequests + 1]
    OBVIOUS
  <1>1. /\ q \in (AddRequests \cup RefetchRequests \cup ScoringRequests)'
        /\ q.id = nrequests + 1 /\ adminReqs' = adminReqs \cup {q}
        /\ nrequests' = nrequests + 1
        /\ UNCHANGED <<stored, upstream, aged, pass>>
    BY DEF Arrive
  <1>2. nrequests \in Nat /\ 0..nrequests \subseteq 0..nrequests'
                          /\ 1..nrequests \subseteq 1..nrequests'
    BY <1>1 DEF StoreInv, StoreTypes
  <1>3. StoreTypes'
    BY <1>1, <1>2 DEF StoreInv, StoreTypes, MatchRows, AddRequests, RefetchRequests,
                      ScoringRequests
  <1>4. StoreRows'
    BY <1>1, <1>2 DEF StoreInv, StoreRows, MaybeRow, MatchRows
  <1>5. RetryReads'
    BY <1>1 DEF StoreInv, RetryReads, IsStored
  <1>6. \A p \in adminReqs : p.id \in 1..nrequests
    BY DEF StoreInv, StoreTypes, AddRequests, RefetchRequests, ScoringRequests
  <1>7. StoreIds'
    <2>1. \A p \in adminReqs : p.id # q.id
      BY <1>1, <1>2, <1>6
    <2>2. adminReqs' = adminReqs \cup {q} /\ StoreIds
      BY <1>1 DEF StoreInv
    <2> QED BY ONLY <2>1, <2>2, Zenon DEF StoreIds
  <1>8. q.game \in GameIds
    BY <1>1 DEF AddRequests, RefetchRequests, ScoringRequests
  <1>9. q.id # stored[q.game].by
    BY <1>1, <1>2, <1>8 DEF StoreInv, StoreTypes, MatchRows, NotStored
  <1>10. StoreReads'
    <2> SUFFICES ASSUME NEW p \in adminReqs'
                 PROVE  /\ p.op = "add" => AddReads(p)'
                        /\ p.op = "refetch" => IsStored(p.game)' /\ p.saw.source # "replay"
                        /\ p.op = "scoring" => IsStored(p.game)'
      BY DEF StoreReads
    <2>1. CASE p \in adminReqs
      BY <2>1, <1>1 DEF StoreInv, StoreReads, AddReads, IsStored
    <2>2. CASE p = q
      BY <2>2, <1>1, <1>9 DEF AddReads, IsStored
    <2> QED BY <2>1, <2>2, <1>1
  <1> QED BY <1>3, <1>4, <1>5, <1>7, <1>10 DEF StoreInv

\* What OpenDota gives for a match it has is a row of the table.
LEMMA FetchedTypes ==
  ASSUME StoreInv, NEW m \in GameIds, upstream[m] # "short"
  PROVE  Fetched(m).rows \in Rows /\ Fetched(m).status \in Statuses
  BY DEF Fetched, StoreInv, StoreTypes, Rows, Statuses

\* Each step of passes, retries and admins, one by one.
LEMMA StoreNextKept ==
  ASSUME StoreInv, [MatchStoreNext]_matchStoreVars
  PROVE  StoreInv'
  <1> USE MatchStoreAssumption DEF MatchStoreAssumption
  <1>0. /\ upstream \in [GameIds -> {"raw", "short", "full"}] /\ aged \subseteq GameIds
        /\ nrequests \in Nat
        /\ stored \in [GameIds -> MatchRows \cup {NotStored}]
        /\ pass \in [stage : {"none", "ingest", "retry"}, by : {"none", "poll", "admin"},
                     todo : SUBSET GameIds]
        /\ adminReqs \subseteq AddRequests \cup RefetchRequests \cup ScoringRequests
    BY DEF StoreInv, StoreTypes
  <1>a. ASSUME stored' = stored, adminReqs' \subseteq adminReqs, nrequests' = nrequests,
               upstream' \in [GameIds -> {"raw", "short", "full"}], aged' \subseteq GameIds,
               pass' \in [stage : {"none", "ingest", "retry"}, by : {"none", "poll", "admin"},
                          todo : SUBSET GameIds],
               RetryReads'
        PROVE  StoreInv'
    BY <1>0, <1>a, RequestsKept DEF RowStep
  <1>n. NoPass \in [stage : {"none", "ingest", "retry"}, by : {"none", "poll", "admin"},
                    todo : SUBSET GameIds]
    BY DEF NoPass
  <1>r. ASSUME pass' = NoPass PROVE RetryReads'
    BY <1>r DEF RetryReads, NoPass
  <1>1. CASE UNCHANGED matchStoreVars
    BY <1>1, <1>a, <1>0 DEF matchStoreVars, StoreInv, RetryReads, IsStored
  <1>2. CASE IngestFails
    BY <1>2, <1>a, <1>0 DEF IngestFails, RetryReads
  <1>3. CASE EndIngest
    <2>1. pass' = NoPass \/ pass' = [pass EXCEPT !.stage = "retry", !.todo = Unparsed]
      BY <1>3 DEF EndIngest
    <2>2. CASE pass' = NoPass
      BY <1>3, <2>2, <1>a, <1>0, <1>n, <1>r DEF EndIngest
    <2>3. CASE pass' = [pass EXCEPT !.stage = "retry", !.todo = Unparsed]
      <3>1. RetryReads'
        BY <1>0, <2>3, <1>3 DEF EndIngest, RetryReads, Unparsed, IsStored
      <3>2. Unparsed \subseteq GameIds
        BY DEF Unparsed
      <3>3. pass' \in [stage : {"none", "ingest", "retry"}, by : {"none", "poll", "admin"},
                       todo : SUBSET GameIds]
        BY <2>3, <3>2, <1>0
      <3>4. UNCHANGED <<stored, upstream, aged, adminReqs, nrequests>>
        BY <1>3 DEF EndIngest
      <3> QED BY <3>1, <3>3, <3>4, <1>a, <1>0
    <2> QED BY <2>1, <2>2, <2>3
  <1>4. CASE StartRetry
    <2>1. RetryReads'
      BY <1>0, <1>4 DEF StartRetry, RetryReads, Unparsed, IsStored
    <2> QED BY <2>1, <1>4, <1>a, <1>0 DEF StartRetry, Unparsed
  <1>5. CASE EndRetry
    <2>1. ASSUME NEW m \in GameIds PROVE RowStep(m) /\ stored'[m] \in MatchRows \cup {NotStored}
      <3>1. CASE stored'[m] = stored[m]
        BY <3>1, <1>0 DEF RowStep
      <3>2. CASE stored'[m] # stored[m]
        <4>1. stored'[m] = [stored[m] EXCEPT !.status = "unparseable"] /\ m \in Stuck
          BY <3>2, <1>5 DEF EndRetry
        <4>2. stored[m] \in MatchRows /\ (stored[m].source = "league" <=> stored[m].by = 0)
          BY <4>1, <1>0 DEF Stuck, NotStored, StoreInv, StoreRows, MaybeRow
        <4>3. /\ stored'[m] \in MatchRows /\ stored'[m].by = stored[m].by
              /\ stored'[m].source = stored[m].source
          BY <4>1, <4>2 DEF MatchRows, Statuses
        <4>4. \A r \in adminReqs' : r.op = "add" /\ r.game = m => r.id # stored'[m].by
          BY <4>3, <1>5 DEF EndRetry, StoreInv, StoreReads, AddReads
        <4> QED BY <4>2, <4>3, <4>4 DEF RowStep
      <3> QED BY <3>1, <3>2
    <2>2. stored' \in [GameIds -> MatchRows \cup {NotStored}]
      BY <2>1, <1>0, <1>5 DEF EndRetry
    <2> QED BY <2>1, <2>2, <1>5, <1>0, <1>n, <1>r, RequestsKept DEF EndRetry
  <1>6. CASE StopProcess
    BY <1>6, <1>a, <1>0, <1>n, <1>r DEF StopProcess
  <1>7. ASSUME NEW by \in {"poll", "admin"}, StartIngest(by) PROVE StoreInv'
    BY <1>7, <1>a, <1>0 DEF StartIngest, RetryReads
  <1>8. ASSUME NEW m \in GameIds, IngestMatch(m) PROVE StoreInv'
    <2>1. RetryReads' /\ pass' \in [stage : {"none", "ingest", "retry"},
                                    by : {"none", "poll", "admin"}, todo : SUBSET GameIds]
      BY <1>8, <1>0 DEF IngestMatch, RetryReads
    <2>2. CASE UNCHANGED stored
      BY <2>1, <2>2, <1>8, <1>a, <1>0 DEF IngestMatch
    <2>3. CASE stored' # stored
      <3> PICK row : row = [source |-> "league", rows |-> Fetched(m).rows,
                            status |-> Fetched(m).status, by |-> 0]
        OBVIOUS
      <3>1. stored' = [stored EXCEPT ![m] = row] /\ upstream[m] # "short" /\ ~IsStored(m)
        BY <1>8, <2>3 DEF IngestMatch
      <3>2. row \in MatchRows /\ row.source = "league" /\ row.by = 0
        BY <3>1, <1>0, FetchedTypes DEF MatchRows, Sources
      <3>3. \A r \in adminReqs' : r.id # 0
        BY <1>8, <1>0 DEF IngestMatch, AddRequests, RefetchRequests, ScoringRequests
      <3>4. \A k \in GameIds : RowStep(k)
        BY <3>1, <3>2, <3>3, <1>0 DEF RowStep
      <3>5. stored' \in [GameIds -> MatchRows \cup {NotStored}]
        BY <3>1, <3>2, <1>0
      <3> QED BY <3>4, <3>5, <2>1, <1>8, <1>0, RequestsKept DEF IngestMatch
    <2> QED BY <2>2, <2>3
  <1>9. ASSUME NEW m \in GameIds, RetryMatch(m) PROVE StoreInv'
    <2>0. IsStored(m) /\ stored[m].rows = "raw"
      BY <1>9 DEF RetryMatch, StoreInv, RetryReads
    <2>1. pass' \in [stage : {"none", "ingest", "retry"},
                     by : {"none", "poll", "admin"}, todo : SUBSET GameIds]
          /\ pass'.todo = pass.todo \ {m} /\ pass.stage = "retry"
      BY <1>9, <1>0 DEF RetryMatch
    <2>2. \A k \in GameIds \ {m} : stored'[k] = stored[k]
      BY <1>9, <1>0 DEF RetryMatch
    <2>3. RetryReads'
      BY <2>1, <2>2 DEF StoreInv, RetryReads, IsStored
    <2>4. CASE UNCHANGED stored
      BY <2>1, <2>3, <2>4, <1>9, <1>a, <1>0 DEF RetryMatch
    <2>5. CASE stored' # stored
      <3> PICK row : row = WithFreshRows(stored[m])
        OBVIOUS
      <3>1. stored' = [stored EXCEPT ![m] = row]
        BY <1>9, <2>5 DEF RetryMatch
      <3>2. stored[m] \in MatchRows /\ (stored[m].source = "league" <=> stored[m].by = 0)
        BY <2>0, <1>0 DEF IsStored, StoreInv, StoreRows, MaybeRow
      <3>3. row \in MatchRows /\ row.source = stored[m].source /\ row.by = stored[m].by
        BY <3>2 DEF WithFreshRows, MatchRows, Rows, Statuses
      <3>4. adminReqs' = adminReqs /\ \A r \in adminReqs :
              r.op = "add" /\ r.game = m => r.id # row.by
        BY <3>3, <1>9 DEF RetryMatch, StoreInv, StoreReads, AddReads
      <3>5. \A k \in GameIds : RowStep(k)
        BY <3>1, <3>2, <3>3, <3>4, <1>0 DEF RowStep
      <3>6. stored' \in [GameIds -> MatchRows \cup {NotStored}]
        BY <3>1, <3>3, <1>0
      <3> QED BY <3>5, <3>6, <2>1, <2>3, <1>9, <1>0, RequestsKept DEF RetryMatch
    <2> QED BY <2>4, <2>5
  <1>10. ASSUME NEW m \in GameIds, Upstream(m) PROVE StoreInv'
    BY <1>10, <1>a, <1>0 DEF Upstream, StoreInv, RetryReads, IsStored
  <1>11. ASSUME NEW m \in GameIds, Ages(m) PROVE StoreInv'
    BY <1>11, <1>a, <1>0 DEF Ages, StoreInv, RetryReads, IsStored
  <1>12. ASSUME NEW m \in GameIds, BeginRefetch(m) PROVE StoreInv'
    <2> PICK r : r = [id |-> 0, op |-> "refetch", game |-> m, saw |-> stored[m]]
      OBVIOUS
    <2>1. /\ Arrive(r) /\ stored[m] # NotStored /\ stored[m].source # "replay"
          /\ nrequests' = nrequests + 1
      BY <1>12 DEF BeginRefetch, MayRefetch, Arrive
    <2> PICK q : q = [r EXCEPT !.id = nrequests + 1]
      OBVIOUS
    <2>2. q.id = nrequests + 1 /\ q.op = "refetch" /\ q.game = m /\ q.saw = stored[m]
      OBVIOUS
    <2>3. q \in RefetchRequests'
      BY <2>1, <1>0 DEF RefetchRequests, MatchRows
    <2> QED BY <2>1, <2>2, <2>3, RequestTaken DEF IsStored
  <1>13. ASSUME NEW m \in GameIds, NEW unparseable \in BOOLEAN, BeginScoring(m, unparseable)
         PROVE  StoreInv'
    <2> PICK r : r = [id |-> 0, op |-> "scoring", game |-> m,
                      status |-> NewStatus(stored[m], unparseable)]
      OBVIOUS
    <2>1. Arrive(r) /\ IsStored(m) /\ nrequests' = nrequests + 1
      BY <1>13 DEF BeginScoring, Arrive
    <2> PICK q : q = [r EXCEPT !.id = nrequests + 1]
      OBVIOUS
    <2>2. /\ q.id = nrequests + 1 /\ q.op = "scoring" /\ q.game = m
          /\ q.status = NewStatus(stored[m], unparseable)
      OBVIOUS
    <2>3. NewStatus(stored[m], unparseable) \in Statuses
      BY <2>1, <1>0 DEF NewStatus, IsStored, MatchRows, Statuses
    <2>4. q \in ScoringRequests'
      BY <2>1, <2>3, <1>0 DEF ScoringRequests
    <2> QED BY <2>1, <2>2, <2>4, RequestTaken
  <1>14. ASSUME NEW m \in GameIds, NEW source \in Manual, NEW partial \in BOOLEAN,
                NEW confirm \in BOOLEAN, BeginAdd(m, source, partial, confirm)
         PROVE  StoreInv'
    <2> PICK data : data = IF source = "replay"
                           THEN [source |-> source, rows |-> "replay",
                                 status |-> IF partial THEN "unparseable" ELSE "parsed"]
                           ELSE [source |-> source, rows |-> Fetched(m).rows,
                                 status |-> Fetched(m).status]
      OBVIOUS
    <2> PICK r : r = [id |-> 0, op |-> "add", game |-> m, saw |-> stored[m],
                      confirm |-> confirm, data |-> data]
      OBVIOUS
    <2>1. /\ Arrive(r) /\ MayReplace(stored[m], confirm)
          /\ source = "replay" \/ upstream[m] # "short"
          /\ nrequests' = nrequests + 1
      BY <1>14 DEF BeginAdd, Arrive
    <2>2. data \in [source : Manual, rows : Rows, status : Statuses]
      <3>1. CASE source = "replay"
        BY <3>1 DEF Rows, Statuses
      <3>2. CASE source # "replay"
        BY <3>2, <2>1, FetchedTypes
      <3> QED BY <3>1, <3>2
    <2> PICK q : q = [r EXCEPT !.id = nrequests + 1]
      OBVIOUS
    <2>3. /\ q.id = nrequests + 1 /\ q.op = "add" /\ q.game = m /\ q.saw = stored[m]
          /\ q.confirm = confirm /\ q.data = data
      OBVIOUS
    <2>4. q \in AddRequests'
      <3>1. stored[m] \in (MatchRows \cup {NotStored})'
        BY <2>1, <1>0 DEF MatchRows
      <3>2. nrequests + 1 \in 1..nrequests'
        BY <2>1, <1>0
      <3> QED BY <3>1, <3>2, <2>2 DEF AddRequests
    <2> QED BY <2>1, <2>3, <2>4, RequestTaken DEF MayReplace, IsStored
  <1>15. ASSUME NEW r \in adminReqs, CommitAdd(r) PROVE StoreInv'
    <2>1. CASE stored' = stored
      BY <2>1, <1>15, <1>a, <1>0 DEF CommitAdd, Leaves, StoreInv, RetryReads, IsStored
    <2>2. CASE stored' # stored
      <3> PICK row : row = [source |-> r.data.source, rows |-> r.data.rows,
                            status |-> r.data.status, by |-> r.id]
        OBVIOUS
      <3>1. /\ pass = NoPass /\ pass' = pass /\ adminReqs' = adminReqs \ {r}
            /\ nrequests' = nrequests /\ stored' = [stored EXCEPT ![r.game] = row]
            /\ upstream' = upstream /\ aged' = aged
        BY <2>2, <1>15 DEF CommitAdd, Leaves
      <3>2. r \in AddRequests
        BY <1>0, <1>15 DEF CommitAdd, RefetchRequests, ScoringRequests
      <3>3. row \in MatchRows /\ row.source # "league" /\ row.by # 0 /\ row.by = r.id
        BY <3>2, <1>0 DEF AddRequests, MatchRows, Sources, Manual
      <3>4. \A q \in adminReqs' : q.id # row.by
        BY <3>1, <3>3 DEF StoreInv, StoreIds
      <3>5. \A k \in GameIds : RowStep(k)
        BY <3>1, <3>3, <3>4, <1>0 DEF RowStep
      <3>6. stored' \in [GameIds -> MatchRows \cup {NotStored}]
        BY <3>1, <3>3, <1>0
      <3> QED BY <3>1, <3>5, <3>6, <1>0, <1>r, RequestsKept
    <2> QED BY <2>1, <2>2
  <1>16. ASSUME NEW r \in adminReqs, CommitRefetch(r) PROVE StoreInv'
    <2>1. CASE stored' = stored
      BY <2>1, <1>16, <1>a, <1>0 DEF CommitRefetch, Leaves, StoreInv, RetryReads, IsStored
    <2>2. CASE stored' # stored
      <3> PICK old : old = stored[r.game]
        OBVIOUS
      <3> PICK status : status = IF r.saw.status = "parsed" THEN old.status ELSE "parsed"
        OBVIOUS
      <3> PICK row : row = [old EXCEPT !.rows = "full", !.status = status]
        OBVIOUS
      <3>1. /\ pass = NoPass /\ pass' = pass /\ adminReqs' = adminReqs \ {r}
            /\ nrequests' = nrequests
            /\ upstream' = upstream /\ aged' = aged
        BY <2>2, <1>16 DEF CommitRefetch, Leaves
      <3>2. r.game \in GameIds /\ IsStored(r.game)
        BY <1>0, <1>16 DEF CommitRefetch, AddRequests, RefetchRequests, ScoringRequests,
                           StoreInv, StoreReads
      <3>3. stored' = [stored EXCEPT ![r.game] = row]
        BY <2>2, <1>16, <3>2, <1>0 DEF CommitRefetch
      <3>4. /\ old \in MatchRows /\ (old.source = "league" <=> old.by = 0)
        BY <3>2, <1>0 DEF IsStored, StoreInv, StoreRows, MaybeRow
      <3>5. row \in MatchRows /\ row.source = old.source /\ row.by = old.by
        BY <3>4 DEF MatchRows, Rows, Statuses
      <3>6. \A q \in adminReqs' : q.op = "add" /\ q.game = r.game => q.id # row.by
        BY <3>1, <3>5 DEF StoreInv, StoreReads, AddReads
      <3>7. \A k \in GameIds : RowStep(k)
        BY <3>2, <3>3, <3>4, <3>5, <3>6, <1>0 DEF RowStep
      <3>8. stored' \in [GameIds -> MatchRows \cup {NotStored}]
        BY <3>3, <3>5, <1>0
      <3> QED BY <3>1, <3>7, <3>8, <1>0, <1>r, RequestsKept
    <2> QED BY <2>1, <2>2
  <1>17. ASSUME NEW r \in adminReqs, CommitScoring(r) PROVE StoreInv'
    <2> PICK old : old = stored[r.game]
      OBVIOUS
    <2> PICK row : row = [old EXCEPT !.status = r.status]
      OBVIOUS
    <2>1. /\ pass' = pass /\ adminReqs' = adminReqs \ {r} /\ nrequests' = nrequests
          /\ upstream' = upstream /\ aged' = aged
          /\ stored' = [stored EXCEPT ![r.game] = row]
      BY <1>17 DEF CommitScoring, Leaves
    <2>2. r \in ScoringRequests
      BY <1>0, <1>17 DEF CommitScoring, AddRequests, RefetchRequests
    <2>3. r.game \in GameIds /\ IsStored(r.game) /\ r.status \in Statuses
      BY <2>2, <1>17 DEF CommitScoring, ScoringRequests, StoreInv, StoreReads
    <2>4. /\ old \in MatchRows /\ (old.source = "league" <=> old.by = 0)
      BY <2>3, <1>0 DEF IsStored, StoreInv, StoreRows, MaybeRow
    <2>5. /\ row \in MatchRows /\ row.source = old.source /\ row.by = old.by
          /\ row.rows = old.rows
      BY <2>3, <2>4 DEF MatchRows
    <2>6. \A q \in adminReqs' : q.op = "add" /\ q.game = r.game => q.id # row.by
      BY <2>1, <2>5 DEF StoreInv, StoreReads, AddReads
    <2>7. \A k \in GameIds : RowStep(k)
      BY <2>1, <2>3, <2>4, <2>5, <2>6, <1>0 DEF RowStep
    <2>8. stored' \in [GameIds -> MatchRows \cup {NotStored}]
      BY <2>1, <2>5, <1>0
    <2>9. row # NotStored
      BY <2>5 DEF MatchRows, NotStored, Sources, Manual
    <2>10. RetryReads'
      BY <2>1, <2>5, <2>9, <1>0 DEF RetryReads, StoreInv, IsStored
    <2> QED BY <2>1, <2>7, <2>8, <2>10, <1>0, RequestsKept
  <1> QED
    BY <1>1, <1>2, <1>3, <1>4, <1>5, <1>6, <1>7, <1>8, <1>9, <1>10, <1>11, <1>12, <1>13,
       <1>14, <1>15, <1>16, <1>17 DEF MatchStoreNext

\* Rows come from one of the sources and name the request that wrote them; what a pass
\* or an admin's request read of a match still says this of it.
THEOREM StoreInvariant == MatchStoreSpec => []StoreInv
  <1>1. MatchStoreInit => StoreInv
    BY MatchStoreAssumption DEF MatchStoreInit, StoreInv, StoreTypes, StoreRows, MaybeRow,
       RetryReads, StoreIds, StoreReads, NoPass, NotStored
  <1> QED BY <1>1, StoreNextKept, PTL DEF MatchStoreSpec

\* Stored matches keep a row of one of the three sources.
THEOREM StoredMatchesTyped == MatchStoreSpec => []MatchStoreTypeOK
  <1>1. StoreInv => MatchStoreTypeOK
    BY DEF StoreInv, StoreTypes, StoreRows, MaybeRow, MatchRows, MatchStoreTypeOK, Sources,
           Statuses, Rows
  <1> QED BY <1>1, StoreInvariant, PTL

\* One step replaces a match by the rule, if at all.
LEMMA StepReplacesByRule ==
  ASSUME StoreInv, StoreInv', [MatchStoreNext]_matchStoreVars
  PROVE  ReplaceRule
  <1> SUFFICES ASSUME NEW m \in GameIds, IsStored(m), stored'[m] # stored[m]
               PROVE  /\ stored'[m].source # "league" => stored[m].source # "league"
                      /\ stored'[m].by # stored[m].by =>
                           \E r \in adminReqs \ adminReqs' :
                             r.op = "add" /\ r.game = m /\ r.confirm /\ r.saw # NotStored
                      /\ stored'[m].by = stored[m].by /\ stored[m].rows = "replay"
                           /\ stored'[m].rows # "replay" =>
                           \E r \in adminReqs \ adminReqs' :
                             r.op = "refetch" /\ r.saw.source # "replay"
    BY Zenon DEF ReplaceRule
  <1>0. stored \in [GameIds -> MatchRows \cup {NotStored}]
    BY DEF StoreInv, StoreTypes
  <1>r. stored[m] \in MatchRows
    BY <1>0 DEF IsStored
  <1> DEFINE Same == /\ stored'[m].source = stored[m].source /\ stored'[m].by = stored[m].by
                     /\ stored[m].rows = "replay" => stored'[m].rows = "replay"
  <1>1. ASSUME NEW k \in GameIds, RetryMatch(k) PROVE Same
    <2>1. stored' = [stored EXCEPT ![k] = WithFreshRows(stored[k])]
      BY <1>1 DEF RetryMatch
    <2>2. k = m
      BY <2>1, <1>0
    <2>3. stored'[m] = WithFreshRows(stored[m]) /\ stored[m].rows = "raw"
      BY <1>1, <2>1, <2>2, <1>0 DEF RetryMatch, StoreInv, RetryReads
    <2> QED BY <2>3, <1>r DEF WithFreshRows, MatchRows
  <1>2. ASSUME NEW r \in adminReqs, CommitAdd(r)
        PROVE  /\ stored[m].source # "league" /\ r \notin adminReqs'
               /\ r.op = "add" /\ r.game = m /\ r.confirm /\ r.saw # NotStored
               /\ stored'[m].by # stored[m].by
    <2>1. AddReads(r) /\ r.op = "add" /\ r \notin adminReqs'
      BY <1>2 DEF CommitAdd, Leaves, StoreInv, StoreReads
    <2>2. r.game = m /\ StillMayReplace(r) /\ stored'[m].by = r.id
      BY <1>2, <1>0 DEF CommitAdd
    <2>3. r.saw # NotStored
      BY <2>2 DEF StillMayReplace, Existing, MayReplace, IsStored
    <2> QED BY <2>1, <2>2, <2>3 DEF AddReads
  <1>3. ASSUME NEW r \in adminReqs, CommitRefetch(r)
        PROVE  /\ stored'[m].source = stored[m].source /\ stored'[m].by = stored[m].by
               /\ r \notin adminReqs' /\ r.op = "refetch" /\ r.saw.source # "replay"
    <2>1. r.op = "refetch" /\ r.saw.source # "replay" /\ r \notin adminReqs'
      BY <1>3 DEF CommitRefetch, Leaves, StoreInv, StoreReads
    <2>2. stored'[m].source = stored[m].source /\ stored'[m].by = stored[m].by
      BY <1>3, <1>0, <1>r DEF CommitRefetch, MatchRows
    <2> QED BY <2>1, <2>2
  <1>4. ASSUME NEW k \in GameIds, IngestMatch(k) PROVE FALSE
    BY <1>4, <1>0 DEF IngestMatch, IsStored
  <1>5. CASE \E k \in GameIds : IngestMatch(k)
    BY <1>5, <1>4
  <1>6. CASE EndRetry
    BY <1>6, <1>0, <1>r DEF EndRetry, MatchRows
  <1>7. CASE \E k \in GameIds : RetryMatch(k)
    BY <1>7, <1>1
  <1>8. CASE \E r \in adminReqs : CommitAdd(r)
    BY <1>8, <1>2
  <1>9. CASE \E r \in adminReqs : CommitRefetch(r)
    BY <1>9, <1>3
  <1>10. CASE \E r \in adminReqs : CommitScoring(r)
    BY <1>10, <1>0, <1>r DEF CommitScoring, MatchRows
  <1>11. CASE UNCHANGED stored
    BY <1>11
  <1>12. \/ UNCHANGED stored \/ EndRetry
         \/ \E k \in GameIds : IngestMatch(k) \/ RetryMatch(k)
         \/ \E r \in adminReqs : CommitAdd(r) \/ CommitRefetch(r) \/ CommitScoring(r)
    BY DEF MatchStoreNext, matchStoreVars, IngestFails, EndIngest, StartRetry, StopProcess,
           StartIngest, BeginRefetch, Upstream, Ages, BeginAdd, BeginScoring, Arrive
  <1> QED BY <1>5, <1>6, <1>8, <1>9, <1>10, <1>11, <1>12, <1>7

\* No league match is replaced by an admin's, nothing is replaced without a confirmation
\* by an admin who knew of it, and no replay import is fetched over by who knew of it.
THEOREM MatchesReplacedHolds == MatchStoreSpec => MatchesReplaced
  BY StoreInvariant, StepReplacesByRule, StoreNextKept, PTL DEF MatchStoreSpec, MatchesReplaced

-----------------------------------------------------------------------------
(* Seasons: records that stay as they were made *)

OneRecord ==
  \A a, b \in archive : a.season = b.season =>
    a.at = b.at /\ a.by = b.by /\ (a.who = b.who => a = b)
SeasonInv == OneRecord /\ recorded \subseteq titles

\* Titles move by End Season, which records what it adds, or by an admin, whose
\* corrections leave the record with the titles they take away.
LEMMA SeasonRequestKept ==
  ASSUME SeasonInv, NEW q, NEW by, SeasonHandle(q, by)
  PROVE  SeasonInv'
  <1>1. CASE EndSeason(q, by)
    <2> PICK champions \in SUBSET Pros :
          IF ArchiveFree(q.season)
          THEN /\ archive' = archive \cup
                    {[season |-> q.season, who |-> u, pts |-> q.pts[u], at |-> day,
                      by |-> by] : u \in Fantasists}
               /\ titles' = titles \cup SeasonTitles(q.season, champions)
               /\ recorded' = recorded \cup SeasonTitles(q.season, champions)
          ELSE UNCHANGED <<archive, titles, recorded>>
      BY <1>1, Zenon DEF EndSeason
    <2>1. CASE ~ArchiveFree(q.season)
      BY <2>1 DEF SeasonInv, OneRecord
    <2>2. CASE ArchiveFree(q.season)
      <3>1. \A a \in archive : a.season # q.season
        BY <2>2 DEF ArchiveFree, ArchiveOf
      <3>2. \A a \in archive' \ archive : \E u \in Fantasists :
              a = [season |-> q.season, who |-> u, pts |-> q.pts[u], at |-> day, by |-> by]
        BY <2>2
      <3>3. ASSUME NEW a \in archive', NEW b \in archive', a.season = b.season
            PROVE  a.at = b.at /\ a.by = b.by /\ (a.who = b.who => a = b)
        <4>1. CASE a \in archive /\ b \in archive
          BY <4>1, <3>3 DEF SeasonInv, OneRecord
        <4>2. CASE a \notin archive /\ b \notin archive
          BY <4>2, <3>2
        <4>3. CASE a \in archive /\ b \notin archive
          BY <4>3, <3>1, <3>2, <3>3
        <4>4. CASE a \notin archive /\ b \in archive
          BY <4>4, <3>1, <3>2, <3>3
        <4> QED BY <4>1, <4>2, <4>3, <4>4
      <3>4. OneRecord'
        BY <3>3 DEF OneRecord
      <3> QED BY <3>4, <2>2 DEF SeasonInv
    <2> QED BY <2>1, <2>2
  <1>2. CASE SetTitle(q)
    <2>1. OneRecord'
      BY <1>2 DEF SetTitle, SeasonInv, OneRecord
    <2>2. \A t \in Dropped(q) : t.season = q.season
      BY DEF Dropped, TitlesOf
    <2>3. recorded' \subseteq titles'
      BY <1>2, <2>2 DEF SetTitle, SeasonInv
    <2> QED BY <2>1, <2>3 DEF SeasonInv
  <1>3. CASE Reset(q)
    BY <1>3 DEF Reset, TitlesAfterReset, SeasonInv, OneRecord
  <1> QED BY <1>1, <1>2, <1>3 DEF SeasonHandle

\* Each step of End Season, Reset, titles and play.
LEMMA SeasonNextKept ==
  ASSUME SeasonInv, [SeasonNext]_seasonVars
  PROVE  SeasonInv'
  <1>a. ASSUME UNCHANGED <<archive, titles, recorded>> PROVE SeasonInv'
    BY <1>a DEF SeasonInv, OneRecord
  <1>1. CASE SeasonServe
    BY <1>1, SeasonRequestKept DEF SeasonServe
  <1>2. CASE SeasonResume
    BY <1>2, SeasonRequestKept DEF SeasonResume
  <1>3. CASE SeasonStall
    BY <1>3, <1>a DEF SeasonStall
  <1>4. CASE SeasonAbandon
    BY <1>4, <1>a DEF SeasonAbandon
  <1>5. ASSUME NEW n, NEW kind, NEW who, AddTitle(n, kind, who) PROVE SeasonInv'
    BY <1>5 DEF AddTitle, SeasonInv, OneRecord
  <1>6. ASSUME NEW t, RemoveTitle(t) PROVE SeasonInv'
    BY <1>6 DEF RemoveTitle, SeasonInv, OneRecord
  <1>7. CASE \/ NextDay \/ LockSeasonWeek \/ UNCHANGED seasonVars
             \/ \E p \in Pros : PlayMatch(p)
             \/ \E n \in LeagueSeasons \cup {0} : MonitorLeagues(n)
    BY <1>7, <1>a DEF NextDay, LockSeasonWeek, seasonVars, PlayMatch, MonitorLeagues
  <1> QED BY <1>1, <1>2, <1>3, <1>4, <1>5, <1>6, <1>7 DEF SeasonNext

\* The record of a season is that of one End Season, and nothing but an admin who
\* takes a title away makes it less, whichever requests stall.
THEOREM SeasonRecordsWhole == SeasonSpec => []SeasonRecordWhole
  <1>1. SeasonInit => SeasonInv
    BY DEF SeasonInit, SeasonInv, OneRecord
  <1>2. SeasonInv => SeasonRecordWhole
    BY DEF SeasonInv, OneRecord, SeasonRecordWhole, ArchiveOf
  <1> QED BY <1>1, <1>2, SeasonNextKept, PTL DEF SeasonSpec

-----------------------------------------------------------------------------
(* The live list and its offers *)

LiveRows == [first : Nat, last : Nat, ended : Nat \cup {NotYet}]

\* A row was first seen no later than last, the timing is not later than the row, and
\* what has not ended was seen by the last poll.
SoundRow(g) ==
  liveRow[g] # NoRow =>
    /\ liveRow[g].first <= liveRow[g].last /\ liveRow[g].last <= now
    /\ sighted[g] # NotYet /\ sighted[g] <= liveRow[g].first
    /\ liveRow[g].ended = NotYet /\ checkedAt # NotYet => liveRow[g].last = checkedAt

PollingInv ==
  /\ now \in Nat
  /\ liveRow \in [PollGames -> LiveRows \cup {NoRow}]
  /\ sighted \in [PollGames -> 0..now \cup {NotYet}]
  /\ \A g \in PollGames : SoundRow(g)

\* A poll that stores what it saw: new rows, rows seen again and rows that ended.
LEMMA StoreLiveKept ==
  ASSUME PollingInv, NEW listed \in SUBSET BeingPlayed, StoreLive(listed)
  PROVE  PollingInv'
  <1> USE PollingAssumption DEF PollingAssumption
  <1> PICK seen : seen = {g \in listed : LeagueOf[g] \in poll}
    OBVIOUS
  <1>0. /\ now \in Nat
        /\ liveRow \in [PollGames -> LiveRows \cup {NoRow}]
        /\ sighted \in [PollGames -> 0..now \cup {NotYet}]
        /\ \A g \in PollGames : SoundRow(g)
    BY DEF PollingInv
  <1>1. /\ liveRow' = [g \in PollGames |-> IF DroppedUnseen(g, AfterPoll(g, seen)) THEN NoRow
                                           ELSE AfterPoll(g, seen)]
        /\ sighted' = [g \in PollGames |-> FirstSighting(g, seen)]
        /\ checkedAt' = now /\ now' = now
    BY DEF StoreLive
  <1>2. ASSUME NEW g \in PollGames
        PROVE  /\ sighted'[g] \in 0..now \cup {NotYet}
               /\ sighted[g] # NotYet => sighted'[g] = sighted[g]
               /\ g \in seen => sighted'[g] # NotYet
    <2>0. now \in Nat /\ NotYet \notin Nat
      BY <1>0, PollingAssumption DEF PollingAssumption
    <2>1. now \in 0..now /\ now # NotYet
      BY <2>0
    <2>4. sighted[g] \in 0..now \cup {NotYet}
      BY <1>0, Zenon
    <2>2. sighted'[g] = FirstSighting(g, seen)
      BY <1>1
    <2>3. sighted'[g] = IF g \in seen /\ sighted[g] = NotYet THEN now ELSE sighted[g]
      BY <2>2 DEF FirstSighting
    <2> QED BY <2>1, <2>3, <2>4
  <1>3. ASSUME NEW g \in PollGames
        PROVE  liveRow'[g] \in LiveRows \cup {NoRow} /\ SoundRow(g)'
    <2>1. CASE liveRow'[g] = NoRow
      BY <2>1 DEF SoundRow
    <2> SUFFICES ASSUME liveRow'[g] # NoRow
                 PROVE  liveRow'[g] \in LiveRows /\ SoundRow(g)'
      BY <2>1
    <2>2. liveRow'[g] = AfterPoll(g, seen)
      BY <1>1
    <2>3. CASE g \in seen
      <3> PICK first : first = IF liveRow[g] = NoRow THEN now ELSE liveRow[g].first
        OBVIOUS
      <3>1. liveRow'[g] = [first |-> first, last |-> now, ended |-> NotYet]
        BY <2>2, <2>3 DEF AfterPoll, Upserted
      <3>2. first \in Nat /\ first <= now /\ sighted'[g] # NotYet /\ sighted'[g] <= first
        BY <1>0, <1>1, <1>2, <2>3 DEF LiveRows, SoundRow, FirstSighting
      <3> QED BY <3>1, <3>2, <1>0, <1>1 DEF SoundRow, LiveRows
    <2>4. CASE g \notin seen /\ EndedUnseen(g)
      <3>1. liveRow'[g] = [liveRow[g] EXCEPT !.ended = now]
        BY <2>2, <2>4 DEF AfterPoll
      <3>2. liveRow[g] \in LiveRows /\ SoundRow(g) /\ liveRow[g] # NoRow
        BY <2>4, <1>0 DEF EndedUnseen
      <3>3. /\ liveRow'[g] \in LiveRows /\ liveRow'[g].first = liveRow[g].first
            /\ liveRow'[g].last = liveRow[g].last /\ liveRow'[g].ended = now
        BY <3>1, <3>2, <1>0 DEF LiveRows
      <3> QED BY <3>2, <3>3, <1>0, <1>1, <1>2 DEF SoundRow
    <2>5. CASE g \notin seen /\ ~EndedUnseen(g)
      <3>1. liveRow'[g] = liveRow[g]
        BY <2>2, <2>5 DEF AfterPoll
      <3> QED BY <3>1, <2>5, <1>0, <1>1, <1>2 DEF SoundRow, EndedUnseen
    <2> QED BY <2>3, <2>4, <2>5
  <1>4. liveRow' \in [PollGames -> LiveRows \cup {NoRow}]
    <2>1. \A g \in PollGames : liveRow'[g] \in LiveRows \cup {NoRow}
      BY <1>3
    <2> QED BY <2>1, <1>1
  <1>5. sighted' \in [PollGames -> 0..now \cup {NotYet}]
    <2>1. \A g \in PollGames : sighted'[g] \in 0..now \cup {NotYet}
      BY <1>2
    <2> QED BY <2>1, <1>1
  <1> QED BY <1>0, <1>1, <1>3, <1>4, <1>5 DEF PollingInv

\* Each step of polls, passes, purges, admins and restarts.
LEMMA PollingNextKept ==
  ASSUME PollingInv, [PollingNext]_pollingVars
  PROVE  PollingInv'
  <1> USE PollingAssumption DEF PollingAssumption
  <1>0. /\ now \in Nat
        /\ liveRow \in [PollGames -> LiveRows \cup {NoRow}]
        /\ sighted \in [PollGames -> 0..now \cup {NotYet}]
        /\ \A g \in PollGames : SoundRow(g)
    BY DEF PollingInv
  <1>a. ASSUME UNCHANGED <<now, liveRow, sighted, checkedAt>> PROVE PollingInv'
    BY <1>a, <1>0 DEF PollingInv, SoundRow
  <1>1. CASE PollTick
    <2>1. now' \in Nat /\ now < now' /\ UNCHANGED <<liveRow, sighted, checkedAt>>
      BY <1>1, <1>0 DEF PollTick
    <2>2. \A g \in PollGames : SoundRow(g)'
      BY <2>1, <1>0 DEF SoundRow, LiveRows
    <2>3. sighted' \in [PollGames -> 0..now' \cup {NotYet}]
      BY <2>1, <1>0
    <2> QED BY <2>1, <2>2, <2>3, <1>0 DEF PollingInv
  <1>2. CASE PollRestart
    BY <1>2, <1>0 DEF PollRestart, PollingInv, SoundRow
  <1>3. ASSUME NEW listed \in SUBSET BeingPlayed, StoreLive(listed) PROVE PollingInv'
    BY <1>3, StoreLiveKept
  <1>4. ASSUME NEW h \in PollGames, NEW isStored, IngestListed(h, isStored) PROVE PollingInv'
    <2>1. /\ UNCHANGED <<now, sighted, checkedAt>>
          /\ liveRow' = liveRow \/ liveRow' = [liveRow EXCEPT ![h] = NoRow]
      BY <1>4 DEF IngestListed
    <2>2. \A g \in PollGames : liveRow'[g] = liveRow[g] \/ liveRow'[g] = NoRow
      BY <2>1, <1>0
    <2>3. \A g \in PollGames : SoundRow(g)'
      BY <2>1, <2>2, <1>0 DEF SoundRow
    <2>4. liveRow' \in [PollGames -> LiveRows \cup {NoRow}]
      BY <2>1, <1>0
    <2> QED BY <2>1, <2>3, <2>4, <1>0 DEF PollingInv
  <1>5. CASE \/ BeginPoll \/ PollFails \/ BeginPass \/ EndPass \/ UNCHANGED pollingVars
             \/ \E l \in Leagues : Monitor(l) \/ StopMonitoring(l) \/ Purge(l)
    BY <1>5, <1>a DEF BeginPoll, PollFails, BeginPass, EndPass, pollingVars, Monitor,
       StopMonitoring, Purge
  <1>6. ASSUME NEW l, NEW listed, ListLeague(l, listed) PROVE PollingInv'
    BY <1>6, <1>a DEF ListLeague
  <1> QED BY <1>1, <1>2, <1>3, <1>4, <1>5, <1>6, Zenon DEF PollingNext

\* Rows of the live list carry the times of the polls that saw them, and the earliest
\* sighting of a game is kept when its row is dropped.
THEOREM PollingInvariant == PollingSpec => []PollingInv
  <1>1. PollingInit => PollingInv
    BY DEF PollingInit, PollingInv, SoundRow
  <1> QED BY <1>1, PollingNextKept, PTL DEF PollingSpec

\* What is shown as live was seen by the last check that succeeded.
THEOREM LiveIsLastCheckHolds == PollingSpec => []LiveIsLastCheck
  <1>1. PollingInv => LiveIsLastCheck
    BY DEF PollingInv, SoundRow, LiveIsLastCheck
  <1> QED BY <1>1, PollingInvariant, PTL

\* What a step withdraws lost its stats, or no check saw it for too long.
LEMMA StepKeepsOffers ==
  ASSUME PollingInv, [PollingNext]_pollingVars,
         NEW g \in Offered, g \notin Offered', MayBeOffered(TeamPair[g])'
  PROVE  \/ g \in ingested /\ g \notin ingested'
         \/ liveRow[g] # NoRow /\ liveRow[g].last < now - StaleAfter
  <1> USE PollingAssumption DEF PollingAssumption
  <1>0. /\ now \in Nat /\ StaleAfter \in Nat
        /\ liveRow \in [PollGames -> LiveRows \cup {NoRow}]
    BY DEF PollingInv
  <1>1. g \in Shown /\ g \notin Shown'
    BY DEF Offered
  <1>2. CASE g \in ingested
    BY <1>1, <1>2 DEF Shown
  <1>3. CASE g \notin ingested
    <2>1. g \in PollGames /\ liveRow[g] # NoRow /\ g \notin ingested' /\ liveRow'[g] = NoRow
      BY <1>1, <1>3 DEF Shown
    <2>2. ASSUME NEW listed, StoreLive(listed) PROVE liveRow[g].last < now - StaleAfter
      <3> PICK seen : seen = {h \in listed : LeagueOf[h] \in poll}
        OBVIOUS
      <3>1. liveRow' = [h \in PollGames |-> IF DroppedUnseen(h, AfterPoll(h, seen)) THEN NoRow
                                            ELSE AfterPoll(h, seen)]
        BY <2>2 DEF StoreLive
      <3>2. liveRow[g] \in LiveRows
        BY <2>1, <1>0
      <3>3. /\ AfterPoll(g, seen) # NoRow
            /\ AfterPoll(g, seen).last \in {now, liveRow[g].last}
        BY <2>1, <3>2, <1>0 DEF AfterPoll, Upserted, LiveRows
      <3>4. AfterPoll(g, seen).last < now - StaleAfter
        BY <3>1, <3>3, <2>1, <1>3 DEF DroppedUnseen
      <3> QED BY <3>3, <3>4, <1>0
    <2>3. ASSUME NEW h, NEW isStored, IngestListed(h, isStored) PROVE FALSE
      BY <2>3, <2>1, <1>0 DEF IngestListed
    <2>4. CASE UNCHANGED liveRow
      BY <2>1, <2>4
    <2>5. \/ UNCHANGED liveRow \/ \E listed \in SUBSET BeingPlayed : StoreLive(listed)
          \/ \E h \in PollGames, isStored \in BOOLEAN : IngestListed(h, isStored)
      BY DEF PollingNext, pollingVars, BeginPoll, PollFails, BeginPass, EndPass, PollTick,
         PollRestart, Monitor, StopMonitoring, Purge, ListLeague
    <2> QED BY <2>1, <2>2, <2>3, <2>4, <2>5
  <1> QED BY <1>2, <1>3

\* A game is on offer for an MVP from the live list to its stats and beyond: a step takes
\* it away only with its stats, its teams or after checks that did not see it for too long.
THEOREM OfferKeptHolds == PollingSpec => OfferKept
  <1>1. ASSUME PollingInv, [PollingNext]_pollingVars
        PROVE  \A g \in Offered : g \notin Offered' =>
                 \/ g \in ingested /\ g \notin ingested'
                 \/ liveRow[g] # NoRow /\ liveRow[g].last < now - StaleAfter
                 \/ ~MayBeOffered(TeamPair[g])'
    BY <1>1, StepKeepsOffers
  <1>2. [PollingNext]_pollingVars /\ PollingInv =>
          [\A g \in Offered : g \notin Offered' =>
             \/ g \in ingested /\ g \notin ingested'
             \/ liveRow[g] # NoRow /\ liveRow[g].last < now - StaleAfter
             \/ ~MayBeOffered(TeamPair[g])']_pollingVars
    BY <1>1
  <1> QED BY <1>2, PollingInvariant, PTL DEF PollingSpec, OfferKept

-----------------------------------------------------------------------------
(* The tag of streamers and what administrators chose *)

TagRows == [id : Nat, user : Streamers, source : {"caster_sync", "admin"}]

\* Each account has one row of the tag, and each row an id of its own.
TagsGood(rows) ==
  /\ rows \subseteq TagRows
  /\ \A r, s \in rows : r.id = s.id \/ r.user = s.user => r = s

ChannelsInv ==
  /\ TagsGood(tagRows)
  /\ syncPass.matching \subseteq Streamers
  /\ TagsFollowChannels

\* The highest id in use.
LEMMA TopOfRows ==
  ASSUME NEW rows, TagsGood(rows)
  PROVE  LET top == Max({0} \cup {r.id : r \in rows})
         IN top \in Nat /\ \A r \in rows : r.id <= top
  <1> DEFINE user == [r \in rows |-> r.user]
             id == [r \in rows |-> r.id]
             ids == {id[r] : r \in rows}
  <1>1. user \in Injection(rows, Streamers)
    BY DEF TagsGood, TagRows, Injection, IsInjective
  <1>2. IsFiniteSet(rows)
    <2> HIDE DEF user
    <2> QED BY <1>1, FS_Injection, ChannelsAssumption DEF ChannelsAssumption
  <1>3. IsFiniteSet(ids)
    <2>1. id = [r \in rows |-> id[r]]
      OBVIOUS
    <2> HIDE DEF id
    <2> QED BY <1>2, <2>1, ValuesFinite
  <1>4. ids = {r.id : r \in rows} /\ ids \subseteq Nat
    BY DEF TagsGood, TagRows
  <1> HIDE DEF ids
  <1>5. IsFiniteSet({0} \cup ids)
    BY <1>3, FS_Union, FS_Singleton
  <1>6. \A y \in {0} \cup ids : y \in Nat
    BY <1>4
  <1>7. Max({0} \cup ids) \in {0} \cup ids /\ \A y \in {0} \cup ids : y <= Max({0} \cup ids)
    BY <1>5, <1>6, MaxIs
  <1>8. Max({0} \cup ids) \in Nat
    BY <1>6, <1>7
  <1>9. \A r \in rows : r.id <= Max({0} \cup ids)
    BY <1>4, <1>7
  <1> QED BY <1>4, <1>8, <1>9

\* Accounts in the order of their ids get different places.
LEMMA PlacesDiffer ==
  ASSUME NEW users \in SUBSET Streamers
  PROVE  /\ \A u \in users : Cardinality({v \in users : v <= u}) \in Nat \ {0}
         /\ \A u, w \in users : u < w =>
              Cardinality({v \in users : v <= u}) # Cardinality({v \in users : v <= w})
  <1>0. IsFiniteSet(users) /\ users \subseteq Nat
    BY FS_Subset, ChannelsAssumption DEF ChannelsAssumption
  <1>1. ASSUME NEW u \in users
        PROVE  /\ IsFiniteSet({v \in users : v <= u})
               /\ Cardinality({v \in users : v <= u}) \in Nat \ {0}
    <2> PICK below : below = {v \in users : v <= u}
      OBVIOUS
    <2>1. below \in SUBSET users /\ u \in below
      BY <1>0
    <2>2. IsFiniteSet(below)
      BY <2>1, <1>0, FS_Subset
    <2>3. Cardinality(below) \in Nat /\ Cardinality(below) # 0
      BY <2>1, <2>2, FS_CardinalityType, FS_EmptySet
    <2> QED BY <2>2, <2>3
  <1>2. ASSUME NEW u \in users, NEW w \in users, u < w
        PROVE  Cardinality({v \in users : v <= u}) # Cardinality({v \in users : v <= w})
    <2> PICK a : a = {v \in users : v <= u}
      OBVIOUS
    <2> PICK b : b = {v \in users : v <= w}
      OBVIOUS
    <2>0. u \in Nat /\ w \in Nat /\ \A v \in users : v \in Nat
      BY <1>0
    <2>1. a \in SUBSET b /\ w \in b /\ w \notin a
      <3>1. \A v \in users : v <= u => v <= w
        BY <2>0, <1>2
      <3>2. ~(w <= u) /\ w <= w
        BY <2>0, <1>2
      <3> QED BY <3>1, <3>2
    <2>2. IsFiniteSet(b)
      BY <1>1
    <2>3. Cardinality(b) # Cardinality(a)
      BY <2>1, <2>2, FS_Subset
    <2> QED BY <2>3
  <1> QED BY <1>1, <1>2

\* A grant adds one row for each of these accounts, with ids that are not in use.
LEMMA GrantedGood ==
  ASSUME NEW rows, TagsGood(rows), NEW users \in SUBSET Streamers,
         users \cap Tagged(rows) = {}, NEW source \in {"caster_sync", "admin"},
         NEW granted, granted = GrantedTo(rows, users, source)
  PROVE  /\ TagsGood(granted) /\ rows \subseteq granted
         /\ Tagged(granted) = Tagged(rows) \cup users
         /\ \A r \in granted \ rows :
              r.user \in users /\ r.source = source /\ \A s \in rows : r.id # s.id
  <1> PICK top : top = Max({0} \cup {r.id : r \in rows})
    OBVIOUS
  <1>1. top \in Nat /\ \A r \in rows : r.id <= top
    BY TopOfRows
  <1> DEFINE place == [u \in users |-> Cardinality({v \in users : v <= u})]
  <1>2. /\ \A u \in users : place[u] \in Nat \ {0}
        /\ \A u, w \in users : u < w => place[u] # place[w]
    BY PlacesDiffer
  <1>3. granted = rows \cup {[id |-> top + place[u], user |-> u, source |-> source] : u \in users}
    BY DEF GrantedTo
  <1> HIDE DEF place
  <1>4. \A r \in granted \ rows :
          r.user \in users /\ r = [id |-> top + place[r.user], user |-> r.user, source |-> source]
    BY <1>3
  <1>5. users \subseteq Nat /\ \A r \in rows : r.id \in Nat /\ r.user \notin users
    BY ChannelsAssumption DEF ChannelsAssumption, TagsGood, TagRows, Tagged
  <1>6. \A r \in granted \ rows :
          r.user \in users /\ r.source = source /\ r.id \in Nat /\ r.id > top
    BY <1>1, <1>2, <1>4
  <1>7. granted \subseteq TagRows
    <2>1. \A u \in users : top + place[u] \in Nat /\ u \in Streamers
      BY <1>1, <1>2
    <2>2. \A u \in users : [id |-> top + place[u], user |-> u, source |-> source] \in TagRows
      BY <2>1 DEF TagRows
    <2> QED BY <2>2, <1>3 DEF TagsGood
  <1>8. ASSUME NEW r \in granted, NEW s \in granted, r.id = s.id \/ r.user = s.user
        PROVE  r = s
    <2>1. CASE r \in rows /\ s \in rows
      BY <2>1, <1>8 DEF TagsGood
    <2>2. CASE r \in rows /\ s \notin rows
      BY <2>2, <1>8, <1>1, <1>5, <1>6
    <2>3. CASE r \notin rows /\ s \in rows
      BY <2>3, <1>8, <1>1, <1>5, <1>6
    <2>4. CASE r \notin rows /\ s \notin rows
      <3>1. /\ r.user \in users /\ r = [id |-> top + place[r.user], user |-> r.user, source |-> source]
            /\ s.user \in users /\ s = [id |-> top + place[s.user], user |-> s.user, source |-> source]
        BY <2>4, <1>4
      <3>2. r.user = s.user
        <4>1. CASE r.id = s.id
          <5>1. place[r.user] = place[s.user]
            BY <4>1, <3>1, <1>1, <1>2
          <5>2. r.user \in Nat /\ s.user \in Nat
            BY <3>1, <1>5
          <5> QED BY <5>1, <5>2, <3>1, <1>2
        <4> QED BY <4>1, <1>8
      <3> QED BY <3>1, <3>2
    <2> QED BY <2>1, <2>2, <2>3, <2>4
  <1>9. Tagged(granted) = Tagged(rows) \cup users
    <2>1. \A u \in users : [id |-> top + place[u], user |-> u, source |-> source] \in granted
      BY <1>3
    <2>2. \A r \in rows : r \in granted
      BY <1>3
    <2>3. users \subseteq Tagged(granted)
      <3> SUFFICES ASSUME NEW u \in users PROVE \E r \in granted : r.user = u
        BY DEF Tagged
      <3> QED BY <2>1
    <2>4. Tagged(rows) \subseteq Tagged(granted)
      BY <2>2 DEF Tagged
    <2>5. Tagged(granted) \subseteq Tagged(rows) \cup users
      BY <1>4 DEF Tagged
    <2> QED BY <2>3, <2>4, <2>5
  <1>10. rows \subseteq granted
    BY <1>3
  <1>11. \A r \in granted \ rows : \A s \in rows : r.id # s.id
    BY <1>1, <1>5, <1>6
  <1>12. TagsGood(granted)
    BY <1>7, <1>8 DEF TagsGood
  <1> QED BY <1>6, <1>9, <1>10, <1>11, <1>12

\* A sync leaves one row for each account, whatever rows it read.
LEMMA SyncedGood ==
  ASSUME NEW rows, TagsGood(rows), NEW read, NEW matching \in SUBSET Streamers,
         (matching \ Tagged(read)) \cap Tagged(rows) = {}
  PROVE  TagsGood(Synced(rows, read, matching))
  <1> PICK users : users = matching \ Tagged(read)
    OBVIOUS
  <1> PICK granted : granted = GrantedTo(rows, users, "caster_sync")
    OBVIOUS
  <1>1. users \in SUBSET Streamers /\ users \cap Tagged(rows) = {}
    OBVIOUS
  <1>2. TagsGood(granted)
    BY <1>1, GrantedGood
  <1>3. Synced(rows, read, matching) \subseteq granted
    BY DEF Synced
  <1> QED BY <1>2, <1>3 DEF TagsGood

\* One that read the rows it changes leaves the tag with the accounts it should have.
LEMMA SyncedFollows ==
  ASSUME NEW rows, TagsGood(rows), NEW matching \in SUBSET Streamers
  PROVE  /\ matching \subseteq Tagged(Synced(rows, rows, matching))
         /\ \A r \in Synced(rows, rows, matching) :
              r.source = "caster_sync" => r.user \in matching
  <1> PICK users : users = matching \ Tagged(rows)
    OBVIOUS
  <1> PICK granted : granted = GrantedTo(rows, users, "caster_sync")
    OBVIOUS
  <1> PICK synced : synced = Synced(rows, rows, matching)
    OBVIOUS
  <1>1. users \in SUBSET Streamers /\ users \cap Tagged(rows) = {}
    OBVIOUS
  <1>2. /\ TagsGood(granted) /\ rows \subseteq granted
        /\ Tagged(granted) = Tagged(rows) \cup users
        /\ \A r \in granted \ rows :
             r.user \in users /\ r.source = "caster_sync" /\ \A s \in rows : r.id # s.id
    BY <1>1, GrantedGood
  <1>3. synced = {r \in granted : r.id \notin Revoked(rows, matching)}
    BY DEF Synced
  <1>4. \A r \in granted : r.user \in matching => r \in synced
    <2> SUFFICES ASSUME NEW r \in granted, r.user \in matching, NEW s \in rows,
                        s.user \notin matching, r.id = s.id
                 PROVE  FALSE
      BY <1>3 DEF Revoked
    <2> QED BY <1>2 DEF TagsGood
  <1>5. \A u \in matching : \E r \in granted : r.user = u
    BY <1>2 DEF Tagged
  <1>6. matching \subseteq Tagged(synced)
    BY <1>4, <1>5 DEF Tagged
  <1>7. ASSUME NEW r \in synced, r.source = "caster_sync" PROVE r.user \in matching
    <2>1. CASE r \in rows
      BY <2>1, <1>3, <1>7 DEF Revoked
    <2>2. CASE r \notin rows
      BY <2>2, <1>2, <1>3
    <2> QED BY <2>1, <2>2
  <1> QED BY <1>6, <1>7

\* The users the sync is to tag are streamers.
LEMMA MatchingIs == Matching \in SUBSET Streamers
  BY DEF Matching

\* The sync of an operation, or its failure, after any change of channels.
LEMMA SyncSafelyKeeps ==
  ASSUME ChannelsInv, SyncSafely, syncPass'.matching \subseteq Streamers
  PROVE  ChannelsInv'
  <1>1. CASE UNCHANGED tagRows /\ unsynced' = TRUE
    BY <1>1 DEF ChannelsInv, TagsFollowChannels
  <1>2. CASE tagRows' = Synced(tagRows, tagRows, Matching') /\ unsynced' = FALSE
    <2> PICK m : m = Matching'
      OBVIOUS
    <2>1. m \in SUBSET Streamers
      BY DEF Matching
    <2>2. TagsGood(tagRows) /\ (m \ Tagged(tagRows)) \cap Tagged(tagRows) = {}
      BY DEF ChannelsInv
    <2>3. TagsGood(Synced(tagRows, tagRows, m))
      BY <2>1, <2>2, SyncedGood
    <2>4. /\ m \subseteq Tagged(Synced(tagRows, tagRows, m))
          /\ \A r \in Synced(tagRows, tagRows, m) : r.source = "caster_sync" => r.user \in m
      BY <2>1, <2>2, SyncedFollows
    <2> QED BY <1>2, <2>3, <2>4 DEF ChannelsInv, TagsFollowChannels, TagsGood, Tagged
  <1> QED BY <1>1, <1>2 DEF SyncSafely

\* Each step of requests, decisions, connections, tags and the pass of the loop.
LEMMA ChannelsNextKept ==
  ASSUME ChannelsInv, [ChannelsNext]_channelVars
  PROVE  ChannelsInv'
  <1>a. ASSUME UNCHANGED <<tagRows, unsynced, fromEnv, connected>>, 
               syncPass'.matching \subseteq Streamers,
               \A c \in ChannelIds : approval'[c] = "approved" <=> approval[c] = "approved"
        PROVE  ChannelsInv'
    BY <1>a DEF ChannelsInv, TagsFollowChannels, Matching, ApprovedChannels
  <1>b. ASSUME UNCHANGED <<tagRows, unsynced, fromEnv, connected, approval, syncPass>>
        PROVE  ChannelsInv'
    BY <1>a, <1>b DEF ChannelsInv
  <1>1. CASE BeginSync
    BY <1>1, <1>a, MatchingIs DEF BeginSync
  <1>2. CASE CommitSync
    <2>0. /\ NoSync.matching \subseteq Streamers /\ syncPass' = NoSync
          /\ UNCHANGED <<approval, fromEnv, connected>>
      BY <1>2 DEF CommitSync, NoSync
    <2>1. CASE UNCHANGED <<tagRows, unsynced>>
      BY <2>0, <2>1, <1>a
    <2>2. CASE /\ tagRows' = Synced(tagRows, syncPass.rows, syncPass.matching)
               /\ unsynced' = Overtaken
               /\ (syncPass.matching \ Tagged(syncPass.rows)) \cap Tagged(tagRows) = {}
      <3>1. TagsGood(tagRows')
        BY <2>2, SyncedGood DEF ChannelsInv
      <3>2. Matching' = Matching
        BY <2>0 DEF Matching, ApprovedChannels
      <3>3. TagsFollowChannels'
        <4> SUFFICES ASSUME ~unsynced'
                     PROVE  /\ Matching \subseteq Tagged(tagRows')
                            /\ \A r \in tagRows' : r.source = "caster_sync" => r.user \in Matching
          BY <3>2 DEF TagsFollowChannels, Tagged
        <4>1. syncPass.matching = Matching /\ syncPass.rows = tagRows
          BY <2>2 DEF Overtaken
        <4> QED BY <4>1, <2>2, MatchingIs, SyncedFollows DEF ChannelsInv
      <3> QED BY <2>0, <3>1, <3>3 DEF ChannelsInv, TagsGood
    <2> QED BY <1>2, <2>1, <2>2 DEF CommitSync
  <1>3. ASSUME NEW c, BeginRequest(c) \/ SeenAgain(c) \/ \E action \in DOMAIN AppliesTo : BeginDecide(c, action)
        PROVE  ChannelsInv'
    BY <1>3, <1>b DEF BeginRequest, SeenAgain, BeginDecide, Arrives
  <1>4. ASSUME NEW u, NEW c, ConnectChannel(u, c) PROVE ChannelsInv'
    BY <1>4, SyncSafelyKeeps DEF ConnectChannel, SetConnected, ChannelsInv
  <1>5. ASSUME NEW u, DisconnectChannel(u) PROVE ChannelsInv'
    BY <1>5, SyncSafelyKeeps DEF DisconnectChannel, SetConnected, ChannelsInv
  <1>6. ASSUME NEW r \in inFlight, CommitRequest(r) PROVE ChannelsInv'
    <2>0. UNCHANGED <<fromEnv, connected, syncPass, tagRows>>
      BY <1>6 DEF CommitRequest, Lands, NothingStored
    <2>1. CASE NothingStored
      BY <2>0, <2>1, <1>b DEF NothingStored
    <2>2. CASE /\ approval[r.channel] = "none"
               /\ approval' = [c \in ChannelIds |->
                    CASE c = r.channel -> "pending"
                      [] c \in r.drop -> "none"
                      [] OTHER -> approval[c]]
               /\ unsynced' = (unsynced \/ \E c \in r.drop : approval[c] = "approved")
      <3>1. CASE unsynced'
        BY <3>1, <2>0 DEF ChannelsInv, TagsFollowChannels
      <3>2. CASE ~unsynced'
        <4>1. ~unsynced /\ \A c \in r.drop : approval[c] # "approved"
          BY <3>2, <2>2
        <4>2. \A c \in ChannelIds : approval'[c] = "approved" <=> approval[c] = "approved"
          BY <4>1, <2>2
        <4>3. Matching' = Matching
          BY <4>2, <2>0 DEF Matching, ApprovedChannels
        <4> QED BY <4>1, <4>3, <2>0 DEF ChannelsInv, TagsFollowChannels
      <3> QED BY <3>1, <3>2
    <2> QED BY <1>6, <2>1, <2>2 DEF CommitRequest
  <1>7. ASSUME NEW r \in inFlight, CommitDecide(r) PROVE ChannelsInv'
    <2>1. CASE SyncSafely
      BY <1>7, <2>1, SyncSafelyKeeps DEF CommitDecide, Lands, ChannelsInv
    <2>2. CASE NothingStored
      BY <1>7, <2>2, <1>b DEF CommitDecide, Lands, NothingStored
    <2> QED BY <1>7, <2>1, <2>2 DEF CommitDecide
  <1>8. ASSUME NEW u \in Streamers, GrantTag(u) PROVE ChannelsInv'
    <2> PICK users : users = {u}
      OBVIOUS
    <2>0. /\ UNCHANGED <<approval, fromEnv, connected, syncPass, unsynced>>
          /\ tagRows' = GrantedTo(tagRows, users, "admin") /\ users \cap Tagged(tagRows) = {}
      BY <1>8 DEF GrantTag
    <2>1. /\ TagsGood(tagRows') /\ Tagged(tagRows') = Tagged(tagRows) \cup users
          /\ \A r \in tagRows' \ tagRows : r.source = "admin"
      BY <2>0, GrantedGood DEF ChannelsInv
    <2>2. Matching' = Matching
      BY <2>0 DEF Matching, ApprovedChannels
    <2>3. TagsFollowChannels'
      BY <2>0, <2>1, <2>2 DEF ChannelsInv, TagsFollowChannels, Tagged
    <2> QED BY <2>0, <2>1, <2>3 DEF ChannelsInv, TagsGood
  <1>9. ASSUME NEW r \in tagRows, RevokeTag(r) PROVE ChannelsInv'
    <2>0. /\ UNCHANGED <<approval, fromEnv, connected, syncPass>> /\ tagRows' = tagRows \ {r}
          /\ unsynced' = (unsynced \/ r.user \in Matching)
      BY <1>9 DEF RevokeTag
    <2>1. Matching' = Matching
      BY <2>0 DEF Matching, ApprovedChannels
    <2>2. TagsFollowChannels'
      BY <2>0, <2>1 DEF ChannelsInv, TagsFollowChannels, Tagged
    <2> QED BY <2>0, <2>2 DEF ChannelsInv, TagsGood
  <1>10. ASSUME NEW env, RestartWith(env) PROVE ChannelsInv'
    BY <1>10, SyncSafelyKeeps DEF RestartWith, NoSync, ChannelsInv
  <1>11. CASE UNCHANGED channelVars
    BY <1>11, <1>b DEF channelVars
  <1> QED BY <1>1, <1>2, <1>3, <1>4, <1>5, <1>6, <1>7, <1>8, <1>9, <1>10, <1>11, Zenon
          DEF ChannelsNext

\* Each account has one row of the tag, and the tag is as it should be unless a change
\* went past the sync.
THEOREM ChannelsInvariant == ChannelsSpec => []ChannelsInv
  <1>1. ChannelsInit => ChannelsInv
    BY ChannelsAssumption DEF ChannelsAssumption, ChannelsInit, ChannelsInv, NoSync, TagsGood,
       TagsFollowChannels, Matching, ApprovedChannels
  <1> QED BY <1>1, ChannelsNextKept, PTL DEF ChannelsSpec

\* The Caster tag follows the approved channels, whoever decides, connects, grants or
\* restarts at the same time.
THEOREM TagsFollowChannelsHolds == ChannelsSpec => []TagsFollowChannels
  <1>1. ChannelsInv => TagsFollowChannels
    BY DEF ChannelsInv
  <1> QED BY <1>1, ChannelsInvariant, PTL

-----------------------------------------------------------------------------
(* Finals: predictions, locks and results *)

SavedBrackets ==
  [lock : 1..Never, paused : BOOLEAN, win : [AllSeries -> 0..4],
   source : [AllSeries -> {"none", "admin", "matches"}]]
Saved == [fan : Fans, pick : PickChoices, at : 1..MaxTime, score : -1..3]

\* A bracket that is locked, as it must be once it has a result, was locked by then.
LockedBy(b, t) == b.lock <= t \/ (b.lock = Never /\ ~HasResult(b))

WorldTypes ==
  /\ time \in 1..MaxTime
  /\ \A g \in games : g.start \in 1..time
  /\ sightings \subseteq 1..time /\ fixtures \subseteq Nat \ {0}

BracketSound ==
  /\ bracket \in SavedBrackets \cup {NoBracket} /\ picks \in Seq(Saved)
  /\ resultAt \in 1..time \cup {Never}
  /\ bracket # NoBracket => LockedBy(bracket, time)
  /\ HasResult(bracket) => resultAt # Never
  /\ resultAt # Never => bracket # NoBracket /\ bracket.lock <= resultAt

\* What a request read, and the row it is to write, against what became of it since.
Handled(q) ==
  /\ q.now \in 1..time /\ q.to \in SavedBrackets /\ q.from \in SavedBrackets \cup {NoBracket}
  /\ LockedBy(q.to, q.now)
  /\ q.from = NoBracket => q.op = "view"
  /\ q.from # NoBracket =>
       /\ bracket # NoBracket
       /\ bracket.lock <= q.from.lock /\ q.to.lock <= q.from.lock
       /\ resultAt # Never => q.now <= resultAt \/ q.from.lock <= resultAt
  /\ q.op = "save" => q.fan \in Fans /\ q.pick \in PickChoices
  /\ q.op = "result" => q.series \in AllSeries /\ q.winner \in 1..4

StalledSound == stalled # FinalsIdle => Handled(stalled)

FinalsInv == WorldTypes /\ BracketSound /\ StalledSound

-----------------------------------------------------------------------------
(* Times and brackets *)

\* The times of the bound, and the one that never comes.
LEMMA NeverIs == MaxTime \in Nat \ {0} /\ Never \in Nat /\ MaxTime < Never
  BY FinalsAssumption DEF FinalsAssumption, Never

\* A bracket is told from its absence.
LEMMA BracketNot == NoBracket \notin SavedBrackets
  BY DEF NoBracket, SavedBrackets

\* The smallest of a set of times with one in it.
LEMMA EarliestIs ==
  ASSUME NEW S \in SUBSET (1..Never), S # {}
  PROVE  Min(S) \in S /\ \A t \in S : Min(S) <= t
  <1> PICK I : I = 1..Never
    OBVIOUS
  <1>1. IsFiniteSet(I) /\ S \in SUBSET I
    BY FS_Interval, NeverIs
  <1>2. IsFiniteSet(S)
    BY <1>1, FS_Subset
  <1>3. \A t \in S : t \in Nat
    BY NeverIs
  <1> QED BY <1>2, <1>3, MinIs

\* What the world tells a request, now or before.
SeenSound(seen) ==
  /\ \A g \in seen.games : g.start \in 1..time
  /\ seen.sightings \subseteq 1..time /\ seen.fixtures \subseteq Nat \ {0}

\* What a request reads of the world.
LEMMA SeenNow ==
  ASSUME FinalsInv
  PROVE  SeenSound(Seen)
  BY DEF FinalsInv, WorldTypes, SeenSound, Seen

\* The lock moves only to an earlier time, and to none that is still to come; a game of
\* a semi-final locks.
LEMMA LockedIs ==
  ASSUME FinalsInv, NEW seen, SeenSound(seen), NEW asOf \in 1..time, NEW b \in SavedBrackets
  PROVE  /\ Locked(b, seen, asOf) \in 1..Never /\ Locked(b, seen, asOf) <= b.lock
         /\ Locked(b, seen, asOf) = b.lock \/ Locked(b, seen, asOf) <= time
         /\ \A g \in seen.games : g.pair \in SemiPairs => Locked(b, seen, asOf) <= time
  <1> DEFINE fixed == {t \in seen.fixtures : t <= asOf}
             started == {g.start : g \in {h \in seen.games : h.pair \in SemiPairs}}
  <1> PICK S : S = {b.lock} \cup seen.sightings \cup fixed \cup started
    OBVIOUS
  <1>0. time \in Nat /\ time <= MaxTime /\ asOf \in Nat /\ asOf <= time /\ b.lock \in 1..Never
    BY NeverIs DEF FinalsInv, WorldTypes, SavedBrackets
  <1>1. seen.sightings \subseteq 1..time /\ fixed \subseteq 1..time /\ started \subseteq 1..time
    BY <1>0 DEF SeenSound
  <1>2. \A g \in seen.games : g.pair \in SemiPairs => g.start \in started
    OBVIOUS
  <1> HIDE DEF fixed, started
  <1>3. 1..time \subseteq 1..Never
    BY <1>0, NeverIs
  <1>4. S \in SUBSET (1..Never) /\ S # {}
    BY <1>0, <1>1, <1>3
  <1>5. Min(S) \in S /\ \A t \in S : Min(S) <= t
    BY <1>4, EarliestIs
  <1>6. Locked(b, seen, asOf) = Min(S)
    BY DEF Locked, fixed, started
  <1>9. \A t \in seen.sightings \cup fixed \cup started : t \in Nat /\ t <= time
    <2>1. \A t \in 1..time : t \in Nat /\ t <= time
      BY <1>0
    <2> QED BY <2>1, <1>1
  <1>7. \A t \in S : t = b.lock \/ t <= time
    BY <1>9
  <1>8. ASSUME NEW g \in seen.games, g.pair \in SemiPairs PROVE Min(S) <= time
    <2>1. g.start \in S /\ g.start \in Nat /\ g.start <= time
      BY <1>2, <1>8, <1>9
    <2>2. Min(S) <= g.start /\ Min(S) \in Nat
      BY <1>4, <1>5, <2>1, NeverIs
    <2> QED BY <2>1, <2>2, <1>0
  <1> QED BY <1>4, <1>5, <1>6, <1>7, <1>8

-----------------------------------------------------------------------------
(* Results *)

\* Who won a series is one of its two teams.
LEMMA WinnerIs ==
  ASSUME NEW seen, NEW teams
  PROVE  /\ WinnerOf(seen, teams) \in teams \cup {NoTeam}
         /\ WinnerOf(seen, teams) # NoTeam => \E g \in seen.games : g.pair = teams
  <1> PICK G : G = {g \in seen.games : g.pair = teams}
    OBVIOUS
  <1>1. CASE \E t \in teams : Taken(G, t)
    <2>1. WinnerOf(seen, teams) = CHOOSE t \in teams : Taken(G, t)
      BY <1>1 DEF WinnerOf
    <2>2. WinnerOf(seen, teams) \in teams
      BY <1>1, <2>1
    <2>3. \E g \in G : TRUE
      BY <1>1 DEF Taken
    <2> QED BY <2>2, <2>3
  <1>2. CASE ~ \E t \in teams : Taken(G, t)
    <2>1. WinnerOf(seen, teams) = NoTeam
      BY <1>2 DEF WinnerOf
    <2> QED BY <2>1
  <1> QED BY <1>1, <1>2

\* r is b with another result of a series, which only a game of its teams gives.
Decided(b, s, seen, r) ==
  /\ r \in SavedBrackets /\ r.lock = b.lock
  /\ \A o \in AllSeries \ {s} : r.win[o] = b.win[o]
  /\ r.win[s] # NoTeam => \E g \in seen.games : g.pair = SeriesTeams(b, s)
  /\ r.win[s] \in SeriesTeams(b, s) \cup {NoTeam}

\* The results that the matches decide.
LEMMA FromMatchesIs ==
  ASSUME NEW b \in SavedBrackets, NEW s \in AllSeries, NEW seen,
         NEW r, r = FromMatches(b, s, seen)
  PROVE  Decided(b, s, seen, r)
  <1> PICK w : w = WinnerOf(seen, SeriesTeams(b, s))
    OBVIOUS
  <1> PICK source : source = IF w = NoTeam THEN "none" ELSE "matches"
    OBVIOUS
  <1>1. r = [b EXCEPT !.win[s] = w, !.source[s] = source]
    BY DEF FromMatches
  <1>2. SeriesTeams(b, s) \subseteq 0..4
    BY DEF SeriesTeams, SavedBrackets, Semis, AllSeries
  <1>3. /\ w \in SeriesTeams(b, s) \cup {NoTeam}
        /\ w # NoTeam => \E g \in seen.games : g.pair = SeriesTeams(b, s)
    BY WinnerIs
  <1>4. w \in 0..4 /\ source \in {"none", "admin", "matches"}
    BY <1>2, <1>3 DEF NoTeam
  <1>6. /\ b.win \in [AllSeries -> 0..4]
        /\ b.source \in [AllSeries -> {"none", "admin", "matches"}]
    BY DEF SavedBrackets
  <1>5. /\ r \in SavedBrackets /\ r.lock = b.lock
        /\ r.win = [b.win EXCEPT ![s] = w]
    <2> PICK win : win = [b.win EXCEPT ![s] = w]
      OBVIOUS
    <2> PICK sources : sources = [b.source EXCEPT ![s] = source]
      OBVIOUS
    <2>1. r = [b EXCEPT !.win = win, !.source = sources]
      BY <1>1
    <2>2. win \in [AllSeries -> 0..4] /\ sources \in [AllSeries -> {"none", "admin", "matches"}]
      BY <1>4, <1>6
    <2> QED BY <2>1, <2>2 DEF SavedBrackets
  <1>7. r.win[s] = w /\ \A o \in AllSeries \ {s} : r.win[o] = b.win[o]
    BY <1>5, <1>6
  <1> QED BY <1>3, <1>5, <1>7 DEF Decided

\* A refresh keeps a bracket, and moves its lock to an earlier time if at all; with a
\* result it is locked.
LEMMA RefreshedIs ==
  ASSUME FinalsInv, NEW seen, SeenSound(seen), NEW asOf \in 1..time, NEW b \in SavedBrackets,
         LockedBy(b, time), NEW r, r = Refreshed(b, seen, asOf)
  PROVE  r \in SavedBrackets /\ r.lock <= b.lock /\ LockedBy(r, time)
  <1> PICK lock : lock = Locked(b, seen, asOf)
    OBVIOUS
  <1> PICK b0 : b0 = [b EXCEPT !.lock = lock]
    OBVIOUS
  <1> PICK b1 : b1 = SemiResult(b0, "sf1", seen)
    OBVIOUS
  <1> PICK b2 : b2 = SemiResult(b1, "sf2", seen)
    OBVIOUS
  <1>0. /\ lock \in 1..Never /\ lock <= b.lock /\ (lock = b.lock \/ lock <= time)
        /\ \A g \in seen.games : g.pair \in SemiPairs => lock <= time
    BY LockedIs
  <1>1. r = FinalResult(b2, seen)
    BY DEF Refreshed, WithResults
  <1>2. b0 \in SavedBrackets /\ b0.lock = lock /\ b0.win = b.win
    BY <1>0 DEF SavedBrackets
  <1>3. "sf1" \in AllSeries /\ "sf2" \in AllSeries /\ "final" \in AllSeries
    BY DEF AllSeries, Semis
  <1>4. /\ b1 \in SavedBrackets /\ b1.lock = lock
        /\ \A o \in AllSeries \ {"sf1"} : b1.win[o] = b.win[o]
        /\ b1.win["sf1"] = b.win["sf1"] \/ b1.win["sf1"] = NoTeam
             \/ \E g \in seen.games : g.pair = {1, 4}
    <2>1. CASE b1 = b0
      BY <2>1, <1>2
    <2>2. CASE b1 = FromMatches(b0, "sf1", seen)
      <3>1. SeriesTeams(b0, "sf1") = {1, 4}
        BY DEF SeriesTeams
      <3>2. Decided(b0, "sf1", seen, b1)
        BY <2>2, <1>2, <1>3, FromMatchesIs, Zenon
      <3> QED BY <3>1, <3>2, <1>2 DEF Decided
    <2> QED BY <2>1, <2>2 DEF SemiResult
  <1>5. /\ b2 \in SavedBrackets /\ b2.lock = lock
        /\ \A o \in AllSeries \ {"sf2"} : b2.win[o] = b1.win[o]
        /\ b2.win["sf2"] = b1.win["sf2"] \/ b2.win["sf2"] = NoTeam
             \/ \E g \in seen.games : g.pair = {2, 3}
    <2>1. CASE b2 = b1
      BY <2>1, <1>4
    <2>2. CASE b2 = FromMatches(b1, "sf2", seen)
      <3>1. SeriesTeams(b1, "sf2") = {2, 3}
        BY DEF SeriesTeams
      <3>2. Decided(b1, "sf2", seen, b2)
        BY <2>2, <1>4, <1>3, FromMatchesIs, Zenon
      <3> QED BY <3>1, <3>2, <1>4 DEF Decided
    <2> QED BY <2>1, <2>2 DEF SemiResult
  <1>6. /\ r \in SavedBrackets /\ r.lock = lock
        /\ \A o \in AllSeries \ {"final"} : r.win[o] = b2.win[o]
        /\ r.win["final"] \in SeriesTeams(b2, "final") \cup {NoTeam}
    <2>1. CASE r = b2 /\ b2.win["final"] \in SeriesTeams(b2, "final")
      BY <2>1, <1>5
    <2>2. CASE r = FromMatches(b2, "final", seen)
      <3>1. Decided(b2, "final", seen, r)
        BY <2>2, <1>5, <1>3, FromMatchesIs, Zenon
      <3> QED BY <3>1, <1>5 DEF Decided
    <2> QED BY <1>1, <2>1, <2>2 DEF FinalResult
  <1>7. ASSUME HasResult(r) PROVE lock <= time
    <2>1. PICK s \in AllSeries : r.win[s] # NoTeam
      BY <1>7 DEF HasResult
    <2>2. \E semi \in Semis : r.win[semi] # NoTeam
      <3>1. CASE s \in Semis
        BY <2>1, <3>1
      <3>2. CASE s = "final"
        <4>1. r.win["final"] \in SeriesTeams(b2, "final") /\ r.win["final"] # NoTeam
          BY <2>1, <3>2, <1>6
        <4>2. \A semi \in Semis : b2.win[semi] # NoTeam
          BY <4>1 DEF SeriesTeams
        <4>3. b2.win["sf1"] # NoTeam /\ r.win["sf1"] = b2.win["sf1"]
          BY <4>2, <1>6, <1>3 DEF Semis
        <4> QED BY <4>3 DEF Semis
      <3> QED BY <2>1, <3>1, <3>2 DEF AllSeries
    <2>3. r.win["sf1"] # NoTeam \/ r.win["sf2"] # NoTeam
      BY <2>2 DEF Semis
    <2>4. r.win["sf1"] = b1.win["sf1"] /\ r.win["sf2"] = b2.win["sf2"]
          /\ b1.win["sf2"] = b.win["sf2"]
      BY <1>3, <1>4, <1>5, <1>6
    <2>5. \/ b.win["sf1"] # NoTeam \/ b.win["sf2"] # NoTeam
          \/ \E g \in seen.games : g.pair = {1, 4} \/ g.pair = {2, 3}
      BY <2>3, <2>4, <1>4, <1>5
    <2>6. CASE \E g \in seen.games : g.pair = {1, 4} \/ g.pair = {2, 3}
      BY <2>6, <1>0 DEF SemiPairs
    <2>7. CASE b.win["sf1"] # NoTeam \/ b.win["sf2"] # NoTeam
      <3>1. HasResult(b)
        BY <2>7, <1>3, BracketNot DEF HasResult
      <3>2. b.lock <= time
        BY <3>1 DEF LockedBy
      <3> QED BY <3>2, <1>0, NeverIs DEF SavedBrackets, FinalsInv, WorldTypes
    <2> QED BY <2>5, <2>6, <2>7
  <1>8. LockedBy(r, time)
    <2>1. CASE lock <= time
      BY <2>1, <1>6 DEF LockedBy
    <2>2. CASE ~(lock <= time)
      <3>1. lock = b.lock /\ ~HasResult(r)
        BY <2>2, <1>0, <1>7
      <3> QED BY <2>2, <3>1, <1>6 DEF LockedBy
    <2> QED BY <2>1, <2>2
  <1> QED BY <1>0, <1>6, <1>8

-----------------------------------------------------------------------------
(* Predictions *)

\* Scoring keeps predictions.
LEMMA ScoredIs ==
  ASSUME NEW rows \in Seq(Saved), NEW b \in SavedBrackets
  PROVE  Scored(rows, b) \in Seq(Saved)
  <1> PICK n \in Nat : rows \in [1..n -> Saved]
    <2>1. Len(rows) \in Nat /\ rows \in [1..Len(rows) -> Saved]
      OBVIOUS
    <2> QED BY ONLY <2>1, Zenon
  <1>1. ASSUME NEW i \in 1..n PROVE Score(b, rows[i]) \in -1..3
    <2> PICK hits : hits = {k \in 1..3 : rows[i].pick[k] = b.win[<<"sf1", "sf2", "final">>[k]]}
      OBVIOUS
    <2> PICK I : I = 1..3
      OBVIOUS
    <2>1. IsFiniteSet(I) /\ Cardinality(I) = 3
      <3>1. /\ IsFiniteSet(1..3)
            /\ Cardinality(1..3) = IF 1 > 3 THEN 0 ELSE 3 - 1 + 1
        <4>1. 1 \in Int /\ 3 \in Int
          OBVIOUS
        <4> QED BY <4>1, FS_Interval, Zenon
      <3> QED BY <3>1
    <2>5. hits \in SUBSET I
      OBVIOUS
    <2>2. IsFiniteSet(hits) /\ Cardinality(hits) <= 3
      BY <2>1, <2>5, FS_Subset
    <2>3. Cardinality(hits) \in Nat
      BY <2>2, FS_CardinalityType
    <2>4. Score(b, rows[i]) = Cardinality(hits)
      BY DEF Score
    <2> QED BY <2>2, <2>3, <2>4
  <1> PICK scores : scores = [i \in 1..n |->
         IF b.win["final"] # NoTeam /\ i \in Counted(rows, b.lock)
         THEN Score(b, rows[i]) ELSE NoScore]
    OBVIOUS
  <1>2. \A i \in 1..n : scores[i] \in -1..3
    BY <1>1 DEF NoScore
  <1>3. DOMAIN rows = 1..n
    OBVIOUS
  <1>4. Scored(rows, b) = [i \in 1..n |-> [rows[i] EXCEPT !.score = scores[i]]]
    BY <1>3 DEF Scored
  <1>5. \A i \in 1..n : [rows[i] EXCEPT !.score = scores[i]] \in Saved
    BY <1>2 DEF Saved
  <1>6. Scored(rows, b) \in [1..n -> Saved]
    BY <1>4, <1>5
  <1>7. n \in Nat
    OBVIOUS
  <1>8. Scored(rows, b) \in UNION {[1..k -> Saved] : k \in Nat}
    BY ONLY <1>6, <1>7, Zenon
  <1> QED BY ONLY <1>8, SMT

\* Saved predictions stay saved predictions when a bracket rescores them.
LEMMA RescoredIs ==
  ASSUME NEW b, NEW to \in SavedBrackets, picks \in Seq(Saved)
  PROVE  Rescored(b, to) \in Seq(Saved)
  BY ScoredIs DEF Rescored

-----------------------------------------------------------------------------
(* Requests *)

\* What a request may write: a row that fits what it read and what became of it.
Fits(from, to) ==
  /\ to \in SavedBrackets /\ LockedBy(to, time)
  /\ from = NoBracket => bracket = NoBracket
  /\ from # NoBracket =>
       /\ from \in SavedBrackets /\ bracket # NoBracket
       /\ bracket.lock <= from.lock /\ to.lock <= from.lock
       /\ resultAt # Never /\ to.lock # from.lock => to.lock <= resultAt

\* The row that a request writes is a bracket locked by now, its lock never past a result,
\* and no later than the one it replaces unless that one is not what the request read.
LEMMA WrittenIs ==
  ASSUME FinalsInv, NEW from, NEW to, Fits(from, to), NEW b, b = Written(from, to)
  PROVE  /\ b \in SavedBrackets /\ LockedBy(b, time)
         /\ resultAt # Never => b.lock <= resultAt
         /\ from = bracket /\ bracket # NoBracket => b.lock <= bracket.lock
  <1>1. CASE from = NoBracket
    <2>1. b = to /\ bracket = NoBracket /\ resultAt = Never
      BY <1>1 DEF Written, Fits, FinalsInv, BracketSound
    <2> QED BY <2>1 DEF Fits
  <1>2. CASE from # NoBracket
    <2> PICK lock : lock = IF to.lock # from.lock THEN to.lock ELSE bracket.lock
      OBVIOUS
    <2> PICK paused : paused = IF to.paused # from.paused THEN to.paused ELSE bracket.paused
      OBVIOUS
    <2> PICK win : win = [s \in AllSeries |-> IF to.win[s] # from.win[s] THEN to.win[s]
                                              ELSE bracket.win[s]]
      OBVIOUS
    <2> PICK source : source = IF to.source # from.source THEN to.source ELSE bracket.source
      OBVIOUS
    <2>1. b = [lock |-> lock, paused |-> paused, win |-> win, source |-> source]
      BY <1>2 DEF Written
    <2>2. /\ to \in SavedBrackets /\ from \in SavedBrackets /\ bracket \in SavedBrackets
          /\ time \in 1..MaxTime
      BY <1>2 DEF Fits, FinalsInv, BracketSound, WorldTypes
    <2>3. /\ lock \in 1..Never /\ paused \in BOOLEAN /\ win \in [AllSeries -> 0..4]
          /\ source \in [AllSeries -> {"none", "admin", "matches"}]
      BY <2>2 DEF SavedBrackets
    <2>4. b \in SavedBrackets /\ b.lock = lock /\ b.win = win
      BY <2>1, <2>3 DEF SavedBrackets
    <2>5. /\ bracket.lock <= from.lock /\ to.lock <= from.lock
          /\ resultAt # Never /\ to.lock # from.lock => to.lock <= resultAt
          /\ LockedBy(to, time) /\ LockedBy(bracket, time)
          /\ resultAt # Never => bracket.lock <= resultAt
      BY <1>2 DEF Fits, FinalsInv, BracketSound
    <2>6. to.lock \in Nat /\ bracket.lock \in Nat /\ from.lock \in Nat /\ time \in Nat /\ time < Never
      BY <2>2, NeverIs DEF SavedBrackets
    <2>7. HasResult(b) => HasResult(to) \/ HasResult(bracket)
      BY <2>2, <2>4, BracketNot DEF HasResult
    <2>8. LockedBy(b, time)
      <3>1. CASE lock <= time
        BY <2>4, <3>1 DEF LockedBy
      <3>2. CASE ~(lock <= time)
        <4>1. ~(to.lock <= time)
          BY <3>2, <2>5, <2>6
        <4>2. ~HasResult(to) /\ to.lock = Never
          BY <4>1, <2>5 DEF LockedBy
        <4>3. to.lock = from.lock /\ lock = bracket.lock
          BY <4>2, <3>2, <2>2, <2>5, <2>6 DEF SavedBrackets
        <4>4. ~HasResult(bracket) /\ lock = Never
          BY <4>3, <3>2, <2>5 DEF LockedBy
        <4> QED BY <4>2, <4>4, <2>4, <2>7 DEF LockedBy
      <3> QED BY <3>1, <3>2
    <2>9. resultAt # Never => b.lock <= resultAt
      BY <2>4, <2>5
    <2>10. from = bracket => b.lock <= bracket.lock
      BY <2>4, <2>5, <2>6
    <2> QED BY <2>4, <2>8, <2>9, <2>10
  <1> QED BY <1>1, <1>2

\* A commit of a bracket and of rescored predictions keeps what the invariant says of both.
LEMMA CommitKeeps ==
  ASSUME FinalsInv, NEW from, NEW to, Fits(from, to), NEW rows \in Seq(Saved),
         Commit(from, to, rows)
  PROVE  /\ WorldTypes' /\ BracketSound' /\ bracket' # NoBracket
         /\ from = bracket /\ bracket # NoBracket => bracket'.lock <= bracket.lock
         /\ resultAt' = resultAt \/ resultAt' = time
  <1> PICK b : b = Written(from, to)
    OBVIOUS
  <1>1. /\ b \in SavedBrackets /\ LockedBy(b, time)
        /\ resultAt # Never => b.lock <= resultAt
        /\ from = bracket /\ bracket # NoBracket => b.lock <= bracket.lock
    BY WrittenIs
  <1>2. /\ bracket' = b /\ picks' = rows
        /\ resultAt' = IF resultAt = Never /\ HasResult(b) THEN time ELSE resultAt
        /\ UNCHANGED <<time, group, games, sightings, fixtures>>
    BY DEF Commit, HasResult, worldVars
  <1>3. WorldTypes'
    BY <1>2 DEF WorldTypes, FinalsInv
  <1>4. time \in Nat /\ time < Never /\ resultAt \in 1..time \cup {Never} /\ time \in 1..time
    BY NeverIs DEF FinalsInv, WorldTypes, BracketSound
  <1>5. resultAt' \in 1..time \cup {Never}
    BY <1>2, <1>4
  <1>6. resultAt' # Never => b.lock <= resultAt'
    <2>1. CASE resultAt = Never /\ HasResult(b)
      BY <2>1, <1>1, <1>2 DEF LockedBy
    <2>2. CASE ~(resultAt = Never /\ HasResult(b))
      BY <2>2, <1>1, <1>2
    <2> QED BY <2>1, <2>2
  <1>7. HasResult(b) => resultAt' # Never
    BY <1>2, <1>4
  <1>8. b # NoBracket
    BY <1>1, BracketNot
  <1>9. BracketSound'
    BY <1>1, <1>2, <1>5, <1>6, <1>7, <1>8 DEF BracketSound, LockedBy, HasResult
  <1> QED BY <1>1, <1>2, <1>3, <1>8, <1>9

\* The row a request read and refreshed fits, and so does an earlier lock of its own.
LEMMA FitsItsReads ==
  ASSUME FinalsInv, NEW q, Handled(q), q.from # NoBracket \/ bracket = NoBracket,
         NEW to \in SavedBrackets, LockedBy(to, time), to.lock <= q.to.lock,
         to.lock = q.to.lock \/ to.lock <= q.now
  PROVE  Fits(q.from, to)
  <1>1. CASE q.from = NoBracket
    BY <1>1 DEF Fits
  <1>2. CASE q.from # NoBracket
    <2>1. /\ q.from \in SavedBrackets /\ bracket # NoBracket /\ q.to \in SavedBrackets
          /\ bracket.lock <= q.from.lock /\ q.to.lock <= q.from.lock
          /\ resultAt # Never => q.now <= resultAt \/ q.from.lock <= resultAt
          /\ LockedBy(q.to, q.now) /\ q.now \in 1..time
          /\ time \in 1..MaxTime /\ resultAt \in 1..time \cup {Never}
      BY <1>2 DEF Handled, FinalsInv, WorldTypes, BracketSound
    <2>2. /\ to.lock \in 1..Never /\ q.to.lock \in 1..Never /\ q.from.lock \in 1..Never
          /\ q.now \in Nat /\ q.now < Never /\ resultAt \in Nat
      BY <2>1, NeverIs DEF SavedBrackets
    <2>3. to.lock <= q.from.lock
      BY <2>1, <2>2, NeverIs
    <2>4. ASSUME resultAt # Never, to.lock # q.from.lock PROVE to.lock <= resultAt
      <3>1. CASE q.from.lock <= resultAt
        BY <3>1, <2>2, <2>3, NeverIs
      <3>2. CASE q.now <= resultAt
        <4>1. CASE to.lock <= q.now
          BY <4>1, <3>2, <2>2, NeverIs
        <4>2. CASE to.lock = q.to.lock
          <5>1. q.to.lock # Never
            BY <4>2, <2>4, <2>1, <2>2, NeverIs
          <5>2. q.to.lock <= q.now
            BY <5>1, <2>1 DEF LockedBy
          <5> QED BY <4>2, <5>2, <3>2, <2>2, NeverIs
        <4> QED BY <4>1, <4>2
      <3> QED BY <2>1, <2>4, <3>1, <3>2
    <2> QED BY <1>2, <2>1, <2>3, <2>4 DEF Fits
  <1> QED BY <1>1, <1>2

\* A request writes what fits.
SavesRead(q) ==
  \E to, rows : Fits(q.from, to) /\ rows \in Seq(Saved) /\ Commit(q.from, to, rows)

\* A lock that was due at an earlier moment is due now.
LEMMA LaterLock ==
  ASSUME FinalsInv, NEW b \in SavedBrackets, NEW asOf \in 1..time, LockedBy(b, asOf)
  PROVE  LockedBy(b, time)
  BY NeverIs DEF LockedBy, SavedBrackets, FinalsInv, WorldTypes

\* Every operation that is handled writes a bracket fit for what it has read.
LEMMA RequestWrites ==
  ASSUME FinalsInv, NEW q, Handled(q), Handle(q), q.from # NoBracket \/ bracket = NoBracket
  PROVE  SavesRead(q)
  <1>0. /\ q.to \in SavedBrackets /\ q.now \in 1..time /\ LockedBy(q.to, q.now)
        /\ time \in 1..MaxTime /\ picks \in Seq(Saved)
    BY DEF Handled, FinalsInv, WorldTypes, BracketSound
  <1>1. LockedBy(q.to, time)
    BY <1>0, LaterLock
  <1>2. q.to.lock \in 1..Never /\ q.now \in Nat /\ q.now <= time /\ time \in Nat /\ q.now < Never
    BY <1>0, NeverIs DEF SavedBrackets
  <1>3. Fits(q.from, q.to)
    BY <1>0, <1>1, <1>2, NeverIs, FitsItsReads
  <1>4. Rescored(q.from, q.to) \in Seq(Saved)
    BY <1>0, RescoredIs
  <1>5. CASE View(q)
    <2>1. ~(q.from = NoBracket /\ bracket # NoBracket)
      OBVIOUS
    <2>2. Commit(q.from, q.to, Rescored(q.from, q.to))
      BY <1>5, <2>1 DEF View
    <2> QED BY <2>2, <1>3, <1>4 DEF SavesRead
  <1>6. CASE Save(q)
    <2> PICK new : new = [fan |-> q.fan, pick |-> q.pick, at |-> q.now, score |-> NoScore]
      OBVIOUS
    <2> PICK rows : rows = Rescored(q.from, q.to)
      OBVIOUS
    <2>1. q.fan \in Fans /\ q.pick \in PickChoices
      BY <1>6 DEF Save, Handled
    <2>2. NoScore \in -1..3 /\ q.now \in 1..MaxTime
      BY <1>0, NeverIs DEF NoScore
    <2>3. new \in Saved
      BY <2>1, <2>2 DEF Saved
    <2>4. Append(rows, new) \in Seq(Saved)
      BY <2>3, <1>4
    <2>5. Commit(q.from, q.to, Append(rows, new))
      BY <1>6 DEF Save
    <2> QED BY <2>4, <2>5, <1>3 DEF SavesRead
  <1>7. CASE Pause(q)
    <2> PICK paused \in BOOLEAN : paused = ~q.to.paused
      BY <1>0, Zenon DEF SavedBrackets
    <2> PICK to : to = [q.to EXCEPT !.paused = paused]
      OBVIOUS
    <2>1. to \in SavedBrackets /\ to.lock = q.to.lock /\ to.win = q.to.win
      BY <1>0 DEF SavedBrackets
    <2>2. Commit(q.from, to, Rescored(q.from, to))
      BY <1>7 DEF Pause
    <2>3. LockedBy(to, time)
      BY <2>1, <1>0, <1>1, BracketNot DEF LockedBy, HasResult
    <2>4. to.lock <= q.to.lock /\ Rescored(q.from, to) \in Seq(Saved)
      BY <2>1, <1>0, <1>2, NeverIs, RescoredIs
    <2>5. Fits(q.from, to)
      BY <2>1, <2>3, <2>4, FitsItsReads
    <2> QED BY <2>2, <2>4, <2>5 DEF SavesRead
  <1>8. CASE CloseFinals(q)
    <2> PICK lock : lock = Min({q.to.lock, q.now})
      OBVIOUS
    <2> PICK closed : closed = [q.to EXCEPT !.lock = lock]
      OBVIOUS
    <2> PICK to : to = Refreshed(closed, Seen, q.now)
      OBVIOUS
    <2>1. lock \in 1..Never /\ lock <= q.to.lock /\ lock <= q.now
      <3> PICK S : S = {q.to.lock, q.now}
        OBVIOUS
      <3>1. S \in SUBSET (1..Never) /\ S # {}
        BY <1>0, <1>2, NeverIs
      <3>2. Min(S) \in S /\ \A t \in S : Min(S) <= t
        BY <3>1, EarliestIs
      <3> QED BY <3>1, <3>2
    <2>2. closed \in SavedBrackets /\ closed.lock = lock
      BY <1>0, <2>1 DEF SavedBrackets
    <2>3. LockedBy(closed, time)
      BY <1>2, <2>1, <2>2, NeverIs DEF LockedBy
    <2>4. to \in SavedBrackets /\ to.lock <= lock /\ LockedBy(to, time)
      <3>1. to \in SavedBrackets /\ to.lock <= closed.lock /\ LockedBy(to, time)
        BY <2>2, <2>3, <1>0, RefreshedIs, SeenNow, Zenon
      <3> QED BY <3>1, <2>2
    <2>5. to.lock <= q.to.lock /\ to.lock <= q.now
      BY <2>1, <2>4, <1>2, NeverIs DEF SavedBrackets
    <2>6. Fits(q.from, to)
      BY <2>4, <2>5, FitsItsReads
    <2>7. Commit(q.from, to, Rescored(q.from, to))
      BY <1>8 DEF CloseFinals
    <2>8. Rescored(q.from, to) \in Seq(Saved)
      BY <2>4, <1>0, RescoredIs
    <2> QED BY <2>6, <2>7, <2>8 DEF SavesRead
  <1>9. CASE Result(q)
    <2> PICK lock : lock = LockByResult(q.to, q.now)
      OBVIOUS
    <2> PICK win : win = [q.to.win EXCEPT ![q.series] = q.winner]
      OBVIOUS
    <2> PICK source : source = [q.to.source EXCEPT ![q.series] = "admin"]
      OBVIOUS
    <2> PICK set : set = [q.to EXCEPT !.lock = lock, !.win = win, !.source = source]
      OBVIOUS
    <2> PICK to : to = Refreshed(set, Seen, q.now)
      OBVIOUS
    <2>1. lock \in 1..Never /\ lock <= q.to.lock /\ lock <= q.now
      BY <1>0, <1>2, NeverIs DEF LockByResult, LockedBy
    <2>2. q.series \in AllSeries /\ q.winner \in 0..4
      BY <1>9 DEF Result, Handled
    <2>3. win \in [AllSeries -> 0..4] /\ source \in [AllSeries -> {"none", "admin", "matches"}]
      BY <1>0, <2>2 DEF SavedBrackets
    <2>4. set \in SavedBrackets /\ set.lock = lock
      BY <1>0, <2>1, <2>3 DEF SavedBrackets
    <2>5. LockedBy(set, time)
      BY <1>2, <2>1, <2>4, NeverIs DEF LockedBy
    <2>6. to \in SavedBrackets /\ to.lock <= lock /\ LockedBy(to, time)
      <3>1. to \in SavedBrackets /\ to.lock <= set.lock /\ LockedBy(to, time)
        BY <2>4, <2>5, <1>0, RefreshedIs, SeenNow, Zenon
      <3> QED BY <3>1, <2>4
    <2>7. to.lock <= q.to.lock /\ to.lock <= q.now
      BY <2>1, <2>6, <1>2, NeverIs DEF SavedBrackets
    <2>8. Fits(q.from, to)
      BY <2>6, <2>7, FitsItsReads
    <2>9. Commit(q.from, to, Scored(picks, to))
      <3>1. set = [q.to EXCEPT !.lock = LockByResult(q.to, q.now),
                               !.win[q.series] = q.winner, !.source[q.series] = "admin"]
        OBVIOUS
      <3> QED BY <1>9, <3>1 DEF Result
    <2>10. Scored(picks, to) \in Seq(Saved)
      BY <2>6, <1>0, ScoredIs
    <2> QED BY <2>8, <2>9, <2>10 DEF SavesRead
  <1> QED BY <1>5, <1>6, <1>7, <1>8, <1>9 DEF Handle

\* So does a view that finds the bracket stored after it read.
LEMMA LateViewWrites ==
  ASSUME FinalsInv, NEW q, Handled(q), Handle(q), q.from = NoBracket, bracket # NoBracket
  PROVE  \E to, rows : Fits(bracket, to) /\ rows \in Seq(Saved) /\ Commit(bracket, to, rows)
  <1> PICK to : to = Refreshed(bracket, Seen, q.now)
    OBVIOUS
  <1>1. View(q)
    BY DEF Handle, Handled, View, Save, Pause, CloseFinals, Result
  <1>2. Commit(bracket, to, Rescored(bracket, to))
    BY <1>1 DEF View
  <1>3. /\ bracket \in SavedBrackets /\ LockedBy(bracket, time) /\ q.now \in 1..time
        /\ picks \in Seq(Saved) /\ resultAt \in 1..time \cup {Never} /\ time \in 1..MaxTime
        /\ resultAt # Never => bracket.lock <= resultAt
    BY DEF FinalsInv, WorldTypes, BracketSound, Handled
  <1>4. to \in SavedBrackets /\ to.lock <= bracket.lock /\ LockedBy(to, time)
    BY <1>3, RefreshedIs, SeenNow
  <1>5. bracket.lock \in Nat /\ to.lock \in Nat /\ resultAt \in Nat
    BY <1>3, <1>4, NeverIs DEF SavedBrackets
  <1>6. Fits(bracket, to)
    BY <1>3, <1>4, <1>5 DEF Fits
  <1>7. Rescored(bracket, to) \in Seq(Saved)
    BY <1>3, <1>4, RescoredIs
  <1> QED BY <1>2, <1>6, <1>7

\* An operation handled in full, apart from requests that are stalled meanwhile.
LEMMA HandleKeeps ==
  ASSUME FinalsInv, NEW q, Handled(q), Handle(q)
  PROVE  /\ WorldTypes' /\ BracketSound' /\ bracket' # NoBracket /\ time' = time
         /\ q.from = bracket /\ bracket # NoBracket => bracket'.lock <= bracket.lock
         /\ resultAt' = resultAt \/ resultAt' = time
  <1>1. CASE q.from # NoBracket \/ bracket = NoBracket
    <2>1. PICK to, rows : /\ Fits(q.from, to) /\ rows \in Seq(Saved)
                          /\ Commit(q.from, to, rows)
      BY <1>1, RequestWrites DEF SavesRead
    <2> QED BY <2>1, CommitKeeps DEF Commit, worldVars
  <1>2. CASE q.from = NoBracket /\ bracket # NoBracket
    <2>1. PICK to, rows : /\ Fits(bracket, to) /\ rows \in Seq(Saved)
                          /\ Commit(bracket, to, rows)
      BY <1>2, LateViewWrites
    <2> QED BY <2>1, <1>2, CommitKeeps DEF Commit, worldVars
  <1> QED BY <1>1, <1>2

\* A request that stalls survives what the others do.
LEMMA StalledKept ==
  ASSUME FinalsInv, NEW q, Handled(q), time' \in Nat, time <= time',
         \/ UNCHANGED <<bracket, resultAt>>
         \/ /\ bracket' # NoBracket /\ bracket' \in SavedBrackets
            /\ bracket # NoBracket => bracket'.lock <= bracket.lock
            /\ resultAt' = resultAt \/ resultAt' = time
  PROVE  Handled(q)'
  <1>1. /\ q.now \in 1..time /\ time \in Nat
        /\ q.from # NoBracket => bracket # NoBracket /\ bracket.lock <= q.from.lock
    BY NeverIs DEF Handled, FinalsInv, WorldTypes
  <1>2. q.now \in 1..time'
    BY <1>1
  <1>3. CASE UNCHANGED <<bracket, resultAt>>
    BY <1>2, <1>3 DEF Handled
  <1>4. CASE /\ bracket' # NoBracket /\ bracket' \in SavedBrackets
             /\ bracket # NoBracket => bracket'.lock <= bracket.lock
             /\ resultAt' = resultAt \/ resultAt' = time
    <2>1. q.from # NoBracket =>
            /\ q.from \in SavedBrackets /\ bracket \in SavedBrackets /\ bracket'.lock <= bracket.lock
            /\ bracket.lock <= q.from.lock
      BY <1>1, <1>4 DEF Handled, FinalsInv, BracketSound
    <2>2. q.from # NoBracket => bracket'.lock <= q.from.lock
      BY <2>1, <1>4, NeverIs DEF SavedBrackets
    <2>3. q.from # NoBracket /\ resultAt' # Never => q.now <= resultAt' \/ q.from.lock <= resultAt'
      BY <1>1, <1>4 DEF Handled
    <2> QED BY <1>2, <1>4, <2>2, <2>3 DEF Handled
  <1> QED BY <1>3, <1>4

\* A request that comes has read the bracket as it is.
LEMMA RequestsHandled ==
  ASSUME FinalsInv, NEW q \in Requests(FinalsRequest)
  PROVE  Handled(q) /\ q.from = bracket
  <1> PICK read : read = FinalsRequest
    OBVIOUS
  <1> PICK base : base = IF bracket = NoBracket THEN NewBracket ELSE bracket
    OBVIOUS
  <1>0. /\ time \in 1..MaxTime /\ time \in 1..time /\ resultAt \in 1..time \cup {Never}
        /\ bracket \in SavedBrackets \cup {NoBracket}
        /\ bracket # NoBracket => LockedBy(bracket, time)
    BY NeverIs DEF FinalsInv, WorldTypes, BracketSound
  <1>1. base \in SavedBrackets /\ LockedBy(base, time) /\ (bracket # NoBracket => base = bracket)
    <2>1. NewBracket \in SavedBrackets
      BY NeverIs DEF NewBracket, SavedBrackets, NoTeam
    <2>2. NewBracket.lock = Never /\ ~HasResult(NewBracket)
      BY DEF NewBracket, HasResult
    <2> QED BY <2>1, <2>2, <1>0 DEF LockedBy
  <1>2. read.from = bracket /\ read.now = time /\ read.to = Refreshed(base, Seen, time)
    BY DEF FinalsRequest
  <1>3. read.to \in SavedBrackets /\ read.to.lock <= base.lock /\ LockedBy(read.to, time)
    BY <1>0, <1>1, <1>2, RefreshedIs, SeenNow, Zenon
  <1>4. /\ q.from = read.from /\ q.to = read.to /\ q.now = read.now
        /\ bracket = NoBracket => q.op = "view"
        /\ q.op = "save" => q.fan \in Fans /\ q.pick \in PickChoices
        /\ q.op = "result" => q.series \in AllSeries /\ q.winner \in SeriesTeams(read.to, q.series)
    <2>1. CASE q \in Views(read)
      BY <2>1 DEF Views, Asks
    <2>2. CASE q \in Saves(read) /\ bracket # NoBracket
      BY <2>2 DEF Saves
    <2>3. CASE q \in Results(read) /\ bracket # NoBracket
      BY <2>3 DEF Results
    <2>4. CASE q \in {Asks("pause", read), Asks("close", read)} /\ bracket # NoBracket
      BY <2>4 DEF Asks
    <2> QED BY <2>1, <2>2, <2>3, <2>4 DEF Requests
  <1>5. q.op = "result" => q.winner \in 1..4
    <2> SUFFICES ASSUME q.op = "result" PROVE q.winner \in 1..4
      OBVIOUS
    <2>1. q.series \in AllSeries /\ q.winner \in SeriesTeams(read.to, q.series)
      BY <1>4
    <2>2. read.to.win \in [AllSeries -> 0..4]
      BY <1>3 DEF SavedBrackets
    <2> QED BY <2>1, <2>2 DEF SeriesTeams, Semis, AllSeries, NoTeam
  <1>6. bracket # NoBracket =>
          /\ bracket.lock <= q.from.lock /\ q.to.lock <= q.from.lock
          /\ resultAt # Never => q.now <= resultAt \/ q.from.lock <= resultAt
    BY <1>0, <1>1, <1>2, <1>3, <1>4, NeverIs DEF SavedBrackets, FinalsInv, BracketSound
  <1> QED BY <1>0, <1>2, <1>3, <1>4, <1>5, <1>6 DEF Handled

\* Each step of time, games, the feed, and requests that run through or stall.
LEMMA FinalsNextKept ==
  ASSUME FinalsInv, [FinalsNext]_finalsVars
  PROVE  FinalsInv'
  <1>0. /\ time \in 1..MaxTime /\ time \in Nat
        /\ WorldTypes /\ BracketSound /\ StalledSound
    BY NeverIs DEF FinalsInv, WorldTypes
  <1>a. ASSUME WorldTypes', UNCHANGED <<bracket, picks, stalled, resultAt>>, time <= time'
        PROVE  FinalsInv'
    <2>1. time' \in Nat /\ time' \in 1..MaxTime
      BY <1>a, NeverIs DEF WorldTypes
    <2>2. BracketSound'
      <3>1. bracket # NoBracket => LockedBy(bracket, time')
        BY <1>a, <1>0, <2>1, NeverIs DEF LockedBy, BracketSound, SavedBrackets
      <3>2. resultAt' \in 1..time' \cup {Never}
        BY <1>a, <1>0, <2>1 DEF BracketSound
      <3> QED BY <1>a, <1>0, <3>1, <3>2 DEF BracketSound, LockedBy, HasResult
    <2>3. StalledSound'
      BY <1>a, <1>0, <2>1, StalledKept DEF StalledSound
    <2> QED BY <1>a, <2>2, <2>3 DEF FinalsInv
  <1>1. CASE FinalsTick
    BY <1>1, <1>0, <1>a, NeverIs DEF FinalsTick, WorldTypes
  <1>2. CASE GroupMoves
    BY <1>2, <1>0, <1>a DEF GroupMoves, WorldTypes
  <1>3. CASE SeeLive
    BY <1>3, <1>0, <1>a DEF SeeLive, WorldTypes
  <1>4. CASE IngestGame
    <2>1. PICK pair \in GamePairs, start \in 1..time :
            /\ \E winner \in pair \cup {NoTeam} :
                 games' = games \cup {[pair |-> pair, start |-> start, winner |-> winner]}
            /\ \/ UNCHANGED sightings
               \/ \E t \in sightings : sightings' = sightings \ {t}
      BY <1>4, Zenon DEF IngestGame
    <2>2. \A g \in games' : g.start \in 1..time
      BY <2>1, <1>0 DEF WorldTypes
    <2>3. sightings' \subseteq sightings
      BY <2>1
    <2>4. UNCHANGED <<time, fixtures, bracket, picks, stalled, resultAt>>
      BY <1>4 DEF IngestGame
    <2>5. WorldTypes'
      BY <2>2, <2>3, <2>4, <1>0 DEF WorldTypes
    <2> QED BY <2>4, <2>5, <1>0, <1>a
  <1>5. CASE FetchFixtures
    BY <1>5, <1>0, <1>a, FinalsAssumption DEF FetchFixtures, WorldTypes, FinalsAssumption
  <1>6. CASE SomeRequest
    <2>1. PICK q \in Requests(FinalsRequest) : Serve(q) \/ Stall(q)
      BY <1>6 DEF SomeRequest
    <2>2. Handled(q) /\ q.from = bracket
      BY <2>1, RequestsHandled
    <2>3. CASE Serve(q)
      <3>1. /\ WorldTypes' /\ BracketSound' /\ bracket' # NoBracket /\ time' = time
            /\ bracket # NoBracket => bracket'.lock <= bracket.lock
            /\ resultAt' = resultAt \/ resultAt' = time
        BY <2>2, <2>3, HandleKeeps DEF Serve
      <3>2. stalled' = stalled /\ time' \in Nat /\ time <= time' /\ bracket' \in SavedBrackets
        BY <2>3, <3>1, <1>0 DEF Serve, BracketSound
      <3>3. StalledSound'
        BY <3>1, <3>2, <1>0, StalledKept DEF StalledSound
      <3> QED BY <3>1, <3>3 DEF FinalsInv
    <2>4. CASE Stall(q)
      <3>1. /\ stalled' = q /\ UNCHANGED <<time, games, sightings, fixtures, bracket, picks, resultAt>>
        BY <2>4 DEF Stall, worldVars
      <3>2. WorldTypes' /\ BracketSound'
        BY <3>1, <1>0 DEF WorldTypes, BracketSound, LockedBy, HasResult
      <3>3. Handled(q)'
        BY <3>1, <2>2, <1>0, StalledKept
      <3> QED BY <3>1, <3>2, <3>3 DEF FinalsInv, StalledSound
    <2> QED BY <2>1, <2>3, <2>4
  <1>7. CASE Resume
    <2>1. Handled(stalled) /\ Handle(stalled) /\ stalled' = FinalsIdle
      BY <1>7, <1>0 DEF Resume, StalledSound
    <2> QED BY <2>1, HandleKeeps DEF FinalsInv, StalledSound
  <1>8. CASE UNCHANGED finalsVars
    BY <1>8, <1>0, <1>a DEF finalsVars, worldVars, WorldTypes
  <1> QED BY <1>1, <1>2, <1>3, <1>4, <1>5, <1>6, <1>7, <1>8 DEF FinalsNext

\* Every request's reads, and the row it is to write, stand to the row as it has become
\* as Handled says, however many others commit while it is stalled.
THEOREM FinalsInvariant == FinalsSpec => []FinalsInv
  <1>1. FinalsInit => FinalsInv
    BY NeverIs DEF FinalsInit, FinalsInv, WorldTypes, BracketSound, StalledSound, HasResult
  <1> QED BY <1>1, FinalsNextKept, PTL DEF FinalsSpec

\* No prediction that counts was saved once a result of the finals was known.
THEOREM CountedBeforeResultHolds == FinalsSpec => []CountedBeforeResult
  <1>1. FinalsInv => CountedBeforeResult
    <2> SUFFICES ASSUME FinalsInv, NEW i \in Counted(picks, bracket.lock)
                 PROVE  picks[i].at < resultAt
      BY DEF CountedBeforeResult
    <2>1. /\ picks \in Seq(Saved) /\ resultAt \in 1..time \cup {Never}
          /\ resultAt # Never => bracket # NoBracket /\ bracket.lock <= resultAt
          /\ bracket \in SavedBrackets \cup {NoBracket}
      BY DEF FinalsInv, BracketSound
    <2>2. i \in DOMAIN picks /\ picks[i].at < bracket.lock
      BY DEF Counted
    <2>3. picks[i] \in Saved
      BY <2>1, <2>2
    <2>4. picks[i].at \in 1..MaxTime
      BY <2>3 DEF Saved
    <2>5. CASE resultAt = Never
      BY <2>4, <2>5, NeverIs
    <2>6. CASE resultAt # Never
      <3>1. resultAt \in Nat
        BY <2>1, <2>6
      <3> QED BY <2>1, <2>2, <2>4, <2>6, <3>1, NeverIs DEF SavedBrackets
    <2> QED BY <2>5, <2>6
  <1> QED BY <1>1, FinalsInvariant, PTL

-----------------------------------------------------------------------------
(* Caches: answers that are recent *)

\* Version v was current at a moment t or later.
CurrentSince(v, t) ==
  v \in 0..version /\ t \in 0..clock /\ (v < version => superseded[v + 1] >= t)

CacheRequests ==
  {Waiting}
   \cup [op : {"hit", "fetch", "compute"}, start : Nat]
   \cup [op : {"data", "fetched_at"}, start : Nat, read : Nat]
   \cup [op : {"panel"}, generation : Nat]
   \cup [op : {"body"}, generation : Nat, read : Nat]
   \cup [op : {"look-up", "figures"}, cache : KeyedCaches, key : 0..1, start : Nat]
   \cup [op : {"keep"}, of : [key : 0..1, at : Nat, value : Nat]]

\* What a request has read was so when it read it, and a body that may still be kept
\* holds what cleared the panel.
ReadsHold(q) ==
  /\ q.op \in {"hit", "fetch", "compute", "look-up", "figures"} => q.start \in 0..clock
  /\ q.op \in {"data", "fetched_at"} => CurrentSince(q.read, q.start)
  /\ q.op \in {"panel", "body"} => q.generation <= panel.generation
  /\ q.op = "body" /\ q.generation = panel.generation => \A v \in cleared : q.read >= v
  /\ q.op = "keep" => CurrentSince(q.of.value, q.of.at)

TablesTyped ==
  /\ clock \in Nat /\ version \in Nat
  /\ superseded \in Seq(Nat) /\ Len(superseded) = version
  /\ busts \in Seq(Seq({"data", "fetched_at", "panel"})) /\ Len(busts) = version
  /\ cleared \subseteq 1..version
CachesTyped ==
  /\ schedule \in [data : Nat \cup {Unset}, start : Nat \cup {Unset}, at : Nat \cup {Unset}]
  /\ panel \in [body : Nat \cup {Unset}, at : Nat \cup {Unset}, generation : Nat]
  /\ keyed \in [KeyedCaches -> [key : (0..1) \cup {Unset}, at : Nat \cup {Unset},
                                value : Nat \cup {Unset}]]
RequestsSound ==
  cacheReq \in [CacheClients -> CacheRequests] /\ \A r \in CacheClients : ReadsHold(cacheReq[r])
ScheduleHolds == schedule.data # Unset => CurrentSince(schedule.data, schedule.start)
KeyedHold ==
  \A c \in KeyedCaches : keyed[c].key # Unset => CurrentSince(keyed[c].value, keyed[c].at)

CachesInv ==
  TablesTyped /\ CachesTyped /\ RequestsSound /\ ScheduleHolds /\ KeyedHold /\ PanelHoldsChanges

\* Time and versions only go on: what was current stays so.
LEMMA CurrentKept ==
  ASSUME TablesTyped, NEW v, NEW t, CurrentSince(v, t),
         \/ /\ clock' \in Nat /\ clock' >= clock
            /\ version' = version /\ superseded' = superseded
         \/ /\ clock' = clock /\ version' = version + 1
            /\ superseded' = Append(superseded, clock)
  PROVE  CurrentSince(v, t)'
  <1>0. /\ clock \in Nat /\ version \in Nat /\ v \in Nat /\ v <= version /\ t \in Nat
        /\ t <= clock /\ superseded \in Seq(Nat) /\ Len(superseded) = version
    BY DEF TablesTyped, CurrentSince
  <1>1. clock' \in Nat /\ clock <= clock' /\ version' \in Nat /\ version <= version'
    BY <1>0
  <1>2. v < version' => superseded'[v + 1] >= t
    <2>1. CASE version' = version /\ superseded' = superseded
      BY <2>1 DEF CurrentSince
    <2>2. CASE version' = version + 1 /\ superseded' = Append(superseded, clock)
      <3>1. CASE v = version
        BY <1>0, <2>2, <3>1
      <3>2. CASE v < version
        <4>1. superseded'[v + 1] = superseded[v + 1]
          BY <1>0, <2>2, <3>2
        <4> QED BY <4>1, <3>2 DEF CurrentSince
      <3> QED BY <1>0, <3>1, <3>2
    <2> QED BY <2>1, <2>2
  <1> QED BY <1>0, <1>1, <1>2 DEF CurrentSince

\* A step of a request leaves what the others read.
LEMMA RequestMoves ==
  ASSUME CachesInv, NEW r \in CacheClients, NEW q \in CacheRequests, Steps(r, q), TimeStands,
         panel'.generation = panel.generation, ReadsHold(q)
  PROVE  TablesTyped' /\ RequestsSound'
  <1>0. /\ cacheReq \in [CacheClients -> CacheRequests]
        /\ \A s \in CacheClients : ReadsHold(cacheReq[s])
    BY DEF CachesInv, RequestsSound
  <1>1. TablesTyped'
    BY DEF CachesInv, TablesTyped, TimeStands
  <1>2. ASSUME NEW p, ReadsHold(p) PROVE ReadsHold(p)'
    BY <1>2 DEF ReadsHold, CurrentSince, TimeStands
  <1>3. cacheReq' = [cacheReq EXCEPT ![r] = q]
    BY DEF Steps
  <1>4. ASSUME NEW s \in CacheClients PROVE ReadsHold(cacheReq[s])'
    <2>1. cacheReq'[s] = q \/ cacheReq'[s] = cacheReq[s]
      BY <1>0, <1>3
    <2>2. PICK p : p = cacheReq'[s]
      OBVIOUS
    <2>3. ReadsHold(p)
      BY <1>0, <2>1, <2>2
    <2>4. ReadsHold(p)'
      BY <1>2, <2>3
    <2> QED BY <2>2, <2>4 DEF ReadsHold, CurrentSince
  <1> QED BY <1>0, <1>1, <1>3, <1>4 DEF RequestsSound

\* The schedule is stored by requests that hold what they read.
LEMMA ScheduleStepsKeep ==
  ASSUME CachesInv, NEW r \in CacheClients, NEW reached \in BOOLEAN,
         \/ GetSchedule(r) \/ ScheduleHit(r) \/ ReadSchedule(r) \/ KeepSchedule(r)
         \/ FetchSchedule(r, reached)
  PROVE  CachesInv'
  <1>0. /\ cacheReq[r] \in CacheRequests /\ ReadsHold(cacheReq[r]) /\ ReadsHold(Waiting)
        /\ Waiting \in CacheRequests /\ clock \in Nat /\ version \in Nat
    BY DEF CachesInv, RequestsSound, ReadsHold, Waiting, CacheRequests, TablesTyped
  <1>1. PICK q \in CacheRequests : Steps(r, q) /\ ReadsHold(q)
    <2>1. CASE GetSchedule(r)
      <3> PICK q : q = [op |-> IF schedule.data # Unset /\ Fresh(schedule.at) THEN "hit"
                              ELSE "fetch", start |-> clock]
        OBVIOUS
      <3>1. q \in CacheRequests /\ ReadsHold(q)
        BY <1>0 DEF CacheRequests, ReadsHold
      <3> QED BY <2>1, <3>1 DEF GetSchedule
    <2>2. CASE ScheduleHit(r)
      BY <2>2, <1>0 DEF ScheduleHit
    <2>3. CASE FetchSchedule(r, reached)
      <3> PICK q : q = IF ~reached /\ schedule.data # Unset THEN Waiting
                       ELSE [cacheReq[r] EXCEPT !.op = "compute"]
        OBVIOUS
      <3>1. cacheReq[r] \in [op : {"hit", "fetch", "compute"}, start : Nat]
            /\ cacheReq[r].start \in 0..clock
        BY <2>3, <1>0 DEF FetchSchedule, CacheRequests, ReadsHold, Waiting
      <3>2. q \in CacheRequests /\ ReadsHold(q)
        BY <1>0, <3>1 DEF CacheRequests, ReadsHold
      <3> QED BY <2>3, <3>2 DEF FetchSchedule
    <2>4. CASE ReadSchedule(r)
      <3> PICK q : q = [op |-> "data", start |-> cacheReq[r].start, read |-> version]
        OBVIOUS
      <3>1. cacheReq[r].start \in 0..clock
        BY <2>4, <1>0 DEF ReadSchedule, ReadsHold
      <3>2. q \in CacheRequests /\ ReadsHold(q)
        BY <1>0, <3>1 DEF CacheRequests, ReadsHold, CurrentSince
      <3> QED BY <2>4, <3>2 DEF ReadSchedule
    <2>5. CASE KeepSchedule(r)
      <3> PICK q : q = [cacheReq[r] EXCEPT !.op = "fetched_at"]
        OBVIOUS
      <3>1. CASE cacheReq[r].op = "data"
        <4>1. cacheReq[r] \in [op : {"data", "fetched_at"}, start : Nat, read : Nat]
          BY <3>1, <1>0 DEF CacheRequests, Waiting
        <4>2. q \in CacheRequests /\ ReadsHold(q)
          BY <3>1, <4>1, <1>0 DEF CacheRequests, ReadsHold
        <4> QED BY <2>5, <3>1, <4>2 DEF KeepSchedule
      <3>2. CASE cacheReq[r].op # "data"
        BY <2>5, <3>2, <1>0 DEF KeepSchedule
      <3> QED BY <3>1, <3>2
    <2> QED BY <2>1, <2>2, <2>3, <2>4, <2>5
  <1>2. TimeStands /\ UNCHANGED <<panel, keyed>>
    BY DEF GetSchedule, ScheduleHit, FetchSchedule, ReadSchedule, KeepSchedule, storedVars
  <1>3. TablesTyped' /\ RequestsSound'
    BY <1>1, <1>2, RequestMoves
  <1>4. CachesTyped' /\ ScheduleHolds'
    <2>1. CASE UNCHANGED schedule
      BY <2>1, <1>2 DEF CachesInv, CachesTyped, ScheduleHolds, CurrentSince, TimeStands
    <2>2. CASE KeepSchedule(r) /\ cacheReq[r].op = "data"
      <3>1. /\ schedule' = [schedule EXCEPT !.data = cacheReq[r].read, !.start = cacheReq[r].start]
            /\ CurrentSince(cacheReq[r].read, cacheReq[r].start)
        BY <2>2, <1>0 DEF KeepSchedule, FetchedAt, ReadsHold
      <3> PICK v, t : v = cacheReq[r].read /\ t = cacheReq[r].start
        OBVIOUS
      <3>2. schedule' = [data |-> v, start |-> t, at |-> schedule.at]
        BY <3>1 DEF CachesInv, CachesTyped
      <3>3. v \in Nat /\ t \in Nat /\ schedule.at \in Nat \cup {Unset}
        BY <3>1, <1>0 DEF CachesInv, CachesTyped, CurrentSince
      <3>4. CachesTyped'
        BY <3>2, <3>3, <1>2 DEF CachesInv, CachesTyped
      <3> QED BY <3>1, <3>2, <3>4, <1>2 DEF ScheduleHolds, CurrentSince, TimeStands
    <2>3. CASE KeepSchedule(r) /\ cacheReq[r].op # "data"
      <3>1. /\ schedule' = [schedule EXCEPT !.at = cacheReq[r].start]
            /\ CurrentSince(cacheReq[r].read, cacheReq[r].start)
        BY <2>3, <1>0 DEF KeepSchedule, FetchedAt, ReadsHold
      <3>2. schedule'.data = schedule.data /\ schedule'.start = schedule.start /\ CachesTyped'
        BY <3>1, <1>0, <1>2 DEF CachesInv, CachesTyped, CurrentSince
      <3> QED BY <3>2, <1>2 DEF CachesInv, ScheduleHolds, CurrentSince, TimeStands
    <2> QED BY <2>1, <2>2, <2>3 DEF GetSchedule, ScheduleHit, FetchSchedule, ReadSchedule,
                                    storedVars
  <1>5. KeyedHold' /\ PanelHoldsChanges'
    BY <1>2 DEF CachesInv, KeyedHold, PanelHoldsChanges, CurrentSince, TimeStands
  <1> QED BY <1>3, <1>4, <1>5 DEF CachesInv

\* A body is kept if nothing has cleared the panel since before it was read.
LEMMA PanelStepsKeep ==
  ASSUME CachesInv, NEW r \in CacheClients, GetPanel(r) \/ ReadPanel(r) \/ KeepPanel(r)
  PROVE  CachesInv'
  <1>0. /\ cacheReq[r] \in CacheRequests /\ ReadsHold(cacheReq[r]) /\ ReadsHold(Waiting)
        /\ Waiting \in CacheRequests /\ clock \in Nat /\ version \in Nat
        /\ panel.generation \in Nat /\ cleared \subseteq 1..version
        /\ panel \in [body : Nat \cup {Unset}, at : Nat \cup {Unset}, generation : Nat]
    BY DEF CachesInv, RequestsSound, ReadsHold, Waiting, CacheRequests, TablesTyped, CachesTyped
  <1>1. PICK q \in CacheRequests : Steps(r, q) /\ ReadsHold(q)
    <2>1. CASE GetPanel(r)
      <3> PICK q : q = [op |-> "panel", generation |-> panel.generation]
        OBVIOUS
      <3>1. q \in CacheRequests /\ ReadsHold(q)
        BY <1>0 DEF CacheRequests, ReadsHold
      <3> QED BY <2>1, <3>1 DEF GetPanel
    <2>2. CASE ReadPanel(r)
      <3> PICK q : q = [op |-> "body", generation |-> cacheReq[r].generation, read |-> version]
        OBVIOUS
      <3>1. cacheReq[r].generation \in Nat /\ cacheReq[r].generation <= panel.generation
        BY <2>2, <1>0 DEF ReadPanel, ReadsHold, CacheRequests, Waiting
      <3>2. q \in CacheRequests /\ ReadsHold(q)
        BY <1>0, <3>1 DEF CacheRequests, ReadsHold
      <3> QED BY <2>2, <3>2 DEF ReadPanel
    <2>3. CASE KeepPanel(r)
      BY <2>3, <1>0 DEF KeepPanel
    <2> QED BY <2>1, <2>2, <2>3
  <1>2. TimeStands /\ UNCHANGED <<schedule, keyed>>
    BY DEF GetPanel, ReadPanel, KeepPanel, storedVars
  <1>3. CachesTyped' /\ PanelHoldsChanges' /\ panel'.generation = panel.generation
    <2>1. CASE UNCHANGED panel
      BY <2>1, <1>2 DEF CachesInv, CachesTyped, PanelHoldsChanges, TimeStands
    <2>2. CASE KeepPanel(r) /\ MayKeep(cacheReq[r])
      <3> PICK v : v = cacheReq[r].read
        OBVIOUS
      <3>1. /\ v \in Nat /\ \A w \in cleared : v >= w
        BY <2>2, <1>0 DEF KeepPanel, MayKeep, ReadsHold, CacheRequests, Waiting
      <3>2. panel' = [body |-> v, at |-> clock, generation |-> panel.generation]
        BY <2>2, <1>0 DEF KeepPanel
      <3> QED BY <3>1, <3>2, <1>0, <1>2 DEF CachesInv, CachesTyped, PanelHoldsChanges, TimeStands
    <2> QED BY <2>1, <2>2 DEF GetPanel, ReadPanel, KeepPanel, storedVars
  <1>4. TablesTyped' /\ RequestsSound'
    BY <1>1, <1>2, <1>3, RequestMoves
  <1>5. ScheduleHolds' /\ KeyedHold'
    BY <1>2 DEF CachesInv, ScheduleHolds, KeyedHold, CurrentSince, TimeStands
  <1> QED BY <1>3, <1>4, <1>5 DEF CachesInv

\* Figures are kept with the time of their fingerprint, taken before they are read.
LEMMA KeyedStepsKeep ==
  ASSUME CachesInv, NEW r \in CacheClients, NEW c \in KeyedCaches,
         GetKeyed(r, c) \/ LookUp(r) \/ ReadFigures(r) \/ KeepTeams(r)
  PROVE  CachesInv'
  <1> DEFINE Kept == [key : 0..1, at : Nat, value : Nat]
  <1>0. /\ cacheReq[r] \in CacheRequests /\ ReadsHold(cacheReq[r]) /\ ReadsHold(Waiting)
        /\ Waiting \in CacheRequests /\ clock \in Nat /\ version \in Nat
        /\ keyed \in [KeyedCaches -> [key : (0..1) \cup {Unset}, at : Nat \cup {Unset},
                                       value : Nat \cup {Unset}]]
    BY DEF CachesInv, RequestsSound, ReadsHold, Waiting, CacheRequests, TablesTyped, CachesTyped
  <1>1. ASSUME cacheReq[r].op \in {"look-up", "figures"}
        PROVE  /\ cacheReq[r] \in [op : {"look-up", "figures"}, cache : KeyedCaches, key : 0..1,
                                   start : Nat]
               /\ cacheReq[r].start \in 0..clock
    BY <1>1, <1>0 DEF CacheRequests, ReadsHold, Waiting
  <1>2. ASSUME ReadFigures(r)
        PROVE  \E of \in Kept :
                 /\ of = [key |-> cacheReq[r].key, at |-> cacheReq[r].start, value |-> version]
                 /\ CurrentSince(of.value, of.at)
    <2>1. /\ cacheReq[r].key \in 0..1 /\ cacheReq[r].start \in Nat
          /\ CurrentSince(version, cacheReq[r].start)
      BY <1>0, <1>1, <1>2 DEF ReadFigures, CurrentSince
    <2> PICK of : of = [key |-> cacheReq[r].key, at |-> cacheReq[r].start, value |-> version]
      OBVIOUS
    <2>2. of \in Kept /\ CurrentSince(of.value, of.at)
      BY <2>1, <1>0
    <2> QED BY <2>2
  <1>3. PICK q \in CacheRequests : Steps(r, q) /\ ReadsHold(q)
    <2>1. CASE GetKeyed(r, c)
      <3> PICK q : q = [op |-> "look-up", cache |-> c, key |-> Fingerprint, start |-> clock]
        OBVIOUS
      <3>1. q \in CacheRequests /\ ReadsHold(q)
        BY <1>0 DEF CacheRequests, ReadsHold, Fingerprint
      <3> QED BY <2>1, <3>1 DEF GetKeyed
    <2>2. CASE LookUp(r)
      <3> PICK q : q = [cacheReq[r] EXCEPT !.op = "figures"]
        OBVIOUS
      <3>1. q \in CacheRequests /\ ReadsHold(q)
        BY <2>2, <1>0, <1>1 DEF LookUp, CacheRequests, ReadsHold
      <3> QED BY <2>2, <3>1, <1>0 DEF LookUp
    <2>3. CASE ReadFigures(r)
      <3> PICK of \in Kept :
            /\ of = [key |-> cacheReq[r].key, at |-> cacheReq[r].start, value |-> version]
            /\ CurrentSince(of.value, of.at)
        BY <2>3, <1>2
      <3> PICK q : q = [op |-> "keep", of |-> of]
        OBVIOUS
      <3>1. q \in CacheRequests /\ ReadsHold(q)
        BY DEF CacheRequests, ReadsHold
      <3>2. Steps(r, Waiting) \/ Steps(r, q)
        BY <2>3 DEF ReadFigures
      <3> QED BY <1>0, <3>1, <3>2
    <2>4. CASE KeepTeams(r)
      BY <2>4, <1>0 DEF KeepTeams
    <2> QED BY <2>1, <2>2, <2>3, <2>4
  <1>4. TimeStands /\ UNCHANGED <<schedule, panel>>
    BY DEF GetKeyed, LookUp, ReadFigures, KeepTeams, storedVars
  <1>5. \/ UNCHANGED keyed
        \/ \E d \in KeyedCaches, of \in Kept :
             keyed' = [keyed EXCEPT ![d] = of] /\ CurrentSince(of.value, of.at)
    <2>1. CASE ReadFigures(r)
      BY <2>1, <1>2 DEF ReadFigures, KeyedCaches
    <2>2. CASE KeepTeams(r)
      <3>1. cacheReq[r].of \in Kept /\ CurrentSince(cacheReq[r].of.value, cacheReq[r].of.at)
        BY <2>2, <1>0 DEF KeepTeams, CacheRequests, ReadsHold, Waiting
      <3> QED BY <2>2, <3>1 DEF KeepTeams, KeyedCaches
    <2> QED BY <2>1, <2>2 DEF GetKeyed, LookUp, storedVars
  <1>6. CachesTyped' /\ KeyedHold'
    <2>1. CASE UNCHANGED keyed
      BY <2>1, <1>4 DEF CachesInv, CachesTyped, KeyedHold, CurrentSince, TimeStands
    <2>2. ASSUME NEW d \in KeyedCaches, NEW of \in Kept,
                 keyed' = [keyed EXCEPT ![d] = of], CurrentSince(of.value, of.at)
          PROVE  CachesTyped' /\ KeyedHold'
      <3>1. CachesTyped'
        BY <2>2, <1>0, <1>4 DEF CachesInv, CachesTyped
      <3>2. ASSUME NEW e \in KeyedCaches, keyed'[e].key # Unset
            PROVE  CurrentSince(keyed[e].value, keyed[e].at)'
        BY <2>2, <3>2, <1>0, <1>4 DEF CachesInv, KeyedHold, CurrentSince, TimeStands
      <3> QED BY <3>1, <3>2 DEF KeyedHold
    <2> QED BY <1>5, <2>1, <2>2
  <1>7. TablesTyped' /\ RequestsSound'
    BY <1>3, <1>4, RequestMoves
  <1>8. ScheduleHolds' /\ PanelHoldsChanges'
    BY <1>4 DEF CachesInv, ScheduleHolds, PanelHoldsChanges, CurrentSince, TimeStands
  <1> QED BY <1>6, <1>7, <1>8 DEF CachesInv

\* Changes and what they clear: a clearing leaves no request that may still keep.
LEMMA TablesStepsKeep ==
  ASSUME CachesInv, NEW kind \in {"admin", "ingest", "other"},
         PassTime \/ Change(kind) \/ \E v \in DOMAIN busts : Bust(v)
  PROVE  CachesInv'
  <1>0. TablesTyped /\ CachesTyped /\ RequestsSound /\ ScheduleHolds /\ KeyedHold
        /\ PanelHoldsChanges
    BY DEF CachesInv
  <1>1. /\ clock \in Nat /\ version \in Nat /\ superseded \in Seq(Nat) /\ Len(superseded) = version
        /\ busts \in Seq(Seq({"data", "fetched_at", "panel"})) /\ Len(busts) = version
        /\ cleared \subseteq 1..version
        /\ cacheReq \in [CacheClients -> CacheRequests]
        /\ panel \in [body : Nat \cup {Unset}, at : Nat \cup {Unset}, generation : Nat]
        /\ schedule \in [data : Nat \cup {Unset}, start : Nat \cup {Unset}, at : Nat \cup {Unset}]
    BY <1>0 DEF TablesTyped, RequestsSound, CachesTyped
  <1>2. CASE PassTime \/ Change(kind)
    <2>1. UNCHANGED <<cleared, schedule, panel, keyed, cacheReq>>
      BY <1>2 DEF PassTime, Change, storedVars
    <2>2. \/ /\ clock' \in Nat /\ clock' >= clock
             /\ version' = version /\ superseded' = superseded
          \/ /\ clock' = clock /\ version' = version + 1
             /\ superseded' = Append(superseded, clock)
      BY <1>1, <1>2 DEF PassTime, Change
    <2>3. ASSUME NEW u, NEW t, CurrentSince(u, t) PROVE CurrentSince(u, t)'
      BY <2>2, <2>3, <1>0, CurrentKept
    <2>4. TablesTyped'
      <3>1. ClearedBy[kind] \in {<<"panel">>, <<"data", "fetched_at", "panel">>, <<>>}
        BY DEF ClearedBy
      <3>2. ClearedBy[kind] \in Seq({"data", "fetched_at", "panel"})
        <4>1. <<>> \in Seq({"data", "fetched_at", "panel"})
          OBVIOUS
        <4>2. <<"panel">> \in Seq({"data", "fetched_at", "panel"})
          OBVIOUS
        <4>3. <<"data", "fetched_at", "panel">> \in Seq({"data", "fetched_at", "panel"})
          OBVIOUS
        <4> QED BY <3>1, <4>1, <4>2, <4>3, Zenon
      <3> PICK S : S = Seq({"data", "fetched_at", "panel"})
        OBVIOUS
      <3>3. busts' \in Seq(S) /\ Len(busts') = version'
        <4>1. ASSUME NEW c \in S PROVE Append(busts, c) \in Seq(S) /\ Len(Append(busts, c)) = Len(busts) + 1
          BY <1>1
        <4> QED BY <1>1, <1>2, <3>2, <4>1 DEF PassTime, Change
      <3>4. superseded' \in Seq(Nat) /\ Len(superseded') = version'
        <4>1. CASE version' = version /\ superseded' = superseded
          BY <1>1, <4>1
        <4>2. CASE version' = version + 1 /\ superseded' = Append(superseded, clock)
          BY <1>1, <4>2
        <4> QED BY <2>2, <4>1, <4>2
      <3>5. clock' \in Nat /\ version' \in Nat /\ cleared' \subseteq 1..version'
        BY <1>1, <1>2, <2>1 DEF PassTime, Change
      <3> QED BY <3>3, <3>4, <3>5 DEF TablesTyped
    <2>5. ASSUME NEW r \in CacheClients PROVE ReadsHold(cacheReq[r])'
      <3>1. ReadsHold(cacheReq[r]) /\ clock <= clock' /\ clock' \in Nat
        BY <1>0, <1>1, <2>2 DEF RequestsSound
      <3> QED BY <3>1, <1>1, <2>1, <2>3 DEF ReadsHold
    <2>6. RequestsSound' /\ ScheduleHolds' /\ KeyedHold'
      BY <1>0, <1>1, <2>1, <2>3, <2>5 DEF RequestsSound, ScheduleHolds, KeyedHold
    <2>7. CachesTyped' /\ PanelHoldsChanges'
      BY <1>0, <2>1 DEF CachesTyped, PanelHoldsChanges
    <2> QED BY <2>4, <2>6, <2>7 DEF CachesInv
  <1>3. CASE \E v \in DOMAIN busts : Bust(v)
    <2> PICK v \in DOMAIN busts : Bust(v)
      BY <1>3
    <2>1. UNCHANGED <<clock, version, superseded, keyed, cacheReq>> /\ v \in 1..version
      BY <1>1 DEF Bust
    <2>2. /\ busts' \in Seq(Seq({"data", "fetched_at", "panel"})) /\ Len(busts') = version
      <3>1. busts[v] \in Seq({"data", "fetched_at", "panel"}) /\ busts[v] # <<>>
        BY <1>1 DEF Bust
      <3>2. Tail(busts[v]) \in Seq({"data", "fetched_at", "panel"})
        BY <3>1
      <3> QED BY <1>1, <3>2 DEF Bust
    <2>3. \/ UNCHANGED <<panel, cleared>> /\ schedule' \in {[schedule EXCEPT !.data = Unset],
                                                         [schedule EXCEPT !.at = Unset]}
          \/ /\ panel' = [panel EXCEPT !.body = Unset, !.generation = @ + 1]
             /\ cleared' = cleared \cup {v} /\ UNCHANGED schedule
      BY DEF Bust
    <2>4. TablesTyped'
      BY <1>1, <2>1, <2>2, <2>3 DEF TablesTyped
    <2>5. /\ CachesTyped' /\ PanelHoldsChanges'
          /\ panel'.generation \in Nat /\ panel'.generation >= panel.generation
          /\ panel'.generation = panel.generation => cleared' = cleared
      <3>1. CASE UNCHANGED <<panel, cleared>>
        <4>1. schedule' \in [data : Nat \cup {Unset}, start : Nat \cup {Unset},
                             at : Nat \cup {Unset}]
          <5>1. ASSUME NEW s \in {[schedule EXCEPT !.data = Unset], [schedule EXCEPT !.at = Unset]}
                PROVE  s \in [data : Nat \cup {Unset}, start : Nat \cup {Unset},
                              at : Nat \cup {Unset}]
            BY <1>1
          <5> QED BY <1>1, <2>3, <5>1, Zenon
        <4> QED BY <1>0, <1>1, <2>1, <3>1, <4>1 DEF CachesTyped, PanelHoldsChanges
      <3>2. CASE panel' = [panel EXCEPT !.body = Unset, !.generation = @ + 1] /\ UNCHANGED schedule
        <4>1. panel' = [body |-> Unset, at |-> panel.at, generation |-> panel.generation + 1]
          BY <1>1, <3>2
        <4> QED BY <1>0, <1>1, <2>1, <3>2, <4>1 DEF CachesTyped, PanelHoldsChanges
      <3> QED BY <2>3, <3>1, <3>2
    <2>6. ASSUME NEW r \in CacheClients PROVE ReadsHold(cacheReq[r])'
      <3>1. ReadsHold(cacheReq[r]) /\ cacheReq[r] \in CacheRequests
        BY <1>0, <1>1 DEF RequestsSound
      <3>2. cacheReq[r].op \in {"panel", "body"} => cacheReq[r].generation \in Nat
        BY <3>1 DEF CacheRequests, Waiting
      <3> PICK g, h : g = panel.generation /\ h = panel'.generation
        OBVIOUS
      <3>3. g \in Nat /\ h \in Nat /\ g <= h /\ (g = h => cleared' = cleared)
        BY <1>1, <2>5
      <3> PICK q : q = cacheReq[r]
        OBVIOUS
      <3>4. cacheReq'[r] = q /\ ReadsHold(q)
        BY <2>1, <3>1
      <3>5. q.op \in {"panel", "body"} => q.generation <= h
        BY <3>2, <3>3, <3>4 DEF ReadsHold
      <3>6. q.op = "body" /\ q.generation = h => \A w \in cleared' : q.read >= w
        BY <3>2, <3>3, <3>4 DEF ReadsHold
      <3> QED BY <3>4, <3>5, <3>6, <2>1 DEF ReadsHold, CurrentSince
    <2>7. RequestsSound'
      BY <1>1, <2>1, <2>6 DEF RequestsSound
    <2>8. ScheduleHolds' /\ KeyedHold'
      BY <1>0, <1>1, <2>1, <2>3 DEF ScheduleHolds, KeyedHold, CurrentSince
    <2> QED BY <2>4, <2>5, <2>7, <2>8 DEF CachesInv
  <1> QED BY <1>2, <1>3

\* An answer that was current less than a lifetime before it is given is recent.
LEMMA CurrentIsRecent ==
  ASSUME TablesTyped, NEW v, NEW t, CurrentSince(v, t), NEW start \in Nat, start - t < CacheTTL
  PROVE  Recent(v, start)
  <1>1. CacheTTL \in Nat /\ t \in Nat /\ v \in Nat
    BY CachesAssumption DEF CachesAssumption, CurrentSince, TablesTyped
  <1>2. v < version => superseded[v + 1] \in Nat
    BY <1>1 DEF TablesTyped
  <1> QED BY <1>1, <1>2 DEF Recent, CurrentSince

\* Each step of the tables and of the three kinds of caches.
LEMMA CachesNextKept ==
  ASSUME CachesInv, [CachesNext]_cacheVars
  PROVE  CachesInv'
  <1>1. CASE UNCHANGED cacheVars
    BY <1>1 DEF cacheVars, CachesInv, TablesTyped, CachesTyped, RequestsSound, ScheduleHolds,
                KeyedHold, PanelHoldsChanges, ReadsHold, CurrentSince
  <1>2. CASE \E r \in CacheClients, reached \in BOOLEAN :
               \/ GetSchedule(r) \/ ScheduleHit(r) \/ ReadSchedule(r) \/ KeepSchedule(r)
               \/ FetchSchedule(r, reached)
    BY <1>2, ScheduleStepsKeep
  <1>3. CASE \E r \in CacheClients : GetPanel(r) \/ ReadPanel(r) \/ KeepPanel(r)
    BY <1>3, PanelStepsKeep
  <1>4. CASE \E r \in CacheClients, c \in KeyedCaches :
               GetKeyed(r, c) \/ LookUp(r) \/ ReadFigures(r) \/ KeepTeams(r)
    BY <1>4, KeyedStepsKeep
  <1>5. CASE \E kind \in {"admin", "ingest", "other"} : TablesChange({kind})
    BY <1>5, TablesStepsKeep DEF TablesChange
  <1> QED BY <1>1, <1>2, <1>3, <1>4, <1>5
       DEF CachesNext, ScheduleCacheNext, PanelCacheNext, KeyedCachesNext, TablesChange, KeyedCaches

\* What requests read and caches keep was current when the time kept with it says, and a
\* body under the panel's generation holds every change that has cleared the panel.
THEOREM CachesInvariant == CachesSpec => []CachesInv
  <1>1. CachesInit => CachesInv
    BY DEF CachesInit, CachesInv, TablesTyped, CachesTyped, RequestsSound, ScheduleHolds,
           KeyedHold, PanelHoldsChanges, ReadsHold, CurrentSince, CacheRequests, Waiting, Empty,
           Unset, KeyedCaches
  <1> QED BY <1>1, CachesNextKept, PTL DEF CachesSpec

\* No cache hides a change for longer than its lifetime, and the panel's none that
\* cleared it.
THEOREM CachesSoundHold == CachesSpec => []CachesSound
  <1>1. CachesInv => CachesSound
    <2> SUFFICES ASSUME CachesInv, NEW r \in CacheClients
                 PROVE  /\ ScheduleAnswers(r) /\ StoredWhole(r) =>
                             Recent(schedule.data, cacheReq[r].start)
                        /\ KeyedAnswers(r) =>
                             Recent(keyed[cacheReq[r].cache].value, cacheReq[r].start)
      BY DEF CachesSound, AnswersRecent, CachesInv
    <2>1. TablesTyped /\ CacheTTL \in Nat
      BY CachesAssumption DEF CachesInv, CachesAssumption
    <2>2. cacheReq[r] \in CacheRequests
      BY DEF CachesInv, RequestsSound
    <2>3. ASSUME ScheduleAnswers(r), StoredWhole(r)
          PROVE  Recent(schedule.data, cacheReq[r].start)
      <3>1. cacheReq[r].start \in Nat
        BY <2>2, <2>3 DEF ScheduleAnswers, CacheRequests, Waiting
      <3>2. CurrentSince(schedule.data, schedule.start)
        BY <2>3 DEF ScheduleAnswers, CachesInv, ScheduleHolds
      <3>3. cacheReq[r].start - schedule.start < CacheTTL
        BY <2>3 DEF StoredWhole
      <3> PICK start \in Nat : start = cacheReq[r].start
        BY <3>1
      <3> PICK v, t : v = schedule.data /\ t = schedule.start
        OBVIOUS
      <3>4. Recent(v, start)
        BY <2>1, <3>2, <3>3, CurrentIsRecent
      <3> QED BY <3>4
    <2>4. ASSUME KeyedAnswers(r)
          PROVE  Recent(keyed[cacheReq[r].cache].value, cacheReq[r].start)
      <3>1. /\ cacheReq[r].start \in Nat /\ cacheReq[r].key # Unset
            /\ cacheReq[r].cache \in KeyedCaches
        BY <2>2, <2>4 DEF KeyedAnswers, CacheRequests, Waiting, Unset
      <3> PICK kept : kept = keyed[cacheReq[r].cache]
        OBVIOUS
      <3>2. CurrentSince(kept.value, kept.at) /\ cacheReq[r].start - kept.at < CacheTTL
        BY <2>4, <3>1 DEF KeyedAnswers, CachesInv, KeyedHold
      <3> PICK start \in Nat : start = cacheReq[r].start
        BY <3>1
      <3> PICK v, t : v = kept.value /\ t = kept.at
        OBVIOUS
      <3>3. Recent(v, start)
        BY <2>1, <3>2, CurrentIsRecent
      <3> QED BY <3>3
    <2> QED BY <2>3, <2>4
  <1> QED BY <1>1, CachesInvariant, PTL

-----------------------------------------------------------------------------
(* Ranks: nobody is passed over for ever *)

\* How many others there are that answer, and how many of them a batch has at the least.
Others == Cardinality(PoolIds) - 1 - Cardinality(Silent)
Each == BatchSize - Cardinality(Silent)

\* Those that answer and come before p.
OlderThan(p) == {q \in PoolIds \ Silent : OlderFirst(q, p)}

RanksTyped ==
  /\ tick \in Nat /\ inPool \subseteq PoolIds
  /\ rankAt \in [PoolIds -> Int] /\ \A p \in PoolIds : rankAt[p] <= tick
  /\ passes \in [PoolIds -> Nat]
  /\ batch \in [Runners -> [todo : Seq(PoolIds), passed : SUBSET PoolIds, clean : BOOLEAN]]

\* A player who was passed over has kept the rank of then.
PassedWait ==
  \A p \in PoolIds :
    passes[p] > 0 \/ (\E r \in Runners : p \in batch[r].passed) => rankAt[p] < tick

\* Each pass has taken a batch of those that answer from before p for good, and a batch
\* that is to pass p over takes those it has asked.
TurnsCounted(p, n, ahead, worker) ==
  /\ Cardinality(ahead) + n * Each <= Others
  /\ worker.clean /\ p \in worker.passed =>
       Cardinality(ahead \ ToSet(worker.todo)) + (n + 1) * Each <= Others

RanksInv ==
  /\ RanksTyped /\ PassedWait
  /\ \A p \in PoolIds \ Silent : TurnsCounted(p, passes[p], OlderThan(p), batch["worker"])

\* What the assumption on the pool and its silent players says of their numbers.
LEMMA OthersAre ==
  /\ IsFiniteSet(PoolIds) /\ IsFiniteSet(Silent) /\ Others \in Int /\ Each \in Nat \ {0}
  /\ Cardinality(Silent) \in Nat /\ BatchSize \in Nat /\ CooldownTicks \in Nat
  /\ PoolIds \subseteq Nat /\ Silent \subseteq PoolIds
  <1>1. IsFiniteSet(PoolIds) /\ Silent \subseteq PoolIds /\ Cardinality(Silent) < BatchSize
        /\ BatchSize \in Nat /\ CooldownTicks \in Nat /\ PoolIds \subseteq Nat
    BY EnrichmentAssumption DEF EnrichmentAssumption
  <1>2. IsFiniteSet(Silent) /\ Cardinality(Silent) \in Nat /\ Cardinality(PoolIds) \in Nat
    BY <1>1, FS_Subset, FS_CardinalityType
  <1> QED BY <1>1, <1>2 DEF Others, Each

\* No more come before p than there are others.
LEMMA AheadBound ==
  ASSUME NEW p \in PoolIds \ Silent, NEW ahead, ahead \subseteq (PoolIds \ Silent) \ {p}
  PROVE  IsFiniteSet(ahead) /\ Cardinality(ahead) \in Nat /\ Cardinality(ahead) <= Others
  <1> PICK answering : answering = PoolIds \ Silent
    OBVIOUS
  <1>1. /\ IsFiniteSet(answering)
        /\ Cardinality(answering) = Cardinality(PoolIds) - Cardinality(PoolIds \cap Silent)
    BY OthersAre, FS_Difference
  <1>2. PoolIds \cap Silent = Silent
    BY OthersAre
  <1>3. /\ IsFiniteSet(answering \ {p})
        /\ Cardinality(answering \ {p}) = Cardinality(answering) - 1
    BY <1>1, FS_RemoveElement
  <1>4. /\ IsFiniteSet(ahead) /\ Cardinality(ahead) <= Cardinality(answering \ {p})
    BY <1>3, FS_Subset
  <1>5. Cardinality(ahead) \in Nat /\ Cardinality(PoolIds) \in Nat
    BY <1>4, OthersAre, FS_CardinalityType
  <1> QED BY <1>1, <1>2, <1>3, <1>4, <1>5, OthersAre DEF Others

\* Who is due and not picked comes after a whole batch.
LEMMA BatchFull ==
  ASSUME RanksTyped, NEW p \in DueForRank \ Picked
  PROVE  /\ \A q \in Picked : OlderFirst(q, p)
         /\ IsFiniteSet(Picked) /\ Cardinality(Picked) >= BatchSize
  <1> DEFINE before == [q \in DueForRank |-> {o \in DueForRank : OlderFirst(o, q)}]
             rank == [q \in DueForRank |-> Cardinality(before[q])]
  <1>1. DueForRank \subseteq PoolIds /\ IsFiniteSet(DueForRank)
    BY OthersAre, FS_Subset DEF DueForRank, RanksTyped
  <1>2. \A q \in DueForRank : q \in Nat /\ rankAt[q] \in Int
    BY <1>1, OthersAre DEF RanksTyped
  <1>3. ASSUME NEW q \in DueForRank
        PROVE  /\ IsFiniteSet(before[q]) /\ rank[q] \in Nat
               /\ before[q] \subseteq DueForRank /\ (q \in Picked <=> rank[q] < BatchSize)
    <2>1. before[q] \subseteq DueForRank
      OBVIOUS
    <2>2. q \in Picked <=> rank[q] < BatchSize
      BY DEF Picked
    <2> HIDE DEF before
    <2> QED BY <1>1, <2>1, <2>2, FS_Subset, FS_CardinalityType
  <1>4. ASSUME NEW o \in DueForRank, NEW q \in DueForRank, OlderFirst(o, q)
        PROVE  rank[o] < rank[q]
    <2>1. before[o] \subseteq before[q] \ {o} /\ o \in before[q]
      BY <1>2, <1>4 DEF OlderFirst
    <2>2. /\ Cardinality(before[o]) <= Cardinality(before[q] \ {o})
          /\ Cardinality(before[q] \ {o}) = Cardinality(before[q]) - 1
      <3> HIDE DEF before
      <3> QED BY <1>3, <2>1, FS_Subset, FS_RemoveElement
    <2> QED BY <1>3, <2>2
  <1>5. ASSUME NEW o \in DueForRank, NEW q \in DueForRank, ~OlderFirst(o, q), o # q
        PROVE  OlderFirst(q, o)
    BY <1>2, <1>5 DEF OlderFirst
  <1> DEFINE rest == {q \in DueForRank : q \notin Picked}
             ranks == {rank[q] : q \in rest}
  <1>6. PICK first \in rest : \A q \in rest : rank[first] <= rank[q]
    <2>1. IsFiniteSet(rest) /\ rest # {}
      BY <1>1, FS_Subset
    <2>2. PICK r : r = [q \in rest |-> rank[q]]
      OBVIOUS
    <2>3. ranks = {r[q] : q \in rest} /\ r = [q \in rest |-> r[q]]
      BY <2>2
    <2>4. IsFiniteSet(ranks)
      <3> HIDE DEF rest, ranks
      <3> QED BY <2>1, <2>3, ValuesFinite
    <2>5. ranks # {} /\ \A y \in ranks : y \in Nat
      BY <1>3, <2>1
    <2>6. Min(ranks) \in ranks /\ \A y \in ranks : Min(ranks) <= y
      <3> HIDE DEF ranks
      <3> QED BY <2>4, <2>5, MinIs
    <2> QED BY <2>6
  <1>7. before[first] \subseteq Picked
    <2> SUFFICES ASSUME NEW o \in before[first], o \notin Picked PROVE FALSE
      OBVIOUS
    <2>1. o \in DueForRank /\ first \in DueForRank /\ OlderFirst(o, first)
      BY <1>6
    <2>2. rank[first] <= rank[o]
      <3> HIDE DEF rank
      <3> QED BY <1>6, <2>1
    <2>3. rank[o] \in Nat /\ rank[first] \in Nat
      BY <1>3, <2>1
    <2> HIDE DEF rank
    <2>4. rank[o] < rank[first]
      BY <1>4, <2>1
    <2> QED BY <2>2, <2>3, <2>4
  <1>8. Picked \subseteq DueForRank /\ IsFiniteSet(Picked)
    BY <1>1, FS_Subset DEF Picked
  <1>9. rank[first] <= Cardinality(Picked)
    <2> HIDE DEF before
    <2> QED BY <1>7, <1>8, FS_Subset
  <1>10. Cardinality(Picked) >= BatchSize
    <2> HIDE DEF rank, before
    <2> QED BY <1>3, <1>6, <1>8, <1>9, OthersAre, FS_CardinalityType
  <1>11. ASSUME NEW q \in Picked PROVE OlderFirst(q, p)
    <2>1. rank[q] < BatchSize /\ ~(rank[p] < BatchSize) /\ q # p /\ q \in DueForRank
      BY <1>3, <1>8
    <2>2. p \in DueForRank /\ rank[p] \in Nat /\ rank[q] \in Nat /\ BatchSize \in Nat
      BY <1>3, <2>1, OthersAre
    <2> HIDE DEF rank
    <2>3. rank[q] < rank[p]
      BY <2>1, <2>2
    <2>4. ~OlderFirst(p, q)
      BY <1>4, <2>1, <2>2, <2>3
    <2> QED BY <1>5, <2>1, <2>2, <2>4
  <1> QED BY <1>8, <1>10, <1>11

\* Who is not waiting has been passed over by nobody.
LEMMA TalliedFresh ==
  ASSUME NEW p \in PoolIds \ Silent, NEW ahead, ahead \subseteq (PoolIds \ Silent) \ {p},
         NEW worker, p \notin worker.passed
  PROVE  TurnsCounted(p, 0, ahead, worker)
  <1>1. 0 * Each = 0
    BY OthersAre
  <1>2. Cardinality(ahead) \in Nat /\ Cardinality(ahead) <= Others
    BY AheadBound
  <1> QED BY <1>1, <1>2, OthersAre DEF TurnsCounted

\* With fewer before p and left to ask the count stays.
LEMMA TalliedFewer ==
  ASSUME NEW p \in PoolIds \ Silent, NEW ahead, ahead \subseteq (PoolIds \ Silent) \ {p},
         NEW worker, NEW n \in Nat, TurnsCounted(p, n, ahead, worker),
         NEW fewer \in SUBSET ahead, NEW later,
         later.clean /\ p \in later.passed =>
           /\ worker.clean /\ p \in worker.passed
           /\ fewer \ ToSet(later.todo) \subseteq ahead \ ToSet(worker.todo)
  PROVE  TurnsCounted(p, n, fewer, later)
  <1>1. /\ IsFiniteSet(ahead) /\ Cardinality(ahead) \in Nat
        /\ Cardinality(fewer) \in Nat /\ Cardinality(fewer) <= Cardinality(ahead)
    BY AheadBound, FS_Subset, FS_CardinalityType
  <1>2. n * Each \in Int /\ (n + 1) * Each \in Int
    BY OthersAre
  <1>3. Cardinality(fewer) + n * Each <= Others
    BY <1>1, <1>2, OthersAre DEF TurnsCounted
  <1>4. ASSUME later.clean, p \in later.passed
        PROVE  Cardinality(fewer \ ToSet(later.todo)) + (n + 1) * Each <= Others
    <2> PICK old : old = ahead \ ToSet(worker.todo)
      OBVIOUS
    <2> PICK new : new = fewer \ ToSet(later.todo)
      OBVIOUS
    <2>1. new \subseteq old /\ Cardinality(old) + (n + 1) * Each <= Others /\ old \subseteq ahead
      BY <1>4 DEF TurnsCounted
    <2>2. /\ IsFiniteSet(old) /\ Cardinality(old) \in Nat
          /\ Cardinality(new) \in Nat /\ Cardinality(new) <= Cardinality(old)
      BY <1>1, <2>1, FS_Subset, FS_CardinalityType
    <2> QED BY <1>2, <2>1, <2>2, OthersAre
  <1> QED BY <1>3, <1>4 DEF TurnsCounted

\* A batch that is to pass p over takes at least Each of those before p that answer.
LEMMA TalliedBatch ==
  ASSUME RanksTyped, NEW p \in PoolIds \ Silent, p \in DueForRank \ Picked,
         Cardinality(OlderThan(p)) + passes[p] * Each <= Others
  PROVE  Cardinality(OlderThan(p) \ Picked) + (passes[p] + 1) * Each <= Others
  <1>1. /\ \A q \in Picked : OlderFirst(q, p)
        /\ IsFiniteSet(Picked) /\ Cardinality(Picked) >= BatchSize
    BY BatchFull
  <1>2. Picked \subseteq PoolIds
    BY DEF Picked, DueForRank, RanksTyped
  <1> PICK picked : picked = Picked
    OBVIOUS
  <1> PICK ahead : ahead = OlderThan(p)
    OBVIOUS
  <1>3. ahead \cap picked = picked \ Silent
    BY <1>1, <1>2 DEF OlderThan
  <1>4. ahead \subseteq (PoolIds \ Silent) \ {p}
    BY OthersAre DEF OlderThan, OlderFirst, RanksTyped
  <1>5. /\ Cardinality(picked \ Silent) = Cardinality(picked) - Cardinality(picked \cap Silent)
        /\ Cardinality(picked \cap Silent) <= Cardinality(Silent)
    BY <1>1, OthersAre, FS_Difference, FS_Subset
  <1>6. /\ IsFiniteSet(ahead) /\ Cardinality(ahead) \in Nat
        /\ Cardinality(ahead \ picked) = Cardinality(ahead) - Cardinality(ahead \cap picked)
    BY <1>4, AheadBound, FS_Difference
  <1>7. /\ Cardinality(picked) \in Nat /\ Cardinality(picked \cap Silent) \in Nat
    BY <1>1, OthersAre, FS_Subset, FS_CardinalityType
  <1>8. Cardinality(ahead \ picked) \in Int /\ Cardinality(ahead \ picked) <= Cardinality(ahead) - Each
    <2>1. Cardinality(ahead \ picked) = Cardinality(ahead) - Cardinality(picked \ Silent)
      BY <1>3, <1>6
    <2>2. Cardinality(picked) >= BatchSize
      BY <1>1
    <2> QED BY <1>5, <1>6, <1>7, <2>1, <2>2, OthersAre DEF Each
  <1>9. (passes[p] + 1) * Each = passes[p] * Each + Each /\ passes[p] * Each \in Int
    BY OthersAre DEF RanksTyped
  <1> QED BY <1>6, <1>8, <1>9, OthersAre

\* Who has no newer rank than before comes before no more players than before.
LEMMA AheadKept ==
  ASSUME RanksTyped, NEW p \in PoolIds, rankAt'[p] = rankAt[p], rankAt[p] < tick \/ rankAt' = rankAt,
         \A q \in PoolIds : rankAt'[q] \in {rankAt[q], tick}
  PROVE  /\ OlderThan(p)' \subseteq OlderThan(p)
         /\ \A q \in PoolIds : rankAt[p] < tick /\ rankAt'[q] = tick => q \notin OlderThan(p)'
  <1>1. \A q \in PoolIds : q \in Nat /\ rankAt[q] \in Int /\ rankAt'[q] \in Int
    BY OthersAre DEF RanksTyped
  <1> QED BY <1>1 DEF OlderThan, OlderFirst, RanksTyped

\* A rank that is stored takes its player out of the others' way; who leaves the pool
\* stops waiting.
LEMMA StoredRankKeeps ==
  ASSUME RanksInv, NEW h \in PoolIds, NEW batches, StopsWaiting(h, batches),
         batches \in [Runners -> [todo : Seq(PoolIds), passed : SUBSET PoolIds, clean : BOOLEAN]],
         \A r \in Runners : /\ batches[r].passed = batch[r].passed
                           /\ batches[r].clean = batch[r].clean,
         ToSet(batch["worker"].todo) \subseteq ToSet(batches["worker"].todo) \cup {h},
         \/ rankAt' = rankAt /\ batches = batch
         \/ rankAt' = [rankAt EXCEPT ![h] = tick],
         inPool' \subseteq PoolIds, tick' = tick
  PROVE  RanksInv'
  <1>0. /\ RanksTyped /\ PassedWait
        /\ \A p \in PoolIds \ Silent : TurnsCounted(p, passes[p], OlderThan(p), batch["worker"])
    BY DEF RanksInv
  <1>1. /\ tick \in Nat /\ rankAt \in [PoolIds -> Int] /\ passes \in [PoolIds -> Nat]
        /\ \A p \in PoolIds : rankAt[p] <= tick
    BY <1>0 DEF RanksTyped
  <1>2. /\ passes' = [passes EXCEPT ![h] = 0]
        /\ batch' = [r \in Runners |-> [batches[r] EXCEPT !.passed = @ \ {h}]]
    BY DEF StopsWaiting
  <1>3. ASSUME NEW r \in Runners
        PROVE  /\ batch'[r] \in [todo : Seq(PoolIds), passed : SUBSET PoolIds, clean : BOOLEAN]
               /\ batch'[r].passed = batch[r].passed \ {h} /\ batch'[r].clean = batch[r].clean
               /\ batch'[r].todo = batches[r].todo
    BY <1>2
  <1>4. RanksTyped'
    <2>1. batch' \in [Runners -> [todo : Seq(PoolIds), passed : SUBSET PoolIds, clean : BOOLEAN]]
      BY <1>2, <1>3
    <2>2. rankAt' \in [PoolIds -> Int] /\ passes' \in [PoolIds -> Nat]
      BY <1>1, <1>2
    <2>3. ASSUME NEW p \in PoolIds PROVE rankAt'[p] <= tick'
      <3>1. rankAt'[p] = rankAt[p] \/ rankAt'[p] = tick
        BY <1>1
      <3> QED BY <1>1, <3>1
    <2> QED BY <1>1, <2>1, <2>2, <2>3 DEF RanksTyped
  <1>5. ASSUME NEW p \in PoolIds, p # h
        PROVE  rankAt'[p] = rankAt[p] /\ passes'[p] = passes[p]
    BY <1>1, <1>2, <1>5
  <1>6. passes'[h] = 0 /\ \A r \in Runners : h \notin batch'[r].passed
    BY <1>1, <1>2, <1>3
  <1>7. PassedWait'
    <2> SUFFICES ASSUME NEW p \in PoolIds,
                        passes'[p] > 0 \/ \E r \in Runners : p \in batch'[r].passed
                 PROVE  rankAt'[p] < tick'
      BY DEF PassedWait
    <2>1. p # h
      BY <1>6
    <2>2. passes[p] > 0 \/ \E r \in Runners : p \in batch[r].passed
      BY <1>3, <1>5, <2>1
    <2> QED BY <1>0, <1>5, <2>1, <2>2 DEF PassedWait
  <1>8. ASSUME NEW p \in PoolIds \ Silent
        PROVE  TurnsCounted(p, passes[p], OlderThan(p), batch["worker"])'
    <2> PICK ahead : ahead = OlderThan(p)
      OBVIOUS
    <2> PICK fewer : fewer = OlderThan(p)'
      OBVIOUS
    <2> PICK worker : worker = batch["worker"]
      OBVIOUS
    <2> PICK later : later = batch'["worker"]
      OBVIOUS
    <2> PICK n \in Nat : n = passes[p]
      BY <1>1
    <2>1. ahead \subseteq (PoolIds \ Silent) \ {p} /\ fewer \subseteq (PoolIds \ Silent) \ {p}
      <3>1. p \in Nat /\ rankAt[p] \in Int /\ rankAt'[p] \in Int
        BY <1>1, <1>4, OthersAre DEF RanksTyped
      <3> QED BY <3>1 DEF OlderThan, OlderFirst
    <2>2. "worker" \in Runners
      BY DEF Runners
    <2>3. p \notin later.passed /\ passes'[p] = 0 => TurnsCounted(p, 0, fewer, later)
      BY <2>1, TalliedFresh
    <2>4. CASE p = h \/ ~(rankAt[p] < tick)
      <3>1. p \notin later.passed /\ passes'[p] = 0
        <4>1. CASE p = h
          BY <1>6, <2>2, <4>1
        <4>2. CASE p # h /\ ~(rankAt[p] < tick)
          <5>1. ~(passes[p] > 0) /\ p \notin batch["worker"].passed
            BY <1>0, <2>2, <4>2 DEF PassedWait
          <5> QED BY <1>1, <1>3, <1>5, <2>2, <4>2, <5>1
        <4> QED BY <2>4, <4>1, <4>2
      <3> QED BY <2>3, <3>1
    <2>5. CASE p # h /\ rankAt[p] < tick
      <3>1. fewer \subseteq ahead /\ (rankAt' = rankAt \/ h \notin fewer)
        <4>1. \A q \in PoolIds : rankAt'[q] \in {rankAt[q], tick}
          BY <1>1
        <4>2. /\ OlderThan(p)' \subseteq OlderThan(p)
              /\ \A q \in PoolIds : rankAt'[q] = tick => q \notin OlderThan(p)'
          BY <1>0, <1>5, <2>5, <4>1, AheadKept
        <4> QED BY <1>1, <4>2
      <3>2. later.clean = worker.clean /\ later.passed = worker.passed \ {h}
        BY <1>3, <2>2
      <3>3. fewer \ ToSet(later.todo) \subseteq ahead \ ToSet(worker.todo)
        <4>1. later.todo = batches["worker"].todo
          BY <1>3, <2>2
        <4>2. CASE h \notin fewer
          BY <3>1, <4>1, <4>2
        <4>3. CASE rankAt' = rankAt /\ batches = batch
          BY <3>1, <4>1, <4>3
        <4>4. CASE rankAt' = [rankAt EXCEPT ![h] = tick]
          <5>1. rankAt'[h] = tick
            BY <1>1, <4>4
          <5>2. h \notin fewer
            BY <1>0, <1>1, <1>5, <2>5, <5>1, AheadKept, <4>4
          <5> QED BY <3>1, <4>1, <5>2
        <4> QED BY <4>3, <4>4
      <3>4. TurnsCounted(p, n, ahead, worker)
        BY <1>0
      <3>5. TurnsCounted(p, n, fewer, later)
        BY <2>1, <3>1, <3>2, <3>3, <3>4, TalliedFewer
      <3> QED BY <1>5, <2>5, <3>5 DEF TurnsCounted
    <2> QED BY <2>4, <2>5
  <1> QED BY <1>4, <1>7, <1>8 DEF RanksInv

\* A list that is not empty has the elements of its tail and its head.
LEMMA HeadAndTail ==
  ASSUME NEW S, NEW s \in Seq(S), s # <<>>
  PROVE  /\ Head(s) \in S /\ Tail(s) \in Seq(S)
         /\ ToSet(s) \subseteq ToSet(Tail(s)) \cup {Head(s)}
  <1>1. Head(s) \in S /\ Tail(s) \in Seq(S) /\ Len(Tail(s)) = Len(s) - 1 /\ Len(s) \in Nat
    OBVIOUS
  <1>2. ASSUME NEW i \in 1..Len(s), i # 1 PROVE s[i] = Tail(s)[i - 1] /\ i - 1 \in 1..Len(Tail(s))
    BY <1>1, <1>2
  <1>3. DOMAIN s = 1..Len(s) /\ DOMAIN Tail(s) = 1..Len(Tail(s)) /\ s[1] = Head(s)
    BY <1>1
  <1>4. ASSUME NEW x \in ToSet(s), x # Head(s) PROVE x \in ToSet(Tail(s))
    <2>1. PICK i \in 1..Len(s) : x = s[i]
      BY <1>3 DEF ToSet
    <2>2. i # 1
      BY <1>3, <1>4, <2>1
    <2> QED BY <1>2, <1>3, <2>1, <2>2 DEF ToSet
  <1> QED BY <1>1, <1>4

\* Each step keeps who comes before whom, or stores a rank.
LEMMA RankNextKept ==
  ASSUME RanksInv, [RankNext]_rankVars
  PROVE  RanksInv'
  <1> DEFINE Batches == [todo : Seq(PoolIds), passed : SUBSET PoolIds, clean : BOOLEAN]
  <1>0. /\ RanksTyped /\ PassedWait
        /\ \A p \in PoolIds \ Silent : TurnsCounted(p, passes[p], OlderThan(p), batch["worker"])
    BY DEF RanksInv
  <1>1. /\ tick \in Nat /\ rankAt \in [PoolIds -> Int] /\ passes \in [PoolIds -> Nat]
        /\ \A p \in PoolIds : rankAt[p] <= tick
        /\ inPool \subseteq PoolIds /\ batch \in [Runners -> Batches]
    BY <1>0 DEF RanksTyped
  <1>2. Resting \in Batches /\ Resting.passed = {} /\ "worker" \in Runners
    BY DEF Resting, Runners
  \* Steps that store no rank: enough that the worker's batch is accounted for.
  <1>3. ASSUME rankAt' = rankAt, passes' = passes, inPool' = inPool, tick' \in Nat, tick' >= tick,
               batch' \in [Runners -> Batches],
               \A r \in Runners : batch'[r].passed \subseteq batch[r].passed
                                 \/ \A p \in batch'[r].passed : rankAt[p] < tick,
               \A p \in PoolIds \ Silent :
                 TurnsCounted(p, passes[p], OlderThan(p), batch'["worker"])
        PROVE  RanksInv'
    <2>1. RanksTyped'
      BY <1>1, <1>3 DEF RanksTyped
    <2>2. PassedWait'
      <3> SUFFICES ASSUME NEW p \in PoolIds,
                          passes'[p] > 0 \/ \E r \in Runners : p \in batch'[r].passed
                   PROVE  rankAt'[p] < tick'
        BY DEF PassedWait
      <3>1. rankAt[p] < tick
        <4>1. CASE passes[p] > 0 \/ \E r \in Runners : p \in batch[r].passed
          BY <1>0, <4>1 DEF PassedWait
        <4> QED BY <1>3, <4>1
      <3> QED BY <1>1, <1>3, <3>1
    <2>3. \A p \in PoolIds \ Silent : TurnsCounted(p, passes[p], OlderThan(p), batch["worker"])'
      BY <1>3 DEF TurnsCounted, OlderThan, OlderFirst
    <2> QED BY <2>1, <2>2, <2>3 DEF RanksInv
  <1>4. ASSUME NEW r \in Runners, BeginBatch(r) PROVE RanksInv'
    <2> PICK todo \in InQueryOrder(Picked) :
          batch' = [batch EXCEPT ![r] =
                      [todo |-> todo, passed |-> DueForRank \ Picked, clean |-> TRUE]]
      BY <1>4 DEF BeginBatch
    <2> PICK new : new = [todo |-> todo, passed |-> DueForRank \ Picked, clean |-> TRUE]
      OBVIOUS
    <2>1. Picked \subseteq DueForRank /\ DueForRank \subseteq PoolIds
      BY <1>1 DEF Picked, DueForRank
    <2>2. todo \in Seq(PoolIds) /\ ToSet(todo) = Picked
      <3>1. IsFiniteSet(Picked) /\ Cardinality(Picked) \in Nat
        BY <2>1, OthersAre, FS_Subset, FS_CardinalityType
      <3>2. todo \in [1..Cardinality(Picked) -> PoolIds]
        BY <2>1 DEF InQueryOrder
      <3> QED BY <3>1, <3>2 DEF InQueryOrder
    <2>3. new \in Batches /\ batch' = [batch EXCEPT ![r] = new]
      BY <2>1, <2>2
    <2>4. \A p \in new.passed : rankAt[p] < tick
      BY <1>1, <2>1, OthersAre DEF DueForRank
    <2>5. ASSUME NEW p \in PoolIds \ Silent
          PROVE  TurnsCounted(p, passes[p], OlderThan(p), batch'["worker"])
      <3>1. CASE r = "worker"
        <4>1. batch'["worker"] = new /\ Cardinality(OlderThan(p)) + passes[p] * Each <= Others
          BY <1>0, <1>1, <1>2, <2>3, <3>1 DEF TurnsCounted
        <4>2. p \in new.passed =>
                Cardinality(OlderThan(p) \ ToSet(new.todo)) + (passes[p] + 1) * Each <= Others
          BY <1>0, <2>2, <4>1, TalliedBatch
        <4> QED BY <4>1, <4>2 DEF TurnsCounted
      <3>2. CASE r # "worker"
        BY <1>0, <1>1, <2>3, <3>2
      <3> QED BY <3>1, <3>2
    <2>6. \A s \in Runners : batch'[s].passed \subseteq batch[s].passed
                            \/ \A p \in batch'[s].passed : rankAt[p] < tick
      BY <1>1, <2>3, <2>4
    <2>7. batch' \in [Runners -> Batches]
      BY <1>1, <2>3
    <2>8. rankAt' = rankAt /\ passes' = passes /\ inPool' = inPool /\ tick' = tick
      BY <1>4 DEF BeginBatch
    <2>9. tick' \in Nat /\ tick' >= tick
      BY <1>1, <2>8
    <2> QED BY <1>3, <2>5, <2>6, <2>7, <2>8, <2>9
  <1>5. ASSUME NEW r \in Runners, RankArrives(r) PROVE RanksInv'
    <2> PICK h : h = Head(batch[r].todo)
      OBVIOUS
    <2> PICK batches : batches = [batch EXCEPT ![r].todo = Tail(@)]
      OBVIOUS
    <2>1. batch[r].todo \in Seq(PoolIds) /\ batch[r].todo # <<>>
      BY <1>1, <1>5 DEF RankArrives
    <2>2. /\ h \in PoolIds /\ Tail(batch[r].todo) \in Seq(PoolIds)
          /\ ToSet(batch[r].todo) \subseteq ToSet(Tail(batch[r].todo)) \cup {h}
      BY <2>1, HeadAndTail
    <2>3. batches \in [Runners -> Batches]
      BY <1>1, <2>2
    <2>4. \A s \in Runners : /\ batches[s].passed = batch[s].passed
                            /\ batches[s].clean = batch[s].clean
      BY <1>1
    <2>5. ToSet(batch["worker"].todo) \subseteq ToSet(batches["worker"].todo) \cup {h}
      <3>1. CASE r = "worker"
        <4>1. batches["worker"].todo = Tail(batch["worker"].todo)
          BY <1>1, <1>2, <3>1
        <4> QED BY <2>2, <3>1, <4>1
      <3>2. CASE r # "worker"
        <4>1. batches["worker"] = batch["worker"]
          BY <1>1, <1>2, <3>2
        <4> QED BY <4>1
      <3> QED BY <3>1, <3>2
    <2>6. /\ StopsWaiting(h, batches) /\ rankAt' = [rankAt EXCEPT ![h] = tick]
          /\ tick' = tick /\ inPool' = inPool
      BY <1>5 DEF RankArrives
    <2> QED BY <1>1, <2>2, <2>3, <2>4, <2>5, <2>6, StoredRankKeeps
  <1>6. ASSUME NEW r \in Runners, RankFails(r) PROVE RanksInv'
    <2> PICK h : h = Head(batch[r].todo)
      OBVIOUS
    <2> PICK rest : rest = Tail(batch[r].todo)
      OBVIOUS
    <2>c. PICK clean \in BOOLEAN : clean = (batch[r].clean /\ h \in Silent)
      BY Zenon
    <2>n. PICK new : new = [batch[r] EXCEPT !.todo = rest, !.clean = clean]
      OBVIOUS
    <2>1. batch[r].todo \in Seq(PoolIds) /\ batch[r].todo # <<>> /\ batch[r] \in Batches
      BY <1>1, <1>6 DEF RankFails
    <2>2. /\ h \in PoolIds /\ rest \in Seq(PoolIds)
          /\ ToSet(batch[r].todo) \subseteq ToSet(rest) \cup {h}
      BY <2>1, HeadAndTail
    <2>3. /\ new \in Batches /\ new.todo = rest /\ new.passed = batch[r].passed
          /\ new.clean => batch[r].clean /\ h \in Silent
      BY <2>c, <2>n, <2>1, <2>2
    <2>4. batch' = [batch EXCEPT ![r] = new]
      <3>1. batch' = [batch EXCEPT ![r].todo = rest, ![r].clean = batch[r].clean /\ h \in Silent]
        BY <1>6 DEF RankFails
      <3>2. batch' = [batch EXCEPT ![r] = [batch[r] EXCEPT !.todo = rest, !.clean = clean]]
        <4>1. batch' = [batch EXCEPT ![r].todo = rest, ![r].clean = clean]
          BY <2>c, <3>1, Zenon
        <4> QED BY <2>c, <1>1, <4>1
      <3> QED BY <2>n, <3>2
    <2>5. ASSUME NEW p \in PoolIds \ Silent
          PROVE  TurnsCounted(p, passes[p], OlderThan(p), batch'["worker"])
      <3>1. CASE r = "worker"
        <4> PICK ahead : ahead = OlderThan(p)
          OBVIOUS
        <4> PICK worker : worker = batch["worker"]
          OBVIOUS
        <4> PICK n \in Nat : n = passes[p]
          BY <1>1
        <4>1. batch'["worker"] = new
          BY <1>1, <1>2, <2>4, <3>1
        <4>2. ahead \subseteq (PoolIds \ Silent) \ {p}
          BY <1>1, OthersAre DEF OlderThan, OlderFirst
        <4> PICK fewer \in SUBSET ahead : fewer = ahead
          OBVIOUS
        <4>3. new.clean /\ p \in new.passed =>
                /\ worker.clean /\ p \in worker.passed
                /\ fewer \ ToSet(new.todo) \subseteq ahead \ ToSet(worker.todo)
          BY <2>2, <2>3, <3>1, <4>2
        <4>4. TurnsCounted(p, n, ahead, worker)
          BY <1>0
        <4>5. TurnsCounted(p, n, fewer, new)
          BY <2>5, <4>2, <4>3, <4>4, TalliedFewer
        <4> QED BY <4>1, <4>5
      <3>2. CASE r # "worker"
        BY <1>0, <1>1, <2>4, <3>2
      <3> QED BY <3>1, <3>2
    <2>6. \A s \in Runners : batch'[s].passed \subseteq batch[s].passed
      BY <1>1, <2>3, <2>4
    <2>7. batch' \in [Runners -> Batches]
      BY <1>1, <2>3, <2>4
    <2>8. rankAt' = rankAt /\ passes' = passes /\ inPool' = inPool /\ tick' = tick
      BY <1>6 DEF RankFails
    <2>9. tick' \in Nat /\ tick' >= tick
      BY <1>1, <2>8
    <2> QED BY <1>3, <2>5, <2>6, <2>7, <2>8, <2>9
  <1>7. ASSUME NEW r \in Runners, EndBatch(r) PROVE RanksInv'
    <2>1. /\ batch[r].todo = <<>> /\ batch' = [batch EXCEPT ![r] = Resting]
          /\ UNCHANGED <<tick, rankAt, inPool, adminJobs>>
      BY <1>7 DEF EndBatch
    <2>2. ASSUME NEW p \in PoolIds
          PROVE  passes'[p] = IF r = "worker" /\ batch[r].clean /\ p \in batch[r].passed
                              THEN passes[p] + 1 ELSE passes[p]
      BY <1>7 DEF EndBatch
    <2>3. passes' \in [PoolIds -> Nat] /\ batch' \in [Runners -> Batches]
      <3>1. ASSUME NEW p \in PoolIds PROVE passes'[p] \in Nat
        <4>1. passes'[p] = passes[p] + 1 \/ passes'[p] = passes[p]
          BY <2>2
        <4> QED BY <1>1, <4>1
      <3>2. passes' = [p \in PoolIds |-> passes'[p]]
        BY <1>7 DEF EndBatch
      <3> QED BY <1>1, <1>2, <2>1, <3>1, <3>2
    <2>4. RanksTyped'
      BY <1>1, <2>1, <2>3 DEF RanksTyped
    <2>5. PassedWait'
      <3> SUFFICES ASSUME NEW p \in PoolIds,
                          passes'[p] > 0 \/ \E s \in Runners : p \in batch'[s].passed
                   PROVE  rankAt'[p] < tick'
        BY DEF PassedWait
      <3>1. passes[p] > 0 \/ \E s \in Runners : p \in batch[s].passed
        BY <1>1, <1>2, <2>1, <2>2
      <3> QED BY <1>0, <2>1, <3>1 DEF PassedWait
    <2>6. ASSUME NEW p \in PoolIds \ Silent
          PROVE  TurnsCounted(p, passes'[p], OlderThan(p), batch'["worker"])
      <3>1. CASE r # "worker"
        BY <1>0, <1>1, <2>1, <2>2, <3>1
      <3>2. CASE r = "worker"
        <4>1. ~(p \in batch'["worker"].passed)
          BY <1>1, <1>2, <2>1, <3>2
        <4>2. Cardinality(OlderThan(p)) + passes'[p] * Each <= Others
          <5>1. CASE batch[r].clean /\ p \in batch[r].passed
            <6>1. OlderThan(p) \ ToSet(batch[r].todo) = OlderThan(p)
              BY <2>1 DEF ToSet
            <6>2. Cardinality(OlderThan(p) \ ToSet(batch[r].todo)) + (passes[p] + 1) * Each <= Others
              BY <1>0, <3>2, <5>1 DEF TurnsCounted
            <6>3. passes'[p] = passes[p] + 1
              BY <2>2, <3>2, <5>1
            <6> QED BY <6>1, <6>2, <6>3
          <5>2. CASE ~(batch[r].clean /\ p \in batch[r].passed)
            <6>1. passes'[p] = passes[p]
              BY <2>2, <5>2
            <6> QED BY <1>0, <6>1 DEF TurnsCounted
          <5> QED BY <5>1, <5>2
        <4> QED BY <4>1, <4>2 DEF TurnsCounted
      <3> QED BY <3>1, <3>2
    <2>7. \A p \in PoolIds \ Silent : TurnsCounted(p, passes[p], OlderThan(p), batch["worker"])'
      BY <2>1, <2>6 DEF TurnsCounted, OlderThan, OlderFirst
    <2> QED BY <2>4, <2>5, <2>7 DEF RanksInv
  <1>8. ASSUME NEW p \in PoolIds, AddToPool(p) \/ RemoveFromPool(p) PROVE RanksInv'
    <2>1. StopsWaiting(p, batch) /\ tick' = tick /\ inPool' \subseteq PoolIds
          /\ (rankAt' = rankAt \/ rankAt' = [rankAt EXCEPT ![p] = tick])
      BY <1>1, <1>8 DEF AddToPool, RemoveFromPool
    <2> QED BY <1>1, <2>1, StoredRankKeeps
  <1>9. CASE RankTick
    BY <1>0, <1>1, <1>3, <1>9 DEF RankTick
  <1>10. CASE RankRestart
    <2>1. \A r \in Runners : batch'[r] = Resting
      BY <1>10 DEF RankRestart
    <2>2. \A p \in PoolIds \ Silent : TurnsCounted(p, passes[p], OlderThan(p), batch'["worker"])
      BY <1>0, <1>2, <2>1 DEF TurnsCounted
    <2>3. batch' \in [Runners -> Batches] /\ \A r \in Runners : batch'[r].passed \subseteq batch[r].passed
      BY <1>2, <1>10, <2>1 DEF RankRestart
    <2>4. rankAt' = rankAt /\ passes' = passes /\ inPool' = inPool /\ tick' = tick
      BY <1>10 DEF RankRestart
    <2>5. tick' \in Nat /\ tick' >= tick
      BY <1>1, <2>4
    <2> QED BY <1>3, <2>2, <2>3, <2>4, <2>5
  <1>11. CASE UNCHANGED rankVars
    BY <1>0, <1>1, <1>3, <1>11 DEF rankVars
  <1> QED BY <1>4, <1>5, <1>6, <1>7, <1>8, <1>9, <1>10, <1>11 DEF RankNext

\* A product that fits is no more than the quotient.
LEMMA TimesThenDivide ==
  ASSUME NEW n \in Nat, NEW b \in Nat \ {0}, NEW m \in Int, n * b <= m
  PROVE  n <= m \div b
  <1> PICK q \in Int : q = m \div b /\ m < b * (q + 1)
    OBVIOUS
  <1>1. CASE n >= q + 1
    <2>1. (n - (q + 1)) * b >= 0
      BY <1>1
    <2> QED BY <2>1
  <1> QED BY <1>1

\* Before each waiting player there are at most as many who answer as the batches that
\* passed over leave.
THEOREM RanksInvariant == RankSpec => []RanksInv
  <1>1. RankInit => RanksInv
    <2> SUFFICES ASSUME RankInit PROVE RanksInv
      OBVIOUS
    <2>1. RanksTyped
      <3>1. Resting \in [todo : Seq(PoolIds), passed : SUBSET PoolIds, clean : BOOLEAN]
        BY DEF Resting
      <3>2. NoRank \in Int /\ NoRank <= 0
        BY OthersAre DEF NoRank
      <3> QED BY <3>1, <3>2 DEF RankInit, RanksTyped
    <2>2. \A p \in PoolIds : passes[p] = 0
      BY DEF RankInit
    <2>3. \A r \in Runners : batch[r].passed = {}
      BY DEF RankInit, Resting
    <2>4. PassedWait
      BY <2>2, <2>3 DEF PassedWait
    <2>5. ASSUME NEW p \in PoolIds \ Silent
          PROVE  TurnsCounted(p, passes[p], OlderThan(p), batch["worker"])
      <3>1. OlderThan(p) \subseteq (PoolIds \ Silent) \ {p}
        BY <2>1, OthersAre DEF OlderThan, OlderFirst, RanksTyped
      <3>2. p \notin batch["worker"].passed
        BY <2>3 DEF Runners
      <3> PICK ahead, worker : ahead = OlderThan(p) /\ worker = batch["worker"]
        OBVIOUS
      <3>3. TurnsCounted(p, 0, ahead, worker)
        BY <3>1, <3>2, TalliedFresh
      <3> QED BY <2>2, <3>3
    <2> QED BY <2>1, <2>4, <2>5 DEF RanksInv
  <1> QED BY <1>1, RankNextKept, PTL DEF RankSpec

\* With fewer silent players than a batch takes, whoever waits for a rank is passed over
\* a bounded number of times, for any pool, any batches of admins and any failures.
THEOREM NobodyStarvesHolds == RankSpec => []NobodyStarves
  <1>1. RanksInv => NobodyStarves
    <2> SUFFICES ASSUME RanksInv, NEW p \in PoolIds \ Silent
                 PROVE  passes[p] <= Others \div Each
      BY DEF NobodyStarves, MostPasses, Others, Each
    <2>1. passes[p] \in Nat /\ rankAt[p] \in Int
      BY DEF RanksInv, RanksTyped
    <2>2. Cardinality(OlderThan(p)) + passes[p] * Each <= Others
      BY DEF RanksInv, TurnsCounted
    <2>3. Cardinality(OlderThan(p)) \in Nat
      <3>1. OlderThan(p) \subseteq (PoolIds \ Silent) \ {p}
        BY <2>1, OthersAre DEF OlderThan, OlderFirst
      <3> QED BY <3>1, AheadBound
    <2>4. passes[p] * Each \in Int /\ Each \in Nat \ {0} /\ Others \in Int
      BY <2>1, OthersAre
    <2>5. passes[p] * Each <= Others
      BY <2>2, <2>3, <2>4
    <2> PICK n \in Nat : n = passes[p]
      BY <2>1
    <2> QED BY <2>4, <2>5, TimesThenDivide
  <1> QED BY <1>1, RanksInvariant, PTL

-----------------------------------------------------------------------------
(* The table of the group: the teams of a tier as a list *)

\* R orders S in a line.
InLine(S, R) ==
  /\ \A x \in S : <<x, x>> \notin R
  /\ \A x, y \in S : x = y \/ <<x, y>> \in R \/ <<y, x>> \in R
  /\ \A x, y, z \in S : <<x, y>> \in R /\ <<y, z>> \in R => <<x, z>> \in R

BeforeIn(S, R, x) == {y \in S : <<y, x>> \in R}

\* How many are before it says where something stands, and every place is taken.
LEMMA PlacesInLine ==
  ASSUME NEW S, IsFiniteSet(S), NEW R, InLine(S, R)
  PROVE  /\ Cardinality(S) \in Nat
         /\ \A x \in S : Cardinality(BeforeIn(S, R, x)) \in 0..(Cardinality(S) - 1)
         /\ \A x, y \in S :
              <<x, y>> \in R => Cardinality(BeforeIn(S, R, x)) < Cardinality(BeforeIn(S, R, y))
         /\ \A i \in 0..(Cardinality(S) - 1) :
              \E x \in S : Cardinality(BeforeIn(S, R, x)) = i
  <1>1. PICK n \in Nat : n = Cardinality(S)
    BY FS_CardinalityType
  <1>2. ASSUME NEW x \in S
        PROVE  Cardinality(BeforeIn(S, R, x)) \in 0..(n - 1) /\ IsFiniteSet(BeforeIn(S, R, x))
    <2>1. BeforeIn(S, R, x) \in SUBSET (S \ {x})
      BY DEF BeforeIn, InLine
    <2>2. IsFiniteSet(S \ {x}) /\ Cardinality(S \ {x}) = n - 1
      BY <1>1, FS_RemoveElement
    <2>3. IsFiniteSet(BeforeIn(S, R, x)) /\ Cardinality(BeforeIn(S, R, x)) <= n - 1
      BY <2>1, <2>2, FS_Subset
    <2>4. Cardinality(BeforeIn(S, R, x)) \in Nat
      BY <2>3, FS_CardinalityType
    <2> QED BY <2>3, <2>4, <1>1
  <1>3. ASSUME NEW x \in S, NEW y \in S, <<x, y>> \in R
        PROVE  Cardinality(BeforeIn(S, R, x)) < Cardinality(BeforeIn(S, R, y))
    <2>1. x \in BeforeIn(S, R, y)
      BY <1>3 DEF BeforeIn
    <2>2. BeforeIn(S, R, x) \in SUBSET (BeforeIn(S, R, y) \ {x})
      BY <1>3 DEF BeforeIn, InLine
    <2>3. IsFiniteSet(BeforeIn(S, R, y)) /\ Cardinality(BeforeIn(S, R, y)) \in Nat
          /\ Cardinality(BeforeIn(S, R, x)) \in Nat
      BY <1>2
    <2>4. IsFiniteSet(BeforeIn(S, R, y) \ {x})
          /\ Cardinality(BeforeIn(S, R, y) \ {x}) = Cardinality(BeforeIn(S, R, y)) - 1
      BY <2>1, <2>3, FS_RemoveElement
    <2>5. Cardinality(BeforeIn(S, R, x)) <= Cardinality(BeforeIn(S, R, y) \ {x})
      BY <2>2, <2>4, FS_Subset
    <2> QED BY <2>3, <2>4, <2>5
  <1>4. ASSUME NEW i \in 0..(n - 1)
        PROVE  \E x \in S : Cardinality(BeforeIn(S, R, x)) = i
    <2> DEFINE place == [x \in S |-> Cardinality(BeforeIn(S, R, x))]
    <2>1. place \in [S -> 0..(n - 1)]
      BY <1>2
    <2>2. \A x, y \in S : place[x] = place[y] => x = y
      <3>1. SUFFICES ASSUME NEW x \in S, NEW y \in S, place[x] = place[y], x # y PROVE FALSE
        OBVIOUS
      <3>2. place[x] \in Nat /\ place[y] \in Nat
        BY <1>2
      <3>3. place[x] < place[y] \/ place[y] < place[x]
        BY <1>3, <3>1 DEF InLine
      <3> QED BY <3>1, <3>2, <3>3
    <2> HIDE DEF place
    <2>3. place \in Injection(S, 0..(n - 1))
      BY <2>1, <2>2 DEF Injection, IsInjective
    <2>4. IsFiniteSet(0..(n - 1)) /\ Cardinality(0..(n - 1)) = n
      <3>1. 0 \in Int /\ n - 1 \in Int
        BY <1>1
      <3>2. IsFiniteSet(0..(n - 1))
            /\ Cardinality(0..(n - 1)) = IF 0 > n - 1 THEN 0 ELSE (n - 1) - 0 + 1
        BY <3>1, FS_Interval
      <3> QED BY <3>2, <1>1
    <2>5. place \in Surjection(S, 0..(n - 1))
      BY <2>3, <2>4, <1>1, FS_Injection
    <2>6. \E x \in S : place[x] = i
      BY <2>5 DEF Surjection
    <2> QED BY <2>6 DEF place
  <1> QED BY <1>1, <1>2, <1>3, <1>4

\* The list of a set has each of its members once.
LEMMA AsListIs ==
  ASSUME NEW S, IsFiniteSet(S), NEW R, InLine(S, R)
  PROVE  /\ AsList(S, R) \in Seq(S) /\ Len(AsList(S, R)) = Cardinality(S)
         /\ \A i, j \in 1..Len(AsList(S, R)) : AsList(S, R)[i] = AsList(S, R)[j] => i = j
         /\ \A x \in S : \E i \in 1..Len(AsList(S, R)) : AsList(S, R)[i] = x
  <1>1. PICK n \in Nat : n = Cardinality(S)
    BY FS_CardinalityType
  <1>2. /\ \A x \in S : Cardinality(BeforeIn(S, R, x)) \in 0..(n - 1)
        /\ \A x, y \in S :
             <<x, y>> \in R => Cardinality(BeforeIn(S, R, x)) < Cardinality(BeforeIn(S, R, y))
        /\ \A i \in 0..(n - 1) : \E x \in S : Cardinality(BeforeIn(S, R, x)) = i
    BY <1>1, PlacesInLine
  <1>3. PICK list : list = AsList(S, R)
    OBVIOUS
  <1>4. list = [i \in 1..n |-> CHOOSE x \in S : Cardinality(BeforeIn(S, R, x)) = i - 1]
    BY <1>1, <1>3 DEF AsList, BeforeIn
  <1>5. ASSUME NEW i \in 1..n
        PROVE  list[i] \in S /\ Cardinality(BeforeIn(S, R, list[i])) = i - 1
    <2>1. i - 1 \in 0..(n - 1)
      OBVIOUS
    <2>2. \E x \in S : Cardinality(BeforeIn(S, R, x)) = i - 1
      BY <1>2, <2>1
    <2>3. list[i] = CHOOSE x \in S : Cardinality(BeforeIn(S, R, x)) = i - 1
      BY <1>4
    <2> QED BY <2>2, <2>3
  <1>6. DOMAIN list = 1..n /\ list \in [1..n -> S]
    BY <1>4, <1>5
  <1>7. list \in Seq(S) /\ Len(list) = n
    BY <1>6
  <1>8. \A i, j \in 1..n : list[i] = list[j] => i = j
    <2>1. SUFFICES ASSUME NEW i \in 1..n, NEW j \in 1..n, list[i] = list[j] PROVE i = j
      OBVIOUS
    <2>2. i - 1 = j - 1
      BY <2>1, <1>5
    <2> QED BY <2>2
  <1>9. ASSUME NEW x \in S PROVE \E i \in 1..n : list[i] = x
    <2>1. PICK p \in 0..(n - 1) : p = Cardinality(BeforeIn(S, R, x))
      BY <1>2
    <2>2. p + 1 \in 1..n /\ (p + 1) - 1 = p
      OBVIOUS
    <2>3. list[p + 1] \in S /\ Cardinality(BeforeIn(S, R, list[p + 1])) = p
      BY <2>2, <1>5
    <2>4. ~(p < p)
      OBVIOUS
    <2>5. list[p + 1] = x
      <3>1. PICK y \in S : y = list[p + 1]
        BY <2>3
      <3>2. y = x \/ <<y, x>> \in R \/ <<x, y>> \in R
        BY DEF InLine
      <3>3. <<y, x>> \in R => Cardinality(BeforeIn(S, R, y)) < Cardinality(BeforeIn(S, R, x))
        BY <1>2
      <3>4. <<x, y>> \in R => Cardinality(BeforeIn(S, R, x)) < Cardinality(BeforeIn(S, R, y))
        BY <1>2
      <3> QED BY ONLY <3>1, <3>2, <3>3, <3>4, <2>1, <2>3, <2>4
    <2> QED BY <2>2, <2>5
  <1> QED BY <1>1, <1>3, <1>7, <1>8, <1>9

\* What is split by a count: every part has the members of one count, the highest first.
SplitsBy(parts, S, count) ==
  /\ parts \in Seq(SUBSET S)
  /\ \A t \in S : \E i \in DOMAIN parts : t \in parts[i]
  /\ \A i, j \in DOMAIN parts : \A a \in parts[i], b \in parts[j] : i < j <=> count[a] > count[b]
  /\ \A i \in DOMAIN parts :
       \E t \in S : t \in parts[i] /\ parts[i] = {u \in S : count[u] = count[t]}

\* Splitting by numbers does that.
LEMMA SplitIs ==
  ASSUME NEW S, IsFiniteSet(S), NEW count, \A t \in S : count[t] \in Int
  PROVE  SplitsBy(SplitBy(S, count), S, count)
  <1> DEFINE levels == {count[t] : t \in S}
             R == {p \in levels \X levels : p[1] > p[2]}
             place == [k \in levels |-> Cardinality({l \in levels : l > k})]
  <1>1. IsFiniteSet(levels)
    <2>1. [t \in S |-> count[t]] \in Surjection(S, levels)
      BY DEF Surjection
    <2> HIDE DEF levels
    <2> QED BY <2>1, FS_Surjection
  <1>2. \A k \in levels : k \in Int
    OBVIOUS
  <1> HIDE DEF levels
  <1>3. InLine(levels, R)
    BY <1>2 DEF InLine
  <1>4. \A k \in levels : BeforeIn(levels, R, k) = {l \in levels : l > k}
    BY DEF BeforeIn
  <1> HIDE DEF R
  <1>5. PICK n \in Nat : n = Cardinality(levels)
    BY <1>1, FS_CardinalityType
  <1>6. /\ \A k \in levels : Cardinality(BeforeIn(levels, R, k)) \in 0..(n - 1)
        /\ \A k, l \in levels : <<k, l>> \in R =>
             Cardinality(BeforeIn(levels, R, k)) < Cardinality(BeforeIn(levels, R, l))
        /\ \A i \in 0..(n - 1) : \E k \in levels : Cardinality(BeforeIn(levels, R, k)) = i
    BY <1>1, <1>3, <1>5, PlacesInLine
  <1>7. /\ \A k \in levels : place[k] \in 0..(n - 1)
        /\ \A k, l \in levels : k > l => place[k] < place[l]
        /\ \A i \in 0..(n - 1) : \E k \in levels : place[k] = i
    <2>1. \A k \in levels : place[k] = Cardinality(BeforeIn(levels, R, k))
      BY <1>4
    <2>2. \A k, l \in levels : k > l => <<k, l>> \in R
      BY DEF R
    <2> QED BY <2>1, <2>2, <1>6
  <1>8. \A k, l \in levels : place[k] = place[l] => k = l
    <2>1. SUFFICES ASSUME NEW k \in levels, NEW l \in levels, place[k] = place[l], k # l
                   PROVE  FALSE
      OBVIOUS
    <2>2. k > l \/ l > k
      BY <1>2, <2>1
    <2>3. place[k] \in Int /\ place[l] \in Int /\ (place[k] < place[l] \/ place[l] < place[k])
      BY <1>7, <2>2
    <2> QED BY <2>1, <2>3
  <1>9. PICK parts : parts = SplitBy(S, count)
    OBVIOUS
  <1>10. parts = [i \in 1..n |-> {t \in S : place[count[t]] = i - 1}]
    <2>1. parts = [i \in 1..Cardinality(levels) |->
                    {t \in S : Cardinality({k \in levels : k > count[t]}) = i - 1}]
      BY <1>9 DEF SplitBy, levels
    <2>2. \A t \in S : place[count[t]] = Cardinality({k \in levels : k > count[t]})
      BY DEF levels
    <2> HIDE DEF place
    <2> QED BY <2>1, <2>2, <1>5
  <1>11. \A t \in S : count[t] \in levels
    BY DEF levels
  <1>12. \A k \in levels : \E t \in S : count[t] = k
    BY DEF levels
  <1> HIDE DEF place
  <1>13. parts \in Seq(SUBSET S) /\ DOMAIN parts = 1..n
    BY <1>10
  <1>14. \A i \in 1..n : \A t \in S : t \in parts[i] <=> place[count[t]] = i - 1
    BY <1>10
  <1>15. \A i \in 1..n : parts[i] \subseteq S
    BY <1>10
  <1>16. ASSUME NEW t \in S PROVE \E i \in 1..n : t \in parts[i]
    <2>1. place[count[t]] \in 0..(n - 1)
      BY <1>7, <1>11
    <2>2. place[count[t]] + 1 \in 1..n /\ (place[count[t]] + 1) - 1 = place[count[t]]
      BY <2>1
    <2> QED BY <2>2, <1>14
  <1>17. ASSUME NEW i \in 1..n, NEW j \in 1..n, NEW a \in parts[i], NEW b \in parts[j]
         PROVE  i < j <=> count[a] > count[b]
    <2>1. a \in S /\ b \in S /\ place[count[a]] = i - 1 /\ place[count[b]] = j - 1
      BY <1>14, <1>15
    <2>2. count[a] \in levels /\ count[b] \in levels /\ count[a] \in Int /\ count[b] \in Int
      BY <2>1, <1>11
    <2>3. /\ count[a] > count[b] => i - 1 < j - 1
          /\ count[b] > count[a] => j - 1 < i - 1
          /\ count[a] = count[b] => i - 1 = j - 1
      BY <2>1, <2>2, <1>7
    <2> QED BY <2>2, <2>3
  <1>18. ASSUME NEW i \in 1..n
         PROVE  \E t \in S : t \in parts[i] /\ parts[i] = {u \in S : count[u] = count[t]}
    <2>1. i - 1 \in 0..(n - 1)
      OBVIOUS
    <2>2. PICK k \in levels : place[k] = i - 1
      BY <2>1, <1>7
    <2>3. PICK t \in S : count[t] = k
      BY <1>12
    <2>4. t \in parts[i]
      BY <2>2, <2>3, <1>14
    <2>5. \A u \in S : u \in parts[i] <=> count[u] = count[t]
      BY <2>2, <2>3, <1>8, <1>11, <1>14
    <2> QED BY <2>4, <2>5, <1>15
  <1>19. SplitsBy(parts, S, count)
    BY <1>13, <1>16, <1>17, <1>18 DEF SplitsBy
  <1> QED BY <1>9, <1>19

-----------------------------------------------------------------------------
(* The table of the group: one list of the tiers' lists *)

\* f lists the members of the first n lists of ss: row and col say where each comes from.
Flattens(f, ss, row, col, n) ==
  /\ \A p \in 1..Len(f) :
       row[p] \in 1..n /\ col[p] \in 1..Len(ss[row[p]]) /\ f[p] = ss[row[p]][col[p]]
  /\ \A p, q \in 1..Len(f) : p < q => row[p] < row[q] \/ (row[p] = row[q] /\ col[p] < col[q])
  /\ \A i \in 1..n : \A k \in 1..Len(ss[i]) : \E p \in 1..Len(f) : row[p] = i /\ col[p] = k

\* The list after one more.
LEMMA FlattenedFurther ==
  ASSUME NEW X, NEW ss \in Seq(Seq(X)), NEW n \in Nat, n + 1 \in 1..Len(ss), NEW f \in Seq(X),
         NEW row, NEW col, Flattens(f, ss, row, col, n)
  PROVE  /\ f \o ss[n + 1] \in Seq(X)
         /\ \E r, c : Flattens(f \o ss[n + 1], ss, r, c, n + 1)
  <1> DEFINE e == f \o ss[n + 1]
             r == [p \in 1..Len(e) |-> IF p <= Len(f) THEN row[p] ELSE n + 1]
             c == [p \in 1..Len(e) |-> IF p <= Len(f) THEN col[p] ELSE p - Len(f)]
  <1>1. ss[n + 1] \in Seq(X)
    OBVIOUS
  <1>2. PICK l \in Nat, m \in Nat : l = Len(f) /\ m = Len(ss[n + 1])
    BY <1>1
  <1>3. e \in Seq(X) /\ Len(e) = l + m
    BY <1>1, <1>2
  <1>4. /\ \A p \in 1..l : e[p] = f[p]
        /\ \A p \in (l + 1)..(l + m) : e[p] = ss[n + 1][p - l]
    <2>1. PICK more \in Seq(X) : more = ss[n + 1] /\ Len(more) = m
      BY <1>1, <1>2
    <2>2. e = f \o more
      BY <2>1
    <2> HIDE DEF e
    <2>3. \A p \in 1..l : e[p] = f[p]
      BY ONLY <2>1, <2>2, <1>2, f \in Seq(X)
    <2>4. \A p \in (l + 1)..(l + m) : e[p] = more[p - l]
      BY ONLY <2>1, <2>2, <1>2, f \in Seq(X)
    <2> QED BY ONLY <2>1, <2>3, <2>4
  <1>5. /\ \A p \in 1..l : p \in 1..(l + m) /\ r[p] = row[p] /\ c[p] = col[p]
        /\ \A p \in (l + 1)..(l + m) : p \in 1..(l + m) /\ r[p] = n + 1 /\ c[p] = p - l
        /\ \A p \in 1..(l + m) : p \in 1..l \/ p \in (l + 1)..(l + m)
    BY <1>2, <1>3
  <1> HIDE DEF e, r, c
  <1>6. /\ \A p \in 1..l :
             row[p] \in 1..n /\ col[p] \in 1..Len(ss[row[p]]) /\ f[p] = ss[row[p]][col[p]]
        /\ \A p, q \in 1..l : p < q => row[p] < row[q] \/ (row[p] = row[q] /\ col[p] < col[q])
        /\ \A i \in 1..n : \A k \in 1..Len(ss[i]) : \E p \in 1..l : row[p] = i /\ col[p] = k
    BY <1>2 DEF Flattens
  <1>7. ASSUME NEW p \in 1..(l + m)
        PROVE  r[p] \in 1..(n + 1) /\ c[p] \in 1..Len(ss[r[p]]) /\ e[p] = ss[r[p]][c[p]]
    <2>1. CASE p \in 1..l
      <3>1. r[p] = row[p] /\ c[p] = col[p] /\ e[p] = f[p]
        BY <2>1, <1>4, <1>5
      <3>2. row[p] \in 1..n /\ col[p] \in 1..Len(ss[row[p]]) /\ f[p] = ss[row[p]][col[p]]
        BY <2>1, <1>6
      <3>3. row[p] \in 1..(n + 1)
        BY ONLY <3>2, n \in Nat
      <3> QED BY ONLY <3>1, <3>2, <3>3
    <2>2. CASE p \in (l + 1)..(l + m)
      <3>1. r[p] = n + 1 /\ c[p] = p - l /\ e[p] = ss[n + 1][p - l]
        BY <2>2, <1>4, <1>5
      <3>2. p - l \in 1..m /\ n + 1 \in 1..(n + 1)
        BY <2>2
      <3> QED BY <3>1, <3>2, <1>2
    <2> QED BY <2>1, <2>2, <1>5
  <1>8. ASSUME NEW p \in 1..(l + m), NEW q \in 1..(l + m), p < q
        PROVE  r[p] < r[q] \/ (r[p] = r[q] /\ c[p] < c[q])
    <2>1. CASE q \in 1..l
      <3>1. p \in 1..l
        BY <2>1, <1>8
      <3> QED BY <3>1, <2>1, <1>5, <1>6, <1>8
    <2>2. CASE q \in (l + 1)..(l + m) /\ p \in 1..l
      <3>1. row[p] \in 1..n /\ r[p] = row[p] /\ r[q] = n + 1
        BY <2>2, <1>5, <1>6
      <3> QED BY <3>1
    <2>3. CASE q \in (l + 1)..(l + m) /\ p \in (l + 1)..(l + m)
      <3>1. r[p] = n + 1 /\ r[q] = n + 1 /\ c[p] = p - l /\ c[q] = q - l
        BY <2>3, <1>5
      <3> QED BY <3>1, <1>8
    <2> QED BY <2>1, <2>2, <2>3, <1>5
  <1>9. ASSUME NEW i \in 1..(n + 1), NEW k \in 1..Len(ss[i])
        PROVE  \E p \in 1..(l + m) : r[p] = i /\ c[p] = k
    <2>1. CASE i \in 1..n
      <3>1. PICK p \in 1..l : row[p] = i /\ col[p] = k
        BY <2>1, <1>6
      <3> QED BY <3>1, <1>5
    <2>2. CASE i = n + 1
      <3>1. k \in 1..m
        BY <2>2, <1>2
      <3>2. l + k \in (l + 1)..(l + m) /\ (l + k) - l = k
        BY <3>1
      <3>3. l + k \in 1..(l + m) /\ r[l + k] = n + 1 /\ c[l + k] = (l + k) - l
        BY <3>2, <1>5
      <3> QED BY <3>2, <3>3, <2>2
    <2> QED BY <2>1, <2>2
  <1>10. Flattens(e, ss, r, c, n + 1)
    BY <1>3, <1>7, <1>8, <1>9 DEF Flattens
  <1> QED BY <1>3, <1>10 DEF e

\* g[i] lists the members of the first i lists.
FlatUpTo(ss, n, g) == g = [i \in 1..n |-> IF i = 1 THEN ss[i] ELSE g[i - 1] \o ss[i]]

\* There is such a list for any lists.
LEMMA FlatExists ==
  ASSUME NEW ss, NEW n \in Nat
  PROVE  \E g : FlatUpTo(ss, n, g)
  <1> DEFINE Not == {k \in 0..n : ~ \E g : FlatUpTo(ss, k, g)}
  <1> SUFFICES ASSUME Not # {} PROVE FALSE
    BY DEF Not
  <1>1. PICK k \in Not : \A j \in Not : k <= j
    <2>0. IsFiniteSet(0..n)
      BY FS_Interval
    <2>1. IsFiniteSet(Not) /\ \A j \in Not : j \in Nat
      BY <2>0, FS_Subset
    <2> HIDE DEF Not
    <2> QED BY <2>1, MinIs
  <1>2. k \in 0..n /\ ~ \E g : FlatUpTo(ss, k, g)
    BY <1>1
  <1>3. k # 0
    <2>1. FlatUpTo(ss, 0, [i \in 1..0 |-> IF i = 1 THEN ss[i] ELSE i])
      BY DEF FlatUpTo
    <2> QED BY <2>1, <1>2
  <1>4. k - 1 \in 0..n /\ k - 1 \notin Not
    BY <1>1, <1>2, <1>3
  <1>5. PICK g : FlatUpTo(ss, k - 1, g)
    BY <1>4
  <1> DEFINE h == [i \in 1..k |-> IF i = 1 THEN ss[i] ELSE g[i - 1] \o ss[i]]
  <1>6. \A i \in 1..(k - 1) : i \in 1..k /\ g[i] = h[i]
    <2>1. g = [i \in 1..(k - 1) |-> IF i = 1 THEN ss[i] ELSE g[i - 1] \o ss[i]]
      BY <1>5 DEF FlatUpTo
    <2>2. \A i \in 1..(k - 1) : g[i] = IF i = 1 THEN ss[i] ELSE g[i - 1] \o ss[i]
      BY ONLY <2>1
    <2>3. \A i \in 1..(k - 1) : i \in 1..k
      BY <1>2
    <2> QED BY ONLY <2>2, <2>3
  <1>7. \A i \in 1..k : i # 1 => i - 1 \in 1..(k - 1)
    BY <1>2
  <1>8. FlatUpTo(ss, k, h)
    BY <1>6, <1>7 DEF FlatUpTo
  <1> QED BY <1>2, <1>8

\* FlattenSeq lists the members of all lists.
LEMMA FlattenIs ==
  ASSUME NEW X, NEW ss \in Seq(Seq(X))
  PROVE  /\ FlattenSeq(ss) \in Seq(X)
         /\ \E row, col : Flattens(FlattenSeq(ss), ss, row, col, Len(ss))
  <1>1. PICK n \in Nat : n = Len(ss)
    OBVIOUS
  <1>2. CASE n = 0
    <2>1. FlattenSeq(ss) = ss /\ ss = <<>>
      <3>1. Len(ss) = 0 /\ ss = <<>>
        <4>1. PICK Y : Y = Seq(X)
          OBVIOUS
        <4>2. ss \in Seq(Y) /\ Len(ss) = 0
          BY <4>1, <1>1, <1>2
        <4> QED BY ONLY <4>2
      <3> QED BY <3>1, Zenon DEF FlattenSeq
    <2>2. Len(ss) = 0 /\ ss \in Seq(X)
      BY <2>1
    <2>3. Flattens(ss, ss, ss, ss, 0)
      BY <2>2 DEF Flattens
    <2> QED BY <2>1, <2>2, <2>3
  <1>3. CASE n # 0
    <2> DEFINE flat == CHOOSE g : FlatUpTo(ss, n, g)
    <2>1. FlatUpTo(ss, n, flat)
      BY FlatExists
    <2>2. FlattenSeq(ss) = flat[n]
      BY <1>1, <1>3 DEF FlattenSeq, FlatUpTo
    <2> HIDE DEF flat
    <2> DEFINE Good(k) == flat[k] \in Seq(X) /\ \E row, col : Flattens(flat[k], ss, row, col, k)
               Bad == {k \in 1..n : ~Good(k)}
    <2>3. SUFFICES Bad = {}
      <3>1. n \in 1..n
        BY <1>3
      <3> QED BY <3>1, <2>2, <1>1
    <2>4. SUFFICES ASSUME Bad # {} PROVE FALSE
      OBVIOUS
    <2>5. PICK k \in Bad : \A j \in Bad : k <= j
      <3>0. IsFiniteSet(1..n)
        BY FS_Interval
      <3>1. IsFiniteSet(Bad) /\ \A j \in Bad : j \in Nat
        BY <3>0, FS_Subset
      <3> HIDE DEF Bad
      <3> QED BY <2>4, <3>1, MinIs
    <2>6. k \in 1..n /\ ~Good(k)
      BY <2>5
    <2>7. CASE k = 1
      <3>1. flat[1] = ss[1] /\ ss[1] \in Seq(X) /\ Len(ss[1]) \in Nat
        BY <2>1, <2>6, <2>7, <1>1 DEF FlatUpTo
      <3> DEFINE row == [p \in 1..Len(ss[1]) |-> 1]
                 col == [p \in 1..Len(ss[1]) |-> p]
      <3>2. /\ \A p \in 1..Len(ss[1]) : row[p] = 1 /\ col[p] = p
            /\ \A i \in 1..1 : i = 1
        OBVIOUS
      <3> HIDE DEF row, col
      <3>3. Flattens(ss[1], ss, row, col, 1)
        BY <3>1, <3>2 DEF Flattens
      <3>4. Good(1)
        BY <3>1, <3>3
      <3> QED BY <3>4, <2>6, <2>7
    <2>8. CASE k # 1
      <3>1. PICK j \in Nat : j = k - 1
        BY <2>6, <2>8
      <3>2. j \in 1..n /\ j \notin Bad /\ j + 1 = k /\ j + 1 \in 1..Len(ss)
        BY <2>5, <2>6, <2>8, <3>1, <1>1
      <3>3. Good(j)
        BY <3>2
      <3>4. PICK row, col : Flattens(flat[j], ss, row, col, j)
        BY <3>3
      <3>5. flat[k] = flat[j] \o ss[j + 1]
        BY <2>1, <2>6, <2>8, <3>1, <3>2 DEF FlatUpTo
      <3>6. /\ flat[j] \o ss[j + 1] \in Seq(X)
            /\ \E r, c : Flattens(flat[j] \o ss[j + 1], ss, r, c, j + 1)
        <4>1. flat[j] \in Seq(X)
          BY <3>3
        <4> HIDE DEF Good, Bad
        <4> QED BY <4>1, <3>2, <3>4, FlattenedFurther
      <3>7. Good(k)
        BY <3>2, <3>5, <3>6
      <3> QED BY <3>7, <2>6
    <2> QED BY <2>7, <2>8
  <1> QED BY <1>2, <1>3

-----------------------------------------------------------------------------
(* The table of the group: the rules, one after the other *)

\* There are finitely many teams, and as many rules as are needed.
LEMMA TeamsCounted ==
  /\ IsFiniteSet(DivTeams) /\ DivTeams \subseteq Nat /\ Cardinality(DivTeams) \in Nat
  /\ RulesNeeded = Cardinality(DivTeams) + 2 /\ RulesNeeded \in Nat /\ SeedsInBracket \in Nat
  <1>1. IsFiniteSet(DivTeams) /\ DivTeams \subseteq Nat /\ SeedsInBracket \in Nat
    BY FinalsTableAssumption
  <1>2. Cardinality(DivTeams) \in Nat
    BY <1>1, FS_CardinalityType
  <1> QED BY <1>1, <1>2 DEF RulesNeeded

\* Points and wins are numbers.
LEMMA RuleType ==
  ASSUME NEW n, NEW C \in SUBSET DivTeams, NEW t \in C
  PROVE  Rule(n, C)[t] \in Int
  <1>1. ASSUME NEW S \in SUBSET DivTeams, NEW p PROVE Series(t, S, p) \in Nat
    <2> DEFINE O == {o \in S \ {t} : SeriesPoints(t, o) = p}
    <2>1. O \in SUBSET DivTeams
      OBVIOUS
    <2> HIDE DEF O
    <2>2. IsFiniteSet(O)
      BY <2>1, TeamsCounted, FS_Subset
    <2>3. Cardinality(O) \in Nat
      BY <2>2, FS_CardinalityType
    <2> QED BY <2>3 DEF Series, O
  <1>2. ASSUME NEW S \in SUBSET DivTeams PROVE TablePoints(t, S) \in Int
    <2>1. Series(t, S, 2) \in Nat /\ Series(t, S, 1) \in Nat
      BY <1>1
    <2> QED BY <2>1 DEF TablePoints
  <1>3. Points(DivTeams)[t] \in Int /\ Points(C)[t] \in Int
    BY <1>2 DEF Points
  <1>4. SeriesWins[t] \in Int
    BY <1>1 DEF SeriesWins
  <1> QED BY <1>3, <1>4 DEF Rule

\* g[k] are the classes that the first k rules leave.
ClassesUpTo(n, g) ==
  g = [k \in 0..n |-> IF k = 0 THEN {DivTeams} ELSE UNION {Refined(k, C) : C \in g[k - 1]}]

\* There are such classes, however many rules.
LEMMA ClassesExist ==
  ASSUME NEW n \in Nat
  PROVE  \E g : ClassesUpTo(n, g)
  <1> DEFINE Not == {k \in 0..n : ~ \E g : ClassesUpTo(k, g)}
  <1> SUFFICES ASSUME Not # {} PROVE FALSE
    BY DEF Not
  <1>1. PICK k \in Not : \A j \in Not : k <= j
    <2>0. IsFiniteSet(0..n)
      BY FS_Interval
    <2>1. IsFiniteSet(Not) /\ \A j \in Not : j \in Nat
      BY <2>0, FS_Subset
    <2> HIDE DEF Not
    <2> QED BY <2>1, MinIs
  <1>2. k \in 0..n /\ ~ \E g : ClassesUpTo(k, g)
    BY <1>1
  <1>3. k # 0
    <2> DEFINE g == [j \in 0..0 |-> {DivTeams}]
    <2>1. \A j \in 0..0 : j = 0
      OBVIOUS
    <2>2. ClassesUpTo(0, g)
      BY <2>1 DEF ClassesUpTo
    <2> QED BY <2>2, <1>2
  <1>4. k - 1 \in 0..n /\ k - 1 \notin Not
    BY <1>1, <1>2, <1>3
  <1>5. PICK g : ClassesUpTo(k - 1, g)
    BY <1>4
  <1> DEFINE Next1(f, j) == IF j = 0 THEN {DivTeams} ELSE UNION {Refined(j, C) : C \in f[j - 1]}
             h == [j \in 0..k |-> Next1(g, j)]
  <1>6. \A j \in 0..(k - 1) : g[j] = Next1(g, j)
    BY <1>5 DEF ClassesUpTo
  <1>7. \A j \in 0..(k - 1) : j \in 0..k /\ h[j] = g[j]
    <2>1. \A j \in 0..(k - 1) : j \in 0..k
      BY <1>2
    <2>2. \A j \in 0..k : h[j] = Next1(g, j)
      OBVIOUS
    <2> HIDE DEF Next1, h
    <2> QED BY <2>1, <2>2, <1>6
  <1>8. \A j \in 0..k : j # 0 => j - 1 \in 0..(k - 1)
    BY <1>2
  <1>9. \A j \in 0..k : Next1(g, j) = Next1(h, j)
    BY <1>7, <1>8
  <1>10. h = [j \in 0..k |-> Next1(h, j)]
    <2>1. \A j \in 0..k : Next1(g, j) = Next1(h, j)
      BY <1>9
    <2>2. h = [j \in 0..k |-> Next1(g, j)]
      OBVIOUS
    <2> HIDE DEF Next1, h
    <2> QED BY <2>1, <2>2
  <1>11. ClassesUpTo(k, h)
    BY <1>10 DEF ClassesUpTo
  <1> QED BY <1>2, <1>11

\* The classes are these.
LEMMA ClassesAre ==
  /\ Classes[0] = {DivTeams}
  /\ \A k \in 1..RulesNeeded : Classes[k] = UNION {Refined(k, C) : C \in Classes[k - 1]}
  <1>1. Classes = CHOOSE g : ClassesUpTo(RulesNeeded, g)
    BY DEF Classes, ClassesUpTo
  <1>2. ClassesUpTo(RulesNeeded, Classes)
    BY <1>1, TeamsCounted, ClassesExist
  <1>3. RulesNeeded \in Nat
    BY TeamsCounted
  <1>4. \A k \in 0..RulesNeeded :
          Classes[k] = IF k = 0 THEN {DivTeams} ELSE UNION {Refined(k, C) : C \in Classes[k - 1]}
    BY <1>2 DEF ClassesUpTo
  <1>5. 0 \in 0..RulesNeeded /\ \A k \in 1..RulesNeeded : k \in 0..RulesNeeded /\ k # 0
    BY <1>3
  <1> QED BY <1>4, <1>5

\* The classes are of teams, no team is in two, and a rule that came before did not tell
\* the teams of a class apart.
SameByRule(m, C, D) == \A a, b \in D : Rule(m, C)[a] = Rule(m, C)[b]
ClassesSound(l) ==
  /\ \A C \in Classes[l] : C \in SUBSET DivTeams
  /\ \A C, D \in Classes[l] : \A t \in C : t \in D => C = D
  /\ \A D \in Classes[l] : \A m \in 1..l :
       \E C \in Classes[m - 1] : D \subseteq C /\ SameByRule(m, C, D)

\* A class comes from the one that its rule refined.
LEMMA ClassFrom ==
  ASSUME NEW l \in 1..RulesNeeded, NEW D \in Classes[l]
  PROVE  \E C \in Classes[l - 1] : \E t \in C : D = {u \in C : Rule(l, C)[u] = Rule(l, C)[t]}
  <1>1. PICK C \in Classes[l - 1] : D \in Refined(l, C)
    BY ClassesAre
  <1> QED BY <1>1 DEF Refined

\* One rule more.
LEMMA ClassesRefined ==
  ASSUME NEW l \in Nat, l + 1 \in 1..RulesNeeded, ClassesSound(l)
  PROVE  ClassesSound(l + 1)
  <1>0. (l + 1) - 1 = l
    OBVIOUS
  <1>1. \A D \in Classes[l + 1] :
          \E C \in Classes[l] : \E t \in C : D = {u \in C : Rule(l + 1, C)[u] = Rule(l + 1, C)[t]}
    BY <1>0, ClassFrom
  <1>2. ASSUME NEW C \in Classes[l + 1] PROVE C \in SUBSET DivTeams
    BY <1>1 DEF ClassesSound
  <1>3. ASSUME NEW D \in Classes[l + 1], NEW E \in Classes[l + 1], NEW t \in D, t \in E
        PROVE  D = E
    <2>1. PICK C \in Classes[l] : \E u \in C :
                 D = {v \in C : Rule(l + 1, C)[v] = Rule(l + 1, C)[u]}
      BY <1>1
    <2>2. PICK B \in Classes[l] : \E u \in B :
                 E = {v \in B : Rule(l + 1, B)[v] = Rule(l + 1, B)[u]}
      BY <1>1
    <2>3. t \in C /\ t \in B
      BY <2>1, <2>2, <1>3
    <2>4. B = C
      BY <2>3 DEF ClassesSound
    <2>5. D = {v \in C : Rule(l + 1, C)[v] = Rule(l + 1, C)[t]}
      BY <2>1
    <2>6. E = {v \in C : Rule(l + 1, C)[v] = Rule(l + 1, C)[t]}
      BY <2>2, <2>4, <1>3
    <2> QED BY <2>5, <2>6
  <1>4. ASSUME NEW D \in Classes[l + 1], NEW m \in 1..(l + 1)
        PROVE  \E C \in Classes[m - 1] : D \subseteq C /\ SameByRule(m, C, D)
    <2>1. PICK C \in Classes[l] : \E u \in C :
                 D = {v \in C : Rule(l + 1, C)[v] = Rule(l + 1, C)[u]}
      BY <1>1
    <2>2. D \subseteq C /\ SameByRule(l + 1, C, D)
      BY <2>1 DEF SameByRule
    <2>3. CASE m = l + 1
      BY <2>2, <2>3, <1>0
    <2>4. CASE m \in 1..l
      <3>1. PICK B \in Classes[m - 1] : C \subseteq B /\ SameByRule(m, B, C)
        BY <2>4 DEF ClassesSound
      <3>2. D \subseteq B /\ SameByRule(m, B, D)
        BY <3>1, <2>2 DEF SameByRule
      <3> QED BY <3>2
    <2> QED BY <2>3, <2>4
  <1> QED BY <1>2, <1>3, <1>4 DEF ClassesSound

\* All of them.
LEMMA ClassesAreSound ==
  ASSUME NEW l \in 0..RulesNeeded
  PROVE  ClassesSound(l)
  <1> DEFINE Bad == {k \in 0..RulesNeeded : ~ClassesSound(k)}
  <1> SUFFICES ASSUME Bad # {} PROVE FALSE
    OBVIOUS
  <1>1. PICK k \in Bad : \A j \in Bad : k <= j
    <2>0. RulesNeeded \in Nat
      BY TeamsCounted
    <2>1. IsFiniteSet(0..RulesNeeded) /\ \A j \in 0..RulesNeeded : j \in Nat
      BY <2>0, FS_Interval
    <2>2. Bad \subseteq 0..RulesNeeded
      OBVIOUS
    <2>3. IsFiniteSet(Bad) /\ \A j \in Bad : j \in Nat
      BY <2>1, <2>2, FS_Subset
    <2> HIDE DEF Bad
    <2> QED BY <2>3, MinIs
  <1>2. k \in 0..RulesNeeded /\ ~ClassesSound(k) /\ RulesNeeded \in Nat
    BY <1>1, TeamsCounted
  <1>3. k # 0
    <2>1. ClassesSound(0)
      <3>1. Classes[0] = {DivTeams} /\ 1..0 = {}
        BY ClassesAre
      <3> QED BY <3>1 DEF ClassesSound
    <2> QED BY <2>1, <1>2
  <1>4. PICK j \in Nat : j = k - 1
    BY <1>2, <1>3
  <1>5. j \in 0..RulesNeeded /\ j \notin Bad /\ j + 1 = k /\ j + 1 \in 1..RulesNeeded
    BY <1>1, <1>2, <1>3, <1>4
  <1>6. ClassesSound(j)
    BY <1>5
  <1>7. ClassesSound(k)
    BY <1>5, <1>6, ClassesRefined
  <1> QED BY <1>2, <1>7

\* One team outranks another by the rule that tells the two apart.
LEMMA OutranksIs ==
  ASSUME NEW a, NEW b
  PROVE  <<a, b>> \in Outranks <=>
           \E n \in 1..RulesNeeded : \E C \in Classes[n - 1] :
             a \in C /\ b \in C /\ Rule(n, C)[a] > Rule(n, C)[b]
  <1>1. <<a, b>> \in Outranks <=>
          \E n \in 1..RulesNeeded : \E C \in Classes[n - 1] : <<a, b>> \in DecidedBy(n, C)
    BY DEF Outranks
  <1>2. \A n, C : <<a, b>> \in DecidedBy(n, C) <=>
          a \in C /\ b \in C /\ Rule(n, C)[a] > Rule(n, C)[b]
    BY DEF DecidedBy
  <1> QED BY <1>1, <1>2

\* Teams of one class are told apart by a later rule.
LEMMA DecidedLater ==
  ASSUME NEW n \in 0..RulesNeeded, NEW C \in Classes[n], NEW a \in C, NEW b \in C,
         <<a, b>> \in Outranks
  PROVE  \E m \in (n + 1)..RulesNeeded : \E D \in Classes[m - 1] :
           a \in D /\ b \in D /\ Rule(m, D)[a] > Rule(m, D)[b]
  <1>0. PICK m \in 1..RulesNeeded : \E D \in Classes[m - 1] :
          a \in D /\ b \in D /\ Rule(m, D)[a] > Rule(m, D)[b]
    BY OutranksIs
  <1>1. PICK D \in Classes[m - 1] : a \in D /\ b \in D /\ Rule(m, D)[a] > Rule(m, D)[b]
    BY <1>0
  <1>2. RulesNeeded \in Nat
    BY TeamsCounted
  <1>3. SUFFICES ASSUME m \in 1..n PROVE FALSE
    BY <1>1, <1>2
  <1>4. ClassesSound(n)
    BY ClassesAreSound
  <1>5. PICK B \in Classes[m - 1] : C \subseteq B /\ SameByRule(m, B, C)
    BY <1>3, <1>4 DEF ClassesSound
  <1>6. m - 1 \in 0..RulesNeeded
    BY <1>2
  <1>7. ClassesSound(m - 1)
    BY <1>6, ClassesAreSound
  <1>8. B = D
    BY <1>1, <1>5, <1>7 DEF ClassesSound
  <1>9. Rule(m, D)[a] = Rule(m, D)[b] /\ C \in SUBSET DivTeams /\ D \in SUBSET DivTeams
    BY <1>4, <1>5, <1>7, <1>8 DEF SameByRule, ClassesSound
  <1>10. Rule(m, D)[a] \in Int
    BY <1>1, <1>9, RuleType
  <1> QED BY <1>1, <1>9, <1>10

\* Splitting a class by the next rule gives classes.
LEMMA PartedIntoClasses ==
  ASSUME NEW n \in Nat, n + 1 \in 1..RulesNeeded, NEW C \in Classes[n],
         NEW parts, SplitsBy(parts, C, Rule(n + 1, C)), NEW i \in DOMAIN parts
  PROVE  parts[i] \in Classes[n + 1]
  <1>1. PICK t \in C : parts[i] = {u \in C : Rule(n + 1, C)[u] = Rule(n + 1, C)[t]}
    BY DEF SplitsBy
  <1>2. parts[i] \in Refined(n + 1, C)
    BY <1>1 DEF Refined
  <1>3. (n + 1) - 1 = n
    OBVIOUS
  <1>4. Classes[n + 1] = UNION {Refined(n + 1, D) : D \in Classes[n]}
    BY <1>3, ClassesAre
  <1> QED BY <1>2, <1>4

\* Within a class the next rule decides, unless it does not tell the two apart.
LEMMA NextRuleDecides ==
  ASSUME NEW n \in Nat, n + 1 \in 1..RulesNeeded, NEW C \in Classes[n],
         NEW a \in C, NEW b \in C
  PROVE  /\ Rule(n + 1, C)[a] > Rule(n + 1, C)[b] => <<a, b>> \in Outranks
         /\ <<a, b>> \in Outranks =>
              Rule(n + 1, C)[a] > Rule(n + 1, C)[b] \/ Rule(n + 1, C)[a] = Rule(n + 1, C)[b]
  <1>0. (n + 1) - 1 = n /\ RulesNeeded \in Nat /\ n \in 0..RulesNeeded
    BY TeamsCounted
  <1>1. ASSUME Rule(n + 1, C)[a] > Rule(n + 1, C)[b]
        PROVE  <<a, b>> \in Outranks
    <2>1. C \in Classes[(n + 1) - 1]
      BY <1>0
    <2>2. \E m \in 1..RulesNeeded : \E D \in Classes[m - 1] :
             a \in D /\ b \in D /\ Rule(m, D)[a] > Rule(m, D)[b]
      BY <1>1, <2>1
    <2> QED BY <2>2, OutranksIs
  <1>2. ASSUME <<a, b>> \in Outranks
        PROVE  Rule(n + 1, C)[a] > Rule(n + 1, C)[b] \/ Rule(n + 1, C)[a] = Rule(n + 1, C)[b]
    <2>1. PICK m \in (n + 1)..RulesNeeded : \E D \in Classes[m - 1] :
            a \in D /\ b \in D /\ Rule(m, D)[a] > Rule(m, D)[b]
      BY <1>0, <1>2, DecidedLater
    <2>2. PICK D \in Classes[m - 1] : a \in D /\ b \in D /\ Rule(m, D)[a] > Rule(m, D)[b]
      BY <2>1
    <2>3. ClassesSound(n)
      BY <1>0, ClassesAreSound
    <2>4. CASE m = n + 1
      <3>1. D \in Classes[n]
        BY <2>4, <1>0
      <3>2. D = C
        BY <3>1, <2>2, <2>3 DEF ClassesSound
      <3> QED BY <3>2, <2>2, <2>4
    <2>5. CASE m # n + 1
      <3>1. m - 1 \in 0..RulesNeeded /\ n + 1 \in 1..(m - 1)
        BY <1>0, <2>5
      <3>2. ClassesSound(m - 1)
        BY <3>1, ClassesAreSound
      <3>3. PICK B \in Classes[(n + 1) - 1] : D \subseteq B /\ SameByRule(n + 1, B, D)
        BY <3>1, <3>2 DEF ClassesSound
      <3>4. B \in Classes[n]
        BY <3>3, <1>0
      <3>5. B = C
        BY <3>3, <3>4, <2>2, <2>3 DEF ClassesSound
      <3> QED BY <3>3, <3>5, <2>2 DEF SameByRule
    <2> QED BY <2>4, <2>5
  <1> QED BY <1>1, <1>2

-----------------------------------------------------------------------------
(* The table of the group: the tiers *)

\* The tiers s rank the teams C as the rules do.
RanksBy(s, C) ==
  /\ s \in Seq(SUBSET C)
  /\ \A t \in C : \E i \in DOMAIN s : t \in s[i]
  /\ \A i, j \in DOMAIN s : \A a \in s[i], b \in s[j] : i < j <=> <<a, b>> \in Outranks

\* Ranking every part ranks the class.
LEMMA PartsRanked ==
  ASSUME NEW n \in Nat, n + 1 \in 1..RulesNeeded, NEW C \in Classes[n],
         NEW parts, SplitsBy(parts, C, Rule(n + 1, C)),
         NEW q, q = [i \in DOMAIN parts |-> q[i]],
         \A i \in DOMAIN parts : RanksBy(q[i], parts[i])
  PROVE  RanksBy(FlattenSeq(q), C)
  <1>1. PICK l \in Nat : l = Len(parts) /\ DOMAIN parts = 1..l
    BY DEF SplitsBy
  <1>2. \A i \in 1..l : parts[i] \in SUBSET C
    BY <1>1 DEF SplitsBy
  <1>3. \A i \in 1..l : q[i] \in Seq(SUBSET C) /\ DOMAIN q[i] = 1..Len(q[i])
    <2>1. SUFFICES ASSUME NEW i \in 1..l PROVE q[i] \in Seq(SUBSET C) /\ DOMAIN q[i] = 1..Len(q[i])
      OBVIOUS
    <2>2. q[i] \in Seq(SUBSET parts[i]) /\ parts[i] \in SUBSET C
      BY <1>1, <1>2 DEF RanksBy
    <2> QED BY <2>2
  <1>4. q \in Seq(Seq(SUBSET C)) /\ Len(q) = l
    <2>1. PICK Y : Y = Seq(SUBSET C)
      OBVIOUS
    <2>2. \A i \in 1..l : q[i] \in Y
      BY <2>1, <1>3
    <2>3. q = [i \in 1..l |-> q[i]]
      BY <1>1
    <2>4. q \in [1..l -> Y]
      BY ONLY <2>2, <2>3
    <2>5. q \in Seq(Y) /\ Len(q) = l
      BY ONLY <2>4, l \in Nat
    <2> QED BY <2>1, <2>5
  <1>5. PICK X : X = SUBSET C
    OBVIOUS
  <1>6. FlattenSeq(q) \in Seq(X) /\ \E r, c : Flattens(FlattenSeq(q), q, r, c, Len(q))
    <2>1. q \in Seq(Seq(X))
      BY <1>4, <1>5
    <2> QED BY <2>1, FlattenIs
  <1>7. PICK f : f = FlattenSeq(q)
    OBVIOUS
  <1>8. PICK row, col : Flattens(f, q, row, col, l)
    BY <1>4, <1>6, <1>7
  <1>9. PICK h \in Nat : h = Len(f) /\ DOMAIN f = 1..h
    BY <1>6, <1>7
  <1>10. /\ \A p \in 1..h :
              row[p] \in 1..l /\ col[p] \in 1..Len(q[row[p]]) /\ f[p] = q[row[p]][col[p]]
         /\ \A p, s \in 1..h : p < s => row[p] < row[s] \/ (row[p] = row[s] /\ col[p] < col[s])
         /\ \A i \in 1..l : \A k \in 1..Len(q[i]) : \E p \in 1..h : row[p] = i /\ col[p] = k
    <2>1. /\ \A p \in 1..Len(f) :
               row[p] \in 1..l /\ col[p] \in 1..Len(q[row[p]]) /\ f[p] = q[row[p]][col[p]]
          /\ \A p, s \in 1..Len(f) :
               p < s => row[p] < row[s] \/ (row[p] = row[s] /\ col[p] < col[s])
          /\ \A i \in 1..l : \A k \in 1..Len(q[i]) : \E p \in 1..Len(f) : row[p] = i /\ col[p] = k
      BY ONLY <1>8, Zenon DEF Flattens
    <2> QED BY ONLY <2>1, <1>9
  <1>11. \A i \in 1..l : RanksBy(q[i], parts[i])
    BY <1>1
  <1>12. ASSUME NEW t \in C PROVE \E p \in 1..h : t \in f[p]
    <2>1. PICK i \in 1..l : t \in parts[i]
      BY <1>1 DEF SplitsBy
    <2>2. PICK k \in DOMAIN q[i] : t \in q[i][k]
      BY <2>1, <1>11 DEF RanksBy
    <2>3. k \in 1..Len(q[i])
      BY <2>2, <1>3
    <2>4. PICK p \in 1..h : row[p] = i /\ col[p] = k
      BY ONLY <2>3, <1>10, i \in 1..l
    <2>5. f[p] = q[row[p]][col[p]]
      BY ONLY <1>10, p \in 1..h
    <2> QED BY <2>2, <2>4, <2>5
  <1>13. ASSUME NEW p \in 1..h, NEW a \in f[p]
         PROVE  a \in parts[row[p]] /\ a \in C
    <2>0. PICK i \in 1..l : i = row[p]
      BY <1>10
    <2>1. PICK k \in 1..Len(q[i]) : k = col[p] /\ f[p] = q[i][k]
      BY <2>0, <1>10
    <2>2. q[i] \in Seq(SUBSET parts[i])
      BY <1>11 DEF RanksBy
    <2>3. q[i][k] \in SUBSET parts[i]
      BY <2>2
    <2> QED BY <2>0, <2>1, <2>3, <1>2
  <1>14. ASSUME NEW p \in 1..h, NEW s \in 1..h, NEW a \in f[p], NEW b \in f[s]
         PROVE  p < s <=> <<a, b>> \in Outranks
    <2>1. /\ row[p] \in 1..l /\ a \in parts[row[p]] /\ a \in C
          /\ row[s] \in 1..l /\ b \in parts[row[s]] /\ b \in C
      BY <1>10, <1>13
    <2>2. /\ p < s => row[p] < row[s] \/ (row[p] = row[s] /\ col[p] < col[s])
          /\ s < p => row[s] < row[p] \/ (row[s] = row[p] /\ col[s] < col[p])
      BY <1>10
    <2>3. C \in SUBSET DivTeams
      <3>1. ClassesSound(n)
        <4>1. n \in 0..RulesNeeded
          BY TeamsCounted
        <4> QED BY <4>1, ClassesAreSound
      <3> QED BY <3>1 DEF ClassesSound
    <2>4. Rule(n + 1, C)[a] \in Int /\ Rule(n + 1, C)[b] \in Int
      BY <2>1, <2>3, RuleType
    <2>5. /\ Rule(n + 1, C)[a] > Rule(n + 1, C)[b] => <<a, b>> \in Outranks
          /\ <<a, b>> \in Outranks =>
               Rule(n + 1, C)[a] > Rule(n + 1, C)[b] \/ Rule(n + 1, C)[a] = Rule(n + 1, C)[b]
      BY <2>1, NextRuleDecides
    <2>6. /\ row[p] < row[s] => Rule(n + 1, C)[a] > Rule(n + 1, C)[b]
          /\ row[s] < row[p] => Rule(n + 1, C)[b] > Rule(n + 1, C)[a]
      BY <2>1, <1>1 DEF SplitsBy
    <2>7. CASE row[p] < row[s]
      BY <2>1, <2>2, <2>5, <2>6, <2>7
    <2>8. CASE row[s] < row[p]
      BY <2>1, <2>2, <2>4, <2>5, <2>6, <2>8
    <2>9. CASE row[p] = row[s]
      <3>1. PICK i \in 1..l : i = row[p] /\ i = row[s]
        BY <2>1, <2>9
      <3>0. /\ col[p] \in 1..Len(q[row[p]]) /\ f[p] = q[row[p]][col[p]]
            /\ col[s] \in 1..Len(q[row[s]]) /\ f[s] = q[row[s]][col[s]]
        BY ONLY <1>10, p \in 1..h, s \in 1..h
      <3>2. PICK j \in 1..Len(q[i]) : j = col[p] /\ f[p] = q[i][j]
        BY ONLY <3>0, <3>1
      <3>3. PICK k \in 1..Len(q[i]) : k = col[s] /\ f[s] = q[i][k]
        BY ONLY <3>0, <3>1
      <3>4. j < k <=> <<a, b>> \in Outranks
        <4>1. j \in DOMAIN q[i] /\ k \in DOMAIN q[i] /\ a \in q[i][j] /\ b \in q[i][k]
          BY <3>2, <3>3, <1>3
        <4>2. \A u, v \in DOMAIN q[i] : \A x \in q[i][u], y \in q[i][v] :
                u < v <=> <<x, y>> \in Outranks
          BY <1>11 DEF RanksBy
        <4> QED BY ONLY <4>1, <4>2
      <3>5. j \in Int /\ k \in Int
        BY <3>2, <3>3
      <3>6. p < s => j < k
        BY <3>1, <3>2, <3>3, <2>1, <2>2
      <3>7. s < p => k < j
        BY <3>1, <3>2, <3>3, <2>1, <2>2
      <3>8. p = s => j = k
        BY <3>2, <3>3
      <3> QED BY <3>4, <3>5, <3>6, <3>7, <3>8
    <2> QED BY <2>1, <2>7, <2>8, <2>9
  <1> QED BY <1>5, <1>6, <1>7, <1>9, <1>12, <1>14 DEF RanksBy

\* Where a split has several parts, each is smaller than the whole.
LEMMA PartsSmaller ==
  ASSUME NEW S, IsFiniteSet(S), NEW count, \A t \in S : count[t] \in Int,
         NEW parts, SplitsBy(parts, S, count), Len(parts) > 1, NEW i \in DOMAIN parts
  PROVE  /\ parts[i] \in SUBSET S /\ IsFiniteSet(parts[i])
         /\ Cardinality(parts[i]) \in Nat /\ Cardinality(parts[i]) < Cardinality(S)
  <1>1. PICK l \in Nat : l = Len(parts) /\ DOMAIN parts = 1..l /\ l > 1
    BY DEF SplitsBy
  <1>2. PICK j \in DOMAIN parts : j # i
    <2>1. 1 \in DOMAIN parts /\ 2 \in DOMAIN parts
      BY <1>1
    <2> QED BY <2>1
  <1>3. PICK b \in S : b \in parts[j]
    BY DEF SplitsBy
  <1>4. b \notin parts[i]
    <2>1. SUFFICES ASSUME b \in parts[i] PROVE FALSE
      OBVIOUS
    <2>2. (i < j <=> count[b] > count[b]) /\ (j < i <=> count[b] > count[b])
      BY <2>1, <1>3 DEF SplitsBy
    <2>3. count[b] \in Int
      BY <1>3
    <2> QED BY <2>2, <2>3, <1>1, <1>2
  <1>5. parts[i] \in SUBSET (S \ {b})
    BY <1>1, <1>4 DEF SplitsBy
  <1>6. Cardinality(S) \in Nat /\ IsFiniteSet(S \ {b})
        /\ Cardinality(S \ {b}) = Cardinality(S) - 1
    BY <1>3, FS_RemoveElement, FS_CardinalityType
  <1>7. IsFiniteSet(parts[i]) /\ Cardinality(parts[i]) <= Cardinality(S \ {b})
    BY <1>5, <1>6, FS_Subset
  <1>8. Cardinality(parts[i]) \in Nat
    BY <1>7, FS_CardinalityType
  <1> QED BY <1>5, <1>6, <1>7, <1>8

\* What the mini-tables of a group give: g has the tiers of the smaller groups.
Mini(S) == SplitBy(S, Points(S))
TiersFrom(g, S) ==
  IF Len(Mini(S)) <= 1 THEN Mini(S)
  ELSE FlattenSeq([i \in DOMAIN Mini(S) |-> g[Mini(S)[i]]])
TierTable(g, k) ==
  \A S \in SUBSET DivTeams : Cardinality(S) < k => g[S] = TiersFrom(g, S)

\* The mini-table of a group splits it by its points.
LEMMA MiniIs ==
  ASSUME NEW S \in SUBSET DivTeams
  PROVE  /\ IsFiniteSet(S) /\ Cardinality(S) \in Nat /\ Cardinality(S) <= Cardinality(DivTeams)
         /\ \A t \in S : Points(S)[t] \in Int
         /\ SplitsBy(Mini(S), S, Points(S))
  <1>1. IsFiniteSet(S) /\ Cardinality(S) <= Cardinality(DivTeams)
    BY TeamsCounted, FS_Subset
  <1>2. Cardinality(S) \in Nat
    BY <1>1, FS_CardinalityType
  <1>3. \A t \in S : Points(S)[t] \in Int
    <2>1. \A t \in S : Rule(3, S)[t] \in Int
      BY RuleType
    <2> QED BY <2>1 DEF Rule
  <1>4. SplitsBy(SplitBy(S, Points(S)), S, Points(S))
    <2>1. PICK c : c = Points(S)
      OBVIOUS
    <2>2. \A t \in S : c[t] \in Int
      BY <1>3, <2>1
    <2>3. SplitsBy(SplitBy(S, c), S, c)
      BY <1>1, <2>2, SplitIs
    <2> QED BY <2>1, <2>3
  <1> QED BY <1>1, <1>2, <1>3, <1>4 DEF Mini

\* The tiers of a group depend on those of smaller groups only.
LEMMA TiersFromSmaller ==
  ASSUME NEW S \in SUBSET DivTeams, NEW g, NEW h,
         \A D \in SUBSET DivTeams : Cardinality(D) < Cardinality(S) => g[D] = h[D]
  PROVE  TiersFrom(g, S) = TiersFrom(h, S)
  <1>1. CASE Len(Mini(S)) <= 1
    BY <1>1 DEF TiersFrom
  <1>2. CASE ~(Len(Mini(S)) <= 1)
    <2>1. SplitsBy(Mini(S), S, Points(S)) /\ IsFiniteSet(S) /\ \A t \in S : Points(S)[t] \in Int
      BY MiniIs
    <2>2. Len(Mini(S)) > 1
      <3>1. Len(Mini(S)) \in Nat
        BY <2>1 DEF SplitsBy
      <3> QED BY <3>1, <1>2
    <2>3. \A i \in DOMAIN Mini(S) :
            Mini(S)[i] \in SUBSET S /\ Cardinality(Mini(S)[i]) < Cardinality(S)
      <3>1. PICK c, m : c = Points(S) /\ m = Mini(S)
        OBVIOUS
      <3>2. SplitsBy(m, S, c) /\ (\A t \in S : c[t] \in Int) /\ Len(m) > 1
        BY <2>1, <2>2, <3>1
      <3>3. \A i \in DOMAIN m : m[i] \in SUBSET S /\ Cardinality(m[i]) < Cardinality(S)
        BY <2>1, <3>2, PartsSmaller
      <3> QED BY <3>1, <3>3
    <2>4. \A i \in DOMAIN Mini(S) : g[Mini(S)[i]] = h[Mini(S)[i]]
      BY <2>3
    <2>5. [i \in DOMAIN Mini(S) |-> g[Mini(S)[i]]] = [i \in DOMAIN Mini(S) |-> h[Mini(S)[i]]]
      BY <2>4
    <2> QED BY <1>2, <2>5 DEF TiersFrom
  <1> QED BY <1>1, <1>2

\* There is such a table.
LEMMA TierTablesExist ==
  ASSUME NEW k \in Nat
  PROVE  \E g : TierTable(g, k)
  <1> DEFINE Not == {n \in 0..k : ~ \E g : TierTable(g, n)}
  <1> SUFFICES ASSUME Not # {} PROVE FALSE
    BY DEF Not
  <1>1. PICK n \in Not : \A j \in Not : n <= j
    <2>0. IsFiniteSet(0..k)
      BY FS_Interval
    <2>1. IsFiniteSet(Not) /\ \A j \in Not : j \in Nat
      BY <2>0, FS_Subset
    <2> HIDE DEF Not
    <2> QED BY <2>1, MinIs
  <1>2. n \in 0..k /\ ~ \E g : TierTable(g, n)
    BY <1>1
  <1>3. n # 0
    <2>1. \A S \in SUBSET DivTeams : ~(Cardinality(S) < 0)
      <3>1. \A S \in SUBSET DivTeams : Cardinality(S) \in Nat
        BY MiniIs
      <3> QED BY <3>1
    <2>2. \A g : TierTable(g, 0)
      BY <2>1 DEF TierTable
    <2> QED BY <2>2, <1>2
  <1>4. n - 1 \in 0..k /\ n - 1 \notin Not
    BY <1>1, <1>2, <1>3
  <1>5. PICK g : TierTable(g, n - 1)
    BY <1>4
  <1>6. PICK h : h = [S \in SUBSET DivTeams |-> TiersFrom(g, S)]
    OBVIOUS
  <1>7. \A S \in SUBSET DivTeams : Cardinality(S) < n - 1 => g[S] = h[S]
    BY <1>5, <1>6 DEF TierTable
  <1>8. ASSUME NEW S \in SUBSET DivTeams, Cardinality(S) < n
        PROVE  h[S] = TiersFrom(h, S)
    <2>1. Cardinality(S) \in Nat
      BY MiniIs
    <2>2. \A D \in SUBSET DivTeams : Cardinality(D) < Cardinality(S) => g[D] = h[D]
      <3>1. SUFFICES ASSUME NEW D \in SUBSET DivTeams, Cardinality(D) < Cardinality(S)
                     PROVE  g[D] = h[D]
        OBVIOUS
      <3>2. Cardinality(D) \in Nat
        BY MiniIs
      <3>3. Cardinality(D) < n - 1
        BY <3>1, <3>2, <2>1, <1>2, <1>8
      <3> QED BY <3>3, <1>7
    <2>3. TiersFrom(g, S) = TiersFrom(h, S)
      BY <2>2, TiersFromSmaller
    <2> QED BY <2>3, <1>6
  <1>9. TierTable(h, n)
    BY <1>8 DEF TierTable
  <1> QED BY <1>2, <1>9

\* The tiers of a group, one level of its recursion.
LEMMA H2HTiersAre ==
  ASSUME NEW S \in SUBSET DivTeams
  PROVE  H2HTiers(S) = IF Len(Mini(S)) <= 1 THEN Mini(S)
                       ELSE FlattenSeq([i \in DOMAIN Mini(S) |-> H2HTiers(Mini(S)[i])])
  <1> DEFINE Table(g) == g = [D \in SUBSET DivTeams |-> TiersFrom(g, D)]
             table == CHOOSE g : Table(g)
  <1>1. \A D : H2HTiers(D) = table[D]
    BY DEF H2HTiers, TiersFrom, Mini
  <1>2. \E g : Table(g)
    <2>1. Cardinality(DivTeams) + 1 \in Nat
      BY TeamsCounted
    <2>2. PICK f : TierTable(f, Cardinality(DivTeams) + 1)
      BY <2>1, TierTablesExist
    <2>3. \A D \in SUBSET DivTeams : f[D] = TiersFrom(f, D)
      <3>1. SUFFICES ASSUME NEW D \in SUBSET DivTeams
                     PROVE  Cardinality(D) < Cardinality(DivTeams) + 1
        BY <2>2 DEF TierTable
      <3> QED BY MiniIs, TeamsCounted
    <2>4. PICK g : g = [D \in SUBSET DivTeams |-> TiersFrom(f, D)]
      OBVIOUS
    <2>5. \A D \in SUBSET DivTeams : g[D] = f[D]
      BY <2>3, <2>4
    <2>6. \A D \in SUBSET DivTeams : TiersFrom(f, D) = TiersFrom(g, D)
      BY <2>5, TiersFromSmaller
    <2>7. Table(g)
      BY <2>4, <2>6
    <2> QED BY <2>7
  <1>3. Table(table)
    BY <1>2
  <1> HIDE DEF table
  <1>4. table[S] = TiersFrom(table, S)
    BY <1>3
  <1>5. \A i \in DOMAIN Mini(S) : table[Mini(S)[i]] = H2HTiers(Mini(S)[i])
    BY <1>1
  <1>6. [i \in DOMAIN Mini(S) |-> table[Mini(S)[i]]]
          = [i \in DOMAIN Mini(S) |-> H2HTiers(Mini(S)[i])]
    BY <1>5
  <1> QED BY <1>1, <1>4, <1>6 DEF TiersFrom

\* A group that its mini-table does not split stays together.
LEMMA StaysTogether ==
  ASSUME NEW n \in Nat, n >= 2, NEW C \in Classes[n],
         \A a, b \in C : Points(C)[a] = Points(C)[b],
         NEW m \in n..RulesNeeded
  PROVE  C \in Classes[m]
  <1> DEFINE Bad == {k \in n..RulesNeeded : C \notin Classes[k]}
  <1> SUFFICES ASSUME Bad # {} PROVE FALSE
    OBVIOUS
  <1>0. RulesNeeded \in Nat
    BY TeamsCounted
  <1>1. PICK k \in Bad : \A j \in Bad : k <= j
    <2>1. IsFiniteSet(n..RulesNeeded) /\ \A j \in n..RulesNeeded : j \in Nat
      BY <1>0, FS_Interval
    <2>2. Bad \subseteq n..RulesNeeded
      OBVIOUS
    <2>3. IsFiniteSet(Bad) /\ \A j \in Bad : j \in Nat
      BY <2>1, <2>2, FS_Subset
    <2> HIDE DEF Bad
    <2> QED BY <2>3, MinIs
  <1>2. k \in n..RulesNeeded /\ C \notin Classes[k] /\ k # n
    BY <1>1
  <1>3. PICK j \in Nat : j = k - 1
    BY <1>2, <1>0
  <1>4. j \in n..RulesNeeded /\ j \notin Bad /\ j + 1 = k /\ j + 1 \in 1..RulesNeeded
    BY <1>0, <1>1, <1>2, <1>3
  <1>5. C \in Classes[j]
    BY <1>4
  <1>6. Rule(j + 1, C) = Points(C)
    BY <1>4 DEF Rule
  <1>7. C # {}
    <2>1. (n - 1) + 1 = n /\ n \in 1..RulesNeeded
      BY <1>0, <1>2
    <2>2. \E B \in Classes[n - 1] : \E t \in B : C = {u \in B : Rule(n, B)[u] = Rule(n, B)[t]}
      BY <2>1, ClassFrom
    <2> QED BY <2>2
  <1>8. PICK t \in C : TRUE
    BY <1>7
  <1>9. C = {u \in C : Rule(j + 1, C)[u] = Rule(j + 1, C)[t]}
    BY <1>6
  <1>10. C \in Refined(j + 1, C)
    BY <1>9 DEF Refined
  <1>11. (j + 1) - 1 = j
    OBVIOUS
  <1>12. Classes[j + 1] = UNION {Refined(j + 1, D) : D \in Classes[j]}
    BY <1>4, <1>11, ClassesAre
  <1> QED BY <1>2, <1>4, <1>5, <1>10, <1>12

\* The head-to-head tiers rank a class as the rules do.
H2HGood(k) ==
  \A n \in 2..RulesNeeded : \A C \in Classes[n] :
    Cardinality(C) = k /\ n + k <= RulesNeeded => RanksBy(H2HTiers(C), C)

\* If it is so for smaller groups, it is for a group of this size.
LEMMA H2HOneLevel ==
  ASSUME NEW k \in Nat, \A j \in 0..(k - 1) : H2HGood(j)
  PROVE  H2HGood(k)
  <1>1. SUFFICES ASSUME NEW n \in 2..RulesNeeded, NEW C \in Classes[n], Cardinality(C) = k,
                        n + k <= RulesNeeded
                 PROVE  RanksBy(H2HTiers(C), C)
    BY DEF H2HGood
  <1>2. RulesNeeded \in Nat /\ n \in Nat /\ n >= 2 /\ n \in 0..RulesNeeded
    BY TeamsCounted
  <1>3. ClassesSound(n) /\ C \in SUBSET DivTeams
    <2>1. ClassesSound(n)
      BY <1>2, ClassesAreSound
    <2> QED BY <2>1 DEF ClassesSound
  <1>4. PICK parts : parts = Mini(C)
    OBVIOUS
  <1>5. /\ IsFiniteSet(C) /\ SplitsBy(parts, C, Points(C))
        /\ \A t \in C : Points(C)[t] \in Int
    BY <1>3, <1>4, MiniIs
  <1>6. PICK l \in Nat : l = Len(parts) /\ DOMAIN parts = 1..l
    BY <1>5 DEF SplitsBy
  <1>7. CASE l <= 1
    <2>1. H2HTiers(C) = parts
      BY <1>3, <1>4, <1>6, <1>7, H2HTiersAre
    <2>2. \A i, j \in DOMAIN parts : i = j
      BY <1>6, <1>7
    <2>3. ASSUME NEW a \in C, NEW b \in C PROVE Points(C)[a] = Points(C)[b]
      <3>1. PICK i \in DOMAIN parts : a \in parts[i]
        BY <1>5 DEF SplitsBy
      <3>2. PICK j \in DOMAIN parts : b \in parts[j]
        BY <1>5 DEF SplitsBy
      <3>3. i = j
        BY <2>2
      <3>4. \E t \in C : parts[i] = {u \in C : Points(C)[u] = Points(C)[t]}
        BY <1>5 DEF SplitsBy
      <3> QED BY <3>1, <3>2, <3>3, <3>4
    <2>4. ASSUME NEW a \in C, NEW b \in C PROVE <<a, b>> \notin Outranks
      <3>1. SUFFICES ASSUME <<a, b>> \in Outranks PROVE FALSE
        OBVIOUS
      <3>2. PICK m \in (n + 1)..RulesNeeded : \E D \in Classes[m - 1] :
              a \in D /\ b \in D /\ Rule(m, D)[a] > Rule(m, D)[b]
        BY <1>2, <3>1, DecidedLater
      <3>3. PICK D \in Classes[m - 1] : a \in D /\ b \in D /\ Rule(m, D)[a] > Rule(m, D)[b]
        BY <3>2
      <3>4. m - 1 \in n..RulesNeeded /\ m - 1 \in 0..RulesNeeded /\ m >= 3 /\ m \in Nat
        BY <1>2
      <3>5. C \in Classes[m - 1]
        BY <1>2, <2>3, <3>4, StaysTogether
      <3>6. ClassesSound(m - 1)
        BY <3>4, ClassesAreSound
      <3>7. D = C
        BY <3>3, <3>5, <3>6 DEF ClassesSound
      <3>8. Rule(m, C) = Points(C)
        BY <3>4 DEF Rule
      <3>9. Points(C)[a] = Points(C)[b] /\ Points(C)[a] \in Int
        BY <2>3, <1>5
      <3> QED BY <3>3, <3>7, <3>8, <3>9
    <2>5. \A i \in DOMAIN parts : parts[i] \in SUBSET C
      BY <1>5 DEF SplitsBy
    <2>6. parts \in Seq(SUBSET C) /\ \A t \in C : \E i \in DOMAIN parts : t \in parts[i]
      BY <1>5 DEF SplitsBy
    <2>7. \A i, j \in DOMAIN parts : ~(i < j)
      BY <1>6, <1>7
    <2>8. RanksBy(parts, C)
      BY <2>4, <2>5, <2>6, <2>7 DEF RanksBy
    <2> QED BY <2>1, <2>8
  <1>8. CASE l > 1
    <2>1. k > 0
      <3>1. 1 \in DOMAIN parts
        BY <1>6, <1>8
      <3>2. PICK t \in C : TRUE
        BY <3>1, <1>5 DEF SplitsBy
      <3> QED BY <3>2, <1>1, <1>5, FS_EmptySet
    <2>2. n + 1 \in 1..RulesNeeded /\ n + 1 \in 2..RulesNeeded
      BY <2>1, <1>1, <1>2
    <2>3. SplitsBy(parts, C, Rule(n + 1, C))
      <3>1. Rule(n + 1, C) = Points(C)
        BY <1>2 DEF Rule
      <3> QED BY <3>1, <1>5
    <2>4. PICK q : q = [i \in DOMAIN parts |-> H2HTiers(parts[i])]
      OBVIOUS
    <2>5. H2HTiers(C) = FlattenSeq(q)
      BY <1>3, <1>4, <1>6, <1>8, <2>4, H2HTiersAre
    <2>6. ASSUME NEW i \in DOMAIN parts PROVE RanksBy(H2HTiers(parts[i]), parts[i])
      <3>1. parts[i] \in Classes[n + 1]
        BY <1>2, <2>2, <2>3, PartedIntoClasses
      <3>2. Cardinality(parts[i]) \in Nat /\ Cardinality(parts[i]) < k
        <4>1. PICK c : c = Points(C)
          OBVIOUS
        <4>2. SplitsBy(parts, C, c) /\ (\A t \in C : c[t] \in Int) /\ Len(parts) > 1
          BY <4>1, <1>5, <1>6, <1>8
        <4> QED BY <4>2, <1>1, <1>5, PartsSmaller
      <3>3. PICK j \in 0..(k - 1) : j = Cardinality(parts[i])
        BY <3>2
      <3>4. (n + 1) + j <= RulesNeeded
        BY <3>3, <1>1, <1>2
      <3>5. H2HGood(j)
        BY <3>3
      <3> QED BY <3>1, <3>3, <3>4, <3>5, <2>2 DEF H2HGood
    <2>7. q = [i \in DOMAIN parts |-> q[i]] /\ \A i \in DOMAIN parts : RanksBy(q[i], parts[i])
      BY <2>4, <2>6
    <2>8. RanksBy(FlattenSeq(q), C)
      BY <1>2, <2>2, <2>3, <2>7, PartsRanked
    <2> QED BY <2>5, <2>8
  <1> QED BY <1>6, <1>7, <1>8

\* So for the teams level on points and series wins.
LEMMA H2HRanks ==
  ASSUME NEW C \in Classes[2]
  PROVE  RanksBy(H2HTiers(C), C)
  <1>1. /\ RulesNeeded \in Nat /\ 2 \in 2..RulesNeeded /\ 2 \in 0..RulesNeeded
        /\ RulesNeeded = Cardinality(DivTeams) + 2
    BY TeamsCounted
  <1>2. ClassesSound(2)
    BY <1>1, ClassesAreSound
  <1>3. C \in SUBSET DivTeams
    BY <1>2 DEF ClassesSound
  <1>4. PICK c \in Nat : c = Cardinality(C) /\ 2 + c <= RulesNeeded
    BY <1>1, <1>3, MiniIs, TeamsCounted
  <1> DEFINE Bad == {k \in 0..c : ~H2HGood(k)}
  <1>5. Bad = {}
    <2>1. SUFFICES ASSUME Bad # {} PROVE FALSE
      OBVIOUS
    <2>2. PICK k \in Bad : \A j \in Bad : k <= j
      <3>0. 0 \in Int /\ c \in Int /\ \A j \in 0..c : j \in Nat
        OBVIOUS
      <3>1. IsFiniteSet(0..c) /\ \A j \in 0..c : j \in Nat
        BY ONLY <3>0, FS_Interval
      <3>2. Bad \subseteq 0..c
        OBVIOUS
      <3>3. IsFiniteSet(Bad) /\ \A j \in Bad : j \in Nat
        BY <3>1, <3>2, FS_Subset
      <3> HIDE DEF Bad
      <3> QED BY <2>1, <3>3, MinIs
    <2>3. k \in Nat /\ k \in 0..c /\ ~H2HGood(k)
      BY <2>2
    <2>4. \A j \in 0..(k - 1) : j \in 0..c /\ j \notin Bad
      BY <2>2, <2>3
    <2>5. \A j \in 0..(k - 1) : H2HGood(j)
      BY <2>4
    <2>6. H2HGood(k)
      BY <2>3, <2>5, H2HOneLevel
    <2> QED BY <2>3, <2>6
  <1>6. H2HGood(c)
    <2>1. c \in 0..c
      OBVIOUS
    <2> QED BY <2>1, <1>5
  <1> QED BY <1>1, <1>4, <1>6 DEF H2HGood

\* The teams level on points.
LEMMA LevelRanks ==
  ASSUME NEW C \in Classes[1]
  PROVE  RanksBy(LevelTiers(C), C)
  <1>1. RulesNeeded \in Nat /\ 1 + 1 \in 1..RulesNeeded /\ 1 \in 0..RulesNeeded
    BY TeamsCounted
  <1>2. ClassesSound(1)
    BY <1>1, ClassesAreSound
  <1>3. C \in SUBSET DivTeams /\ IsFiniteSet(C)
    <2>1. C \in SUBSET DivTeams
      BY <1>2 DEF ClassesSound
    <2> QED BY <2>1, MiniIs
  <1>4. Rule(1 + 1, C) = SeriesWins
    BY DEF Rule
  <1>5. PICK parts : parts = SplitBy(C, SeriesWins)
    OBVIOUS
  <1>6. SplitsBy(parts, C, Rule(1 + 1, C))
    <2>1. PICK c : c = SeriesWins
      OBVIOUS
    <2>2. \A t \in C : c[t] \in Int
      BY <2>1, <1>3, <1>4, RuleType
    <2>3. SplitsBy(SplitBy(C, c), C, c)
      BY <1>3, <2>2, SplitIs
    <2> QED BY <2>1, <2>3, <1>4, <1>5
  <1>7. PICK q : q = [i \in DOMAIN parts |-> H2HTiers(parts[i])]
    OBVIOUS
  <1>8. ASSUME NEW i \in DOMAIN parts PROVE RanksBy(H2HTiers(parts[i]), parts[i])
    <2>1. parts[i] \in Classes[1 + 1]
      BY <1>1, <1>6, PartedIntoClasses
    <2> QED BY <2>1, H2HRanks
  <1>9. q = [i \in DOMAIN parts |-> q[i]] /\ \A i \in DOMAIN parts : RanksBy(q[i], parts[i])
    BY <1>7, <1>8
  <1>10. RanksBy(FlattenSeq(q), C)
    BY <1>1, <1>6, <1>9, PartsRanked
  <1> QED BY <1>5, <1>7, <1>10 DEF LevelTiers

\* All teams of the division.
LEMMA TiersRank == RanksBy(Tiers, DivTeams)
  <1>1. RulesNeeded \in Nat /\ 0 + 1 \in 1..RulesNeeded
    BY TeamsCounted
  <1>2. DivTeams \in Classes[0] /\ DivTeams \in SUBSET DivTeams
    BY ClassesAre
  <1>3. Rule(0 + 1, DivTeams) = Points(DivTeams)
    BY DEF Rule
  <1>4. PICK parts : parts = SplitBy(DivTeams, Points(DivTeams))
    OBVIOUS
  <1>5. SplitsBy(parts, DivTeams, Rule(0 + 1, DivTeams))
    BY <1>2, <1>3, <1>4, MiniIs DEF Mini
  <1>6. PICK q : q = [i \in DOMAIN parts |-> LevelTiers(parts[i])]
    OBVIOUS
  <1>7. ASSUME NEW i \in DOMAIN parts PROVE RanksBy(LevelTiers(parts[i]), parts[i])
    <2>1. parts[i] \in Classes[0 + 1]
      BY <1>1, <1>2, <1>5, PartedIntoClasses
    <2> QED BY <2>1, LevelRanks
  <1>8. q = [i \in DOMAIN parts |-> q[i]] /\ \A i \in DOMAIN parts : RanksBy(q[i], parts[i])
    BY <1>6, <1>7
  <1>9. RanksBy(FlattenSeq(q), DivTeams)
    BY <1>1, <1>2, <1>5, <1>8, PartsRanked
  <1> QED BY <1>4, <1>6, <1>9 DEF Tiers

\* The tiers and the rules agree on every pair of teams.
LEMMA TiersFollow == TiersFollowRules(Tiers, Outranks)
  <1>1. PICK tiers : tiers = Tiers
    OBVIOUS
  <1>2. RanksBy(tiers, DivTeams)
    BY <1>1, TiersRank
  <1> DEFINE above == {q \in (DOMAIN tiers) \X (DOMAIN tiers) : q[1] < q[2]}
             product == UNION {tiers[p[1]] \X tiers[p[2]] : p \in above}
  <1>3. ASSUME NEW x \in Outranks PROVE x \in product
    <2>1. PICK a \in DivTeams, b \in DivTeams : x = <<a, b>>
      <3>1. PICK n \in 1..RulesNeeded : \E C \in Classes[n - 1] : x \in DecidedBy(n, C)
        BY DEF Outranks
      <3>2. PICK C \in Classes[n - 1] : x \in DecidedBy(n, C)
        BY <3>1
      <3>3. n - 1 \in 0..RulesNeeded
        BY TeamsCounted
      <3>4. ClassesSound(n - 1)
        BY <3>3, ClassesAreSound
      <3>5. C \in SUBSET DivTeams
        BY <3>4 DEF ClassesSound
      <3> QED BY <3>2, <3>5 DEF DecidedBy
    <2>2. PICK i \in DOMAIN tiers, j \in DOMAIN tiers : a \in tiers[i] /\ b \in tiers[j]
      BY <1>2 DEF RanksBy
    <2>3. i < j
      BY <1>2, <2>1, <2>2 DEF RanksBy
    <2>4. <<i, j>> \in above
      BY <2>3
    <2>5. <<a, b>> \in tiers[<<i, j>>[1]] \X tiers[<<i, j>>[2]]
      BY <2>2
    <2> HIDE DEF above
    <2> QED BY <2>1, <2>4, <2>5
  <1>4. ASSUME NEW x \in product PROVE x \in Outranks
    <2>1. PICK p \in above : x \in tiers[p[1]] \X tiers[p[2]]
      OBVIOUS
    <2>2. PICK i \in DOMAIN tiers, j \in DOMAIN tiers : p = <<i, j>> /\ i < j
      BY <2>1
    <2>3. PICK a \in tiers[i], b \in tiers[j] : x = <<a, b>>
      BY <2>1, <2>2
    <2>4. <<a, b>> \in Outranks
      BY <1>2, <2>2, <2>3 DEF RanksBy
    <2> QED BY <2>3, <2>4
  <1> HIDE DEF product
  <1>5. Outranks = product
    BY <1>3, <1>4
  <1> QED BY <1>1, <1>5 DEF product, TiersFollowRules

-----------------------------------------------------------------------------
(* The table of the group: the seeds *)

\* The admin's order, the teams' ids elsewhere, puts the teams of each tier in a line.
LEMMA TiersInLine ==
  ASSUME NEW tiers, RanksBy(tiers, DivTeams), NEW order \in Orders(tiers), NEW i \in DOMAIN tiers
  PROVE  InLine(tiers[i], InFlatOrder(order))
  <1> DEFINE tied == UNION HoldingTiers(tiers)
  <1>1. order \in Injection(tied, 1..Cardinality(tied))
    BY DEF Orders
  <1>2. PICK T \in SUBSET DivTeams : T = tiers[i]
    BY DEF RanksBy
  <1>3. T \subseteq tied \/ T \cap tied = {}
    <2>1. CASE T \in HoldingTiers(tiers)
      BY <2>1
    <2>2. CASE T \notin HoldingTiers(tiers)
      <3>1. ASSUME NEW t \in T, NEW H \in HoldingTiers(tiers), t \in H PROVE FALSE
        <4>1. PICK j \in DOMAIN tiers : H = tiers[j]
          BY DEF HoldingTiers
        <4>2. (i < j <=> <<t, t>> \in Outranks) /\ (j < i <=> <<t, t>> \in Outranks)
          BY <4>1, <3>1, <1>2 DEF RanksBy
        <4>3. i \in Int /\ j \in Int
          <5>1. DOMAIN tiers = 1..Len(tiers)
            BY DEF RanksBy
          <5> QED BY <5>1
        <4>4. i = j
          BY <4>2, <4>3
        <4> QED BY <4>1, <4>4, <1>2, <2>2
      <3> QED BY <3>1
    <2> QED BY <2>1, <2>2
  <1> HIDE DEF tied
  <1>4. DOMAIN order = tied /\ (\A t \in tied : order[t] \in 1..Cardinality(tied))
        /\ \A t, u \in tied : order[t] = order[u] => t = u
    BY <1>1 DEF Injection, IsInjective
  <1>5. \A t \in DivTeams : t \in Nat
    BY TeamsCounted
  <1>6. \A x, y \in T :
          /\ x \in tied /\ y \in tied => (<<x, y>> \in InFlatOrder(order) <=> order[x] < order[y])
          /\ x \notin tied => (<<x, y>> \in InFlatOrder(order) <=> x < y)
    <2>1. SUFFICES ASSUME NEW x \in T, NEW y \in T
                   PROVE  /\ x \in tied /\ y \in tied =>
                               (<<x, y>> \in InFlatOrder(order) <=> order[x] < order[y])
                          /\ x \notin tied => (<<x, y>> \in InFlatOrder(order) <=> x < y)
      OBVIOUS
    <2>2. <<x, y>> \in DivTeams \X DivTeams
      BY <1>2
    <2>3. <<x, y>> \in InFlatOrder(order) <=>
            IF {x, y} \subseteq tied THEN order[x] < order[y] ELSE x < y
      BY <2>2, <1>4 DEF InFlatOrder
    <2>4. {x, y} \subseteq tied <=> x \in tied /\ y \in tied
      OBVIOUS
    <2> QED BY ONLY <2>3, <2>4
  <1>7. CASE T \subseteq tied
    <2>1. \A x, y \in T : <<x, y>> \in InFlatOrder(order) <=> order[x] < order[y]
      BY <1>6, <1>7
    <2>2. \A x, y \in T : order[x] \in Int /\ (order[x] = order[y] => x = y)
      <3>1. \A t \in tied : order[t] \in Int
        BY <1>4
      <3> QED BY <3>1, <1>4, <1>7
    <2>3. InLine(T, InFlatOrder(order))
      BY <2>1, <2>2 DEF InLine
    <2> QED BY <2>3, <1>2
  <1>8. CASE T \cap tied = {}
    <2>1. \A x, y \in T : <<x, y>> \in InFlatOrder(order) <=> x < y
      BY <1>6, <1>8
    <2>2. \A x \in T : x \in Int
      BY <1>2, <1>5
    <2>3. InLine(T, InFlatOrder(order))
      BY <2>1, <2>2 DEF InLine
    <2> QED BY <2>3, <1>2
  <1> QED BY <1>3, <1>7, <1>8

\* The flat order has every team once, and a team of a better tier before one of a worse.
LEMMA FlatOrderIs ==
  ASSUME NEW tiers, RanksBy(tiers, DivTeams), NEW order \in Orders(tiers)
  PROVE  /\ FlatOrder(tiers, order) \in Seq(DivTeams)
         /\ Len(FlatOrder(tiers, order)) = Cardinality(DivTeams)
         /\ \A p, q \in 1..Len(FlatOrder(tiers, order)) :
              FlatOrder(tiers, order)[p] = FlatOrder(tiers, order)[q] => p = q
         /\ \A t \in DivTeams : \E p \in 1..Len(FlatOrder(tiers, order)) :
              FlatOrder(tiers, order)[p] = t
         /\ \A p, q \in 1..Len(FlatOrder(tiers, order)) :
              <<FlatOrder(tiers, order)[p], FlatOrder(tiers, order)[q]>> \in Outranks => p < q
  <1>1. PICK l \in Nat : l = Len(tiers) /\ DOMAIN tiers = 1..l
    BY DEF RanksBy
  <1>2. PICK ss : ss = [i \in 1..l |-> AsList(tiers[i], InFlatOrder(order))]
    OBVIOUS
  <1>3. ASSUME NEW i \in 1..l
        PROVE  /\ ss[i] \in Seq(tiers[i]) /\ ss[i] \in Seq(DivTeams) /\ Len(ss[i]) \in Nat
               /\ \A j, k \in 1..Len(ss[i]) : ss[i][j] = ss[i][k] => j = k
               /\ \A x \in tiers[i] : \E j \in 1..Len(ss[i]) : ss[i][j] = x
    <2>1. PICK T \in SUBSET DivTeams : T = tiers[i]
      BY <1>1 DEF RanksBy
    <2>2. IsFiniteSet(T)
      BY MiniIs
    <2>3. PICK B : B = InFlatOrder(order)
      OBVIOUS
    <2>4. InLine(T, B)
      BY <1>1, <2>1, <2>3, TiersInLine
    <2>5. PICK list : list = AsList(T, B)
      OBVIOUS
    <2>6. /\ list \in Seq(T)
          /\ \A j, k \in 1..Len(list) : list[j] = list[k] => j = k
          /\ \A x \in T : \E j \in 1..Len(list) : list[j] = x
      BY <2>2, <2>4, <2>5, AsListIs
    <2>7. ss[i] = list
      BY <1>2, <2>1, <2>3, <2>5
    <2>8. list \in Seq(DivTeams) /\ Len(list) \in Nat
      BY <2>1, <2>6
    <2> QED BY <2>1, <2>6, <2>7, <2>8
  <1>4. ss \in Seq(Seq(DivTeams)) /\ Len(ss) = l
    <2>1. PICK Y : Y = Seq(DivTeams)
      OBVIOUS
    <2>2. \A i \in 1..l : ss[i] \in Y
      BY <2>1, <1>3
    <2>3. ss \in [1..l -> Y]
      BY ONLY <2>2, <1>2
    <2>4. ss \in Seq(Y) /\ Len(ss) = l
      BY ONLY <2>3, l \in Nat
    <2> QED BY <2>1, <2>4
  <1>5. PICK f : f = FlattenSeq(ss)
    OBVIOUS
  <1>6. f \in Seq(DivTeams) /\ \E r, c : Flattens(f, ss, r, c, l)
    BY <1>4, <1>5, FlattenIs
  <1>7. PICK row, col : Flattens(f, ss, row, col, l)
    BY <1>6
  <1>8. PICK h \in Nat : h = Len(f) /\ DOMAIN f = 1..h
    BY <1>6
  <1>9. /\ \A p \in 1..h :
              row[p] \in 1..l /\ col[p] \in 1..Len(ss[row[p]]) /\ f[p] = ss[row[p]][col[p]]
        /\ \A p, q \in 1..h : p < q => row[p] < row[q] \/ (row[p] = row[q] /\ col[p] < col[q])
        /\ \A i \in 1..l : \A k \in 1..Len(ss[i]) : \E p \in 1..h : row[p] = i /\ col[p] = k
    <2>1. /\ \A p \in 1..Len(f) :
               row[p] \in 1..l /\ col[p] \in 1..Len(ss[row[p]]) /\ f[p] = ss[row[p]][col[p]]
          /\ \A p, q \in 1..Len(f) :
               p < q => row[p] < row[q] \/ (row[p] = row[q] /\ col[p] < col[q])
          /\ \A i \in 1..l : \A k \in 1..Len(ss[i]) : \E p \in 1..Len(f) : row[p] = i /\ col[p] = k
      BY ONLY <1>7, Zenon DEF Flattens
    <2> QED BY ONLY <2>1, <1>8
  <1>10. ASSUME NEW p \in 1..h PROVE f[p] \in tiers[row[p]] /\ row[p] \in 1..l
    <2>1. PICK i \in 1..l : i = row[p]
      BY <1>9
    <2>2. PICK k \in 1..Len(ss[i]) : k = col[p] /\ f[p] = ss[i][k]
      BY <2>1, <1>9
    <2>3. ss[i] \in Seq(tiers[i])
      BY <1>3
    <2>4. ss[i][k] \in tiers[i]
      BY <2>3
    <2> QED BY <2>1, <2>2, <2>4
  <1>11. ASSUME NEW p \in 1..h, NEW q \in 1..h PROVE
           row[p] < row[q] <=> <<f[p], f[q]>> \in Outranks
    BY <1>1, <1>10 DEF RanksBy
  <1>12. ASSUME NEW p \in 1..h, NEW q \in 1..h, f[p] = f[q] PROVE p = q
    <2>1. row[p] \in 1..l /\ row[q] \in 1..l
      BY <1>10
    <2>2. row[p] < row[q] <=> row[q] < row[p]
      BY <1>11, <1>12
    <2>3. PICK i \in 1..l : i = row[p] /\ i = row[q]
      BY <2>1, <2>2
    <2>4. /\ col[p] \in 1..Len(ss[row[p]]) /\ f[p] = ss[row[p]][col[p]]
          /\ col[q] \in 1..Len(ss[row[q]]) /\ f[q] = ss[row[q]][col[q]]
      BY <1>9
    <2>5. PICK k \in 1..Len(ss[i]) : k = col[p] /\ f[p] = ss[i][k]
      BY ONLY <2>3, <2>4
    <2>6. PICK m \in 1..Len(ss[i]) : m = col[q] /\ f[q] = ss[i][m]
      BY ONLY <2>3, <2>4
    <2>7. k = m
      <3>1. \A j, u \in 1..Len(ss[i]) : ss[i][j] = ss[i][u] => j = u
        BY <1>3
      <3>2. ss[i][k] = ss[i][m]
        BY <1>12, <2>5, <2>6
      <3> QED BY ONLY <3>1, <3>2, k \in 1..Len(ss[i]), m \in 1..Len(ss[i])
    <2>8. ~(p < q) /\ ~(q < p)
      <3>1. p < q => row[p] < row[q] \/ (row[p] = row[q] /\ col[p] < col[q])
        BY <1>9
      <3>2. q < p => row[q] < row[p] \/ (row[q] = row[p] /\ col[q] < col[p])
        BY <1>9
      <3>3. ~(i < i) /\ ~(k < k)
        BY <2>5
      <3> QED BY <3>1, <3>2, <3>3, <2>3, <2>5, <2>6, <2>7
    <2> QED BY <2>8
  <1>13. ASSUME NEW t \in DivTeams PROVE \E p \in 1..h : f[p] = t
    <2>1. PICK i \in 1..l : t \in tiers[i]
      BY <1>1 DEF RanksBy
    <2>2. PICK k \in 1..Len(ss[i]) : ss[i][k] = t
      BY <2>1, <1>3
    <2>3. PICK p \in 1..h : row[p] = i /\ col[p] = k
      BY <2>2, <1>9
    <2> QED BY <2>2, <2>3, <1>9
  <1>14. ASSUME NEW p \in 1..h, NEW q \in 1..h, <<f[p], f[q]>> \in Outranks PROVE p < q
    <2>1. row[p] < row[q] /\ row[p] \in 1..l /\ row[q] \in 1..l
      BY <1>10, <1>11, <1>14
    <2>2. q < p => row[q] < row[p] \/ (row[q] = row[p] /\ col[q] < col[p])
      BY <1>9
    <2>3. p # q /\ ~(q < p)
      BY <2>1, <2>2
    <2> QED BY <2>3
  <1>15. h = Cardinality(DivTeams)
    <2>1. f \in [1..h -> DivTeams]
      BY <1>6, <1>8
    <2>2. f \in Injection(1..h, DivTeams)
      BY <2>1, <1>12 DEF Injection, IsInjective
    <2>3. f \in Surjection(1..h, DivTeams)
      BY <2>1, <1>13 DEF Surjection
    <2>4. f \in Bijection(1..h, DivTeams)
      BY <2>2, <2>3 DEF Bijection
    <2>5. ExistsBijection(1..h, DivTeams)
      BY <2>4 DEF ExistsBijection
    <2> QED BY <2>5, FS_CountingElements
  <1>16. FlatOrder(tiers, order) = f
    BY <1>1, <1>2, <1>5 DEF FlatOrder
  <1> QED BY <1>6, <1>8, <1>12, <1>13, <1>14, <1>15, <1>16

\* The seeds are the first teams of that order.
LEMMA SeedsAreUnbeaten ==
  ASSUME NEW f \in Seq(DivTeams), Len(f) >= SeedsInBracket,
         \A p, q \in 1..Len(f) : f[p] = f[q] => p = q,
         \A t \in DivTeams : \E p \in 1..Len(f) : f[p] = t,
         \A p, q \in 1..Len(f) : <<f[p], f[q]>> \in Outranks => p < q
  PROVE  SeedsUnbeaten(f, Outranks)
  <1> DEFINE seeds == {f[i] : i \in 1..SeedsInBracket}
  <1>1. SeedsInBracket \in Nat /\ Len(f) \in Nat
    BY TeamsCounted
  <1>2. \A i \in 1..SeedsInBracket : i \in 1..Len(f)
    BY <1>1
  <1>3. Cardinality(seeds) = SeedsInBracket
    <2>1. PICK g : g = [i \in 1..SeedsInBracket |-> f[i]]
      OBVIOUS
    <2>2. g \in [1..SeedsInBracket -> seeds]
          /\ \A s \in seeds : \E i \in 1..SeedsInBracket : g[i] = s
      BY <2>1
    <2>3. \A i, j \in 1..SeedsInBracket : g[i] = g[j] => i = j
      BY <2>1, <1>2
    <2>4. g \in Bijection(1..SeedsInBracket, seeds)
      <3> HIDE DEF seeds
      <3> QED BY <2>2, <2>3 DEF Bijection, Injection, Surjection, IsInjective
    <2>5. ExistsBijection(1..SeedsInBracket, seeds)
      BY <2>4 DEF ExistsBijection
    <2> HIDE DEF seeds
    <2> QED BY <2>5, <1>1, FS_CountingElements
  <1>4. ASSUME NEW t \in DivTeams \ seeds, NEW s \in seeds, <<t, s>> \in Outranks PROVE FALSE
    <2>1. PICK p \in 1..Len(f) : f[p] = t
      OBVIOUS
    <2>2. PICK q \in 1..SeedsInBracket : f[q] = s
      OBVIOUS
    <2>3. p \notin 1..SeedsInBracket
      BY <2>1
    <2>4. p < q
      BY <2>1, <2>2, <1>2, <1>4
    <2> QED BY <2>1, <2>2, <2>3, <2>4, <1>1
  <1> QED BY <1>3, <1>4 DEF SeedsUnbeaten

\* Whatever the results, the table ranks and the bracket seeds as the rules do.
LEMMA SeedingAlways == SeedingFollowsRules
  <1>1. TiersFollowRules(Tiers, Outranks)
    BY TiersFollow
  <1>2. ASSUME Complete, NEW order \in Orders(Tiers)
        PROVE  SeedsUnbeaten(FlatOrder(Tiers, order), Outranks)
    <2>1. PICK f, tiers : tiers = Tiers /\ f = FlatOrder(tiers, order)
      OBVIOUS
    <2>2. RanksBy(tiers, DivTeams) /\ order \in Orders(tiers)
      BY <2>1, TiersRank
    <2>3. /\ f \in Seq(DivTeams) /\ Len(f) = Cardinality(DivTeams)
          /\ \A p, q \in 1..Len(f) : f[p] = f[q] => p = q
          /\ \A t \in DivTeams : \E p \in 1..Len(f) : f[p] = t
          /\ \A p, q \in 1..Len(f) : <<f[p], f[q]>> \in Outranks => p < q
      BY <2>1, <2>2, FlatOrderIs
    <2>4. Len(f) >= SeedsInBracket
      BY <1>2, <2>3 DEF Complete
    <2>5. SeedsUnbeaten(f, Outranks)
      BY <2>3, <2>4, SeedsAreUnbeaten
    <2> QED BY <2>1, <2>5
  <1> QED BY <1>1, <1>2 DEF SeedingFollowsRules

\* The head-to-head of finals.py with its recursion ranks any number of teams with any
\* results as the rules do, one after the other, and no team outranks a seed, in every
\* order the admin may give the tied ones.
THEOREM SeedingHolds == TableSpec => []SeedingFollowsRules
  BY SeedingAlways, PTL

-----------------------------------------------------------------------------
(* Types: polls, ranks, finals and caches *)

\* What the polls and passes hold is of the leagues and games there are.
PollsTyped ==
  /\ now <= MaxNow /\ monitored \subseteq Leagues /\ ingested \subseteq PollGames
  /\ poll # NotYet => poll \subseteq Leagues
  /\ leaguePass # NotYet =>
       leaguePass \in [leagues : SUBSET Leagues, todo : SUBSET PollGames]

\* Each step of polls and passes leaves it so.
LEMMA PollsTypedKept ==
  ASSUME PollsTyped, PollingInv, [PollingNext]_pollingVars
  PROVE  PollsTyped'
  <1>1. CASE UNCHANGED pollingVars
    BY <1>1 DEF PollsTyped, pollingVars
  <1>2. CASE BeginPoll \/ PollFails \/ BeginPass \/ EndPass
    BY <1>2 DEF PollsTyped, BeginPoll, PollFails, BeginPass, EndPass
  <1>3. CASE PollTick
    <2>1. now' <= MaxNow
      BY <1>3, PollingAssumption DEF PollingAssumption, PollingInv, PollTick
    <2> QED BY <1>3, <2>1 DEF PollsTyped, PollTick
  <1>4. ASSUME NEW listed \in SUBSET BeingPlayed, StoreLive(listed) PROVE PollsTyped'
    BY <1>4 DEF PollsTyped, StoreLive
  <1>5. ASSUME NEW l \in Leagues, Monitor(l) \/ StopMonitoring(l) \/ Purge(l) PROVE PollsTyped'
    BY <1>5 DEF PollsTyped, Monitor, StopMonitoring, Purge
  <1>6. ASSUME NEW l \in Leagues, NEW listed \in SUBSET OfLeague(l), ListLeague(l, listed)
        PROVE  PollsTyped'
    BY <1>6 DEF PollsTyped, ListLeague, OfLeague
  <1>7. ASSUME NEW g \in PollGames, NEW isStored, IngestListed(g, isStored) PROVE PollsTyped'
    BY <1>7 DEF PollsTyped, IngestListed
  <1>8. CASE PollRestart
    BY <1>8 DEF PollsTyped, PollRestart
  <1> QED BY <1>1, <1>2, <1>3, <1>4, <1>5, <1>6, <1>7, <1>8 DEF PollingNext

\* PollingTypeOK: whatever is polled, ingested, purged and restarted.
THEOREM PollingTyped == PollingSpec => []PollingTypeOK
  <1>1. PollingInit => PollsTyped
    BY PollingAssumption DEF PollingAssumption, PollingInit, PollsTyped
  <1>2. PollsTyped /\ PollingInv => PollingTypeOK
    BY DEF PollsTyped, PollingInv, SoundRow, PollingTypeOK
  <1> QED BY <1>1, <1>2, PollsTypedKept, PollingInvariant, PTL DEF PollingSpec

\* Ranks are of times there were, or were never fetched.
RanksInTime == tick <= LastTick /\ \A p \in PoolIds : rankAt[p] >= NoRank

\* Each step of the batches and of the pool leaves them so.
LEMMA RanksInTimeKept ==
  ASSUME RanksInTime, RanksInv, [RankNext]_rankVars
  PROVE  RanksInTime'
  <1>0. /\ tick \in Nat /\ rankAt \in [PoolIds -> Int] /\ NoRank \in Int /\ NoRank < 0
        /\ LastTick \in Nat
    BY EnrichmentAssumption DEF EnrichmentAssumption, RanksInv, RanksTyped, NoRank
  <1>1. CASE RankTick
    BY <1>0, <1>1 DEF RankTick, RanksInTime
  <1>2. CASE \E p \in PoolIds : tick' = tick /\ rankAt' = [rankAt EXCEPT ![p] = tick]
    BY <1>0, <1>2 DEF RanksInTime
  <1>3. CASE UNCHANGED <<tick, rankAt>>
    BY <1>3 DEF RanksInTime
  <1>4. ASSUME NEW r \in Runners, RankArrives(r)
        PROVE  \E p \in PoolIds : tick' = tick /\ rankAt' = [rankAt EXCEPT ![p] = tick]
    <2>1. batch[r].todo \in Seq(PoolIds) /\ batch[r].todo # <<>>
      BY <1>4 DEF RankArrives, RanksInv, RanksTyped
    <2>2. Head(batch[r].todo) \in PoolIds
      BY <2>1
    <2> QED BY <1>4, <2>2 DEF RankArrives
  <1>5. ASSUME NEW p \in PoolIds, AddToPool(p) PROVE RanksInTime'
    BY <1>5, <1>2 DEF AddToPool
  <1>6. \/ RankTick \/ UNCHANGED <<tick, rankAt>>
        \/ \E r \in Runners : RankArrives(r)
        \/ \E p \in PoolIds : AddToPool(p)
    BY DEF RankNext, rankVars, RankRestart, BeginBatch, RankFails, EndBatch, RemoveFromPool
  <1> QED BY <1>1, <1>2, <1>3, <1>4, <1>5, <1>6

\* RankTypeOK: whatever the batches are asked and whoever joins or leaves the pool.
THEOREM RanksTypedHolds == RankSpec => []RankTypeOK
  <1>1. RankInit => RanksInTime
    BY EnrichmentAssumption DEF EnrichmentAssumption, RankInit, RanksInTime, NoRank
  <1>2. RanksInTime /\ RanksInv => RankTypeOK
    <2> SUFFICES ASSUME RanksInTime, RanksInv PROVE RankTypeOK
      OBVIOUS
    <2>1. tick \in 0..LastTick /\ inPool \subseteq PoolIds
      BY EnrichmentAssumption DEF EnrichmentAssumption, RanksInTime, RanksInv, RanksTyped
    <2>2. \A p \in PoolIds : rankAt[p] \in NoRank..tick
      BY EnrichmentAssumption DEF EnrichmentAssumption, RanksInTime, RanksInv, RanksTyped, NoRank
    <2>3. ASSUME NEW r \in Runners
          PROVE  ToSet(batch[r].todo) \cup batch[r].passed \subseteq PoolIds
      BY DEF RanksInv, RanksTyped, ToSet
    <2> QED BY <2>1, <2>2, <2>3 DEF RankTypeOK
  <1> QED BY <1>1, <1>2, RanksInTimeKept, RanksInvariant, PTL DEF RankSpec

\* FinalsTypeOK: whatever requests, matches and admins do to the bracket at the same time.
THEOREM FinalsTyped == FinalsSpec => []FinalsTypeOK
  <1>1. FinalsInv => FinalsTypeOK
    <2> SUFFICES ASSUME FinalsInv PROVE FinalsTypeOK
      OBVIOUS
    <2>1. time \in 1..MaxTime /\ resultAt \in 1..Never
      BY NeverIs DEF FinalsInv, WorldTypes, BracketSound, Never
    <2>2. bracket # NoBracket => bracket \in SavedBrackets
      BY DEF FinalsInv, BracketSound
    <2>3. \A i \in DOMAIN picks : picks[i] \in Saved
      BY DEF FinalsInv, BracketSound
    <2> QED BY <2>1, <2>2, <2>3 DEF FinalsTypeOK, SavedBrackets, Saved
  <1> QED BY <1>1, FinalsInvariant, PTL

\* The clock is in its bound, and no cache holds a version that is still to come.
CachesInTime ==
  /\ clock <= MaxClock
  /\ panel.body <= version
  /\ \A r \in CacheClients : cacheReq[r].op = "body" => cacheReq[r].read <= version
  /\ \A c \in KeyedCaches : keyed[c].key = Unset => keyed[c].value = Unset

\* Each step of the tables and of the caches leaves it so.
LEMMA CachesInTimeKept ==
  ASSUME CachesInTime, CachesInv, [CachesNext]_cacheVars
  PROVE  CachesInTime'
  <1>0. /\ clock \in Nat /\ version \in Nat /\ MaxClock \in Nat
        /\ panel.body \in Nat \cup {Unset}
        /\ cacheReq \in [CacheClients -> CacheRequests]
    BY CachesAssumption DEF CachesAssumption, CachesInv, TablesTyped, CachesTyped, RequestsSound
  <1>a. ASSUME NEW r \in CacheClients, NEW q, Steps(r, q), q.op = "body" => q.read <= version,
               version' = version
        PROVE  \A p \in CacheClients : cacheReq'[p].op = "body" => cacheReq'[p].read <= version'
    <2>1. \A p \in CacheClients : cacheReq'[p] = IF p = r THEN q ELSE cacheReq[p]
      BY <1>0, <1>a DEF Steps
    <2> QED BY <2>1, <1>a DEF CachesInTime
  <1>1. CASE UNCHANGED cacheVars
    BY <1>1 DEF CachesInTime, cacheVars
  <1>2. CASE PassTime
    <2>1. clock' <= MaxClock
      BY <1>0, <1>2 DEF PassTime
    <2> QED BY <1>2, <2>1 DEF CachesInTime, PassTime, storedVars
  <1>3. ASSUME NEW kind, Change(kind) PROVE CachesInTime'
    <2>1. version' = version + 1 /\ UNCHANGED <<clock, panel, keyed, cacheReq>>
      BY <1>3 DEF Change, storedVars
    <2>2. ASSUME NEW r \in CacheClients, cacheReq[r].op = "body"
          PROVE  cacheReq[r].read \in Nat
      BY <1>0, <2>2 DEF CacheRequests, Waiting
    <2>3. \A r \in CacheClients : cacheReq[r].op = "body" => cacheReq[r].read <= version + 1
      BY <1>0, <2>2 DEF CachesInTime
    <2>4. panel.body <= version + 1
      BY <1>0 DEF CachesInTime, Unset
    <2> QED BY <2>1, <2>3, <2>4 DEF CachesInTime
  <1>4. ASSUME NEW v, Bust(v) PROVE CachesInTime'
    <2>1. UNCHANGED <<clock, version, keyed, cacheReq>>
      BY <1>4 DEF Bust
    <2>2. panel' = panel \/ panel' = [panel EXCEPT !.body = Unset, !.generation = @ + 1]
      BY <1>4 DEF Bust
    <2>3. panel'.body \in {panel.body, Unset}
      BY <2>2 DEF CachesInv, CachesTyped
    <2>4. panel'.body <= version
      BY <1>0, <2>3 DEF CachesInTime, Unset
    <2> QED BY <2>1, <2>4 DEF CachesInTime
  <1>5. ASSUME NEW r \in CacheClients, NEW reached,
               \/ GetSchedule(r) \/ ScheduleHit(r) \/ ReadSchedule(r) \/ KeepSchedule(r)
               \/ FetchSchedule(r, reached)
        PROVE  CachesInTime'
    <2>1. TimeStands /\ UNCHANGED <<panel, keyed>>
      BY <1>5 DEF GetSchedule, ScheduleHit, FetchSchedule, ReadSchedule, KeepSchedule, storedVars
    <2>2. \E q : Steps(r, q) /\ q.op # "body"
      <3>1. CASE GetSchedule(r)
        BY <3>1 DEF GetSchedule
      <3>2. CASE ScheduleHit(r)
        BY <3>2 DEF ScheduleHit, Waiting
      <3>3. CASE ReadSchedule(r)
        BY <3>3 DEF ReadSchedule
      <3>4. CASE KeepSchedule(r)
        <4>1. CASE cacheReq[r].op = "data"
          BY <1>0, <3>4, <4>1 DEF KeepSchedule, CacheRequests, Waiting
        <4>2. CASE cacheReq[r].op # "data"
          BY <3>4, <4>2 DEF KeepSchedule, Waiting
        <4> QED BY <4>1, <4>2
      <3>5. CASE FetchSchedule(r, reached)
        <4>1. cacheReq[r].op = "fetch" /\ cacheReq[r] \in CacheRequests
          BY <1>0, <3>5 DEF FetchSchedule
        <4>2. [cacheReq[r] EXCEPT !.op = "compute"].op = "compute"
          BY <4>1 DEF CacheRequests, Waiting
        <4> PICK q : q = IF ~reached /\ schedule.data # Unset THEN Waiting
                         ELSE [cacheReq[r] EXCEPT !.op = "compute"]
          OBVIOUS
        <4>3. q.op # "body"
          BY <4>2 DEF Waiting
        <4> QED BY <3>5, <4>3 DEF FetchSchedule
      <3> QED BY <1>5, <3>1, <3>2, <3>3, <3>4, <3>5
    <2> QED BY <2>1, <2>2, <1>a DEF CachesInTime, TimeStands
  <1>6. ASSUME NEW r \in CacheClients, GetPanel(r) \/ ReadPanel(r) \/ KeepPanel(r)
        PROVE  CachesInTime'
    <2>1. TimeStands /\ UNCHANGED keyed
      BY <1>6 DEF GetPanel, ReadPanel, KeepPanel, storedVars
    <2>2. \E q : Steps(r, q) /\ (q.op = "body" => q.read <= version)
      BY <1>0, <1>6 DEF GetPanel, ReadPanel, KeepPanel, Waiting
    <2>3. panel'.body <= version
      <3>1. CASE UNCHANGED panel
        BY <3>1 DEF CachesInTime
      <3>2. CASE /\ cacheReq[r].op = "body"
                 /\ panel' = [panel EXCEPT !.body = cacheReq[r].read, !.at = clock]
        BY <3>2 DEF CachesInTime, CachesInv, CachesTyped
      <3> QED BY <1>6, <3>1, <3>2 DEF GetPanel, ReadPanel, KeepPanel, storedVars
    <2> QED BY <2>1, <2>2, <2>3, <1>a DEF CachesInTime, TimeStands
  <1>7. ASSUME NEW r \in CacheClients, NEW c \in KeyedCaches,
               GetKeyed(r, c) \/ LookUp(r) \/ ReadFigures(r) \/ KeepTeams(r)
        PROVE  CachesInTime'
    <2>0. /\ cacheReq[r] \in CacheRequests
          /\ keyed \in [KeyedCaches -> [key : (0..1) \cup {Unset}, at : Nat \cup {Unset},
                                         value : Nat \cup {Unset}]]
      BY <1>0 DEF CachesInv, CachesTyped
    <2>1. TimeStands /\ UNCHANGED panel
      BY <1>7 DEF GetKeyed, LookUp, ReadFigures, KeepTeams, storedVars
    <2>2. \E q : Steps(r, q) /\ q.op # "body"
      <3>1. CASE GetKeyed(r, c)
        BY <3>1 DEF GetKeyed
      <3>2. CASE LookUp(r)
        <4>1. [cacheReq[r] EXCEPT !.op = "figures"].op = "figures"
          BY <2>0, <3>2 DEF LookUp, CacheRequests, Waiting
        <4> PICK q : q = IF KeyedAnswers(r) THEN Waiting ELSE [cacheReq[r] EXCEPT !.op = "figures"]
          OBVIOUS
        <4>2. q.op # "body"
          BY <4>1 DEF Waiting
        <4> QED BY <3>2, <4>2 DEF LookUp
      <3>3. CASE ReadFigures(r)
        BY <3>3 DEF ReadFigures, Waiting
      <3>4. CASE KeepTeams(r)
        BY <3>4 DEF KeepTeams, Waiting
      <3> QED BY <1>7, <3>1, <3>2, <3>3, <3>4
    <2>3. \A d \in KeyedCaches : keyed'[d] = keyed[d] \/ keyed'[d].key # Unset
      <3>1. CASE UNCHANGED keyed
        BY <3>1
      <3>2. CASE ReadFigures(r) /\ cacheReq[r].cache = "league"
        <4>1. cacheReq[r].key # Unset
          BY <2>0, <3>2 DEF ReadFigures, CacheRequests, Waiting, Unset
        <4> QED BY <2>0, <3>2, <4>1 DEF ReadFigures, KeyedCaches
      <3>3. CASE KeepTeams(r)
        <4>1. cacheReq[r].of.key # Unset
          BY <2>0, <3>3 DEF KeepTeams, CacheRequests, Waiting, Unset
        <4> QED BY <2>0, <3>3, <4>1 DEF KeepTeams, KeyedCaches
      <3> QED BY <1>7, <3>1, <3>2, <3>3 DEF GetKeyed, LookUp, ReadFigures, KeepTeams, storedVars
    <2> QED BY <2>1, <2>2, <2>3, <1>a DEF CachesInTime, TimeStands
  <1>8. CASE ScheduleCacheNext
    BY <1>2, <1>3, <1>4, <1>5, <1>8 DEF ScheduleCacheNext, TablesChange
  <1>9. CASE PanelCacheNext
    BY <1>2, <1>3, <1>4, <1>6, <1>9 DEF PanelCacheNext, TablesChange
  <1>10. CASE KeyedCachesNext
    <2>1. "league" \in KeyedCaches
      BY DEF KeyedCaches
    <2> QED BY <1>2, <1>3, <1>4, <1>7, <1>10, <2>1 DEF KeyedCachesNext, TablesChange
  <1> QED BY <1>1, <1>8, <1>9, <1>10 DEF CachesNext

\* CachesTypeOK: whatever is kept, cleared and answered from what is kept.
THEOREM CachesTypedHolds == CachesSpec => []CachesTypeOK
  <1>1. CachesInit => CachesInTime
    BY CachesAssumption DEF CachesAssumption, CachesInit, CachesInTime, Waiting, Empty, Unset
  <1>2. CachesInTime /\ CachesInv => CachesTypeOK
    <2> SUFFICES ASSUME CachesInTime, CachesInv PROVE CachesTypeOK
      OBVIOUS
    <2>0. clock \in 0..MaxClock /\ version \in Nat
      BY CachesAssumption DEF CachesAssumption, CachesInTime, CachesInv, TablesTyped
    <2>1. schedule.data \in Unset..version /\ panel.body \in Unset..version
      BY <2>0 DEF CachesInTime, CachesInv, ScheduleHolds, CachesTyped, CurrentSince, Unset
    <2>2. ASSUME NEW c \in KeyedCaches PROVE keyed[c].value \in Unset..version
      <3>1. keyed[c].key = Unset => keyed[c].value = Unset
        BY DEF CachesInTime
      <3>2. keyed[c].key # Unset => keyed[c].value \in 0..version
        BY DEF CachesInv, KeyedHold, CurrentSince
      <3> QED BY <2>0, <3>1, <3>2 DEF Unset
    <2>3. Len(superseded) = version /\ Len(busts) = version
      BY DEF CachesInv, TablesTyped
    <2> QED BY <2>0, <2>1, <2>2, <2>3 DEF CachesTypeOK
  <1> QED BY <1>1, <1>2, CachesInTimeKept, CachesInvariant, PTL DEF CachesSpec

-----------------------------------------------------------------------------
(* Seasons: types *)

\* What a request writes is of seasons and accounts there are.
GoodRequest(q) ==
  /\ q.op = "end" => q.season \in Numbers
  /\ q.op = "set" => q.season \in Numbers /\ q.kind \in SetKinds /\ q.players \subseteq Pros
GoodTitle(t) == t.season \in Numbers /\ t.kind \in Kinds /\ t.who \in Holders(t.kind)
SeasonDays ==
  /\ day \in 1..MaxDay /\ newestMatch \in 0..MaxDay /\ newestLock \in 0..MaxDay
SeasonTyped ==
  /\ SeasonDays /\ leagueSeason \in Numbers \cup {0} /\ scored \subseteq Pros
  /\ \A row \in archive : row.season \in Numbers /\ row.who \in Fantasists
  /\ \A t \in titles : GoodTitle(t)
  /\ GoodRequest(seasonStalled)

\* A request, when it comes, is of a season there is.
LEMMA RequestsGood ==
  ASSUME NEW q \in Ends \cup Sets \cup Resets
  PROVE  GoodRequest(q)
  <1>1. CASE q \in Ends
    BY <1>1 DEF Ends, GoodRequest
  <1>2. CASE q \in Sets
    BY <1>2 DEF Sets, GoodRequest
  <1>3. CASE q \in Resets
    BY <1>3 DEF Resets, GoodRequest
  <1> QED BY <1>1, <1>2, <1>3

\* End Season, a correction and Reset keep the types.
LEMMA HandledTyped ==
  ASSUME SeasonTyped, NEW q, GoodRequest(q), NEW by, SeasonHandle(q, by),
         GoodRequest(seasonStalled')
  PROVE  SeasonTyped'
  <1>1. CASE EndSeason(q, by)
    <2> PICK champions \in SUBSET Pros :
          IF ArchiveFree(q.season)
          THEN /\ archive' = archive \cup
                    {[season |-> q.season, who |-> u, pts |-> q.pts[u], at |-> day,
                      by |-> by] : u \in Fantasists}
               /\ titles' = titles \cup SeasonTitles(q.season, champions)
               /\ recorded' = recorded \cup SeasonTitles(q.season, champions)
          ELSE UNCHANGED <<archive, titles, recorded>>
      BY <1>1, Zenon DEF EndSeason
    <2>1. UNCHANGED <<day, playVars>> /\ q.season \in Numbers
      BY <1>1 DEF EndSeason, GoodRequest
    <2>2. \A row \in archive' : row.season \in Numbers /\ row.who \in Fantasists
      BY <2>1 DEF SeasonTyped
    <2>3. \A t \in SeasonTitles(q.season, champions) : GoodTitle(t)
      <3>1. \A n \in Numbers, p \in Pros :
              GoodTitle(Title(n, "champion", p)) /\ GoodTitle(Title(n, "played", p))
        BY DEF GoodTitle, Title, Kinds, Holders
      <3>2. \A n \in Numbers, u \in Fantasists : GoodTitle(Title(n, "winner", u))
        BY DEF GoodTitle, Title, Kinds, Holders
      <3>3. scored \subseteq Pros /\ (IF scored = {} THEN {} ELSE Winners) \subseteq Fantasists
        BY DEF SeasonTyped, Winners
      <3> QED BY <2>1, <3>1, <3>2, <3>3 DEF SeasonTitles
    <2>4. \A t \in titles' : GoodTitle(t)
      BY <2>3 DEF SeasonTyped
    <2> QED BY <2>1, <2>2, <2>4 DEF SeasonTyped, SeasonDays, playVars, GoodTitle, GoodRequest,
                                    Holders
  <1>2. CASE SetTitle(q)
    <2>1. UNCHANGED <<day, playVars, archive>> /\ q.op = "set"
      BY <1>2 DEF SetTitle
    <2>2. \A p \in q.players : GoodTitle(Title(q.season, q.kind, p))
      BY <2>1, SeasonAssumption DEF SeasonAssumption, GoodRequest, GoodTitle, Title, Kinds, Holders
    <2>3. titles' \subseteq titles \cup {Title(q.season, q.kind, p) : p \in q.players}
      BY <1>2 DEF SetTitle
    <2>4. \A t \in titles' : GoodTitle(t)
      BY <2>2, <2>3 DEF SeasonTyped
    <2> QED BY <2>1, <2>4 DEF SeasonTyped, SeasonDays, playVars, GoodTitle, GoodRequest, Holders
  <1>3. CASE Reset(q)
    <2>1. /\ UNCHANGED <<day, archive, titles>> /\ scored' = {} /\ newestMatch' = 0
          /\ newestLock' = 0 /\ leagueSeason' = 0
      BY <1>3 DEF Reset, TitlesAfterReset
    <2>2. SeasonDays'
      BY <2>1, SeasonAssumption DEF SeasonAssumption, SeasonTyped, SeasonDays
    <2> QED BY <2>1, <2>2 DEF SeasonTyped, GoodTitle, GoodRequest, Holders
  <1> QED BY <1>1, <1>2, <1>3 DEF SeasonHandle

\* Each step of End Season, Reset, titles and play keeps the types.
LEMMA SeasonTypedKept ==
  ASSUME SeasonTyped, [SeasonNext]_seasonVars
  PROVE  SeasonTyped'
  <1>a. ASSUME SeasonDays', UNCHANGED <<archive, titles, seasonStalled>>,
               leagueSeason' \in Numbers \cup {0}, scored' \subseteq Pros
        PROVE  SeasonTyped'
    BY <1>a DEF SeasonTyped, GoodTitle, GoodRequest, Holders
  <1>b. ASSUME UNCHANGED <<day, playVars, archive, seasonStalled>>,
               \A t \in titles' : GoodTitle(t)
        PROVE  SeasonTyped'
    BY <1>b DEF SeasonTyped, SeasonDays, playVars, GoodTitle, GoodRequest, Holders
  <1>1. CASE UNCHANGED seasonVars
    BY <1>1, <1>b DEF seasonVars, SeasonTyped
  <1>2. CASE SeasonServe
    <2> PICK q \in Ends \cup Sets \cup Resets : SeasonHandle(q, "prompt")
      BY <1>2 DEF SeasonServe
    <2>1. GoodRequest(seasonStalled')
      BY <1>2 DEF SeasonServe, SeasonTyped
    <2> QED BY <2>1, RequestsGood, HandledTyped
  <1>3. CASE SeasonStall
    <2>1. GoodRequest(seasonStalled')
      BY <1>3, RequestsGood DEF SeasonStall
    <2> QED BY <1>3, <2>1 DEF SeasonStall, SeasonTyped, SeasonDays, playVars, GoodTitle,
                              GoodRequest, Holders
  <1>4. CASE SeasonResume
    <2>1. GoodRequest(SeasonIdle)
      BY DEF GoodRequest, SeasonIdle
    <2> QED BY <1>4, <2>1, HandledTyped DEF SeasonResume, SeasonTyped
  <1>5. CASE SeasonAbandon
    <2>1. GoodRequest(SeasonIdle)
      BY DEF GoodRequest, SeasonIdle
    <2> QED BY <1>5, <2>1 DEF SeasonAbandon, SeasonTyped, SeasonDays, playVars, GoodTitle,
                              GoodRequest, Holders
  <1>6. ASSUME NEW n \in Numbers, NEW kind \in AddedKinds, NEW who \in Holders(kind),
               AddTitle(n, kind, who)
        PROVE  SeasonTyped'
    <2>1. GoodTitle(Title(n, kind, who))
      BY SeasonAssumption DEF SeasonAssumption, GoodTitle, Title, Kinds
    <2> QED BY <1>6, <1>b, <2>1 DEF AddTitle, SeasonTyped
  <1>7. ASSUME NEW t, RemoveTitle(t) PROVE SeasonTyped'
    BY <1>7, <1>b DEF RemoveTitle, SeasonTyped
  <1>8. CASE NextDay
    <2>1. SeasonDays'
      BY <1>8, SeasonAssumption DEF SeasonAssumption, NextDay, SeasonTyped, SeasonDays, playVars
    <2> QED BY <1>8, <1>a, <2>1 DEF NextDay, playVars, SeasonTyped
  <1>9. ASSUME NEW p \in Pros, PlayMatch(p) PROVE SeasonTyped'
    <2>1. SeasonDays'
      BY <1>9, SeasonAssumption DEF SeasonAssumption, PlayMatch, SeasonTyped, SeasonDays
    <2> QED BY <1>9, <1>a, <2>1 DEF PlayMatch, SeasonTyped
  <1>10. CASE LockSeasonWeek
    <2>1. SeasonDays'
      BY <1>10, SeasonAssumption DEF SeasonAssumption, LockSeasonWeek, SeasonTyped, SeasonDays
    <2> QED BY <1>10, <1>a, <2>1 DEF LockSeasonWeek, SeasonTyped
  <1>11. ASSUME NEW n \in LeagueSeasons \cup {0}, MonitorLeagues(n) PROVE SeasonTyped'
    <2>1. n \in Numbers \cup {0}
      BY SeasonAssumption DEF SeasonAssumption
    <2> QED BY <1>11, <1>a, <2>1 DEF MonitorLeagues, SeasonTyped, SeasonDays
  <1> QED BY <1>1, <1>2, <1>3, <1>4, <1>5, <1>6, <1>7, <1>8, <1>9, <1>10, <1>11 DEF SeasonNext

\* SeasonTypeOK: every row of the archive and every title is of a season and of an
\* account that may hold it, whichever requests stall.
THEOREM SeasonTypedHolds == SeasonSpec => []SeasonTypeOK
  <1>1. SeasonInit => SeasonTyped
    BY SeasonAssumption DEF SeasonAssumption, SeasonInit, SeasonTyped, SeasonDays, GoodRequest,
       SeasonIdle
  <1>2. SeasonTyped => SeasonTypeOK
    BY DEF SeasonTyped, SeasonDays, GoodTitle, SeasonTypeOK
  <1> QED BY <1>1, <1>2, SeasonTypedKept, PTL DEF SeasonSpec

-----------------------------------------------------------------------------
(* Channels: the rows in the order they were last seen in *)

\* Each of these channels is listed, once.
ListOf(list, S) ==
  /\ list \in Seq(ChannelIds)
  /\ \A i, j \in 1..Len(list) : list[i] = list[j] => i = j
  /\ \A c \in ChannelIds : c \in S <=> \E i \in 1..Len(list) : list[i] = c

\* How many numbers of a set are smaller says where each stands, and every place is taken.
LEMMA PlacesOfNumbers ==
  ASSUME NEW S \in SUBSET Nat, IsFiniteSet(S)
  PROVE  /\ Cardinality(S) \in Nat
         /\ \A i \in S : Cardinality({j \in S : j < i}) \in 0..(Cardinality(S) - 1)
         /\ \A i, j \in S :
              Cardinality({k \in S : k < i}) = Cardinality({k \in S : k < j}) => i = j
         /\ \A p \in 0..(Cardinality(S) - 1) :
              \E i \in S : Cardinality({j \in S : j < i}) = p
  <1> PICK R : R = {p \in S \X S : p[1] < p[2]}
    OBVIOUS
  <1>1. \A i, j \in S : <<i, j>> \in R <=> i < j
    OBVIOUS
  <1>2. InLine(S, R)
    BY <1>1 DEF InLine
  <1>3. \A i \in S : {j \in S : j < i} = BeforeIn(S, R, i)
    BY <1>1 DEF BeforeIn
  <1>4. /\ Cardinality(S) \in Nat
        /\ \A i \in S : Cardinality(BeforeIn(S, R, i)) \in 0..(Cardinality(S) - 1)
        /\ \A i, j \in S :
             <<i, j>> \in R => Cardinality(BeforeIn(S, R, i)) < Cardinality(BeforeIn(S, R, j))
        /\ \A p \in 0..(Cardinality(S) - 1) :
             \E i \in S : Cardinality(BeforeIn(S, R, i)) = p
    BY <1>2, PlacesInLine
  <1>5. ASSUME NEW i \in S, NEW j \in S, i # j
        PROVE  Cardinality(BeforeIn(S, R, i)) # Cardinality(BeforeIn(S, R, j))
    <2>1. <<i, j>> \in R \/ <<j, i>> \in R
      BY <1>1, <1>5
    <2> QED BY <1>4, <2>1
  <1>6. ASSUME NEW i \in S PROVE Cardinality({j \in S : j < i}) = Cardinality(BeforeIn(S, R, i))
    BY <1>3
  <1>7. \A i \in S : Cardinality({j \in S : j < i}) \in 0..(Cardinality(S) - 1)
    BY <1>4, <1>6
  <1>8. \A i, j \in S :
          Cardinality({k \in S : k < i}) = Cardinality({k \in S : k < j}) => i = j
    <2> SUFFICES ASSUME NEW i \in S, NEW j \in S, i # j
                 PROVE  Cardinality({k \in S : k < i}) # Cardinality({k \in S : k < j})
      OBVIOUS
    <2>1. Cardinality({k \in S : k < i}) = Cardinality(BeforeIn(S, R, i))
      BY <1>6
    <2>2. Cardinality({k \in S : k < j}) = Cardinality(BeforeIn(S, R, j))
      BY <1>6
    <2> QED BY ONLY <2>1, <2>2, <1>5, i \in S, j \in S, i # j
  <1>9. \A p \in 0..(Cardinality(S) - 1) :
          \E i \in S : Cardinality({j \in S : j < i}) = p
    BY <1>4, <1>6
  <1> QED BY <1>4, <1>7, <1>8, <1>9

\* Those that are left are listed.
LEMMA RowsLeftListed ==
  ASSUME NEW list, NEW S, ListOf(list, S), NEW gone
  PROVE  ListOf(RowsLeft(list, gone), S \ gone)
  <1> PICK n \in Nat : n = Len(list)
    BY DEF ListOf
  <1>0. /\ list \in [1..n -> ChannelIds] /\ DOMAIN list = 1..n
        /\ \A i, j \in 1..n : list[i] = list[j] => i = j
        /\ \A c \in ChannelIds : c \in S <=> \E i \in 1..n : list[i] = c
    BY DEF ListOf
  <1> PICK left : left = {i \in 1..n : list[i] \notin gone}
    OBVIOUS
  <1>1. left \in SUBSET Nat /\ IsFiniteSet(left)
    <2>1. IsFiniteSet(1..n)
      BY FS_Interval
    <2> QED BY <2>1, FS_Subset
  <1> DEFINE earlier(i) == Cardinality({j \in left : j < i})
  <1>2. PICK m \in Nat : m = Cardinality(left)
    BY <1>1, FS_CardinalityType
  <1>3. /\ \A i \in left : earlier(i) \in 0..(m - 1)
        /\ \A i, j \in left : earlier(i) = earlier(j) => i = j
        /\ \A p \in 0..(m - 1) : \E i \in left : earlier(i) = p
    <2>1. /\ \A i \in left :
               Cardinality({j \in left : j < i}) \in 0..(Cardinality(left) - 1)
          /\ \A i, j \in left :
               Cardinality({k \in left : k < i}) = Cardinality({k \in left : k < j}) => i = j
          /\ \A p \in 0..(Cardinality(left) - 1) :
               \E i \in left : Cardinality({j \in left : j < i}) = p
      BY <1>1, PlacesOfNumbers
    <2> QED BY ONLY <2>1, <1>2
  <1> DEFINE at(k) == CHOOSE i \in left : earlier(i) = k - 1
  <1>4. RowsLeft(list, gone) = [k \in 1..m |-> list[at(k)]]
    BY <1>0, <1>2 DEF RowsLeft
  <1> HIDE DEF earlier
  <1>5. \A k \in 1..m : at(k) \in left /\ earlier(at(k)) = k - 1
    <2> SUFFICES ASSUME NEW k \in 1..m PROVE at(k) \in left /\ earlier(at(k)) = k - 1
      OBVIOUS
    <2>1. k - 1 \in 0..(m - 1)
      OBVIOUS
    <2>2. \E i \in left : earlier(i) = k - 1
      BY <1>3, <2>1
    <2> QED BY <2>2
  <1> HIDE DEF at
  <1> PICK rest : rest = RowsLeft(list, gone)
    OBVIOUS
  <1>6. rest \in Seq(ChannelIds) /\ Len(rest) = m /\ \A k \in 1..m : rest[k] = list[at(k)]
    <2>1. \A k \in 1..m : list[at(k)] \in ChannelIds
      BY <1>0, <1>5
    <2> QED BY <1>4, <2>1
  <1>7. ASSUME NEW k \in 1..m, NEW l \in 1..m, rest[k] = rest[l] PROVE k = l
    <2>1. at(k) = at(l)
      BY <1>0, <1>5, <1>6, <1>7
    <2>2. earlier(at(k)) = k - 1 /\ earlier(at(l)) = l - 1
      BY <1>5
    <2> QED BY <2>1, <2>2
  <1>8. ASSUME NEW c \in ChannelIds PROVE c \in S \ gone <=> \E k \in 1..m : rest[k] = c
    <2>1. ASSUME NEW k \in 1..m, rest[k] = c PROVE c \in S \ gone
      BY <1>0, <1>5, <1>6, <2>1
    <2>2. ASSUME c \in S \ gone PROVE \E k \in 1..m : rest[k] = c
      <3>1. PICK i \in 1..n : list[i] = c
        BY <1>0, <2>2
      <3>2. i \in left
        BY <2>2, <3>1
      <3> PICK k : k = earlier(i) + 1
        OBVIOUS
      <3>3. k \in 1..m /\ earlier(i) = k - 1
        <4>1. earlier(i) \in 0..(m - 1)
          BY <1>3, <3>2
        <4> QED BY <4>1
      <3>4. at(k) = i
        BY <1>3, <1>5, <3>2, <3>3
      <3> QED BY <1>6, <3>1, <3>3, <3>4
    <2> QED BY <2>1, <2>2
  <1> QED BY <1>6, <1>7, <1>8 DEF ListOf

\* One that is seen now is the last.
LEMMA AppendLists ==
  ASSUME NEW list, NEW S, ListOf(list, S), NEW c \in ChannelIds, c \notin S
  PROVE  ListOf(Append(list, c), S \cup {c})
  <1> PICK n \in Nat : n = Len(list)
    BY DEF ListOf
  <1> PICK more : more = Append(list, c)
    OBVIOUS
  <1>1. /\ more \in Seq(ChannelIds) /\ Len(more) = n + 1 /\ more[n + 1] = c
        /\ \A i \in 1..n : more[i] = list[i] /\ list[i] # c
    BY DEF ListOf
  <1>2. \A i \in 1..(n + 1) : i = n + 1 \/ i \in 1..n
    OBVIOUS
  <1>3. ASSUME NEW i \in 1..(n + 1), NEW j \in 1..(n + 1), more[i] = more[j] PROVE i = j
    BY <1>1, <1>2, <1>3 DEF ListOf
  <1>4. ASSUME NEW d \in ChannelIds
        PROVE  d \in S \cup {c} <=> \E i \in 1..(n + 1) : more[i] = d
    <2>1. d \in S <=> \E i \in 1..n : list[i] = d
      BY DEF ListOf
    <2>2. n + 1 \in 1..(n + 1) /\ \A i \in 1..n : i \in 1..(n + 1)
      OBVIOUS
    <2> QED BY <1>1, <1>2, <2>1, <2>2
  <1> QED BY <1>1, <1>3, <1>4 DEF ListOf

\* A request drops others than the channel it is for.
GoodArrival(r) == r.channel \in ChannelIds /\ (r.op = "request" => r.channel \notin r.drop)

WithARow == {c \in ChannelIds : approval[c] # "none"}
ChannelsTyped ==
  /\ approval \in [ChannelIds -> {"none", "pending", "approved", "rejected"}]
  /\ ListOf(lastSeen, WithARow)
  /\ \A r \in inFlight : GoodArrival(r)

\* What a request drops to make room had a row when its own channel had none.
LEMMA OverCapPending ==
  ASSUME ChannelsTyped
  PROVE  \A c \in OverCap : approval[c] = "pending"
  <1> PICK rows : rows = PendingRows
    OBVIOUS
  <1>1. ListOf(rows, WithARow \ {c \in ChannelIds : approval[c] # "pending"})
    BY RowsLeftListed DEF ChannelsTyped, PendingRows
  <1> PICK n \in Nat : n = Len(rows)
    BY <1>1 DEF ListOf
  <1>2. \A k \in 1..n : approval[rows[k]] = "pending"
    <2> SUFFICES ASSUME NEW k \in 1..n PROVE approval[rows[k]] = "pending"
      OBVIOUS
    <2>1. rows[k] \in ChannelIds
      BY <1>1 DEF ListOf
    <2> PICK c \in ChannelIds : c = rows[k]
      BY <2>1
    <2>2. c \in WithARow \ {d \in ChannelIds : approval[d] # "pending"}
      BY <1>1 DEF ListOf
    <2> QED BY <2>2
  <1>3. PendingCap \in Nat \ {0}
    BY ChannelsAssumption DEF ChannelsAssumption
  <1> PICK T : T = {0, n - (PendingCap - 1)}
    OBVIOUS
  <1> PICK m : m = Max(T)
    OBVIOUS
  <1>4. m \in T
    <2>1. \E x \in T : \A y \in T : x >= y
      BY <1>3
    <2> QED BY <2>1 DEF Max
  <1>5. \A k \in 1..m : k \in 1..n
    BY <1>3, <1>4
  <1>6. OverCap = {rows[k] : k \in 1..m}
    BY DEF OverCap
  <1> QED BY <1>2, <1>5, <1>6

\* Each step of requests, decisions, connections, tags and the pass of the loop.
LEMMA ChannelsTypedKept ==
  ASSUME ChannelsTyped, [ChannelsNext]_channelVars
  PROVE  ChannelsTyped'
  <1>a. ASSUME UNCHANGED <<approval, lastSeen>>, \A r \in inFlight' : GoodArrival(r)
        PROVE  ChannelsTyped'
    BY <1>a DEF ChannelsTyped, WithARow, ListOf, GoodArrival
  <1>1. CASE \/ UNCHANGED channelVars \/ BeginSync \/ CommitSync
             \/ \E u : DisconnectChannel(u) \/ GrantTag(u) \/ \E c : ConnectChannel(u, c)
             \/ \E r : RevokeTag(r)
    BY <1>1, <1>a DEF channelVars, BeginSync, CommitSync, DisconnectChannel, ConnectChannel,
       SetConnected, GrantTag, RevokeTag, ChannelsTyped
  <1>2. ASSUME NEW env, RestartWith(env) PROVE ChannelsTyped'
    BY <1>2, <1>a DEF RestartWith
  <1>3. ASSUME NEW c \in ChannelIds, BeginRequest(c) PROVE ChannelsTyped'
    <2>1. c \notin OverCap
      BY <1>3, OverCapPending DEF BeginRequest
    <2>2. GoodArrival([op |-> "request", channel |-> c, drop |-> OverCap])
      BY <2>1 DEF GoodArrival
    <2> QED BY <1>3, <1>a, <2>2 DEF BeginRequest, Arrives, ChannelsTyped
  <1>4. ASSUME NEW c \in ChannelIds, NEW action, BeginDecide(c, action) PROVE ChannelsTyped'
    BY <1>4, <1>a DEF BeginDecide, Arrives, ChannelsTyped, GoodArrival
  <1>5. ASSUME NEW c \in ChannelIds, SeenAgain(c) PROVE ChannelsTyped'
    <2> PICK W : W = WithARow
      OBVIOUS
    <2>1. /\ UNCHANGED <<approval, inFlight>> /\ c \in W
          /\ lastSeen' = Append(RowsLeft(lastSeen, {c}), c)
      BY <1>5 DEF SeenAgain, WithARow
    <2>2. ListOf(RowsLeft(lastSeen, {c}), W \ {c})
      BY RowsLeftListed DEF ChannelsTyped
    <2>3. ListOf(lastSeen', (W \ {c}) \cup {c})
      BY <2>1, <2>2, AppendLists
    <2>4. (W \ {c}) \cup {c} = W /\ WithARow' = W
      BY <2>1 DEF WithARow
    <2> QED BY <2>1, <2>3, <2>4 DEF ChannelsTyped, ListOf, GoodArrival
  <1>6. ASSUME NEW r \in inFlight, CommitRequest(r) PROVE ChannelsTyped'
    <2>0. /\ r.channel \in ChannelIds /\ r.channel \notin r.drop
          /\ inFlight' = inFlight \ {r}
      BY <1>6 DEF ChannelsTyped, CommitRequest, Lands, GoodArrival
    <2>1. CASE NothingStored
      BY <2>0, <2>1, <1>a DEF NothingStored, ChannelsTyped
    <2>2. CASE ~NothingStored
      <3> PICK W : W = WithARow
        OBVIOUS
      <3> PICK c \in ChannelIds : c = r.channel
        BY <2>0
      <3>1. /\ approval[c] = "none"
            /\ approval' = [d \in ChannelIds |->
                 CASE d = c -> "pending" [] d \in r.drop -> "none" [] OTHER -> approval[d]]
            /\ lastSeen' = Append(RowsLeft(lastSeen, r.drop), c)
        BY <1>6, <2>2 DEF CommitRequest
      <3>2. \A d \in ChannelIds :
              approval'[d] = IF d = c THEN "pending"
                             ELSE IF d \in r.drop THEN "none" ELSE approval[d]
        <4> SUFFICES ASSUME NEW d \in ChannelIds
                     PROVE  approval'[d] = IF d = c THEN "pending"
                                           ELSE IF d \in r.drop THEN "none" ELSE approval[d]
          OBVIOUS
        <4>1. approval'[d] = CASE d = c -> "pending" [] d \in r.drop -> "none"
                               [] OTHER -> approval[d]
          BY <3>1
        <4> QED BY <2>0, <4>1
      <3>3. c \notin W /\ WithARow' = (W \ r.drop) \cup {c}
        BY <3>1, <3>2 DEF WithARow
      <3>4. ListOf(RowsLeft(lastSeen, r.drop), W \ r.drop)
        BY RowsLeftListed DEF ChannelsTyped
      <3>5. ListOf(lastSeen', WithARow')
        BY <3>1, <3>3, <3>4, AppendLists
      <3>6. approval' \in [ChannelIds -> {"none", "pending", "approved", "rejected"}]
        BY <3>1, <3>2 DEF ChannelsTyped
      <3> QED BY <2>0, <3>5, <3>6 DEF ChannelsTyped, ListOf, GoodArrival
    <2> QED BY <2>1, <2>2
  <1>7. ASSUME NEW r \in inFlight, CommitDecide(r) PROVE ChannelsTyped'
    <2>0. r.channel \in ChannelIds /\ inFlight' = inFlight \ {r}
      BY <1>7 DEF ChannelsTyped, CommitDecide, Lands, GoodArrival
    <2>1. CASE NothingStored
      BY <2>0, <2>1, <1>a DEF NothingStored, ChannelsTyped
    <2>2. CASE ~NothingStored
      <3>1. /\ approval[r.channel] # "none" /\ UNCHANGED lastSeen
            /\ \/ approval' = approval
               \/ approval' = [approval EXCEPT ![r.channel] = NewStatusOf(r.action)]
        BY <1>7, <2>2 DEF CommitDecide
      <3>2. NewStatusOf(r.action) \in {"approved", "rejected"}
        BY DEF NewStatusOf
      <3>3. /\ approval' \in [ChannelIds -> {"none", "pending", "approved", "rejected"}]
            /\ \A c \in ChannelIds : approval'[c] = "none" <=> approval[c] = "none"
        BY <2>0, <3>1, <3>2 DEF ChannelsTyped
      <3>4. WithARow' = WithARow
        BY <3>3 DEF WithARow
      <3> QED BY <2>0, <3>1, <3>3, <3>4 DEF ChannelsTyped, ListOf, GoodArrival
    <2> QED BY <2>1, <2>2
  <1> QED BY <1>1, <1>2, <1>3, <1>4, <1>5, <1>6, <1>7 DEF ChannelsNext

\* ChannelsTypeOK: every channel with a row is listed once, and each account has one row of
\* the tag, whatever requests, decisions, syncs and restarts come together.
THEOREM ChannelsTypedHolds == ChannelsSpec => []ChannelsTypeOK
  <1>1. ChannelsInit => ChannelsTyped
    BY DEF ChannelsInit, ChannelsTyped, WithARow, ListOf, GoodArrival
  <1>2. ChannelsTyped /\ TagsGood(tagRows) => ChannelsTypeOK
    <2> SUFFICES ASSUME ChannelsTyped, TagsGood(tagRows) PROVE ChannelsTypeOK
      OBVIOUS
    <2>1. IsInjective(lastSeen)
      BY DEF ChannelsTyped, ListOf, IsInjective
    <2>2. ToSet(lastSeen) = WithARow
      BY DEF ChannelsTyped, ListOf, ToSet, WithARow
    <2> QED BY <2>1, <2>2 DEF ChannelsTypeOK, ChannelsTyped, TagsGood, WithARow
  <1>3. ChannelsTyped /\ ChannelsInv => ChannelsTypeOK
    BY <1>2 DEF ChannelsInv
  <1> QED BY <1>1, <1>3, ChannelsTypedKept, ChannelsInvariant, PTL DEF ChannelsSpec
=============================================================================
