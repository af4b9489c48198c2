----------------------------- MODULE Enrichment -----------------------------
(***************************************************************************)
(* The refresh of the players' ranks from OpenDota (backend/enrich.py,     *)
(* main._profile_enrichment_loop, routers/admin_ingest.py and              *)
(* routers/admin_players.py): small batches of those whose rank is oldest, *)
(* run by a worker one after the other and by an admin next to it.         *)
(*                                                                         *)
(* A rank is the time it was stored with.  Retries and the throttle of the *)
(* client are part of a request; names, avatars, hero facts and bios, of   *)
(* which a batch takes any that are due, are left out, and with them the   *)
(* ranks stored while an avatar is fetched.                                *)
(***************************************************************************)
EXTENDS Integers, Sequences, SequencesExt

CONSTANTS
  PoolIds,       \* players.id
  Silent,        \* players OpenDota never answers for
  BatchSize, CooldownTicks,
  LastTick, MaxAdminJobs

ASSUME EnrichmentAssumption ==
  /\ PoolIds \subseteq Nat /\ IsFiniteSet(PoolIds) /\ Silent \subseteq PoolIds
  /\ {BatchSize, CooldownTicks, LastTick, MaxAdminJobs} \subseteq Nat
  /\ Cardinality(Silent) < BatchSize

VARIABLES
  tick,
  rankAt,      \* players.rank_fetched_at, NoRank for NULL
  inPool,      \* players.is_active
  batch,       \* per runner: the players still to ask, those due but left for later,
               \* and whether only silent players failed; or Resting
  adminJobs,
  passes       \* worker batches that passed a waiting player over (auxiliary)

rankVars == <<tick, rankAt, inPool, batch, adminJobs, passes>>

Runners == {"worker", "admin"}
Resting == [todo |-> <<>>, passed |-> {}, clean |-> FALSE]
NoRank == -1 - CooldownTicks      \* always due, and first in the order

-----------------------------------------------------------------------------
\* _refresh_ranks: active players with a rank missing or older than the cooldown.
DueForRank == {p \in inPool : rankAt[p] < tick - CooldownTicks}

\* The order of the query; without its first key.
ById(p, q) == p < q
OlderFirst(p, q) == rankAt[p] < rankAt[q] \/ (rankAt[p] = rankAt[q] /\ p < q)
Picked == {p \in DueForRank : Cardinality({q \in DueForRank : OlderFirst(q, p)}) < BatchSize}
InQueryOrder(players) ==
  {s \in [1..Cardinality(players) -> players] :
     ToSet(s) = players /\ \A i, j \in DOMAIN s : i < j => OlderFirst(s[i], s[j])}

\* A player whose rank was stored, or who left the pool, no longer waits.
StopsWaiting(p, batches) ==
  /\ passes' = [passes EXCEPT ![p] = 0]
  /\ batch' = [r \in Runners |-> [batches[r] EXCEPT !.passed = @ \ {p}]]

AdminActs == adminJobs < MaxAdminJobs /\ adminJobs' = adminJobs + 1

BeginBatch(r) ==
  /\ batch[r] = Resting /\ Picked # {}
  /\ IF r = "admin" THEN AdminActs ELSE UNCHANGED adminJobs
  /\ \E todo \in InQueryOrder(Picked) :
       batch' = [batch EXCEPT ![r] =
         [todo |-> todo, passed |-> DueForRank \ Picked, clean |-> TRUE]]
  /\ UNCHANGED <<tick, rankAt, inPool, passes>>

RankArrives(r) ==
  /\ batch[r].todo # <<>> /\ Head(batch[r].todo) \notin Silent
  /\ rankAt' = [rankAt EXCEPT ![Head(batch[r].todo)] = tick]
  /\ StopsWaiting(Head(batch[r].todo), [batch EXCEPT ![r].todo = Tail(@)])
  /\ UNCHANGED <<tick, inPool, adminJobs>>

\* A failed request leaves the rank and its time.
RankFails(r) ==
  /\ batch[r].todo # <<>>
  /\ batch' = [batch EXCEPT ![r].todo = Tail(@),
                            ![r].clean = @ /\ Head(batch[r].todo) \in Silent]
  /\ UNCHANGED <<tick, rankAt, inPool, adminJobs, passes>>

EndBatch(r) ==
  /\ batch[r] # Resting /\ batch[r].todo = <<>>
  /\ batch' = [batch EXCEPT ![r] = Resting]
  /\ passes' = [p \in PoolIds |->
       IF r = "worker" /\ batch[r].clean /\ p \in batch[r].passed THEN passes[p] + 1
       ELSE passes[p]]
  /\ UNCHANGED <<tick, rankAt, inPool, adminJobs>>

\* add_player: only with an answer, which brings a rank.
AddToPool(p) ==
  /\ AdminActs /\ p \notin inPool \cup Silent
  /\ inPool' = inPool \cup {p} /\ rankAt' = [rankAt EXCEPT ![p] = tick]
  /\ StopsWaiting(p, batch) /\ UNCHANGED tick

\* remove_players
RemoveFromPool(p) ==
  /\ AdminActs /\ p \in inPool /\ inPool' = inPool \ {p}
  /\ StopsWaiting(p, batch) /\ UNCHANGED <<tick, rankAt>>

RankTick ==
  /\ tick < LastTick /\ tick' = tick + 1
  /\ UNCHANGED <<rankAt, inPool, batch, adminJobs, passes>>

RankRestart ==
  /\ batch # [r \in Runners |-> Resting]
  /\ batch' = [r \in Runners |-> Resting]
  /\ UNCHANGED <<tick, rankAt, inPool, adminJobs, passes>>

RankInit ==
  /\ tick = 0 /\ rankAt = [p \in PoolIds |-> NoRank] /\ inPool = PoolIds
  /\ batch = [r \in Runners |-> Resting] /\ adminJobs = 0
  /\ passes = [p \in PoolIds |-> 0]

RankNext ==
  \/ RankTick \/ RankRestart
  \/ \E r \in Runners : BeginBatch(r) \/ RankArrives(r) \/ RankFails(r) \/ EndBatch(r)
  \/ \E p \in PoolIds : AddToPool(p) \/ RemoveFromPool(p)

RankSpec == RankInit /\ [][RankNext]_rankVars

-----------------------------------------------------------------------------
(* Properties *)

RankTypeOK ==
  /\ tick \in 0..LastTick /\ inPool \subseteq PoolIds
  /\ \A p \in PoolIds : rankAt[p] \in NoRank..tick
  /\ \A r \in Runners : ToSet(batch[r].todo) \cup batch[r].passed \subseteq PoolIds

\* With fewer silent players than a batch takes, a player waiting for a rank is passed
\* over by at most this many worker batches whose other requests were answered, whatever
\* an admin's own batches refresh and the pool gains and loses meanwhile.
MostPasses ==
  LET others == Cardinality(PoolIds) - 1 - Cardinality(Silent)
      each == BatchSize - Cardinality(Silent)
  IN others \div each
NobodyStarves == \A p \in PoolIds \ Silent : passes[p] <= MostPasses
=============================================================================
