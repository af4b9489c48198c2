------------------------------ MODULE TwitchMVP ------------------------------
(***************************************************************************)
(* The MVP of one match: its confirmation by a broadcaster or an admin     *)
(* (backend/twitch.py, routers/admin_matches.py), the ingest of the match  *)
(* (ingest.py), the stored card points (card_points.py) and the token drop.*)
(*                                                                         *)
(* A confirmation reads whether the match has stats and who is MVP before  *)
(* its first write, the upsert of twitch_mvp, which takes SQLite's write   *)
(* lock; everything after it is one step.  An ingest commits the stat rows *)
(* first and the MVP bonus with the card points in a second transaction,   *)
(* which takes the lock only when it has a bonus to write; a third one     *)
(* deletes the live row.  INGEST_LOCK lets one ingest run at a time.       *)
(*                                                                         *)
(* A stat row is the payload it was built from and is_mvp; the points of a *)
(* row follow from these, so a stored card point is a copy of the row.     *)
(*                                                                         *)
(* Left out: weights, the recalculation of fantasy_points and the rebuild  *)
(* of all card points, replacing a manual match, several cards of a player *)
(* and cards drawn meanwhile, the channel's approval, account ages.        *)
(***************************************************************************)
EXTENDS Integers, FiniteSets

CONSTANTS
  Players,      \* players who may be in the match
  Channels,     \* approved Twitch channels
  Watchers,     \* accounts that watch
  Clients,      \* confirmations in flight at the same time
  DropMax,      \* _TWITCH_DROP_MAX
  MaxPayload,   \* bound on how often the match's stats are replaced
  None          \* no row, no MVP

ASSUME TwitchMVPAssumption ==
  /\ IsFiniteSet(Watchers)
  /\ DropMax \in Nat \ {0} /\ MaxPayload \in Nat
  /\ None \notin Players /\ None \notin Nat
  /\ None \notin [payload : Nat, mvp : BOOLEAN]

VARIABLES
  stored,   \* the matches row exists
  live,     \* the live_matches row exists
  stat,     \* player_match_stats: per player, the row or None
  card,     \* card_match_points: per player, the stat row the points are from
  mvp,      \* twitch_mvp; missed: confirmed as provisional once the match was
            \* stored, and no ingest has read the row since (auxiliary)
  drop,     \* twitch_token_drops.count per channel, or None
  won,      \* tokens a channel's drops credited, per viewer
  ingest,   \* the ingest under INGEST_LOCK
  torn,     \* what a failed ingest left undone (auxiliary)
  req       \* what each confirmation has read

vars == <<stored, live, stat, card, mvp, drop, won, ingest, torn, req>>
matchVars == <<stored, live>>
dropVars == <<drop, won>>

Idle == [at |-> "idle"]
NoRequest == [op |-> "none"]
Rows == {p \in Players : stat[p] # None}

\* stat with the flag and the bonus of player p set or cleared, if p has a row.
SetBonus(rows, p, on) ==
  [q \in Players |-> IF q = p /\ rows[q] # None THEN [rows[q] EXCEPT !.mvp = on] ELSE rows[q]]

-----------------------------------------------------------------------------
(* Ingest *)

\* A line-up as OpenDota returns it: the players with an account id, never nobody.
Lineup(S, n) == [p \in Players |-> IF p \in S THEN [payload |-> n, mvp |-> FALSE] ELSE None]

Store(S) ==
  /\ ingest = Idle /\ ~stored
  /\ stored' = TRUE
  /\ stat' = Lineup(S, 0)
  /\ ingest' = [at |-> "stored", path |-> "store"]
  /\ UNCHANGED <<live, card, mvp, dropVars, torn, req>>

\* The parse retry replaces the rows in one transaction.
Refresh(S, n) ==
  /\ ingest = Idle /\ stored
  /\ \A p \in Rows : stat[p].payload < n
  /\ stat' = Lineup(S, n)
  /\ ingest' = [at |-> "stored", path |-> "refresh"]
  /\ UNCHANGED <<matchVars, card, mvp, dropVars, torn, req>>

\* _reapply_mvp_bonus: two SELECTs, neither of them locked.
ReadMVP ==
  /\ ingest.at = "stored"
  /\ ingest' = [at |-> "mvp", path |-> ingest.path, player |-> mvp.player]
  /\ mvp' = [mvp EXCEPT !.missed = FALSE]
  /\ UNCHANGED <<matchVars, stat, card, dropVars, torn, req>>

\* The row needs an UPDATE only if its flag is not set yet.
NeedsBonus(p) == p \in Rows /\ ~stat[p].mvp

ReadRow ==
  /\ ingest.at = "mvp"
  /\ ingest' = [at |-> IF ingest.player # None /\ NeedsBonus(ingest.player) THEN "bonus"
                                                                            ELSE "points",
                path |-> ingest.path, player |-> ingest.player]
  /\ UNCHANGED <<matchVars, stat, card, mvp, dropVars, torn, req>>

\* The second commit is done; only a first store still has a live row to delete.
AfterBonus == IF ingest.path = "store" THEN [at |-> "live", path |-> "store"] ELSE Idle

\* With an UPDATE the card points are computed under its lock.
WriteBonus ==
  /\ ingest.at = "bonus"
  /\ stat' = SetBonus(stat, ingest.player, TRUE)
  /\ card' = stat'
  /\ ingest' = AfterBonus
  /\ torn' = torn \ {"bonus"}
  /\ UNCHANGED <<matchVars, mvp, dropVars, req>>

\* Without one they are computed from unlocked reads and written later.
ComputePoints ==
  /\ ingest.at = "points"
  /\ ingest' = [at |-> "computed", path |-> ingest.path, rows |-> stat]
  /\ UNCHANGED <<matchVars, stat, card, mvp, dropVars, torn, req>>

\* refresh_card_points: upsert the rows and delete those without a stat row.
UpdatedOnly(rows) == [p \in Players |-> IF card[p] = None THEN None ELSE rows[p]]
Upserted(rows) == rows

WritePoints ==
  /\ ingest.at = "computed"
  /\ card' = Upserted(ingest.rows)
  /\ ingest' = AfterBonus
  /\ torn' = torn \ {"bonus"}
  /\ UNCHANGED <<matchVars, stat, mvp, dropVars, req>>

DeleteLive ==
  /\ ingest.at = "live"
  /\ live' = FALSE
  /\ ingest' = Idle
  /\ torn' = torn \ {"live"}
  /\ UNCHANGED <<stored, stat, card, mvp, dropVars, req>>

\* An exception or a crash between two commits: the match is stored, so no
\* later poll ingests it again.
FailIngest ==
  /\ ingest # Idle
  /\ torn' = torn \cup (IF ingest.at = "live" THEN {} ELSE {"bonus"})
                  \cup (IF ingest.path = "store" THEN {"live"} ELSE {})
  /\ ingest' = Idle
  /\ UNCHANGED <<matchVars, stat, card, mvp, dropVars, req>>

-----------------------------------------------------------------------------
(* The live thread *)

IngestedNever == FALSE
Ingested == Rows # {}

\* store_live_matches: the match is listed, still kept, or dropped as stale, and
\* its row is deleted once it has stats.
LivePoll ==
  /\ IF Ingested THEN live' = FALSE /\ torn' = torn \ {"live"}
                 ELSE live' \in BOOLEAN /\ torn' = torn
  /\ UNCHANGED <<stored, stat, card, mvp, dropVars, ingest, req>>

-----------------------------------------------------------------------------
(* Confirmations *)

Provisional == live /\ Rows = {}

\* set_mvp up to upsert_mvp's SELECT of the previous MVP.
BeginConfirm(r, ch, p) ==
  /\ req[r] = NoRequest
  /\ Provisional \/ p \in Rows
  /\ req' = [req EXCEPT ![r] = [op |-> "twitch", channel |-> ch, player |-> p,
                                provisional |-> Provisional, previous |-> mvp.player]]
  /\ UNCHANGED <<matchVars, stat, card, mvp, dropVars, ingest, torn>>

\* admin_set_mvp takes any player and any stored match.
BeginAdminConfirm(r, p) ==
  /\ req[r] = NoRequest /\ stored
  /\ req' = [req EXCEPT ![r] = [op |-> "admin", player |-> p,
                                provisional |-> FALSE, previous |-> mvp.player]]
  /\ UNCHANGED <<matchVars, stat, card, mvp, dropVars, ingest, torn>>

\* The previous MVP loses the bonus and the new one gets it.
CrownUnguarded(previous, p) == SetBonus(SetBonus(stat, p, TRUE), previous, FALSE)
Crown(previous, p) ==
  SetBonus(IF previous = p THEN stat ELSE SetBonus(stat, previous, FALSE), p, TRUE)

\* Row of twitch_mvp, bonus and card points: a provisional MVP waits for ingest.
SetMVP(q) ==
  /\ mvp' = [player |-> q.player, missed |-> q.provisional /\ stored]
  /\ stat' = IF q.provisional THEN stat ELSE Crown(q.previous, q.player)
  /\ card' = IF q.provisional THEN card ELSE stat'

AlreadyDroppedNever(ch) == FALSE
AlreadyDropped(ch) == drop[ch] # None

WinnersAll(pool) == {pool}
Winners(pool) ==
  {W \in SUBSET pool :
     Cardinality(W) = IF Cardinality(pool) < DropMax THEN Cardinality(pool) ELSE DropMax}

\* _execute_token_drop: an empty pool claims nothing.
TokenDrop(ch, pool) ==
  IF AlreadyDropped(ch) \/ pool = {} THEN UNCHANGED dropVars
  ELSE \E W \in Winners(pool) :
         /\ drop' = [drop EXCEPT ![ch] = Cardinality(W)]
         /\ won' = [won EXCEPT ![ch] =
                      [v \in Watchers |-> won[ch][v] + (IF v \in W THEN 1 ELSE 0)]]

Confirm(r) ==
  /\ req[r].op = "twitch"
  /\ SetMVP(req[r])
  /\ \/ \E pool \in SUBSET Watchers : TokenDrop(req[r].channel, pool)
     \/ UNCHANGED dropVars                           \* TWITCH_DROPS_ENABLED is off
  /\ req' = [req EXCEPT ![r] = NoRequest]
  /\ UNCHANGED <<matchVars, ingest, torn>>

AdminConfirm(r) ==
  /\ req[r].op = "admin"
  /\ SetMVP(req[r])
  /\ req' = [req EXCEPT ![r] = NoRequest]
  /\ UNCHANGED <<matchVars, dropVars, ingest, torn>>

-----------------------------------------------------------------------------
Init ==
  /\ stored = FALSE /\ live = FALSE
  /\ stat = [p \in Players |-> None]
  /\ card = [p \in Players |-> None]
  /\ mvp = [player |-> None, missed |-> FALSE]
  /\ drop = [ch \in Channels |-> None]
  /\ won = [ch \in Channels |-> [v \in Watchers |-> 0]]
  /\ ingest = Idle /\ torn = {}
  /\ req = [r \in Clients |-> NoRequest]

Ingest ==
  \/ \E S \in (SUBSET Players) \ {{}} : Store(S)
  \/ \E S \in (SUBSET Players) \ {{}}, n \in 1..MaxPayload : Refresh(S, n)
  \/ ReadMVP \/ ReadRow \/ WriteBonus \/ ComputePoints \/ WritePoints
  \/ DeleteLive \/ FailIngest

Request(r) ==
  \/ \E ch \in Channels, p \in Players : BeginConfirm(r, ch, p)
  \/ Confirm(r)
  \/ \E p \in Players : BeginAdminConfirm(r, p)
  \/ AdminConfirm(r)

Next ==
  \/ Ingest
  \/ LivePoll
  \/ \E r \in Clients : Request(r)

Spec == Init /\ [][Next]_vars

-----------------------------------------------------------------------------
(* Properties *)

StatRows == {None} \cup [payload : 0..MaxPayload, mvp : BOOLEAN]
Failures == {"bonus", "live"}

\* Types of the rows; a drop has at most _TWITCH_DROP_MAX winners, and a match
\* that is not stored has no rows.
TypeOK ==
  /\ stored \in BOOLEAN /\ live \in BOOLEAN
  /\ stat \in [Players -> StatRows] /\ card \in [Players -> StatRows]
  /\ ~stored => Rows = {}
  /\ mvp \in [player : Players \cup {None}, missed : BOOLEAN]
  /\ drop \in [Channels -> 0..DropMax \cup {None}]
  /\ won \in [Channels -> [Watchers -> Nat]]
  /\ torn \subseteq Failures

\* However often and from however many tabs the MVP of the match is confirmed,
\* a channel's drop pays once: each winner one token, as many as the row says.
DropPaidOnce ==
  \A ch \in Channels :
    /\ \A v \in Watchers : won[ch][v] <= 1
    /\ Cardinality({v \in Watchers : won[ch][v] = 1}) = (IF drop[ch] = None THEN 0 ELSE drop[ch])

AtRest == ingest = Idle /\ "bonus" \notin torn

\* The MVP has the bonus once no ingest runs, whatever confirmations overlapped
\* and however often the rows were replaced; excepted are an ingest that failed
\* between its commits and a provisional confirmation that the ingest missed.
MVPHasBonus ==
  (AtRest /\ ~mvp.missed /\ mvp.player \in Rows) => stat[mvp.player].mvp

\* A match with stats leaves the list of live matches for good, although the
\* live thread goes on seeing it ("a match with stats is never listed twice").
LiveRowGone == (ingest = Idle /\ "live" \notin torn /\ Rows # {}) => ~live

\* Every player of a match at rest has stored points, and they are from the
\* stats the match has now, never from a payload a refresh replaced.
Payload(row) == IF row = None THEN None ELSE row.payload
CardPointsOfCurrentStats ==
  AtRest => \A p \in Players : Payload(card[p]) = Payload(stat[p])

\* twitch_mvp is "the canonical record" and is_mvp "a derived flag": of a match
\* at rest exactly the MVP has it, if the MVP played.
FlagFollowsMVP ==
  AtRest => {p \in Rows : stat[p].mvp} = Rows \cap {mvp.player}

\* The stored points of a match at rest are those of its current rows, with the
\* bonus "when the player was that match's MVP".
CardPointsFollowRows == AtRest => card = stat

=============================================================================
