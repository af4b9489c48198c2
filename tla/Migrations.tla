----------------------------- MODULE Migrations -----------------------------
(***************************************************************************)
(* The migrations a start of the program runs before it serves (backend/   *)
(* migrate.py, the lifespan of main.py), with the three that rewrite what  *)
(* players own: 037 repairs rosters, 038 pays the Twitch starter to those  *)
(* who never got it, 041 clears typed-in player links.  The program may    *)
(* stop anywhere; a statement may raise, and then the next migration runs  *)
(* on in the same transaction.  The program serves in between: accounts    *)
(* connect and disconnect Twitch, and put cards on their roster.  The      *)
(* statements of a loop are one step where repeating them changes nothing. *)
(***************************************************************************)
EXTENDS Integers, Sequences, FiniteSetsExt

CONSTANTS
  Webs,        \* website accounts
  TwitchIds,
  NoTwitch,    \* users.twitch_account_id is NULL
  Deck,        \* cards of one owner, numbers in the order of their ids
  PlayerOf,    \* PlayerOf[c]
  RosterLimit,
  LegacyStarters, LegacyRosters,   \* databases earlier versions left behind
  MaxStarts    \* bound on starts

VARIABLES
  db,          \* what is committed
  view,        \* what the migrations' connection sees
  migrating,   \* where the start is, "serving" or "stopped"
  starts       \* starts so far

migrationVars == <<db, view, migrating, starts>>

Migrations == <<"037", "038", "041">>

\* A database: legacy says what was earned before.
NewDatabase(twitch, joined, joins, active, slot) ==
  [twitch |-> twitch,         \* twitch_account_id of each website account
   joined |-> joined,         \* those that merged a soft account
   joins |-> joins,           \* ids whose starter came with Join
   soft |-> joins \ {twitch[w] : w \in Webs},   \* those a soft account still has
   unknown |-> {},            \* of joins, those connected before they had a row
   grants |-> {},             \* twitch_starter_grants
   paidUser |-> [w \in Webs |-> IF w \in joined THEN 1 ELSE 0],
   paidId |-> [i \in TwitchIds |-> IF i \in joins THEN 1 ELSE 0],
   active |-> active, slot |-> slot, index |-> FALSE,
   players |-> Cardinality({PlayerOf[c] : c \in active}),
   links |-> TRUE, applied |-> {}]

\* What an earlier version leaves behind.
IsNew(d) ==
  /\ d = NewDatabase(d.twitch, d.joined, d.joins, d.active, d.slot)
  /\ d.twitch \in [Webs -> TwitchIds \cup {NoTwitch}]
  /\ d.joined \subseteq Webs /\ d.joins \subseteq TwitchIds
  /\ d.active \subseteq Deck /\ d.slot \in [Deck -> Nat]

ASSUME MigrationsAssumption ==
  /\ Webs \subseteq Nat /\ IsFiniteSet(Webs) /\ Deck \subseteq Nat /\ IsFiniteSet(Deck)
  /\ NoTwitch \notin TwitchIds
  /\ RosterLimit \in Nat \ {0} /\ MaxStarts \in Nat
  /\ \A d \in LegacyStarters \cup LegacyRosters : IsNew(d)

At(k, step) == [at |-> k, step |-> step, todo |-> <<>>]
Stopped == At(0, "stopped")
Serving == At(0, "serving")

-----------------------------------------------------------------------------
(* Statements and the registry *)

\* A statement that writes stays uncommitted.
Writes(new, next) == view' = new /\ migrating' = next /\ UNCHANGED <<db, starts>>
Commits(new, next) == db' = new /\ view' = new /\ migrating' = next /\ UNCHANGED starts

\* After the last migration the connection is closed, with what is uncommitted.
Following(k) == IF k = Len(Migrations) THEN Serving ELSE At(k + 1, "start")
EndOf(k) ==
  /\ migrating' = Following(k) /\ UNCHANGED <<db, starts>>
  /\ view' = IF k = Len(Migrations) THEN db ELSE view

InStep(name, step) ==
  migrating.at # 0 /\ Migrations[migrating.at] = name /\ migrating.step = step
AtStep(step) == At(migrating.at, step)

StartUp ==
  /\ migrating = Stopped /\ starts < MaxStarts /\ starts' = starts + 1
  /\ migrating' = At(1, "start") /\ UNCHANGED <<db, view>>

\* _applied, and the checks that make a migration return at once.
Applied(k) == Migrations[k] \in view.applied
Skip ==
  /\ migrating.at # 0 /\ migrating.step = "start" /\ Applied(migrating.at)
  /\ EndOf(migrating.at)
Record ==
  /\ migrating.at # 0 /\ migrating.step = "record"
  /\ LET new == [view EXCEPT !.applied = @ \cup {Migrations[migrating.at]}]
         next == Following(migrating.at)
     IN Commits(new, next)

\* The exception of a statement is logged; nothing is rolled back.
Fails ==
  /\ migrating.at # 0 /\ ~(migrating.step = "start" /\ Applied(migrating.at))
  /\ EndOf(migrating.at)

Stop ==
  /\ migrating # Stopped /\ starts < MaxStarts
  /\ migrating' = Stopped /\ view' = db /\ UNCHANGED <<db, starts>>

-----------------------------------------------------------------------------
(* 037: one active card per player, and RosterLimit at most *)

\* Cards ahead of c in the order of the repair: by slot, without a slot last, by id.
AheadOf(d, cards, c) ==
  {o \in cards : \/ d.slot[o] # 0 /\ d.slot[c] = 0
                 \/ (d.slot[o] = 0 <=> d.slot[c] = 0)
                    /\ (d.slot[o] < d.slot[c] \/ (d.slot[o] = d.slot[c] /\ o < c))}

Duplicates(d) ==
  {c \in d.active :
     AheadOf(d, {o \in d.active : PlayerOf[o] = PlayerOf[c]}, c) # {}}
Surplus(d) ==
  {c \in d.active : Cardinality(AheadOf(d, d.active, c)) >= RosterLimit}
Benched(d, cards) ==
  [d EXCEPT !.active = @ \ cards,
            !.slot = [c \in Deck |-> IF c \in cards THEN 0 ELSE d.slot[c]]]

RepairedTogether(d) == Benched(d, Duplicates(d) \cup Surplus(d))
Repaired(d) == LET once == Benched(d, Duplicates(d)) IN Benched(once, Surplus(once))

RepairRosters ==
  /\ InStep("037", "start") /\ ~Applied(migrating.at)
  /\ IF view.index THEN UNCHANGED <<db, view, starts>> /\ migrating' = AtStep("record")
     ELSE Writes(Repaired(view), AtStep("index"))
AddIndex ==
  /\ InStep("037", "index")
  /\ Commits([view EXCEPT !.index = TRUE], AtStep("record"))

-----------------------------------------------------------------------------
(* 038: the starter of those who connected before it existed *)

\* INSERT ... ON CONFLICT DO NOTHING: one row per Twitch id, one "connect" per user.
InsertedAlways(d, g) == TRUE
Inserted(d, g) ==
  /\ \A o \in d.grants : o.id # g.id
  /\ g.source = "connect" =>
       \A o \in d.grants : ~(o.source = "connect" /\ o.user = g.user)
Granted(d, g) == IF Inserted(d, g) THEN d.grants \cup {g} ELSE d.grants

\* First the ids whose starter came with Join.
JoinRows(d) ==
  {[id |-> i, user |-> 0, source |-> "join"] : i \in d.joins \ {g.id : g \in d.grants}}

\* Then the other accounts with an id and no "connect" row, in the order of their ids.
StarterCandidates(d) ==
  {w \in Webs : /\ d.twitch[w] # NoTwitch /\ w \notin d.joined
                /\ \A g \in d.grants : ~(g.user = w /\ g.source = "connect")}
InOrderOfId(users) ==
  {s \in [1..Cardinality(users) -> users] : \A i, j \in DOMAIN s : i < j => s[i] < s[j]}

GrantJoins ==
  /\ InStep("038", "start") /\ ~Applied(migrating.at)
  /\ LET new == [view EXCEPT !.grants = @ \cup JoinRows(view)]
     IN \E todo \in InOrderOfId(StarterCandidates(new)) :
          Writes(new, [AtStep("grant") EXCEPT !.todo = todo])

GrantNext ==
  /\ InStep("038", "grant") /\ migrating.todo # <<>>
  /\ LET w == Head(migrating.todo)
         g == [id |-> view.twitch[w], user |-> w, source |-> "connect"]
         rest == [migrating EXCEPT !.todo = Tail(@)]
     IN IF Inserted(view, g)
        THEN Writes([view EXCEPT !.grants = Granted(view, g)],
                    [migrating EXCEPT !.step = "credit"])
        ELSE UNCHANGED <<db, view, starts>> /\ migrating' = rest
Paid(d, w, i) == [d EXCEPT !.paidUser[w] = @ + 1, !.paidId[i] = @ + 1]
CreditNext ==
  /\ InStep("038", "credit")
  /\ LET w == Head(migrating.todo)
     IN Writes(Paid(view, w, view.twitch[w]),
               [migrating EXCEPT !.step = "grant", !.todo = Tail(@)])
CommitStarters ==
  /\ InStep("038", "grant") /\ migrating.todo = <<>>
  /\ Commits(view, AtStep("record"))

-----------------------------------------------------------------------------
(* 041, and the program while it serves *)

ClearLinks ==
  /\ InStep("041", "start") /\ ~Applied(migrating.at)
  /\ Commits([view EXCEPT !.links = FALSE], AtStep("record"))

\* connect_account: the id of a soft account waits for the merge; another one is paid
\* unless it or the account had a starter, as far as the rows say.
ConnectId(w, i) ==
  /\ migrating = Serving /\ db.twitch[w] = NoTwitch /\ \A o \in Webs : db.twitch[o] # i
  /\ LET g == [id |-> i, user |-> w, source |-> "connect"]
         d == [db EXCEPT !.twitch[w] = i]
         new == CASE i \in db.soft -> [d EXCEPT !.soft = @ \ {i}, !.joined = @ \cup {w}]
                  [] i \notin db.soft /\ w \notin db.joined /\ Inserted(db, g) ->
                       [Paid([d EXCEPT !.grants = Granted(d, g)], w, i)
                          EXCEPT !.unknown = @ \cup (db.joins \cap {i})]
                  [] OTHER -> d
     IN Commits(new, migrating)
DisconnectId(w) ==
  /\ migrating = Serving /\ db.twitch[w] # NoTwitch
  /\ LET new == [db EXCEPT !.twitch[w] = NoTwitch] IN Commits(new, migrating)

\* _activate_card_atomic
PutOnRoster(c) ==
  /\ migrating = Serving /\ c \notin db.active
  /\ Cardinality(db.active) < RosterLimit
  /\ \A o \in db.active : PlayerOf[o] # PlayerOf[c]
  /\ LET new == [db EXCEPT !.active = @ \cup {c}] IN Commits(new, migrating)

MigrationsInit ==
  /\ db \in LegacyStarters \cup LegacyRosters
  /\ view = db /\ migrating = Stopped /\ starts = 0

StartNext ==
  \/ StartUp \/ Skip \/ Record \/ Fails \/ Stop
  \/ RepairRosters \/ AddIndex \/ GrantJoins \/ GrantNext \/ CreditNext \/ CommitStarters
  \/ ClearLinks
StartersNext ==
  \/ StartNext
  \/ \E w \in Webs : DisconnectId(w) \/ \E i \in TwitchIds : ConnectId(w, i)
RostersNext == StartNext \/ \E c \in Deck : PutOnRoster(c)

MigrationsSpec == MigrationsInit /\ [][StartersNext \/ RostersNext]_migrationVars

-----------------------------------------------------------------------------
(* Properties *)

MigrationsTypeOK ==
  /\ db.applied \subseteq {Migrations[k] : k \in 1..Len(Migrations)}
  /\ db.active \subseteq Deck /\ db.slot \in [Deck -> Nat]
  /\ db.twitch \in [Webs -> TwitchIds \cup {NoTwitch}]
  /\ migrating.at # 0 \/ view = db

\* However often a start is cut short, fails in the middle or is repeated, and
\* whatever connects in between, the starter is paid at most once per website account
\* and at most once per Twitch account, Joins included, and to nobody without a row;
\* but for an id of a Join that the program connected while 038 was still to come.
StarterPaidOnce ==
  /\ \A w \in Webs : db.paidUser[w] <= 1
  /\ \A i \in TwitchIds \ db.unknown : db.paidId[i] <= 1
  /\ \A w \in Webs \ db.joined : db.paidUser[w] = 1 =>
       \E g \in db.grants : g.user = w /\ g.source = "connect"

\* Once the index is there, a roster is legal, and the repair took no card it need not.
RosterRepaired ==
  db.index =>
    /\ \A c, o \in db.active : PlayerOf[c] = PlayerOf[o] => c = o
    /\ Cardinality(db.active) <= RosterLimit
    /\ Cardinality(db.active) >= Min({RosterLimit, db.players})

\* However far the starts of a new version got, what they left behind is sound.
DatabasesRepaired == StarterPaidOnce /\ RosterRepaired
=============================================================================
