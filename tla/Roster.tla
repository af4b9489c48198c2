------------------------------- MODULE Roster -------------------------------
(***************************************************************************)
(* Cards, rosters and token balances (backend/routers/cards.py,            *)
(* card_utils.py, card_draw.py, database.py and the player pool of         *)
(* routers/admin_players.py).                                              *)
(*                                                                         *)
(* A request runs in a thread of its own with its own database session.    *)
(* SQLite gives every SELECT before the first write of the request a       *)
(* snapshot of its own and holds one write lock from the first write to    *)
(* the commit.  A handler is therefore a Begin action, which makes the     *)
(* unlocked checks and keeps what they read in req[r], and a Commit        *)
(* action, the write transaction, which sees the current rows.  A handler  *)
(* that decides nothing before its first write is one action.              *)
(*                                                                         *)
(* Left out: slot numbers and bench order, rarity and modifiers.  A layout *)
(* is the set of roster cards and the set of bench cards that the page     *)
(* shows, so a version check of the model passes whenever the code's does. *)
(***************************************************************************)
EXTENDS Integers, FiniteSets

CONSTANTS
  Users,         \* accounts
  Players,       \* rows of the players table
  TeamPlayers,   \* the players of the one team that boosters are drawn from
  CardIds,       \* ids the cards table can hand out (bound on draws)
  Clients,       \* requests in flight at the same time: tabs, Twitch panels
  RosterLimit,   \* ROSTER_LIMIT
  BoosterCost,   \* weight team_booster_cost
  InitTokens,    \* INITIAL_TOKENS
  MaxCredits,    \* bound on the tokens credited to one account
  None           \* owner and player of an id not handed out yet

ASSUME RosterAssumption ==
  /\ IsFiniteSet(CardIds)
  /\ TeamPlayers \subseteq Players
  /\ RosterLimit \in Nat /\ BoosterCost \in Nat
  /\ InitTokens \in Nat /\ MaxCredits \in Nat
  /\ None \notin Users /\ None \notin Players

VARIABLES
  owner,    \* cards.owner_id
  player,   \* cards.player_id
  active,   \* cards.is_active
  inPool,   \* players.is_active: FALSE is a removed player
  tokens,   \* users.tokens
  log,      \* per account, the token rows of audit_logs
  req       \* what each request in flight has read so far

vars == <<owner, player, active, inPool, tokens, log, req>>
cardVars == <<owner, player, active>>

-----------------------------------------------------------------------------
(* Rows and queries *)

Idle == [op |-> "idle"]

Owned(u) == {c \in CardIds : owner[c] = u}

Roster(u) == {c \in Owned(u) : active[c]}

OwnsPlayer(u, p) == \E c \in Owned(u) : player[c] = p

\* Another card of the player is on the roster.
PlayerTaken(u, p, c) == \E d \in Roster(u) : player[d] = p /\ d # c

\* The layout My Team shows: cards of removed players are left out.
Layout(u) ==
  [roster |-> {c \in Roster(u) : inPool[player[c]]},
   bench  |-> {c \in Owned(u) \ Roster(u) : inPool[player[c]]}]

\* Players a draw may pick: those not owned yet, or all once every one is owned.
EligibleNoFallback(u, pool) ==
  LET fresh == {p \in pool : ~OwnsPlayer(u, p)}
  IN IF fresh # {} THEN fresh ELSE {None}
Eligible(u, pool) ==
  LET fresh == {p \in pool : ~OwnsPlayer(u, p)}
  IN IF fresh # {} THEN fresh ELSE pool

\* The WHERE clause of the one UPDATE that puts a card on the roster.
CanActivateNoCount(u, c, p) == ~PlayerTaken(u, p, c)
CanActivateNoPlayer(u, c, p) == Cardinality(Roster(u)) < RosterLimit
CanActivate(u, c, p) ==
  /\ Cardinality(Roster(u)) < RosterLimit
  /\ ~PlayerTaken(u, p, c)

CostFlat(op) == 1
Cost(op) == IF op = "booster" THEN BoosterCost ELSE 1

\* The WHERE clause of spend_tokens.
CanSpendUnchecked(u, amount) == TRUE
CanSpend(u, amount) == tokens[u] >= amount

Spend(u, amount) == tokens' = [tokens EXCEPT ![u] = @ - amount]

Reply(r) == req' = [req EXCEPT ![r] = Idle]

-----------------------------------------------------------------------------
(* Draws and rerolls *)

\* Bound: a draw starts only when an id is left for its card.
IdLeft ==
  Cardinality({c \in CardIds : owner[c] # None})
    + Cardinality({r \in Clients : req[r].op \in {"draw", "booster"}})
      < Cardinality(CardIds)

BeginDraw(r, u) ==
  /\ req[r] = Idle /\ IdLeft
  /\ tokens[u] > 0
  /\ \E p \in Eligible(u, Players) :
       req' = [req EXCEPT ![r] = [op |-> "draw", user |-> u, player |-> p]]
  /\ UNCHANGED <<cardVars, inPool, tokens, log>>

BeginBooster(r, u) ==
  /\ req[r] = Idle /\ IdLeft
  /\ tokens[u] >= BoosterCost
  /\ \E p \in Eligible(u, TeamPlayers) :
       req' = [req EXCEPT ![r] = [op |-> "booster", user |-> u, player |-> p]]
  /\ UNCHANGED <<cardVars, inPool, tokens, log>>

\* Insert the card, put it on the roster if it fits, pay, log.
CommitDraw(r) ==
  LET u == req[r].user
      p == req[r].player
  IN /\ req[r].op \in {"draw", "booster"}
     /\ CanSpend(u, Cost(req[r].op))
     /\ \E c \in CardIds :
          /\ owner[c] = None
          /\ owner' = [owner EXCEPT ![c] = u]
          /\ player' = [player EXCEPT ![c] = p]
          /\ active' = [active EXCEPT ![c] = CanActivate(u, c, p)]
     /\ Spend(u, Cost(req[r].op))
     /\ log' = IF req[r].op = "draw" THEN [log EXCEPT ![u].draws = @ + 1]
                                     ELSE [log EXCEPT ![u].boosters = @ + 1]
     /\ Reply(r)
     /\ UNCHANGED inPool

BeginReroll(r, u) ==
  /\ req[r] = Idle
  /\ tokens[u] > 0
  /\ Owned(u) # {}
  /\ req' = [req EXCEPT ![r] = [op |-> "reroll", user |-> u]]
  /\ UNCHANGED <<cardVars, inPool, tokens, log>>

CommitReroll(r) ==
  /\ req[r].op = "reroll"
  /\ CanSpend(req[r].user, 1)
  /\ Spend(req[r].user, 1)
  /\ log' = [log EXCEPT ![req[r].user].rerolls = @ + 1]
  /\ Reply(r)
  /\ UNCHANGED <<cardVars, inPool>>

\* The tokens went elsewhere in between: everything is rolled back.
NotEnoughTokens(r) ==
  /\ req[r].op \in {"draw", "booster", "reroll"}
  /\ ~CanSpend(req[r].user, Cost(req[r].op))
  /\ Reply(r)
  /\ UNCHANGED <<cardVars, inPool, tokens, log>>

-----------------------------------------------------------------------------
(* Roster changes *)

BeginActivate(r, c) ==
  /\ req[r] = Idle
  /\ owner[c] # None /\ ~active[c]
  /\ Cardinality(Roster(owner[c])) < RosterLimit
  /\ ~PlayerTaken(owner[c], player[c], c)
  /\ req' = [req EXCEPT ![r] = [op |-> "activate", user |-> owner[c], card |-> c]]
  /\ UNCHANGED <<cardVars, inPool, tokens, log>>

CommitActivate(r) ==
  LET c == req[r].card
  IN /\ req[r].op = "activate"
     /\ active' = IF /\ owner[c] = req[r].user /\ ~active[c]
                     /\ CanActivate(req[r].user, c, player[c])
                  THEN [active EXCEPT ![c] = TRUE] ELSE active
     /\ Reply(r)
     /\ UNCHANGED <<owner, player, inPool, tokens, log>>

\* The card read as active is benched, whatever else happened in between.
Deactivate(c) ==
  /\ owner[c] # None /\ active[c]
  /\ active' = [active EXCEPT ![c] = FALSE]
  /\ UNCHANGED <<owner, player, inPool, tokens, log, req>>

BeginSwap(r, in, out) ==
  /\ req[r] = Idle
  /\ owner[in] # None /\ owner[out] = owner[in]
  /\ ~active[in] /\ active[out]
  /\ ~\E d \in Roster(owner[in]) : player[d] = player[in] /\ d # out
  /\ req' = [req EXCEPT ![r] = [op |-> "swap", user |-> owner[in], in |-> in, out |-> out]]
  /\ UNCHANGED <<cardVars, inPool, tokens, log>>

\* Both UPDATEs found their row; a swap that fails the second is rolled back.
CanSwap(u, in, out) ==
  /\ owner[out] = u /\ active[out]
  /\ owner[in] = u /\ ~active[in]
  /\ ~\E d \in Roster(u) : player[d] = player[in] /\ d # out

CommitSwap(r) ==
  LET in == req[r].in
      out == req[r].out
  IN /\ req[r].op = "swap"
     /\ active' = IF CanSwap(req[r].user, in, out)
                  THEN [active EXCEPT ![out] = FALSE, ![in] = TRUE] ELSE active
     /\ Reply(r)
     /\ UNCHANGED <<owner, player, inPool, tokens, log>>

\* My Team loads the roster and the version a later save is based on.
OpenPage(r, u) ==
  /\ req[r] = Idle
  /\ req' = [req EXCEPT ![r] = [op |-> "save", user |-> u, base |-> Layout(u)]]
  /\ UNCHANGED <<cardVars, inPool, tokens, log>>

\* The checks of a save on the cards it lists as active.
ValidRoster(u, A) ==
  /\ A \subseteq Owned(u)
  /\ Cardinality(A) <= RosterLimit
  /\ \A c, d \in A : player[c] = player[d] => c = d
  /\ \A c \in A : inPool[player[c]]

VersionIgnored(u, base) == TRUE
VersionMatches(u, base) == Layout(u) = base

SaveLayout(r) ==
  LET u == req[r].user
  IN /\ req[r].op = "save"
     /\ VersionMatches(u, req[r].base)
     /\ \E A \in SUBSET CardIds :
          /\ ValidRoster(u, A)
          /\ \/ active' = [c \in CardIds |-> c \in A \/ (owner[c] # u /\ active[c])]
             \/ A = Layout(u).roster /\ active' = active  \* the stored layout: no write
     /\ Reply(r)
     /\ UNCHANGED <<owner, player, inPool, tokens, log>>

\* A stale version, or a page closed without saving: nothing is written.
DropPage(r) ==
  /\ req[r].op = "save"
  /\ Reply(r)
  /\ UNCHANGED <<cardVars, inPool, tokens, log>>

-----------------------------------------------------------------------------
(* The player pool and token credits *)

Held(u, p) == Cardinality({c \in Owned(u) : player[c] = p})

\* Bench the player's cards and refund one token for each, active or not.
RemovePlayer(p) ==
  /\ inPool[p]
  /\ \A u \in Users : log[u].credits + Held(u, p) <= MaxCredits
  /\ inPool' = [inPool EXCEPT ![p] = FALSE]
  /\ active' = [c \in CardIds |-> active[c] /\ player[c] # p]
  /\ tokens' = [u \in Users |-> tokens[u] + Held(u, p)]
  /\ log' = [u \in Users |-> [log[u] EXCEPT !.credits = @ + Held(u, p)]]
  /\ UNCHANGED <<owner, player, req>>

AddPlayer(p) ==
  /\ ~inPool[p]
  /\ inPool' = [inPool EXCEPT ![p] = TRUE]
  /\ UNCHANGED <<cardVars, tokens, log, req>>

\* An admin grant; every other credit (week lock, code, event) has this form.
GrantToken(u) ==
  /\ log[u].credits < MaxCredits
  /\ tokens' = [tokens EXCEPT ![u] = @ + 1]
  /\ log' = [log EXCEPT ![u].credits = @ + 1]
  /\ UNCHANGED <<cardVars, inPool, req>>

-----------------------------------------------------------------------------
Init ==
  /\ owner = [c \in CardIds |-> None]
  /\ player = [c \in CardIds |-> None]
  /\ active = [c \in CardIds |-> FALSE]
  /\ inPool = [p \in Players |-> TRUE]
  /\ tokens = [u \in Users |-> InitTokens]
  /\ log = [u \in Users |-> [draws |-> 0, boosters |-> 0, rerolls |-> 0, credits |-> 0]]
  /\ req = [r \in Clients |-> Idle]

Request(r) ==
  \/ \E u \in Users : BeginDraw(r, u)
  \/ \E u \in Users : BeginBooster(r, u)
  \/ CommitDraw(r)
  \/ \E u \in Users : BeginReroll(r, u)
  \/ CommitReroll(r)
  \/ NotEnoughTokens(r)
  \/ \E c \in CardIds : BeginActivate(r, c)
  \/ CommitActivate(r)
  \/ \E in, out \in CardIds : BeginSwap(r, in, out)
  \/ CommitSwap(r)
  \/ \E u \in Users : OpenPage(r, u)
  \/ SaveLayout(r)
  \/ DropPage(r)

Next ==
  \/ \E r \in Clients : Request(r)
  \/ \E c \in CardIds : Deactivate(c)
  \/ \E p \in Players : RemovePlayer(p)
  \/ \E p \in Players : AddPlayer(p)
  \/ \E u \in Users : GrantToken(u)

Spec == Init /\ [][Next]_vars

-----------------------------------------------------------------------------
(* Properties *)

Requests ==
  {Idle}
    \cup [op : {"draw", "booster"}, user : Users, player : Players]
    \cup [op : {"reroll"}, user : Users]
    \cup [op : {"activate"}, user : Users, card : CardIds]
    \cup [op : {"swap"}, user : Users, in : CardIds, out : CardIds]
    \cup [op : {"save"}, user : Users,
          base : [roster : SUBSET CardIds, bench : SUBSET CardIds]]

\* Types of the rows; a card has an owner exactly when it has a player, and
\* only a card that exists is active.
TypeOK ==
  /\ owner \in [CardIds -> Users \cup {None}]
  /\ player \in [CardIds -> Players \cup {None}]
  /\ active \in [CardIds -> BOOLEAN]
  /\ \A c \in CardIds : owner[c] = None <=> player[c] = None
  /\ \A c \in CardIds : active[c] => owner[c] # None
  /\ inPool \in [Players -> BOOLEAN]
  /\ tokens \in [Users -> Int]
  /\ log \in [Users -> [draws : Nat, boosters : Nat, rerolls : Nat, credits : Nat]]
  /\ req \in [Clients -> Requests]

\* No interleaving of draws, activations, swaps and saves, each of which
\* counts the roster before another one's write, leaves an account with more
\* than ROSTER_LIMIT active cards.
RosterWithinLimit == \A u \in Users : Cardinality(Roster(u)) <= RosterLimit

\* The guards in the code alone keep one active card per player and account,
\* so the unique index ux_cards_owner_player_active never refuses a write: a
\* draw, which does not catch that refusal, never answers with an error.
OneActivePerPlayer ==
  \A u \in Users : \A c, d \in Roster(u) : player[c] = player[d] => c = d

\* Two requests that both saw enough tokens do not both spend them.
TokensNeverNegative == \A u \in Users : tokens[u] >= 0

\* The audit log explains every balance, and each card was paid for by exactly
\* one logged draw: no request keeps a card without paying or pays twice.
LedgerBalances ==
  \A u \in Users :
    /\ tokens[u] = InitTokens + log[u].credits - log[u].draws
                     - BoosterCost * log[u].boosters - log[u].rerolls
    /\ Cardinality(Owned(u)) = log[u].draws + log[u].boosters

\* A save moves a card only if the page knew where the card was: a change that
\* another tab or the Twitch panel made since the page was loaded survives.
NoLostUpdate ==
  [][\A r \in Clients :
       (req[r].op = "save" /\ req'[r] # req[r]) =>
         \A c \in Owned(req[r].user) :
           (inPool[player[c]] /\ active'[c] # active[c]) =>
             (active[c] <=> c \in req[r].base.roster)]_vars

\* A draw never gives a player the account already owns while some player is
\* still missing (cards.md "Player selection").
NoEarlyDuplicate ==
  [][\A c \in CardIds :
       (owner[c] = None /\ owner'[c] # None) =>
         LET u == owner'[c]
         IN OwnsPlayer(u, player'[c]) =>
              \A p \in TeamPlayers : inPool[p] => OwnsPlayer(u, p)]_vars

\* A removed player's cards are benched and cannot be drawn or activated.
RemovedPlayersOffRoster ==
  \A c \in CardIds : active[c] => inPool[player[c]]

=============================================================================
