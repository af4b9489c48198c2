---------------------------- MODULE SoftAccounts ----------------------------
(***************************************************************************)
(* Twitch viewer accounts (backend/soft_accounts.py), their connection     *)
(* with website accounts (twitch_oauth.py), the panel calls that create,   *)
(* recognise and delete them (twitch.py) and the admin side (routers/      *)
(* admin_twitch.py, admin_users.py, the reset of admin_season.py).         *)
(*                                                                         *)
(* Ids are numbers because SQLite hands out "largest id + 1": the id of a  *)
(* deleted last row comes back.  A viewer stands for both of its Twitch    *)
(* ids, the opaque id of the panel and the real id of the identity share   *)
(* and of Twitch sign-in.  Requests that decide on rows read before their  *)
(* first write are a Begin and a Commit action, as in module Roster.       *)
(*                                                                         *)
(* Left out: presence rows, weekly roster rows of a merge, audit rows.     *)
(***************************************************************************)
EXTENDS Integers, FiniteSets, FiniteSetsExt

CONSTANTS
  Webs,          \* ids of the website accounts
  MaxId,         \* bound on users.id
  Viewers,       \* Twitch accounts
  MaxDraws,      \* bound on draws and season resets together
  MaxLog,        \* bound on twitch_merge_log.id
  SoftClients,   \* requests in flight
  Starter,       \* INITIAL_TOKENS
  Balances,      \* what website accounts have left at the start
  Bonus,         \* TWITCH_CONNECT_BONUS_TOKENS
  MaxMerges,     \* bound on reversals, and on merges but one
  LateRaces,     \* whether requests also race after a reversal
  Nobody         \* no Twitch id

ASSUME SoftAssumption ==
  /\ LateRaces \in BOOLEAN
  /\ MaxId \in Nat /\ MaxDraws \in Nat /\ MaxLog \in Nat /\ MaxMerges \in Nat
  /\ Webs \subseteq 1..MaxId
  /\ Starter \in Nat /\ Bonus \in Nat /\ Balances \subseteq Nat
  /\ IsFiniteSet(Viewers) /\ Nobody \notin Viewers

VARIABLES
  accounts,   \* the users table
  cardOwner,  \* cards.owner_id, 0 for an id not handed out
  grants,     \* twitch_starter_grants
  mergeLogs,  \* twitch_merge_log
  softReq,    \* what each request in flight has read
  draws,      \* draws and season resets so far
  history     \* per website account: bonuses paid, merges, reversals

softVars == <<accounts, cardOwner, grants, mergeLogs, softReq, draws, history>>

AccountIds == 1..MaxId
CardNumbers == 1..MaxDraws
LogIds == 1..MaxLog

-----------------------------------------------------------------------------
(* Rows and queries *)

NoRow == [kind |-> "none"]
NoLog == [state |-> "none"]
SoftIdle == [op |-> "idle"]

NewAccount(kind, opaque, real, tokens) ==
  [kind |-> kind, opaque |-> opaque, real |-> real, tokens |-> tokens,
   pending |-> 0, merged |-> FALSE]

Exists(i) == i \in AccountIds /\ accounts[i].kind # "none"
IsSoft(i) == i \in AccountIds /\ accounts[i].kind = "soft"

\* An INTEGER PRIMARY KEY without AUTOINCREMENT: the largest id plus one.
NextId(used) == IF used = {} THEN 1 ELSE Max(used) + 1
NextAccount == NextId({i \in AccountIds : Exists(i)})
NextCard == NextId({c \in CardNumbers : cardOwner[c] # 0})
NextLog == NextId({l \in LogIds : mergeLogs[l].state # "none"})

ByOpaque(v) == {i \in AccountIds : Exists(i) /\ accounts[i].opaque = v /\ v # Nobody}
ByReal(v) == {i \in AccountIds : Exists(i) /\ accounts[i].real = v /\ v # Nobody}
CardsOf(i) == {c \in CardNumbers : cardOwner[c] = i}

Pick(S) == IF S = {} THEN 0 ELSE Max(S)

\* A request arrives.
Arrives(r) ==
  /\ softReq[r] = SoftIdle
  /\ \/ LateRaces \/ \A w \in Webs : history[w].reversals = 0
     \/ \A q \in SoftClients : softReq[q] = SoftIdle

Answer(r) == softReq' = [softReq EXCEPT ![r] = SoftIdle]

\* What an UPDATE writes: only the attributes set to another value than loaded.
Flushed(loaded, current, new) == IF new = loaded THEN current ELSE new

-----------------------------------------------------------------------------
(* The panel *)

\* The account the panel acts as; real is the JWT's user_id or Nobody.
PanelAccount(v, real) ==
  IF ByOpaque(v) # {} THEN Pick(ByOpaque(v)) ELSE Pick(ByReal(real))

\* The identity share: the account rows once account i has told its real id.
Shared(i, real) ==
  LET holder == Pick(ByReal(real) \ {i})
  IN IF real = Nobody \/ accounts[i].real # Nobody THEN accounts
     ELSE IF holder = 0 THEN [accounts EXCEPT ![i].real = real]
     ELSE IF /\ IsSoft(i) /\ ~IsSoft(holder)
             /\ accounts[holder].pending = 0 /\ ~accounts[holder].merged
          THEN [accounts EXCEPT ![holder].pending = i]
          ELSE accounts

JoinGrant(i, real) ==
  IF /\ real # Nobody /\ accounts[i].real = Nobody /\ IsSoft(i)
     /\ ByReal(real) \ {i} = {} /\ \A g \in grants : g.viewer # real
  THEN grants \cup {[viewer |-> real, user |-> i, source |-> "join"]}
  ELSE grants

\* join and every other panel call of a viewer who has an account.
Visit(v, real) ==
  LET i == PanelAccount(v, real)
  IN /\ i # 0
     /\ grants' = JoinGrant(i, real)
     /\ accounts' = [Shared(i, real) EXCEPT ![i].opaque = v]
     /\ UNCHANGED <<cardOwner, mergeLogs, softReq, draws, history>>

\* join without an account.
JoinNew(v, real) ==
  /\ PanelAccount(v, real) = 0
  /\ NextAccount <= MaxId
  /\ accounts' = [accounts EXCEPT ![NextAccount] = NewAccount("soft", v, real, Starter)]
  /\ grants' = IF real = Nobody \/ \E g \in grants : g.viewer = real
               THEN grants
               ELSE grants \cup {[viewer |-> real, user |-> NextAccount, source |-> "join"]}
  /\ UNCHANGED <<cardOwner, mergeLogs, softReq, draws, history>>

\* A draw of any account: the conditional UPDATE of the balance decides.
DrawCard(i) ==
  /\ Exists(i) /\ accounts[i].tokens > 0
  /\ draws < MaxDraws
  /\ draws' = draws + 1
  /\ accounts' = [accounts EXCEPT ![i].tokens = @ - 1]
  /\ cardOwner' = [cardOwner EXCEPT ![NextCard] = i]
  /\ UNCHANGED <<grants, mergeLogs, softReq, history>>

\* leave of a website account: the panel forgets it.
LeaveWeb(v) ==
  /\ \E i \in ByOpaque(v) :
       /\ ~IsSoft(i)
       /\ accounts' = [accounts EXCEPT ![i].opaque = Nobody]
  /\ UNCHANGED <<cardOwner, grants, mergeLogs, softReq, draws, history>>

-----------------------------------------------------------------------------
(* Deleting a viewer account: leave, the admin's delete, the daily purge *)

\* The handlers read the account and its cards before their first write.
\* The viewer and an admin delete any viewer account, the purge an idle one.
BeginDelete(r, i) ==
  /\ Arrives(r)
  /\ IsSoft(i)
  /\ softReq' = [softReq EXCEPT ![r] = [op |-> "delete", soft |-> i, cards |-> CardsOf(i)]]
  /\ UNCHANGED <<accounts, cardOwner, grants, mergeLogs, draws, history>>

CommitDelete(r) ==
  /\ softReq[r].op = "delete"
  /\ accounts' = [accounts EXCEPT ![softReq[r].soft] = NoRow]
  /\ cardOwner' = [c \in CardNumbers |->
                     IF c \in softReq[r].cards THEN 0 ELSE cardOwner[c]]
  /\ Answer(r)
  /\ UNCHANGED <<grants, mergeLogs, draws, history>>

-----------------------------------------------------------------------------
(* Connect Twitch on the website *)

\* connect_account up to its first write; the sign-in has returned sub.
BeginConnect(r, w, sub) ==
  LET holder == Pick(ByReal(sub))
  IN /\ Arrives(r)
     /\ accounts[w].real = Nobody
     /\ holder = 0 \/ IsSoft(holder)
     /\ softReq' = [softReq EXCEPT ![r] =
          [op |-> "connect", web |-> w, sub |-> sub, holder |-> holder,
           merged |-> accounts[w].merged, pending |-> accounts[w].pending]]
     /\ UNCHANGED <<accounts, cardOwner, grants, mergeLogs, draws, history>>

HasStarter(w, merged) ==
  merged \/ \E g \in grants : g.user = w /\ g.source = "connect"

\* The bonus: once per Twitch account and once per website account.
BonusDueAlways(w, sub, q) == q.holder = 0
BonusDue(w, sub, q) ==
  /\ q.holder = 0 /\ Bonus > 0
  /\ ~HasStarter(w, q.merged)
  /\ \A g \in grants : g.viewer # sub

\* A deleted holder or a taken id fails the transaction.
CommitConnect(r) ==
  LET q == softReq[r]
      w == q.web
      due == BonusDue(w, q.sub, q)
  IN /\ q.op = "connect"
     /\ IF /\ q.holder # 0 => Exists(q.holder)
           /\ ByReal(q.sub) \subseteq {w, q.holder}
        THEN /\ accounts' =
                  [i \in AccountIds |->
                     CASE i = w ->
                            [accounts[w] EXCEPT
                               !.real = q.sub,
                               !.pending = Flushed(q.pending, @, q.holder),
                               !.tokens = @ + (IF due THEN Bonus ELSE 0)]
                       [] i = q.holder -> [accounts[i] EXCEPT !.real = Nobody]
                       [] OTHER -> accounts[i]]
             /\ grants' = IF due
                          THEN grants \cup
                            {[viewer |-> q.sub, user |-> w, source |-> "connect"]}
                          ELSE grants
             /\ history' = IF due THEN [history EXCEPT ![w].bonuses = @ + 1] ELSE history
        ELSE UNCHANGED <<accounts, grants, history>>
     /\ Answer(r)
     /\ UNCHANGED <<cardOwner, mergeLogs, draws>>

Disconnect(w) ==
  /\ \/ accounts[w].real # Nobody \/ accounts[w].opaque # Nobody
     \/ accounts[w].pending # 0
  /\ accounts' = [accounts EXCEPT ![w].real = Nobody, ![w].opaque = Nobody,
                                  ![w].pending = 0]
  /\ UNCHANGED <<cardOwner, grants, mergeLogs, softReq, draws, history>>

-----------------------------------------------------------------------------
(* Merge and reversal *)

Least(a, b) == IF a < b THEN a ELSE b

\* merge_token_split: what moves, and what the starter deduction takes from
\* the soft account and from the website account.
TokenSplitNoCap(soft, web, deduct) ==
  [moved |-> soft - Least(soft, deduct), fromSoft |-> Least(soft, deduct),
   fromWeb |-> deduct - Least(soft, deduct)]
TokenSplit(soft, web, deduct) ==
  LET fromSoft == Least(soft, deduct)
  IN [moved |-> soft - fromSoft, fromSoft |-> fromSoft,
      fromWeb |-> Least(web, deduct - fromSoft)]

StarterReceived(w) ==
  IF \E g \in grants : g.user = w /\ g.source = "connect" THEN Bonus ELSE 0

BeginMerge(r, w) ==
  /\ Arrives(r)
  /\ ~accounts[w].merged
  /\ IsSoft(accounts[w].pending)
  /\ softReq' = [softReq EXCEPT ![r] =
       [op |-> "merge", web |-> w, soft |-> accounts[w].pending,
        opaque |-> accounts[accounts[w].pending].opaque]]
  /\ UNCHANGED <<accounts, cardOwner, grants, mergeLogs, draws, history>>

\* The collection is gone when the request arrives.
MergeGone(w) ==
  /\ ~accounts[w].merged
  /\ accounts[w].pending # 0 /\ ~IsSoft(accounts[w].pending)
  /\ accounts' = [accounts EXCEPT ![w].pending = 0]
  /\ UNCHANGED <<cardOwner, grants, mergeLogs, softReq, draws, history>>

\* Checked again under the write lock.
StillPendingUnchecked(w, s) == Exists(s)
StillPending(w, s) ==
  /\ accounts[w].pending = s /\ ~accounts[w].merged
  /\ Exists(s)

CommitMerge(r) ==
  LET q == softReq[r]
      w == q.web
      s == q.soft
      split == TokenSplit(accounts[s].tokens, accounts[w].tokens, StarterReceived(w))
  IN /\ q.op = "merge"
     /\ IF StillPending(w, s) /\ ByOpaque(q.opaque) \subseteq {s, w}
        THEN /\ NextLog <= MaxLog /\ history[w].merges <= MaxMerges
             /\ mergeLogs' = [mergeLogs EXCEPT ![NextLog] =
                  [state |-> "merged", web |-> w, opaque |-> accounts[s].opaque,
                   real |-> accounts[w].real, cards |-> CardsOf(s),
                   moved |-> split.moved, tokens |-> accounts[s].tokens,
                   fromWeb |-> split.fromWeb, before |-> accounts[w].tokens]]
             /\ accounts' = [accounts EXCEPT
                  ![s] = NoRow,
                  ![w] = [accounts[w] EXCEPT !.tokens = @ + split.moved - split.fromWeb,
                                             !.opaque = q.opaque, !.merged = TRUE,
                                             !.pending = 0]]
             /\ cardOwner' = [c \in CardNumbers |->
                                IF cardOwner[c] = s THEN w ELSE cardOwner[c]]
             /\ history' = [history EXCEPT ![w].merges = @ + 1]
        ELSE UNCHANGED <<accounts, cardOwner, mergeLogs, history>>
     /\ Answer(r)
     /\ UNCHANGED <<grants, draws>>

\* The Twitch columns of a website account that a reversal finds filled: the
\* flush writes only those.
NonEmpty(w) ==
  {f \in {"real", "opaque"} : accounts[w][f] # Nobody}
    \cup (IF accounts[w].pending # 0 THEN {"pending"} ELSE {})
    \cup (IF accounts[w].merged THEN {"merged"} ELSE {})

\* reversal_block_reason, without the 30 days: an older log is dropped.
Reversible(l) ==
  /\ mergeLogs[l].state = "merged"
  /\ mergeLogs[l].cards # {} =>
       \E c \in mergeLogs[l].cards : cardOwner[c] # 0

BeginReverse(r, l) ==
  /\ Arrives(r)
  /\ Reversible(l)
  /\ softReq' = [softReq EXCEPT ![r] =
       [op |-> "reverse", log |-> l, clears |-> NonEmpty(mergeLogs[l].web)]]
  /\ UNCHANGED <<accounts, cardOwner, grants, mergeLogs, draws, history>>

\* What the website account pays back, given its balance.
TakenUncapped(balance, moved) == moved
Taken(balance, moved) == Least(balance, moved)

\* A Twitch id that another account took since stays with that account.
RestoredAlways(id, holders) == id
Restored(id, holders) == IF holders = {} THEN id ELSE Nobody

\* The website account without what the request found filled.
Cleared(w, clears, row) ==
  LET Clear(f, empty) == IF f \in clears THEN empty ELSE accounts[w][f]
      balance == accounts[w].tokens
  IN [accounts[w] EXCEPT
        !.real = Clear("real", Nobody), !.opaque = Clear("opaque", Nobody),
        !.merged = Clear("merged", FALSE), !.pending = Clear("pending", 0),
        !.tokens = balance - Taken(balance, row.moved) + row.fromWeb]

\* The viewer account that comes back next to that website account.
Recreated(w, cleared, row) ==
  LET Holder(id, current) == IF current = id THEN {w} ELSE {}
      opaques == (ByOpaque(row.opaque) \ {w}) \cup Holder(row.opaque, cleared.opaque)
      reals == (ByReal(row.real) \ {w}) \cup Holder(row.real, cleared.real)
  IN NewAccount("soft", Restored(row.opaque, opaques), Restored(row.real, reals),
                Max({row.moved, row.tokens}))

CommitReverse(r) ==
  LET q == softReq[r]
      row == mergeLogs[q.log]
      w == row.web
      cleared == Cleared(w, q.clears, row)
  IN /\ q.op = "reverse"
     /\ NextAccount <= MaxId /\ history[w].reversals < MaxMerges
     /\ accounts' = [accounts EXCEPT ![w] = cleared, ![NextAccount] = Recreated(w, cleared, row)]
     /\ cardOwner' = [c \in CardNumbers |->
                        IF c \in row.cards /\ cardOwner[c] = w
                        THEN NextAccount ELSE cardOwner[c]]
     /\ mergeLogs' = [mergeLogs EXCEPT ![q.log].state = "reversed"]
     /\ history' = [history EXCEPT ![w].reversals = @ + 1]
     /\ Answer(r)
     /\ UNCHANGED <<grants, draws>>

\* The daily clean-up deletes logs older than 30 days; no reversal in flight
\* has one of those, reversal_block_reason refuses them.
DropLog(l) ==
  /\ mergeLogs[l].state # "none"
  /\ \A r \in SoftClients : softReq[r].op = "reverse" => softReq[r].log # l
  /\ mergeLogs' = [mergeLogs EXCEPT ![l] = NoLog]
  /\ UNCHANGED <<accounts, cardOwner, grants, softReq, draws, history>>

\* A season reset deletes every card and keeps accounts and merge logs.
ResetSeason ==
  /\ draws < MaxDraws
  /\ draws' = draws + 1
  /\ cardOwner' = [c \in CardNumbers |-> 0]
  /\ accounts' = [i \in AccountIds |->
                    IF Exists(i) THEN [accounts[i] EXCEPT !.tokens = Starter]
                                 ELSE accounts[i]]
  /\ UNCHANGED <<grants, mergeLogs, softReq, history>>

-----------------------------------------------------------------------------
SoftInit ==
  /\ \E left \in [Webs -> Balances] :
       accounts = [i \in AccountIds |->
                     IF i \in Webs THEN NewAccount("full", Nobody, Nobody, left[i])
                                   ELSE NoRow]
  /\ cardOwner = [c \in CardNumbers |-> 0]
  /\ grants = {}
  /\ mergeLogs = [l \in LogIds |-> NoLog]
  /\ softReq = [r \in SoftClients |-> SoftIdle]
  /\ draws = 0
  /\ history = [w \in Webs |-> [bonuses |-> 0, merges |-> 0, reversals |-> 0]]

PanelStep ==
  \E v \in Viewers :
    \/ LeaveWeb(v)
    \/ \E real \in {v, Nobody} : Visit(v, real) \/ JoinNew(v, real)

WebStep(r, w) ==
  \/ Disconnect(w) \/ BeginMerge(r, w) \/ MergeGone(w)
  \/ \E v \in Viewers : BeginConnect(r, w, v)

SoftNext ==
  \/ PanelStep
  \/ \E i \in AccountIds : DrawCard(i)
  \/ \E l \in LogIds : DropLog(l)
  \/ ResetSeason
  \/ \E r \in SoftClients :
       \/ \E w \in Webs : WebStep(r, w)
       \/ \E i \in AccountIds : BeginDelete(r, i)
       \/ \E l \in LogIds : BeginReverse(r, l)
       \/ CommitDelete(r) \/ CommitConnect(r) \/ CommitMerge(r) \/ CommitReverse(r)

SoftSpec == SoftInit /\ [][SoftNext]_softVars

-----------------------------------------------------------------------------
(* Properties *)

\* The rows of the tables keep their types; no merge, deduction, reversal or draw
\* leaves a balance below zero.
SoftTypeOK ==
  /\ \A i \in AccountIds : Exists(i) =>
       /\ accounts[i].kind = (IF i \in Webs THEN "full" ELSE "soft")
       /\ {accounts[i].opaque, accounts[i].real} \subseteq Viewers \cup {Nobody}
       /\ accounts[i].tokens \in Nat /\ accounts[i].merged \in BOOLEAN
       /\ accounts[i].pending \in AccountIds \cup {0}
  /\ cardOwner \in [CardNumbers -> AccountIds \cup {0}]
  /\ \A g \in grants : g.viewer \in Viewers /\ g.user \in AccountIds
  /\ draws \in 0..MaxDraws

BonusesPaid == [w \in Webs |-> history[w].bonuses]

\* The starter bonus of Connect Twitch is paid at most once to a website account
\* and at most once for a Twitch account, whatever connects, disconnects and
\* simultaneous sign-ins came before (connect_account, record_starter_grant).
BonusOnce ==
  /\ \A w \in Webs : history[w].bonuses <= 1
  /\ MapThenSumSet(LAMBDA w : BonusesPaid[w], Webs) <= Cardinality(Viewers)
  /\ \A g, h \in grants : g.viewer = h.viewer => g = h

\* A website account merges one Twitch collection ever: another merge needs an
\* admin's reversal first, also with two confirmations in flight and with the
\* id of the merged account handed out again (merge_soft_into, expect_pending).
OneMerge == \A w \in Webs : history[w].merges <= 1 + history[w].reversals

\* A Twitch id names one account, so the panel of a viewer always acts as the
\* same account and a drop reaches one account.
OneAccountPerViewer ==
  \A v \in Viewers : Cardinality(ByOpaque(v)) <= 1 /\ Cardinality(ByReal(v)) <= 1

\* Reversing a merge at once gives both accounts the balance they had, also when the
\* starter had to be deducted from both (merge_token_split against reverse_merge).
MergeRoundTrip ==
  \A l \in LogIds : mergeLogs[l].state # "none" =>
    LET row == mergeLogs[l]
        after == row.before + row.moved - row.fromWeb
    IN /\ after - Taken(after, row.moved) + row.fromWeb = row.before
       /\ Max({row.moved, row.tokens}) = row.tokens

\* Merges are single and can be taken back.
MergeSound == OneMerge /\ MergeRoundTrip

\* A merged collection is the one of the Twitch account the website account
\* is connected with.
MergeOwnCollection ==
  \A l \in LogIds :
    mergeLogs[l].state # "none" => mergeLogs[l].opaque = mergeLogs[l].real
=============================================================================
