---------------------------- MODULE TwitchProofs ----------------------------
(* Proofs about what comes from Twitch: the accounts of viewers and their     *)
(* merge (SoftAccounts), for every number of accounts, ids and requests in    *)
(* flight and every price and bonus, and the MVP of a match (TwitchMVP), for  *)
(* every number of players, channels, viewers and confirmations and every     *)
(* limit of a drop.                                                          *)
EXTENDS SoftAccounts, TwitchMVP, SumTheorems

-----------------------------------------------------------------------------
(* Soft accounts: the inductive invariant *)

TwitchIds == Viewers \cup {Nobody}

\* No website account has the id of a viewer account, deleted or not.
SoftIds == AccountIds \ Webs

\* The rows there are; a website account is never deleted.
Row(kind) ==
  [kind : {kind}, opaque : TwitchIds, real : TwitchIds, tokens : Nat,
   pending : SoftIds \cup {0}, merged : BOOLEAN]

AccountsOK ==
  /\ DOMAIN accounts = AccountIds
  /\ \A w \in Webs : accounts[w] \in Row("full")
  /\ \A i \in SoftIds : accounts[i] = NoRow \/ accounts[i] \in Row("soft")

CardsOK ==
  /\ cardOwner \in [CardNumbers -> AccountIds \cup {0}]
  /\ draws \in 0..MaxDraws

GrantsOK ==
  /\ IsFiniteSet(grants)
  /\ grants \subseteq [viewer : Viewers, user : AccountIds, source : {"join", "connect"}]
  /\ \A g, h \in grants : g.viewer = h.viewer => g = h

\* A merge moved no more than the viewer had and took no more than the website
\* account had.
MergeRow(row) ==
  /\ row \in [state : {"merged", "reversed"}, web : Webs, opaque : TwitchIds, real : TwitchIds,
              cards : SUBSET CardNumbers, moved : Nat, tokens : Nat, fromWeb : Nat, before : Nat]
  /\ row.moved <= row.tokens /\ row.fromWeb <= row.before

LogsOK ==
  /\ DOMAIN mergeLogs = LogIds
  /\ \A l \in LogIds : mergeLogs[l].state # "none" => MergeRow(mergeLogs[l])

\* What requests have read: viewer accounts by their id, logs that exist.
RequestOK(q) ==
  /\ q.op \in {"idle", "delete", "connect", "merge", "reverse"}
  /\ q.op = "delete" => q.soft \in SoftIds
  /\ q.op = "connect" => /\ q.web \in Webs /\ q.sub \in Viewers
                         /\ q.holder \in SoftIds \cup {0}
  /\ q.op = "merge" => q.web \in Webs /\ q.soft \in SoftIds /\ q.opaque \in TwitchIds
  /\ q.op = "reverse" => q.log \in LogIds /\ mergeLogs[q.log].state # "none"

RequestsOK ==
  /\ DOMAIN softReq = SoftClients
  /\ \A r \in SoftClients : RequestOK(softReq[r])

\* No Twitch id is in two rows.
OneRow ==
  \A i, j \in AccountIds : (Exists(i) /\ Exists(j) /\ i # j) =>
    /\ accounts[i].opaque = accounts[j].opaque => accounts[i].opaque = Nobody
    /\ accounts[i].real = accounts[j].real => accounts[i].real = Nobody

HistoryOK == history \in [Webs -> [bonuses : Nat, merges : Nat, reversals : Nat]]

\* A bonus is paid with a grant of its own, and a paid account has one.
ConnectGrants == {g \in grants : g.source = "connect"}
BonusOK ==
  /\ \A w \in Webs : /\ history[w].bonuses <= 1
                     /\ history[w].bonuses = 1 => \E g \in ConnectGrants : g.user = w
  /\ Total(BonusesPaid, Webs) = Cardinality(ConnectGrants)

\* An account that may merge has had all its merges reversed.
MergesOK ==
  \A w \in Webs :
    /\ history[w].merges <= 1 + history[w].reversals
    /\ ~accounts[w].merged => history[w].merges <= history[w].reversals

SoftInv ==
  /\ AccountsOK /\ CardsOK /\ GrantsOK /\ LogsOK /\ RequestsOK
  /\ OneRow /\ HistoryOK /\ BonusOK /\ MergesOK

-----------------------------------------------------------------------------
(* Ids *)

\* Sets of ids are finite.
LEMMA IdsFinite ==
  ASSUME NEW N \in Nat, NEW S \in SUBSET (1..N)
  PROVE  (\A y \in S : y \in Nat) /\ IsFiniteSet(S)
  <1>1. IsFiniteSet(1..N)
    BY FS_Interval
  <1>2. PICK I : I = 1..N
    OBVIOUS
  <1>3. IsFiniteSet(I) /\ S \in SUBSET I
    BY <1>1, <1>2
  <1>4. IsFiniteSet(S)
    BY <1>3, FS_Subset
  <1> QED BY <1>4

\* The next id is no id in use.
LEMMA NextIs ==
  ASSUME NEW N \in Nat, NEW S \in SUBSET (1..N)
  PROVE  NextId(S) \in Nat \ {0} /\ NextId(S) \notin S
  <1>1. CASE S = {}
    BY <1>1 DEF NextId
  <1>2. CASE S # {}
    <2>1. Max(S) \in 1..N /\ \A y \in S : y <= Max(S)
      BY <1>2, MaxIs, IdsFinite
    <2> QED BY <1>2, <2>1 DEF NextId
  <1> QED BY <1>1, <1>2

\* Pick finds a row if there is one.
LEMMA PickIs ==
  ASSUME NEW S \in SUBSET AccountIds
  PROVE  /\ S = {} => Pick(S) = 0
         /\ S # {} => Pick(S) \in S /\ Pick(S) # 0
  <1>1. CASE S = {}
    BY <1>1 DEF Pick
  <1>2. CASE S # {}
    <2>1. MaxId \in Nat /\ S \in SUBSET (1..MaxId)
      BY SoftAssumption DEF SoftAssumption, AccountIds
    <2>2. Max(S) \in S
      BY <1>2, <2>1, MaxIs, IdsFinite
    <2>3. Pick(S) = Max(S)
      BY <1>2 DEF Pick
    <2>4. 0 \notin 1..MaxId
      OBVIOUS
    <2> QED BY <1>2, <2>1, <2>2, <2>3, <2>4
  <1> QED BY <1>1, <1>2

\* The id that a new row gets is free.
LEMMA NewIds ==
  ASSUME AccountsOK
  PROVE  /\ NextAccount \in Nat \ {0}
         /\ NextAccount <= MaxId => NextAccount \in SoftIds /\ ~Exists(NextAccount)
  <1>1. {i \in AccountIds : Exists(i)} \in SUBSET (1..MaxId)
    BY DEF AccountIds
  <1>2. NextAccount \in Nat \ {0} /\ NextAccount \notin {i \in AccountIds : Exists(i)}
    BY <1>1, NextIs, SoftAssumption DEF NextAccount, SoftAssumption
  <1>3. \A w \in Webs : w \in AccountIds /\ Exists(w)
    BY SoftAssumption DEF AccountsOK, Row, Exists, AccountIds, SoftAssumption
  <1> QED BY <1>2, <1>3, SoftAssumption DEF SoftIds, AccountIds, SoftAssumption

\* Ids of website accounts and of viewer accounts.
LEMMA WebIds ==
  /\ 0 \notin AccountIds
  /\ \A w \in Webs : w \in AccountIds /\ w \notin SoftIds /\ w # 0
  /\ \A i \in SoftIds : i \in AccountIds /\ i \notin Webs /\ i # 0
  <1>1. 0 \notin AccountIds /\ \A w \in Webs : w \in AccountIds
    BY SoftAssumption DEF SoftAssumption, AccountIds
  <1> QED BY <1>1 DEF SoftIds

\* Columns of a row.
LEMMA RowColumns ==
  ASSUME AccountsOK, NEW i \in AccountIds
  PROVE  /\ Exists(i) => accounts[i] \in Row("full") \cup Row("soft")
         /\ Exists(i) <=> accounts[i] # NoRow
         /\ i \in Webs => Exists(i) /\ ~IsSoft(i) /\ accounts[i] \in Row("full")
         /\ IsSoft(i) <=> Exists(i) /\ i \in SoftIds
         /\ i \in SoftIds /\ Exists(i) => accounts[i] \in Row("soft")
  <1>1. CASE i \in Webs
    BY <1>1 DEF AccountsOK, Row, Exists, IsSoft, SoftIds, NoRow
  <1>2. CASE i \in SoftIds
    BY <1>2 DEF AccountsOK, Row, Exists, IsSoft, SoftIds, NoRow
  <1> QED BY <1>1, <1>2 DEF SoftIds

\* Who answers to a Twitch id.
LEMMA Holders ==
  ASSUME NEW v
  PROVE  /\ ByOpaque(v) \in SUBSET AccountIds /\ ByReal(v) \in SUBSET AccountIds
         /\ ByOpaque(Nobody) = {} /\ ByReal(Nobody) = {}
         /\ \A i \in AccountIds :
              /\ i \in ByOpaque(v) <=> Exists(i) /\ accounts[i].opaque = v /\ v # Nobody
              /\ i \in ByReal(v) <=> Exists(i) /\ accounts[i].real = v /\ v # Nobody
  BY DEF ByOpaque, ByReal

\* The panel acts as a row there is.
LEMMA PanelAccountIs ==
  ASSUME NEW v, NEW real
  PROVE  /\ PanelAccount(v, real) # 0 =>
              /\ PanelAccount(v, real) \in AccountIds /\ Exists(PanelAccount(v, real))
              /\ ByOpaque(v) # {} => PanelAccount(v, real) \in ByOpaque(v)
         /\ PanelAccount(v, real) = 0 => ByOpaque(v) = {} /\ ByReal(real) = {}
  <1>1. CASE ByOpaque(v) # {}
    <2>1. Pick(ByOpaque(v)) \in ByOpaque(v) /\ Pick(ByOpaque(v)) # 0
      BY <1>1, PickIs, Holders
    <2>2. PanelAccount(v, real) = Pick(ByOpaque(v))
      BY <1>1 DEF PanelAccount
    <2>3. Pick(ByOpaque(v)) \in AccountIds /\ Exists(Pick(ByOpaque(v)))
      BY <2>1 DEF ByOpaque
    <2> QED BY <1>1, <2>1, <2>2, <2>3
  <1>2. CASE ByOpaque(v) = {}
    <2>1. /\ ByReal(real) = {} => Pick(ByReal(real)) = 0
          /\ ByReal(real) # {} => Pick(ByReal(real)) \in ByReal(real) /\ Pick(ByReal(real)) # 0
      BY PickIs, Holders
    <2>2. PanelAccount(v, real) = Pick(ByReal(real))
      BY <1>2 DEF PanelAccount
    <2>3. ByReal(real) # {} => Pick(ByReal(real)) \in AccountIds /\ Exists(Pick(ByReal(real)))
      BY <2>1 DEF ByReal
    <2> QED BY <1>2, <2>1, <2>2, <2>3
  <1> QED BY <1>1, <1>2

-----------------------------------------------------------------------------
(* What steps leave alone *)

\* What a step leaves alone stays sound.
LEMMA Untouched ==
  ASSUME SoftInv
  PROVE  /\ UNCHANGED <<cardOwner, draws>> => CardsOK'
         /\ UNCHANGED grants => GrantsOK'
         /\ UNCHANGED mergeLogs => LogsOK'
         /\ UNCHANGED <<softReq, mergeLogs>> => RequestsOK'
         /\ UNCHANGED accounts => AccountsOK' /\ OneRow'
         /\ UNCHANGED history => HistoryOK'
         /\ UNCHANGED <<grants, history>> => BonusOK'
         /\ UNCHANGED history /\ (\A w \in Webs : accounts'[w].merged = accounts[w].merged)
              => MergesOK'
  <1>1. UNCHANGED <<cardOwner, draws>> => CardsOK'
    BY DEF SoftInv, CardsOK
  <1>2. UNCHANGED grants => GrantsOK'
    BY DEF SoftInv, GrantsOK
  <1>3. UNCHANGED mergeLogs => LogsOK'
    BY DEF SoftInv, LogsOK
  <1>4. UNCHANGED <<softReq, mergeLogs>> => RequestsOK'
    BY DEF SoftInv, RequestsOK, RequestOK
  <1>5. UNCHANGED accounts => AccountsOK' /\ OneRow'
    BY DEF SoftInv, AccountsOK, OneRow, Exists
  <1>6. UNCHANGED history => HistoryOK'
    BY DEF SoftInv, HistoryOK
  <1>7. UNCHANGED <<grants, history>> => BonusOK'
    BY DEF SoftInv, BonusOK, BonusesPaid, ConnectGrants
  <1>8. UNCHANGED history /\ (\A w \in Webs : accounts'[w].merged = accounts[w].merged)
          => MergesOK'
    BY DEF SoftInv, MergesOK
  <1> QED BY <1>1, <1>2, <1>3, <1>4, <1>5, <1>6, <1>7, <1>8

\* One request more or less in flight.
LEMMA RequestsStep ==
  ASSUME SoftInv, UNCHANGED mergeLogs, NEW r \in SoftClients, NEW q, RequestOK(q),
         softReq' = [softReq EXCEPT ![r] = q]
  PROVE  RequestsOK'
  BY DEF SoftInv, RequestsOK, RequestOK

\* A client without a request holds nothing.
LEMMA IdleOK == RequestOK(SoftIdle)
  BY DEF RequestOK, SoftIdle

\* Rows that are deleted or lose Twitch ids leave no id in two rows.
LEMMA OneRowKept ==
  ASSUME OneRow,
         \A i \in AccountIds : Exists(i)' =>
           /\ Exists(i)
           /\ accounts'[i].opaque \in {accounts[i].opaque, Nobody}
           /\ accounts'[i].real \in {accounts[i].real, Nobody}
  PROVE  OneRow'
  <1> SUFFICES ASSUME NEW i \in AccountIds, NEW j \in AccountIds,
                      Exists(i)', Exists(j)', i # j
               PROVE  /\ accounts'[i].opaque = accounts'[j].opaque => accounts'[i].opaque = Nobody
                      /\ accounts'[i].real = accounts'[j].real => accounts'[i].real = Nobody
    BY DEF OneRow
  <1> QED BY DEF OneRow

\* Neither does giving a row a Twitch id that no other row keeps.
LEMMA OneRowMoved ==
  ASSUME OneRow, NEW a, NEW v, NEW b, NEW s,
         \A i \in AccountIds : Exists(i)' =>
           /\ \/ accounts'[i].opaque = Nobody
              \/ i = a /\ accounts'[i].opaque = v
              \/ /\ Exists(i) /\ accounts'[i].opaque = accounts[i].opaque
                 /\ i # a => accounts[i].opaque # v
           /\ \/ accounts'[i].real = Nobody
              \/ i = b /\ accounts'[i].real = s
              \/ /\ Exists(i) /\ accounts'[i].real = accounts[i].real
                 /\ i # b => accounts[i].real # s
  PROVE  OneRow'
  <1> SUFFICES ASSUME NEW i \in AccountIds, NEW j \in AccountIds,
                      Exists(i)', Exists(j)', i # j
               PROVE  /\ accounts'[i].opaque = accounts'[j].opaque => accounts'[i].opaque = Nobody
                      /\ accounts'[i].real = accounts'[j].real => accounts'[i].real = Nobody
    BY DEF OneRow
  <1>1. accounts'[i].opaque = accounts'[j].opaque => accounts'[i].opaque = Nobody
    BY DEF OneRow
  <1>2. accounts'[i].real = accounts'[j].real => accounts'[i].real = Nobody
    BY DEF OneRow
  <1> QED BY <1>1, <1>2

\* A grant of a Twitch account that had none.
LEMMA GrantAdded ==
  ASSUME SoftInv, NEW v \in Viewers, NEW i \in AccountIds, NEW src \in {"join", "connect"},
         \A g \in grants : g.viewer # v,
         grants' = grants \cup {[viewer |-> v, user |-> i, source |-> src]}
  PROVE  /\ GrantsOK'
         /\ IsFiniteSet(ConnectGrants) /\ Cardinality(ConnectGrants) \in Nat
         /\ src = "join" => ConnectGrants' = ConnectGrants
         /\ src = "connect" =>
              Cardinality(ConnectGrants') = Cardinality(ConnectGrants) + 1
  <1> DEFINE g == [viewer |-> v, user |-> i, source |-> src]
  <1> USE DEF SoftInv
  <1>1. g \in [viewer : Viewers, user : AccountIds, source : {"join", "connect"}]
        /\ g.viewer = v /\ g.source = src
    OBVIOUS
  <1>2. g \notin grants
    BY <1>1
  <1> HIDE DEF g
  <1>3. grants' = grants \cup {g}
    BY DEF g
  <1>4. IsFiniteSet(grants \cup {g})
    BY FS_AddElement DEF GrantsOK
  <1>5. GrantsOK'
    BY <1>1, <1>3, <1>4 DEF GrantsOK
  <1>6. IsFiniteSet(ConnectGrants) /\ Cardinality(ConnectGrants) \in Nat
    <2>1. ConnectGrants \in SUBSET grants
      BY DEF ConnectGrants
    <2> QED BY <2>1, FS_Subset, FS_CardinalityType DEF GrantsOK
  <1>7. src = "join" => ConnectGrants' = ConnectGrants
    BY <1>1, <1>3 DEF ConnectGrants
  <1>8. src = "connect" => ConnectGrants' = ConnectGrants \cup {g} /\ g \notin ConnectGrants
    BY <1>1, <1>2, <1>3 DEF ConnectGrants
  <1>9. src = "connect" => Cardinality(ConnectGrants \cup {g}) = Cardinality(ConnectGrants) + 1
    BY <1>6, <1>8, FS_AddElement
  <1> QED BY <1>5, <1>6, <1>7, <1>8, <1>9

\* A grant of join pays no bonus.
LEMMA JoinGrantAdded ==
  ASSUME SoftInv, NEW v \in Viewers, NEW i \in AccountIds,
         \A g \in grants : g.viewer # v, UNCHANGED history,
         grants' = grants \cup {[viewer |-> v, user |-> i, source |-> "join"]}
  PROVE  GrantsOK' /\ BonusOK'
  <1>1. GrantsOK' /\ ConnectGrants' = ConnectGrants
    BY GrantAdded
  <1> QED BY <1>1 DEF SoftInv, BonusOK, BonusesPaid

\* A bonus more is one more in the sum.
LEMMA BonusAdded ==
  ASSUME SoftInv, NEW w \in Webs, history' = [history EXCEPT ![w].bonuses = @ + 1]
  PROVE  /\ HistoryOK'
         /\ Total(BonusesPaid', Webs) = Total(BonusesPaid, Webs) + 1
  <1>1. PICK old : old = BonusesPaid
    OBVIOUS
  <1>2. PICK new : new = BonusesPaid'
    OBVIOUS
  <1>3. HistoryOK' /\ (\A x \in Webs : old[x] \in Nat /\ new[x] = (IF x = w THEN old[x] + 1 ELSE old[x]))
    BY <1>1, <1>2 DEF SoftInv, HistoryOK, BonusesPaid
  <1>4. IsFiniteSet(Webs)
    BY IdsFinite, SoftAssumption DEF SoftAssumption
  <1>5. IsFiniteSet(Webs \ {w})
    BY <1>4, FS_RemoveElement
  <1>6. Total(old, Webs) = old[w] + Total(old, Webs \ {w})
    BY <1>3, <1>4, TotalWithout
  <1>7. Total(new, Webs) = new[w] + Total(new, Webs \ {w})
    BY <1>3, <1>4, TotalWithout
  <1>8. Total(new, Webs \ {w}) = Total(old, Webs \ {w})
    BY <1>3, <1>5, TotalSame
  <1>9. Total(old, Webs \ {w}) \in Nat
    BY <1>3, <1>5, TotalType
  <1> QED BY <1>1, <1>2, <1>3, <1>6, <1>7, <1>8, <1>9

-----------------------------------------------------------------------------
(* The panel *)

\* Steps on accounts and grants alone.
LEMMA AccountsStep ==
  ASSUME SoftInv, UNCHANGED <<cardOwner, mergeLogs, softReq, draws, history>>,
         AccountsOK', OneRow', GrantsOK', BonusOK',
         \A w \in Webs : accounts'[w].merged = accounts[w].merged
  PROVE  SoftInv'
  <1>1. CardsOK' /\ LogsOK' /\ RequestsOK' /\ HistoryOK' /\ MergesOK'
    BY Untouched
  <1> QED BY <1>1 DEF SoftInv

\* The identity share gives one row the real id, or asks one website account.
LEMMA SharedIs ==
  ASSUME AccountsOK, NEW i \in AccountIds, Exists(i), NEW real \in TwitchIds
  PROVE  \/ Shared(i, real) = accounts
         \/ /\ accounts[i].real = Nobody /\ real # Nobody /\ ByReal(real) \subseteq {i}
            /\ Shared(i, real) = [accounts EXCEPT ![i].real = real]
         \/ /\ i \in SoftIds
            /\ \E h \in Webs : Shared(i, real) = [accounts EXCEPT ![h].pending = i]
  <1> DEFINE others == ByReal(real) \ {i}
             holder == Pick(others)
  <1>1. others \in SUBSET AccountIds
    BY Holders
  <1>2. (others = {} => holder = 0) /\ (others # {} => holder \in others /\ holder # 0)
    <2> HIDE DEF others
    <2> QED BY <1>1, PickIs
  <1>3. CASE real = Nobody \/ accounts[i].real # Nobody
    BY <1>3 DEF Shared
  <1>4. CASE ~(real = Nobody \/ accounts[i].real # Nobody) /\ holder = 0
    <2>1. Shared(i, real) = [accounts EXCEPT ![i].real = real]
      BY <1>4 DEF Shared
    <2> QED BY <1>2, <1>4, <2>1
  <1>5. CASE ~(real = Nobody \/ accounts[i].real # Nobody) /\ holder # 0
    <2>1. holder \in AccountIds /\ Exists(holder)
      BY <1>2, <1>5 DEF ByReal
    <2>2. CASE IsSoft(i) /\ ~IsSoft(holder) /\ accounts[holder].pending = 0 /\ ~accounts[holder].merged
      <3>1. Shared(i, real) = [accounts EXCEPT ![holder].pending = i]
        BY <1>5, <2>2 DEF Shared
      <3> HIDE DEF holder
      <3>2. holder \in Webs /\ i \in SoftIds
        BY <2>1, <2>2, RowColumns DEF SoftIds
      <3> QED BY <3>1, <3>2
    <2>3. CASE ~(IsSoft(i) /\ ~IsSoft(holder) /\ accounts[holder].pending = 0 /\ ~accounts[holder].merged)
      BY <1>5, <2>3 DEF Shared
    <2> QED BY <2>2, <2>3
  <1> QED BY <1>3, <1>4, <1>5

\* A panel call of a viewer who has an account.
LEMMA VisitStep ==
  ASSUME SoftInv, NEW v \in Viewers, NEW real \in {v, Nobody}, Visit(v, real)
  PROVE  SoftInv'
  <1> USE DEF SoftInv
  <1>1. PICK i : i = PanelAccount(v, real)
    OBVIOUS
  <1>2. i \in AccountIds /\ Exists(i) /\ (ByOpaque(v) # {} => i \in ByOpaque(v))
    BY <1>1, PanelAccountIs DEF Visit
  <1>3. PICK shared : shared = Shared(i, real)
    OBVIOUS
  <1>4. accounts' = [shared EXCEPT ![i].opaque = v]
    BY <1>1, <1>3 DEF Visit
  <1>5. v \in TwitchIds /\ real \in TwitchIds /\ v # Nobody
    BY SoftAssumption DEF TwitchIds, SoftAssumption
  <1>6. \A j \in AccountIds : Exists(j) /\ j # i => accounts[j].opaque # v
    <2> SUFFICES ASSUME NEW j \in AccountIds, Exists(j), j # i, accounts[j].opaque = v
                 PROVE  FALSE
      OBVIOUS
    <2>1. i \in ByOpaque(v)
      BY <1>2, <1>5 DEF ByOpaque
    <2> QED BY <1>2, <1>5, <2>1 DEF OneRow, ByOpaque
  <1>7. accounts[i] \in Row("full") \cup Row("soft")
        /\ (i \in Webs => accounts[i] \in Row("full"))
        /\ (i \in SoftIds => accounts[i] \in Row("soft"))
    BY <1>2, RowColumns
  <1>8. AccountsOK' /\ OneRow' /\ \A w \in Webs : accounts'[w].merged = accounts[w].merged
    <2>1. CASE shared = accounts
      <3>1. accounts' = [accounts EXCEPT ![i].opaque = v]
        BY <1>4, <2>1
      <3>2. AccountsOK' /\ \A w \in Webs : accounts'[w].merged = accounts[w].merged
        BY <1>2, <1>5, <1>7, <3>1 DEF AccountsOK, Row, NoRow, SoftIds
      <3>3. \A j \in AccountIds : Exists(j)' =>
              /\ Exists(j) /\ accounts'[j].real = accounts[j].real
              /\ accounts'[j].opaque = (IF j = i THEN v ELSE accounts[j].opaque)
        BY <1>2, <1>7, <3>1 DEF AccountsOK, Row, NoRow, Exists
      <3>4. OneRow'
        <4> SUFFICES ASSUME NEW j \in AccountIds, NEW k \in AccountIds,
                            Exists(j)', Exists(k)', j # k
                     PROVE  /\ accounts'[j].opaque = accounts'[k].opaque => accounts'[j].opaque = Nobody
                            /\ accounts'[j].real = accounts'[k].real => accounts'[j].real = Nobody
          BY DEF OneRow
        <4> QED BY <1>6, <3>3 DEF OneRow
      <3> QED BY <3>2, <3>4
    <2>2. CASE /\ accounts[i].real = Nobody /\ real # Nobody /\ ByReal(real) \subseteq {i}
               /\ shared = [accounts EXCEPT ![i].real = real]
      <3>1. accounts' = [accounts EXCEPT ![i] = [accounts[i] EXCEPT !.real = real, !.opaque = v]]
        BY <1>2, <1>4, <2>2 DEF AccountsOK
      <3>2. AccountsOK' /\ \A w \in Webs : accounts'[w].merged = accounts[w].merged
        <4> DEFINE row == [accounts[i] EXCEPT !.real = real, !.opaque = v]
        <4>1. /\ i \in Webs => row \in Row("full") /\ row.merged = accounts[i].merged
              /\ i \in SoftIds => row \in Row("soft")
          BY <1>5, <1>7 DEF Row
        <4> HIDE DEF row
        <4>2. accounts' = [accounts EXCEPT ![i] = row]
          BY <3>1 DEF row
        <4> QED BY <1>2, <4>1, <4>2 DEF AccountsOK, SoftIds
      <3>3. \A j \in AccountIds : Exists(j)' =>
              /\ Exists(j)
              /\ accounts'[j].real = (IF j = i THEN real ELSE accounts[j].real)
              /\ accounts'[j].opaque = (IF j = i THEN v ELSE accounts[j].opaque)
        BY <1>2, <1>7, <3>1 DEF AccountsOK, Row, NoRow, Exists
      <3>4. \A j \in AccountIds : Exists(j) /\ j # i => accounts[j].real # real
        BY <2>2, Holders
      <3>5. OneRow'
        BY <1>6, <3>3, <3>4, OneRowMoved
      <3> QED BY <3>2, <3>5
    <2>3. ASSUME i \in SoftIds, NEW h \in Webs, shared = [accounts EXCEPT ![h].pending = i]
          PROVE  AccountsOK' /\ OneRow' /\ \A w \in Webs : accounts'[w].merged = accounts[w].merged
      <3>1. h # i /\ h \in AccountIds
        BY <2>3, SoftAssumption DEF SoftIds, AccountIds, SoftAssumption
      <3>2. accounts' = [accounts EXCEPT ![h] = [accounts[h] EXCEPT !.pending = i],
                                         ![i] = [accounts[i] EXCEPT !.opaque = v]]
        BY <1>2, <1>4, <2>3, <3>1 DEF AccountsOK
      <3>3. AccountsOK' /\ \A w \in Webs : accounts'[w].merged = accounts[w].merged
        <4> DEFINE row == [accounts[i] EXCEPT !.opaque = v]
                   web == [accounts[h] EXCEPT !.pending = i]
        <4>1. row \in Row("soft")
          BY <1>5, <1>7, <2>3 DEF Row
        <4>2. web \in Row("full") /\ web.merged = accounts[h].merged
          BY <2>3 DEF Row, AccountsOK
        <4> HIDE DEF row, web
        <4>3. accounts' = [accounts EXCEPT ![h] = web, ![i] = row]
          BY <3>2 DEF row, web
        <4>4. i \notin Webs
          BY <2>3 DEF SoftIds
        <4>5. accounts'[h] = web /\ accounts'[i] = row
              /\ \A j \in AccountIds \ {h, i} : accounts'[j] = accounts[j]
          BY <1>2, <3>1, <4>3 DEF AccountsOK
        <4>6. DOMAIN accounts' = AccountIds
          BY <4>3 DEF AccountsOK
        <4>7. \A w \in Webs : w \in AccountIds
          BY SoftAssumption DEF SoftAssumption, AccountIds
        <4>8. \A w \in Webs : accounts'[w] \in Row("full") /\ accounts'[w].merged = accounts[w].merged
          BY <4>2, <4>4, <4>5, <4>7 DEF AccountsOK
        <4>9. \A j \in SoftIds : accounts'[j] = NoRow \/ accounts'[j] \in Row("soft")
          BY <2>3, <4>1, <4>5 DEF AccountsOK, SoftIds
        <4> QED BY <4>6, <4>8, <4>9 DEF AccountsOK
      <3>4. \A j \in AccountIds : Exists(j)' =>
              /\ Exists(j) /\ accounts'[j].real = accounts[j].real
              /\ accounts'[j].opaque = (IF j = i THEN v ELSE accounts[j].opaque)
        BY <1>2, <1>7, <2>3, <3>1, <3>2 DEF AccountsOK, Row, NoRow, Exists
      <3>5. OneRow'
        <4> SUFFICES ASSUME NEW j \in AccountIds, NEW k \in AccountIds,
                            Exists(j)', Exists(k)', j # k
                     PROVE  /\ accounts'[j].opaque = accounts'[k].opaque => accounts'[j].opaque = Nobody
                            /\ accounts'[j].real = accounts'[k].real => accounts'[j].real = Nobody
          BY DEF OneRow
        <4> QED BY <1>6, <3>4 DEF OneRow
      <3> QED BY <3>3, <3>5
    <2> QED BY <1>2, <1>3, <1>5, <2>1, <2>2, <2>3, SharedIs
  <1>9. GrantsOK' /\ BonusOK'
    <2>1. grants' = JoinGrant(i, real) /\ UNCHANGED history
      BY <1>1 DEF Visit
    <2>2. CASE grants' = grants
      BY <2>1, <2>2, Untouched
    <2>3. CASE grants' # grants
      <3>1. /\ real # Nobody /\ \A g \in grants : g.viewer # real
            /\ grants' = grants \cup {[viewer |-> real, user |-> i, source |-> "join"]}
        BY <2>1, <2>3 DEF JoinGrant
      <3>2. real \in Viewers
        BY <3>1
      <3> QED BY <1>2, <2>1, <3>1, <3>2, JoinGrantAdded
    <2> QED BY <2>2, <2>3
  <1> QED BY <1>8, <1>9, AccountsStep DEF Visit

\* A viewer who joins without an account gets one.
LEMMA JoinNewStep ==
  ASSUME SoftInv, NEW v \in Viewers, NEW real \in {v, Nobody}, JoinNew(v, real)
  PROVE  SoftInv'
  <1> USE DEF SoftInv
  <1>1. PICK i : i = NextAccount
    OBVIOUS
  <1>2. i \in SoftIds /\ i \in AccountIds /\ ~Exists(i)
    BY <1>1, NewIds DEF JoinNew, SoftIds
  <1>3. accounts' = [accounts EXCEPT ![i] = NewAccount("soft", v, real, Starter)]
    BY <1>1 DEF JoinNew
  <1>4. v \in TwitchIds /\ real \in TwitchIds /\ v # Nobody
    BY SoftAssumption DEF TwitchIds, SoftAssumption
  <1>5. NewAccount("soft", v, real, Starter) \in Row("soft")
    BY <1>4, SoftAssumption DEF NewAccount, Row, SoftAssumption
  <1>6. AccountsOK' /\ \A w \in Webs : accounts'[w].merged = accounts[w].merged
    BY <1>2, <1>3, <1>5 DEF AccountsOK, SoftIds
  <1>7. ByOpaque(v) = {} /\ ByReal(real) = {}
    BY PanelAccountIs DEF JoinNew
  <1>8. OneRow'
    <2>1. \A j \in AccountIds : Exists(j)' =>
            /\ j # i => Exists(j) /\ accounts'[j] = accounts[j]
            /\ j = i => accounts'[j].opaque = v /\ accounts'[j].real = real
      BY <1>2, <1>3 DEF AccountsOK, Exists, NewAccount
    <2>2. \A j \in AccountIds : Exists(j) =>
            /\ accounts[j].opaque # v
            /\ accounts[j].real = real => real = Nobody
      BY <1>4, <1>7, Holders
    <2> SUFFICES ASSUME NEW j \in AccountIds, NEW k \in AccountIds,
                        Exists(j)', Exists(k)', j # k
                 PROVE  /\ accounts'[j].opaque = accounts'[k].opaque => accounts'[j].opaque = Nobody
                        /\ accounts'[j].real = accounts'[k].real => accounts'[j].real = Nobody
      BY DEF OneRow
    <2>3. CASE j = i
      <3>1. accounts'[j].opaque = v /\ accounts'[j].real = real
        BY <2>1, <2>3
      <3>2. Exists(k) /\ accounts'[k] = accounts[k]
        BY <2>1, <2>3
      <3>3. accounts[k].opaque # v /\ (accounts[k].real = real => real = Nobody)
        BY <2>2, <3>2
      <3> QED BY <3>1, <3>2, <3>3
    <2>4. CASE k = i
      <3>1. accounts'[k].opaque = v /\ accounts'[k].real = real
        BY <2>1, <2>4
      <3>2. Exists(j) /\ accounts'[j] = accounts[j]
        BY <2>1, <2>4
      <3>3. accounts[j].opaque # v /\ (accounts[j].real = real => real = Nobody)
        BY <2>2, <3>2
      <3> QED BY <3>1, <3>2, <3>3
    <2>5. CASE j # i /\ k # i
      BY <2>1, <2>5 DEF OneRow
    <2> QED BY <2>3, <2>4, <2>5
  <1>9. GrantsOK' /\ BonusOK'
    <2>1. UNCHANGED history
      BY DEF JoinNew
    <2>2. CASE grants' = grants
      BY <2>1, <2>2, Untouched
    <2>3. CASE grants' # grants
      <3>1. /\ real # Nobody /\ \A g \in grants : g.viewer # real
            /\ grants' = grants \cup {[viewer |-> real, user |-> i, source |-> "join"]}
        BY <1>1, <2>3 DEF JoinNew
      <3>2. real \in Viewers
        BY <3>1
      <3> QED BY <1>2, <2>1, <3>1, <3>2, JoinGrantAdded
    <2> QED BY <2>2, <2>3
  <1> QED BY <1>6, <1>8, <1>9, AccountsStep DEF JoinNew

-----------------------------------------------------------------------------
(* Draws, resets and requests that only read *)

\* A column that no Twitch id is in.
LEMMA ColumnStep ==
  ASSUME SoftInv, UNCHANGED <<cardOwner, grants, mergeLogs, softReq, draws, history>>,
         NEW i \in AccountIds, Exists(i), NEW row,
         accounts' = [accounts EXCEPT ![i] = row],
         accounts[i] \in Row("full") => row \in Row("full"),
         accounts[i] \in Row("soft") => row \in Row("soft"),
         row.opaque \in {accounts[i].opaque, Nobody}, row.real \in {accounts[i].real, Nobody},
         row.merged = accounts[i].merged
  PROVE  SoftInv'
  <1> USE DEF SoftInv
  <1>1. \A w \in Webs : w \in AccountIds
    BY SoftAssumption DEF SoftAssumption, AccountIds
  <1>2. AccountsOK' /\ \A w \in Webs : accounts'[w].merged = accounts[w].merged
    BY <1>1, RowColumns DEF AccountsOK, SoftIds
  <1>3. \A j \in AccountIds : Exists(j)' =>
          /\ Exists(j)
          /\ accounts'[j].opaque \in {accounts[j].opaque, Nobody}
          /\ accounts'[j].real \in {accounts[j].real, Nobody}
    BY DEF AccountsOK, Exists
  <1>4. OneRow'
    BY <1>3, OneRowKept
  <1>5. GrantsOK' /\ BonusOK'
    BY Untouched
  <1> QED BY <1>2, <1>4, <1>5, AccountsStep

\* The panel forgets a website account.
LEMMA LeaveWebStep ==
  ASSUME SoftInv, NEW v \in Viewers, LeaveWeb(v)
  PROVE  SoftInv'
  <1>1. PICK i \in ByOpaque(v) : accounts' = [accounts EXCEPT ![i].opaque = Nobody]
    BY DEF LeaveWeb
  <1>2. i \in AccountIds /\ Exists(i) /\ AccountsOK
    BY <1>1 DEF ByOpaque, SoftInv
  <1>3. accounts[i] \in Row("full") \cup Row("soft")
    BY <1>2, RowColumns
  <1> DEFINE row == [accounts[i] EXCEPT !.opaque = Nobody]
  <1>4. /\ accounts[i] \in Row("full") => row \in Row("full")
        /\ accounts[i] \in Row("soft") => row \in Row("soft")
        /\ row.opaque = Nobody /\ row.real = accounts[i].real /\ row.merged = accounts[i].merged
    BY <1>3 DEF Row, TwitchIds
  <1>5. accounts' = [accounts EXCEPT ![i] = row]
    BY <1>1
  <1> HIDE DEF row
  <1> QED BY <1>2, <1>4, <1>5, ColumnStep DEF LeaveWeb

\* A website account gives up its Twitch identity, or a pending merge whose collection is gone.
LEMMA DisconnectStep ==
  ASSUME SoftInv, NEW w \in Webs, Disconnect(w) \/ MergeGone(w)
  PROVE  SoftInv'
  <1>1. w \in AccountIds /\ AccountsOK
    BY SoftAssumption DEF SoftAssumption, AccountIds, SoftInv
  <1>2. Exists(w) /\ accounts[w] \in Row("full")
    BY <1>1, RowColumns
  <1>3. PICK row : /\ accounts' = [accounts EXCEPT ![w] = row]
                   /\ row \in Row("full") /\ row.merged = accounts[w].merged
                   /\ row.opaque \in {accounts[w].opaque, Nobody}
                   /\ row.real \in {accounts[w].real, Nobody}
    <2>1. CASE Disconnect(w)
      <3> DEFINE row == [accounts[w] EXCEPT !.real = Nobody, !.opaque = Nobody, !.pending = 0]
      <3>1. accounts' = [accounts EXCEPT ![w] = row]
        BY <1>1, <2>1 DEF Disconnect, AccountsOK
      <3>2. row \in Row("full") /\ row.merged = accounts[w].merged
            /\ row.opaque = Nobody /\ row.real = Nobody
        BY <1>2 DEF Row, TwitchIds
      <3> HIDE DEF row
      <3> QED BY <3>1, <3>2
    <2>2. CASE MergeGone(w)
      <3> DEFINE row == [accounts[w] EXCEPT !.pending = 0]
      <3>1. accounts' = [accounts EXCEPT ![w] = row]
        BY <2>2 DEF MergeGone
      <3>2. row \in Row("full") /\ row.merged = accounts[w].merged
            /\ row.opaque = accounts[w].opaque /\ row.real = accounts[w].real
        BY <1>2 DEF Row
      <3> HIDE DEF row
      <3> QED BY <3>1, <3>2
    <2> QED BY <2>1, <2>2
  <1>4. accounts[w] \notin Row("soft")
    BY <1>2 DEF Row
  <1> QED BY <1>1, <1>2, <1>3, <1>4, ColumnStep DEF Disconnect, MergeGone

\* An account draws a card.
LEMMA DrawStep ==
  ASSUME SoftInv, NEW i \in AccountIds, DrawCard(i)
  PROVE  SoftInv'
  <1> USE DEF SoftInv
  <1>1. accounts[i] \in Row("full") \cup Row("soft") /\ Exists(i) /\ accounts[i].tokens > 0
    BY RowColumns DEF DrawCard
  <1> DEFINE row == [accounts[i] EXCEPT !.tokens = accounts[i].tokens - 1]
  <1>2. /\ accounts[i] \in Row("full") => row \in Row("full")
        /\ accounts[i] \in Row("soft") => row \in Row("soft")
        /\ row.opaque = accounts[i].opaque /\ row.real = accounts[i].real
        /\ row.merged = accounts[i].merged
    BY <1>1 DEF Row
  <1>3. accounts' = [accounts EXCEPT ![i] = row]
    BY DEF DrawCard
  <1> HIDE DEF row
  <1>4. \A w \in Webs : w \in AccountIds
    BY SoftAssumption DEF SoftAssumption, AccountIds
  <1>5. AccountsOK' /\ \A w \in Webs : accounts'[w].merged = accounts[w].merged
    BY <1>1, <1>2, <1>3, <1>4, RowColumns DEF AccountsOK, SoftIds
  <1>6. \A j \in AccountIds : Exists(j)' =>
          /\ Exists(j)
          /\ accounts'[j].opaque \in {accounts[j].opaque, Nobody}
          /\ accounts'[j].real \in {accounts[j].real, Nobody}
    BY <1>1, <1>2, <1>3 DEF AccountsOK, Exists
  <1>7. OneRow'
    BY <1>6, OneRowKept
  <1>8. CardsOK'
    <2>1. cardOwner' = [cardOwner EXCEPT ![NextCard] = i] /\ draws' = draws + 1 /\ draws < MaxDraws
      BY DEF DrawCard
    <2>2. cardOwner' \in [CardNumbers -> AccountIds \cup {0}]
      BY <2>1 DEF CardsOK
    <2>3. draws' \in 0..MaxDraws
      BY <2>1, SoftAssumption DEF CardsOK, SoftAssumption
    <2> QED BY <2>2, <2>3 DEF CardsOK
  <1>9. GrantsOK' /\ BonusOK' /\ LogsOK' /\ RequestsOK' /\ HistoryOK' /\ MergesOK'
    BY <1>5, Untouched DEF DrawCard
  <1> QED BY <1>5, <1>7, <1>8, <1>9

\* A season reset.
LEMMA ResetStep ==
  ASSUME SoftInv, ResetSeason
  PROVE  SoftInv'
  <1> USE DEF SoftInv
  <1>1. accounts' = [i \in AccountIds |->
                      IF Exists(i) THEN [accounts[i] EXCEPT !.tokens = Starter] ELSE accounts[i]]
    BY DEF ResetSeason
  <1>2. \A w \in Webs : w \in AccountIds
    BY SoftAssumption DEF SoftAssumption, AccountIds
  <1>3. ASSUME NEW i \in AccountIds
        PROVE  /\ accounts'[i] = NoRow <=> accounts[i] = NoRow
               /\ accounts[i] \in Row("full") => accounts'[i] \in Row("full")
               /\ accounts[i] \in Row("soft") => accounts'[i] \in Row("soft")
               /\ Exists(i) => /\ accounts'[i].opaque = accounts[i].opaque
                               /\ accounts'[i].real = accounts[i].real
                               /\ accounts'[i].merged = accounts[i].merged
    <2>1. CASE Exists(i)
      <3>1. accounts[i] \in Row("full") \cup Row("soft")
        BY <2>1, RowColumns
      <3>2. accounts'[i] = [accounts[i] EXCEPT !.tokens = Starter]
        BY <1>1, <2>1
      <3>3. Starter \in Nat
        BY SoftAssumption DEF SoftAssumption
      <3> QED BY <2>1, <3>1, <3>2, <3>3 DEF Row, NoRow
    <2>2. CASE ~Exists(i)
      BY <1>1, <2>2
    <2> QED BY <2>1, <2>2
  <1>4. AccountsOK' /\ \A w \in Webs : accounts'[w].merged = accounts[w].merged
    <2>1. DOMAIN accounts' = AccountIds
      BY <1>1
    <2> QED BY <1>2, <1>3, <2>1, RowColumns DEF AccountsOK, SoftIds
  <1>5. \A j \in AccountIds : Exists(j)' =>
          /\ Exists(j)
          /\ accounts'[j].opaque \in {accounts[j].opaque, Nobody}
          /\ accounts'[j].real \in {accounts[j].real, Nobody}
    BY <1>3, RowColumns DEF Exists, NoRow
  <1>6. OneRow'
    BY <1>5, OneRowKept
  <1>7. CardsOK'
    BY SoftAssumption DEF ResetSeason, CardsOK, SoftAssumption
  <1>8. GrantsOK' /\ BonusOK' /\ LogsOK' /\ RequestsOK' /\ HistoryOK' /\ MergesOK'
    BY <1>4, Untouched DEF ResetSeason
  <1> QED BY <1>4, <1>6, <1>7, <1>8

\* A merge too old to be reversed leaves the log.
LEMMA DropLogStep ==
  ASSUME SoftInv, NEW l \in LogIds, DropLog(l)
  PROVE  SoftInv'
  <1> USE DEF SoftInv
  <1>1. mergeLogs' = [mergeLogs EXCEPT ![l] = NoLog] /\ NoLog.state = "none"
        /\ \A r \in SoftClients : softReq[r].op = "reverse" => softReq[r].log # l
    BY DEF DropLog, NoLog
  <1>2. LogsOK'
    BY <1>1 DEF LogsOK
  <1>3. RequestsOK'
    BY <1>1 DEF DropLog, RequestsOK, RequestOK, LogsOK
  <1>4. AccountsOK' /\ OneRow' /\ CardsOK' /\ GrantsOK' /\ BonusOK' /\ HistoryOK' /\ MergesOK'
    BY Untouched DEF DropLog
  <1> QED BY <1>2, <1>3, <1>4

\* A request reads and remembers.
LEMMA ReadStep ==
  ASSUME SoftInv, UNCHANGED <<accounts, cardOwner, grants, mergeLogs, draws, history>>,
         NEW r \in SoftClients, NEW q, RequestOK(q), softReq' = [softReq EXCEPT ![r] = q]
  PROVE  SoftInv'
  <1>1. RequestsOK'
    BY RequestsStep
  <1>2. /\ AccountsOK' /\ OneRow' /\ CardsOK' /\ GrantsOK' /\ BonusOK' /\ LogsOK'
        /\ HistoryOK' /\ MergesOK'
    BY Untouched
  <1> QED BY <1>1, <1>2 DEF SoftInv

\* A request to connect has read who holds the Twitch id.
LEMMA BeginConnectStep ==
  ASSUME SoftInv, NEW r \in SoftClients, NEW w \in Webs, NEW v \in Viewers,
         BeginConnect(r, w, v)
  PROVE  SoftInv'
  <1>1. PICK holder : holder = Pick(ByReal(v))
    OBVIOUS
  <1>2. holder \in SoftIds \cup {0}
    <2>1. CASE IsSoft(holder)
      <3>1. holder \in AccountIds /\ AccountsOK
        BY <2>1 DEF IsSoft, SoftInv
      <3> QED BY <2>1, <3>1, RowColumns
    <2> QED BY <1>1, <2>1 DEF BeginConnect
  <1> DEFINE q == [op |-> "connect", web |-> w, sub |-> v, holder |-> holder,
                   merged |-> accounts[w].merged, pending |-> accounts[w].pending]
  <1>3. RequestOK(q)
    BY <1>2 DEF RequestOK
  <1>4. softReq' = [softReq EXCEPT ![r] = q]
    BY <1>1 DEF BeginConnect
  <1> HIDE DEF q
  <1> QED BY <1>3, <1>4, ReadStep DEF BeginConnect

\* A request to merge has read the account that waits for it.
LEMMA BeginMergeStep ==
  ASSUME SoftInv, NEW r \in SoftClients, NEW w \in Webs, BeginMerge(r, w)
  PROVE  SoftInv'
  <1>1. PICK s : s = accounts[w].pending
    OBVIOUS
  <1>2. s \in AccountIds /\ IsSoft(s) /\ AccountsOK
    BY <1>1 DEF BeginMerge, IsSoft, SoftInv
  <1>3. s \in SoftIds /\ accounts[s].opaque \in TwitchIds
    <2>1. s \in SoftIds /\ Exists(s)
      BY <1>2, RowColumns
    <2> QED BY <1>2, <2>1, RowColumns DEF Row
  <1> DEFINE q == [op |-> "merge", web |-> w, soft |-> s, opaque |-> accounts[s].opaque]
  <1>4. RequestOK(q)
    BY <1>3 DEF RequestOK
  <1>5. softReq' = [softReq EXCEPT ![r] = q]
    BY <1>1 DEF BeginMerge
  <1> HIDE DEF q
  <1> QED BY <1>4, <1>5, ReadStep DEF BeginMerge

\* A request to delete has read the account.
LEMMA BeginDeleteStep ==
  ASSUME SoftInv, NEW r \in SoftClients, NEW i \in AccountIds, BeginDelete(r, i)
  PROVE  SoftInv'
  <1>1. i \in SoftIds
    BY RowColumns DEF BeginDelete, SoftInv
  <1> DEFINE q == [op |-> "delete", soft |-> i, cards |-> CardsOf(i)]
  <1>2. RequestOK(q)
    BY <1>1 DEF RequestOK
  <1>3. softReq' = [softReq EXCEPT ![r] = q]
    BY DEF BeginDelete
  <1> HIDE DEF q
  <1> QED BY <1>2, <1>3, ReadStep DEF BeginDelete

\* A request to reverse has read the merge.
LEMMA BeginReverseStep ==
  ASSUME SoftInv, NEW r \in SoftClients, NEW l \in LogIds, BeginReverse(r, l)
  PROVE  SoftInv'
  <1> DEFINE q == [op |-> "reverse", log |-> l, clears |-> NonEmpty(mergeLogs[l].web)]
  <1>1. mergeLogs[l].state # "none"
    BY DEF BeginReverse, Reversible
  <1>2. RequestOK(q)
    BY <1>1 DEF RequestOK
  <1>3. softReq' = [softReq EXCEPT ![r] = q]
    BY DEF BeginReverse
  <1> HIDE DEF q
  <1> QED BY <1>2, <1>3, ReadStep DEF BeginReverse

-----------------------------------------------------------------------------
(* Requests that write *)

\* What a request has read keeps its form until it writes.
LEMMA RequestIs ==
  ASSUME SoftInv, NEW r \in SoftClients
  PROVE  RequestOK(softReq[r])
  BY DEF SoftInv, RequestsOK

\* A deletion takes the row and what it owns.
LEMMA CommitDeleteStep ==
  ASSUME SoftInv, NEW r \in SoftClients, CommitDelete(r)
  PROVE  SoftInv'
  <1> USE DEF SoftInv
  <1>1. PICK s : s = softReq[r].soft
    OBVIOUS
  <1>2. s \in SoftIds
    BY <1>1, RequestIs DEF CommitDelete, RequestOK
  <1>3. accounts' = [accounts EXCEPT ![s] = NoRow]
    BY <1>1 DEF CommitDelete
  <1>4. AccountsOK' /\ \A w \in Webs : accounts'[w].merged = accounts[w].merged
    <2>1. \A w \in Webs : w \in AccountIds /\ w # s
      BY <1>2, SoftAssumption DEF SoftAssumption, AccountIds, SoftIds
    <2> QED BY <1>2, <1>3, <2>1 DEF AccountsOK, SoftIds
  <1>5. \A j \in AccountIds : Exists(j)' =>
          /\ Exists(j)
          /\ accounts'[j].opaque \in {accounts[j].opaque, Nobody}
          /\ accounts'[j].real \in {accounts[j].real, Nobody}
    BY <1>3 DEF AccountsOK, Exists, NoRow
  <1>6. OneRow'
    BY <1>5, OneRowKept
  <1>7. RequestsOK'
    BY IdleOK, RequestsStep DEF CommitDelete, Answer
  <1>8. CardsOK'
    BY DEF CommitDelete, CardsOK
  <1>9. GrantsOK' /\ BonusOK' /\ LogsOK' /\ HistoryOK' /\ MergesOK'
    BY <1>4, Untouched DEF CommitDelete
  <1> QED BY <1>4, <1>6, <1>7, <1>8, <1>9

\* The bonus of Connect Twitch goes to an account that had none.
LEMMA BonusPaid ==
  ASSUME SoftInv, NEW w \in Webs, NEW v \in Viewers,
         \A g \in grants : g.viewer # v,
         ~ \E g \in grants : g.user = w /\ g.source = "connect",
         grants' = grants \cup {[viewer |-> v, user |-> w, source |-> "connect"]},
         history' = [history EXCEPT ![w].bonuses = @ + 1]
  PROVE  GrantsOK' /\ BonusOK' /\ HistoryOK'
  <1>1. w \in AccountIds
    BY SoftAssumption DEF SoftAssumption, AccountIds
  <1>2. /\ GrantsOK' /\ Cardinality(ConnectGrants) \in Nat
        /\ Cardinality(ConnectGrants') = Cardinality(ConnectGrants) + 1
    BY <1>1, GrantAdded
  <1>3. HistoryOK' /\ Total(BonusesPaid', Webs) = Total(BonusesPaid, Webs) + 1
    BY BonusAdded
  <1>4. history[w].bonuses = 0
    <2>1. history[w].bonuses \in Nat /\ history[w].bonuses <= 1 /\ history[w].bonuses # 1
      BY DEF SoftInv, BonusOK, HistoryOK, ConnectGrants
    <2> QED BY <2>1
  <1>5. ASSUME NEW x \in Webs
        PROVE  /\ history'[x].bonuses <= 1
               /\ history'[x].bonuses = 1 => \E g \in ConnectGrants' : g.user = x
    <2>1. CASE x = w
      <3> DEFINE g == [viewer |-> v, user |-> w, source |-> "connect"]
      <3>1. g \in ConnectGrants' /\ g.user = w
        BY DEF ConnectGrants
      <3>2. history'[w].bonuses = 1
        BY <1>4 DEF SoftInv, HistoryOK
      <3> HIDE DEF g
      <3> QED BY <2>1, <3>1, <3>2
    <2>2. CASE x # w
      <3>1. history'[x].bonuses = history[x].bonuses
        BY <2>2 DEF SoftInv, HistoryOK
      <3>2. ConnectGrants \subseteq ConnectGrants'
        BY DEF ConnectGrants
      <3> QED BY <3>1, <3>2 DEF SoftInv, BonusOK
    <2> QED BY <2>1, <2>2
  <1>6. Total(BonusesPaid', Webs) = Cardinality(ConnectGrants')
    BY <1>2, <1>3 DEF SoftInv, BonusOK
  <1> QED BY <1>2, <1>3, <1>5, <1>6 DEF BonusOK

\* A connection sets the Twitch id and pays the bonus once for the account and the viewer.
LEMMA CommitConnectStep ==
  ASSUME SoftInv, NEW r \in SoftClients, CommitConnect(r)
  PROVE  SoftInv'
  <1> USE DEF SoftInv
  <1>1. PICK q : q = softReq[r]
    OBVIOUS
  <1>2. q.web \in Webs /\ q.sub \in Viewers /\ q.holder \in SoftIds \cup {0}
    BY <1>1, RequestIs DEF CommitConnect, RequestOK
  <1>3. PICK w : w = q.web
    OBVIOUS
  <1>4. w \in Webs /\ w \in AccountIds /\ w \notin SoftIds /\ w # 0
    BY <1>2, <1>3, WebIds
  <1>5. RequestsOK' /\ CardsOK' /\ LogsOK'
    BY IdleOK, RequestsStep, Untouched DEF CommitConnect, Answer
  <1>6. CASE UNCHANGED <<accounts, grants, history>>
    <2>1. AccountsOK' /\ OneRow' /\ GrantsOK' /\ BonusOK' /\ HistoryOK' /\ MergesOK'
      BY <1>6, Untouched
    <2> QED BY <1>5, <2>1
  <1>7. CASE (q.holder # 0 => Exists(q.holder)) /\ ByReal(q.sub) \subseteq {w, q.holder}
    <2>1. PICK due \in BOOLEAN : due = BonusDue(w, q.sub, q)
      BY DEF BonusDue
    <2> DEFINE row == [accounts[w] EXCEPT !.real = q.sub,
                        !.pending = Flushed(q.pending, accounts[w].pending, q.holder),
                        !.tokens = accounts[w].tokens + (IF due THEN Bonus ELSE 0)]
    <2>2. /\ accounts' = [i \in AccountIds |->
                  CASE i = w -> row
                    [] i = q.holder -> [accounts[i] EXCEPT !.real = Nobody]
                    [] OTHER -> accounts[i]]
          /\ grants' = IF due THEN grants \cup {[viewer |-> q.sub, user |-> w, source |-> "connect"]}
                       ELSE grants
          /\ history' = IF due THEN [history EXCEPT ![w].bonuses = @ + 1] ELSE history
      BY <1>1, <1>3, <1>7, <2>1 DEF CommitConnect
    <2>3. accounts[w] \in Row("full") /\ Exists(w)
      BY <1>4, RowColumns
    <2>4. Flushed(q.pending, accounts[w].pending, q.holder) \in SoftIds \cup {0}
      BY <1>2, <2>3 DEF Flushed, Row
    <2>5. row \in Row("full") /\ row.merged = accounts[w].merged
          /\ row.opaque = accounts[w].opaque /\ row.real = q.sub
      <3>1. accounts[w].tokens + (IF due THEN Bonus ELSE 0) \in Nat
        BY <2>3, SoftAssumption DEF Row, SoftAssumption
      <3>2. q.sub \in TwitchIds
        BY <1>2 DEF TwitchIds
      <3> HIDE DEF TwitchIds
      <3> QED BY <2>3, <2>4, <3>1, <3>2 DEF Row
    <2> HIDE DEF row
    <2>6. /\ DOMAIN accounts' = AccountIds
          /\ accounts'[w] = row
          /\ \A i \in AccountIds : i # w /\ i # q.holder => accounts'[i] = accounts[i]
          /\ q.holder # 0 => accounts'[q.holder] = [accounts[q.holder] EXCEPT !.real = Nobody]
      BY <1>2, <1>4, <2>2 DEF SoftIds
    <2>7. q.holder # 0 => /\ Exists(q.holder) /\ accounts'[q.holder] \in Row("soft")
                          /\ accounts'[q.holder].opaque = accounts[q.holder].opaque
                          /\ accounts'[q.holder].real = Nobody
      <3> SUFFICES ASSUME q.holder # 0
                   PROVE  /\ Exists(q.holder) /\ accounts'[q.holder] \in Row("soft")
                          /\ accounts'[q.holder].opaque = accounts[q.holder].opaque
                          /\ accounts'[q.holder].real = Nobody
        OBVIOUS
      <3>1. Exists(q.holder) /\ q.holder \in SoftIds /\ q.holder \in AccountIds
        BY <1>2, <1>7 DEF SoftIds
      <3>2. accounts[q.holder] \in Row("soft")
        BY <3>1, RowColumns
      <3> QED BY <2>6, <3>1, <3>2 DEF Row, TwitchIds
    <2>8. AccountsOK' /\ \A x \in Webs : accounts'[x].merged = accounts[x].merged
      <3>1. \A x \in Webs : x # w => accounts'[x] = accounts[x]
        BY <1>2, <2>6, SoftAssumption DEF SoftAssumption, AccountIds, SoftIds
      <3>2. \A x \in Webs : accounts'[x] \in Row("full") /\ accounts'[x].merged = accounts[x].merged
        BY <2>5, <2>6, <3>1 DEF AccountsOK
      <3>3. \A i \in SoftIds : accounts'[i] = NoRow \/ accounts'[i] \in Row("soft")
        <4> SUFFICES ASSUME NEW i \in SoftIds
                     PROVE  accounts'[i] = NoRow \/ accounts'[i] \in Row("soft")
          OBVIOUS
        <4>1. i # w /\ i # 0 /\ i \in AccountIds
          BY <1>4, WebIds
        <4>2. CASE i = q.holder
          BY <2>7, <4>1, <4>2
        <4>3. CASE i # q.holder
          BY <2>6, <4>1, <4>3 DEF AccountsOK
        <4> QED BY <4>2, <4>3
      <3> QED BY <2>6, <3>2, <3>3 DEF AccountsOK
    <2>9. OneRow'
      <3>1. \A i \in AccountIds : Exists(i)' => Exists(i) /\ accounts'[i].opaque = accounts[i].opaque
        <4> SUFFICES ASSUME NEW i \in AccountIds, Exists(i)'
                     PROVE  Exists(i) /\ accounts'[i].opaque = accounts[i].opaque
          OBVIOUS
        <4>1. CASE i = w
          BY <2>3, <2>5, <2>6, <4>1
        <4>2. CASE i # w /\ i = q.holder
          BY <1>2, <2>7, <4>2, SoftAssumption DEF AccountIds
        <4>3. CASE i # w /\ i # q.holder
          BY <2>6, <4>3 DEF Exists
        <4> QED BY <4>1, <4>2, <4>3
      <3>2. \A i \in AccountIds : Exists(i)' =>
              \/ accounts'[i].real = Nobody
              \/ i = w /\ accounts'[i].real = q.sub
              \/ i # w /\ accounts'[i].real = accounts[i].real /\ accounts[i].real # q.sub
        <4> SUFFICES ASSUME NEW i \in AccountIds, Exists(i)'
                     PROVE  \/ accounts'[i].real = Nobody
                            \/ i = w /\ accounts'[i].real = q.sub
                            \/ /\ i # w /\ accounts'[i].real = accounts[i].real
                               /\ accounts[i].real # q.sub
          OBVIOUS
        <4>1. CASE i = w
          BY <2>5, <2>6, <4>1
        <4>2. CASE i # w /\ i = q.holder
          BY <1>2, <2>7, <4>2, SoftAssumption DEF AccountIds
        <4>3. CASE i # w /\ i # q.holder
          <5>1. accounts'[i] = accounts[i] /\ Exists(i)
            BY <2>6, <3>1, <4>3
          <5>2. i \notin ByReal(q.sub) /\ q.sub # Nobody
            BY <1>2, <1>7, <4>3, SoftAssumption DEF SoftAssumption
          <5> QED BY <4>3, <5>1, <5>2, Holders
        <4> QED BY <4>1, <4>2, <4>3
      <3> SUFFICES ASSUME NEW j \in AccountIds, NEW k \in AccountIds,
                          Exists(j)', Exists(k)', j # k
                   PROVE  /\ accounts'[j].opaque = accounts'[k].opaque => accounts'[j].opaque = Nobody
                          /\ accounts'[j].real = accounts'[k].real => accounts'[j].real = Nobody
        BY DEF OneRow
      <3> QED BY <3>1, <3>2 DEF OneRow
    <2>10. GrantsOK' /\ BonusOK' /\ HistoryOK'
      <3>1. CASE due
        <4>1. /\ \A g \in grants : g.viewer # q.sub
              /\ ~ \E g \in grants : g.user = w /\ g.source = "connect"
          BY <2>1, <3>1 DEF BonusDue, HasStarter
        <4>2. /\ grants' = grants \cup {[viewer |-> q.sub, user |-> w, source |-> "connect"]}
              /\ history' = [history EXCEPT ![w].bonuses = @ + 1]
          BY <2>2, <3>1
        <4> QED BY <1>2, <1>4, <4>1, <4>2, BonusPaid
      <3>2. CASE ~due
        BY <2>2, <3>2, Untouched
      <3> QED BY <3>1, <3>2
    <2>11. MergesOK'
      <3>1. \A x \in Webs : history'[x].merges = history[x].merges
                            /\ history'[x].reversals = history[x].reversals
        BY <2>2 DEF HistoryOK
      <3> QED BY <2>8, <3>1 DEF MergesOK
    <2> QED BY <1>5, <2>8, <2>9, <2>10, <2>11
  <1> QED BY <1>1, <1>3, <1>6, <1>7 DEF CommitConnect

\* A merge moves tokens of the viewer and takes no more than there is.
LEMMA SplitIs ==
  ASSUME NEW soft \in Nat, NEW web \in Nat, NEW deduct \in Nat
  PROVE  /\ TokenSplit(soft, web, deduct).moved \in Nat
         /\ TokenSplit(soft, web, deduct).moved <= soft
         /\ TokenSplit(soft, web, deduct).fromWeb \in Nat
         /\ TokenSplit(soft, web, deduct).fromWeb <= web
  BY DEF TokenSplit, Least

\* A merge moves cards and tokens to the website account and logs what it moved.
LEMMA CommitMergeStep ==
  ASSUME SoftInv, NEW r \in SoftClients, CommitMerge(r)
  PROVE  SoftInv'
  <1> USE DEF SoftInv
  <1>1. PICK q : q = softReq[r]
    OBVIOUS
  <1>2. PICK w, s : w = q.web /\ s = q.soft
    OBVIOUS
  <1>3. w \in Webs /\ s \in SoftIds /\ q.opaque \in TwitchIds
    BY <1>1, <1>2, RequestIs DEF CommitMerge, RequestOK
  <1>4. w \in AccountIds /\ s \in AccountIds /\ w # s
    BY <1>3, WebIds
  <1>5. UNCHANGED <<grants, draws>> /\ softReq' = [softReq EXCEPT ![r] = SoftIdle]
    BY DEF CommitMerge, Answer
  <1>6. CASE UNCHANGED <<accounts, cardOwner, mergeLogs, history>>
    BY <1>5, <1>6, IdleOK, ReadStep
  <1>7. CASE StillPending(w, s) /\ ByOpaque(q.opaque) \subseteq {s, w}
    <2>1. accounts[w] \in Row("full") /\ Exists(w)
      BY <1>3, <1>4, RowColumns
    <2>2. accounts[s] \in Row("soft") /\ Exists(s) /\ ~accounts[w].merged
      BY <1>3, <1>4, <1>7, RowColumns DEF StillPending
    <2>3. StarterReceived(w) \in Nat
      BY SoftAssumption DEF StarterReceived, SoftAssumption
    <2>4. PICK split : split = TokenSplit(accounts[s].tokens, accounts[w].tokens, StarterReceived(w))
      OBVIOUS
    <2>5. /\ split.moved \in Nat /\ split.moved <= accounts[s].tokens
          /\ split.fromWeb \in Nat /\ split.fromWeb <= accounts[w].tokens
          /\ accounts[s].tokens \in Nat /\ accounts[w].tokens \in Nat
      <3>1. accounts[s].tokens \in Nat /\ accounts[w].tokens \in Nat
        BY <2>1, <2>2 DEF Row
      <3> QED BY <2>3, <2>4, <3>1, SplitIs
    <2>6. PICK tokens : tokens = accounts[w].tokens + split.moved - split.fromWeb
      OBVIOUS
    <2>7. tokens \in Nat
      BY <2>5, <2>6
    <2> DEFINE row == [accounts[w] EXCEPT !.tokens = tokens, !.opaque = q.opaque,
                                          !.merged = TRUE, !.pending = 0]
               log == [state |-> "merged", web |-> w, opaque |-> accounts[s].opaque,
                       real |-> accounts[w].real, cards |-> CardsOf(s),
                       moved |-> split.moved, tokens |-> accounts[s].tokens,
                       fromWeb |-> split.fromWeb, before |-> accounts[w].tokens]
    <2>8. /\ mergeLogs' = [mergeLogs EXCEPT ![NextLog] = log]
          /\ accounts' = [accounts EXCEPT ![s] = NoRow, ![w] = row]
          /\ cardOwner' = [c \in CardNumbers |-> IF cardOwner[c] = s THEN w ELSE cardOwner[c]]
          /\ history' = [history EXCEPT ![w].merges = @ + 1]
      <3>1. mergeLogs' = [mergeLogs EXCEPT ![NextLog] = log]
        BY SMTT(30), <1>1, <1>2, <1>7, <2>4 DEF CommitMerge
      <3>2. accounts' = [accounts EXCEPT
              ![s] = NoRow,
              ![w] = [accounts[w] EXCEPT !.tokens = @ + split.moved - split.fromWeb,
                                         !.opaque = q.opaque, !.merged = TRUE, !.pending = 0]]
        BY <1>1, <1>2, <1>7, <2>4 DEF CommitMerge
      <3>3. accounts' = [accounts EXCEPT ![s] = NoRow, ![w] = row]
        BY <2>6, <3>2
      <3>4. /\ cardOwner' = [c \in CardNumbers |-> IF cardOwner[c] = s THEN w ELSE cardOwner[c]]
            /\ history' = [history EXCEPT ![w].merges = @ + 1]
        BY <1>1, <1>2, <1>7 DEF CommitMerge
      <3> QED BY <3>1, <3>3, <3>4
    <2>9. row \in Row("full") /\ row.merged = TRUE /\ row.opaque = q.opaque
          /\ row.real = accounts[w].real
      BY <1>3, <2>1, <2>7 DEF Row
    <2>10. MergeRow(log) /\ log.state # "none"
      <3>1. accounts[s].opaque \in TwitchIds /\ accounts[w].real \in TwitchIds
        BY <2>1, <2>2 DEF Row
      <3>2. CardsOf(s) \in SUBSET CardNumbers
        BY DEF CardsOf
      <3> QED BY <1>3, <2>5, <3>1, <3>2 DEF MergeRow
    <2> HIDE DEF row, log
    <2>11. /\ DOMAIN accounts' = AccountIds /\ accounts'[w] = row /\ accounts'[s] = NoRow
           /\ \A i \in AccountIds : i # w /\ i # s => accounts'[i] = accounts[i]
      BY <1>4, <2>8 DEF AccountsOK
    <2>12. AccountsOK'
      <3>1. \A x \in Webs : accounts'[x] \in Row("full")
        BY <1>3, <2>9, <2>11, WebIds DEF AccountsOK
      <3>2. \A i \in SoftIds : accounts'[i] = NoRow \/ accounts'[i] \in Row("soft")
        BY <1>3, <2>11, WebIds DEF AccountsOK
      <3> QED BY <2>11, <3>1, <3>2 DEF AccountsOK
    <2>13. OneRow'
      <3>1. \A i \in AccountIds : Exists(i)' =>
              /\ Exists(i) /\ accounts'[i].real = accounts[i].real
              /\ \/ i = w /\ accounts'[i].opaque = q.opaque
                 \/ /\ i # w /\ accounts'[i].opaque = accounts[i].opaque
                    /\ accounts[i].opaque = q.opaque => accounts[i].opaque = Nobody
        <4> SUFFICES ASSUME NEW i \in AccountIds, Exists(i)'
                     PROVE  /\ Exists(i) /\ accounts'[i].real = accounts[i].real
                            /\ \/ i = w /\ accounts'[i].opaque = q.opaque
                               \/ /\ i # w /\ accounts'[i].opaque = accounts[i].opaque
                                  /\ accounts[i].opaque = q.opaque => accounts[i].opaque = Nobody
          OBVIOUS
        <4>1. CASE i = w
          BY <2>1, <2>9, <2>11, <4>1
        <4>2. CASE i = s
          BY <2>11, <4>2 DEF Exists, NoRow
        <4>3. CASE i # w /\ i # s
          <5>1. accounts'[i] = accounts[i] /\ Exists(i)
            BY <2>11, <4>3 DEF Exists
          <5>2. i \notin ByOpaque(q.opaque)
            BY <1>7, <4>3
          <5>3. accounts[i].opaque = q.opaque => accounts[i].opaque = Nobody
            BY <5>1, <5>2, Holders
          <5> QED BY <4>3, <5>1, <5>3
        <4> QED BY <4>1, <4>2, <4>3
      <3> SUFFICES ASSUME NEW j \in AccountIds, NEW k \in AccountIds,
                          Exists(j)', Exists(k)', j # k
                   PROVE  /\ accounts'[j].opaque = accounts'[k].opaque => accounts'[j].opaque = Nobody
                          /\ accounts'[j].real = accounts'[k].real => accounts'[j].real = Nobody
        BY DEF OneRow
      <3> QED BY <3>1 DEF OneRow
    <2>14. CardsOK'
      BY <1>4, <1>5, <2>8 DEF CardsOK
    <2>15. LogsOK'
      BY <2>8, <2>10 DEF LogsOK
    <2>16. RequestsOK'
      <3>1. \A l \in LogIds : mergeLogs[l].state # "none" => mergeLogs'[l].state # "none"
        BY <2>8, <2>10 DEF LogsOK
      <3> QED BY <1>5, <3>1 DEF RequestsOK, RequestOK, SoftIdle
    <2>17. HistoryOK' /\ MergesOK'
      <3>1. HistoryOK'
        BY <1>3, <2>8 DEF HistoryOK
      <3>2. \A x \in Webs :
              /\ x = w => history'[x].merges = history[x].merges + 1
              /\ x # w => history'[x].merges = history[x].merges
              /\ history'[x].reversals = history[x].reversals
        BY <1>3, <2>8 DEF HistoryOK
      <3>3. \A x \in Webs : x # w => accounts'[x].merged = accounts[x].merged
        BY <1>3, <2>11, WebIds
      <3>4. history[w].merges <= history[w].reversals
            /\ history[w].merges \in Nat /\ history[w].reversals \in Nat
        BY <1>3, <2>2 DEF MergesOK, HistoryOK
      <3>5. ASSUME NEW x \in Webs
            PROVE  /\ history'[x].merges <= 1 + history'[x].reversals
                   /\ ~accounts'[x].merged => history'[x].merges <= history'[x].reversals
        <4>1. CASE x = w
          BY <2>9, <2>11, <3>2, <3>4, <4>1
        <4>2. CASE x # w
          BY <3>2, <3>3, <4>2 DEF MergesOK
        <4> QED BY <4>1, <4>2
      <3> QED BY <3>1, <3>5 DEF MergesOK
    <2>18. GrantsOK' /\ BonusOK'
      <3>1. BonusesPaid' = BonusesPaid /\ \A x \in Webs : history'[x].bonuses = history[x].bonuses
        BY <1>3, <2>8 DEF HistoryOK, BonusesPaid
      <3>2. ConnectGrants' = ConnectGrants
        BY <1>5 DEF ConnectGrants
      <3>3. BonusOK'
        BY <3>1, <3>2 DEF BonusOK
      <3> QED BY <1>5, <3>3, Untouched
    <2> QED BY <2>12, <2>13, <2>14, <2>15, <2>16, <2>17, <2>18
  <1> QED BY <1>1, <1>2, <1>6, <1>7 DEF CommitMerge

\* What a website account pays back is there.
LEMMA TakenIs ==
  ASSUME NEW balance \in Nat, NEW moved \in Nat
  PROVE  /\ Taken(balance, moved) \in Nat /\ Taken(balance, moved) <= balance
         /\ moved <= balance => Taken(balance, moved) = moved
  BY DEF Taken, Least

\* The greater of two numbers.
LEMMA MaxOfTwo ==
  ASSUME NEW a \in Nat, NEW b \in Nat
  PROVE  /\ Max({a, b}) \in Nat
         /\ a <= b => Max({a, b}) = b
  <1>1. IsFiniteSet({a, b})
    <2>1. IsFiniteSet({} \cup {a}) /\ {} \cup {a} = {a}
      BY FS_EmptySet, FS_AddElement
    <2>2. IsFiniteSet({a} \cup {b}) /\ {a} \cup {b} = {a, b}
      BY <2>1, FS_AddElement
    <2> QED BY <2>2
  <1>2. Max({a, b}) \in {a, b} /\ \A y \in {a, b} : y <= Max({a, b})
    BY <1>1, MaxIs
  <1> QED BY <1>2

\* After a reversal the website account has a Twitch id it had, or none.
LEMMA ClearedIs ==
  ASSUME NEW w, accounts[w] \in Row("full"), NEW clears, NEW log, MergeRow(log)
  PROVE  /\ Cleared(w, clears, log) \in Row("full")
         /\ Cleared(w, clears, log).opaque \in {accounts[w].opaque, Nobody}
         /\ Cleared(w, clears, log).real \in {accounts[w].real, Nobody}
  <1>1. PICK balance \in Nat : balance = accounts[w].tokens
    BY DEF Row
  <1>2. PICK tokens : tokens = balance - Taken(balance, log.moved) + log.fromWeb
    OBVIOUS
  <1>3. tokens \in Nat
    <2>1. log.moved \in Nat /\ log.fromWeb \in Nat
      BY DEF MergeRow
    <2>2. Taken(balance, log.moved) \in Nat /\ Taken(balance, log.moved) <= balance
      BY <1>1, <2>1, TakenIs
    <2> QED BY <1>1, <1>2, <2>1, <2>2
  <1>4. PICK real, opaque, merged, pending :
          /\ real = (IF "real" \in clears THEN Nobody ELSE accounts[w].real)
          /\ opaque = (IF "opaque" \in clears THEN Nobody ELSE accounts[w].opaque)
          /\ merged = (IF "merged" \in clears THEN FALSE ELSE accounts[w].merged)
          /\ pending = (IF "pending" \in clears THEN 0 ELSE accounts[w].pending)
    OBVIOUS
  <1>5. /\ real \in TwitchIds /\ opaque \in TwitchIds /\ merged \in BOOLEAN
        /\ pending \in SoftIds \cup {0}
        /\ opaque \in {accounts[w].opaque, Nobody} /\ real \in {accounts[w].real, Nobody}
    BY <1>4 DEF Row, TwitchIds
  <1>6. Cleared(w, clears, log) =
          [accounts[w] EXCEPT !.real = real, !.opaque = opaque, !.merged = merged,
                              !.pending = pending, !.tokens = tokens]
    BY <1>1, <1>2, <1>4 DEF Cleared
  <1> QED BY <1>3, <1>5, <1>6 DEF Row

\* The viewer account gets a Twitch id back only if no other row has it.
LEMMA RecreatedIs ==
  ASSUME NEW w, NEW cleared, NEW log, MergeRow(log)
  PROVE  LET new == Recreated(w, cleared, log)
         IN /\ new \in Row("soft")
            /\ new.opaque # Nobody =>
                 new.opaque = log.opaque /\ cleared.opaque # log.opaque /\ ByOpaque(log.opaque) \subseteq {w}
            /\ new.real # Nobody =>
                 new.real = log.real /\ cleared.real # log.real /\ ByReal(log.real) \subseteq {w}
  <1> DEFINE Holder(id, current) == IF current = id THEN {w} ELSE {}
  <1>1. PICK opaques, reals :
          /\ opaques = (ByOpaque(log.opaque) \ {w}) \cup Holder(log.opaque, cleared.opaque)
          /\ reals = (ByReal(log.real) \ {w}) \cup Holder(log.real, cleared.real)
    OBVIOUS
  <1>2. PICK tokens : tokens = Max({log.moved, log.tokens})
    OBVIOUS
  <1>3. tokens \in Nat
    BY <1>2, MaxOfTwo DEF MergeRow
  <1>4. PICK opaque, real : opaque = Restored(log.opaque, opaques) /\ real = Restored(log.real, reals)
    OBVIOUS
  <1>5. opaque \in TwitchIds /\ real \in TwitchIds
    BY <1>4 DEF Restored, MergeRow, TwitchIds
  <1>6. Recreated(w, cleared, log) = NewAccount("soft", opaque, real, tokens)
    BY <1>1, <1>2, <1>4 DEF Recreated
  <1>7. /\ opaque # Nobody => opaque = log.opaque /\ opaques = {}
        /\ real # Nobody => real = log.real /\ reals = {}
    BY <1>4 DEF Restored
  <1>8. /\ opaques = {} => cleared.opaque # log.opaque /\ ByOpaque(log.opaque) \subseteq {w}
        /\ reals = {} => cleared.real # log.real /\ ByReal(log.real) \subseteq {w}
    BY <1>1
  <1>9. /\ NewAccount("soft", opaque, real, tokens) \in Row("soft")
        /\ NewAccount("soft", opaque, real, tokens).opaque = opaque
        /\ NewAccount("soft", opaque, real, tokens).real = real
    BY <1>3, <1>5 DEF NewAccount, Row
  <1> QED BY <1>6, <1>7, <1>8, <1>9

\* A reversal returns what the log has, as far as the account still holds it.
LEMMA CommitReverseStep ==
  ASSUME SoftInv, NEW r \in SoftClients, CommitReverse(r)
  PROVE  SoftInv'
  <1> USE DEF SoftInv
  <1>1. PICK q : q = softReq[r]
    OBVIOUS
  <1>2. PICK log : log = mergeLogs[q.log]
    BY Zenon
  <1>3. q.log \in LogIds /\ log.state # "none" /\ MergeRow(log)
    BY <1>1, <1>2, RequestIs DEF CommitReverse, RequestOK, LogsOK
  <1>4. PICK w, n : w = log.web /\ n = NextAccount
    BY Zenon
  <1>5. /\ w \in Webs /\ w \in AccountIds /\ n \in SoftIds /\ n \in AccountIds
        /\ ~Exists(n) /\ n # w
    BY <1>3, <1>4, WebIds, NewIds DEF CommitReverse, MergeRow
  <1>6. accounts[w] \in Row("full") /\ Exists(w)
    BY <1>5, RowColumns
  <1>7. PICK row, new : row = Cleared(w, q.clears, log) /\ new = Recreated(w, row, log)
    BY Zenon
  <1>8. /\ accounts' = [accounts EXCEPT ![w] = row, ![n] = new]
        /\ cardOwner' = [c \in CardNumbers |->
                           IF c \in log.cards /\ cardOwner[c] = w THEN n ELSE cardOwner[c]]
        /\ mergeLogs' = [mergeLogs EXCEPT ![q.log].state = "reversed"]
        /\ history' = [history EXCEPT ![w].reversals = @ + 1]
        /\ softReq' = [softReq EXCEPT ![r] = SoftIdle]
        /\ UNCHANGED <<grants, draws>>
    BY <1>1, <1>2, <1>4, <1>7 DEF CommitReverse, Answer
  <1>9. /\ row \in Row("full")
        /\ row.opaque \in {accounts[w].opaque, Nobody} /\ row.real \in {accounts[w].real, Nobody}
    BY <1>3, <1>6, <1>7, ClearedIs
  <1>10. /\ new \in Row("soft")
         /\ new.opaque # Nobody =>
              new.opaque = log.opaque /\ row.opaque # log.opaque /\ ByOpaque(log.opaque) \subseteq {w}
         /\ new.real # Nobody =>
              new.real = log.real /\ row.real # log.real /\ ByReal(log.real) \subseteq {w}
    BY <1>3, <1>7, RecreatedIs
  <1>11. /\ DOMAIN accounts' = AccountIds /\ accounts'[w] = row /\ accounts'[n] = new
         /\ \A i \in AccountIds : i # w /\ i # n => accounts'[i] = accounts[i]
    BY <1>5, <1>8 DEF AccountsOK
  <1>12. AccountsOK'
    <2>1. \A x \in Webs : accounts'[x] \in Row("full")
      BY <1>5, <1>11, <1>9, <1>10, WebIds DEF AccountsOK
    <2>2. \A i \in SoftIds : accounts'[i] = NoRow \/ accounts'[i] \in Row("soft")
      BY <1>5, <1>11, <1>9, <1>10, WebIds DEF AccountsOK
    <2> QED BY <1>11, <2>1, <2>2 DEF AccountsOK
  <1>13. OneRow'
    <2>1. \A i \in AccountIds : i # n /\ Exists(i)' =>
            /\ Exists(i)
            /\ accounts'[i].opaque \in {accounts[i].opaque, Nobody}
            /\ accounts'[i].real \in {accounts[i].real, Nobody}
      BY <1>6, <1>11, <1>9, <1>10 DEF Exists
    <2>2. \A i \in AccountIds : i # n /\ Exists(i)' =>
            /\ accounts'[i].opaque = new.opaque => new.opaque = Nobody
            /\ accounts'[i].real = new.real => new.real = Nobody
      <3> SUFFICES ASSUME NEW i \in AccountIds, i # n, Exists(i)'
                   PROVE  /\ accounts'[i].opaque = new.opaque => new.opaque = Nobody
                          /\ accounts'[i].real = new.real => new.real = Nobody
        OBVIOUS
      <3>1. CASE i = w
        BY <1>11, <1>10, <3>1
      <3>2. CASE i # w
        <4>1. Exists(i) /\ accounts'[i] = accounts[i]
          BY <1>11, <2>1, <3>2
        <4>2. /\ new.opaque # Nobody => new.opaque = log.opaque /\ i \notin ByOpaque(log.opaque)
              /\ new.real # Nobody => new.real = log.real /\ i \notin ByReal(log.real)
          BY <1>10, <3>2
        <4> QED BY <4>1, <4>2 DEF ByOpaque, ByReal
      <3> QED BY <3>1, <3>2
    <2> SUFFICES ASSUME NEW j \in AccountIds, NEW k \in AccountIds,
                        Exists(j)', Exists(k)', j # k
                 PROVE  /\ accounts'[j].opaque = accounts'[k].opaque => accounts'[j].opaque = Nobody
                        /\ accounts'[j].real = accounts'[k].real => accounts'[j].real = Nobody
      BY DEF OneRow
    <2>3. CASE j = n
      BY <1>11, <2>2, <2>3
    <2>4. CASE k = n
      BY <1>11, <2>2, <2>4
    <2>5. CASE j # n /\ k # n
      BY <2>1, <2>5 DEF OneRow
    <2> QED BY <2>3, <2>4, <2>5
  <1>14. CardsOK'
    BY <1>5, <1>8 DEF CardsOK
  <1>15. LogsOK' /\ RequestsOK'
    <2>1. /\ DOMAIN mergeLogs' = LogIds
          /\ \A l \in LogIds : l # q.log => mergeLogs'[l] = mergeLogs[l]
          /\ mergeLogs'[q.log] = [log EXCEPT !.state = "reversed"]
      BY <1>2, <1>3, <1>8 DEF LogsOK
    <2>2. mergeLogs'[q.log].state # "none" /\ MergeRow(mergeLogs'[q.log])
      <3>1. MergeRow([log EXCEPT !.state = "reversed"])
        BY <1>3 DEF MergeRow
      <3>2. [log EXCEPT !.state = "reversed"].state = "reversed"
        BY <1>3 DEF MergeRow
      <3> QED BY <2>1, <3>1, <3>2
    <2>3. LogsOK'
      BY <2>1, <2>2 DEF LogsOK
    <2>4. \A l \in LogIds : mergeLogs[l].state # "none" => mergeLogs'[l].state # "none"
      BY <2>1, <2>2
    <2>5. RequestsOK'
      BY <1>8, <2>4 DEF RequestsOK, RequestOK, SoftIdle
    <2> QED BY <2>3, <2>5
  <1>16. HistoryOK' /\ MergesOK'
    <2>1. HistoryOK'
      BY <1>5, <1>8 DEF HistoryOK
    <2>2. \A x \in Webs :
            /\ history'[x].merges = history[x].merges
            /\ x = w => history'[x].reversals = history[x].reversals + 1
            /\ x # w => history'[x].reversals = history[x].reversals
      BY <1>5, <1>8 DEF HistoryOK
    <2>3. \A x \in Webs : x # w => accounts'[x] = accounts[x]
      BY <1>5, <1>11, WebIds
    <2>4. \A x \in Webs : history[x].merges \in Nat /\ history[x].reversals \in Nat
      BY DEF HistoryOK
    <2> QED BY <2>1, <2>2, <2>3, <2>4 DEF MergesOK
  <1>17. GrantsOK' /\ BonusOK'
    <2>1. BonusesPaid' = BonusesPaid /\ \A x \in Webs : history'[x].bonuses = history[x].bonuses
      BY <1>5, <1>8 DEF HistoryOK, BonusesPaid
    <2>2. ConnectGrants' = ConnectGrants /\ GrantsOK'
      BY <1>8, Untouched DEF ConnectGrants
    <2> QED BY <2>1, <2>2 DEF BonusOK
  <1> QED BY <1>12, <1>13, <1>14, <1>15, <1>16, <1>17

-----------------------------------------------------------------------------
(* Soft accounts: the theorems *)

\* The invariant holds at the start,
LEMMA InitInv ==
  ASSUME SoftInit
  PROVE  SoftInv
  <1>1. PICK left \in [Webs -> Balances] :
          accounts = [i \in AccountIds |->
                       IF i \in Webs THEN NewAccount("full", Nobody, Nobody, left[i]) ELSE NoRow]
    BY DEF SoftInit
  <1>2. \A w \in Webs : left[w] \in Nat
    BY SoftAssumption DEF SoftAssumption
  <1>3. \A w \in Webs : accounts[w] = NewAccount("full", Nobody, Nobody, left[w])
    BY <1>1, WebIds
  <1>4. AccountsOK
    <2>1. \A w \in Webs : accounts[w] \in Row("full")
      <3>1. Nobody \in TwitchIds
        BY DEF TwitchIds
      <3>2. \A n \in Nat : NewAccount("full", Nobody, Nobody, n) \in Row("full")
        BY <3>1 DEF NewAccount, Row
      <3> QED BY <1>2, <1>3, <3>2
    <2>2. \A i \in SoftIds : accounts[i] = NoRow
      BY <1>1, WebIds
    <2> QED BY <1>1, <2>1, <2>2 DEF AccountsOK
  <1>5. OneRow
    <2>1. \A i \in AccountIds : Exists(i) => accounts[i].opaque = Nobody /\ accounts[i].real = Nobody
      BY <1>1 DEF Exists, NewAccount, NoRow
    <2> QED BY <2>1 DEF OneRow
  <1>6. CardsOK /\ LogsOK /\ RequestsOK /\ HistoryOK
    BY SoftAssumption, IdleOK
       DEF SoftInit, CardsOK, LogsOK, RequestsOK, HistoryOK, NoLog, SoftAssumption
  <1>7. GrantsOK
    BY FS_EmptySet DEF SoftInit, GrantsOK
  <1>8. BonusOK
    <2>1. ConnectGrants = {} /\ Cardinality(ConnectGrants) = 0
      BY FS_EmptySet DEF SoftInit, ConnectGrants
    <2>2. PICK paid : paid = BonusesPaid
      OBVIOUS
    <2>3. \A w \in Webs : paid[w] = 0 /\ history[w].bonuses = 0
      BY <2>2 DEF SoftInit, BonusesPaid
    <2>4. IsFiniteSet(Webs)
      BY IdsFinite, SoftAssumption DEF SoftAssumption
    <2>5. Total(paid, Webs) = 0
      BY <2>3, <2>4, TotalZero
    <2> QED BY <2>1, <2>2, <2>3, <2>5 DEF BonusOK
  <1>9. MergesOK
    BY DEF SoftInit, MergesOK
  <1> QED BY <1>4, <1>5, <1>6, <1>7, <1>8, <1>9 DEF SoftInv

\* and after each step.
LEMMA NextInv ==
  ASSUME SoftInv, SoftNext
  PROVE  SoftInv'
  <1>1. CASE PanelStep
    BY <1>1, LeaveWebStep, VisitStep, JoinNewStep DEF PanelStep
  <1>2. ASSUME NEW r \in SoftClients, NEW w \in Webs, WebStep(r, w)
        PROVE  SoftInv'
    BY <1>2, DisconnectStep, BeginMergeStep, BeginConnectStep DEF WebStep
  <1>3. CASE \E i \in AccountIds : DrawCard(i)
    BY <1>3, DrawStep
  <1>4. CASE \E l \in LogIds : DropLog(l)
    BY <1>4, DropLogStep
  <1>5. ASSUME NEW r \in SoftClients, \E i \in AccountIds : BeginDelete(r, i)
        PROVE  SoftInv'
    BY <1>5, BeginDeleteStep
  <1>6. ASSUME NEW r \in SoftClients, \E l \in LogIds : BeginReverse(r, l)
        PROVE  SoftInv'
    BY <1>6, BeginReverseStep
  <1>7. ASSUME NEW r \in SoftClients,
               CommitDelete(r) \/ CommitConnect(r) \/ CommitMerge(r) \/ CommitReverse(r)
        PROVE  SoftInv'
    BY <1>7, CommitDeleteStep, CommitConnectStep, CommitMergeStep, CommitReverseStep
  <1> QED BY <1>1, <1>2, <1>3, <1>4, <1>5, <1>6, <1>7, ResetStep DEF SoftNext

\* The invariant holds whatever viewers, website accounts and admins do.
THEOREM SoftInvariant == SoftSpec => []SoftInv
  <1>1. SoftInit => SoftInv
    BY InitInv
  <1>2. SoftInv /\ [SoftNext]_softVars => SoftInv'
    <2> SUFFICES ASSUME SoftInv, [SoftNext]_softVars PROVE SoftInv'
      OBVIOUS
    <2>1. CASE UNCHANGED softVars
      <3>1. UNCHANGED <<accounts, cardOwner, grants, mergeLogs, softReq, draws, history>>
        BY <2>1 DEF softVars
      <3> QED BY <3>1, Untouched DEF SoftInv
    <2> QED BY <2>1, NextInv
  <1> QED BY <1>1, <1>2, PTL DEF SoftSpec

\* Balances never go below zero, and website accounts and viewer accounts never swap
\* ids, although ids of deleted accounts are handed out again.
THEOREM SoftTyped == SoftSpec => []SoftTypeOK
  <1>1. SoftInv => SoftTypeOK
    <2> SUFFICES ASSUME SoftInv PROVE SoftTypeOK
      OBVIOUS
    <2>1. ASSUME NEW i \in AccountIds, Exists(i)
          PROVE  /\ accounts[i].kind = (IF i \in Webs THEN "full" ELSE "soft")
                 /\ {accounts[i].opaque, accounts[i].real} \subseteq Viewers \cup {Nobody}
                 /\ accounts[i].tokens \in Nat /\ accounts[i].merged \in BOOLEAN
                 /\ accounts[i].pending \in AccountIds \cup {0}
      <3>1. CASE i \in Webs
        <4>1. accounts[i] \in Row("full")
          BY <3>1 DEF SoftInv, AccountsOK
        <4> QED BY <3>1, <4>1 DEF Row, TwitchIds, SoftIds
      <3>2. CASE i \notin Webs
        <4>1. accounts[i] \in Row("soft")
          BY <2>1, <3>2, RowColumns DEF SoftInv, SoftIds
        <4> QED BY <3>2, <4>1 DEF Row, TwitchIds, SoftIds
      <3> QED BY <3>1, <3>2
    <2>2. \A g \in grants : g.viewer \in Viewers /\ g.user \in AccountIds
      BY DEF SoftInv, GrantsOK
    <2> QED BY <2>1, <2>2 DEF SoftTypeOK, SoftInv, CardsOK
  <1> QED BY <1>1, SoftInvariant, PTL

\* A website account gets the bonus of Connect Twitch at most once, all of them together
\* get no more bonuses than there are Twitch accounts, and a Twitch account is granted a
\* starter once, whatever is connected, disconnected and deleted at the same time.
THEOREM BonusOnceHolds == SoftSpec => []BonusOnce
  <1>1. SoftInv => BonusOnce
    <2> SUFFICES ASSUME SoftInv PROVE BonusOnce
      OBVIOUS
    <2>1. Cardinality(ConnectGrants) <= Cardinality(Viewers)
      <3> DEFINE viewer == [g \in ConnectGrants |-> g.viewer]
      <3>1. viewer \in [ConnectGrants -> Viewers]
        BY DEF SoftInv, GrantsOK, ConnectGrants
      <3>2. \A g, h \in ConnectGrants : viewer[g] = viewer[h] => g = h
        BY DEF SoftInv, GrantsOK, ConnectGrants
      <3> HIDE DEF viewer
      <3>3. viewer \in Injection(ConnectGrants, Viewers)
        BY <3>1, <3>2 DEF Injection, IsInjective
      <3> QED BY <3>3, FS_Injection, SoftAssumption DEF SoftAssumption
    <2>2. MapThenSumSet(LAMBDA w : BonusesPaid[w], Webs) = Total(BonusesPaid, Webs)
      BY DEF Total
    <2>3. Total(BonusesPaid, Webs) <= Cardinality(Viewers)
      BY <2>1 DEF SoftInv, BonusOK
    <2>4. \A w \in Webs : history[w].bonuses <= 1
      BY DEF SoftInv, BonusOK
    <2>5. \A g, h \in grants : g.viewer = h.viewer => g = h
      BY DEF SoftInv, GrantsOK
    <2>6. MapThenSumSet(LAMBDA w : BonusesPaid[w], Webs) <= Cardinality(Viewers)
      BY <2>2, <2>3
    <2> QED BY <2>4, <2>5, <2>6 DEF BonusOnce
  <1> QED BY <1>1, SoftInvariant, PTL

\* A Twitch id, of the panel or of the sign-in, is never in two rows, however requests
\* that connect, merge, reverse and delete overlap.
THEOREM OneAccountPerViewerHolds == SoftSpec => []OneAccountPerViewer
  <1>1. ASSUME NEW S, \A x, y \in S : x = y
        PROVE  Cardinality(S) <= 1
    <2>1. CASE S = {}
      BY <2>1, FS_EmptySet
    <2>2. CASE S # {}
      <3>1. PICK x : S = {x}
        BY <1>1, <2>2
      <3> QED BY <3>1, FS_Singleton
    <2> QED BY <2>1, <2>2
  <1>2. SoftInv => OneAccountPerViewer
    <2> SUFFICES ASSUME SoftInv, NEW v \in Viewers
                 PROVE  Cardinality(ByOpaque(v)) <= 1 /\ Cardinality(ByReal(v)) <= 1
      BY DEF OneAccountPerViewer
    <2>1. \A i, j \in ByOpaque(v) : i = j
      BY DEF SoftInv, OneRow, ByOpaque
    <2>2. \A i, j \in ByReal(v) : i = j
      BY DEF SoftInv, OneRow, ByReal
    <2> QED BY <1>1, <2>1, <2>2
  <1> QED BY <1>2, SoftInvariant, PTL

\* A website account merges once for every reversal and once more, and a reversal that
\* follows at once gives both accounts their balance back.
THEOREM MergeSoundHolds == SoftSpec => []MergeSound
  <1>1. SoftInv => OneMerge
    BY DEF SoftInv, MergesOK, OneMerge
  <1>2. SoftInv => MergeRoundTrip
    <2> SUFFICES ASSUME SoftInv, NEW l \in LogIds, mergeLogs[l].state # "none"
                 PROVE  LET row == mergeLogs[l]
                            after == row.before + row.moved - row.fromWeb
                        IN /\ after - Taken(after, row.moved) + row.fromWeb = row.before
                           /\ Max({row.moved, row.tokens}) = row.tokens
      BY DEF MergeRoundTrip
    <2>1. PICK row : row = mergeLogs[l]
      OBVIOUS
    <2>2. /\ row.before \in Nat /\ row.moved \in Nat /\ row.fromWeb \in Nat /\ row.tokens \in Nat
          /\ row.moved <= row.tokens /\ row.fromWeb <= row.before
      BY <2>1 DEF SoftInv, LogsOK, MergeRow
    <2>3. PICK after : after = row.before + row.moved - row.fromWeb
      OBVIOUS
    <2>4. after \in Nat /\ row.moved <= after
      BY <2>2, <2>3
    <2>5. Taken(after, row.moved) = row.moved
      BY <2>2, <2>4, TakenIs
    <2>6. after - Taken(after, row.moved) + row.fromWeb = row.before
      BY <2>2, <2>3, <2>4, <2>5
    <2>7. Max({row.moved, row.tokens}) = row.tokens
      BY <2>2, MaxOfTwo
    <2> QED BY <2>1, <2>3, <2>6, <2>7
  <1> QED BY <1>1, <1>2, SoftInvariant, PTL DEF MergeSound

-----------------------------------------------------------------------------
(* The MVP of a match: the inductive invariant *)

\* What an ingest has read, by how far it is.
IngestOK ==
  \/ ingest = Idle
  \/ /\ ingest.at \in {"stored", "mvp", "bonus", "points", "computed", "live"}
     /\ ingest.path \in {"store", "refresh"}
     /\ ingest.at \in {"mvp", "points"} => ingest.player \in Players \cup {None}
     /\ ingest.at = "bonus" => ingest.player \in Players
     /\ ingest.at = "computed" => ingest.rows \in [Players -> StatRows]
     /\ ingest.at = "live" => ingest.path = "store"

ConfirmationsOK ==
  req \in [Clients ->
    {NoRequest}
     \cup [op : {"twitch"}, channel : Channels, player : Players, provisional : BOOLEAN,
           previous : Players \cup {None}]
     \cup [op : {"admin"}, player : Players, provisional : {FALSE},
           previous : Players \cup {None}]]

\* A match is stored with its rows and keeps rows.
StoredOK == stored <=> Rows # {}

\* A match with rows is on the live list only while its ingest is to take it off, or
\* after that ingest failed.
LiveOK ==
  (live /\ Rows # {}) =>
    "live" \in torn \/ (ingest.at # "idle" /\ ingest.path = "store")

\* The MVP of twitch_mvp has its bonus.
FlagSet == (~mvp.missed /\ mvp.player \in Rows) => stat[mvp.player].mvp

\* From the moment the ingest has read the MVP, either that is still the MVP and gets
\* the bonus, or a later confirmation has given the bonus itself.
FlagsOK ==
  /\ AtRest => FlagSet
  /\ ingest.at \in {"mvp", "bonus"} => FlagSet \/ ingest.player = mvp.player
  /\ ingest.at \in {"points", "computed", "live"} => FlagSet

SamePayloads(rows, others) == \A p \in Players : Payload(rows[p]) = Payload(others[p])

\* Points are computed from the rows the ingest stored, and only the next ingest
\* replaces their payload.
PointsOK ==
  /\ AtRest \/ ingest.at = "live" => SamePayloads(card, stat)
  /\ ingest.at = "computed" => SamePayloads(ingest.rows, stat)

MatchInv ==
  /\ TypeOK /\ IngestOK /\ ConfirmationsOK /\ StoredOK
  /\ LiveOK /\ FlagsOK /\ PointsOK /\ DropPaidOnce

-----------------------------------------------------------------------------
(* The MVP of a match: the operators *)

\* A row is not None.
LEMMA RowFields ==
  ASSUME NEW row \in StatRows, row # None
  PROVE  row.payload \in 0..MaxPayload /\ row.mvp \in BOOLEAN
  BY DEF StatRows

\* Setting or clearing a bonus leaves every row where it is, with its payload, and
\* the other rows with their flag.
LEMMA SetBonusFacts ==
  ASSUME NEW rows \in [Players -> StatRows], NEW p, NEW on \in BOOLEAN
  PROVE  /\ SetBonus(rows, p, on) \in [Players -> StatRows]
         /\ \A q \in Players : SetBonus(rows, p, on)[q] = None <=> rows[q] = None
         /\ SamePayloads(SetBonus(rows, p, on), rows)
         /\ p \in Players /\ rows[p] # None => SetBonus(rows, p, on)[p].mvp = on
  <1> DEFINE new == SetBonus(rows, p, on)
  <1>1. ASSUME NEW q \in Players
        PROVE  /\ new[q] \in StatRows
               /\ new[q] = None <=> rows[q] = None
               /\ Payload(new[q]) = Payload(rows[q])
               /\ q = p /\ rows[q] # None => new[q].mvp = on
    <2>1. CASE q = p /\ rows[q] # None
      <3>1. rows[q] \in [payload : 0..MaxPayload, mvp : BOOLEAN]
        BY <2>1 DEF StatRows
      <3>2. new[q] = [rows[q] EXCEPT !.mvp = on]
        BY <2>1 DEF SetBonus
      <3>3. new[q] \in [payload : 0..MaxPayload, mvp : BOOLEAN]
            /\ new[q].mvp = on /\ new[q].payload = rows[q].payload
        BY <3>1, <3>2
      <3>4. new[q] # None
        <4>1. new[q] \in [payload : Nat, mvp : BOOLEAN]
          BY <3>3
        <4> QED BY <4>1, TwitchMVPAssumption DEF TwitchMVPAssumption
      <3> QED BY <2>1, <3>3, <3>4 DEF StatRows, Payload
    <2>2. CASE ~(q = p /\ rows[q] # None)
      BY <2>2 DEF SetBonus
    <2> QED BY <2>1, <2>2
  <1>2. new \in [Players -> StatRows]
    BY <1>1 DEF SetBonus
  <1> HIDE DEF new
  <1> QED BY <1>1, <1>2 DEF SamePayloads, new

\* Crowning a player keeps the rows and their stats, and sets the flag of that player.
LEMMA CrownFacts ==
  ASSUME stat \in [Players -> StatRows], NEW previous, NEW p \in Players
  PROVE  /\ Crown(previous, p) \in [Players -> StatRows]
         /\ \A q \in Players : Crown(previous, p)[q] = None <=> stat[q] = None
         /\ SamePayloads(Crown(previous, p), stat)
         /\ stat[p] # None => Crown(previous, p)[p].mvp
  <1> DEFINE rows == IF previous = p THEN stat ELSE SetBonus(stat, previous, FALSE)
  <1>1. /\ rows \in [Players -> StatRows]
        /\ \A q \in Players : rows[q] = None <=> stat[q] = None
        /\ SamePayloads(rows, stat)
    <2>1. CASE previous = p
      BY <2>1 DEF SamePayloads
    <2>2. CASE previous # p
      <3>1. /\ SetBonus(stat, previous, FALSE) \in [Players -> StatRows]
            /\ \A q \in Players : SetBonus(stat, previous, FALSE)[q] = None <=> stat[q] = None
            /\ SamePayloads(SetBonus(stat, previous, FALSE), stat)
            /\ previous \in Players /\ stat[previous] # None
                 => SetBonus(stat, previous, FALSE)[previous].mvp = FALSE
        <4>1. stat \in [Players -> StatRows]
          OBVIOUS
        <4> QED BY <4>1, SetBonusFacts, Zenon
      <3> QED BY <2>2, <3>1
    <2> QED BY <2>1, <2>2
  <1>2. Crown(previous, p) = SetBonus(rows, p, TRUE)
    BY DEF Crown
  <1> HIDE DEF rows
  <1>3. /\ SetBonus(rows, p, TRUE) \in [Players -> StatRows]
        /\ \A q \in Players : SetBonus(rows, p, TRUE)[q] = None <=> rows[q] = None
        /\ SamePayloads(SetBonus(rows, p, TRUE), rows)
        /\ rows[p] # None => SetBonus(rows, p, TRUE)[p].mvp
    <2>1. rows \in [Players -> StatRows]
      BY <1>1
    <2>2. /\ SetBonus(rows, p, TRUE) \in [Players -> StatRows]
          /\ \A q \in Players : SetBonus(rows, p, TRUE)[q] = None <=> rows[q] = None
          /\ SamePayloads(SetBonus(rows, p, TRUE), rows)
          /\ p \in Players /\ rows[p] # None => SetBonus(rows, p, TRUE)[p].mvp = TRUE
      BY <2>1, SetBonusFacts, Zenon
    <2> QED BY <2>2
  <1> QED BY <1>1, <1>2, <1>3 DEF SamePayloads

\* The rows of a line-up are those of its players.
LEMMA LineupFacts ==
  ASSUME NEW S \in SUBSET Players, S # {}, NEW n \in 0..MaxPayload
  PROVE  /\ Lineup(S, n) \in [Players -> StatRows]
         /\ \E p \in Players : Lineup(S, n)[p] # None
  <1>1. [payload |-> n, mvp |-> FALSE] \in [payload : 0..MaxPayload, mvp : BOOLEAN]
    OBVIOUS
  <1>2. [payload |-> n, mvp |-> FALSE] # None
    <2>1. [payload |-> n, mvp |-> FALSE] \in [payload : Nat, mvp : BOOLEAN]
      OBVIOUS
    <2> QED BY <2>1, TwitchMVPAssumption DEF TwitchMVPAssumption
  <1> QED BY <1>1, <1>2 DEF Lineup, StatRows

\* What a confirmation holds.
LEMMA ConfirmFields ==
  ASSUME ConfirmationsOK, NEW r \in Clients, req[r].op \in {"twitch", "admin"}
  PROVE  /\ req[r].player \in Players /\ req[r].provisional \in BOOLEAN
         /\ req[r].previous \in Players \cup {None}
         /\ req[r].op = "twitch" => req[r].channel \in Channels
  <1>1. \/ req[r] = NoRequest
        \/ req[r] \in [op : {"twitch"}, channel : Channels, player : Players,
                       provisional : BOOLEAN, previous : Players \cup {None}]
        \/ req[r] \in [op : {"admin"}, player : Players, provisional : {FALSE},
                       previous : Players \cup {None}]
    BY DEF ConfirmationsOK
  <1>2. req[r] # NoRequest
    BY DEF NoRequest
  <1> QED BY <1>1, <1>2

\* What confirming an MVP writes: the rows keep their payloads, the points are those
\* of the rows or untouched, and the new MVP has the bonus unless it has to wait.
LEMMA SetMVPFacts ==
  ASSUME TypeOK, StoredOK, ConfirmationsOK, NEW r \in Clients, req[r].op \in {"twitch", "admin"},
         SetMVP(req[r]), UNCHANGED stored
  PROVE  /\ mvp' \in [player : Players \cup {None}, missed : BOOLEAN]
         /\ stat' \in [Players -> StatRows] /\ card' \in [Players -> StatRows]
         /\ Rows' = Rows /\ SamePayloads(stat', stat)
         /\ UNCHANGED <<stat, card>> \/ card' = stat'
         /\ FlagSet'
  <1> DEFINE q == req[r]
  <1>1. q.player \in Players /\ q.provisional \in BOOLEAN
    BY ConfirmFields
  <1>2. mvp' = [player |-> q.player, missed |-> q.provisional /\ stored]
    BY DEF SetMVP
  <1>3. CASE q.provisional
    <2>1. UNCHANGED <<stat, card>>
      BY <1>3 DEF SetMVP
    <2>2. FlagSet'
      BY <1>2, <1>3, <2>1 DEF FlagSet, StoredOK, Rows
    <2> QED BY <1>1, <1>2, <2>1, <2>2 DEF TypeOK, Rows, SamePayloads
  <1>4. CASE ~q.provisional
    <2>1. stat' = Crown(q.previous, q.player) /\ card' = stat'
      BY <1>4 DEF SetMVP
    <2>2. /\ stat' \in [Players -> StatRows]
          /\ \A p \in Players : stat'[p] = None <=> stat[p] = None
          /\ SamePayloads(stat', stat)
          /\ stat[q.player] # None => stat'[q.player].mvp
      BY <1>1, <2>1, CrownFacts DEF TypeOK
    <2>3. FlagSet'
      BY <1>1, <1>2, <2>2 DEF FlagSet, Rows
    <2> QED BY <1>1, <1>2, <2>1, <2>2, <2>3 DEF TypeOK, Rows
  <1> QED BY <1>1, <1>3, <1>4

\* A drop that is paid pays one token to each winner, once.
LEMMA DropStep ==
  ASSUME TypeOK, DropPaidOnce, NEW ch \in Channels, NEW pool \in SUBSET Watchers,
         TokenDrop(ch, pool)
  PROVE  /\ DropPaidOnce'
         /\ drop' \in [Channels -> 0..DropMax \cup {None}]
         /\ won' \in [Channels -> [Watchers -> Nat]]
  <1>1. CASE UNCHANGED dropVars
    BY <1>1 DEF dropVars, DropPaidOnce, TypeOK
  <1>2. CASE ~(AlreadyDropped(ch) \/ pool = {})
    <2>1. PICK W \in Winners(pool) :
            /\ drop' = [drop EXCEPT ![ch] = Cardinality(W)]
            /\ won' = [won EXCEPT ![ch] = [v \in Watchers |-> won[ch][v] + (IF v \in W THEN 1 ELSE 0)]]
      BY <1>2 DEF TokenDrop
    <2>2. IsFiniteSet(pool) /\ Cardinality(pool) \in Nat
      BY FS_Subset, FS_CardinalityType, TwitchMVPAssumption DEF TwitchMVPAssumption
    <2>3. W \in SUBSET Watchers /\ Cardinality(W) \in 0..DropMax
      BY <2>2, TwitchMVPAssumption DEF Winners, TwitchMVPAssumption
    <2>4. \A v \in Watchers : won[ch][v] = 0
      <3>1. {v \in Watchers : won[ch][v] = 1} \in SUBSET Watchers
        OBVIOUS
      <3>2. Cardinality({v \in Watchers : won[ch][v] = 1}) = 0
        BY <1>2 DEF DropPaidOnce, AlreadyDropped
      <3>3. {v \in Watchers : won[ch][v] = 1} = {}
        BY <3>1, <3>2, FS_Subset, FS_EmptySet, TwitchMVPAssumption DEF TwitchMVPAssumption
      <3>4. \A v \in Watchers : won[ch][v] \in Nat /\ won[ch][v] <= 1 /\ won[ch][v] # 1
        BY <3>3 DEF DropPaidOnce, TypeOK
      <3> QED BY <3>4
    <2>5. won'[ch] = [v \in Watchers |-> IF v \in W THEN 1 ELSE 0]
          /\ \A d \in Channels : d # ch => won'[d] = won[d]
      BY <2>1, <2>4 DEF TypeOK
    <2>6. {v \in Watchers : won'[ch][v] = 1} = W
      BY <2>3, <2>5
    <2>7. drop'[ch] = Cardinality(W) /\ drop'[ch] # None
      BY <2>1, <2>3, TwitchMVPAssumption DEF TypeOK, TwitchMVPAssumption
    <2>8. ASSUME NEW d \in Channels
          PROVE  /\ \A v \in Watchers : won'[d][v] <= 1
                 /\ Cardinality({v \in Watchers : won'[d][v] = 1})
                      = (IF drop'[d] = None THEN 0 ELSE drop'[d])
      <3>1. CASE d = ch
        <4>1. \A v \in Watchers : won'[ch][v] <= 1
          BY <2>5
        <4> QED BY <2>6, <2>7, <3>1, <4>1
      <3>2. CASE d # ch
        <4>1. won'[d] = won[d] /\ drop'[d] = drop[d]
          BY <2>1, <3>2 DEF TypeOK
        <4> QED BY <4>1 DEF DropPaidOnce
      <3> QED BY <3>1, <3>2
    <2>9. /\ drop' \in [Channels -> 0..DropMax \cup {None}]
          /\ won' \in [Channels -> [Watchers -> Nat]]
      <3>1. [v \in Watchers |-> won[ch][v] + (IF v \in W THEN 1 ELSE 0)] \in [Watchers -> Nat]
        BY DEF TypeOK
      <3> QED BY <2>1, <2>3, <3>1 DEF TypeOK
    <2> QED BY <2>8, <2>9 DEF DropPaidOnce
  <1> QED BY <1>1, <1>2 DEF TokenDrop

-----------------------------------------------------------------------------
(* The MVP of a match: every step keeps the invariant *)

\* How far the ingest is.
LEMMA IngestFields ==
  ASSUME IngestOK
  PROVE  /\ ingest = Idle <=> ingest.at = "idle"
         /\ ingest.at \in {"idle", "stored", "mvp", "bonus", "points", "computed", "live"}
         /\ ingest.at # "idle" => ingest.path \in {"store", "refresh"}
  BY DEF IngestOK, Idle

\* What the requests and the drops of a step leave alone stays as it was.
LEMMA StatsUntouched ==
  ASSUME MatchInv
  PROVE  /\ UNCHANGED req => ConfirmationsOK'
         /\ UNCHANGED dropVars => DropPaidOnce'
         /\ UNCHANGED <<stored, stat>> => StoredOK'
  <1>1. UNCHANGED req => ConfirmationsOK'
    BY DEF MatchInv, ConfirmationsOK
  <1>2. UNCHANGED dropVars => DropPaidOnce'
    BY DEF MatchInv, DropPaidOnce, dropVars
  <1>3. UNCHANGED <<stored, stat>> => StoredOK'
    BY DEF MatchInv, StoredOK, Rows
  <1> QED BY <1>1, <1>2, <1>3

\* Any step of the ingest.
LEMMA IngestStep ==
  ASSUME MatchInv, Ingest
  PROVE  MatchInv'
  <1> USE DEF MatchInv
  <1>1. ASSUME NEW S \in (SUBSET Players) \ {{}}, Store(S) PROVE MatchInv'
    <2>1. /\ Lineup(S, 0) \in [Players -> StatRows]
          /\ \E p \in Players : Lineup(S, 0)[p] # None
      <3>1. S \in SUBSET Players /\ S # {} /\ 0 \in 0..MaxPayload
        BY <1>1, TwitchMVPAssumption DEF TwitchMVPAssumption
      <3> QED BY <3>1, LineupFacts
    <2>2. ConfirmationsOK' /\ DropPaidOnce'
      BY <1>1, <2>1, StatsUntouched DEF Store
    <2>3. TypeOK'
      BY <1>1, <2>1, IngestFields DEF Store, matchVars, dropVars, TypeOK, Rows, Failures
    <2>4. IngestOK'
      BY <1>1, <2>1, IngestFields DEF Store, matchVars, dropVars, IngestOK, Idle, TypeOK
    <2>5. StoredOK'
      BY <1>1, <2>1, IngestFields DEF Store, matchVars, dropVars, StoredOK, Rows
    <2>6. LiveOK'
      BY <1>1, <2>1, IngestFields DEF Store, matchVars, dropVars, LiveOK, Rows, Idle
    <2>7. FlagsOK'
      BY <1>1, <2>1, IngestFields
         DEF Store, matchVars, dropVars, FlagsOK, FlagSet, AtRest, Rows, Idle
    <2>8. PointsOK'
      BY <1>1, <2>1, IngestFields
         DEF Store, matchVars, dropVars, PointsOK, SamePayloads, AtRest, Idle
    <2> QED BY <2>2, <2>3, <2>4, <2>5, <2>6, <2>7, <2>8
  <1>2. ASSUME NEW S \in (SUBSET Players) \ {{}}, NEW n \in 1..MaxPayload, Refresh(S, n)
        PROVE  MatchInv'
    <2>1. /\ Lineup(S, n) \in [Players -> StatRows]
          /\ \E p \in Players : Lineup(S, n)[p] # None
      <3>1. S \in SUBSET Players /\ S # {} /\ n \in 0..MaxPayload
        BY <1>2, TwitchMVPAssumption DEF TwitchMVPAssumption
      <3> QED BY <3>1, LineupFacts
    <2>2. ConfirmationsOK' /\ DropPaidOnce'
      BY <1>2, <2>1, StatsUntouched DEF Refresh
    <2>3. TypeOK'
      BY <1>2, <2>1, IngestFields DEF Refresh, matchVars, dropVars, TypeOK, Rows, Failures
    <2>4. IngestOK'
      BY <1>2, <2>1, IngestFields DEF Refresh, matchVars, dropVars, IngestOK, Idle, TypeOK
    <2>5. StoredOK'
      BY <1>2, <2>1, IngestFields DEF Refresh, matchVars, dropVars, StoredOK, Rows
    <2>6. LiveOK'
      BY <1>2, <2>1, IngestFields DEF Refresh, matchVars, dropVars, LiveOK, StoredOK, Idle
    <2>7. FlagsOK'
      BY <1>2, <2>1, IngestFields
         DEF Refresh, matchVars, dropVars, FlagsOK, FlagSet, AtRest, Rows, Idle
    <2>8. PointsOK'
      BY <1>2, <2>1, IngestFields
         DEF Refresh, matchVars, dropVars, PointsOK, SamePayloads, AtRest, Idle
    <2> QED BY <2>2, <2>3, <2>4, <2>5, <2>6, <2>7, <2>8
  <1>3. CASE ReadMVP
    <2>1. ConfirmationsOK' /\ DropPaidOnce'
      BY <1>3, StatsUntouched DEF ReadMVP
    <2>2. TypeOK'
      BY <1>3, IngestFields DEF ReadMVP, matchVars, dropVars, TypeOK, Rows, Failures
    <2>3. IngestOK'
      BY <1>3, IngestFields DEF ReadMVP, matchVars, dropVars, IngestOK, Idle, TypeOK
    <2>4. StoredOK'
      BY <1>3, IngestFields DEF ReadMVP, matchVars, dropVars, StoredOK, Rows
    <2>5. LiveOK'
      BY <1>3, IngestFields DEF ReadMVP, matchVars, dropVars, LiveOK, Rows, Idle
    <2>6. FlagsOK'
      BY <1>3, IngestFields DEF ReadMVP, matchVars, dropVars, FlagsOK, FlagSet, AtRest, Rows, Idle
    <2>7. PointsOK'
      BY <1>3, IngestFields DEF ReadMVP, matchVars, dropVars, PointsOK, SamePayloads, AtRest, Idle
    <2> QED BY <2>1, <2>2, <2>3, <2>4, <2>5, <2>6, <2>7
  <1>4. CASE ReadRow
    <2>1. ConfirmationsOK' /\ DropPaidOnce'
      BY <1>4, StatsUntouched DEF ReadRow
    <2>2. TypeOK'
      BY <1>4, IngestFields DEF ReadRow, matchVars, dropVars, TypeOK, Rows, Failures
    <2>3. IngestOK'
      BY <1>4, IngestFields
         DEF ReadRow, matchVars, dropVars, IngestOK, Idle, TypeOK, NeedsBonus, Rows
    <2>4. StoredOK'
      BY <1>4, IngestFields DEF ReadRow, matchVars, dropVars, StoredOK, Rows
    <2>5. LiveOK'
      BY <1>4, IngestFields DEF ReadRow, matchVars, dropVars, LiveOK, Rows, Idle
    <2>6. FlagsOK'
      <3>1. /\ UNCHANGED <<stat, mvp, torn>> /\ ingest.at = "mvp"
            /\ ingest'.player = ingest.player /\ ingest' # Idle
        BY <1>4 DEF ReadRow, Idle
      <3>2. FlagSet' <=> FlagSet
        BY <3>1 DEF FlagSet, Rows
      <3>3. FlagSet \/ ingest.player = mvp.player
        BY <3>1 DEF FlagsOK
      <3>4. CASE ingest'.at = "bonus"
        BY <3>1, <3>2, <3>3, <3>4 DEF FlagsOK, AtRest
      <3>5. CASE ingest'.at = "points"
        <4>1. ~(ingest.player # None /\ NeedsBonus(ingest.player))
          BY <1>4, <3>5 DEF ReadRow
        <4>2. ingest.player = mvp.player => FlagSet
          BY <4>1, TwitchMVPAssumption DEF TwitchMVPAssumption, FlagSet, NeedsBonus, Rows
        <4> QED BY <3>1, <3>2, <3>3, <3>5, <4>2 DEF FlagsOK, AtRest
      <3> QED BY <1>4, <3>4, <3>5 DEF ReadRow
    <2>7. PointsOK'
      BY <1>4, IngestFields DEF ReadRow, matchVars, dropVars, PointsOK, SamePayloads, AtRest, Idle
    <2> QED BY <2>1, <2>2, <2>3, <2>4, <2>5, <2>6, <2>7
  <1>5. CASE WriteBonus
    <2>1. /\ stat' \in [Players -> StatRows] /\ card' = stat'
          /\ \A q \in Players : stat'[q] = None <=> stat[q] = None
          /\ stat[ingest.player] # None => stat'[ingest.player].mvp
          /\ \A q \in Players : q # ingest.player => stat'[q] = stat[q]
          /\ ingest.player \in Players
      <3>1. ingest.player \in Players /\ stat \in [Players -> StatRows]
        BY <1>5 DEF WriteBonus, IngestOK, TypeOK, Idle
      <3>2. stat' = SetBonus(stat, ingest.player, TRUE) /\ card' = stat'
        BY <1>5 DEF WriteBonus
      <3>3. /\ SetBonus(stat, ingest.player, TRUE) \in [Players -> StatRows]
            /\ \A q \in Players : SetBonus(stat, ingest.player, TRUE)[q] = None <=> stat[q] = None
            /\ SamePayloads(SetBonus(stat, ingest.player, TRUE), stat)
            /\ ingest.player \in Players /\ stat[ingest.player] # None
                 => SetBonus(stat, ingest.player, TRUE)[ingest.player].mvp = TRUE
        BY <3>1, SetBonusFacts, Zenon
      <3>4. \A q \in Players : q # ingest.player => stat'[q] = stat[q]
        BY <3>2 DEF SetBonus
      <3> QED BY <3>1, <3>2, <3>3, <3>4
    <2>2. ConfirmationsOK' /\ DropPaidOnce'
      BY <1>5, <2>1, StatsUntouched DEF WriteBonus, AfterBonus
    <2>3. TypeOK'
      BY <1>5, <2>1, IngestFields
         DEF WriteBonus, AfterBonus, matchVars, dropVars, TypeOK, Rows, Failures
    <2>4. IngestOK'
      BY <1>5, <2>1, IngestFields
         DEF WriteBonus, AfterBonus, matchVars, dropVars, IngestOK, Idle, TypeOK
    <2>5. StoredOK'
      BY <1>5, <2>1, IngestFields DEF WriteBonus, AfterBonus, matchVars, dropVars, StoredOK, Rows
    <2>6. LiveOK'
      BY <1>5, <2>1, IngestFields
         DEF WriteBonus, AfterBonus, matchVars, dropVars, LiveOK, Rows, Idle
    <2>7. FlagsOK'
      BY <1>5, <2>1, IngestFields
         DEF WriteBonus, AfterBonus, matchVars, dropVars, FlagsOK, FlagSet, AtRest, Rows, Idle
    <2>8. PointsOK'
      BY <1>5, <2>1, IngestFields
         DEF WriteBonus, AfterBonus, matchVars, dropVars, PointsOK, SamePayloads, AtRest, Idle
    <2> QED BY <2>2, <2>3, <2>4, <2>5, <2>6, <2>7, <2>8
  <1>6. CASE ComputePoints
    <2>1. ConfirmationsOK' /\ DropPaidOnce'
      BY <1>6, StatsUntouched DEF ComputePoints
    <2>2. TypeOK'
      BY <1>6, IngestFields DEF ComputePoints, matchVars, dropVars, TypeOK, Rows, Failures
    <2>3. IngestOK'
      BY <1>6, IngestFields DEF ComputePoints, matchVars, dropVars, IngestOK, Idle, TypeOK
    <2>4. StoredOK'
      BY <1>6, IngestFields DEF ComputePoints, matchVars, dropVars, StoredOK, Rows
    <2>5. LiveOK'
      BY <1>6, IngestFields DEF ComputePoints, matchVars, dropVars, LiveOK, Rows, Idle
    <2>6. FlagsOK'
      BY <1>6, IngestFields
         DEF ComputePoints, matchVars, dropVars, FlagsOK, FlagSet, AtRest, Rows, Idle
    <2>7. PointsOK'
      BY <1>6, IngestFields
         DEF ComputePoints, matchVars, dropVars, PointsOK, SamePayloads, AtRest, Idle
    <2> QED BY <2>1, <2>2, <2>3, <2>4, <2>5, <2>6, <2>7
  <1>7. CASE WritePoints
    <2>1. ConfirmationsOK' /\ DropPaidOnce'
      BY <1>7, StatsUntouched DEF WritePoints, Upserted, AfterBonus
    <2>2. TypeOK'
      BY <1>7, IngestFields DEF WritePoints, Upserted, AfterBonus, matchVars, dropVars, TypeOK,
         Rows, Failures, IngestOK
    <2>3. IngestOK'
      BY <1>7, IngestFields
         DEF WritePoints, Upserted, AfterBonus, matchVars, dropVars, IngestOK, Idle, TypeOK
    <2>4. StoredOK'
      BY <1>7, IngestFields
         DEF WritePoints, Upserted, AfterBonus, matchVars, dropVars, StoredOK, Rows
    <2>5. LiveOK'
      BY <1>7, IngestFields
         DEF WritePoints, Upserted, AfterBonus, matchVars, dropVars, LiveOK, Rows, Idle
    <2>6. FlagsOK'
      BY <1>7, IngestFields DEF WritePoints, Upserted, AfterBonus, matchVars, dropVars, FlagsOK,
         FlagSet, AtRest, Rows, Idle
    <2>7. PointsOK'
      BY <1>7, IngestFields DEF WritePoints, Upserted, AfterBonus, matchVars, dropVars, PointsOK,
         SamePayloads, AtRest, Idle, Payload
    <2> QED BY <2>1, <2>2, <2>3, <2>4, <2>5, <2>6, <2>7
  <1>8. CASE DeleteLive
    <2>1. ConfirmationsOK' /\ DropPaidOnce'
      BY <1>8, StatsUntouched DEF DeleteLive
    <2>2. TypeOK'
      BY <1>8, IngestFields DEF DeleteLive, matchVars, dropVars, TypeOK, Rows, Failures
    <2>3. IngestOK'
      BY <1>8, IngestFields DEF DeleteLive, matchVars, dropVars, IngestOK, Idle, TypeOK
    <2>4. StoredOK'
      BY <1>8, IngestFields DEF DeleteLive, matchVars, dropVars, StoredOK, Rows
    <2>5. LiveOK'
      BY <1>8, IngestFields DEF DeleteLive, matchVars, dropVars, LiveOK, Rows, Idle
    <2>6. FlagsOK'
      BY <1>8, IngestFields
         DEF DeleteLive, matchVars, dropVars, FlagsOK, FlagSet, AtRest, Rows, Idle
    <2>7. PointsOK'
      BY <1>8, IngestFields
         DEF DeleteLive, matchVars, dropVars, PointsOK, SamePayloads, AtRest, Idle
    <2> QED BY <2>1, <2>2, <2>3, <2>4, <2>5, <2>6, <2>7
  <1>9. CASE FailIngest
    <2>1. ConfirmationsOK' /\ DropPaidOnce'
      BY <1>9, StatsUntouched DEF FailIngest
    <2>2. TypeOK'
      BY <1>9, IngestFields DEF FailIngest, matchVars, dropVars, TypeOK, Rows, Failures
    <2>3. IngestOK'
      BY <1>9, IngestFields DEF FailIngest, matchVars, dropVars, IngestOK, Idle, TypeOK
    <2>4. StoredOK'
      BY <1>9, IngestFields DEF FailIngest, matchVars, dropVars, StoredOK, Rows
    <2>5. LiveOK'
      BY <1>9, IngestFields DEF FailIngest, matchVars, dropVars, LiveOK, Rows, Idle, IngestOK
    <2>6. FlagsOK'
      BY <1>9, IngestFields
         DEF FailIngest, matchVars, dropVars, FlagsOK, FlagSet, AtRest, Rows, Idle
    <2>7. PointsOK'
      BY <1>9, IngestFields
         DEF FailIngest, matchVars, dropVars, PointsOK, SamePayloads, AtRest, Idle
    <2> QED BY <2>1, <2>2, <2>3, <2>4, <2>5, <2>6, <2>7
  <1> QED BY <1>1, <1>2, <1>3, <1>4, <1>5, <1>6, <1>7, <1>8, <1>9 DEF Ingest

\* The live thread lists a match with rows no longer.
LEMMA LivePollStep ==
  ASSUME MatchInv, LivePoll
  PROVE  MatchInv'
  <1> USE DEF MatchInv
  <1>1. ConfirmationsOK' /\ DropPaidOnce' /\ StoredOK'
    BY StatsUntouched DEF LivePoll
  <1>2. TypeOK'
    BY DEF LivePoll, dropVars, TypeOK, Rows, Failures
  <1>3. IngestOK'
    BY DEF LivePoll, IngestOK
  <1>4. LiveOK'
    BY DEF LivePoll, LiveOK, Ingested, Rows
  <1>5. FlagsOK'
    BY DEF LivePoll, FlagsOK, FlagSet, AtRest, Rows
  <1>6. PointsOK'
    BY DEF LivePoll, PointsOK, SamePayloads, AtRest
  <1> QED BY <1>1, <1>2, <1>3, <1>4, <1>5, <1>6

\* Reading for a confirmation changes nothing but the confirmation.
LEMMA BeginStep ==
  ASSUME MatchInv, ConfirmationsOK', UNCHANGED <<matchVars, stat, card, mvp, dropVars, ingest, torn>>
  PROVE  MatchInv'
  <1> USE DEF MatchInv, matchVars, dropVars
  <1>1. DropPaidOnce' /\ StoredOK'
    BY StatsUntouched
  <1>2. TypeOK'
    BY DEF TypeOK, Rows, Failures
  <1>3. IngestOK' /\ LiveOK'
    BY DEF IngestOK, LiveOK, Rows
  <1>4. FlagsOK'
    BY DEF FlagsOK, FlagSet, AtRest, Rows
  <1>5. PointsOK'
    BY DEF PointsOK, SamePayloads, AtRest
  <1> QED BY <1>1, <1>2, <1>3, <1>4, <1>5

\* A confirmation that writes leaves the invariant to the tables it does not touch and
\* to SetMVPFacts.
LEMMA ConfirmStep ==
  ASSUME MatchInv, NEW r \in Clients, req[r].op \in {"twitch", "admin"},
         SetMVP(req[r]), req' = [req EXCEPT ![r] = NoRequest],
         UNCHANGED <<matchVars, ingest, torn>>,
         DropPaidOnce', drop' \in [Channels -> 0..DropMax \cup {None}],
         won' \in [Channels -> [Watchers -> Nat]]
  PROVE  MatchInv'
  <1> USE DEF MatchInv, matchVars
  <1>1. /\ mvp' \in [player : Players \cup {None}, missed : BOOLEAN]
        /\ stat' \in [Players -> StatRows] /\ card' \in [Players -> StatRows]
        /\ Rows' = Rows /\ SamePayloads(stat', stat)
        /\ UNCHANGED <<stat, card>> \/ card' = stat'
        /\ FlagSet'
    BY SetMVPFacts
  <1>2. TypeOK'
    BY <1>1 DEF TypeOK, Failures
  <1>3. ConfirmationsOK'
    BY DEF ConfirmationsOK
  <1>4. IngestOK' /\ StoredOK' /\ LiveOK'
    BY <1>1 DEF IngestOK, StoredOK, LiveOK
  <1>5. FlagsOK'
    BY <1>1 DEF FlagsOK
  <1>6. PointsOK'
    BY <1>1 DEF PointsOK, SamePayloads, AtRest
  <1> QED BY <1>2, <1>3, <1>4, <1>5, <1>6

\* Any step of a confirmation, by a streamer or an admin.
LEMMA RequestStep ==
  ASSUME MatchInv, NEW r \in Clients, Request(r)
  PROVE  MatchInv'
  <1>1. ASSUME NEW ch \in Channels, NEW p \in Players, BeginConfirm(r, ch, p)
        PROVE  MatchInv'
    <2>1. Provisional \in BOOLEAN /\ mvp.player \in Players \cup {None}
      BY DEF Provisional, MatchInv, TypeOK
    <2>2. ConfirmationsOK'
      BY <1>1, <2>1 DEF BeginConfirm, MatchInv, ConfirmationsOK
    <2> QED BY <1>1, <2>2, BeginStep DEF BeginConfirm
  <1>2. ASSUME NEW p \in Players, BeginAdminConfirm(r, p)
        PROVE  MatchInv'
    <2>1. mvp.player \in Players \cup {None}
      BY DEF MatchInv, TypeOK
    <2>2. ConfirmationsOK'
      BY <1>2, <2>1 DEF BeginAdminConfirm, MatchInv, ConfirmationsOK
    <2> QED BY <1>2, <2>2, BeginStep DEF BeginAdminConfirm
  <1>3. CASE Confirm(r)
    <2>1. req[r].channel \in Channels
      BY <1>3, ConfirmFields DEF Confirm, MatchInv
    <2>2. /\ DropPaidOnce'
          /\ drop' \in [Channels -> 0..DropMax \cup {None}]
          /\ won' \in [Channels -> [Watchers -> Nat]]
      <3>1. CASE UNCHANGED dropVars
        BY <3>1, StatsUntouched DEF MatchInv, TypeOK, dropVars
      <3>2. ASSUME NEW pool \in SUBSET Watchers, TokenDrop(req[r].channel, pool)
            PROVE  /\ DropPaidOnce'
                   /\ drop' \in [Channels -> 0..DropMax \cup {None}]
                   /\ won' \in [Channels -> [Watchers -> Nat]]
        BY <2>1, <3>2, DropStep DEF MatchInv
      <3> QED BY <1>3, <3>1, <3>2 DEF Confirm
    <2> QED BY <1>3, <2>2, ConfirmStep DEF Confirm
  <1>4. CASE AdminConfirm(r)
    <2>1. /\ DropPaidOnce'
          /\ drop' \in [Channels -> 0..DropMax \cup {None}]
          /\ won' \in [Channels -> [Watchers -> Nat]]
      BY <1>4, StatsUntouched DEF AdminConfirm, MatchInv, TypeOK, dropVars
    <2> QED BY <1>4, <2>1, ConfirmStep DEF AdminConfirm
  <1> QED BY <1>1, <1>2, <1>3, <1>4 DEF Request

-----------------------------------------------------------------------------
(* The MVP of a match: the theorems *)

\* The invariant holds in every state of the match, its ingest and the confirmations.
THEOREM MatchInvariant == Spec => []MatchInv
  <1>1. Init => MatchInv
    <2> SUFFICES ASSUME Init PROVE MatchInv
      OBVIOUS
    <2>1. Rows = {}
      BY DEF Init, Rows
    <2>2. TypeOK
      BY <2>1 DEF Init, TypeOK, StatRows
    <2>3. IngestOK /\ ConfirmationsOK /\ StoredOK /\ LiveOK
      BY <2>1 DEF Init, IngestOK, ConfirmationsOK, StoredOK, LiveOK
    <2>4. FlagsOK
      BY <2>1 DEF Init, FlagsOK, FlagSet, Idle
    <2>5. PointsOK
      BY DEF Init, PointsOK, SamePayloads, Idle
    <2>6. DropPaidOnce
      <3>1. \A ch \in Channels : {v \in Watchers : won[ch][v] = 1} = {}
        BY DEF Init
      <3>2. Cardinality({}) = 0
        BY FS_EmptySet
      <3> QED BY SMTT(30), <3>1, <3>2 DEF Init, DropPaidOnce
    <2> QED BY <2>2, <2>3, <2>4, <2>5, <2>6 DEF MatchInv
  <1>2. MatchInv /\ [Next]_vars => MatchInv'
    <2> SUFFICES ASSUME MatchInv, [Next]_vars PROVE MatchInv'
      OBVIOUS
    <2>1. CASE UNCHANGED vars
      <3>1. ConfirmationsOK'
        BY <2>1, StatsUntouched DEF vars
      <3> QED BY <2>1, <3>1, BeginStep DEF vars, matchVars, dropVars
    <2> QED BY <2>1, IngestStep, LivePollStep, RequestStep DEF Next
  <1> QED BY <1>1, <1>2, PTL DEF Spec

\* Rows, drops and failures keep their types, a drop never has more winners than
\* _TWITCH_DROP_MAX, and only a stored match has rows.
THEOREM MatchTyped == Spec => []TypeOK
  <1>1. MatchInv => TypeOK
    BY DEF MatchInv
  <1> QED BY <1>1, MatchInvariant, PTL

\* The drop of a channel pays every winner one token and pays once, however many
\* confirmations of the match's MVP overlap.
THEOREM DropPaidOnceHolds == Spec => []DropPaidOnce
  <1>1. MatchInv => DropPaidOnce
    BY DEF MatchInv
  <1> QED BY <1>1, MatchInvariant, PTL

\* Whatever confirmations overlapped its ingests, the MVP of a match at rest has the
\* bonus, unless a provisional confirmation was missed.
THEOREM MVPHasBonusHolds == Spec => []MVPHasBonus
  <1>1. MatchInv => MVPHasBonus
    BY DEF MatchInv, FlagsOK, FlagSet, MVPHasBonus
  <1> QED BY <1>1, MatchInvariant, PTL

\* A match with stats is off the live list once its ingest is over.
THEOREM LiveRowGoneHolds == Spec => []LiveRowGone
  <1>1. MatchInv => LiveRowGone
    BY IngestFields DEF MatchInv, LiveOK, LiveRowGone
  <1> QED BY <1>1, MatchInvariant, PTL

\* Stored card points of a match at rest come from the payload the match has now.
THEOREM CardPointsHold == Spec => []CardPointsOfCurrentStats
  <1>1. MatchInv => CardPointsOfCurrentStats
    BY DEF MatchInv, PointsOK, SamePayloads, CardPointsOfCurrentStats
  <1> QED BY <1>1, MatchInvariant, PTL
=============================================================================
