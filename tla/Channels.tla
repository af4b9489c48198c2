------------------------------ MODULE Channels ------------------------------
(***************************************************************************)
(* Approved streamers and the Caster tag that follows them (backend/       *)
(* twitch_channels.py, caster_tags.py, routers/admin_twitch.py, admin_     *)
(* tags.py, the connect and disconnect of twitch_oauth.py).                *)
(*                                                                         *)
(* The operations that change a channel or a connection run the sync after *)
(* their own write, in the same transaction, inside a savepoint.  The pass *)
(* of the maintenance loop reads first and takes the write lock only for   *)
(* its own changes.  The tag's definition is always there; names, audit    *)
(* entries and Helix are left out.                                         *)
(***************************************************************************)
EXTENDS Integers, Sequences, FiniteSetsExt, SequencesExt

CONSTANTS
  Streamers,    \* website accounts, numbers in the order of their ids
  ChannelIds, NoChannel,
  PendingCap,   \* PENDING_CAP
  EnvSettings,  \* values of TWITCH_MVP_CHANNEL_IDS over the restarts
  MaxSteps      \* bound on operations

ASSUME ChannelsAssumption ==
  /\ Streamers \subseteq Nat /\ IsFiniteSet(Streamers) /\ NoChannel \notin ChannelIds
  /\ PendingCap \in Nat \ {0} /\ MaxSteps \in Nat

VARIABLES
  approval,     \* status of each channel's row, "none" without one
  lastSeen,     \* channels with a row, the longest unseen first
  fromEnv,      \* env_channels
  connected,    \* twitch_account_id of each website account
  tagRows,      \* user_tags of the Caster tag
  inFlight,     \* requests and decisions between their reads and their writes
  syncPass,     \* what the loop's sync has read, or NoSync
  unsynced,     \* history: the last change went past the sync
  nsteps        \* operations so far

channelVars == <<approval, lastSeen, fromEnv, connected, tagRows, inFlight, syncPass,
                 unsynced, nsteps>>

NoSync == [matching |-> {}, rows |-> {}, on |-> FALSE]

-----------------------------------------------------------------------------
(* The sync *)

ApprovedChannels == {c \in ChannelIds : approval[c] = "approved"} \cup fromEnv
Matching == {u \in Streamers : connected[u] \in ApprovedChannels}
TaggedBySync(rows) == {r.user : r \in {s \in rows : s.source = "caster_sync"}}
Tagged(rows) == {r.user : r \in rows}

\* Rows added for users, ids above the highest in use, in the order of the users.
GrantedTo(rows, users, source) ==
  LET top == Max({0} \cup {r.id : r \in rows})
  IN rows \cup {[id |-> top + Cardinality({v \in users : v <= u}), user |-> u,
                 source |-> source] : u \in users}

\* What a sync grants and removes, of the rows it read, applied to the rows there are.
NotRevoked(rows, matching) == {}
Revoked(rows, matching) ==
  {r.id : r \in {s \in rows : s.source = "caster_sync" /\ s.user \notin matching}}
Synced(rows, read, matching) ==
  {r \in GrantedTo(rows, matching \ Tagged(read), "caster_sync") :
     r.id \notin Revoked(read, matching)}

\* sync_safely: a failure rolls back the savepoint and nothing else.
SyncSafely ==
  \/ tagRows' = Synced(tagRows, tagRows, Matching') /\ unsynced' = FALSE
  \/ UNCHANGED tagRows /\ unsynced' = TRUE

\* _run_caster_tag_sync of the maintenance loop; a row another added fails it.
BeginSync ==
  /\ ~syncPass.on
  /\ syncPass' = [matching |-> Matching, rows |-> tagRows, on |-> TRUE]
  /\ UNCHANGED <<approval, lastSeen, fromEnv, connected, tagRows, inFlight, unsynced, nsteps>>
Overtaken == syncPass.matching # Matching \/ syncPass.rows # tagRows
CommitSync ==
  /\ syncPass.on /\ syncPass' = NoSync
  /\ IF (syncPass.matching \ Tagged(syncPass.rows)) \cap Tagged(tagRows) = {}
     THEN /\ tagRows' = Synced(tagRows, syncPass.rows, syncPass.matching)
          /\ unsynced' = Overtaken
     ELSE UNCHANGED <<tagRows, unsynced>>
  /\ UNCHANGED <<approval, lastSeen, fromEnv, connected, inFlight, nsteps>>

-----------------------------------------------------------------------------
(* Requests of broadcasters and decisions of admins *)

Operation == nsteps < MaxSteps /\ nsteps' = nsteps + 1
Arrives(r) ==
  /\ Operation /\ inFlight' = inFlight \cup {r}
  /\ UNCHANGED <<approval, lastSeen, fromEnv, connected, tagRows, syncPass, unsynced>>
Lands(r) ==
  /\ r \in inFlight /\ inFlight' = inFlight \ {r}
  /\ UNCHANGED <<fromEnv, connected, syncPass, nsteps>>
NothingStored == UNCHANGED <<approval, lastSeen, tagRows, unsynced>>

\* The rows that are left, in their order.
RowsLeft(list, gone) ==
  LET left == {i \in DOMAIN list : list[i] \notin gone}
      earlier(i) == Cardinality({j \in left : j < i})
  IN [k \in 1..Cardinality(left) |-> list[CHOOSE i \in left : earlier(i) = k - 1]]

\* record_request up to its flush: a channel that may not set MVPs and has no row; the
\* longest unseen pending rows over the cap go.
PendingRows == RowsLeft(lastSeen, {c \in ChannelIds : approval[c] # "pending"})
OverCap ==
  {PendingRows[k] : k \in 1..Max({0, Len(PendingRows) - (PendingCap - 1)})}
BeginRequest(c) ==
  /\ c \notin ApprovedChannels /\ approval[c] = "none"
  /\ Arrives([op |-> "request", channel |-> c, drop |-> OverCap])

\* Deleted by primary key, whatever became of them; a row there already fails it all.
CommitRequest(r) ==
  /\ r.op = "request" /\ Lands(r)
  /\ IF approval[r.channel] # "none" THEN NothingStored
     ELSE /\ approval' = [c \in ChannelIds |->
               CASE c = r.channel -> "pending"
                 [] c \in r.drop -> "none"
                 [] OTHER -> approval[c]]
          /\ lastSeen' = Append(RowsLeft(lastSeen, r.drop), r.channel)
          /\ unsynced' = (unsynced \/ \E c \in r.drop : approval[c] = "approved")
          /\ UNCHANGED tagRows

\* A row of any status is only seen again.
SeenAgain(c) ==
  /\ Operation /\ c \notin ApprovedChannels /\ approval[c] # "none"
  /\ lastSeen' = Append(RowsLeft(lastSeen, {c}), c)
  /\ UNCHANGED <<approval, fromEnv, connected, tagRows, inFlight, syncPass, unsynced>>

\* _ACTIONS
AppliesTo == [approve |-> {"pending", "rejected", "approved"}, reject |-> {"pending"},
              remove |-> {"approved"}]
NewStatusOf(action) == IF action = "approve" THEN "approved" ELSE "rejected"

BeginDecide(c, action) ==
  /\ approval[c] \in AppliesTo[action]
  /\ action # "approve" => c \notin fromEnv
  /\ Arrives([op |-> "decide", channel |-> c, action |-> action, saw |-> approval[c]])

\* _decide: the status is written if it differs from the one read; a row that is gone
\* fails the request.
CommitDecide(r) ==
  /\ r.op = "decide" /\ Lands(r)
  /\ IF approval[r.channel] = "none" THEN NothingStored
     ELSE /\ approval' = IF NewStatusOf(r.action) = r.saw THEN approval
                         ELSE [approval EXCEPT ![r.channel] = NewStatusOf(r.action)]
          /\ UNCHANGED lastSeen /\ SyncSafely

-----------------------------------------------------------------------------
(* Accounts, tags given by hand, and restarts *)

\* connect_account; disconnect, or the reversal of a merge.
SetConnected(u, c) ==
  /\ Operation /\ connected' = [connected EXCEPT ![u] = c]
  /\ UNCHANGED <<approval, lastSeen, fromEnv, inFlight, syncPass>> /\ SyncSafely
ConnectChannel(u, c) ==
  connected[u] = NoChannel /\ (\A v \in Streamers : connected[v] # c) /\ SetConnected(u, c)
DisconnectChannel(u) == connected[u] # NoChannel /\ SetConnected(u, NoChannel)

\* grant_tag and revoke_tag; a synced tag is not revoked by hand (409).
GrantTag(u) ==
  /\ Operation /\ u \notin Tagged(tagRows)
  /\ tagRows' = GrantedTo(tagRows, {u}, "admin")
  /\ UNCHANGED <<approval, lastSeen, fromEnv, connected, inFlight, syncPass, unsynced>>
RevokeTag(r) ==
  /\ Operation /\ r.source # "caster_sync"
  /\ tagRows' = tagRows \ {r} /\ unsynced' = (unsynced \/ r.user \in Matching)
  /\ UNCHANGED <<approval, lastSeen, fromEnv, connected, inFlight, syncPass>>

\* The settings may change; the start syncs before the program serves.
RestartWith(env) ==
  /\ Operation /\ fromEnv' = env /\ inFlight' = {} /\ syncPass' = NoSync
  /\ UNCHANGED <<approval, lastSeen, connected>> /\ SyncSafely

ChannelsInit ==
  /\ approval = [c \in ChannelIds |-> "none"] /\ lastSeen = <<>> /\ fromEnv = {}
  /\ connected = [u \in Streamers |-> NoChannel] /\ tagRows = {} /\ inFlight = {}
  /\ syncPass = NoSync /\ unsynced = FALSE /\ nsteps = 0

ChannelsNext ==
  \/ BeginSync \/ CommitSync
  \/ \E c \in ChannelIds :
       \/ BeginRequest(c) \/ SeenAgain(c)
       \/ \E action \in DOMAIN AppliesTo : BeginDecide(c, action)
       \/ \E u \in Streamers : ConnectChannel(u, c)
  \/ \E r \in inFlight : CommitRequest(r) \/ CommitDecide(r)
  \/ \E u \in Streamers : DisconnectChannel(u) \/ GrantTag(u)
  \/ \E r \in tagRows : RevokeTag(r)
  \/ \E env \in EnvSettings : RestartWith(env)

ChannelsSpec == ChannelsInit /\ [][ChannelsNext]_channelVars

-----------------------------------------------------------------------------
(* Properties *)

ChannelsTypeOK ==
  /\ approval \in [ChannelIds -> {"none", "pending", "approved", "rejected"}]
  /\ IsInjective(lastSeen)
  /\ ToSet(lastSeen) = {c \in ChannelIds : approval[c] # "none"}
  /\ \A r, s \in tagRows : (r.id = s.id \/ r.user = s.user) => r = s

\* Whoever decides, connects or disconnects at the same time, the accounts with a
\* synced tag are connected to an approved channel and every such account has the tag,
\* unless a sync failed, a pass of the loop was overtaken, a request dropped a channel
\* that had just been approved, or an admin took back a tag; until the next sync.
TagsFollowChannels ==
  ~unsynced =>
    /\ Matching \subseteq Tagged(tagRows)
    /\ \A r \in tagRows : r.source = "caster_sync" => r.user \in Matching
=============================================================================
