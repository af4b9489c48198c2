# Kana Cards (FantasyLeague) in TLA+

A formal model of the fantasy-league server under `src/backend`: TLA+ modules, the TLC
configurations that check them on small instances, and TLAPS proofs that hold for every
number of accounts, cards and requests. Paths below are relative to `src/backend` unless
they start with `src/`.

## 1. The system

A FastAPI process over one SQLite database, with a web page, a Twitch panel and a few
background threads. Accounts spend tokens on cards of Dota players; up to five cards are
the roster; a week's lock copies the rosters; matches pulled from OpenDota give the cards
points.

| Component | State | Operations | Hard behaviours | What makes it correct |
|---|---|---|---|---|
| Cards and rosters (`routers/cards.py`, `card_utils.py`) | `cards`: owner, player, `is_active`, `slot_index` | draw, booster, reroll, activate, deactivate, swap, reorder, save the layout | every check but the last is made before the write lock; saves from stale pages | at most five active cards, one per player; no save undoes another change |
| Draw algorithm (`card_draw.py`) | none | pick a player, roll a rarity | the owned players are read without a lock | no duplicate while a player is missing |
| Token balances (`database.py`) | `users.tokens`, `audit_logs` | `spend_tokens`, `credit_tokens` | balances checked long before they are spent; a draw that cannot pay is undone | never negative; every balance explained by the log |
| Player pool (`routers/admin_players.py`) | `players.is_active` | add, bulk add, remove with a refund | a removal while a draw has picked the player | a refund per removal; removed players off the roster |
| Week lock (`weeks.py`, loop in `main.py`) | `weeks`, `weekly_roster_entries` | `auto_lock_weeks`, summaries | torn reads, failed passes, a week edited or deleted meanwhile | locked once, immutable, one grant with a lock |
| Week administration (`routers/admin_weeks.py`) | `weeks` | create, edit, delete, rerun | checks before the write lock, reused row ids | disjoint ranges; locked weeks read-only |
| Bench substitutions (`weeks.py`) | flags of the roster entries, `substitutions_at` | due run, reruns after overrides and late matches | matches change while a run computes | the flags agree with the matches |
| Stored card points (`card_points.py`) | `card_match_points`, fingerprint | refresh, delete, rebuild | rebuild computes before it locks | a stored row equals the computed one |
| Ingest and parse retry (`ingest.py`, `routers/admin_ingest.py`, `opendota_client.py`) | matches, stats, live rows | store, refresh, retry, override | two commits per match, crash between them | a match is complete after a poll |
| Twitch MVP and drops (`twitch.py`) | `twitch_mvp`, `twitch_token_drops`, presence | `set_mvp`, drop, heartbeat | confirmations at once, confirmation against ingest | one bonus per match, on the chosen player; one drop per channel and match |
| Twitch panel (`twitch.py`) | none of its own | join, draw, roster actions, leave | the week check before the action; two commits for activate with a slot | as for cards and rosters |
| Soft accounts and merge (`soft_accounts.py`) | `users`, `twitch_merge_logs`, starter grants | join, merge, reverse, delete, purge | join twice, draw against delete, reversal after play | cards and tokens conserved; one starter grant per viewer |
| Twitch and Steam sign-in (`twitch_oauth.py`, `steam_openid.py`) | attempts, nonces, links | start, callback, connect, disconnect | answers used twice, two accounts for one identity | an identity belongs to one account |
| Own player card (`own_card.py`) | grants | grant once | two page loads at once | one grant per account |
| Promo codes, token events (`routers/admin_users.py`, `routers/admin_token_events.py`, `routers/auth.py`) | codes, redemptions, claims | redeem, claim, delete | last use, deletion while redeeming | cap kept, one claim each |
| Sessions, login, reset (`sessions.py`, `routers/auth.py`, `deps.py`) | sessions, lockouts, reset tokens | login, lockout, reset, revoke | one link used twice, revocation against use | revoked sessions stay revoked |
| Admin rights (`routers/admin_users.py`) | `users.is_admin` | toggle | mutual demotion | an admin remains |
| Season lifecycle (`routers/admin_season.py`, `accolades.py`) | all tables | end, reset | one large transaction | archive before reset |
| Finals predictions (`finals.py`) | bracket, predictions | refresh, save, pause, close, set result | `locked_at` read, compared and written by every refresh | nothing saved after the lock counts |
| Leaderboards, weekly report (`routers/leaderboard.py`, `routers/weekly_summary.py`) | reveals | queries | one rule in five queries | the same weeks give the same points everywhere |
| Schedule, records, caches (`schedule.py`, `team_insights.py`, `player_insights.py`) | caches in memory | fetch, claim, group, tally | computed while the tables change | a match in one series; no old answer past the lifetime |
| Tournament site (`toornament.py`) | sync log, the site | push a score | two syncs and an organiser at once | the site shows the matches' result |
| Live matches (`steam_live.py`, loops in `main.py`) | `live_matches`, timings | poll, pass, purge | polls, passes, admins overlap | live is what the last check saw; an offer stays |
| Manual matches (`manual_match.py`, `routers/admin_matches.py`) | matches and their source | add, replace, refetch, exclude | judged by a row read before the lock | nothing is replaced unconfirmed |
| Channels, Caster tag (`twitch_channels.py`, `caster_tags.py`) | channels, tags | request, decide, connect, sync | the loop's pass reads before its lock | the tag follows the approved channels |
| Profiles (`enrich.py`) | ranks | batches | players that never answer | everyone else gets a turn |
| Past seasons (`scripts/season_placements.py`, `backfill_played.py`) | cache files, titles | derive, review, apply, rerun | budget, stops, incomplete results | a season whole or not at all; the true places |
| Migrations (`migrate.py`) | every table | the runner at a start | stops and errors anywhere | repaired once, paid once |
| Images, notifications, demo mode, scoring arithmetic, rate limits, web page, extension | mostly derived or external | drawing, lookups | little | not modelled; reasons in `PROJECT.json` |

Components interact through the database: the panel and the own-card grant call the
handlers and helpers of `routers/cards.py`; the lock reads `cards` and credits all
accounts; ingest, overrides and draws refresh `card_match_points`; overrides and late
matches rerun substitutions.

### Transactions: what is one step

Requests run in a thread pool, each with a session of its own (`database.py:38`), next to
the daemon threads that `main.py:401` starts. `main.py:386` refuses a second process. The
SQLite driver opens a transaction at the first write only. So:

* each SELECT before the first write of a request sees a committed state of its own;
* from its first write to its commit or rollback a request holds SQLite's only write lock:
  what it does there is one atomic step, and what it reads there is current;
* the ORM writes the attributes that differ from what it read, flushes pending changes
  before a query (which may take the lock earlier), and fails with `StaleDataError` when
  a row that it updates is gone.

A handler becomes a `Begin` action (the unlocked checks; what it read is kept in a `req`
record), as many `Read` actions as it has reads that matter apart, and a `Commit` action.
A handler that decides nothing before its first write is one action. A crash is a request
that never takes its `Commit`: it leaves nothing behind, as the rolled-back transaction.

## 2. Modules

| Module | Models | Extends |
|---|---|---|
| `Roster` | cards, rosters, draws, balances, player pool | |
| `MCRoster` | symmetry for its runs | `Roster` |
| `RosterProofs` | theorems about it | `Roster`, TLAPS |
| `WeekLock` | the maintenance loop's lock, week administration, rosters between locks | |
| `MCWeekLock` | symmetry for runs without liveness | `WeekLock` |
| `WeekLockProofs` | theorems about it | `WeekLock`, TLAPS |
| `TwitchMVP` | one match: MVP confirmations, ingest, card points, live row, token drop | |
| `MCTwitchMVP` | symmetry for its runs | `TwitchMVP` |
| `SoftAccounts` | viewers' accounts, Connect Twitch, merges and their reversal | |
| `MCSoftAccounts` | symmetry for its runs | `SoftAccounts` |
| `TwitchProofs` | theorems about a match's MVP and viewers' accounts | `TwitchMVP`, `SoftAccounts`, `SumTheorems` |
| `Sessions` | sessions and the admin right | |
| `Passwords` | login, lockout, reset links, password changes | |
| `OncePayments` | abstract: an offer pays an account once, within its cap | |
| `TokenSources` | promo codes, token events, the own card; implements `OncePayments` | instance of it |
| `SignIn` | Steam sign-in and the round trip of Connect Twitch | |
| `FinalsTable` | the group table and its ties | |
| `Finals` | bracket, lock, results, predictions | |
| `Season` | End Season, Reset, titles | |
| `Bench` | bench substitutions and the week a match counts for | |
| `Reports` | leaderboards, My Team and the weekly report of locked weeks | `Bench` |
| `MatchStore` | how a match gets and keeps its row: ingest, retry, manual, replay | |
| `Migrations` | the runner, 037, 038 and 041 | |
| `AccountsProofs` | theorems about the ways into an account, what it is paid, and its migration | `Sessions`, `Passwords`, `SignIn`, `TokenSources`, `Migrations`, `SumTheorems` |
| `Channels` | approved streamers and the Caster tag | |
| `Caches` | the schedule's, the panel's and the figures' caches | |
| `Series` | claims, grouping, records | |
| `SiteSync` | the push to the tournament site | `Series` |
| `Polling` | live poll, ingest pass, series on offer for an MVP | |
| `Placements` | places derived from a past season's matches | |
| `Backfill` | the two resumable scripts | |
| `Enrichment` | the refresh of ranks | |
| `RecordsProofs` | theorems about what the server keeps of the outside world, and the group table | `MatchStore`, `Season`, `Polling`, `Channels`, `Finals`, `Caches`, `Enrichment`, `FinalsTable`, `SumTheorems` |
| `FiguresProofs` | theorems about what is computed from matches | `Reports`, `SiteSync`, `Backfill`, `Placements`, `SumTheorems` |
| `SumTheorems` | sums, and the largest and smallest members, of finite sets | TLAPS |
| `Parts` | a behaviour of one of the parts from `Sessions` to `Enrichment` | all of them |
| `MCParts` | their instances and the view | `Parts` |
| `PartsProofs` | theorems about a behaviour of one of the parts | `Parts`, `AccountsProofs`, `RecordsProofs`, `FiguresProofs` |

`Parts` exists because these modules share no variable: side by side their state space
would be the product of theirs. A behaviour of `Parts` picks one part at the start and
keeps the others in their initial states, so a property of one part's variables holds of
`Parts` exactly when it holds of that part; the space is the sum. `PartView` shows
TLC the running part only: the rest is constant. What does cross the parts is stated where
it matters: `Bench` takes the rosters that `WeekLock` snapshots as given, `Reports` reads
what `Bench` writes, `SiteSync` what `Series` computes, `Season` and `SoftAccounts` share
the reset, which each models for its own tables.

### Roster

| Variable | Code |
|---|---|
| `owner`, `player`, `active` | `cards.owner_id`, `player_id`, `is_active` |
| `inPool` | `players.is_active` |
| `tokens` | `users.tokens` |
| `log` | the token rows of `audit_logs`, counted per account |
| `req` | what a request in flight has read |

`BeginDraw`/`CommitDraw` are `draw_card` with `_pick_player`, `_activate_new_card` and
`spend_tokens`; `BeginBooster` is `draw_booster` and shares the commit;
`BeginReroll`/`CommitReroll`, `BeginActivate`/`CommitActivate`, `Deactivate`,
`BeginSwap`/`CommitSwap` are the handlers of these names; `OpenPage` and `SaveLayout` are
`GET` and `PUT /roster` with `apply_roster_layout`; `NotEnoughTokens` is the rollback of a
payment that fails; `RemovePlayer`, `AddPlayer`, `GrantToken` are the admin's.

Abstracted: slot numbers and the order of the bench, so `reorder_roster` is absent and a
layout is a pair of sets (the model's version check passes whenever the code's does, and
more often); rarities, modifiers and pick weights (any eligible player may come up);
one team for boosters; one token per admin grant.

### WeekLock

| Variable | Code |
|---|---|
| `now` | `clock.now` |
| `week` | rows of `weeks`; `Absent` for an unused id |
| `rosterRows`, `benchRows` | how many rows of `weekly_roster_entries` a card has in a week |
| `users`, `owner`, `active` | accounts and cards as the lock reads them |
| `grants` | tokens the locks credited to an account |
| `loop` | the loop's place in `auto_lock_weeks` and what it read |
| `req`, `edits` | admin requests in flight; a counter for the bound `MaxEdits` |

`ReadDue`, `ReadSnapshotted`, `ReadActive`, `ReadBench` are the four queries before the
first write, `CommitLock` the write transaction (which snapshots the other due weeks from
current rows), `FailLock` its `StaleDataError`. `BeginCreate`/`CommitCreate`,
`BeginEdit`/`CommitEdit`/`RefuseEdit`, `BeginDelete`/`CommitDelete` are the admin's
handlers; ids of deleted last weeks come back (`NextId`), as in a SQLite table without
AUTOINCREMENT. Between locks a roster may become any legal one (`ChangeRoster`): that is
what `RosterWithinLimit`, proved of `Roster`, allows.

Abstracted: the order of a snapshot's rows, cards of removed players (which the bench
query leaves out), cards that change owner, labels, demo mode, the end of a season.

### TwitchMVP

| Variable | Code |
|---|---|
| `stored`, `live` | the rows of `matches` and `live_matches` |
| `stat` | `player_match_stats` of the match: payload and `is_mvp` |
| `card` | `card_match_points`: the stat row that a player's points were computed from |
| `mvp` | the row of `twitch_mvp`; `missed` marks a provisional confirmation that no ingest has read |
| `drop`, `won` | `twitch_token_drops` and the tokens the drops credited |
| `ingest`, `torn` | the place of the ingest that holds `INGEST_LOCK`; what a failed one left undone |
| `req` | what a confirmation has read |

`Store`, `ReadMVP`, `ReadRow`, then `WriteBonus` or `ComputePoints` and `WritePoints`, then
`DeleteLive` are `_store_match_payload` with its three commits; `Refresh` is
`refresh_match_stats`, which shares the middle part. `FailIngest` is an exception or the end
of the process between two commits. `BeginConfirm`/`Confirm` are `set_mvp`,
`BeginAdminConfirm`/`AdminConfirm` are `admin_set_mvp`, both with `upsert_mvp`; its SELECT of
the previous MVP is taken together with the reads before it, which loses nothing, since
stats once stored stay and a provisional confirmation does not use the previous MVP.
`LivePoll` is `store_live_matches`.

The points of a row follow from the payload and the flag (`apply_mvp_bonus_to_row`
recomputes them from the raw stats), so they are not a variable. `missed` and `torn` are
auxiliary: no guard reads them, the properties do.

Abstracted: weights, recalculation and rebuild; several cards of a player and cards drawn
meanwhile; the series window, channel approval, account ages (any set of viewers may be the
pool); a payload always names a player; matches that replace a manual one.

### SoftAccounts

`accounts` are the rows of `users`, viewers' and websites', with both Twitch ids, the
pending merge, the merge flag and the balance; `cardOwner` is `cards.owner_id`; `grants`
and `mergeLogs` are `twitch_starter_grants` and `twitch_merge_log`; `softReq` is what a
request has read. `JoinNew`, `Visit` and the identity share are `POST /twitch/join` and
`_panel_account`; `BeginConnect`/`CommitConnect` are `connect_account`,
`BeginMerge`/`CommitMerge` `merge_confirm` with `merge_soft_into`,
`BeginReverse`/`CommitReverse` `reverse_merge`, `BeginDelete`/`CommitDelete` leave and
purge; `ResetSeason` is what Season Reset does to cards and balances. `history` counts, per
website account, the bonuses paid, merges and reversals: no guard reads it. Abstracted:
presence and roster rows; both ids of a viewer are one value.

### Sign-in, sessions and passwords

`Sessions`: a row carries ages instead of times (since creation, since the stored
`last_seen_at`, since the last request really served), so a tick ages every row and the
space stays finite. `BrowserStep` is login, request, logout, logout everywhere, reauth and the
end of one session; the toggle of an admin right reads the caller's rights first and
writes later. `Passwords`: bcrypt takes time, so login, reset and change are a `Begin` and a
`Commit`; a password is its version, a session remembers the version that opened it and
whether its login was already running (`late`). `SignIn`: attempts, cookies, provider
answers, nonces, pending sign-ups; a callback is a check, the commit that uses the attempt
up, the nonce (or Twitch's swap of its code) and the result, with other requests between.

### TokenSources and OncePayments

`CreateCode`, `DeleteCode`, `BeginRedeem`/`CommitRedeem` with the conditional insert
(`Redeemable`), `CreateEvent`, `DeleteEvent`, `ClaimEvents`; a deleted code's redemptions
stay and ids come back. `OncePayments` knows offers, payments and credits only;
`OffersPayOnce` is its specification under the mapping issued, paid, credit <- made,
settled, credited: every step of codes and events is a payment that is due, a new offer, or
a stutter. The own card (`Verify`, `Unverify`, `GrantOwnCard`) shares the module.

### Finals, Season

`FinalsTable` has the head-to-head of `finals.py` as written, with its recursion as a
function on the sets of teams, beside a second definition without tiers (`Outranks`). `Finals`: a request first refreshes
the bracket from games, live rows and the feed; what it read is kept in `stalled` while
other requests run (`Stall`, `Resume`), and the columns that differ are written.
`resultAt` is auxiliary. `Season`: End Season reads the standings and writes archive and
titles later, Reset checks and deletes later, title corrections read and write a
difference; `recorded` is auxiliary.

### Bench and Reports

`Swaps` is `run_substitutions`; `RunSubstitutions`, `StallRun`, `ResumeRun` are due runs and
reruns whose reads precede the lock; `SetMatchWeek` and `SyncMatchWeeks` rerun both weeks in
their own transaction (`RerunFor`); `Ingest`, `Exclude`, `ReplaceMatch` start no run in
theirs. `stale` (auxiliary) names the weeks whose last run missed a change. `Reports` adds no
variable: it spells out the five queries over the same rows.

### Matches: MatchStore, Polling, Series, SiteSync, Caches

`MatchStore`: a pass under `INGEST_LOCK`, the retry of unparsed matches, admins who judged a
row before they got the lock (`adminReqs`). `Polling`: a poll asks for the leagues
monitored then and stores what it saw (`StoreLive`), a pass ingests, a purge, a restart;
`Offered` is the panel's selection of series. `Series`: fixtures claim matches within four
days, `ExtraSeries` groups the rest by six hours, `SeriesRecord` and `GamesRecord` are the
teams' records; a name is an interval of one text, so that one contains another as substrings
do. `SiteSync`: `BeginPush`, `Compute`, `Push`, `PushFails` per syncer. `Caches`: the
tables are a version number; the schedule's body is stored before its time, the panel's
under a generation, the figures under a fingerprint that even versions share.

### Channels, Enrichment, Placements, Backfill, Migrations

`Channels`: operations that change a channel or a connection run the sync in their own
transaction (which may fail on its own), the loop's pass is `BeginSync`/`CommitSync`;
`unsynced` (auxiliary) records that the last change went past the sync. `Enrichment`: batches of
the loop and of admins; `passes` (auxiliary) counts the worker's batches that passed a
waiting player over. `Placements`: a playoff is played series by series and the places
derived from its log. `Backfill`: runs of the two scripts with their cache files, a budget,
kills and failed reads. `Migrations`: `Skip`, `Record`, `Fails`, `Stop` are the runner, the
other actions the statements of 037, 038 and 041; `view` is what the connection sees,
committed or not.

## 3. Runs

| Run | Shows |
|---|---|
| `roster` | with two requests in flight: no roster above the limit (`RosterWithinLimit`), the guards alone keep one active card per player (`OneActivePerPlayer`), no overspending (`TokensNeverNegative`), the audit log explains every balance and every card (`LedgerBalances`), no save undoes a change its page did not know (`NoLostUpdate`) |
| `duplicate_draw` | violated as expected: two draws at once pick the same new player |
| `removed_player` | violated as expected: a removed player's card is drawn onto the roster |
| `week_lock` | a card has at most one roster row in a week and an account at most a roster of them, even when a week id is reused (`SnapshotLegal`); one admin keeps ranges apart (`WeeksDisjoint`); the rows of a locked week never change (`SnapshotImmutable`); tokens are credited exactly with a lock, one per account (`GrantsWithLock`); a due week is locked in the end (`DueWeeksGetLocked`) |
| `locked_week_edited` | violated as expected: an edit that read the week unlocked is written after the lock |
| `torn_snapshot` | violated as expected: a card benched between the two card queries is in both lists |
| `twitch_mvp` | whatever overlaps, a channel's drop pays once (`DropPaidOnce`), the MVP of a match at rest has the bonus unless an ingest failed between its commits or missed a provisional confirmation (`MVPHasBonus`), a match with stats leaves the live list for good (`LiveRowGone`), and stored points come from the current stats (`CardPointsOfCurrentStats`) |
| `two_mvps` | violated as expected: somebody who is not the MVP keeps the flag |
| `stale_card_points` | violated as expected: an ingest overwrites the card points of a confirmation |
| `soft_accounts` | however joins, identity shares, connects, merges, reversals, resets and deletions overlap, and ids come back: the Connect bonus is paid once per account and per viewer (`BonusOnce`), a Twitch id names one account (`OneAccountPerViewer`), a website account merges once unless reversed and a reversal at once restores both balances (`MergeSound`), no balance is negative (`SoftTypeOK`) |
| `stranger_merge` | violated as expected: a stale pending merge takes the collection of the account that got the id |
| `parts` | one run over 22 instances of the parts, 849,021 states; its properties are in the next table |

| Property of `parts` | Shows |
|---|---|
| `PartsTypeOK` | every part's tables keep their types (a tag's ids and users unique, flags inside their rows, ...) |
| `SessionsSound` | a user in use is not signed out for idleness, and no session outlives a change of its account's right |
| `NoSessionOfOldPassword` | after a reset or a change no session of the old password is left but those of logins already running |
| `OffersPayOnce` | `TokenSources` implements `OncePayments` |
| `OwnCardOnce` | an own card goes to one account, once |
| `SignInSound` | an answer counts once, a Steam id signs in to one account, nobody loses the last way in |
| `TableSeeding` | the recursive head-to-head ranks as the rules do, and nobody outranks a seed |
| `CountedBeforeResult` | a prediction that counts was saved before the first result was committed |
| `SeasonRecordWhole` | standings come from one End Season; titles stay until taken away |
| `SwapsFollowGames` | the swaps of a processed week fit its games, unless a change started no run or a run missed one |
| `MatchesReplaced` | no stored match is replaced but by a confirmed admin who saw it, no replay refetched |
| `DatabasesRepaired` | starters paid once, rosters legal, wherever starts stop |
| `TagsFollowChannels` | the Caster tag is where an approved channel is connected, unless a change went past the sync |
| `CachesSound` | no answer older than a lifetime; the panel's body has every change that cleared it |
| `RecordsAgree` | schedule, records, site, leaderboards, My Team and report say the same of the same matches |
| `LiveIsLastCheck`, `OfferKept` | the live list is the last check's; an offer stays until the stats, a day, a later series or a purge |
| `PastSeasonsSound` | derived places are those played for; a season is recorded whole or not at all; stopped runs advance |
| `NobodyStarves` | with fewer silent players than a batch, a waiting player is passed over a bounded number of times |

Each property of a passing run has a mutant in `PROJECT.json`: a changed definition, kept
beside the real one in the module, under which TLC finds the property violated.

### Bounds

`Roster.cfg`: one account (no action relates two accounts except the removal's refund,
which adds to each alone), two requests, three players of whom two are in the booster
team, three cards, a roster of two, two tokens at the start and at most two credited, a
booster for two. Races need two requests; a full roster needs two cards and a third one to
overfill it; two of three cards may be of one player, so swaps and duplicates occur; the
booster exceeds the balance after one draw, so payments fail. `WeekLock.cfg`: one account
that may register at any time, two cards, a roster of one, two week ids, three times, one
admin with three writes: enough for two weeks due in one pass, for a deletion that makes a
pass fail, and for a week id that is locked, deleted and locked again. Two accounts
(1.5 million states) were checked too and add only time. `TwitchMVP.cfg`: two
confirmations in flight, two players, two channels, two viewers for a drop of one token (so
the limit bites) and one refresh: enough for confirmations that overtake each other, the
ingest and the refresh at every point between its commits.

`SoftAccounts.cfg`: two viewers, one website account, one other id that is handed out again,
two requests, one draw, one merge and its log: 371,703 states. A merge that races a second
one, a deletion or a disconnect needs two requests; a stranger needs the second viewer. The
same instance with more races at once (`LateRaces`) was checked by itself (2.24 million).

`Parts.cfg` bounds each part so that its races occur: two requests or one stalled request
next to those that run at once, the smallest clock in which a limit, a lifetime or a window
can pass, two of what is compared. In numbers of states: season 153,794, finals 118,504, bench
43,064, sign-in 79,025, sessions 76,657, starters 70,509, figures 65,915, backfill 36,976,
polling 35,049, site 31,358, places 29,565, channels 25,562, ranks 18,673, passwords 17,952,
rosters 14,545, schedule 10,877, matches 9,814, panel 5,992, offers 2,813, series 2,240,
table 88 (initial tables chosen so that four teams are level), own-card 49. Larger instances of
the parts were checked by themselves: finals with every operation stalling (2.18 million),
season with two kinds of team titles and three league seasons (1.86 million), bench with every
combination of benches (88,848), sign-in with two
attempts (1.15 million), `MatchStore` with two games (225,552), every earlier database of
`Migrations` (130,477), channels with five steps (147,702), caches with a clock of two (51,129,
19,602 and 346,481), two edits of the site (702,672), two admin steps of `Polling` (83,485),
three runs of the scripts (464,613). They found nothing that the small ones do not.

### Fairness

`WeekLock` assumes weak fairness of `Loop` only: the thread catches every exception
(`main.py:156`), closes its session and comes back after `WEEK_CHECK_INTERVAL`. No
fairness is assumed of admins, players or the clock. The other modules have no liveness
property: their requests answer or vanish, and what waits does so for OpenDota, Steam or a
person. That nobody's rank waits for ever is stated without fairness, as a bound on the
batches that pass a player over (`NobodyStarves`); that a stopped script gets on, as a
property of the runs that stop (`BackfillSound`).

## 4. Proofs

Every theorem is about the specification with all its constants free: any number of accounts,
cards, matches, viewers and requests in flight, any limits that the assumptions allow. TLC
found the invariants below to hold on the instances named before they were proved.

### What is assumed

The named ASSUMEs of the modules, nothing else. Most say that a number is natural (positive
where the code divides by it or counts up to it) and that a value which stands for NULL is
not one of the values it stands beside. The titles that an
admin adds (`AddedKinds`) are of the kinds that the code knows. Finiteness is assumed of sets that are counted or
summed over: the cards, the claimants of an offer (whose number is its cap), the viewers, the
streamers, the pool of players, the teams of the division, the clients that try passwords. `Enrichment` assumes fewer
silent players than a batch takes, which section 5 comes back to. The limits of sessions are
those that `load_settings` accepts. `Placements` assumes that a series was played until somebody
had won it and that the other side is not ahead on record (section 5).

### Cards and rosters: `RosterProofs`

* `TypeCorrect`: the type invariant, inductive as it stands. It carries the facts the
  others need: a card has a player exactly when it has an owner, only owned cards are
  active, a request holds what its kind needs.
* `RosterLimitHolds`: inductive relative to `TypeOK`. `CardSteps` reduces the 18 actions
  to the six that write `cards`; each adds one card under the guard, exchanges two, or
  installs a set that passed the checks of the save.
* `OneActivePerPlayerHolds`: inductive relative to `TypeOK`; the case that needs care is
  the swap, whose guard ignores the outgoing card.
* `TokensHold`, `LedgerHolds`: inductive relative to `TypeOK`; a draw adds one card, one
  log row and takes its cost in the same step, a removal credits and logs the same sum.
* `NoLostUpdateHolds`: a step property; `SaveEnds` shows that only the save itself ends a
  save, and the version check gives the rest.

### The week lock: `WeekLockProofs`

`SnapshotLegal` is not inductive: what the loop writes was read several queries earlier.
`LockInv` adds what a pass may rely on: the weeks it found due are still unlocked or
gone, the snapshot it read of the first one is the snapshot still (a locked week's rows do not
change, and only the loop locks), the roster it read was legal when read and its cards are
still owned. `SnapshotImmutable` and `GrantsWithLock` are step properties from it (TLC:
76,139 and 186,228 states, two instances). `WeeksDisjoint` and the type invariant, of which
"a week ends after it starts" is a part, hold for one admin only and are proved under that
hypothesis (`OneAdmin`): `OneAdminInv` says that what an admin's request has checked still
holds when it is written. With two admins, overlapping edits may leave a week that ends before
it starts.

### One match and its MVP: `TwitchProofs`

`MatchInv` says, for each place between two commits of the ingest, what it has read against
what confirmations have written since: from the moment it knows the MVP, either that is the
MVP still and will get the bonus, or a later confirmation gave the bonus itself (`BonusOK`); the
points it computed are of the payload the stats hold (`PointsOK`); a match with rows is on
the live list only while its ingest is to take it off (`LiveOK`). `torn` and `mvp.missed`
name the two ways out that the code leaves open.

### Viewers' accounts: `TwitchProofs`

`SoftInv` (TLC: 371,369 states) needs what one bonus per viewer rests on: a viewer has one
grant, and the bonuses of all accounts together are as many as the grants of source
`connect`. That is a sum over accounts whose ids are used again, so the proof goes by sums over
finite sets. `MergesOK` says that an account which may merge has had all its merges reversed,
`LogsOK` that a log moved no more than there was. Each action has a lemma.

### Codes, events and the own card: `AccountsProofs`

`PaymentsRefined` is the refinement of `OncePayments`: initial states map to initial states,
a redemption or a claim to the payment of an offer that is due, making an offer to a new
offer, and everything else to a stutter. It needs `OffersInv` (TLC: 25,504 states): ids
come back after a deletion, so the cap and the payments are kept by each offer ever made, and
the uses counted in a row are those paid. `OwnCardHolds` is inductive as it stands: a grant is never
taken back, and the insert finds either of the two taken.

### The ways in: `AccountsProofs`

* `SessionsInv` (76,657 states): a stored time lags behind the true one by less than the
  touch interval, and a stored right is the account's, whichever admins toggle it at the
  same time. `SessionsSound` follows because `load_settings` refuses a touch interval as long
  as an idle limit.
* `PasswordsInv`: the types and the property, which is inductive with them: a session of an old
  password is that of a login which had checked it before the change. `LockoutBoundsGuesses` adds
  the wrong guesses that are counted and those still in flight and bounds the two together by
  the limit and the requests that can run at once (17,952 states; the bound is reached).
* `SignInv` (79,025 states): an answer that a callback has recorded is spent, so that no other
  callback can record it again, now or later; Steam ids differ, and everyone keeps a way in.

### What is kept of the outside world: `RecordsProofs`

* `StoreInv` (4,655,722 states; two games, three requests): from where each row came, and that
  an admin who confirmed has seen what is being replaced although the row was judged before the lock.
* `SeasonInv`: the standings of a season have one author and one time, since the second of two
  End Seasons fails as a whole; the titles on record are there until an admin takes one away.
* `PollingInv`: a live row's times against the checks that saw it. `LiveIsLastCheck` and the
  step property `OfferKept` follow.
* `ChannelsInv`: the property itself, with the rows of the tag unique in id and user, which
  the ids that a sync hands out rely on.
* `FinalsInv` (3,162,094 states, all five operations stalling): the lock never moves past the
  first result, and a stalled request, which may write an older row back, writes a lock no later
  than the one it read.
* `CachesInv` (6,570,887 states; two clients): what a request has read was current at the time
  it will store with it, or later; a body under the panel's current generation holds every change that
  cleared the panel.
* `TableSeeding` is not an invariant of steps but of what the code computes from any results. The
  mini-table of a group may split off a part that a mini-table of its own splits further; the
  classes of the rules are refined for all groups at once, one rule after the other. The proof
  shows that the recursion ends in a table (`TierTablesExist`), that a rule decides between two
  teams of a class unless it is blind to them (`NextRuleDecides`), that joining the rankings
  of the parts of a split ranks the whole (`PartsRanked`), and that a group which its mini-table
  leaves together stays together under all later rules (`StaysTogether`); a minimal
  counterexample on the size of the group then gives `H2HRanks`. `FlattenIs` says of a list of
  lists where each member comes from: the flat order has every team once, so the first ones are
  seeds nobody else outranks, whatever order the admin gives the tied (`FlatOrderIs`).
* `RanksInv` (18,673 states): `NobodyStarves` is a bound, and its proof a potential
  argument. Of the players who answer, those that come before a waiting one in the order and
  the passes times what a clean batch takes from them are together no more than all the
  others. A pass takes a batch of them from before for good: a rank that was stored is newer than
  any rank still waiting. The division by what a batch takes comes last.

### The starts of a new version: `AccountsProofs`

`MigrationsInv` (70,509 states) says of what is committed and of what the connection sees alike
(`DatabaseOK`): every payment of a starter left its row in `twitch_starter_grants` or came with a
Join, so nobody without either was paid, and whatever 037 benched, as many players are left as
the limit allows. While 038 pays, those it still has to pay have an id whose starter did not come
with a Join, and between its two statements the row is there and the payment is not. The
statement that repairs rosters orders cards by slot and id; that a finite set of cards has a first
and a last one in this order shows that the repair takes no card it need not.

### What is computed from matches: `FiguresProofs`

* `BenchInv` (43,064 states): the flags of a processed week that no change went past are those
  `Swaps` computes for its bench and its games. That `Swaps` is a function at all is shown by a
  minimal counterexample on the slots, and so is what it computes (`SwapsRight`): after each
  slot, a seat stands in for one slot that is out, no player counts twice, and nobody who could
  help sits out. `SwapsFollowGamesHolds` puts the two together.
* `ReportsAgreeHolds`: the five queries are different sums over the same rows. The lemmas
  `TotalReindexed`, `SumsRows` and `TotalUnion` of `SumTheorems` take each to the total over the
  pairs of a week and a card that counts in it.
* `SeriesSoundHolds`: what grouping computes, match by match in the order of their starts, is
  connected by the gap, and every match that no fixture claims is in one group; a win of one team
  is a loss of another, so wins less losses add up to nothing over all teams (`TotalPairs`).
* `SiteInv` (31,358 states): what a sync has read and computed is so while it is fresh.
* `BackfillInv` (36,976 states): how far a run got on the list of leagues, what it asked, read and
  missed, and that the seasons before the one it is at are recorded whole.
* `PlacementsInv` (29,565 states): the slots on the log are the first ones of the format's slate, in
  order; the games of a slot are of one pair, the one the earlier results call for, and add up
  to one admitted record. If the matches tell the series apart, the groups of `group_series` are
  therefore the slots (`ToldInTurns`), only the winner of a series can be ahead in it (`AheadAre`),
  and for each format the last series of the two finalists before the final, which the third
  place is read from, are known (`LastBeforeIs`): `PlacesTrueHolds`.

### A behaviour of one of the parts: `PartsProofs`

A step of `Parts` is a step or a stutter of every part: of the one that runs because the part
never changes, of the others because they rest (`AccountsAlwaysMove`, `SeasonAlwaysMoves`,
`CachesAlwaysMove`). So a behaviour of `PartsSpec` is one of `SessionsSpec`, of `BenchSpec` and
so on (`AccountsRun`, `SeasonRuns`, `CachesRun`), and every theorem about a part is one about
`Parts`. The series and the syncs share tables; theirs are theorems where they run
(`SeriesRuns`, `SiteRuns`). All that the run `parts` checks is proved of `PartsSpec` this way:
`PartsTyped`, `RecordsAgreeHolds`, `PastSeasonsSoundHolds`, `TableSeedingHolds`, `PartsSound` (the
other invariants) and `PartsStepsSound` (the properties of steps, with the refinement of
`OncePayments`).

Each part's type is a theorem of its own. Some follow from the part's invariant; `SeasonTyped`,
`ChannelsTyped` and `PollsTyped` add what the invariants do not say. One needed more than
bookkeeping: that no channel has two rows takes `RowsLeftListed`, on what deleting rows from a
list leaves.

### Lemmas about sums: `SumTheorems`

The community modules define a sum over a set by a function on its subsets that takes one
chosen element off at a time. The induction theorems of the library take an operator and
cannot be used, so `SumTheorems` shows by a minimal counterexample (well-foundedness of the
natural numbers) that such a sum exists, is a natural number, splits off any element and depends on the
terms only; and that a finite set of numbers that is not empty has a largest and a smallest
member.

### What stays with TLC

* `DueWeeksGetLocked`, with the fairness it rests on: TLAPS does not reason about fairness here.
* That every action can happen at all, and that no other run than the ones of section 5 disagrees
  with a document. Every other property of a passing run is stated by a theorem.

## 5. Differences between code and documents

Seven, each with a run and, in `PROJECT.json`, the quoted line: concurrent draws may
duplicate a player early; removed players are drawn and reach the roster; a locked week
can be edited or deleted by a request that read it before the lock; a snapshot may hold a
card twice or miss it; the MVP flag may stay with a former MVP; an ingest may overwrite the
card points of a confirmation; a stale pending merge may mean another viewer's account.

Seen in the code and not run:

* Weeks that fall due in one pass share a single token; in demo mode two callers lock the
  same week twice.
* `weekly_summary.py:217` builds the unrevealed list "so the list gives nothing away", but a
  card that is out with no replacement is missing from it, which shows that its player
  did not play (`ReportsAgree` allows exactly these cards to be missing).
* `POST /weekly-summary/prompted` and `/seen` name no week: a dismissal that arrives after a
  newer report became available marks the newer one.
* A bulk add answers "already exists" for a deactivated player and leaves it so, while
  `add_player` brings it back (`routers/admin_players.py:220`).
* `team_insights.py` says excluded matches "count in no figure"; the series record counts
  them (`Series` follows the code).
* The finals' `locked_at` can be moved later by a request that read an earlier bracket, an
  admin's result overwritten by one, and a save committed after the decision keeps no score.
* A week locked while Season Reset takes its backup is deleted without an archive.
* An exclusion or a late ingest starts no substitution run (`stale` in `Bench`).
* A cold schedule cache keeps "unavailable" for an hour; two computations at once can store one's
  body with the other's time.
* With as many silent players as a rank batch takes, nobody else's rank is refreshed
  (the premise of `NobodyStarves`).
* `derive_placements` goes by the games on record: where two results of one series are missing,
  its loser may be ahead on record and is then named with high confidence. `Placements` leaves
  this out by assumption; the derived rows are there for people to review before they are applied.

## 6. Not modelled

Scoring arithmetic is on floating-point weights. Card images, mails, notifications, rate
limits and the web page hold no rule that steps of several actors could break. Statistics
pages are queries without a counterpart to agree with, but for those in `Series` and
`Reports`. Slot numbers (`reorder_roster`, the panel's second commit) and the rebuild of card
points are left out of `Roster` and `TwitchMVP`; demo mode would be a second locker of
`WeekLock`. `PROJECT.json` says for each component what is left out of it.

## 7. Plan

Every invariant and step property that the runs check is proved. What would extend the
project next is more of the system: slot numbers and the panel's second commit in `Roster`,
`rebuild_all` in `TwitchMVP`, demo mode as a second locker in `WeekLock`.
