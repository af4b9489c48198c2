------------------------------ MODULE SiteSync ------------------------------
(***************************************************************************)
(* The push of series results to the tournament site (backend/             *)
(* toornament.py): the ingest loop and an admin read the site's match,     *)
(* compute its score from the stored matches and patch it when the site    *)
(* shows another one.  The admin's sync takes no lock.                     *)
(***************************************************************************)
EXTENDS Series

CONSTANTS
  SiteMatch,      \* names of the two participants
  SiteScores,     \* scores an organiser may enter by hand
  PurgedTogether, \* matches of a league an admin may purge
  Syncers, MaxSiteEdits,
  NoSiteScore

ASSUME SiteAssumption ==
  MaxSiteEdits \in Nat /\ PurgedTogether \subseteq MatchIds /\ SiteScores \subseteq Nat \X Nat

VARIABLES
  site,       \* [started, score]: the match on the site
  sync,       \* per sync: its stage, the site's match it read, the score it computed
  siteEdits

siteVars == <<site, sync, siteEdits>>

-----------------------------------------------------------------------------
\* The series of the site's match: all matches of its two teams, at any time.
SiteFixture ==
  [team1 |-> SiteMatch[1], team2 |-> SiteMatch[2], starts |-> NoDate, weekStart |-> NoDate]
SiteSeries == MatchesOf(SiteFixture)
SiteScore == WinsOf(SiteFixture)

\* The push is left out for a match that shows the score.
HasScore(shown, score) == shown # NoSiteScore
ShowsScore(shown, score) == shown = score

Unstarted == [started |-> FALSE, score |-> NoSiteScore]

InStage(s, stage) == sync[s].stage = stage
Ended(s, stage) ==
  [stage |-> stage, seen |-> Unstarted, score |-> NoSiteScore, fresh |-> sync[s].fresh]

\* The other syncs have read what is no longer so.
Outdated(others) ==
  [s \in Syncers |-> IF s \in others THEN [sync[s] EXCEPT !.fresh = FALSE] ELSE sync[s]]

BeginPush(s) ==
  /\ InStage(s, "done") \/ InStage(s, "failed")
  /\ sync' = [sync EXCEPT ![s] =
       [stage |-> "read", seen |-> site, score |-> NoSiteScore, fresh |-> TRUE]]
  /\ UNCHANGED <<site, siteEdits>>

\* A match not started, or without a game of ours, is passed over.
Compute(s) ==
  /\ InStage(s, "read")
  /\ LET due == sync[s].seen.started /\ SiteSeries # {}
                /\ ~ShowsScore(sync[s].seen.score, SiteScore)
     IN sync' = IF due THEN [sync EXCEPT ![s].stage = "push", ![s].score = SiteScore]
                       ELSE [sync EXCEPT ![s] = Ended(s, "done")]
  /\ UNCHANGED <<site, siteEdits>>

Push(s) ==
  /\ InStage(s, "push")
  /\ site' = [site EXCEPT !.score = sync[s].score]
  /\ sync' = [Outdated(Syncers \ {s}) EXCEPT ![s] = Ended(s, "done")]
  /\ UNCHANGED siteEdits

\* The request fails, before or after the site took it.
PushFails(s) ==
  /\ InStage(s, "push")
  /\ \/ UNCHANGED site /\ sync' = [sync EXCEPT ![s] = Ended(s, "failed")]
     \/ /\ site' = [site EXCEPT !.score = sync[s].score]
        /\ sync' = [Outdated(Syncers \ {s}) EXCEPT ![s] = Ended(s, "failed")]
  /\ UNCHANGED siteEdits

\* An organiser starts the match or enters a score.
EditSite(started, score) ==
  /\ siteEdits < MaxSiteEdits /\ siteEdits' = siteEdits + 1
  /\ site' = [started |-> started, score |-> score] /\ site' # site
  /\ sync' = Outdated(Syncers)

\* When a match starts plays no part.
StoreForSite(m) ==
  /\ StoreMatch(m, CHOOSE at \in PlayTimes : TRUE)
  /\ sync' = Outdated(Syncers)
  /\ UNCHANGED <<site, siteEdits>>

PurgeForSite ==
  /\ PurgedTogether \cap Stored # {}
  /\ startOf' = [m \in MatchIds |-> IF m \in PurgedTogether THEN NoDate ELSE startOf[m]]
  /\ unscored' = unscored \ PurgedTogether
  /\ sync' = Outdated(Syncers)
  /\ UNCHANGED <<feed, site, siteEdits>>

SiteInit ==
  /\ site = Unstarted /\ siteEdits = 0
  /\ sync = [s \in Syncers |->
       [stage |-> "failed", seen |-> Unstarted, score |-> NoSiteScore, fresh |-> FALSE]]

SiteNext ==
  \/ PurgeForSite \/ \E m \in MatchIds : StoreForSite(m)
  \/ /\ UNCHANGED seriesVars
     /\ \/ \E s \in Syncers : BeginPush(s) \/ Compute(s) \/ Push(s) \/ PushFails(s)
        \/ \E started \in BOOLEAN, score \in SiteScores \cup {NoSiteScore} :
              EditSite(started, score)

SiteSpec == SeriesInit /\ SiteInit /\ [][SiteNext]_<<seriesVars, siteVars>>

-----------------------------------------------------------------------------
(* Properties *)

SiteTypeOK ==
  /\ site.started \in BOOLEAN /\ sync \in [Syncers -> [stage : {"read", "push", "done", "failed"},
       seen : [started : BOOLEAN, score : (Nat \X Nat) \cup {NoSiteScore}],
       score : (Nat \X Nat) \cup {NoSiteScore}, fresh : BOOLEAN]]

\* After a sync that failed nowhere, with no change of the matches or the site since it
\* read them, a started match with games of ours shows their result, whatever an
\* organiser, an earlier failed push or the other sync left there.
SiteAgrees ==
  \A s \in Syncers :
    InStage(s, "done") /\ sync[s].fresh /\ site.started /\ SiteSeries # {} => site.score = SiteScore
=============================================================================
