---------------------------- MODULE SitePipeline ----------------------------
(***************************************************************************)
(* The deploy pipeline together with the job that issues the site's        *)
(* certificate (internal/service/ssl).  The job is one Asynq task with the *)
(* ID "ssl-issue:<site>", so it is queued at most once, but it runs under  *)
(* a lock key of its own: it and a deploy may hold copies of the row at    *)
(* the same time, and each writes the row whole.                           *)
(*                                                                         *)
(* Here stale[t] also becomes TRUE when the job writes the row, and        *)
(* issueStale when a deploy or the operator does.                          *)
(***************************************************************************)
EXTENDS SiteDeploy

CONSTANT MaxIssueRetry  \* asynq.MaxRetry of the issue task

ASSUME IssueAssumption == MaxIssueRetry \in Nat

VARIABLES
  issueLock,   \* "lock:site:ssl-issue:<id>": "free", "held", or "dead"
  issueTries,  \* retries charged to the issue task
  issuePc,     \* where its run stands in ExecuteIssue
  issueCopy,   \* the run's copy of the row
  issueRet,    \* what the run is about to return
  issueStale   \* has anyone else written the row since the run read it?

issueVars == <<issueLock, issueTries, issuePc, issueCopy, issueRet, issueStale>>
deployVars == <<lock, task, tries, pc, snap, ret, log, edits, crashes>>
allVars == <<vars, issueVars>>

IssueSaving == {"cert", "markDeployed", "markPending"}
IssueStep == {"idle", "load", "release", "reply"} \cup IssueSaving

IssueGoto(step) == issuePc' = step
-----------------------------------------------------------------------------
PipelineInit ==
  /\ Init
  /\ issueLock = "free" /\ issueTries = 0
  /\ issuePc = "idle" /\ issueCopy = NoRow
  /\ issueRet = "nil" /\ issueStale = FALSE

\* POST /sites/:id/ssl/issue; a task ID that is taken is an error to the caller.
RequestIssue ==
  /\ issueTask = "absent"
  /\ issueTask' = "pending"
  /\ UNCHANGED <<site, stale, faults, deployVars, issueVars>>

IssueAcquire ==
  /\ issueTask \in {"pending", "retry"}
  /\ issueTask' = "active"
  /\ \/ /\ issueLock = "free"
        /\ issueLock' = "held" /\ issueRet' = "nil" /\ IssueGoto("load")
        /\ UNCHANGED faults
     \/ /\ issueLock # "free"
        /\ issueRet' = "nil" /\ IssueGoto("reply")
        /\ UNCHANGED <<issueLock, faults>>
     \/ /\ CallFails(FALSE)
        /\ issueRet' = "err" /\ IssueGoto("reply")
        /\ UNCHANGED issueLock
  /\ UNCHANGED <<site, stale, deployVars, issueTries, issueCopy, issueStale>>

\* Unlike a deploy, the job asks nothing of the server's status.
IssueLoad ==
  /\ issuePc = "load"
  /\ \/ /\ site.status # Deleted
        /\ issueCopy' = site /\ issueStale' = FALSE
        /\ IssueGoto("cert")
        /\ UNCHANGED <<issueRet, faults>>
     \/ /\ CallFails(site.status = Deleted)
        /\ issueRet' = "err" /\ IssueGoto("release")
        /\ UNCHANGED <<issueCopy, issueStale>>
  /\ UNCHANGED <<site, stale, issueTask, deployVars, issueLock, issueTries>>

\* certbot succeeds or fails; a failure is what the job returns in the end.
IssueCertbot ==
  /\ issuePc = "cert"
  /\ \/ IssueGoto("markDeployed") /\ UNCHANGED issueRet
     \/ IssueGoto("markPending") /\ issueRet' = "err"
  /\ UNCHANGED <<site, stale, issueTask, faults, deployVars,
                 issueLock, issueTries, issueCopy, issueStale>>

\* Mutant: the job does not ask the transition table.
IssueSave_Unchecked(status) ==
  /\ site.status # Deleted
  /\ site' = [issueCopy EXCEPT !.status = status]
  /\ Overtake
  /\ IssueGoto("release")
  /\ UNCHANGED <<issueTask, faults, deployVars, issueLock, issueTries, issueCopy,
                 issueRet, issueStale>>

\* Mutant: an upsert, which does not mind that the row is gone.
IssueSave_Upsert(status) ==
  /\ EnsureSiteTransition(issueCopy.status, status)
  /\ site' = [issueCopy EXCEPT !.status = status]
  /\ Overtake
  /\ IssueGoto("release")
  /\ UNCHANGED <<issueTask, faults, deployVars, issueLock, issueTries, issueCopy,
                 issueRet, issueStale>>

\* The row is replaced whole by the job's copy with its new status.
IssueSave(status) ==
  /\ \/ /\ EnsureSiteTransition(issueCopy.status, status)
        /\ site.status # Deleted
        /\ site' = [issueCopy EXCEPT !.status = status]
        /\ Overtake
        /\ UNCHANGED <<issueRet, faults>>
     \/ /\ CallFails(\/ site.status = Deleted
                     \/ ~EnsureSiteTransition(issueCopy.status, status))
        /\ issueRet' = "err"
        /\ UNCHANGED <<site, stale>>
  /\ IssueGoto("release")
  /\ UNCHANGED <<issueTask, deployVars, issueLock, issueTries, issueCopy, issueStale>>

IssueMarkDeployed == issuePc = "markDeployed" /\ IssueSave("deployed")
IssueMarkPending  == issuePc = "markPending"  /\ IssueSave("ssl_pending")

IssueRelease ==
  /\ issuePc = "release"
  /\ \/ issueLock' = "free" /\ UNCHANGED faults
     \/ issueLock' = "dead" /\ CallFails(FALSE)
  /\ issueCopy' = NoRow /\ issueStale' = FALSE
  /\ IssueGoto("reply")
  /\ UNCHANGED <<site, stale, issueTask, deployVars, issueTries, issueRet>>

\* Mutant: the task goes to retry before its run is over.
IssueReply_EarlyRetry ==
  /\ issuePc = "reply"
  /\ issueTask' = (IF issueRet = "nil" THEN "absent" ELSE "retry")
  /\ UNCHANGED <<site, stale, faults, deployVars, issueVars>>

\* A task that is done gives its ID back; an archived one keeps it.
IssueReply ==
  /\ issuePc = "reply"
  /\ \/ issueRet = "nil" /\ issueTask' = "absent" /\ issueTries' = 0
     \/ /\ issueRet = "err" /\ issueTries < MaxIssueRetry
        /\ issueTask' = "retry" /\ issueTries' = issueTries + 1
     \/ /\ issueRet = "err" /\ issueTries = MaxIssueRetry
        /\ issueTask' = "archived" /\ UNCHANGED issueTries
  /\ IssueGoto("idle")
  /\ UNCHANGED <<site, stale, faults, deployVars, issueLock, issueCopy, issueRet, issueStale>>

IssueLockExpires ==
  /\ issueLock = "dead"
  /\ issueLock' = "free"
  /\ UNCHANGED <<vars, issueTries, issuePc, issueCopy, issueRet, issueStale>>

IssueRun ==
  \/ IssueAcquire \/ IssueLoad \/ IssueCertbot \/ IssueMarkDeployed
  \/ IssueMarkPending \/ IssueRelease \/ IssueReply
-----------------------------------------------------------------------------
\* A step of a deploy or of an operator, as the issue job's copy sees it.
SeenByIssue ==
  /\ issueStale' = (issueStale \/ (site' # site /\ issuePc \in IssueSaving))
  /\ UNCHANGED <<issueLock, issueTries, issuePc, issueCopy, issueRet>>

DeployStep == (\E t \in Task : EnqueueDeploy(t) \/ Run(t)) /\ SeenByIssue

OperatorStep ==
  /\ OperatorDelete \/ (\E status \in FormStatus : OperatorUpdate(status))
  /\ SeenByIssue

DeployLockExpires == LockExpires /\ UNCHANGED issueVars

\* One process runs all workers: its death ends the issue run with the deploys.
ProcessDies ==
  /\ crashes < MaxCrashes /\ crashes' = crashes + 1
  /\ issueTask = "active" \/ \E t \in Task : task[t] = "active"
  /\ LoseRuns
  /\ issueTask' = (IF issueTask = "active" THEN "pending" ELSE issueTask)
  /\ issuePc' = "idle" /\ issueCopy' = NoRow /\ issueStale' = FALSE
  /\ issueLock' = (IF issueLock = "held" THEN "dead" ELSE issueLock)
  /\ UNCHANGED <<site, tries, ret, log, edits, faults, issueTries, issueRet>>

PipelineNext ==
  \/ DeployStep \/ OperatorStep \/ DeployLockExpires \/ ProcessDies
  \/ RequestIssue \/ IssueRun \/ IssueLockExpires

PipelineSpec == PipelineInit /\ [][PipelineNext]_allVars
-----------------------------------------------------------------------------
(* Properties *)

\* Every variable of the issue job stays in its range, and a held lock, a live
\* copy and an active task go together: the task ID admits one run at a time.
PipelineTypeOK ==
  /\ TypeOK
  /\ issueLock \in {"free", "held", "dead"}
  /\ issueTries \in 0..MaxIssueRetry
  /\ issuePc \in IssueStep
  /\ issueCopy \in Row
  /\ issueRet \in {"nil", "err"}
  /\ issueStale \in BOOLEAN
  /\ issuePc # "idle" <=> issueTask = "active"

\* The step in which the issue job writes the row.
IssueWritesRow == issuePc' # issuePc /\ site' # site

\* Whoever of the two pipelines writes the row moves its real status along the
\* table, unless the row was written by someone else since it was read.  This
\* is all that judging transitions on private copies can give.
LegalUnlessOvertaken ==
  [][/\ IssueWritesRow /\ ~issueStale => EnsureSiteTransition(site.status, site'.status)
     /\ \A t \in Task :
          WritesRow(t) /\ ~stale[t] => EnsureSiteTransition(site.status, site'.status)]_allVars

\* A deleted site stays deleted: a run that still holds a copy of it, of either
\* kind, cannot write it back (Update of a missing row is an error).
DeletedStaysDeleted == [][site.status = Deleted => site'.status = Deleted]_allVars

\* When all work on a site has settled, the site is not left deploying, provided
\* nothing failed, nobody died and no operator wrote the row: the issue job, which
\* writes under another lock, never takes the place of a deploy's outcome.
QuietMeansConcluded ==
  /\ edits = 0 /\ faults = 0 /\ crashes = 0
  /\ \A t \in Task : task[t] = "idle" \/ Settled(t)
  => site.status # "deploying"

\* With no operator writing the row, every change of a site's status is in the
\* transition table ("site lifecycle safety via explicit transition state machine
\* validation", CHANGELOG).
StatusFollowsTable ==
  [][edits = 0 /\ site' # site => EnsureSiteTransition(site.status, site'.status)]_allVars
=============================================================================
