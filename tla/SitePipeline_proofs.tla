------------------------ MODULE SitePipeline_proofs ------------------------
(***************************************************************************)
(* Theorems about the deploy pipeline next to the certificate issue job,   *)
(* for any set of tasks and any bounds.                                    *)
(*                                                                         *)
(* A step of SitePipeline is one of three things: a step of SiteDeploy     *)
(* that the issue job takes notice of, the death of the process, or a step *)
(* of the issue job.  The first kind inherits what SiteDeploy_proofs shows *)
(* of every step of SiteDeploy.                                            *)
(***************************************************************************)
EXTENDS SitePipeline, SiteDeploy_proofs

\* How a step of SiteDeploy leaves the issue job.
Noticed ==
  /\ issueStale' \in BOOLEAN
  /\ issueStale \/ (site' # site /\ issuePc \in IssueSaving) => issueStale'
  /\ issueLock' = issueLock \/ issueLock' = "free"
  /\ UNCHANGED <<issueTries, issuePc, issueCopy, issueRet>>

IssueJob == RequestIssue \/ IssueRun

\* The three kinds of steps.
LEMMA StepKinds ==
  ASSUME PipelineTypeOK, [PipelineNext]_allVars
  PROVE  ([Next]_vars /\ Noticed) \/ ProcessDies \/ IssueJob
<1>1. ASSUME DeployStep \/ OperatorStep PROVE Next /\ Noticed
  <2>1. Next
    BY <1>1 DEF DeployStep, OperatorStep, Next, Environment
  <2>2. SeenByIssue
    BY <1>1 DEF DeployStep, OperatorStep
  <2>3. issueStale' \in BOOLEAN /\ (issueStale \/ (site' # site /\ issuePc \in IssueSaving) => issueStale')
    BY <2>2, Zenon DEF SeenByIssue
  <2>. QED
    BY <2>1, <2>2, <2>3 DEF SeenByIssue, Noticed
<1>2. ASSUME DeployLockExpires PROVE Next /\ Noticed
  BY <1>2 DEF DeployLockExpires, LockExpires, issueVars, Next, Environment, Noticed, PipelineTypeOK
<1>3. ASSUME IssueLockExpires PROVE UNCHANGED vars /\ Noticed
  BY <1>3 DEF IssueLockExpires, vars, Noticed, PipelineTypeOK
<1>4. ASSUME UNCHANGED allVars PROVE UNCHANGED vars /\ Noticed
  BY <1>4 DEF allVars, issueVars, vars, Noticed, PipelineTypeOK
<1>. QED
  BY <1>1, <1>2, <1>3, <1>4 DEF PipelineNext, IssueJob

\* No deploy and no operator starts or ends a run of the issue task.
LEMMA DeploysOnlyQueueIssues ==
  ASSUME TypeOK, [Next]_vars
  PROVE  issueTask' = issueTask \/ (issueTask = "absent" /\ issueTask' = "pending")
<1>1. ASSUME NEW t \in Task, EnqueueIssue(t)
      PROVE  issueTask' = issueTask \/ (issueTask = "absent" /\ issueTask' = "pending")
  BY <1>1 DEF EnqueueIssue
<1>2. ASSUME NEW t \in Task, \/ MarkDeploying(t) \/ MarkDeployFailed(t)
                             \/ MarkDeployed(t) \/ MarkSslPending(t)
      PROVE issueTask' = issueTask
  BY <1>2, MarksSave, SaveMovesOn
<1>3. ASSUME NEW t \in Task,
             \/ EnqueueDeploy(t) \/ Acquire(t) \/ CreateLog(t) \/ Load(t) \/ RunCommands(t)
             \/ IssueCertificate(t) \/ FinishLog(t) \/ Release(t) \/ Reply(t)
      PROVE issueTask' = issueTask
  BY <1>3 DEF EnqueueDeploy, Acquire, CreateLog, Load, RunCommands, IssueCertificate,
              FinishLog, Release, Reply
<1>4. ASSUME NEW status \in FormStatus, OperatorUpdate(status) PROVE issueTask' = issueTask
  BY <1>4 DEF OperatorUpdate
<1>5. CASE OperatorDelete \/ LockExpires \/ Crash \/ UNCHANGED vars
  BY <1>5 DEF OperatorDelete, LockExpires, Crash, vars
<1>. QED
  BY <1>1, <1>2, <1>3, <1>4, <1>5 DEF Next, Run, Environment

\* What a save of the issue job may do: write its copy with a status the table
\* allows from the copy's, or leave the row alone and end with an error.
LEMMA IssueSaves ==
  ASSUME IssueMarkDeployed \/ IssueMarkPending
  PROVE  /\ issuePc \in IssueSaving /\ issuePc' = "release"
         /\ UNCHANGED <<issueTask, deployVars, issueLock, issueTries, issueCopy, issueStale>>
         /\ \/ \E status \in {"deployed", "ssl_pending"} :
                 /\ EnsureSiteTransition(issueCopy.status, status)
                 /\ site.status # Deleted
                 /\ site' = [issueCopy EXCEPT !.status = status]
                 /\ Overtake
                 /\ UNCHANGED <<issueRet, faults>>
            \/ /\ issueRet' = "err"
               /\ \/ UNCHANGED faults
                  \/ faults < MaxFaults /\ faults' = faults + 1
               /\ UNCHANGED <<site, stale>>
<1>1. ASSUME NEW status, IssueSave(status)
      PROVE  /\ issuePc' = "release"
             /\ UNCHANGED <<issueTask, deployVars, issueLock, issueTries, issueCopy, issueStale>>
             /\ \/ /\ EnsureSiteTransition(issueCopy.status, status)
                   /\ site.status # Deleted
                   /\ site' = [issueCopy EXCEPT !.status = status]
                   /\ Overtake
                   /\ UNCHANGED <<issueRet, faults>>
                \/ /\ issueRet' = "err"
                   /\ \/ UNCHANGED faults
                      \/ faults < MaxFaults /\ faults' = faults + 1
                   /\ UNCHANGED <<site, stale>>
  BY <1>1 DEF IssueSave, IssueGoto, CallFails
<1>. QED
  BY <1>1 DEF IssueMarkDeployed, IssueMarkPending, IssueSaving

\* Every other step of the issue job leaves the row and the deploys alone.
LEMMA IssueReadsOnly ==
  ASSUME \/ RequestIssue \/ IssueAcquire \/ IssueLoad \/ IssueCertbot \/ IssueRelease \/ IssueReply
  PROVE  /\ UNCHANGED <<site, stale, deployVars>>
         /\ \/ UNCHANGED faults
            \/ faults < MaxFaults /\ faults' = faults + 1
  BY DEF RequestIssue, IssueAcquire, IssueLoad, IssueCertbot, IssueRelease, IssueReply,
         CallFails

LEMMA NoRowIsRow == NoRow \in Row
  BY DeployAssumption DEF NoRow, Row

\* A step of the issue job keeps the variables of the deploys in their range.
LEMMA IssueJobTyped ==
  ASSUME PipelineTypeOK, IssueJob
  PROVE  TypeOK'
<1> USE DeployAssumption DEF PipelineTypeOK
<1>1. issueTask' \in {"absent", "pending", "active", "retry", "archived"}
  BY DEF IssueJob, RequestIssue, IssueRun, IssueAcquire, IssueLoad, IssueCertbot,
         IssueMarkDeployed, IssueMarkPending, IssueSave, IssueRelease, IssueReply, TypeOK
<1>2. CASE IssueMarkDeployed \/ IssueMarkPending
  <2>1. /\ UNCHANGED deployVars
        /\ faults' = faults \/ (faults < MaxFaults /\ faults' = faults + 1)
    BY <1>2, IssueSaves
  <2>2. site' \in Row
    <3>1. \A status \in {"deployed", "ssl_pending"} : [issueCopy EXCEPT !.status = status] \in Row
      BY DEF Row, SiteStatus
    <3>. QED
      BY <3>1, <1>2, IssueSaves DEF TypeOK
  <2>3. stale' \in [Task -> BOOLEAN]
    <3>1. CASE UNCHANGED stale
      BY <3>1 DEF TypeOK
    <3>2. CASE Overtake
      BY <3>2, Zenon DEF Overtake
    <3>. QED
      BY <3>1, <3>2, <1>2, IssueSaves
  <2>. QED
    BY <1>1, <2>1, <2>2, <2>3 DEF TypeOK, deployVars
<1>3. CASE \/ RequestIssue \/ IssueAcquire \/ IssueLoad \/ IssueCertbot \/ IssueRelease \/ IssueReply
  <2>1. /\ UNCHANGED <<site, stale, deployVars>>
        /\ faults' = faults \/ (faults < MaxFaults /\ faults' = faults + 1)
    BY <1>3, IssueReadsOnly
  <2>. QED
    BY <1>1, <2>1 DEF TypeOK, deployVars
<1>. QED
  BY <1>2, <1>3 DEF IssueJob, IssueRun

\* Every step keeps every variable in its range, and the run of the issue task and
\* the task's state in step.
LEMMA PipelineStepTyped == PipelineTypeOK /\ [PipelineNext]_allVars => PipelineTypeOK'
<1> SUFFICES ASSUME PipelineTypeOK, [PipelineNext]_allVars PROVE PipelineTypeOK'
  OBVIOUS
<1> USE IssueAssumption
<1>1. CASE [Next]_vars /\ Noticed
  <2>1. TypeOK'
    BY <1>1, StepTyped DEF PipelineTypeOK
  <2>2. issueTask' = "active" <=> issueTask = "active"
    BY <1>1, DeploysOnlyQueueIssues DEF PipelineTypeOK
  <2>. QED
    BY <1>1, <2>1, <2>2 DEF PipelineTypeOK, Noticed
<1>2. CASE ProcessDies
  <2>1. TypeOK'
    BY <1>2, NoRowIsRow, DeployAssumption DEF ProcessDies, LoseRuns, PipelineTypeOK, TypeOK,
       TaskState, Step
  <2>. QED
    BY <1>2, <2>1, NoRowIsRow DEF ProcessDies, PipelineTypeOK, IssueStep
<1>3. CASE IssueJob
  <2>1. TypeOK'
    BY <1>3, IssueJobTyped
  <2>2. CASE IssueMarkDeployed \/ IssueMarkPending
    BY <2>1, <2>2, IssueSaves DEF PipelineTypeOK, IssueStep, IssueSaving, deployVars
  <2>3. CASE RequestIssue
    BY <2>1, <2>3 DEF RequestIssue, PipelineTypeOK, issueVars
  <2>4. CASE IssueAcquire
    BY <2>1, <2>4 DEF IssueAcquire, IssueGoto, PipelineTypeOK, IssueStep
  <2>5. CASE IssueLoad
    BY <2>1, <2>5 DEF IssueLoad, IssueGoto, PipelineTypeOK, IssueStep, IssueSaving, TypeOK
  <2>6. CASE IssueCertbot
    BY <2>1, <2>6 DEF IssueCertbot, IssueGoto, PipelineTypeOK, IssueStep, IssueSaving
  <2>7. CASE IssueRelease
    BY <2>1, <2>7, NoRowIsRow DEF IssueRelease, IssueGoto, PipelineTypeOK, IssueStep
  <2>8. CASE IssueReply
    BY <2>1, <2>8 DEF IssueReply, IssueGoto, PipelineTypeOK, IssueStep
  <2>. QED
    BY <1>3, <2>2, <2>3, <2>4, <2>5, <2>6, <2>7, <2>8 DEF IssueJob, IssueRun
<1>. QED
  BY <1>1, <1>2, <1>3, StepKinds

\* Every variable of the two pipelines stays in its range, and the issue task is
\* being worked on exactly when it has a run.
THEOREM PipelineTypeCorrect == PipelineSpec => []PipelineTypeOK
<1>1. PipelineInit => PipelineTypeOK
  <2> SUFFICES ASSUME PipelineInit PROVE PipelineTypeOK
    OBVIOUS
  <2>1. TypeOK
    BY DeployAssumption DEF PipelineInit, Init, TypeOK, Row, NoRow, SiteStatus, TaskState, Step,
       LogState
  <2>2. issueTask = "absent"
    BY DEF PipelineInit, Init
  <2>3. issueTries \in 0..MaxIssueRetry
    BY IssueAssumption DEF PipelineInit
  <2>. QED
    BY <2>1, <2>2, <2>3, NoRowIsRow DEF PipelineInit, PipelineTypeOK, IssueStep
<1>. QED
  BY <1>1, PipelineStepTyped, PTL DEF PipelineSpec
-----------------------------------------------------------------------------
(* Who writes the row *)

\* What the issue job's copy is worth: it equals the row until a deploy or the
\* operator writes the row.
IssueCopyIsFresh == issuePc \in IssueSaving /\ ~issueStale => issueCopy = site

\* What the two pipelines share, as an inductive invariant.
SharedRow == RunOwnsLock /\ CopyIsFresh /\ IssueCopyIsFresh

\* The death of the process ends every run.
LEMMA DeathEndsRuns ==
  ASSUME PipelineTypeOK, ProcessDies
  PROVE  /\ \A t \in Task : pc'[t] = "idle"
         /\ issuePc' = "idle"
         /\ site' = site
  BY DEF ProcessDies, LoseRuns

\* Only the issue job itself, not a deploy, an operator or the process's death,
\* changes the row and the issue job's step together; then the copy goes to the row.
LEMMA IssueWrites ==
  ASSUME PipelineTypeOK, [PipelineNext]_allVars, IssueWritesRow
  PROVE  /\ issuePc \in IssueSaving
         /\ \E status \in {"deployed", "ssl_pending"} :
              /\ EnsureSiteTransition(issueCopy.status, status)
              /\ site' = [issueCopy EXCEPT !.status = status]
<1>1. CASE [Next]_vars /\ Noticed
  BY <1>1 DEF Noticed, IssueWritesRow
<1>2. CASE ProcessDies
  BY <1>2, DeathEndsRuns DEF IssueWritesRow
<1>3. CASE IssueMarkDeployed \/ IssueMarkPending
  BY <1>3, IssueSaves DEF IssueWritesRow
<1>4. CASE \/ RequestIssue \/ IssueAcquire \/ IssueLoad \/ IssueCertbot \/ IssueRelease \/ IssueReply
  BY <1>4, IssueReadsOnly DEF IssueWritesRow
<1>. QED
  BY <1>1, <1>2, <1>3, <1>4, StepKinds DEF IssueJob, IssueRun

\* The row is written together with a deploy's step only by that deploy.
LEMMA DeployWrites ==
  ASSUME PipelineTypeOK, [PipelineNext]_allVars, NEW t \in Task, WritesRow(t)
  PROVE  [Next]_vars
<1>1. CASE ProcessDies
  BY <1>1, DeathEndsRuns DEF WritesRow
<1>2. CASE IssueJob
  <2>1. pc' = pc
    BY <1>2, IssueSaves, IssueReadsOnly DEF IssueJob, IssueRun, deployVars
  <2>. QED
    BY <2>1 DEF WritesRow
<1>. QED
  BY <1>1, <1>2, StepKinds

\* The issue job takes no lock of a deploy and marks every live copy it overtakes.
LEMMA IssueJobShares ==
  ASSUME PipelineTypeOK, SharedRow, IssueJob
  PROVE  SharedRow'
<1> USE DEF SharedRow
<1>1. CASE IssueMarkDeployed \/ IssueMarkPending
  <2>1. UNCHANGED <<pc, lock, snap, ret>> /\ issuePc' = "release"
    BY <1>1, IssueSaves DEF deployVars
  <2>2. RunOwnsLock'
    BY <2>1 DEF RunOwnsLock, InRun
  <2>3. CASE UNCHANGED <<site, stale>>
    BY <2>1, <2>2, <2>3 DEF CopyIsFresh, IssueCopyIsFresh, IssueSaving
  <2>4. CASE Overtake
    <3>1. \A t \in Task : pc'[t] \in Holding => stale'[t]
      BY <2>1, <2>4, Zenon DEF Overtake
    <3>. QED
      BY <2>1, <2>2, <3>1 DEF CopyIsFresh, IssueCopyIsFresh, IssueSaving
  <2>. QED
    BY <1>1, <2>3, <2>4, IssueSaves
<1>2. CASE \/ RequestIssue \/ IssueAcquire \/ IssueLoad \/ IssueCertbot \/ IssueRelease \/ IssueReply
  <2>1. UNCHANGED <<site, stale, pc, lock, snap, ret>>
    BY <1>2, IssueReadsOnly DEF deployVars
  <2>2. RunOwnsLock' /\ CopyIsFresh'
    BY <2>1 DEF RunOwnsLock, InRun, CopyIsFresh
  <2>3. IssueCopyIsFresh'
    BY <1>2, <2>1 DEF RequestIssue, IssueAcquire, IssueLoad, IssueCertbot, IssueRelease, IssueReply,
       IssueGoto, IssueCopyIsFresh, IssueSaving, issueVars
  <2>. QED
    BY <2>2, <2>3
<1>. QED
  BY <1>1, <1>2 DEF IssueJob, IssueRun

LEMMA StepShares ==
  ASSUME ~RunsOutliveLock
  PROVE  PipelineTypeOK /\ SharedRow /\ [PipelineNext]_allVars => SharedRow'
<1> SUFFICES ASSUME PipelineTypeOK, SharedRow, [PipelineNext]_allVars PROVE SharedRow'
  OBVIOUS
<1> USE DEF SharedRow
<1>1. CASE [Next]_vars /\ Noticed
  <2>1. RunOwnsLock' /\ CopyIsFresh'
    BY <1>1, StepRunOwnsLock, StepCopyIsFresh DEF PipelineTypeOK
  <2>2. IssueCopyIsFresh'
    BY <1>1 DEF Noticed, IssueCopyIsFresh
  <2>. QED
    BY <2>1, <2>2
<1>2. CASE ProcessDies
  <2>1. RunOwnsLock' /\ CopyIsFresh'
    BY <1>2, DeathEndsRuns DEF RunOwnsLock, InRun, Locked, CopyIsFresh, Holding, Saving
  <2>2. IssueCopyIsFresh'
    BY <1>2, DeathEndsRuns DEF IssueCopyIsFresh, IssueSaving
  <2>. QED
    BY <2>1, <2>2
<1>3. CASE IssueJob
  BY <1>3, IssueJobShares
<1>. QED
  BY <1>1, <1>2, <1>3, StepKinds

LEMMA AlwaysShares ==
  ASSUME ~RunsOutliveLock
  PROVE  PipelineSpec => []SharedRow
<1>1. PipelineInit => SharedRow
  <2> SUFFICES ASSUME PipelineInit PROVE SharedRow
    OBVIOUS
  <2>1. RunOwnsLock /\ CopyIsFresh
    BY DEF PipelineInit, Init, RunOwnsLock, InRun, Locked, CopyIsFresh, Holding, Saving
  <2>. QED
    BY <2>1 DEF PipelineInit, SharedRow, IssueCopyIsFresh, IssueSaving
<1>. QED
  BY <1>1, StepShares, PipelineTypeCorrect, PTL DEF PipelineSpec

\* The issue job, which takes another lock, does not let two deploys of the site run
\* at the same time, nor does its death together with theirs.
THEOREM PipelineMutualExclusion ==
  ASSUME ~RunsOutliveLock
  PROVE  PipelineSpec => []OneRunAtATime
<1>1. SharedRow => OneRunAtATime
  BY DEF SharedRow, RunOwnsLock, OneRunAtATime
<1>. QED
  BY <1>1, AlwaysShares, PTL

\* As long as runs end within the TTL of the deploy lock, each pipeline moves the
\* row's real status along the table, unless the other one or the operator wrote the
\* row since it was read.
THEOREM WritesAreLegal ==
  ASSUME ~RunsOutliveLock
  PROVE  PipelineSpec => LegalUnlessOvertaken
<1> DEFINE Legal ==
      /\ IssueWritesRow /\ ~issueStale => EnsureSiteTransition(site.status, site'.status)
      /\ \A t \in Task :
           WritesRow(t) /\ ~stale[t] => EnsureSiteTransition(site.status, site'.status)
<1>1. PipelineTypeOK /\ SharedRow /\ [PipelineNext]_allVars => [Legal]_allVars
  <2> SUFFICES ASSUME PipelineTypeOK, SharedRow, [PipelineNext]_allVars PROVE Legal
    OBVIOUS
  <2>1. ASSUME IssueWritesRow, ~issueStale
        PROVE  EnsureSiteTransition(site.status, site'.status)
    <3>1. PICK status \in {"deployed", "ssl_pending"} :
            /\ issuePc \in IssueSaving
            /\ EnsureSiteTransition(issueCopy.status, status)
            /\ site' = [issueCopy EXCEPT !.status = status]
      BY <2>1, IssueWrites
    <3>2. issueCopy = site
      BY <2>1, <3>1 DEF SharedRow, IssueCopyIsFresh
    <3>3. site'.status = status
      BY <3>1 DEF PipelineTypeOK, Row
    <3>. QED
      BY <3>1, <3>2, <3>3
  <2>2. ASSUME NEW t \in Task, WritesRow(t), ~stale[t]
        PROVE  EnsureSiteTransition(site.status, site'.status)
    <3>1. TypeOK /\ [Next]_vars
      BY <2>2, DeployWrites DEF PipelineTypeOK
    <3>2. PICK status \in SiteStatus : /\ pc[t] \in Saving
                                       /\ EnsureSiteTransition(snap[t].status, status)
                                       /\ site' = [snap[t] EXCEPT !.status = status]
      BY <2>2, <3>1, RowWrites
    <3>3. snap[t] = site
      BY <2>2, <3>2 DEF SharedRow, CopyIsFresh, Holding, Saving
    <3>4. site'.status = status
      BY <3>1, <3>2 DEF TypeOK, Row
    <3>. QED
      BY <3>2, <3>3, <3>4
  <2>. QED
    BY <2>1, <2>2
<1>. QED
  BY <1>1, PipelineTypeCorrect, AlwaysShares, PTL DEF PipelineSpec, LegalUnlessOvertaken
-----------------------------------------------------------------------------
(* A deleted row *)

\* No step of SiteDeploy writes a row that is not there: every save and every edit
\* asks for it.
LEMMA DeletedIsLeftAlone ==
  ASSUME [Next]_vars, site.status = Deleted
  PROVE  site' = site
<1>1. ASSUME NEW t \in Task, \/ MarkDeploying(t) \/ MarkDeployFailed(t)
                             \/ MarkDeployed(t) \/ MarkSslPending(t)
      PROVE site' = site
  BY <1>1, MarksSave DEF Save
<1>2. ASSUME NEW t \in Task,
             \/ EnqueueDeploy(t) \/ Acquire(t) \/ CreateLog(t) \/ Load(t) \/ RunCommands(t)
             \/ IssueCertificate(t) \/ EnqueueIssue(t) \/ FinishLog(t) \/ Release(t) \/ Reply(t)
      PROVE site' = site
  BY <1>2 DEF EnqueueDeploy, Acquire, CreateLog, Load, RunCommands, IssueCertificate,
              EnqueueIssue, FinishLog, Release, Reply
<1>3. ~OperatorDelete /\ \A status \in FormStatus : ~OperatorUpdate(status)
  BY DEF OperatorDelete, OperatorUpdate
<1>4. CASE LockExpires \/ Crash \/ UNCHANGED vars
  BY <1>4 DEF LockExpires, Crash, vars
<1>. QED
  BY <1>1, <1>2, <1>3, <1>4 DEF Next, Run, Environment

\* A deleted site stays deleted, however long a lock lasts and whatever copies of the
\* row are still held.
THEOREM DeletionIsFinal == PipelineSpec => DeletedStaysDeleted
<1>1. PipelineTypeOK /\ [PipelineNext]_allVars
        => [site.status = Deleted => site'.status = Deleted]_allVars
  <2> SUFFICES ASSUME PipelineTypeOK, [PipelineNext]_allVars, site.status = Deleted
               PROVE  site' = site
    OBVIOUS
  <2>1. CASE [Next]_vars
    BY <2>1, DeletedIsLeftAlone
  <2>2. CASE ProcessDies
    BY <2>2, DeathEndsRuns
  <2>3. CASE IssueJob
    BY <2>3, IssueSaves, IssueReadsOnly DEF IssueJob, IssueRun
  <2>. QED
    BY <2>1, <2>2, <2>3, StepKinds
<1>. QED
  BY <1>1, PipelineTypeCorrect, PTL DEF PipelineSpec, DeletedStaysDeleted
-----------------------------------------------------------------------------
(* A settled site is not left deploying *)

\* The steps from the write of deploying to the write of an outcome.
Concluding == Saving \ {"mark"}

\* Nothing failed, nobody died, no operator wrote the row.
Untouched == edits = 0 /\ faults = 0 /\ crashes = 0

\* A row that says deploying has a run that is still going to write an outcome, and
\* that the table will let do so, because its own copy says deploying.
DeployingIsOwed ==
  /\ site.status # Deleted
  /\ site.status = "deploying" => \E t \in Task : pc[t] \in Concluding
  /\ \A t \in Task : pc[t] \in Concluding => snap[t].status = "deploying"

OwedIfUntouched == Untouched => DeployingIsOwed

\* Without a fault, a save fails only on a missing row or a forbidden transition.
LEMMA SaveUntouched ==
  ASSUME TypeOK, NEW t \in Task, NEW status \in SiteStatus, NEW next \in Step,
         Save(t, status, next), Untouched'
  PROVE  /\ Untouched
         /\ \/ /\ site' = [snap[t] EXCEPT !.status = status] /\ site'.status = status
               /\ snap' = [snap EXCEPT ![t] = [snap[t] EXCEPT !.status = status]]
               /\ snap'[t].status = status
               /\ pc' = [pc EXCEPT ![t] = next]
            \/ /\ site.status = Deleted \/ ~EnsureSiteTransition(snap[t].status, status)
               /\ UNCHANGED <<site, snap>>
               /\ pc' = [pc EXCEPT ![t] = "finish"]
<1> USE DEF Untouched
<1>1. CASE PutRow(t, [snap[t] EXCEPT !.status = status], [snap[t] EXCEPT !.status = status], next)
  BY <1>1 DEF PutRow, Goto, TypeOK, Row
<1>2. CASE /\ CallFails(\/ site.status = Deleted
                        \/ ~EnsureSiteTransition(snap[t].status, status))
           /\ Abort(t, "err")
           /\ UNCHANGED <<site, lock, task, tries, snap, stale, log, issueTask, edits, crashes>>
  BY <1>2 DEF CallFails, Abort, Goto, TypeOK
<1>. QED
  BY <1>1, <1>2 DEF Save

\* The table lets a deploying site get any outcome.
LEMMA OutcomesAllowed ==
  \A status \in {"deployed", "deploy_failed", "ssl_pending"} :
    EnsureSiteTransition("deploying", status)
  BY DEF EnsureSiteTransition, EnsureTransition, SiteTransitions, NoStatus

\* The write of an outcome, by run t.
LEMMA OutcomeSettles ==
  ASSUME TypeOK, OwedIfUntouched, Untouched', NEW t \in Task, pc[t] \in Concluding,
         NEW status \in {"deployed", "deploy_failed", "ssl_pending"},
         NEW next \in {"finish", "enqueueIssue"}, Save(t, status, next)
  PROVE  DeployingIsOwed'
<1>1. status \in SiteStatus /\ next \in Step /\ status # Deleted /\ status # "deploying"
  BY DEF SiteStatus, Step, Locked, Deleted
<1>2. Untouched /\ DeployingIsOwed
  BY <1>1, SaveUntouched DEF OwedIfUntouched
<1>3. /\ site'.status = status
      /\ snap' = [snap EXCEPT ![t] = [snap[t] EXCEPT !.status = status]]
      /\ pc' = [pc EXCEPT ![t] = next]
  BY <1>1, <1>2, SaveUntouched, OutcomesAllowed DEF DeployingIsOwed
<1>. QED
  BY <1>1, <1>2, <1>3 DEF DeployingIsOwed, TypeOK, Concluding, Saving

LEMMA DeployOwes ==
  ASSUME TypeOK, RunsAreActive, OwedIfUntouched, [Next]_vars
  PROVE  OwedIfUntouched'
<1> SUFFICES ASSUME Untouched' PROVE DeployingIsOwed'
  BY DEF OwedIfUntouched
<1>0. Untouched => DeployingIsOwed
  BY DEF OwedIfUntouched
<1> USE DEF Untouched, Concluding, Saving
<1>1. ASSUME NEW t \in Task, EnqueueDeploy(t) PROVE DeployingIsOwed'
  BY <1>0, <1>1 DEF EnqueueDeploy, DeployingIsOwed
<1>2. ASSUME NEW t \in Task, Acquire(t) PROVE DeployingIsOwed'
  <2>1. /\ UNCHANGED <<site, snap, edits, crashes>>
        /\ faults' = faults \/ faults' = faults + 1
        /\ pc' = [pc EXCEPT ![t] = "log"] \/ pc' = [pc EXCEPT ![t] = "reply"]
    BY <1>2 DEF Acquire, Goto, CallFails
  <2>2. pc[t] \notin Concluding
    BY <1>2 DEF Acquire, RunsAreActive
  <2>. QED
    BY <1>0, <2>1, <2>2 DEF DeployingIsOwed, TypeOK
<1>3. ASSUME NEW t \in Task, \/ CreateLog(t) \/ EnqueueIssue(t) \/ FinishLog(t) \/ Reply(t)
                             \/ RunCommands(t) \/ IssueCertificate(t)
      PROVE DeployingIsOwed'
  <2>1. Untouched /\ UNCHANGED <<site, snap>>
    BY <1>3 DEF CreateLog, EnqueueIssue, FinishLog, Reply, RunCommands, IssueCertificate,
       CallFails, TypeOK
  <2>2. \A u \in Task : pc'[u] \in Concluding <=> pc[u] \in Concluding
    BY <1>3 DEF CreateLog, EnqueueIssue, FinishLog, Reply, RunCommands, IssueCertificate,
       Goto, TypeOK
  <2>. QED
    BY <1>0, <2>1, <2>2 DEF DeployingIsOwed
<1>4. ASSUME NEW t \in Task, Load(t) PROVE DeployingIsOwed'
  <2>1. Untouched /\ site' = site
    BY <1>4 DEF Load, CallFails, TypeOK
  <2>2. \A u \in Task : pc'[u] \in Concluding <=> pc[u] \in Concluding
    BY <1>4 DEF Load, Abort, Goto, TypeOK
  <2>3. \A u \in Task : pc[u] \in Concluding => snap'[u] = snap[u]
    BY <1>4 DEF Load, TypeOK
  <2>. QED
    BY <1>0, <2>1, <2>2, <2>3 DEF DeployingIsOwed
<1>5. ASSUME NEW t \in Task, MarkDeploying(t) PROVE DeployingIsOwed'
  <2>1. pc[t] = "mark" /\ Save(t, "deploying", "commands")
    BY <1>5 DEF MarkDeploying
  <2>2. Untouched /\ (\/ /\ site'.status = "deploying"
                         /\ snap' = [snap EXCEPT ![t] = [snap[t] EXCEPT !.status = "deploying"]]
                         /\ snap'[t].status = "deploying"
                         /\ pc' = [pc EXCEPT ![t] = "commands"]
                      \/ /\ UNCHANGED <<site, snap>>
                         /\ pc' = [pc EXCEPT ![t] = "finish"])
    BY <2>1, SaveUntouched DEF SiteStatus, Step, Locked
  <2>. QED
    BY <1>0, <2>1, <2>2 DEF DeployingIsOwed, TypeOK, Deleted
<1>6. ASSUME NEW t \in Task, MarkDeployFailed(t) PROVE DeployingIsOwed'
  BY <1>6, OutcomeSettles DEF MarkDeployFailed
<1>7. ASSUME NEW t \in Task, MarkDeployed(t) PROVE DeployingIsOwed'
  BY <1>7, OutcomeSettles DEF MarkDeployed
<1>8. ASSUME NEW t \in Task, MarkSslPending(t) PROVE DeployingIsOwed'
  BY <1>8, OutcomeSettles DEF MarkSslPending
<1>9. ASSUME NEW t \in Task, Release(t) PROVE DeployingIsOwed'
  <2>1. Untouched /\ site' = site
    BY <1>9 DEF Release, CallFails, TypeOK
  <2>2. \A u \in Task : pc'[u] \in Concluding <=> pc[u] \in Concluding
    BY <1>9 DEF Release, Goto, TypeOK
  <2>3. \A u \in Task : pc[u] \in Concluding => snap'[u] = snap[u]
    BY <1>9 DEF Release, TypeOK
  <2>. QED
    BY <1>0, <2>1, <2>2, <2>3 DEF DeployingIsOwed
<1>10. ASSUME NEW status \in FormStatus, OperatorUpdate(status) PROVE FALSE
  BY <1>10 DEF OperatorUpdate, TypeOK
<1>11. ASSUME OperatorDelete \/ Crash PROVE FALSE
  BY <1>11 DEF OperatorDelete, Crash, TypeOK
<1>12. CASE LockExpires \/ UNCHANGED vars
  BY <1>0, <1>12 DEF LockExpires, vars, DeployingIsOwed
<1>. QED
  BY <1>1, <1>2, <1>3, <1>4, <1>5, <1>6, <1>7, <1>8, <1>9, <1>10, <1>11, <1>12
     DEF Next, Run, Environment

\* The issue job never writes deploying: it can only relieve a run of its debt.
LEMMA IssueJobOwes ==
  ASSUME PipelineTypeOK, OwedIfUntouched, IssueJob
  PROVE  OwedIfUntouched'
<1> SUFFICES ASSUME Untouched' PROVE DeployingIsOwed'
  BY DEF OwedIfUntouched
<1>1. Untouched /\ UNCHANGED <<pc, snap>>
  BY IssueSaves, IssueReadsOnly
     DEF IssueJob, IssueRun, Untouched, deployVars, PipelineTypeOK, TypeOK
<1>2. DeployingIsOwed
  BY <1>1 DEF OwedIfUntouched
<1>3. CASE site' = site
  BY <1>1, <1>2, <1>3 DEF DeployingIsOwed
<1>4. ASSUME NEW status \in {"deployed", "ssl_pending"},
             site' = [issueCopy EXCEPT !.status = status]
      PROVE  DeployingIsOwed'
  <2>1. site'.status = status
    BY <1>4 DEF PipelineTypeOK, Row
  <2>. QED
    BY <1>1, <1>2, <2>1 DEF DeployingIsOwed, Deleted
<1>. QED
  BY <1>3, <1>4, IssueSaves, IssueReadsOnly DEF IssueJob, IssueRun

\* When all deploys of a site have settled and nothing failed, nobody died and no
\* operator wrote the row, the site is not left deploying: whatever the issue job
\* wrote in between, and even if a lock ran out under a live run.
THEOREM SettledIsConcluded == PipelineSpec => []QuietMeansConcluded
<1>1. PipelineInit => OwedIfUntouched /\ RunsAreActive
  <2> SUFFICES ASSUME Init PROVE OwedIfUntouched /\ RunsAreActive
    BY DEF PipelineInit
  <2>1. site.status = "draft" /\ \A t \in Task : pc[t] = "idle"
    BY DEF Init
  <2>. QED
    BY <2>1 DEF OwedIfUntouched, DeployingIsOwed, RunsAreActive, Concluding, Saving, Deleted
<1>2. PipelineTypeOK /\ RunsAreActive /\ OwedIfUntouched /\ [PipelineNext]_allVars => OwedIfUntouched'
  <2> SUFFICES ASSUME PipelineTypeOK, RunsAreActive, OwedIfUntouched, [PipelineNext]_allVars
               PROVE  OwedIfUntouched'
    OBVIOUS
  <2>1. CASE [Next]_vars
    BY <2>1, DeployOwes DEF PipelineTypeOK
  <2>2. CASE ProcessDies
    BY <2>2 DEF ProcessDies, OwedIfUntouched, Untouched, PipelineTypeOK, TypeOK
  <2>3. CASE IssueJob
    BY <2>3, IssueJobOwes
  <2>. QED
    BY <2>1, <2>2, <2>3, StepKinds
<1>3. PipelineTypeOK /\ RunsAreActive /\ [PipelineNext]_allVars => RunsAreActive'
  <2> SUFFICES ASSUME PipelineTypeOK, RunsAreActive, [PipelineNext]_allVars
               PROVE  RunsAreActive'
    OBVIOUS
  <2>1. CASE [Next]_vars
    BY <2>1, StepRunsAreActive DEF PipelineTypeOK
  <2>2. CASE ProcessDies
    BY <2>2, DeathEndsRuns DEF RunsAreActive
  <2>3. CASE IssueJob
    BY <2>3, IssueSaves, IssueReadsOnly DEF IssueJob, IssueRun, deployVars, RunsAreActive
  <2>. QED
    BY <2>1, <2>2, <2>3, StepKinds
<1>4. OwedIfUntouched /\ RunsAreActive => QuietMeansConcluded
  BY DEF OwedIfUntouched, Untouched, DeployingIsOwed, RunsAreActive, Concluding, Saving,
         QuietMeansConcluded, Settled
<1>. QED
  BY <1>1, <1>2, <1>3, <1>4, PipelineTypeCorrect, PTL DEF PipelineSpec
=============================================================================
