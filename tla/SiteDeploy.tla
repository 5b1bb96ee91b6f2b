----------------------------- MODULE SiteDeploy -----------------------------
(***************************************************************************)
(* The deploy pipeline of ONE site: tasks "deploy_site" queued in Asynq by *)
(* the HTTP handler or the webhook, workers that run ExecuteDeploy under   *)
(* the Redis lock "lock:site:deploy:<id>", the site's row in PostgreSQL    *)
(* that every run reads once and writes back whole, the task log of each   *)
(* run, and the operator who edits or deletes the row meanwhile.           *)
(*                                                                         *)
(* Sites do not interact here: the lock, the row and the logs are keyed by *)
(* site.  A run is one action per external call, because a crash or another *)
(* actor can come between any two of them.  The SSH script, the columns    *)
(* other than the status, and the texts of logs and alerts are abstracted. *)
(***************************************************************************)
EXTENDS Naturals, Lifecycle

CONSTANTS
  Task,             \* the deploy tasks that may be enqueued for the site
  NoTask,           \* value of the lock key when it is absent
  Dead,             \* value of the lock key left behind by a run that is gone
  MaxRetry,         \* how often Asynq retries a failed task
  FormStatus,       \* statuses an operator's PUT may carry (the API checks none)
  RunsOutliveLock,  \* may a run take longer than the lock's TTL of 15 minutes?
  MaxEdits,         \* bound: operator writes of the row
  MaxFaults,        \* bound: failing database or Redis calls, servers not ready
  MaxCrashes        \* bound: deaths of the API process

ASSUME DeployAssumption ==
  /\ NoTask \notin Task /\ Dead \notin Task /\ NoTask # Dead
  /\ RunsOutliveLock \in BOOLEAN
  /\ MaxRetry \in Nat /\ MaxEdits \in Nat /\ MaxFaults \in Nat /\ MaxCrashes \in Nat
  /\ "deleted" \notin FormStatus

VARIABLES
  site,       \* the row: its status ("deleted" when there is no row) and cfg,
              \*   the operator's edit its other columns come from
  lock,       \* owner of the Redis key; Redis itself stores only "1"
  task,       \* Asynq's state of each task
  tries,      \* retries Asynq has charged to the task
  pc,         \* where the task's run stands in ExecuteDeploy
  snap,       \* the run's in-memory copy of the row
  ret,        \* the result the run is about to return
  stale,      \* has the operator written the row since the run read it?
  log,        \* the task log of the task's latest run
  issueTask,  \* Asynq's state of the task with ID "ssl-issue:<site>"
  edits, faults, crashes

vars == <<site, lock, task, tries, pc, snap, ret, stale, log, issueTask,
          edits, faults, crashes>>
-----------------------------------------------------------------------------
Deleted == "deleted"
Row == [status : SiteStatus \cup FormStatus \cup {Deleted}, cfg : 0..MaxEdits]

\* A site nobody has: the copy of a run that has not read, or is over.
NoRow == [status |-> Deleted, cfg |-> 0]

TaskState == {"idle", "pending", "active", "retry", "done", "archived"}

\* The steps of a run.  From "log" to "release" it is inside the lock.
Saving  == {"mark", "commands", "cert", "markFailed", "markPending", "markDeployed"}
Locked  == {"log", "load", "enqueueIssue", "finish", "release"} \cup Saving
Holding == {"enqueueIssue", "finish"} \cup Saving  \* its copy of the row is live
Step    == {"idle", "reply"} \cup Locked

\* "unrecorded" is a row that still says running because Finish failed.
LogState == {"none", "running", "success", "failed", "unrecorded"}

InRun(t)   == pc[t] \in Locked
Settled(t) == task[t] \in {"done", "archived"}

Goto(t, step) == pc' = [pc EXCEPT ![t] = step]

\* A call that can fail: because of the state (certain), or by a fault.
CallFails(certain) ==
  \/ certain /\ UNCHANGED faults
  \/ ~certain /\ faults < MaxFaults /\ faults' = faults + 1

\* An error return: the log entry is closed as failed on the way out.
Abort(t, result) == ret' = [ret EXCEPT ![t] = result] /\ Goto(t, "finish")
-----------------------------------------------------------------------------
Init ==
  /\ site = [status |-> "draft", cfg |-> 0]
  /\ lock = NoTask
  /\ task = [t \in Task |-> "idle"]
  /\ tries = [t \in Task |-> 0]
  /\ pc = [t \in Task |-> "idle"]
  /\ snap = [t \in Task |-> NoRow]
  /\ ret = [t \in Task |-> "nil"]
  /\ stale = [t \in Task |-> FALSE]
  /\ log = [t \in Task |-> "none"]
  /\ issueTask = "absent"
  /\ edits = 0 /\ faults = 0 /\ crashes = 0

\* EnqueueDeploy gives the task no TaskID: the same site can be queued twice.
EnqueueDeploy(t) ==
  /\ task[t] = "idle"
  /\ task' = [task EXCEPT ![t] = "pending"]
  /\ UNCHANGED <<site, lock, tries, pc, snap, ret, stale, log, issueTask,
                 edits, faults, crashes>>

\* Mutant: the key is set whether or not it is there.
Acquire_Unlocked(t) ==
  /\ task[t] \in {"pending", "retry"}
  /\ task' = [task EXCEPT ![t] = "active"]
  /\ lock' = t
  /\ ret' = [ret EXCEPT ![t] = "nil"]
  /\ Goto(t, "log")
  /\ UNCHANGED <<site, tries, snap, stale, log, issueTask, edits, faults, crashes>>

\* A worker takes the task; SetNX on the key decides.  A key that is held
\* makes ExecuteDeploy return nil at once.
Acquire(t) ==
  /\ task[t] \in {"pending", "retry"}
  /\ task' = [task EXCEPT ![t] = "active"]
  /\ \/ /\ lock = NoTask
        /\ lock' = t
        /\ ret' = [ret EXCEPT ![t] = "nil"]
        /\ Goto(t, "log")
        /\ UNCHANGED faults
     \/ /\ lock # NoTask
        /\ ret' = [ret EXCEPT ![t] = "nil"]
        /\ Goto(t, "reply")
        /\ UNCHANGED <<lock, faults>>
     \/ /\ CallFails(FALSE)
        /\ ret' = [ret EXCEPT ![t] = "err"]
        /\ Goto(t, "reply")
        /\ UNCHANGED lock
  /\ UNCHANGED <<site, tries, snap, stale, log, issueTask, edits, crashes>>

\* The error of taskLogs.Create is ignored; the run then goes unlogged.
CreateLog(t) ==
  /\ pc[t] = "log"
  /\ \/ log' = [log EXCEPT ![t] = "running"] /\ UNCHANGED faults
     \/ log' = [log EXCEPT ![t] = "none"] /\ CallFails(FALSE)
  /\ Goto(t, "load")
  /\ UNCHANGED <<site, lock, task, tries, snap, ret, stale, issueTask, edits, crashes>>

\* Reads the site and its server.  A missing row, a failed read and a server
\* that is not ready are errors; a status that cannot go to deploying is
\* SkipRetry.
Load(t) ==
  /\ pc[t] = "load"
  /\ \/ /\ EnsureSiteTransition(site.status, "deploying")
        /\ snap' = [snap EXCEPT ![t] = site]
        /\ stale' = [stale EXCEPT ![t] = FALSE]
        /\ Goto(t, "mark")
        /\ UNCHANGED <<ret, faults>>
     \/ /\ site.status # Deleted
        /\ ~EnsureSiteTransition(site.status, "deploying")
        /\ Abort(t, "skip")
        /\ UNCHANGED <<snap, stale, faults>>
     \/ /\ CallFails(site.status = Deleted)
        /\ Abort(t, "err")
        /\ UNCHANGED <<snap, stale>>
  /\ UNCHANGED <<site, lock, task, tries, log, issueTask, edits, crashes>>

\* The statement that writes a row, and what goes with it when it succeeds.
PutRow(t, row, copy, next) ==
  /\ site' = row
  /\ snap' = [snap EXCEPT ![t] = copy]
  /\ Goto(t, next)
  /\ UNCHANGED <<lock, task, tries, ret, stale, log, issueTask, edits, faults, crashes>>

\* Mutant: the row is written, the run's copy keeps its old status.
Save_CopyBehind(t, status, next) ==
  site.status # Deleted /\ PutRow(t, [snap[t] EXCEPT !.status = status], snap[t], next)

\* Mutant: the row is built afresh from the status alone.
Save_FreshRow(t, status, next) ==
  /\ site.status # Deleted
  /\ PutRow(t, [status |-> status, cfg |-> 0], [snap[t] EXCEPT !.status = status], next)

\* Mutant: an upsert, which does not mind that the row is gone.
Save_Upsert(t, status, next) ==
  PutRow(t, [snap[t] EXCEPT !.status = status], [snap[t] EXCEPT !.status = status], next)

\* siteRepo.Update: the transition is judged on the run's own copy, and the
\* copy replaces the row whole.  Any failure ends the run with an error.
Save(t, status, next) ==
  LET copy == [snap[t] EXCEPT !.status = status] IN
  \/ /\ EnsureSiteTransition(snap[t].status, status)
     /\ site.status # Deleted
     /\ PutRow(t, copy, copy, next)
  \/ /\ CallFails(\/ site.status = Deleted
                  \/ ~EnsureSiteTransition(snap[t].status, status))
     /\ Abort(t, "err")
     /\ UNCHANGED <<site, lock, task, tries, snap, stale, log, issueTask, edits, crashes>>

MarkDeploying(t) == pc[t] = "mark" /\ Save(t, "deploying", "commands")

\* Mutant: the error of a command is not kept for the return.
RunCommands_Swallow(t) ==
  /\ pc[t] = "commands"
  /\ Goto(t, "cert") \/ Goto(t, "markFailed")
  /\ UNCHANGED <<site, lock, task, tries, snap, ret, stale, log, issueTask,
                 edits, faults, crashes>>

\* Mutant: a failed command returns at once, without writing deploy_failed.
RunCommands_NoMark(t) ==
  /\ pc[t] = "commands"
  /\ (Goto(t, "cert") /\ UNCHANGED ret) \/ Abort(t, "err")
  /\ UNCHANGED <<site, lock, task, tries, snap, stale, log, issueTask,
                 edits, faults, crashes>>

\* The SSH commands up to the first that fails.  (EnsureDefaultRules of
\* infra/security always succeeds, so its error branch cannot be taken.)
RunCommands(t) ==
  /\ pc[t] = "commands"
  /\ \/ Goto(t, "cert") /\ UNCHANGED ret
     \/ Goto(t, "markFailed") /\ ret' = [ret EXCEPT ![t] = "err"]
  /\ UNCHANGED <<site, lock, task, tries, snap, stale, log, issueTask,
                 edits, faults, crashes>>

MarkDeployFailed(t) == pc[t] = "markFailed" /\ Save(t, "deploy_failed", "finish")

\* Certificates of aliases are best effort; the main domain's decides.
IssueCertificate(t) ==
  /\ pc[t] = "cert"
  /\ \E next \in {"markDeployed", "markPending"} : Goto(t, next)
  /\ UNCHANGED <<site, lock, task, tries, snap, ret, stale, log, issueTask,
                 edits, faults, crashes>>

MarkDeployed(t) == pc[t] = "markDeployed" /\ Save(t, "deployed", "finish")

MarkSslPending(t) == pc[t] = "markPending" /\ Save(t, "ssl_pending", "enqueueIssue")

\* The error of EnqueueIssue is ignored, a conflict of task IDs included.
EnqueueIssue(t) ==
  /\ pc[t] = "enqueueIssue"
  /\ \/ issueTask' = (IF issueTask = "absent" THEN "pending" ELSE issueTask)
        /\ UNCHANGED faults
     \/ CallFails(FALSE) /\ UNCHANGED issueTask
  /\ Goto(t, "finish")
  /\ UNCHANGED <<site, lock, task, tries, snap, ret, stale, log, edits, crashes>>

\* finishLog: success exactly when ExecuteDeploy returns nil.
FinishLog(t) ==
  /\ pc[t] = "finish"
  /\ \/ /\ log' = [log EXCEPT ![t] = IF log[t] = "none" THEN "none"
                                    ELSE IF ret[t] = "nil" THEN "success" ELSE "failed"]
        /\ UNCHANGED faults
     \/ /\ log[t] # "none" /\ CallFails(FALSE)
        /\ log' = [log EXCEPT ![t] = "unrecorded"]
  /\ Goto(t, "release")
  /\ UNCHANGED <<site, lock, task, tries, snap, ret, stale, issueTask, edits, crashes>>

\* The deferred DEL removes the key whoever owns it; its error is ignored.
Release(t) ==
  /\ pc[t] = "release"
  /\ \/ lock' = NoTask /\ UNCHANGED faults
     \/ /\ CallFails(FALSE)
        /\ lock' = IF lock = t THEN Dead ELSE lock
  /\ snap' = [snap EXCEPT ![t] = NoRow]
  /\ stale' = [stale EXCEPT ![t] = FALSE]
  /\ Goto(t, "reply")
  /\ UNCHANGED <<site, task, tries, ret, log, issueTask, edits, crashes>>

\* Mutant: every failed task is retried, and the retry is not charged.
Reply_FreeRetry(t) ==
  /\ pc[t] = "reply"
  /\ task' = [task EXCEPT ![t] = IF ret[t] = "err" THEN "retry" ELSE "done"]
  /\ Goto(t, "idle")
  /\ UNCHANGED <<site, lock, tries, snap, ret, stale, log, issueTask, edits, faults, crashes>>

\* Mutant: the handler acknowledges a failed task.
Reply_AckErrors(t) ==
  /\ pc[t] = "reply"
  /\ task' = [task EXCEPT ![t] = "done"]
  /\ Goto(t, "idle")
  /\ UNCHANGED <<site, lock, tries, snap, ret, stale, log, issueTask, edits, faults, crashes>>

\* The worker's handler.  nil sends the alert "Site deployed successfully"
\* and acknowledges the task: "done" stands for both.
Reply(t) ==
  /\ pc[t] = "reply"
  /\ \/ /\ ret[t] = "nil"
        /\ task' = [task EXCEPT ![t] = "done"] /\ UNCHANGED tries
     \/ /\ ret[t] = "err" /\ tries[t] < MaxRetry
        /\ task' = [task EXCEPT ![t] = "retry"]
        /\ tries' = [tries EXCEPT ![t] = @ + 1]
     \/ /\ ret[t] = "skip" \/ (ret[t] = "err" /\ tries[t] = MaxRetry)
        /\ task' = [task EXCEPT ![t] = "archived"] /\ UNCHANGED tries
  /\ Goto(t, "idle")
  /\ UNCHANGED <<site, lock, snap, ret, stale, log, issueTask, edits, faults, crashes>>
-----------------------------------------------------------------------------
\* Every copy of the row that some run holds is out of date after this.
Overtake == stale' = [t \in Task |-> stale[t] \/ pc[t] \in Holding]

\* PUT /sites/:id writes a row built from the form, its status included.
OperatorUpdate(status) ==
  /\ site.status # Deleted /\ edits < MaxEdits
  /\ edits' = edits + 1
  /\ site' = [status |-> status, cfg |-> edits']
  /\ Overtake
  /\ UNCHANGED <<lock, task, tries, pc, snap, ret, log, issueTask, faults, crashes>>

OperatorDelete ==
  /\ site.status # Deleted /\ edits < MaxEdits
  /\ edits' = edits + 1
  /\ site' = NoRow
  /\ Overtake
  /\ UNCHANGED <<lock, task, tries, pc, snap, ret, log, issueTask, faults, crashes>>

\* Mutant: the key is set without a TTL.
LockExpires_NoTTL == FALSE /\ UNCHANGED vars

\* The TTL runs out.  It ends the lock of a live run only if runs may be that
\* slow: no timeout bounds a remote command.
LockExpires ==
  /\ lock = Dead \/ (lock \in Task /\ RunsOutliveLock)
  /\ lock' = NoTask
  /\ UNCHANGED <<site, task, tries, pc, snap, ret, stale, log, issueTask,
                 edits, faults, crashes>>

\* What the death of the API process does to the deploy runs: Asynq delivers
\* their tasks again, their memory is gone, the key stays until its TTL.
LoseRuns ==
  /\ task' = [t \in Task |-> IF task[t] = "active" THEN "pending" ELSE task[t]]
  /\ pc' = [t \in Task |-> "idle"]
  /\ snap' = [t \in Task |-> NoRow]
  /\ stale' = [t \in Task |-> FALSE]
  /\ lock' = IF lock \in Task THEN Dead ELSE lock

Crash ==
  /\ crashes < MaxCrashes /\ crashes' = crashes + 1
  /\ \E t \in Task : task[t] = "active"
  /\ LoseRuns
  /\ UNCHANGED <<site, tries, ret, log, issueTask, edits, faults>>

Run(t) ==
  \/ Acquire(t) \/ CreateLog(t) \/ Load(t) \/ MarkDeploying(t) \/ RunCommands(t)
  \/ MarkDeployFailed(t) \/ IssueCertificate(t) \/ MarkDeployed(t)
  \/ MarkSslPending(t) \/ EnqueueIssue(t) \/ FinishLog(t) \/ Release(t) \/ Reply(t)

Environment ==
  \/ \E status \in FormStatus : OperatorUpdate(status)
  \/ OperatorDelete \/ LockExpires \/ Crash

Next == (\E t \in Task : EnqueueDeploy(t) \/ Run(t)) \/ Environment

Spec == Init /\ [][Next]_vars

\* Workers take queued tasks and go on; remote commands return; a TTL ends.
\* Nothing obliges an operator to act or the process to die.
Fairness == WF_vars(LockExpires) /\ \A t \in Task : WF_vars(Run(t))

FairSpec == Spec /\ Fairness
-----------------------------------------------------------------------------
(* Properties *)

\* Every variable stays in its range.
TypeOK ==
  /\ site \in Row
  /\ lock \in Task \cup {NoTask, Dead}
  /\ task \in [Task -> TaskState]
  /\ tries \in [Task -> 0..MaxRetry]
  /\ pc \in [Task -> Step]
  /\ snap \in [Task -> Row]
  /\ ret \in [Task -> {"nil", "err", "skip"}]
  /\ stale \in [Task -> BOOLEAN]
  /\ log \in [Task -> LogState]
  /\ issueTask \in {"absent", "pending", "active", "retry", "archived"}
  /\ edits \in 0..MaxEdits /\ faults \in 0..MaxFaults /\ crashes \in 0..MaxCrashes

\* Two runs of ExecuteDeploy never work on the site at the same time, whatever
\* fails or dies: "the distributed lock inside ExecuteDeploy prevents parallel
\* runs" (EnqueueDeploy).  Needs runs that end within the lock's TTL.
OneRunAtATime == \A s, t \in Task : InRun(s) /\ InRun(t) => s = t

\* Between reading the row and returning, a run that no operator overtook
\* holds a copy that equals the row, so judging a transition on the copy (as
\* ExecuteDeploy does) is judging it on the row.
CopyIsFresh ==
  \A t \in Task :
    /\ pc[t] \in Holding /\ (pc[t] = "finish" => ret[t] = "nil")
    /\ ~stale[t]
    => snap[t] = site

\* The step of a run that writes the row.
WritesRow(t) == pc'[t] # pc[t] /\ site' # site

\* A run's write moves the row's real status along the table of
\* lifecycle/status.go, unless an operator wrote the row during the run.
LegalStatusChange ==
  [][\A t \in Task : WritesRow(t) /\ ~stale[t]
                        => EnsureSiteTransition(site.status, site'.status)]_vars

\* A run's whole-row write undoes an operator's edit only if the edit was made
\* during that run: no copy outlives the run (or the process) that read it.
NoLostEdit ==
  [][\A t \in Task : WritesRow(t) /\ ~stale[t] => site'.cfg = site.cfg]_vars

\* When a run records success in its task log, the row says deployed or
\* ssl_pending, unless an operator wrote it during the run.
LogTellsTheTruth ==
  [][\A t \in Task : log'[t] = "success" /\ log[t] # "success" /\ ~stale[t]
                        => site.status \in {"deployed", "ssl_pending"}]_vars

\* Seen from its row, the site is deployed as SerialDeploys promises: one deploy
\* at a time, at most one outcome each, no resurrection of a deleted row.
Serial == INSTANCE SerialDeploys WITH
  OperatorStatus <- FormStatus \cup {Deleted},
  status  <- site.status,
  phase   <- IF \E t \in Task : pc[t] = "mark" THEN "looked"
             ELSE IF \E t \in Task : pc[t] \in Saving THEN "deploying" ELSE "idle",
  touched <- \E t \in Task : pc[t] \in Saving /\ stale[t]

ImplementsSerialDeploys == Serial!Spec

\* The alert that a site was deployed, which goes with the acknowledgement of a
\* task, is true: some run of the site has succeeded and said so in its log.
DeployedAlertIsTrue ==
  \A t \in Task : task[t] = "done" => \E u \in Task : log[u] = "success"

\* With one failing call at most and no death of the process, a run that has
\* marked the site deploying does not leave it so, whatever an operator's form
\* writes meanwhile ("deploying" included): a run writes an outcome, or its task is
\* retried until it is archived, which the operator is told of.  A form that puts
\* "deploying" back when the run has written its outcome is not covered: no task
\* stands behind such a row, and nothing ever moves it on.
NotStuckDeploying ==
  \A t \in Task :
    site.status = "deploying" /\ pc[t] \in Saving \ {"mark"} ~>
      \/ site.status # "deploying"
      \/ crashes > 0 \/ \E u \in Task : task[u] = "archived"

\* Every queued deploy is in the end acknowledged or archived.
TasksSettle == \A t \in Task : task[t] = "pending" ~> Settled(t)

\* The lock is never lost: a site can always be deployed again later.
LockComesFree == []<>(lock = NoTask)
=============================================================================
