------------------------- MODULE SiteDeploy_proofs -------------------------
(***************************************************************************)
(* Theorems about the deploy pipeline of SiteDeploy, for any set of tasks  *)
(* and any bounds.                                                         *)
(***************************************************************************)
EXTENDS SiteDeploy, TLAPS

\* Saving a row, or failing to, keeps every variable in its range.
LEMMA SaveTyped ==
  ASSUME TypeOK, NEW t \in Task, NEW status \in SiteStatus, NEW next \in Step,
         Save(t, status, next)
  PROVE  TypeOK'
<1> DEFINE copy == [snap[t] EXCEPT !.status = status]
<1>1. copy \in Row
  BY DEF TypeOK, Row
<1>2. CASE PutRow(t, copy, copy, next)
  BY <1>1, <1>2 DEF TypeOK, PutRow, Goto
<1>3. CASE /\ CallFails(\/ site.status = Deleted
                        \/ ~EnsureSiteTransition(snap[t].status, status))
           /\ Abort(t, "err")
           /\ UNCHANGED <<site, lock, task, tries, snap, stale, log, issueTask, edits, crashes>>
  BY <1>3, DeployAssumption DEF TypeOK, CallFails, Abort, Goto, Step, Locked, Saving
<1>. QED
  BY <1>2, <1>3 DEF Save

\* Every step keeps every variable in its range.
LEMMA StepTyped == TypeOK /\ [Next]_vars => TypeOK'
<1> SUFFICES ASSUME TypeOK, [Next]_vars PROVE TypeOK'
  OBVIOUS
<1> USE DeployAssumption
<1>1. ASSUME NEW t \in Task, EnqueueDeploy(t) PROVE TypeOK'
  BY <1>1 DEF EnqueueDeploy, TypeOK, TaskState
<1>2. ASSUME NEW t \in Task, Acquire(t) PROVE TypeOK'
  BY <1>2 DEF Acquire, CallFails, Goto, TypeOK, TaskState, Step, Locked
<1>3. ASSUME NEW t \in Task, CreateLog(t) PROVE TypeOK'
  BY <1>3 DEF CreateLog, CallFails, Goto, TypeOK, LogState, Step, Locked
<1>4. ASSUME NEW t \in Task, Load(t) PROVE TypeOK'
  <2>1. CASE /\ snap' = [snap EXCEPT ![t] = site]
             /\ stale' = [stale EXCEPT ![t] = FALSE]
             /\ Goto(t, "mark")
             /\ UNCHANGED <<ret, faults>>
    BY <1>4, <2>1 DEF Load, Goto, TypeOK, Step, Locked, Saving
  <2>2. CASE Abort(t, "skip") /\ UNCHANGED <<snap, stale, faults>>
    BY <1>4, <2>2 DEF Load, Abort, Goto, TypeOK, Step, Locked
  <2>3. CASE CallFails(site.status = Deleted) /\ Abort(t, "err") /\ UNCHANGED <<snap, stale>>
    BY <1>4, <2>3 DEF Load, CallFails, Abort, Goto, TypeOK, Step, Locked
  <2>. QED
    BY <1>4, <2>1, <2>2, <2>3 DEF Load
<1>5. ASSUME NEW t \in Task, MarkDeploying(t) PROVE TypeOK'
  BY <1>5, SaveTyped DEF MarkDeploying, SiteStatus, Step, Locked, Saving
<1>6. ASSUME NEW t \in Task, RunCommands(t) PROVE TypeOK'
  BY <1>6 DEF RunCommands, Goto, TypeOK, Step, Locked, Saving
<1>7. ASSUME NEW t \in Task, MarkDeployFailed(t) PROVE TypeOK'
  BY <1>7, SaveTyped DEF MarkDeployFailed, SiteStatus, Step, Locked, Saving
<1>8. ASSUME NEW t \in Task, IssueCertificate(t) PROVE TypeOK'
  BY <1>8 DEF IssueCertificate, Goto, TypeOK, Step, Locked, Saving
<1>9. ASSUME NEW t \in Task, MarkDeployed(t) PROVE TypeOK'
  BY <1>9, SaveTyped DEF MarkDeployed, SiteStatus, Step, Locked, Saving
<1>10. ASSUME NEW t \in Task, MarkSslPending(t) PROVE TypeOK'
  BY <1>10, SaveTyped DEF MarkSslPending, SiteStatus, Step, Locked, Saving
<1>11. ASSUME NEW t \in Task, EnqueueIssue(t) PROVE TypeOK'
  BY <1>11 DEF EnqueueIssue, CallFails, Goto, TypeOK, Step, Locked
<1>12. ASSUME NEW t \in Task, FinishLog(t) PROVE TypeOK'
  BY <1>12 DEF FinishLog, CallFails, Goto, TypeOK, LogState, Step, Locked
<1>13. ASSUME NEW t \in Task, Release(t) PROVE TypeOK'
  BY <1>13 DEF Release, CallFails, Goto, TypeOK, Row, NoRow, Step
<1>14. ASSUME NEW t \in Task, Reply(t) PROVE TypeOK'
  BY <1>14 DEF Reply, Goto, TypeOK, TaskState, Step
<1>15. ASSUME NEW status \in FormStatus, OperatorUpdate(status) PROVE TypeOK'
  BY <1>15 DEF OperatorUpdate, Overtake, TypeOK, Row
<1>16. ASSUME OperatorDelete PROVE TypeOK'
  BY <1>16 DEF OperatorDelete, Overtake, TypeOK, Row, NoRow
<1>17. ASSUME LockExpires PROVE TypeOK'
  BY <1>17 DEF LockExpires, TypeOK
<1>18. ASSUME Crash PROVE TypeOK'
  BY <1>18 DEF Crash, LoseRuns, TypeOK, TaskState, Row, NoRow, Step
<1>19. ASSUME UNCHANGED vars PROVE TypeOK'
  BY <1>19 DEF vars, TypeOK
<1>. QED
  BY <1>1, <1>2, <1>3, <1>4, <1>5, <1>6, <1>7, <1>8, <1>9, <1>10, <1>11, <1>12,
     <1>13, <1>14, <1>15, <1>16, <1>17, <1>18, <1>19 DEF Next, Run, Environment

\* Every variable of the deploy pipeline stays in its range, whatever fails.
THEOREM TypeCorrect == Spec => []TypeOK
<1>1. Init => TypeOK
  BY DeployAssumption DEF Init, TypeOK, Row, NoRow, SiteStatus, TaskState, Step, LogState
<1>. QED
  BY <1>1, StepTyped, PTL DEF Spec
-----------------------------------------------------------------------------
\* A run exists only while its task is being processed.
RunsAreActive == \A t \in Task : pc[t] # "idle" => task[t] = "active"

\* A run inside the lock owns the key.
RunOwnsLock == \A t \in Task : InRun(t) => lock = t

\* The steps of a run that write the row are saves.
LEMMA MarksSave ==
  ASSUME NEW t \in Task, \/ MarkDeploying(t) \/ MarkDeployFailed(t)
                         \/ MarkDeployed(t) \/ MarkSslPending(t)
  PROVE  /\ pc[t] \in Saving
         /\ \E status \in SiteStatus, next \in Step : Save(t, status, next)
<1> USE DEF SiteStatus, Step, Locked, Saving
<1>1. CASE MarkDeploying(t)
  BY <1>1 DEF MarkDeploying
<1>2. CASE MarkDeployFailed(t)
  BY <1>2 DEF MarkDeployFailed
<1>3. CASE MarkDeployed(t)
  BY <1>3 DEF MarkDeployed
<1>4. CASE MarkSslPending(t)
  BY <1>4 DEF MarkSslPending
<1>. QED
  BY <1>1, <1>2, <1>3, <1>4

\* A save moves the run to its next step or to "finish".
LEMMA SaveMovesOn ==
  ASSUME TypeOK, NEW t \in Task, NEW status, NEW next \in Step, Save(t, status, next)
  PROVE  /\ pc' = [pc EXCEPT ![t] = next] \/ pc' = [pc EXCEPT ![t] = "finish"]
         /\ UNCHANGED <<lock, task, tries, stale, log, issueTask, edits, crashes>>
BY DEF Save, PutRow, Abort, Goto

LEMMA StepRunsAreActive == TypeOK /\ RunsAreActive /\ [Next]_vars => RunsAreActive'
<1> SUFFICES ASSUME TypeOK, RunsAreActive, [Next]_vars PROVE RunsAreActive'
  OBVIOUS
<1>1. ASSUME NEW t \in Task, EnqueueDeploy(t) PROVE RunsAreActive'
  BY <1>1 DEF EnqueueDeploy, RunsAreActive, TypeOK
<1>2. ASSUME NEW t \in Task, Acquire(t) PROVE RunsAreActive'
  BY <1>2 DEF Acquire, Goto, RunsAreActive, TypeOK
<1>3. ASSUME NEW t \in Task, CreateLog(t) \/ RunCommands(t) \/ IssueCertificate(t)
                             \/ EnqueueIssue(t) \/ FinishLog(t) \/ Release(t)
      PROVE RunsAreActive'
  BY <1>3 DEF CreateLog, RunCommands, IssueCertificate, EnqueueIssue, FinishLog, Release,
              Goto, RunsAreActive, TypeOK
<1>4. ASSUME NEW t \in Task, Load(t) PROVE RunsAreActive'
  BY <1>4 DEF Load, Abort, Goto, RunsAreActive, TypeOK
<1>5. ASSUME NEW t \in Task, \/ MarkDeploying(t) \/ MarkDeployFailed(t)
                             \/ MarkDeployed(t) \/ MarkSslPending(t)
      PROVE RunsAreActive'
  <2>1. PICK status \in SiteStatus, next \in Step : Save(t, status, next)
    BY <1>5, MarksSave
  <2>2. /\ pc' = [pc EXCEPT ![t] = next] \/ pc' = [pc EXCEPT ![t] = "finish"]
        /\ UNCHANGED task
    BY <2>1, SaveMovesOn
  <2>. QED
    BY <1>5, <2>2, MarksSave DEF RunsAreActive, TypeOK, Saving
<1>6. ASSUME NEW t \in Task, Reply(t) PROVE RunsAreActive'
  BY <1>6 DEF Reply, Goto, RunsAreActive, TypeOK
<1>7. ASSUME NEW status \in FormStatus, OperatorUpdate(status) PROVE RunsAreActive'
  BY <1>7 DEF OperatorUpdate, RunsAreActive
<1>8. CASE OperatorDelete \/ LockExpires \/ UNCHANGED vars
  BY <1>8 DEF OperatorDelete, LockExpires, vars, RunsAreActive
<1>9. CASE Crash
  BY <1>9 DEF Crash, LoseRuns, RunsAreActive
<1>. QED
  BY <1>1, <1>2, <1>3, <1>4, <1>5, <1>6, <1>7, <1>8, <1>9 DEF Next, Run, Environment

LEMMA StepRunOwnsLock ==
  ASSUME ~RunsOutliveLock
  PROVE  TypeOK /\ RunOwnsLock /\ [Next]_vars => RunOwnsLock'
<1> SUFFICES ASSUME TypeOK, RunOwnsLock, [Next]_vars PROVE RunOwnsLock'
  OBVIOUS
<1> USE DeployAssumption DEF RunOwnsLock, InRun
<1>1. ASSUME NEW t \in Task, EnqueueDeploy(t) PROVE RunOwnsLock'
  BY <1>1 DEF EnqueueDeploy
<1>2. ASSUME NEW t \in Task, Acquire(t) PROVE RunOwnsLock'
  <2>1. CASE lock = NoTask /\ lock' = t /\ pc' = [pc EXCEPT ![t] = "log"]
    BY <2>1 DEF TypeOK
  <2>2. CASE pc' = [pc EXCEPT ![t] = "reply"] /\ UNCHANGED lock
    BY <2>2 DEF TypeOK, Locked, Saving
  <2>. QED
    BY <1>2, <2>1, <2>2 DEF Acquire, Goto
<1>3. ASSUME NEW t \in Task, CreateLog(t) \/ RunCommands(t) \/ IssueCertificate(t)
                             \/ EnqueueIssue(t) \/ FinishLog(t)
      PROVE RunOwnsLock'
  BY <1>3 DEF CreateLog, RunCommands, IssueCertificate, EnqueueIssue, FinishLog,
              Goto, TypeOK, Locked, Saving
<1>4. ASSUME NEW t \in Task, Load(t) PROVE RunOwnsLock'
  BY <1>4 DEF Load, Abort, Goto, TypeOK, Locked, Saving
<1>5. ASSUME NEW t \in Task, \/ MarkDeploying(t) \/ MarkDeployFailed(t)
                             \/ MarkDeployed(t) \/ MarkSslPending(t)
      PROVE RunOwnsLock'
  <2>1. PICK status \in SiteStatus, next \in Step : Save(t, status, next)
    BY <1>5, MarksSave
  <2>2. /\ pc' = [pc EXCEPT ![t] = next] \/ pc' = [pc EXCEPT ![t] = "finish"]
        /\ UNCHANGED lock
    BY <2>1, SaveMovesOn
  <2>. QED
    BY <1>5, <2>2, MarksSave DEF TypeOK, Locked
<1>6. ASSUME NEW t \in Task, Release(t) PROVE RunOwnsLock'
  <2>1. \A u \in Task : pc[u] \in Locked => u = t
    BY <1>6 DEF Release, Locked
  <2>2. pc' = [pc EXCEPT ![t] = "reply"]
    BY <1>6 DEF Release, Goto
  <2>. QED
    BY <2>1, <2>2 DEF TypeOK, Locked, Saving
<1>7. ASSUME NEW t \in Task, Reply(t) PROVE RunOwnsLock'
  BY <1>7 DEF Reply, Goto, TypeOK, Locked, Saving
<1>8. ASSUME NEW status \in FormStatus, OperatorUpdate(status) PROVE RunOwnsLock'
  BY <1>8 DEF OperatorUpdate
<1>9. CASE OperatorDelete \/ UNCHANGED vars
  BY <1>9 DEF OperatorDelete, vars
<1>10. CASE LockExpires
  BY <1>10 DEF LockExpires
<1>11. CASE Crash
  BY <1>11 DEF Crash, LoseRuns, Locked, Saving
<1>. QED
  BY <1>1, <1>2, <1>3, <1>4, <1>5, <1>6, <1>7, <1>8, <1>9, <1>10, <1>11
     DEF Next, Run, Environment

\* As long as runs end within the TTL of their lock, no two runs of ExecuteDeploy
\* work on the site at the same time, whatever fails and whenever the process dies.
THEOREM MutualExclusion ==
  ASSUME ~RunsOutliveLock
  PROVE  Spec => []OneRunAtATime
<1>1. Init => RunOwnsLock
  BY DEF Init, RunOwnsLock, InRun, Locked, Saving
<1>2. RunOwnsLock => OneRunAtATime
  BY DEF RunOwnsLock, OneRunAtATime
<1>. QED
  BY <1>1, <1>2, StepRunOwnsLock, TypeCorrect, PTL DEF Spec
-----------------------------------------------------------------------------
\* Given mutual exclusion, a run's copy stays equal to the row: only its own saves
\* and the operator write the row, and the latter marks the copy as stale.
LEMMA StepCopyIsFresh ==
  TypeOK /\ RunOwnsLock /\ CopyIsFresh /\ [Next]_vars => CopyIsFresh'
<1> SUFFICES ASSUME TypeOK, RunOwnsLock, CopyIsFresh, [Next]_vars PROVE CopyIsFresh'
  OBVIOUS
<1> USE DEF CopyIsFresh, Holding, Saving
<1>1. ASSUME NEW t \in Task, EnqueueDeploy(t) PROVE CopyIsFresh'
  BY <1>1 DEF EnqueueDeploy
<1>2. ASSUME NEW t \in Task, Acquire(t) PROVE CopyIsFresh'
  <2>1. /\ UNCHANGED <<site, snap, stale>>
        /\ pc' = [pc EXCEPT ![t] = "log"] \/ pc' = [pc EXCEPT ![t] = "reply"]
        /\ ret' = [ret EXCEPT ![t] = "nil"] \/ ret' = [ret EXCEPT ![t] = "err"]
    BY <1>2 DEF Acquire, Goto
  <2>. QED
    BY <2>1 DEF TypeOK
<1>3. ASSUME NEW t \in Task, CreateLog(t) \/ IssueCertificate(t) \/ EnqueueIssue(t)
                             \/ FinishLog(t)
      PROVE CopyIsFresh'
  BY <1>3 DEF CreateLog, IssueCertificate, EnqueueIssue, FinishLog, Goto, TypeOK
<1>4. ASSUME NEW t \in Task, RunCommands(t) PROVE CopyIsFresh'
  BY <1>4 DEF RunCommands, Goto, TypeOK
<1>5. ASSUME NEW t \in Task, Load(t) PROVE CopyIsFresh'
  <2>1. CASE /\ snap' = [snap EXCEPT ![t] = site]
             /\ stale' = [stale EXCEPT ![t] = FALSE]
             /\ Goto(t, "mark")
             /\ UNCHANGED <<ret, faults>>
    BY <1>5, <2>1 DEF Load, Goto, TypeOK
  <2>2. CASE (Abort(t, "skip") \/ Abort(t, "err")) /\ UNCHANGED <<snap, stale>>
    BY <1>5, <2>2 DEF Load, Abort, Goto, TypeOK
  <2>. QED
    BY <1>5, <2>1, <2>2 DEF Load
<1>6. ASSUME NEW t \in Task, \/ MarkDeploying(t) \/ MarkDeployFailed(t)
                             \/ MarkDeployed(t) \/ MarkSslPending(t)
      PROVE CopyIsFresh'
  <2>1. PICK status \in SiteStatus, next \in Step : Save(t, status, next)
    BY <1>6, MarksSave
  <2>2. \A u \in Task : pc[u] \in Locked => u = t
    BY <1>6, MarksSave DEF RunOwnsLock, InRun, Locked
  <2>3. CASE PutRow(t, [snap[t] EXCEPT !.status = status],
                    [snap[t] EXCEPT !.status = status], next)
    BY <2>2, <2>3 DEF PutRow, Goto, TypeOK, Locked
  <2>4. CASE Abort(t, "err") /\ UNCHANGED <<site, snap, stale>>
    BY <2>4 DEF Abort, Goto, TypeOK
  <2>. QED
    BY <2>1, <2>3, <2>4 DEF Save
<1>7. ASSUME NEW t \in Task, Release(t) PROVE CopyIsFresh'
  BY <1>7 DEF Release, Goto, TypeOK
<1>8. ASSUME NEW t \in Task, Reply(t) PROVE CopyIsFresh'
  BY <1>8 DEF Reply, Goto, TypeOK
<1>9. ASSUME NEW status \in FormStatus, OperatorUpdate(status) PROVE CopyIsFresh'
  BY <1>9 DEF OperatorUpdate, Overtake
<1>10. CASE OperatorDelete
  BY <1>10 DEF OperatorDelete, Overtake
<1>11. CASE LockExpires \/ UNCHANGED vars
  BY <1>11 DEF LockExpires, vars
<1>12. CASE Crash
  BY <1>12 DEF Crash, LoseRuns
<1>. QED
  BY <1>1, <1>2, <1>3, <1>4, <1>5, <1>6, <1>7, <1>8, <1>9, <1>10, <1>11, <1>12
     DEF Next, Run, Environment

\* Only a save of run t both moves t on and changes the row; then the row takes
\* the copy's columns with a status the table allows from the copy's.
LEMMA RowWrites ==
  ASSUME TypeOK, [Next]_vars, NEW t \in Task, WritesRow(t)
  PROVE  /\ pc[t] \in Saving
         /\ \E status \in SiteStatus :
              /\ EnsureSiteTransition(snap[t].status, status)
              /\ site' = [snap[t] EXCEPT !.status = status]
<1> USE DEF WritesRow
<1>1. ASSUME NEW u \in Task, \/ MarkDeploying(u) \/ MarkDeployFailed(u)
                             \/ MarkDeployed(u) \/ MarkSslPending(u)
      PROVE  /\ pc[t] \in Saving
             /\ \E status \in SiteStatus :
                  /\ EnsureSiteTransition(snap[t].status, status)
                  /\ site' = [snap[t] EXCEPT !.status = status]
  <2>1. PICK status \in SiteStatus, next \in Step : Save(u, status, next)
    BY <1>1, MarksSave
  <2>2. /\ EnsureSiteTransition(snap[u].status, status)
        /\ site' = [snap[u] EXCEPT !.status = status]
        /\ pc' = [pc EXCEPT ![u] = next]
    BY <2>1 DEF Save, PutRow, Goto
  <2>3. u = t
    BY <2>2 DEF TypeOK
  <2>. QED
    BY <1>1, <2>2, <2>3, MarksSave
<1>2. ASSUME NEW u \in Task,
             \/ EnqueueDeploy(u) \/ Acquire(u) \/ CreateLog(u) \/ Load(u) \/ RunCommands(u)
             \/ IssueCertificate(u) \/ EnqueueIssue(u) \/ FinishLog(u) \/ Release(u) \/ Reply(u)
      PROVE site' = site
  BY <1>2 DEF EnqueueDeploy, Acquire, CreateLog, Load, RunCommands, IssueCertificate,
              EnqueueIssue, FinishLog, Release, Reply
<1>3. ASSUME NEW status \in FormStatus, OperatorUpdate(status) PROVE pc' = pc
  BY <1>3 DEF OperatorUpdate
<1>4. CASE OperatorDelete \/ LockExpires \/ Crash \/ UNCHANGED vars
  BY <1>4 DEF OperatorDelete, LockExpires, Crash, vars
<1>. QED
  BY <1>1, <1>2, <1>3, <1>4 DEF Next, Run, Environment

\* As long as runs end within the TTL of their lock, the copy on which a run judges
\* its transitions equals the row, unless an operator wrote the row meanwhile.
THEOREM CopiesAreFresh ==
  ASSUME ~RunsOutliveLock
  PROVE  Spec => []CopyIsFresh
<1>1. Init => RunOwnsLock /\ CopyIsFresh
  BY DEF Init, RunOwnsLock, InRun, Locked, CopyIsFresh, Holding, Saving
<1>. QED
  BY <1>1, StepRunOwnsLock, StepCopyIsFresh, TypeCorrect, PTL DEF Spec

\* Then every write of a run that no operator overtook moves the row's real status
\* along the table.
THEOREM StatusChangesAreLegal ==
  ASSUME ~RunsOutliveLock
  PROVE  Spec => LegalStatusChange
<1> DEFINE Legal == \A t \in Task : WritesRow(t) /\ ~stale[t]
                                  => EnsureSiteTransition(site.status, site'.status)
<1>1. TypeOK /\ CopyIsFresh /\ [Next]_vars => [Legal]_vars
  <2> SUFFICES ASSUME TypeOK, CopyIsFresh, [Next]_vars,
                      NEW t \in Task, WritesRow(t), ~stale[t]
               PROVE  EnsureSiteTransition(site.status, site'.status)
    OBVIOUS
  <2>1. PICK status \in SiteStatus : /\ pc[t] \in Saving
                                     /\ EnsureSiteTransition(snap[t].status, status)
                                     /\ site' = [snap[t] EXCEPT !.status = status]
    BY RowWrites
  <2>2. snap[t] = site
    BY <2>1 DEF CopyIsFresh, Holding, Saving
  <2>3. site'.status = status
    BY <2>1 DEF TypeOK, Row
  <2>. QED
    BY <2>1, <2>2, <2>3
<1>. QED
  BY <1>1, TypeCorrect, CopiesAreFresh, PTL DEF Spec, LegalStatusChange

\* And no such write undoes an edit that was made before the run read the row.
THEOREM EditsSurvive ==
  ASSUME ~RunsOutliveLock
  PROVE  Spec => NoLostEdit
<1> DEFINE Kept == \A t \in Task : WritesRow(t) /\ ~stale[t] => site'.cfg = site.cfg
<1>1. TypeOK /\ CopyIsFresh /\ [Next]_vars => [Kept]_vars
  <2> SUFFICES ASSUME TypeOK, CopyIsFresh, [Next]_vars,
                      NEW t \in Task, WritesRow(t), ~stale[t]
               PROVE  site'.cfg = site.cfg
    OBVIOUS
  <2>1. PICK status \in SiteStatus : /\ pc[t] \in Saving
                                     /\ site' = [snap[t] EXCEPT !.status = status]
    BY RowWrites
  <2>2. snap[t] = site
    BY <2>1 DEF CopyIsFresh, Holding, Saving
  <2>. QED
    BY <2>1, <2>2 DEF TypeOK, Row
<1>. QED
  BY <1>1, TypeCorrect, CopiesAreFresh, PTL DEF Spec, NoLostEdit
-----------------------------------------------------------------------------
(* The task log *)

\* A run that is about to return nil holds the outcome in its copy.
OutcomeInCopy ==
  \A t \in Task :
    /\ pc[t] = "markFailed" => ret[t] = "err"
    /\ pc[t] = "enqueueIssue" => snap[t].status = "ssl_pending"
    /\ pc[t] = "finish" /\ ret[t] = "nil" => snap[t].status \in {"deployed", "ssl_pending"}

\* What a save does to the run that makes it.
LEMMA SaveEffect ==
  ASSUME TypeOK, NEW t \in Task, NEW status \in SiteStatus, NEW next \in Step, Save(t, status, next)
  PROVE  \/ /\ snap' = [snap EXCEPT ![t] = [snap[t] EXCEPT !.status = status]]
            /\ snap'[t].status = status
            /\ pc' = [pc EXCEPT ![t] = next] /\ ret' = ret
         \/ /\ snap' = snap /\ pc' = [pc EXCEPT ![t] = "finish"]
            /\ ret' = [ret EXCEPT ![t] = "err"]
  BY DEF Save, PutRow, Abort, Goto, TypeOK, Row

LEMMA StepOutcomeInCopy ==
  ASSUME TypeOK, OutcomeInCopy, [Next]_vars PROVE OutcomeInCopy'
<1> USE DEF OutcomeInCopy
<1>1. ASSUME NEW t \in Task, EnqueueDeploy(t) PROVE OutcomeInCopy'
  BY <1>1 DEF EnqueueDeploy
<1>2. ASSUME NEW t \in Task, Acquire(t) PROVE OutcomeInCopy'
  <2>1. /\ UNCHANGED snap
        /\ pc' = [pc EXCEPT ![t] = "log"] \/ pc' = [pc EXCEPT ![t] = "reply"]
        /\ ret' = [ret EXCEPT ![t] = "nil"] \/ ret' = [ret EXCEPT ![t] = "err"]
    BY <1>2 DEF Acquire, Goto
  <2>. QED
    BY <2>1 DEF TypeOK
<1>3. ASSUME NEW t \in Task, CreateLog(t) \/ FinishLog(t) \/ Reply(t) PROVE OutcomeInCopy'
  BY <1>3 DEF CreateLog, FinishLog, Reply, Goto, TypeOK
<1>4. ASSUME NEW t \in Task, Load(t) PROVE OutcomeInCopy'
  <2>1. CASE snap' = [snap EXCEPT ![t] = site] /\ Goto(t, "mark") /\ UNCHANGED ret
    BY <1>4, <2>1 DEF Goto, TypeOK
  <2>2. CASE (Abort(t, "skip") \/ Abort(t, "err")) /\ UNCHANGED snap
    BY <2>2 DEF Abort, Goto, TypeOK
  <2>. QED
    BY <1>4, <2>1, <2>2 DEF Load
<1>5. ASSUME NEW t \in Task, RunCommands(t) \/ IssueCertificate(t) PROVE OutcomeInCopy'
  BY <1>5 DEF RunCommands, IssueCertificate, Goto, TypeOK
<1>6. ASSUME NEW t \in Task, EnqueueIssue(t) PROVE OutcomeInCopy'
  BY <1>6 DEF EnqueueIssue, Goto, TypeOK
<1>7. ASSUME NEW t \in Task, MarkDeploying(t) PROVE OutcomeInCopy'
  BY <1>7, SaveEffect DEF MarkDeploying, TypeOK, SiteStatus, Step, Locked, Saving
<1>8. ASSUME NEW t \in Task, MarkDeployFailed(t) PROVE OutcomeInCopy'
  BY <1>8, SaveEffect DEF MarkDeployFailed, TypeOK, SiteStatus, Step, Locked, Saving
<1>9. ASSUME NEW t \in Task, MarkDeployed(t) PROVE OutcomeInCopy'
  BY <1>9, SaveEffect DEF MarkDeployed, TypeOK, SiteStatus, Step, Locked, Saving
<1>10. ASSUME NEW t \in Task, MarkSslPending(t) PROVE OutcomeInCopy'
  BY <1>10, SaveEffect DEF MarkSslPending, TypeOK, SiteStatus, Step, Locked, Saving
<1>11. ASSUME NEW t \in Task, Release(t) PROVE OutcomeInCopy'
  BY <1>11 DEF Release, Goto, TypeOK
<1>12. ASSUME NEW status \in FormStatus, OperatorUpdate(status) PROVE OutcomeInCopy'
  BY <1>12 DEF OperatorUpdate
<1>13. CASE OperatorDelete \/ LockExpires \/ UNCHANGED vars
  BY <1>13 DEF OperatorDelete, LockExpires, vars
<1>14. CASE Crash
  BY <1>14 DEF Crash, LoseRuns
<1>. QED
  BY <1>1, <1>2, <1>3, <1>4, <1>5, <1>6, <1>7, <1>8, <1>9, <1>10, <1>11, <1>12, <1>13, <1>14
     DEF Next, Run, Environment

\* Only FinishLog records a success.
LEMMA SuccessIsFinish ==
  ASSUME TypeOK, [Next]_vars, NEW t \in Task, log'[t] = "success", log[t] # "success"
  PROVE  pc[t] = "finish" /\ ret[t] = "nil"
<1>1. ASSUME NEW u \in Task, FinishLog(u) PROVE pc[t] = "finish" /\ ret[t] = "nil"
  BY <1>1 DEF FinishLog, TypeOK
<1>2. ASSUME NEW u \in Task PROVE ~CreateLog(u)
  BY DEF CreateLog, TypeOK
<1>3. ASSUME NEW u \in Task PROVE ~(EnqueueDeploy(u) \/ Acquire(u) \/ Load(u) \/ RunCommands(u)
                                  \/ IssueCertificate(u) \/ EnqueueIssue(u) \/ Release(u) \/ Reply(u))
  BY DEF EnqueueDeploy, Acquire, Load, RunCommands, IssueCertificate, EnqueueIssue, Release, Reply
<1>4. ASSUME NEW u \in Task PROVE ~(\/ MarkDeploying(u) \/ MarkDeployFailed(u)
                                   \/ MarkDeployed(u) \/ MarkSslPending(u))
  BY MarksSave, SaveMovesOn
<1>5. ASSUME NEW status \in FormStatus PROVE ~OperatorUpdate(status)
  BY DEF OperatorUpdate
<1>6. ~(OperatorDelete \/ LockExpires \/ Crash \/ UNCHANGED vars)
  BY DEF OperatorDelete, LockExpires, Crash, vars
<1>. QED
  BY <1>1, <1>2, <1>3, <1>4, <1>5, <1>6 DEF Next, Run, Environment

\* As long as runs end within the TTL of their lock, a success in the task log is
\* recorded while the row says deployed or ssl_pending, unless an operator wrote it.
THEOREM LogIsTruthful ==
  ASSUME ~RunsOutliveLock
  PROVE  Spec => LogTellsTheTruth
<1> DEFINE True == \A t \in Task : log'[t] = "success" /\ log[t] # "success" /\ ~stale[t]
                                 => site.status \in {"deployed", "ssl_pending"}
<1>1. Init => OutcomeInCopy
  BY DEF Init, OutcomeInCopy
<1>2. TypeOK /\ OutcomeInCopy /\ [Next]_vars => OutcomeInCopy'
  BY StepOutcomeInCopy
<1>3. TypeOK /\ CopyIsFresh /\ OutcomeInCopy /\ [Next]_vars => [True]_vars
  <2> SUFFICES ASSUME TypeOK, CopyIsFresh, OutcomeInCopy, [Next]_vars, NEW t \in Task,
                      log'[t] = "success", log[t] # "success", ~stale[t]
               PROVE  site.status \in {"deployed", "ssl_pending"}
    OBVIOUS
  <2>1. pc[t] = "finish" /\ ret[t] = "nil"
    BY SuccessIsFinish
  <2>2. snap[t] = site
    BY <2>1 DEF CopyIsFresh, Holding
  <2>. QED
    BY <2>1, <2>2 DEF OutcomeInCopy
<1>. QED
  BY <1>1, <1>2, <1>3, TypeCorrect, CopiesAreFresh, PTL DEF Spec, LogTellsTheTruth
-----------------------------------------------------------------------------
(* Spec implements SerialDeploys *)

\* The abstract phase and its mark, of any assignment of steps and marks to tasks.
PhaseOf(p) == IF \E t \in Task : p[t] = "mark" THEN "looked"
              ELSE IF \E t \in Task : p[t] \in Saving THEN "deploying" ELSE "idle"
TouchedBy(p, s) == \E t \in Task : p[t] \in Saving /\ s[t]

\* The abstract state is idle and untouched when no run is between Load and its outcome.
LEMMA NobodySaving ==
  ASSUME NEW p, NEW s, \A t \in Task : p[t] \notin Saving
  PROVE  PhaseOf(p) = "idle" /\ TouchedBy(p, s) = FALSE
  BY DEF PhaseOf, TouchedBy, Saving

\* Otherwise it is that of the only run that is.
LEMMA OneSaving ==
  ASSUME NEW p, NEW s, NEW t \in Task, p[t] \in Saving, s[t] \in BOOLEAN,
         \A u \in Task : p[u] \in Saving => u = t
  PROVE  /\ PhaseOf(p) = (IF p[t] = "mark" THEN "looked" ELSE "deploying")
         /\ TouchedBy(p, s) = s[t]
<1>1. (\E u \in Task : p[u] = "mark") <=> p[t] = "mark"
  BY DEF Saving
<1>2. TouchedBy(p, s) <=> s[t]
  BY DEF TouchedBy
<1>. QED
  BY <1>1, <1>2 DEF PhaseOf, TouchedBy

\* Both modules judge on the same table.
LEMMA SameTable ==
  \A from, to : Serial!EnsureSiteTransition(from, to) <=> EnsureSiteTransition(from, to)
  BY DEF EnsureSiteTransition, EnsureTransition, SiteTransitions, NoStatus,
         Serial!EnsureSiteTransition, Serial!EnsureTransition, Serial!SiteTransitions,
         Serial!NoStatus

\* The steps of SerialDeploys, in terms of the two.
LEMMA MapsLook ==
  ASSUME PhaseOf(pc) = "idle", EnsureSiteTransition(site.status, "deploying"),
         PhaseOf(pc') = "looked", site' = site, TouchedBy(pc', stale') = TouchedBy(pc, stale)
  PROVE  Serial!Next
  BY SameTable DEF Serial!Next, Serial!Look, PhaseOf, TouchedBy

LEMMA MapsStutter ==
  ASSUME PhaseOf(pc') = PhaseOf(pc), site'.status = site.status,
         TouchedBy(pc', stale') = TouchedBy(pc, stale)
  PROVE  UNCHANGED Serial!vars
  BY DEF Serial!vars, PhaseOf, TouchedBy

LEMMA MapsAnnounce ==
  ASSUME PhaseOf(pc) = "looked", site.status # "deleted",
         TouchedBy(pc, stale) \/ EnsureSiteTransition(site.status, "deploying"),
         PhaseOf(pc') = "deploying", site'.status = "deploying",
         TouchedBy(pc', stale') = TouchedBy(pc, stale)
  PROVE  Serial!Next
  BY SameTable DEF Serial!Next, Serial!Announce, Serial!MayWrite, PhaseOf, TouchedBy

LEMMA MapsConclude ==
  ASSUME NEW outcome \in {"deployed", "deploy_failed", "ssl_pending"},
         PhaseOf(pc) = "deploying", site.status # "deleted",
         TouchedBy(pc, stale) \/ EnsureSiteTransition(site.status, outcome),
         PhaseOf(pc') = "idle", site'.status = outcome, TouchedBy(pc', stale') = FALSE
  PROVE  Serial!Next
  BY SameTable DEF Serial!Next, Serial!Conclude, Serial!Outcome, Serial!MayWrite, PhaseOf, TouchedBy

LEMMA MapsGiveUp ==
  ASSUME PhaseOf(pc) # "idle", PhaseOf(pc') = "idle",
         TouchedBy(pc', stale') = FALSE, site'.status = site.status
  PROVE  Serial!Next
  BY DEF Serial!Next, Serial!GiveUp, PhaseOf, TouchedBy

LEMMA MapsOperator ==
  ASSUME NEW next \in FormStatus \cup {Deleted},
         site.status # "deleted", site'.status = next, PhaseOf(pc') = PhaseOf(pc),
         TouchedBy(pc', stale') = (PhaseOf(pc) # "idle")
  PROVE  Serial!Next
  BY DEF Serial!Next, Serial!Operator, PhaseOf, TouchedBy

\* A step of a run that is neither before nor after it between Load and its outcome.
LEMMA OutsideStutters ==
  ASSUME TypeOK, NEW t \in Task, NEW x, x \notin Saving, pc[t] \notin Saving,
         pc' = [pc EXCEPT ![t] = x], \A u \in Task \ {t} : stale'[u] = stale[u], site' = site
  PROVE  UNCHANGED Serial!vars
<1>1. \A u \in Task : pc'[u] = IF u = t THEN x ELSE pc[u]
  BY DEF TypeOK
<1>2. PhaseOf(pc') = PhaseOf(pc)
  BY <1>1 DEF PhaseOf, Saving
<1>3. TouchedBy(pc', stale') = TouchedBy(pc, stale)
  BY <1>1 DEF TouchedBy
<1>. QED
  BY <1>2, <1>3, MapsStutter

\* No other run is there beside one that is.
LEMMA AloneSaving ==
  ASSUME TypeOK, RunOwnsLock, NEW t \in Task, pc[t] \in Saving
  PROVE  /\ \A u \in Task : pc[u] \in Saving => u = t
         /\ PhaseOf(pc) = (IF pc[t] = "mark" THEN "looked" ELSE "deploying")
         /\ TouchedBy(pc, stale) = stale[t]
<1>1. \A u \in Task : pc[u] \in Saving => u = t
  BY DEF RunOwnsLock, InRun, Locked
<1>2. stale[t] \in BOOLEAN
  BY DEF TypeOK
<1>. QED
  BY <1>1, <1>2, OneSaving

\* What such a run leaves behind when it goes on to another step: its phase, or nothing.
LEMMA AloneGoesOn ==
  ASSUME TypeOK, TypeOK', RunOwnsLock, NEW t \in Task, pc[t] \in Saving, NEW x, x \in Saving,
         pc' = [pc EXCEPT ![t] = x]
  PROVE  /\ PhaseOf(pc') = (IF x = "mark" THEN "looked" ELSE "deploying")
         /\ TouchedBy(pc', stale') = stale'[t]
<1> DEFINE p == pc'
           s == stale'
<1>1. p[t] = x /\ \A u \in Task : p[u] \in Saving => u = t
  BY AloneSaving DEF TypeOK
<1>2. s[t] \in BOOLEAN
  BY DEF TypeOK
<1>3. PhaseOf(p) = (IF p[t] = "mark" THEN "looked" ELSE "deploying") /\ TouchedBy(p, s) = s[t]
  <2> HIDE DEF p, s
  <2>. QED
    BY <1>1, <1>2, OneSaving
<1>. QED
  BY <1>1, <1>3

LEMMA AloneEnds ==
  ASSUME TypeOK, RunOwnsLock, NEW t \in Task, pc[t] \in Saving, NEW x, x \notin Saving,
         pc' = [pc EXCEPT ![t] = x]
  PROVE  PhaseOf(pc') = "idle" /\ TouchedBy(pc', stale') = FALSE
<1>1. \A u \in Task : pc'[u] \notin Saving
  BY AloneSaving DEF TypeOK
<1>. QED
  BY <1>1, NobodySaving

\* A save that fails gives the deploy up.
LEMMA FailedSaveGivesUp ==
  ASSUME TypeOK, TypeOK', RunOwnsLock, NEW t \in Task, pc[t] \in Saving,
         Abort(t, "err"), site' = site
  PROVE  Serial!Next
<1>1. pc' = [pc EXCEPT ![t] = "finish"]
  BY DEF Abort, Goto
<1>2. PhaseOf(pc') = "idle" /\ TouchedBy(pc', stale') = FALSE
  <2>1. "finish" \notin Saving
    BY DEF Saving
  <2>. QED
    BY <1>1, <2>1, AloneEnds
<1>3. PhaseOf(pc) # "idle"
  BY AloneSaving
<1>. QED
  BY <1>2, <1>3, MapsGiveUp

\* One that succeeds writes what the table allows from the row, or follows an operator.
LEMMA SavedStatus ==
  ASSUME TypeOK, CopyIsFresh, NEW t \in Task, pc[t] \in Saving, NEW status \in SiteStatus, NEW next,
         EnsureSiteTransition(snap[t].status, status),
         PutRow(t, [snap[t] EXCEPT !.status = status], [snap[t] EXCEPT !.status = status], next)
  PROVE  /\ site'.status = status /\ pc' = [pc EXCEPT ![t] = next] /\ stale' = stale
         /\ stale[t] \/ EnsureSiteTransition(site.status, status)
<1>1. stale[t] \/ snap[t] = site
  BY DEF CopyIsFresh, Holding, Saving
<1>2. site'.status = status
  BY DEF PutRow, TypeOK, Row
<1>. QED
  BY <1>1, <1>2 DEF PutRow, Goto

LEMMA MarkAnnounces ==
  ASSUME TypeOK, TypeOK', RunOwnsLock, CopyIsFresh, NEW t \in Task, MarkDeploying(t)
  PROVE  Serial!Next
<1> DEFINE copy == [snap[t] EXCEPT !.status = "deploying"]
<1>1. pc[t] = "mark" /\ pc[t] \in Saving
  BY DEF MarkDeploying, Saving
<1>2. CASE /\ EnsureSiteTransition(snap[t].status, "deploying")
           /\ site.status # Deleted
           /\ PutRow(t, copy, copy, "commands")
  <2>1. /\ site'.status = "deploying" /\ pc' = [pc EXCEPT ![t] = "commands"] /\ stale' = stale
        /\ stale[t] \/ EnsureSiteTransition(site.status, "deploying")
    BY <1>1, <1>2, SavedStatus DEF SiteStatus
  <2>2. /\ PhaseOf(pc') = "deploying" /\ TouchedBy(pc', stale') = stale'[t]
    <3>1. "commands" \in Saving
      BY DEF Saving
    <3>2. /\ PhaseOf(pc') = (IF "commands" = "mark" THEN "looked" ELSE "deploying")
          /\ TouchedBy(pc', stale') = stale'[t]
      BY <1>1, <2>1, <3>1, AloneGoesOn
    <3>. QED
      BY <3>2
  <2>3. PhaseOf(pc) = "looked" /\ TouchedBy(pc, stale) = stale[t]
    BY <1>1, AloneSaving
  <2>. QED
    BY <1>2, <2>1, <2>2, <2>3, MapsAnnounce DEF Deleted
<1>3. CASE Abort(t, "err") /\ UNCHANGED site
  BY <1>1, <1>3, FailedSaveGivesUp
<1>. QED
  BY <1>2, <1>3 DEF MarkDeploying, Save

LEMMA SaveConcludes ==
  ASSUME TypeOK, TypeOK', RunOwnsLock, CopyIsFresh, NEW t \in Task,
         pc[t] \in Saving, pc[t] # "mark",
         NEW outcome \in {"deployed", "deploy_failed", "ssl_pending"},
         NEW next, next \notin Saving, Save(t, outcome, next)
  PROVE  Serial!Next
<1> DEFINE copy == [snap[t] EXCEPT !.status = outcome]
<1>1. CASE /\ EnsureSiteTransition(snap[t].status, outcome)
           /\ site.status # Deleted
           /\ PutRow(t, copy, copy, next)
  <2>1. /\ site'.status = outcome /\ pc' = [pc EXCEPT ![t] = next]
        /\ stale[t] \/ EnsureSiteTransition(site.status, outcome)
    BY <1>1, SavedStatus DEF SiteStatus
  <2>2. PhaseOf(pc') = "idle" /\ TouchedBy(pc', stale') = FALSE
    BY <2>1, AloneEnds
  <2>3. PhaseOf(pc) = "deploying" /\ TouchedBy(pc, stale) = stale[t]
    BY AloneSaving
  <2>. QED
    BY <1>1, <2>1, <2>2, <2>3, MapsConclude DEF Deleted
<1>2. CASE Abort(t, "err") /\ UNCHANGED site
  BY <1>2, FailedSaveGivesUp
<1>. QED
  BY <1>1, <1>2 DEF Save

\* An operator's write touches the deploy in progress, if there is one.
LEMMA OvertakeTouches ==
  ASSUME TypeOK, Overtake, pc' = pc, site.status # Deleted,
         NEW next \in FormStatus \cup {Deleted}, site'.status = next
  PROVE  Serial!Next
<1>1. TouchedBy(pc', stale') = (PhaseOf(pc) # "idle")
  <2>1. TouchedBy(pc', stale') <=> \E t \in Task : pc[t] \in Saving
    BY DEF Overtake, TouchedBy, Holding
  <2>2. PhaseOf(pc) # "idle" <=> \E t \in Task : pc[t] \in Saving
    BY DEF PhaseOf, Saving
  <2>. QED
    BY <2>1, <2>2 DEF TouchedBy
<1>. QED
  BY <1>1, MapsOperator DEF Deleted

\* Every step is one of SerialDeploys, or changes nothing it sees.
LEMMA StepIsSerial ==
  ASSUME TypeOK, TypeOK', RunsAreActive, RunOwnsLock, RunOwnsLock', CopyIsFresh, [Next]_vars
  PROVE  [Serial!Next]_(Serial!vars)
<1>1. ASSUME NEW t \in Task, EnqueueDeploy(t) PROVE UNCHANGED Serial!vars
  BY <1>1, MapsStutter DEF EnqueueDeploy
<1>2. ASSUME NEW t \in Task, Acquire(t) PROVE UNCHANGED Serial!vars
  <2>1. PICK x \in {"log", "reply"} : pc' = [pc EXCEPT ![t] = x]
    BY <1>2 DEF Acquire, Goto
  <2>2. pc[t] \notin Saving
    BY <1>2 DEF Acquire, RunsAreActive, Saving
  <2>. QED
    BY <1>2, <2>1, <2>2, OutsideStutters DEF Acquire, Saving
<1>3. ASSUME NEW t \in Task, CreateLog(t) PROVE UNCHANGED Serial!vars
  BY <1>3, OutsideStutters DEF CreateLog, Goto, Saving
<1>4. ASSUME NEW t \in Task, Load(t) PROVE [Serial!Next]_(Serial!vars)
  <2>1. CASE /\ EnsureSiteTransition(site.status, "deploying")
             /\ stale' = [stale EXCEPT ![t] = FALSE]
             /\ Goto(t, "mark") /\ UNCHANGED site
    <3>1. /\ pc'[t] \in Saving /\ pc'[t] = "mark" /\ ~stale'[t]
          /\ stale'[t] \in BOOLEAN
      BY <2>1 DEF Goto, TypeOK, Saving
    <3>2. \A u \in Task : pc'[u] \in Saving => u = t
      BY <3>1 DEF RunOwnsLock, InRun, Locked
    <3>3. PhaseOf(pc') = "looked" /\ TouchedBy(pc', stale') = stale'[t]
      BY <3>1, <3>2, OneSaving
    <3>4. \A u \in Task : pc[u] \notin Saving
      BY <1>4, <2>1, <3>2 DEF Load, Goto, TypeOK, Saving
    <3>5. PhaseOf(pc) = "idle" /\ TouchedBy(pc, stale) = FALSE
      BY <3>4, NobodySaving
    <3>. QED
      BY <2>1, <3>1, <3>3, <3>5, MapsLook
  <2>2. CASE (Abort(t, "skip") \/ Abort(t, "err")) /\ UNCHANGED <<site, stale>>
    BY <1>4, <2>2, OutsideStutters DEF Load, Abort, Goto, Saving
  <2>. QED
    BY <1>4, <2>1, <2>2 DEF Load
<1>5. ASSUME NEW t \in Task, MarkDeploying(t) PROVE Serial!Next
  BY <1>5, MarkAnnounces
<1>6. ASSUME NEW t \in Task, RunCommands(t) \/ IssueCertificate(t) PROVE UNCHANGED Serial!vars
  <2>1. PICK x \in Saving \ {"mark"} : pc' = [pc EXCEPT ![t] = x]
    BY <1>6 DEF RunCommands, IssueCertificate, Goto, Saving
  <2>2. pc[t] \in Saving /\ pc[t] # "mark" /\ UNCHANGED <<site, stale>>
    BY <1>6 DEF RunCommands, IssueCertificate, Saving
  <2>3. PhaseOf(pc') = "deploying" /\ TouchedBy(pc', stale') = stale'[t]
    BY <2>1, <2>2, AloneGoesOn
  <2>4. PhaseOf(pc) = "deploying" /\ TouchedBy(pc, stale) = stale[t]
    BY <2>2, AloneSaving
  <2>. QED
    BY <2>2, <2>3, <2>4, MapsStutter
<1>7. ASSUME NEW t \in Task, MarkDeployFailed(t) PROVE Serial!Next
  BY <1>7, SaveConcludes DEF MarkDeployFailed, Saving
<1>8. ASSUME NEW t \in Task, MarkDeployed(t) PROVE Serial!Next
  BY <1>8, SaveConcludes DEF MarkDeployed, Saving
<1>9. ASSUME NEW t \in Task, MarkSslPending(t) PROVE Serial!Next
  BY <1>9, SaveConcludes DEF MarkSslPending, Saving
<1>10. ASSUME NEW t \in Task, EnqueueIssue(t) \/ FinishLog(t) \/ Reply(t)
       PROVE  UNCHANGED Serial!vars
  BY <1>10, OutsideStutters DEF EnqueueIssue, FinishLog, Reply, Goto, Saving
<1>11. ASSUME NEW t \in Task, Release(t) PROVE UNCHANGED Serial!vars
  <2>1. \A u \in Task \ {t} : stale'[u] = stale[u]
    BY <1>11 DEF Release, TypeOK
  <2>. QED
    BY <1>11, <2>1, OutsideStutters DEF Release, Goto, Saving
<1>12. ASSUME NEW status \in FormStatus, OperatorUpdate(status) PROVE Serial!Next
  BY <1>12, OvertakeTouches DEF OperatorUpdate
<1>13. CASE OperatorDelete
  BY <1>13, OvertakeTouches DEF OperatorDelete, NoRow
<1>14. CASE LockExpires \/ UNCHANGED vars
  BY <1>14, MapsStutter DEF LockExpires, vars
<1>15. CASE Crash
  <2>1. site' = site /\ \A u \in Task : pc'[u] \notin Saving
    BY <1>15 DEF Crash, LoseRuns, Saving
  <2>2. PhaseOf(pc') = "idle" /\ TouchedBy(pc', stale') = FALSE
    BY <2>1, NobodySaving
  <2>3. CASE PhaseOf(pc) = "idle"
    <3>1. \A u \in Task : pc[u] \notin Saving
      BY <2>3 DEF PhaseOf, Saving
    <3>. QED
      BY <2>1, <2>2, <3>1, NobodySaving, MapsStutter
  <2>4. CASE PhaseOf(pc) # "idle"
    BY <2>1, <2>2, <2>4, MapsGiveUp
  <2>. QED
    BY <2>3, <2>4
<1>. QED
  BY <1>1, <1>2, <1>3, <1>4, <1>5, <1>6, <1>7, <1>8, <1>9, <1>10, <1>11, <1>12, <1>13,
     <1>14, <1>15 DEF Next, Run, Environment

\* As long as runs end within the TTL of their lock, the deploys of a site look serial from
\* its row: one at a time, at most one outcome each, every write lawful unless an operator
\* came between, no deleted row brought back.
THEOREM DeploysAreSerial ==
  ASSUME ~RunsOutliveLock
  PROVE  Spec => ImplementsSerialDeploys
<1>1. Init => Serial!Init
  <2> SUFFICES ASSUME Init PROVE Serial!Init
    OBVIOUS
  <2>1. \A t \in Task : pc[t] \notin Saving
    BY DEF Init, Saving
  <2>2. PhaseOf(pc) = "idle" /\ TouchedBy(pc, stale) = FALSE
    BY <2>1, NobodySaving
  <2>. QED
    BY <2>2 DEF Init, Serial!Init, PhaseOf, TouchedBy
<1>2. Init => RunsAreActive /\ RunOwnsLock
  BY DEF Init, RunsAreActive, RunOwnsLock, InRun, Locked, Saving
<1>3. /\ TypeOK /\ TypeOK' /\ RunsAreActive /\ RunOwnsLock /\ RunOwnsLock'
      /\ CopyIsFresh /\ [Next]_vars
      => [Serial!Next]_(Serial!vars)
  BY StepIsSerial
<1>. QED
  BY <1>1, <1>2, <1>3, StepRunsAreActive, StepRunOwnsLock, TypeCorrect, CopiesAreFresh, PTL
     DEF Spec, ImplementsSerialDeploys, Serial!Spec
=============================================================================
