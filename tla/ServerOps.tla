------------------------------ MODULE ServerOps ------------------------------
(***************************************************************************)
(* The work done on ONE server, all of which reads the server's row and    *)
(* later writes it back whole: the Asynq tasks "provision:<id>" and        *)
(* "ssl-renew:<id>", each unique by its task ID and each under a Redis     *)
(* lock of its own; POST /servers/:id/connect, which takes no lock; and    *)
(* the operator, who edits or deletes the row.  Nothing orders them.       *)
(*                                                                         *)
(* The audit trail is kept as a balance per status: how many recorded      *)
(* events lead to it, less those that lead away from it.                   *)
(***************************************************************************)
EXTENDS Integers, Lifecycle

CONSTANTS
  Connector,    \* the connection tests that operators may ask for
  MaxRetry,     \* [Queued -> Nat], Asynq's retry limits
  FormStatus,   \* statuses an operator's PUT may carry (the API checks none)
  MaxEdits,     \* bound: operator writes of the row
  MaxFaults,    \* bound: failing database or Redis calls
  MaxCrashes    \* bound: deaths of the API process

Queued == {"provision", "renew"}
Job == Queued \cup Connector

ASSUME ServerAssumption ==
  /\ MaxRetry \in [Queued -> Nat]
  /\ FormStatus \subseteq ServerStatus
  /\ MaxEdits \in Nat /\ MaxFaults \in Nat /\ MaxCrashes \in Nat
  /\ Connector \cap Queued = {}

VARIABLES
  server,     \* the row: status, cfg (the edit its other columns come from), renew
  installed,  \* have the provisioning commands all run on the machine?
  lock,       \* Redis key of each queued job: "free", "held", "dead" (owner gone)
  task,       \* Asynq's state of each queued job; a connector's request
  tries,      \* retries Asynq has charged
  pc,         \* where each job stands in its Execute function, or in Connect
  copy,       \* its in-memory copy of the row
  event,      \* the status event it is about to record: <<from, to>>
  ret,        \* what it is about to return
  stale,      \* has anyone else written the row since the job read it?
  trail,      \* [ServerStatus -> Int], the balance of the events (kept until gap)
  gap,        \* has a write gone unrecorded, or a stale copy been written?
  edits, faults, crashes

jobVars == <<lock, task, tries, pc, copy, event, ret, stale>>
worldVars == <<server, installed, trail, gap>>
bounds == <<edits, faults, crashes>>
vars == <<jobVars, worldVars, bounds>>
-----------------------------------------------------------------------------
Deleted == "deleted"
NoRow == [status |-> Deleted, cfg |-> 0, renew |-> "unknown"]
Row == [status : ServerStatus \cup {Deleted}, cfg : 0..MaxEdits,
        renew : {"unknown", "success", "failed"}]

\* The copy will yet be written.
Holding == {"mark", "auditMark", "work", "saveFailed", "saveDone"}
Step == {"idle", "read", "audit", "release", "reply"} \cup Holding
NoEvent == <<Deleted, Deleted>>
NoTrail == [s \in ServerStatus |-> 0]

Goto(j, step) == pc' = [pc EXCEPT ![j] = step]
Return(j, result) == ret' = [ret EXCEPT ![j] = result]

\* A gap, once there, stays; the balance is of no use after it.
Gap(now) ==
  /\ gap' = (gap \/ now)
  /\ trail' = IF gap \/ now THEN NoTrail ELSE trail

CallFails(certain) ==
  \/ certain /\ UNCHANGED faults
  \/ ~certain /\ faults < MaxFaults /\ faults' = faults + 1

\* Where a job goes when it is over, or fails.
Leave(j) == IF j \in Queued THEN "release" ELSE "reply"

Init ==
  /\ server = [status |-> "pending", cfg |-> 0, renew |-> "unknown"]
  /\ installed = FALSE
  /\ lock = [q \in Queued |-> "free"]
  /\ task = [j \in Job |-> "absent"]
  /\ tries = [q \in Queued |-> 0]
  /\ pc = [j \in Job |-> "idle"]
  /\ copy = [j \in Job |-> NoRow]
  /\ event = [j \in Job |-> NoEvent]
  /\ ret = [j \in Job |-> "nil"]
  /\ stale = [j \in Job |-> FALSE]
  /\ trail = NoTrail
  /\ gap = FALSE
  /\ edits = 0 /\ faults = 0 /\ crashes = 0
-----------------------------------------------------------------------------
\* EnqueueProvision, enqueueRenew: a task ID that is taken is the caller's error.
Enqueue(q) ==
  /\ task[q] = "absent"
  /\ task' = [task EXCEPT ![q] = "pending"]
  /\ tries' = [tries EXCEPT ![q] = 0]
  /\ UNCHANGED <<lock, pc, copy, event, ret, stale, worldVars, bounds>>

\* An operator asks for a connection test; it is served at once.
RequestConnect(c) ==
  /\ c \in Connector /\ task[c] = "absent"
  /\ task' = [task EXCEPT ![c] = "active"]
  /\ Goto(c, "read")
  /\ UNCHANGED <<lock, tries, copy, event, ret, stale, worldVars, bounds>>

\* A worker takes the task.  A key that is held makes the job return nil at once.
Acquire(q) ==
  /\ task[q] \in {"pending", "retry"}
  /\ task' = [task EXCEPT ![q] = "active"]
  /\ \/ /\ lock[q] = "free"
        /\ lock' = [lock EXCEPT ![q] = "held"]
        /\ Return(q, "nil") /\ Goto(q, "read")
        /\ UNCHANGED faults
     \/ /\ lock[q] # "free"
        /\ Return(q, "nil") /\ Goto(q, "reply")
        /\ UNCHANGED <<lock, faults>>
     \/ /\ CallFails(FALSE)
        /\ Return(q, "err") /\ Goto(q, "reply")
        /\ UNCHANGED lock
  /\ UNCHANGED <<tries, copy, event, stale, worldVars, edits, crashes>>

\* Only provisioning checks a status here: it must be allowed to start.
Refused(j) == j = "provision" /\ ~EnsureServerTransition(server.status, "provisioning")

Read(j) ==
  /\ pc[j] = "read"
  /\ \/ /\ server.status # Deleted /\ ~Refused(j)
        /\ copy' = [copy EXCEPT ![j] = server]
        /\ stale' = [stale EXCEPT ![j] = FALSE]
        /\ Goto(j, IF j = "provision" THEN "mark" ELSE "work")
        /\ UNCHANGED <<ret, faults>>
     \/ /\ CallFails(server.status = Deleted \/ Refused(j))
        /\ Return(j, "err") /\ Goto(j, Leave(j))
        /\ UNCHANGED <<copy, stale>>
  /\ UNCHANGED <<lock, task, tries, event, worldVars, edits, crashes>>

\* The remote work: the provisioning script, certbot renew, the test command.
Work(j) ==
  /\ pc[j] = "work"
  /\ \/ Goto(j, "saveDone") /\ installed' = (installed \/ j = "provision") /\ UNCHANGED ret
     \/ Goto(j, "saveFailed") /\ Return(j, "err") /\ UNCHANGED installed
  /\ UNCHANGED <<lock, task, tries, copy, event, stale, server, trail, gap, bounds>>

\* What the job makes of its copy; the renew job leaves the status as it read it.
Outcome(j, ok) ==
  IF j = "renew" THEN [copy[j] EXCEPT !.renew = IF ok THEN "success" ELSE "failed"]
  ELSE [copy[j] EXCEPT !.status =
          IF j = "provision" THEN IF ok THEN "ready_for_deploy" ELSE "provision_failed"
          ELSE IF ok THEN "connected" ELSE "connection_failed"]

\* Everybody else's copy is out of date after j (or the operator) wrote the row.
Overtake(j) == stale' = [k \in Job |-> stale[k] \/ (k # j /\ pc[k] \in Holding)]

\* Mutant: the job saves whatever the transition table says.
Save_Unchecked(j, row, next) ==
  /\ server.status # Deleted
  /\ server' = row
  /\ copy' = [copy EXCEPT ![j] = IF next = "audit" THEN NoRow ELSE row]
  /\ event' = [event EXCEPT ![j] = <<copy[j].status, row.status>>]
  /\ Gap(stale[j])
  /\ Overtake(j) /\ Goto(j, next)
  /\ UNCHANGED <<lock, task, tries, ret, installed, bounds>>

\* Mutant: the event's from-status is taken after the new status is set.
Save_LatePrev(j, row, next) ==
  /\ server.status # Deleted
  /\ EnsureServerTransition(copy[j].status, row.status)
  /\ server' = row
  /\ copy' = [copy EXCEPT ![j] = IF next = "audit" THEN NoRow ELSE row]
  /\ event' = [event EXCEPT ![j] = <<row.status, row.status>>]
  /\ Gap(stale[j])
  /\ Overtake(j) /\ Goto(j, next)
  /\ UNCHANGED <<lock, task, tries, ret, installed, bounds>>

\* Check the table on the copy's status and replace the row by the copy.  (For a
\* renewal the status does not move, which the table always allows.)
Save(j, row, next) ==
  \/ /\ EnsureServerTransition(copy[j].status, row.status)
     /\ server.status # Deleted
     /\ server' = row
     /\ copy' = [copy EXCEPT ![j] = IF next = "audit" THEN NoRow ELSE row]
     /\ event' = [event EXCEPT ![j] = <<copy[j].status, row.status>>]
     /\ Gap(stale[j])
     /\ Overtake(j) /\ Goto(j, next)
     /\ UNCHANGED <<lock, task, tries, ret, installed, bounds>>
  \/ /\ CallFails(\/ server.status = Deleted
                  \/ ~EnsureServerTransition(copy[j].status, row.status))
     /\ Return(j, "err") /\ Goto(j, Leave(j))
     /\ UNCHANGED <<lock, task, tries, copy, event, stale, worldVars, edits, crashes>>

MarkProvisioning ==
  /\ pc["provision"] = "mark"
  /\ Save("provision", [copy["provision"] EXCEPT !.status = "provisioning"], "auditMark")

\* Mutant: a failed run is saved as one that succeeded.
SaveFailed_AsDone(j) == pc[j] = "saveFailed" /\ Save(j, Outcome(j, TRUE), "audit")

SaveFailed(j) == pc[j] = "saveFailed" /\ Save(j, Outcome(j, FALSE), "audit")
SaveDone(j)   == pc[j] = "saveDone"   /\ Save(j, Outcome(j, TRUE), "audit")

\* writeAudit: no event when the status stayed; its own failure is ignored.
\* (The events of a renewal name no status: "renewing", "renew_success".)
Audit(j, here, next) ==
  /\ pc[j] = here
  /\ \/ /\ UNCHANGED <<gap, faults>>
        /\ trail' = IF gap \/ event[j][1] = event[j][2] THEN trail
                    ELSE [trail EXCEPT ![event[j][1]] = @ - 1, ![event[j][2]] = @ + 1]
     \/ event[j][1] # event[j][2] /\ CallFails(FALSE) /\ Gap(TRUE)
  /\ event' = [event EXCEPT ![j] = NoEvent]
  /\ Goto(j, next)
  /\ UNCHANGED <<lock, task, tries, copy, ret, stale, server, installed, edits, crashes>>

AuditMark    == Audit("provision", "auditMark", "work")
AuditOutcome(j) == Audit(j, "audit", Leave(j))

Release(q) ==
  /\ pc[q] = "release"
  /\ \/ lock' = [lock EXCEPT ![q] = "free"] /\ UNCHANGED faults
     \/ lock' = [lock EXCEPT ![q] = "dead"] /\ CallFails(FALSE)
  /\ Goto(q, "reply")
  /\ UNCHANGED <<task, tries, copy, event, ret, stale, worldVars, edits, crashes>>

\* The memory of a job goes with it.
Forget(j) ==
  /\ copy' = [copy EXCEPT ![j] = NoRow]
  /\ stale' = [stale EXCEPT ![j] = FALSE]
  /\ Return(j, "nil") /\ Goto(j, "idle")

\* Mutant: a failed task is acknowledged like one that succeeded.
Reply_AckErrors(j) ==
  /\ pc[j] = "reply"
  /\ task' = [task EXCEPT ![j] = IF j \in Connector THEN "done" ELSE "absent"]
  /\ Forget(j)
  /\ UNCHANGED <<lock, tries, event, worldVars, bounds>>

\* Mutant: a retry is not charged.
Reply_FreeRetry(j) ==
  /\ pc[j] = "reply"
  /\ task' = [task EXCEPT ![j] = IF j \in Connector THEN "done"
                                ELSE IF ret[j] = "err" THEN "retry" ELSE "absent"]
  /\ Forget(j)
  /\ UNCHANGED <<lock, tries, event, worldVars, bounds>>

\* Mutant: an error is retried once more than the limit says.
Reply_OneTooMany(j) ==
  /\ pc[j] = "reply"
  /\ IF j \in Queued /\ ret[j] = "err" /\ tries[j] <= MaxRetry[j]
     THEN task' = [task EXCEPT ![j] = "retry"] /\ tries' = [tries EXCEPT ![j] = @ + 1]
     ELSE task' = [task EXCEPT ![j] = "done"] /\ UNCHANGED tries
  /\ Forget(j)
  /\ UNCHANGED <<lock, event, worldVars, bounds>>

\* The task handler: a task that is done gives its ID back, an archived one
\* keeps it.  A connection test answers its caller, whatever came of it.
Reply(j) ==
  /\ pc[j] = "reply"
  /\ \/ /\ j \in Connector
        /\ task' = [task EXCEPT ![j] = "done"] /\ UNCHANGED tries
     \/ /\ j \in Queued /\ ret[j] = "nil"
        /\ task' = [task EXCEPT ![j] = "absent"] /\ UNCHANGED tries
     \/ /\ j \in Queued /\ ret[j] = "err" /\ tries[j] < MaxRetry[j]
        /\ task' = [task EXCEPT ![j] = "retry"]
        /\ tries' = [tries EXCEPT ![j] = @ + 1]
     \/ /\ j \in Queued /\ ret[j] = "err" /\ tries[j] = MaxRetry[j]
        /\ task' = [task EXCEPT ![j] = "archived"] /\ UNCHANGED tries
  /\ Forget(j)
  /\ UNCHANGED <<lock, event, worldVars, bounds>>
-----------------------------------------------------------------------------
\* PUT /servers/:id builds a row of its own: the status is the form's ("pending"
\* when it has none), and the renewal columns start again as unknown.
OperatorUpdate(status) ==
  /\ server.status # Deleted /\ edits < MaxEdits
  /\ edits' = edits + 1
  /\ server' = [status |-> status, cfg |-> edits', renew |-> "unknown"]
  /\ Gap(TRUE)
  /\ stale' = [k \in Job |-> stale[k] \/ pc[k] \in Holding]
  /\ UNCHANGED <<lock, task, tries, pc, copy, event, ret, installed, faults, crashes>>

OperatorDelete ==
  /\ server.status # Deleted /\ edits < MaxEdits
  /\ edits' = edits + 1
  /\ server' = NoRow
  /\ Gap(TRUE)
  /\ stale' = [k \in Job |-> stale[k] \/ pc[k] \in Holding]
  /\ UNCHANGED <<lock, task, tries, pc, copy, event, ret, installed, faults, crashes>>

\* The TTL of a key whose owner is gone.
LockExpires(q) ==
  /\ lock[q] = "dead"
  /\ lock' = [lock EXCEPT ![q] = "free"]
  /\ UNCHANGED <<task, tries, pc, copy, event, ret, stale, worldVars, bounds>>

\* The process dies: tasks are delivered again, requests are not, and an event
\* that was not yet recorded never will be.
Crash ==
  /\ crashes < MaxCrashes /\ crashes' = crashes + 1
  /\ \E j \in Job : task[j] = "active"
  /\ ret' = [j \in Job |-> "nil"]
  /\ task' = [j \in Job |-> IF task[j] # "active" THEN task[j]
                            ELSE IF j \in Queued THEN "pending" ELSE "done"]
  /\ lock' = [q \in Queued |-> IF lock[q] = "held" THEN "dead" ELSE lock[q]]
  /\ pc' = [j \in Job |-> "idle"]
  /\ copy' = [j \in Job |-> NoRow]
  /\ event' = [j \in Job |-> NoEvent]
  /\ stale' = [j \in Job |-> FALSE]
  /\ Gap(\E j \in Job : event[j][1] # event[j][2])
  /\ UNCHANGED <<tries, server, installed, edits, faults>>

Run(j) ==
  \/ Read(j) \/ Work(j) \/ SaveFailed(j) \/ SaveDone(j) \/ AuditOutcome(j) \/ Reply(j)
  \/ j \in Queued /\ (Acquire(j) \/ Release(j))
  \/ j = "provision" /\ (MarkProvisioning \/ AuditMark)

Next ==
  \/ \E q \in Queued : Enqueue(q) \/ LockExpires(q)
  \/ \E c \in Connector : RequestConnect(c)
  \/ \E j \in Job : Run(j)
  \/ \E status \in FormStatus : OperatorUpdate(status)
  \/ OperatorDelete \/ Crash

Spec == Init /\ [][Next]_vars

\* Workers and request handlers go on, remote commands return, a TTL runs out.
Fairness ==
  /\ \A j \in Job : WF_vars(Run(j))
  /\ \A q \in Queued : WF_vars(LockExpires(q))

FairSpec == Spec /\ Fairness
-----------------------------------------------------------------------------
(* Properties *)

\* Every variable stays in its range.
TypeOK ==
  /\ server \in Row
  /\ installed \in BOOLEAN /\ gap \in BOOLEAN
  /\ lock \in [Queued -> {"free", "held", "dead"}]
  /\ task \in [Job -> {"absent", "pending", "active", "retry", "archived", "done"}]
  /\ \A q \in Queued : tries[q] \in 0..MaxRetry[q]
  /\ pc \in [Job -> Step]
  /\ copy \in [Job -> Row]
  /\ event \in [Job -> (ServerStatus \X ServerStatus) \cup {NoEvent}]
  /\ ret \in [Job -> {"nil", "err"}]
  /\ stale \in [Job -> BOOLEAN]
  /\ trail \in [ServerStatus -> Int]
  /\ edits \in 0..MaxEdits /\ faults \in 0..MaxFaults /\ crashes \in 0..MaxCrashes

WritesRow(j) == pc[j] \in Holding /\ pc'[j] # pc[j] /\ server' # server

\* The write of a job whose copy nobody overtook moves the row's real status along
\* the table of lifecycle/status.go and leaves what is not the job's alone: the
\* operator's columns always, the renewal columns unless it is the renewal, and
\* the status if it is.
WritesOwnColumns ==
  [][\A j \in Job : WritesRow(j) /\ ~stale[j] =>
       /\ EnsureServerTransition(server.status, server'.status)
       /\ server'.cfg = server.cfg
       /\ j # "renew" => server'.renew = server.renew
       /\ j = "renew" => server'.status = server.status]_vars

\* While only jobs have written the row, a server is ready for deploys only if
\* every provisioning command has run on it; connecting cannot make it so, nor
\* can the outcome of a run that failed.
ReadyMeansInstalled ==
  edits = 0 /\ server.status = "ready_for_deploy" => installed

\* If every write was based on a fresh copy and recorded, the status events form a
\* walk from the first status to the present one, in whichever order they were
\* recorded: each status is entered as often as it is left, but for the two ends.
TrailLeadsHere ==
  ~gap /\ (\A j \in Job : event[j] = NoEvent) =>
    trail = [s \in ServerStatus |->
               (IF s = server.status THEN 1 ELSE 0) - (IF s = "pending" THEN 1 ELSE 0)]

\* A server does not stay "provisioning" for ever, unless the process died, its
\* task was archived, or an operator's form or a stale copy wrote the row.
NotStuckProvisioning ==
  server.status = "provisioning" ~>
    \/ server.status # "provisioning"
    \/ crashes > 0 \/ gap \/ task["provision"] = "archived"

\* While no task is archived, each server can be provisioned and its certificates
\* renewed again later: a task gives its ID back, whatever fails or dies.
IdComesFree ==
  \A q \in Queued : task[q] = "pending" ~> task[q] \in {"absent", "archived"}
=============================================================================
