--------------------------- MODULE ServerOps_proofs ---------------------------
(***************************************************************************)
(* For any number of connection tests and any bounds on edits, failures    *)
(* and crashes: what the jobs of a server do to its row.                   *)
(*                                                                         *)
(* WritesOwnColumns rests on one invariant: a copy that will yet be        *)
(* written, and that nobody overtook, equals the row (CopiesMatch).        *)
(* ReadyMeansInstalled is made inductive by saying the same of the copies, *)
(* and that a provisioning run about to save its success has run all its   *)
(* commands (ReadyIsEarned).                                               *)
(*                                                                         *)
(* TypeOK needs that a job which goes on with a row holds one (HoldsLive). *)
(* TrailLeadsHere speaks of moments when no event is owed.  Between them   *)
(* the recorded and the owed events are counted together: for each status, *)
(* those that enter it less those that leave it say whether it is the one  *)
(* the row has (Balanced).                                                 *)
(***************************************************************************)
EXTENDS ServerOps, FiniteSetTheorems, TLAPS

RowsOK ==
  /\ server \in Row /\ copy \in [Job -> Row]
  /\ pc \in [Job -> Step] /\ stale \in [Job -> BOOLEAN]
  /\ edits \in 0 .. MaxEdits

CopiesMatch == \A j \in Job : pc[j] \in Holding /\ ~stale[j] => copy[j] = server

USE ServerAssumption DEF ServerAssumption

LEMMA OutcomeTyped ==
  ASSUME NEW j \in Job, copy[j] \in Row, NEW ok \in BOOLEAN
  PROVE  /\ Outcome(j, ok) \in Row
         /\ Outcome(j, ok).cfg = copy[j].cfg
         /\ j # "renew" => Outcome(j, ok).renew = copy[j].renew
         /\ j = "renew" => Outcome(j, ok).status = copy[j].status
  BY DEF Outcome, Row, ServerStatus

\* The two things that a save can come to.
LEMMA SaveCases ==
  ASSUME RowsOK, NEW j \in Job, NEW row \in Row, NEW next \in {"auditMark", "audit"},
         Save(j, row, next)
  PROVE  \/ /\ server' = row /\ copy' = [copy EXCEPT ![j] = IF next = "audit" THEN NoRow ELSE row]
            /\ stale' = [k \in Job |-> stale[k] \/ (k # j /\ pc[k] \in Holding)]
            /\ pc' = [pc EXCEPT ![j] = next] /\ UNCHANGED <<installed, edits>>
            /\ EnsureServerTransition(copy[j].status, row.status)
         \/ /\ UNCHANGED <<server, copy, stale, installed, edits>>
            /\ pc' = [pc EXCEPT ![j] = Leave(j)]
  BY DEF Save, Overtake, Goto, bounds, worldVars

LEMMA NoRowTyped == NoRow \in Row
  BY DEF NoRow, Row, Deleted

\* A save keeps the ranges and the match, whichever way it goes.
LEMMA SaveMatches ==
  ASSUME RowsOK, CopiesMatch, NEW j \in Job, NEW row \in Row, NEW next \in {"auditMark", "audit"},
         Save(j, row, next)
  PROVE  RowsOK' /\ CopiesMatch'
<1>1. CASE /\ server' = row /\ copy' = [copy EXCEPT ![j] = IF next = "audit" THEN NoRow ELSE row]
           /\ stale' = [k \in Job |-> stale[k] \/ (k # j /\ pc[k] \in Holding)]
           /\ pc' = [pc EXCEPT ![j] = next] /\ UNCHANGED <<installed, edits>>
  <2>1. RowsOK'
    BY <1>1, NoRowTyped DEF RowsOK, Step, Holding
  <2>2. ASSUME NEW k \in Job, pc'[k] \in Holding, ~stale'[k] PROVE copy'[k] = server'
    <3>1. CASE k = j
      BY <1>1, <2>2, <3>1 DEF RowsOK, Holding
    <3>2. CASE k # j
      BY <1>1, <2>2, <3>2 DEF RowsOK
    <3>. QED
      BY <3>1, <3>2
  <2>. QED
    BY <2>1, <2>2 DEF CopiesMatch
<1>2. CASE UNCHANGED <<server, copy, stale, installed, edits>> /\ pc' = [pc EXCEPT ![j] = Leave(j)]
  BY <1>2 DEF RowsOK, CopiesMatch, Leave, Step, Holding
<1>. QED
  BY <1>1, <1>2, SaveCases, Zenon

LEMMA MatchStep == ASSUME RowsOK, CopiesMatch, [Next]_vars PROVE RowsOK' /\ CopiesMatch'
<1>1. ASSUME NEW q \in Queued, Enqueue(q) \/ LockExpires(q) PROVE RowsOK' /\ CopiesMatch'
  BY <1>1 DEF Enqueue, LockExpires, worldVars, bounds, RowsOK, CopiesMatch
<1>2. ASSUME NEW c \in Connector, RequestConnect(c) PROVE RowsOK' /\ CopiesMatch'
  BY <1>2 DEF RequestConnect, Goto, worldVars, bounds, RowsOK, CopiesMatch, Step, Holding, Job
<1>3. ASSUME NEW j \in Job, Run(j) PROVE RowsOK' /\ CopiesMatch'
  <2>1. CASE Read(j)
    <3>1. CASE /\ copy' = [copy EXCEPT ![j] = server] /\ stale' = [stale EXCEPT ![j] = FALSE]
               /\ pc' = [pc EXCEPT ![j] = IF j = "provision" THEN "mark" ELSE "work"]
               /\ UNCHANGED <<server, edits>>
      BY <3>1 DEF RowsOK, CopiesMatch, Step, Holding
    <3>2. CASE pc' = [pc EXCEPT ![j] = Leave(j)] /\ UNCHANGED <<server, copy, stale, edits>>
      BY <3>2 DEF RowsOK, CopiesMatch, Step, Holding, Leave
    <3>. QED
      BY <2>1, <3>1, <3>2 DEF Read, Goto, worldVars
  <2>2. CASE Work(j)
    <3>1. /\ pc[j] = "work" /\ UNCHANGED <<server, copy, stale, edits>>
          /\ pc' = [pc EXCEPT ![j] = "saveDone"] \/ pc' = [pc EXCEPT ![j] = "saveFailed"]
      BY <2>2 DEF Work, Goto, bounds
    <3>. QED
      BY <3>1 DEF RowsOK, CopiesMatch, Step, Holding
  <2>3. CASE SaveFailed(j) \/ SaveDone(j)
    BY <2>3, SaveMatches, OutcomeTyped DEF SaveFailed, SaveDone, RowsOK
  <2>4. CASE AuditOutcome(j)
    <3>1. UNCHANGED <<server, copy, stale, edits>> /\ pc' = [pc EXCEPT ![j] = Leave(j)]
      BY <2>4 DEF AuditOutcome, Audit, Goto
    <3>. QED
      BY <3>1 DEF RowsOK, CopiesMatch, Step, Holding, Leave
  <2>5. CASE Reply(j)
    <3>1. /\ pc' = [pc EXCEPT ![j] = "idle"] /\ copy' = [copy EXCEPT ![j] = NoRow]
          /\ stale' = [stale EXCEPT ![j] = FALSE] /\ UNCHANGED <<server, edits>>
      BY <2>5 DEF Reply, Forget, Goto, worldVars, bounds
    <3>. QED
      BY <3>1, NoRowTyped DEF RowsOK, CopiesMatch, Step, Holding
  <2>6. CASE Acquire(j) \/ Release(j)
    <3>1. /\ UNCHANGED <<server, copy, stale, edits>>
          /\ pc' = [pc EXCEPT ![j] = "read"] \/ pc' = [pc EXCEPT ![j] = "reply"]
      BY <2>6 DEF Acquire, Release, Goto, worldVars
    <3>. QED
      BY <3>1 DEF RowsOK, CopiesMatch, Step, Holding
  <2>7. CASE j = "provision" /\ MarkProvisioning
    <3>1. [copy["provision"] EXCEPT !.status = "provisioning"] \in Row
      BY <2>7 DEF RowsOK, Row, ServerStatus
    <3>. QED
      BY <2>7, <3>1, SaveMatches DEF MarkProvisioning
  <2>8. CASE j = "provision" /\ AuditMark
    <3>1. /\ UNCHANGED <<server, copy, stale, edits>> /\ pc[j] = "auditMark"
          /\ pc' = [pc EXCEPT ![j] = "work"]
      BY <2>8 DEF AuditMark, Audit, Goto
    <3>. QED
      BY <3>1 DEF RowsOK, CopiesMatch, Step, Holding
  <2>. QED
    BY <1>3, <2>1, <2>2, <2>3, <2>4, <2>5, <2>6, <2>7, <2>8 DEF Run
<1>4. ASSUME NEW status \in FormStatus, OperatorUpdate(status) PROVE RowsOK' /\ CopiesMatch'
  <2>1. /\ edits' = edits + 1 /\ edits' \in 0 .. MaxEdits /\ UNCHANGED <<pc, copy>>
        /\ server' = [status |-> status, cfg |-> edits', renew |-> "unknown"]
        /\ stale' = [k \in Job |-> stale[k] \/ pc[k] \in Holding]
    BY <1>4 DEF OperatorUpdate, RowsOK
  <2>. QED
    BY <2>1 DEF RowsOK, CopiesMatch, Row
<1>5. CASE OperatorDelete
  <2>1. /\ edits' = edits + 1 /\ edits' \in 0 .. MaxEdits /\ UNCHANGED <<pc, copy>>
        /\ server' = NoRow /\ stale' = [k \in Job |-> stale[k] \/ pc[k] \in Holding]
    BY <1>5 DEF OperatorDelete, RowsOK
  <2>. QED
    BY <2>1, NoRowTyped DEF RowsOK, CopiesMatch
<1>6. CASE Crash
  <2>1. /\ pc' = [j \in Job |-> "idle"] /\ copy' = [j \in Job |-> NoRow]
        /\ stale' = [j \in Job |-> FALSE] /\ UNCHANGED <<server, edits>>
    BY <1>6 DEF Crash
  <2>. QED
    BY <2>1, NoRowTyped DEF RowsOK, CopiesMatch, Step, Holding
<1>7. CASE UNCHANGED vars
  BY <1>7 DEF vars, jobVars, worldVars, bounds, RowsOK, CopiesMatch
<1>. QED
  BY <1>1, <1>2, <1>3, <1>4, <1>5, <1>6, <1>7 DEF Next

LEMMA RowsInitially == Init => RowsOK /\ CopiesMatch
  BY NoRowTyped DEF Init, RowsOK, CopiesMatch, Row, ServerStatus, Step, Holding

\* A job whose copy nobody overtook holds the row as it is.
LEMMA MatchInvariant == Spec => [](RowsOK /\ CopiesMatch)
  BY RowsInitially, MatchStep, PTL DEF Spec

\* A write by a job that was not overtaken moves the row's real status along the table
\* and leaves the columns of others alone: provisioning, renewal and any number of
\* connection tests, whatever the operator, failures and crashes do.
THEOREM JobsWriteTheirOwn == Spec => WritesOwnColumns
<1> DEFINE Own(j) == /\ EnsureServerTransition(server.status, server'.status)
                     /\ server'.cfg = server.cfg
                     /\ j # "renew" => server'.renew = server.renew
                     /\ j = "renew" => server'.status = server.status
           Kept == \A j \in Job : WritesRow(j) /\ ~stale[j] => Own(j)
<1>1. ASSUME RowsOK, CopiesMatch, [Next]_vars, NEW j \in Job, WritesRow(j), ~stale[j]
      PROVE  Own(j)
  <2>1. pc[j] \in Holding /\ pc'[j] # pc[j] /\ server' # server /\ copy[j] = server
    BY <1>1 DEF WritesRow, CopiesMatch
  <2>2. ASSUME NEW ok \in BOOLEAN, Save(j, Outcome(j, ok), "audit") PROVE Own(j)
    <3>1. copy[j] \in Row
      BY <1>1 DEF RowsOK
    <3>2. Outcome(j, ok) \in Row
      BY <3>1, OutcomeTyped
    <3>3. server' = Outcome(j, ok) /\ EnsureServerTransition(copy[j].status, Outcome(j, ok).status)
      BY <1>1, <2>1, <2>2, <3>2, SaveCases
    <3>. QED
      BY <2>1, <3>1, <3>3, OutcomeTyped
  <2>3. CASE MarkProvisioning /\ j = "provision"
    <3>1. [copy[j] EXCEPT !.status = "provisioning"] \in Row
      BY <1>1 DEF RowsOK, Row, ServerStatus
    <3>2. /\ server' = [copy[j] EXCEPT !.status = "provisioning"]
          /\ EnsureServerTransition(copy[j].status, [copy[j] EXCEPT !.status = "provisioning"].status)
      BY <1>1, <2>1, <2>3, <3>1, SaveCases DEF MarkProvisioning
    <3>. QED
      BY <1>1, <2>1, <2>3, <3>2 DEF RowsOK, Row
  <2>4. SaveFailed(j) \/ SaveDone(j) \/ (MarkProvisioning /\ j = "provision")
    <3>1. PICK k \in Job : SaveFailed(k) \/ SaveDone(k) \/ (MarkProvisioning /\ k = "provision")
                             \/ OperatorDelete \/ \E status \in FormStatus : OperatorUpdate(status)
      BY <1>1, <2>1 DEF Next, Run, vars, worldVars, Enqueue, LockExpires, RequestConnect, Crash,
         Read, Work, AuditOutcome, AuditMark, Audit, Reply, Acquire, Release
    <3>2. ~OperatorDelete /\ \A status \in FormStatus : ~OperatorUpdate(status)
      BY <2>1 DEF OperatorDelete, OperatorUpdate
    <3>3. k = j
      BY <1>1, <2>1, <3>1, <3>2 DEF SaveFailed, SaveDone, MarkProvisioning, Save, Goto, RowsOK
    <3>. QED
      BY <3>1, <3>2, <3>3
  <2>. QED
    BY <2>2, <2>3, <2>4 DEF SaveFailed, SaveDone
<1>2. RowsOK /\ CopiesMatch /\ [Next]_vars => [Kept]_vars
  BY <1>1
<1>. QED
  BY <1>2, MatchInvariant, PTL DEF Spec, WritesOwnColumns

-----------------------------------------------------------------------------
(* Ready means installed *)

Ready(row) == row.status = "ready_for_deploy"

ReadyIsEarned ==
  /\ edits = 0 => (Ready(server) => installed) /\ \A j \in Job : Ready(copy[j]) => installed
  /\ pc["provision"] = "saveDone" => installed

LEMMA SaveIsEarned ==
  ASSUME RowsOK, ReadyIsEarned, NEW j \in Job, NEW row \in Row, NEW next \in {"auditMark", "audit"},
         Save(j, row, next), edits = 0 => (Ready(row) => installed)
  PROVE  ReadyIsEarned'
<1>0. ~Ready(NoRow)
  BY DEF Ready, NoRow, Deleted
<1>1. CASE /\ server' = row /\ copy' = [copy EXCEPT ![j] = IF next = "audit" THEN NoRow ELSE row]
           /\ pc' = [pc EXCEPT ![j] = next] /\ UNCHANGED <<installed, edits>>
  <2>1. pc'["provision"] = "saveDone" => pc["provision"] = "saveDone"
    BY <1>1 DEF RowsOK
  <2>2. \A k \in Job : copy'[k] \in {copy[k], NoRow, row}
    BY <1>1 DEF RowsOK
  <2>. QED
    BY <1>0, <1>1, <2>1, <2>2 DEF ReadyIsEarned, Ready
<1>2. CASE UNCHANGED <<server, copy, stale, installed, edits>> /\ pc' = [pc EXCEPT ![j] = Leave(j)]
  BY <1>2 DEF RowsOK, ReadyIsEarned, Leave, Ready
<1>. QED
  BY <1>1, <1>2, SaveCases, Zenon

LEMMA EarnedStep == ASSUME RowsOK, ReadyIsEarned, [Next]_vars PROVE ReadyIsEarned'
<1>0. ~Ready(NoRow)
  BY DEF Ready, NoRow, Deleted
<1>1. ASSUME NEW q \in Queued, Enqueue(q) \/ LockExpires(q) PROVE ReadyIsEarned'
  BY <1>1 DEF Enqueue, LockExpires, worldVars, bounds, ReadyIsEarned, Ready
<1>2. ASSUME NEW c \in Connector, RequestConnect(c) PROVE ReadyIsEarned'
  BY <1>2 DEF RequestConnect, Goto, worldVars, bounds, RowsOK, ReadyIsEarned, Ready
<1>3. ASSUME NEW j \in Job, Run(j) PROVE ReadyIsEarned'
  <2>1. CASE Read(j)
    <3>1. \A k \in Job : copy'[k] \in {copy[k], server}
      BY <2>1 DEF Read, RowsOK
    <3>2. pc'["provision"] = "saveDone" => pc["provision"] = "saveDone"
      <4>1. PICK s \in {"mark", "work", "release", "reply"} : pc' = [pc EXCEPT ![j] = s]
        BY <2>1 DEF Read, Goto, Leave
      <4>. QED
        BY <4>1 DEF RowsOK
    <3>3. UNCHANGED <<server, installed, edits>>
      BY <2>1 DEF Read, worldVars
    <3>. QED
      BY <3>1, <3>2, <3>3 DEF ReadyIsEarned, Ready
  <2>2. CASE Work(j)
    <3>1. UNCHANGED <<server, copy, edits>>
      BY <2>2 DEF Work, bounds
    <3>2. installed => installed'
      BY <2>2, Zenon DEF Work
    <3>3. pc'["provision"] = "saveDone" => pc["provision"] = "saveDone" \/ j = "provision"
      <4>1. PICK s \in {"saveDone", "saveFailed"} : pc' = [pc EXCEPT ![j] = s]
        BY <2>2 DEF Work, Goto
      <4>. QED
        BY <4>1 DEF RowsOK
    <3>4. j = "provision" /\ pc'["provision"] = "saveDone" => installed'
      <4>1. CASE installed' <=> installed \/ j = "provision"
        BY <4>1
      <4>2. CASE pc' = [pc EXCEPT ![j] = "saveFailed"]
        BY <4>2 DEF RowsOK
      <4>. QED
        BY <2>2, <4>1, <4>2, Zenon DEF Work, Goto
    <3>. QED
      BY <3>1, <3>2, <3>3, <3>4 DEF ReadyIsEarned, Ready
  <2>3. CASE SaveFailed(j)
    <3>1. Outcome(j, FALSE) \in Row /\ (Ready(Outcome(j, FALSE)) => Ready(copy[j]))
      BY DEF Outcome, Row, ServerStatus, RowsOK, Ready
    <3>. QED
      BY <2>3, <3>1, SaveIsEarned DEF SaveFailed, ReadyIsEarned
  <2>4. CASE SaveDone(j)
    <3>1. /\ Outcome(j, TRUE) \in Row
          /\ Ready(Outcome(j, TRUE)) => Ready(copy[j]) \/ j = "provision"
      BY DEF Outcome, Row, ServerStatus, RowsOK, Ready
    <3>. QED
      BY <2>4, <3>1, SaveIsEarned DEF SaveDone, ReadyIsEarned
  <2>5. CASE AuditOutcome(j)
    <3>1. UNCHANGED <<server, copy, installed, edits>> /\ pc' = [pc EXCEPT ![j] = Leave(j)]
      BY <2>5 DEF AuditOutcome, Audit, Goto
    <3>. QED
      BY <3>1 DEF RowsOK, ReadyIsEarned, Ready, Leave
  <2>6. CASE Reply(j)
    <3>1. /\ pc' = [pc EXCEPT ![j] = "idle"] /\ copy' = [copy EXCEPT ![j] = NoRow]
          /\ UNCHANGED <<server, installed, edits>>
      BY <2>6 DEF Reply, Forget, Goto, worldVars, bounds
    <3>2. \A k \in Job : copy'[k] \in {copy[k], NoRow}
      BY <3>1 DEF RowsOK
    <3>. QED
      BY <1>0, <3>1, <3>2 DEF RowsOK, ReadyIsEarned, Ready
  <2>7. CASE Acquire(j) \/ Release(j)
    <3>1. UNCHANGED <<server, copy, installed, edits>>
      BY <2>7 DEF Acquire, Release, worldVars
    <3>2. pc'["provision"] = "saveDone" => pc["provision"] = "saveDone"
      <4>1. PICK s \in {"read", "reply"} : pc' = [pc EXCEPT ![j] = s]
        BY <2>7 DEF Acquire, Release, Goto
      <4>. QED
        BY <4>1 DEF RowsOK
    <3>. QED
      BY <3>1, <3>2 DEF ReadyIsEarned, Ready
  <2>8. CASE j = "provision" /\ MarkProvisioning
    <3>1. /\ [copy["provision"] EXCEPT !.status = "provisioning"] \in Row
          /\ ~Ready([copy["provision"] EXCEPT !.status = "provisioning"])
      BY <2>8 DEF RowsOK, Row, ServerStatus, Ready
    <3>. QED
      BY <2>8, <3>1, SaveIsEarned DEF MarkProvisioning
  <2>9. CASE j = "provision" /\ AuditMark
    <3>1. UNCHANGED <<server, copy, installed, edits>> /\ pc' = [pc EXCEPT ![j] = "work"]
      BY <2>9 DEF AuditMark, Audit, Goto
    <3>. QED
      BY <3>1 DEF RowsOK, ReadyIsEarned, Ready
  <2>. QED
    BY <1>3, <2>1, <2>2, <2>3, <2>4, <2>5, <2>6, <2>7, <2>8, <2>9 DEF Run
<1>4. ASSUME NEW status \in FormStatus, OperatorUpdate(status) PROVE ReadyIsEarned'
  BY <1>4 DEF OperatorUpdate, RowsOK, ReadyIsEarned
<1>5. CASE OperatorDelete
  BY <1>5 DEF OperatorDelete, RowsOK, ReadyIsEarned
<1>6. CASE Crash
  BY <1>0, <1>6 DEF Crash, RowsOK, ReadyIsEarned, Ready, Job, Queued
<1>7. CASE UNCHANGED vars
  BY <1>7 DEF vars, jobVars, worldVars, bounds, ReadyIsEarned, Ready
<1>. QED
  BY <1>1, <1>2, <1>3, <1>4, <1>5, <1>6, <1>7 DEF Next

\* While only jobs have written the row, "ready for deploy" means that every command of
\* a provisioning run has succeeded, over retries, overtaking jobs and crashes.
THEOREM ReadyIsInstalled == Spec => []ReadyMeansInstalled
<1>1. Init => ReadyIsEarned
  BY DEF Init, ReadyIsEarned, Ready, NoRow, Deleted, Job, Queued
<1>2. ReadyIsEarned => ReadyMeansInstalled
  BY DEF ReadyIsEarned, Ready, ReadyMeansInstalled
<1>. QED
  BY <1>1, <1>2, EarnedStep, MatchInvariant, PTL DEF Spec
-----------------------------------------------------------------------------
(* Every variable in its range *)

\* The ranges that RowsOK does not give.
RestOK ==
  /\ installed \in BOOLEAN /\ gap \in BOOLEAN
  /\ lock \in [Queued -> {"free", "held", "dead"}]
  /\ task \in [Job -> {"absent", "pending", "active", "retry", "archived", "done"}]
  /\ tries \in [Queued -> Int] /\ \A q \in Queued : tries[q] \in 0..MaxRetry[q]
  /\ event \in [Job -> (ServerStatus \X ServerStatus) \cup {NoEvent}]
  /\ ret \in [Job -> {"nil", "err"}]
  /\ trail \in [ServerStatus -> Int]
  /\ faults \in 0..MaxFaults /\ crashes \in 0..MaxCrashes

\* A copy that will yet be written is of a row that was there.
HoldsLive == \A j \in Job : pc[j] \in Holding => copy[j].status # Deleted

\* The table leads from a status to a status.
LEMMA TransitionLive ==
  ASSUME NEW from \in ServerStatus, NEW to, EnsureServerTransition(from, to)
  PROVE  to \in ServerStatus
  BY DEF EnsureServerTransition, EnsureTransition, ServerTransitions, ServerStatus, NoStatus

LEMMA GapTyped ==
  ASSUME gap \in BOOLEAN, trail \in [ServerStatus -> Int], NEW now \in BOOLEAN, Gap(now)
  PROVE  gap' \in BOOLEAN /\ trail' \in [ServerStatus -> Int]
<1>1. gap' \in BOOLEAN
  BY Zenon DEF Gap
<1>2. trail' \in [ServerStatus -> Int]
  BY DEF Gap, NoTrail
<1>. QED
  BY <1>1, <1>2

\* All that a save changes, whichever way it goes.
LEMMA SaveAll ==
  ASSUME NEW j \in Job, NEW row, NEW next, Save(j, row, next)
  PROVE  \/ /\ EnsureServerTransition(copy[j].status, row.status)
            /\ server' = row
            /\ copy' = [copy EXCEPT ![j] = IF next = "audit" THEN NoRow ELSE row]
            /\ event' = [event EXCEPT ![j] = <<copy[j].status, row.status>>]
            /\ Gap(stale[j])
            /\ pc' = [pc EXCEPT ![j] = next]
            /\ UNCHANGED <<lock, task, tries, ret, installed, faults, crashes>>
         \/ /\ ret' = [ret EXCEPT ![j] = "err"] /\ pc' = [pc EXCEPT ![j] = Leave(j)]
            /\ faults' = faults \/ (faults < MaxFaults /\ faults' = faults + 1)
            /\ UNCHANGED <<lock, task, tries, copy, event, server, installed, trail, gap, crashes>>
  BY DEF Save, CallFails, Return, Goto, worldVars, bounds

LEMMA SaveKeepsRest ==
  ASSUME RowsOK, RestOK, HoldsLive, NEW j \in Job, pc[j] \in Holding, NEW row \in Row,
         NEW next \in {"auditMark", "audit"}, Save(j, row, next)
  PROVE  RestOK' /\ HoldsLive'
<1>1. copy[j].status \in ServerStatus
  BY DEF RowsOK, HoldsLive, Row
<1>2. CASE /\ EnsureServerTransition(copy[j].status, row.status)
           /\ copy' = [copy EXCEPT ![j] = IF next = "audit" THEN NoRow ELSE row]
           /\ event' = [event EXCEPT ![j] = <<copy[j].status, row.status>>]
           /\ Gap(stale[j])
           /\ pc' = [pc EXCEPT ![j] = next]
           /\ UNCHANGED <<lock, task, tries, ret, installed, faults, crashes>>
  <2>1. row.status \in ServerStatus
    BY <1>1, <1>2, TransitionLive
  <2>2. gap' \in BOOLEAN /\ trail' \in [ServerStatus -> Int]
    BY <1>2, GapTyped DEF RowsOK, RestOK
  <2>3. RestOK'
    BY <1>1, <1>2, <2>1, <2>2 DEF RestOK
  <2>4. HoldsLive'
    BY <1>2, <2>1 DEF HoldsLive, RowsOK, Holding, ServerStatus, Deleted
  <2>. QED
    BY <2>3, <2>4
<1>3. CASE /\ ret' = [ret EXCEPT ![j] = "err"] /\ pc' = [pc EXCEPT ![j] = Leave(j)]
           /\ faults' = faults \/ (faults < MaxFaults /\ faults' = faults + 1)
           /\ UNCHANGED <<lock, task, tries, copy, event, installed, trail, gap, crashes>>
  <2>1. RestOK'
    BY <1>3 DEF RestOK
  <2>2. HoldsLive'
    BY <1>3 DEF HoldsLive, RowsOK, Holding, Leave
  <2>. QED
    BY <2>1, <2>2
<1>. QED
  BY <1>2, <1>3, SaveAll

LEMMA AuditKeepsRest ==
  ASSUME RowsOK, RestOK, HoldsLive, NEW j \in Job, NEW here, NEW next,
         Audit(j, here, next), here = "auditMark" \/ next \notin Holding
  PROVE  RestOK' /\ HoldsLive'
<1>1. /\ UNCHANGED <<lock, task, tries, copy, ret, installed, crashes>>
      /\ event' = [event EXCEPT ![j] = NoEvent]
      /\ pc' = [pc EXCEPT ![j] = next] /\ pc[j] = here
  BY DEF Audit, Goto
<1>2. HoldsLive'
  BY <1>1 DEF HoldsLive, RowsOK, Holding
<1>3. faults' \in 0..MaxFaults
  <2>1. faults' = faults \/ (faults < MaxFaults /\ faults' = faults + 1)
    BY DEF Audit, CallFails
  <2>. QED
    BY <2>1 DEF RestOK
<1>4. gap' \in BOOLEAN /\ trail' \in [ServerStatus -> Int]
  <2>1. CASE Gap(TRUE)
    BY <2>1, GapTyped DEF RestOK
  <2>2. CASE /\ UNCHANGED gap
             /\ trail' = IF gap \/ event[j][1] = event[j][2] THEN trail
                         ELSE [trail EXCEPT ![event[j][1]] = @ - 1, ![event[j][2]] = @ + 1]
    <3>1. event[j][1] # event[j][2] => event[j] \in ServerStatus \X ServerStatus
      BY DEF RestOK, NoEvent
    <3>. QED
      BY <2>2, <3>1 DEF RestOK
  <2>. QED
    BY <2>1, <2>2 DEF Audit
<1>5. RestOK'
  BY <1>1, <1>3, <1>4 DEF RestOK
<1>. QED
  BY <1>2, <1>5

LEMMA RestStep ==
  ASSUME RowsOK, RestOK, HoldsLive, [Next]_vars
  PROVE  RestOK' /\ HoldsLive'
<1>1. ASSUME NEW q \in Queued, Enqueue(q) \/ LockExpires(q) PROVE RestOK' /\ HoldsLive'
  BY <1>1 DEF Enqueue, LockExpires, worldVars, bounds, RestOK, HoldsLive
<1>2. ASSUME NEW c \in Connector, RequestConnect(c) PROVE RestOK' /\ HoldsLive'
  BY <1>2 DEF RequestConnect, Goto, worldVars, bounds, RowsOK, RestOK, HoldsLive, Holding
<1>3. ASSUME NEW j \in Job, Run(j) PROVE RestOK' /\ HoldsLive'
  <2>1. CASE Read(j)
    <3>1. /\ ret' = ret \/ ret' = [ret EXCEPT ![j] = "err"]
          /\ faults' = faults \/ (faults < MaxFaults /\ faults' = faults + 1)
          /\ UNCHANGED <<lock, task, tries, event, installed, trail, gap, crashes>>
      BY <2>1 DEF Read, Return, CallFails, worldVars
    <3>2. RestOK'
      BY <3>1 DEF RestOK
    <3>3. CASE /\ server.status # Deleted /\ copy' = [copy EXCEPT ![j] = server]
               /\ pc' = [pc EXCEPT ![j] = IF j = "provision" THEN "mark" ELSE "work"]
      <4>1. \A k \in Job : pc'[k] \in Holding => k = j \/ pc[k] \in Holding
        BY <3>3 DEF RowsOK
      <4>2. \A k \in Job : copy'[k] = IF k = j THEN server ELSE copy[k]
        BY <3>3 DEF RowsOK
      <4>. QED
        BY <3>2, <3>3, <4>1, <4>2 DEF HoldsLive
    <3>4. CASE pc' = [pc EXCEPT ![j] = Leave(j)] /\ UNCHANGED copy
      <4>1. \A k \in Job : pc'[k] \in Holding => pc[k] \in Holding
        BY <3>4 DEF RowsOK, Leave, Holding
      <4>. QED
        BY <3>2, <3>4, <4>1 DEF HoldsLive
    <3>. QED
      BY <2>1, <3>2, <3>3, <3>4 DEF Read, Goto
  <2>2. CASE Work(j)
    <3>1. /\ ret' = ret \/ ret' = [ret EXCEPT ![j] = "err"]
          /\ UNCHANGED <<lock, task, tries, event, trail, gap, faults, crashes>>
      BY <2>2 DEF Work, Return, bounds
    <3>2. installed' \in BOOLEAN
      BY <2>2, Zenon DEF Work, RestOK
    <3>3. /\ pc[j] = "work" /\ UNCHANGED copy
          /\ pc' = [pc EXCEPT ![j] = "saveDone"] \/ pc' = [pc EXCEPT ![j] = "saveFailed"]
      BY <2>2 DEF Work, Goto
    <3>4. HoldsLive'
      <4>1. \A k \in Job : pc'[k] \in Holding => pc[k] \in Holding
        BY <3>3 DEF RowsOK, Holding
      <4>. QED
        BY <3>3, <4>1 DEF HoldsLive
    <3>. QED
      BY <3>1, <3>2, <3>4 DEF RestOK
  <2>3. CASE SaveFailed(j) \/ SaveDone(j)
    BY <2>3, SaveKeepsRest, OutcomeTyped DEF SaveFailed, SaveDone, RowsOK, Holding
  <2>4. CASE AuditOutcome(j)
    BY <2>4, AuditKeepsRest DEF AuditOutcome, Leave, Holding
  <2>5. CASE Reply(j)
    <3>1. /\ pc' = [pc EXCEPT ![j] = "idle"] /\ copy' = [copy EXCEPT ![j] = NoRow]
          /\ ret' = [ret EXCEPT ![j] = "nil"]
          /\ UNCHANGED <<lock, event, installed, trail, gap, faults, crashes>>
      BY <2>5 DEF Reply, Forget, Return, Goto, worldVars, bounds
    <3>2. HoldsLive'
      BY <3>1 DEF HoldsLive, RowsOK, Holding
    <3>3. task' \in [Job -> {"absent", "pending", "active", "retry", "archived", "done"}]
      BY <2>5 DEF Reply, RestOK
    <3>4. tries' \in [Queued -> Int] /\ \A q \in Queued : tries'[q] \in 0..MaxRetry[q]
      BY <2>5 DEF Reply, RestOK
    <3>. QED
      BY <3>1, <3>2, <3>3, <3>4 DEF RestOK
  <2>6. CASE j \in Queued /\ Acquire(j)
    <3>1. /\ ret' = [ret EXCEPT ![j] = "nil"] \/ ret' = [ret EXCEPT ![j] = "err"]
          /\ lock' = lock \/ lock' = [lock EXCEPT ![j] = "held"]
          /\ faults' = faults \/ (faults < MaxFaults /\ faults' = faults + 1)
          /\ task' = [task EXCEPT ![j] = "active"]
          /\ pc' = [pc EXCEPT ![j] = "read"] \/ pc' = [pc EXCEPT ![j] = "reply"]
          /\ UNCHANGED <<copy, tries, event, installed, trail, gap, crashes>>
      BY <2>6 DEF Acquire, Return, Goto, CallFails, worldVars
    <3>2. HoldsLive'
      BY <3>1 DEF HoldsLive, RowsOK, Holding
    <3>. QED
      BY <2>6, <3>1, <3>2 DEF RestOK
  <2>7. CASE j \in Queued /\ Release(j)
    <3>1. /\ lock' = [lock EXCEPT ![j] = "free"] \/ lock' = [lock EXCEPT ![j] = "dead"]
          /\ faults' = faults \/ (faults < MaxFaults /\ faults' = faults + 1)
          /\ pc' = [pc EXCEPT ![j] = "reply"]
          /\ UNCHANGED <<ret, task, copy, tries, event, installed, trail, gap, crashes>>
      BY <2>7 DEF Release, Goto, CallFails, worldVars
    <3>2. HoldsLive'
      BY <3>1 DEF HoldsLive, RowsOK, Holding
    <3>. QED
      BY <2>7, <3>1, <3>2 DEF RestOK
  <2>8. CASE j = "provision" /\ MarkProvisioning
    <3>1. [copy["provision"] EXCEPT !.status = "provisioning"] \in Row
      BY <2>8 DEF RowsOK, Row, ServerStatus
    <3>. QED
      BY <2>8, <3>1, SaveKeepsRest DEF MarkProvisioning, Holding
  <2>9. CASE j = "provision" /\ AuditMark
    BY <2>9, AuditKeepsRest DEF AuditMark
  <2>. QED
    BY <1>3, <2>1, <2>2, <2>3, <2>4, <2>5, <2>6, <2>7, <2>8, <2>9 DEF Run
<1>4. ASSUME OperatorDelete \/ \E status \in FormStatus : OperatorUpdate(status)
      PROVE  RestOK' /\ HoldsLive'
  <2>1. /\ Gap(TRUE)
        /\ UNCHANGED <<lock, task, tries, pc, copy, event, ret, installed, faults, crashes>>
    BY <1>4 DEF OperatorDelete, OperatorUpdate
  <2>2. gap' \in BOOLEAN /\ trail' \in [ServerStatus -> Int]
    BY <2>1, GapTyped DEF RestOK
  <2>. QED
    BY <2>1, <2>2 DEF RestOK, HoldsLive
<1>5. CASE Crash
  <2>1. gap' \in BOOLEAN /\ trail' \in [ServerStatus -> Int]
    BY <1>5, GapTyped DEF RestOK, Crash
  <2>2. task' \in [Job -> {"absent", "pending", "active", "retry", "archived", "done"}]
    BY <1>5 DEF RestOK, Crash
  <2>3. /\ ret' = [j \in Job |-> "nil"] /\ event' = [j \in Job |-> NoEvent]
        /\ lock' = [q \in Queued |-> IF lock[q] = "held" THEN "dead" ELSE lock[q]]
        /\ crashes < MaxCrashes /\ crashes' = crashes + 1
        /\ pc' = [j \in Job |-> "idle"]
        /\ UNCHANGED <<tries, installed, faults>>
    BY <1>5 DEF Crash
  <2>4. HoldsLive'
    BY <2>3 DEF HoldsLive, Holding
  <2>. QED
    BY <2>1, <2>2, <2>3, <2>4 DEF RestOK
<1>6. CASE UNCHANGED vars
  BY <1>6 DEF vars, jobVars, worldVars, bounds, RestOK, HoldsLive
<1>. QED
  BY <1>1, <1>2, <1>3, <1>4, <1>5, <1>6 DEF Next

LEMMA RestInvariant == Spec => [](RestOK /\ HoldsLive)
<1>1. Init => RestOK /\ HoldsLive
  <2> SUFFICES ASSUME Init PROVE RestOK /\ HoldsLive
    OBVIOUS
  <2>1. HoldsLive
    BY DEF Init, HoldsLive, Holding
  <2>2. tries \in [Queued -> Int] /\ \A q \in Queued : tries[q] \in 0..MaxRetry[q]
    BY DEF Init
  <2>3. faults \in 0..MaxFaults /\ crashes \in 0..MaxCrashes
    BY DEF Init
  <2>4. trail \in [ServerStatus -> Int]
    BY DEF Init, NoTrail
  <2>. QED
    BY <2>1, <2>2, <2>3, <2>4 DEF Init, RestOK
<1>. QED
  BY <1>1, RestStep, MatchInvariant, PTL DEF Spec

\* Every variable stays in its range: no event names a status that is none, and no
\* task is retried past its limit.
THEOREM TypeCorrect == Spec => []TypeOK
<1>1. RowsOK /\ RestOK => TypeOK
  BY DEF RowsOK, RestOK, TypeOK
<1>. QED
  BY <1>1, MatchInvariant, RestInvariant, PTL
-----------------------------------------------------------------------------
(* The audit trail leads to the present status *)

\* The jobs about to record an event that enters (end 2) or leaves (end 1) status s.
Recording(ev, end, s) == {j \in Job : ev[j][end] = s}

Same(a, b) == IF a = b THEN 1 ELSE 0

\* Two sets that differ at most in j differ by one in size when only one has it.
LEMMA SizesDiffer ==
  ASSUME NEW R, NEW R2, NEW j, R2 \ {j} = R \ {j}, IsFiniteSet(R)
  PROVE  /\ IsFiniteSet(R2)
         /\ Cardinality(R) \in Int
         /\ Cardinality(R2) =
              Cardinality(R) - (IF j \in R THEN 1 ELSE 0) + (IF j \in R2 THEN 1 ELSE 0)
<1> DEFINE C == R \ {j}
<1>1. Cardinality(R) \in Int
  BY FS_CardinalityType
<1>2. /\ IsFiniteSet(C)
      /\ Cardinality(C) = Cardinality(R) - (IF j \in R THEN 1 ELSE 0)
  BY <1>1, FS_RemoveElement
<1>3. Cardinality(C) \in Int /\ j \notin C
  BY <1>2, FS_CardinalityType
<1>4. (j \in R2 => R2 = C \cup {j}) /\ (j \notin R2 => R2 = C)
  OBVIOUS
<1> HIDE DEF C
<1>5. IsFiniteSet(C \cup {j}) /\ Cardinality(C \cup {j}) = Cardinality(C) + 1
  BY <1>2, <1>3, FS_AddElement
<1>6. CASE j \in R2
  <2>1. R2 = C \cup {j}
    BY <1>4, <1>6
  <2>2. IsFiniteSet(R2) /\ Cardinality(R2) = Cardinality(C) + 1
    BY <1>5, <2>1
  <2>. QED
    BY <1>1, <1>2, <1>3, <1>6, <2>2
<1>7. CASE j \notin R2
  <2>1. R2 = C
    BY <1>4, <1>7
  <2>. QED
    BY <1>1, <1>2, <1>3, <1>7, <2>1
<1>. QED
  BY <1>6, <1>7

\* A job is under way only while its task is being processed, or its request served.
RunsAreActive == \A j \in Job : pc[j] # "idle" => task[j] = "active"

LEMMA ActiveStep ==
  ASSUME RowsOK, RestOK, RunsAreActive, [Next]_vars
  PROVE  RunsAreActive'
<1>1. ASSUME NEW q \in Queued, Enqueue(q) \/ LockExpires(q) PROVE RunsAreActive'
  BY <1>1 DEF Enqueue, LockExpires, RunsAreActive, RestOK
<1>2. ASSUME NEW c \in Connector, RequestConnect(c) PROVE RunsAreActive'
  BY <1>2 DEF RequestConnect, Goto, RunsAreActive, RowsOK, RestOK
<1>3. ASSUME NEW j \in Job, Run(j) PROVE RunsAreActive'
  <2>1. CASE pc[j] # "idle" /\ UNCHANGED task /\ \E step : pc' = [pc EXCEPT ![j] = step]
    BY <2>1 DEF RunsAreActive, RowsOK
  <2>2. CASE Read(j) \/ Work(j) \/ AuditOutcome(j) \/ Release(j) \/ AuditMark
    <3>1. PICK k \in Job : /\ pc[k] # "idle" /\ UNCHANGED task
                           /\ \E step : pc' = [pc EXCEPT ![k] = step]
      BY <2>2 DEF Read, Work, AuditOutcome, AuditMark, Audit, Release, Goto, Job, Queued
    <3>. QED
      BY <3>1 DEF RunsAreActive, RowsOK
  <2>3. CASE SaveFailed(j) \/ SaveDone(j)
    BY <2>1, <2>3, SaveAll DEF SaveFailed, SaveDone
  <2>4. CASE j = "provision" /\ MarkProvisioning
    BY <2>1, <2>4, SaveAll DEF MarkProvisioning
  <2>5. CASE Reply(j)
    BY <2>5 DEF Reply, Forget, Goto, RunsAreActive, RowsOK, RestOK
  <2>6. CASE Acquire(j)
    <3>1. task' = [task EXCEPT ![j] = "active"] /\ \E step : pc' = [pc EXCEPT ![j] = step]
      BY <2>6 DEF Acquire, Goto
    <3>. QED
      BY <3>1 DEF RunsAreActive, RowsOK, RestOK
  <2>. QED
    BY <1>3, <2>2, <2>3, <2>4, <2>5, <2>6 DEF Run
<1>4. CASE OperatorDelete \/ \E status \in FormStatus : OperatorUpdate(status)
  BY <1>4 DEF OperatorDelete, OperatorUpdate, RunsAreActive
<1>5. CASE Crash
  BY <1>5 DEF Crash, RunsAreActive
<1>6. CASE UNCHANGED vars
  BY <1>6 DEF vars, jobVars, RunsAreActive
<1>. QED
  BY <1>1, <1>2, <1>3, <1>4, <1>5, <1>6 DEF Next

LEMMA ActiveInvariant == Spec => []RunsAreActive
<1>1. Init => RunsAreActive
  BY DEF Init, RunsAreActive
<1>. QED
  BY <1>1, ActiveStep, MatchInvariant, RestInvariant, PTL DEF Spec

\* Every event is recorded by the job that made it, before it makes another.
EventsLive == \A j \in Job : pc[j] \notin {"auditMark", "audit"} => event[j] = NoEvent

\* The balance of the recorded events and of those about to be recorded, of status s.
EndsCounted(s) ==
  IsFiniteSet(Recording(event, 1, s)) /\ IsFiniteSet(Recording(event, 2, s))

StatusBalances(s) ==
  trail[s] + Cardinality(Recording(event, 2, s)) - Cardinality(Recording(event, 1, s))
    = Same(s, server.status) - Same(s, "pending")

Balanced ==
  /\ \A s \in ServerStatus : EndsCounted(s)
  /\ ~gap => \A s \in ServerStatus : StatusBalances(s)

\* Nothing is recording an event when no job has one.
LEMMA NothingRecording ==
  ASSUME NEW ev, \A j \in Job : ev[j] = NoEvent, NEW s \in ServerStatus, NEW end \in {1, 2}
  PROVE  /\ Recording(ev, end, s) = {}
         /\ IsFiniteSet(Recording(ev, end, s)) /\ Cardinality(Recording(ev, end, s)) = 0
<1>1. s # Deleted
  BY DEF ServerStatus, Deleted
<1>2. \A j \in Job : ev[j][end] = Deleted
  BY DEF NoEvent
<1>3. Recording(ev, end, s) = {}
  BY <1>1, <1>2 DEF Recording
<1>. QED
  BY <1>3, FS_EmptySet

\* What a step that changes the event of job j does to the counts of both ends.
LEMMA EventChanged ==
  ASSUME RestOK, NEW j \in Job, NEW new, event' = [event EXCEPT ![j] = new],
         NEW s \in ServerStatus, NEW end \in {1, 2}, IsFiniteSet(Recording(event, end, s))
  PROVE  /\ IsFiniteSet(Recording(event', end, s))
         /\ Cardinality(Recording(event, end, s)) \in Int
         /\ Cardinality(Recording(event', end, s))
              = Cardinality(Recording(event, end, s)) - Same(event[j][end], s) + Same(event'[j][end], s)
<1> DEFINE R == Recording(event, end, s)
           R2 == Recording(event', end, s)
<1>1. \A k \in Job : k # j => event'[k] = event[k]
  BY DEF RestOK
<1>2. R2 \ {j} = R \ {j}
  BY <1>1 DEF Recording
<1>3. (j \in R <=> event[j][end] = s) /\ (j \in R2 <=> event'[j][end] = s)
  BY DEF Recording
<1>4. IsFiniteSet(R)
  OBVIOUS
<1> HIDE DEF R, R2
<1>5. /\ IsFiniteSet(R2)
      /\ Cardinality(R) \in Int
      /\ Cardinality(R2) =
           Cardinality(R) - (IF j \in R THEN 1 ELSE 0) + (IF j \in R2 THEN 1 ELSE 0)
  BY <1>2, <1>4, SizesDiffer
<1>6. Cardinality(R2) = Cardinality(R) - Same(event[j][end], s) + Same(event'[j][end], s)
  BY <1>3, <1>5 DEF Same
<1>. QED
  BY <1>5, <1>6 DEF R, R2

\* The steps that neither write the row nor touch an event.
LEMMA EventsKept ==
  ASSUME NEW j \in Job,
         \/ Read(j) \/ Work(j) \/ Reply(j)
         \/ j \in Queued /\ (Enqueue(j) \/ LockExpires(j) \/ Acquire(j) \/ Release(j))
         \/ RequestConnect(j)
  PROVE  UNCHANGED <<server, event, trail, gap>>
  BY DEF Read, Work, Reply, Enqueue, LockExpires, Acquire, Release, RequestConnect, worldVars

\* A save puts the event of its transition where the balance misses it.
LEMMA SaveBalances ==
  ASSUME RowsOK, RestOK, CopiesMatch, EventsLive, Balanced,
         NEW j \in Job, pc[j] \in {"mark", "saveFailed", "saveDone"},
         NEW row \in Row, NEW next \in {"auditMark", "audit"}, Save(j, row, next)
  PROVE  EventsLive' /\ Balanced'
<1>1. CASE /\ server' = row
           /\ event' = [event EXCEPT ![j] = <<copy[j].status, row.status>>]
           /\ Gap(stale[j])
           /\ pc' = [pc EXCEPT ![j] = next]
  <2>1. EventsLive'
    BY <1>1 DEF EventsLive, RowsOK, RestOK
  <2>2. event[j] = NoEvent
    BY DEF EventsLive
  <2>3. event'[j][1] = copy[j].status /\ event'[j][2] = row.status
    BY <1>1 DEF RestOK
  <2>4. ASSUME NEW s \in ServerStatus, NEW end \in {1, 2}
        PROVE  /\ IsFiniteSet(Recording(event', end, s))
               /\ Cardinality(Recording(event, end, s)) \in Int
               /\ Cardinality(Recording(event', end, s))
                    = Cardinality(Recording(event, end, s)) + Same(event'[j][end], s)
    <3>1. event[j][end] # s
      BY <2>2 DEF NoEvent, ServerStatus, Deleted
    <3>2. IsFiniteSet(Recording(event, end, s))
      BY DEF Balanced, EndsCounted
    <3>3. event' = [event EXCEPT ![j] = <<copy[j].status, row.status>>]
      BY <1>1
    <3>4. /\ IsFiniteSet(Recording(event', end, s))
          /\ Cardinality(Recording(event, end, s)) \in Int
          /\ Cardinality(Recording(event', end, s))
               = Cardinality(Recording(event, end, s))
                   - Same(event[j][end], s) + Same(event'[j][end], s)
      BY <3>2, <3>3, EventChanged
    <3>. QED
      BY <3>1, <3>4 DEF Same
  <2>5. ASSUME ~gap', NEW s \in ServerStatus PROVE StatusBalances(s)'
    <3>1. ~gap /\ ~stale[j] /\ trail' = trail
      BY <1>1, <2>5, Zenon DEF Gap
    <3>2. copy[j] = server
      BY <3>1 DEF CopiesMatch, Holding
    <3>3. trail[s] \in Int /\ StatusBalances(s)
      BY <3>1 DEF RestOK, Balanced
    <3>4. /\ Cardinality(Recording(event, 1, s)) \in Int
          /\ Cardinality(Recording(event', 1, s))
               = Cardinality(Recording(event, 1, s)) + Same(s, server.status)
          /\ Cardinality(Recording(event, 2, s)) \in Int
          /\ Cardinality(Recording(event', 2, s))
               = Cardinality(Recording(event, 2, s)) + Same(s, server'.status)
      BY <1>1, <2>3, <2>4, <3>2 DEF Same
    <3>. QED
      BY <3>1, <3>3, <3>4 DEF StatusBalances, Same
  <2>. QED
    BY <2>1, <2>4, <2>5 DEF Balanced, EndsCounted
<1>2. CASE pc' = [pc EXCEPT ![j] = Leave(j)] /\ UNCHANGED <<event, server, trail, gap>>
  <2>1. EventsLive'
    BY <1>2 DEF EventsLive, RowsOK
  <2>. QED
    BY <1>2, <2>1 DEF Balanced, EndsCounted, StatusBalances
<1>. QED
  BY <1>1, <1>2, SaveAll

\* Recording an event moves it from those to be recorded to the trail.
LEMMA AuditBalances ==
  ASSUME RowsOK, RestOK, EventsLive, Balanced, NEW j \in Job, NEW here, NEW next,
         Audit(j, here, next)
  PROVE  EventsLive' /\ Balanced'
<1>1. /\ UNCHANGED server /\ event' = [event EXCEPT ![j] = NoEvent]
      /\ pc' = [pc EXCEPT ![j] = next]
  BY DEF Audit, Goto
<1>2. EventsLive'
  BY <1>1 DEF EventsLive, RowsOK, RestOK
<1>3. ASSUME NEW s \in ServerStatus, NEW end \in {1, 2}
      PROVE  /\ IsFiniteSet(Recording(event', end, s))
             /\ Cardinality(Recording(event, end, s)) \in Int
             /\ Cardinality(Recording(event', end, s))
                  = Cardinality(Recording(event, end, s)) - Same(event[j][end], s)
  <2>1. event'[j][end] # s
    BY <1>1 DEF RestOK, NoEvent, ServerStatus, Deleted
  <2>2. IsFiniteSet(Recording(event, end, s))
    BY DEF Balanced, EndsCounted
  <2>3. event' = [event EXCEPT ![j] = NoEvent]
    BY <1>1
  <2>4. /\ IsFiniteSet(Recording(event', end, s))
        /\ Cardinality(Recording(event, end, s)) \in Int
        /\ Cardinality(Recording(event', end, s))
             = Cardinality(Recording(event, end, s)) - Same(event[j][end], s) + Same(event'[j][end], s)
    BY <2>2, <2>3, EventChanged
  <2>. QED
    BY <2>1, <2>4 DEF Same
<1>4. ASSUME ~gap', NEW s \in ServerStatus PROVE StatusBalances(s)'
  <2>1. ~gap /\ trail' = IF event[j][1] = event[j][2] THEN trail
                         ELSE [trail EXCEPT ![event[j][1]] = @ - 1, ![event[j][2]] = @ + 1]
    <3>1. ~Gap(TRUE)
      BY <1>4, Zenon DEF Gap
    <3>2. UNCHANGED gap
      BY <3>1 DEF Audit
    <3>. QED
      BY <1>4, <3>1, <3>2 DEF Audit
  <2>2. StatusBalances(s)
    BY <2>1 DEF Balanced
  <2>3. trail'[s] = trail[s] - Same(event[j][1], s) + Same(event[j][2], s)
    <3>1. CASE event[j][1] = event[j][2]
      BY <2>1, <3>1 DEF RestOK, Same
    <3>2. CASE event[j][1] # event[j][2]
      <4>1. event[j][1] \in ServerStatus /\ event[j][2] \in ServerStatus
        BY <3>2 DEF RestOK, NoEvent
      <4>. QED
        BY <2>1, <3>2, <4>1 DEF RestOK, Same
    <3>. QED
      BY <3>1, <3>2
  <2>4. trail[s] \in Int
    BY DEF RestOK
  <2>5. /\ Cardinality(Recording(event, 1, s)) \in Int
        /\ Cardinality(Recording(event', 1, s))
             = Cardinality(Recording(event, 1, s)) - Same(event[j][1], s)
        /\ Cardinality(Recording(event, 2, s)) \in Int
        /\ Cardinality(Recording(event', 2, s))
             = Cardinality(Recording(event, 2, s)) - Same(event[j][2], s)
    BY <1>3
  <2>. QED
    BY <1>1, <2>2, <2>3, <2>4, <2>5 DEF StatusBalances, Same
<1>. QED
  BY <1>2, <1>3, <1>4 DEF Balanced, EndsCounted

LEMMA BalanceStep ==
  ASSUME RowsOK, RestOK, CopiesMatch, RunsAreActive, EventsLive, Balanced, [Next]_vars
  PROVE  EventsLive' /\ Balanced'
<1>0. ASSUME UNCHANGED <<server, event, trail, gap>> PROVE Balanced'
  BY <1>0 DEF Balanced, EndsCounted, StatusBalances
<1>1. ASSUME NEW q \in Queued, Enqueue(q) \/ LockExpires(q) PROVE EventsLive' /\ Balanced'
  <2>1. UNCHANGED <<server, event, trail, gap, pc>>
    BY <1>1, EventsKept DEF Job, Enqueue, LockExpires
  <2>. QED
    BY <1>0, <2>1 DEF EventsLive
<1>2. ASSUME NEW c \in Connector, RequestConnect(c) PROVE EventsLive' /\ Balanced'
  <2>1. UNCHANGED <<server, event, trail, gap>>
    BY <1>2, EventsKept DEF Job
  <2>2. \A k \in Job : event[k] = NoEvent \/ (k # c /\ pc'[k] = pc[k])
    BY <1>2 DEF RequestConnect, Goto, RunsAreActive, EventsLive, RowsOK
  <2>. QED
    BY <1>0, <2>1, <2>2 DEF EventsLive
<1>3. ASSUME NEW j \in Job, Run(j) PROVE EventsLive' /\ Balanced'
  <2>1. CASE Read(j) \/ Work(j) \/ Reply(j) \/ (j \in Queued /\ (Acquire(j) \/ Release(j)))
    <3>1. UNCHANGED <<server, event, trail, gap>>
      BY <2>1, EventsKept
    <3>2. CASE pc[j] \notin {"auditMark", "audit"}
      <4>1. PICK step : pc' = [pc EXCEPT ![j] = step]
        BY <2>1 DEF Read, Work, Reply, Forget, Acquire, Release, Goto
      <4>. QED
        BY <1>0, <3>1, <3>2, <4>1 DEF EventsLive, RowsOK
    <3>3. Acquire(j) => pc[j] = "idle"
      BY DEF Acquire, RunsAreActive
    <3>. QED
      BY <2>1, <3>2, <3>3 DEF Read, Work, Reply, Release
  <2>2. CASE SaveFailed(j) \/ SaveDone(j)
    BY <2>2, SaveBalances, OutcomeTyped DEF SaveFailed, SaveDone, RowsOK
  <2>3. CASE AuditOutcome(j)
    BY <2>3, AuditBalances DEF AuditOutcome
  <2>4. CASE j = "provision" /\ MarkProvisioning
    <3>1. [copy["provision"] EXCEPT !.status = "provisioning"] \in Row
      BY <2>4 DEF RowsOK, Row, ServerStatus
    <3>. QED
      BY <2>4, <3>1, SaveBalances DEF MarkProvisioning
  <2>5. CASE j = "provision" /\ AuditMark
    BY <2>5, AuditBalances DEF AuditMark
  <2>. QED
    BY <1>3, <2>1, <2>2, <2>3, <2>4, <2>5 DEF Run
<1>4. ASSUME OperatorDelete \/ \E status \in FormStatus : OperatorUpdate(status)
      PROVE  EventsLive' /\ Balanced'
  <2>1. Gap(TRUE) /\ UNCHANGED <<pc, event>>
    BY <1>4 DEF OperatorDelete, OperatorUpdate
  <2>2. gap'
    BY <2>1 DEF Gap
  <2>. QED
    BY <2>1, <2>2 DEF Balanced, EndsCounted, EventsLive
<1>5. CASE Crash
  <2>1. /\ event' = [j \in Job |-> NoEvent] /\ UNCHANGED server
        /\ Gap(\E j \in Job : event[j][1] # event[j][2])
    BY <1>5 DEF Crash
  <2>2. EventsLive'
    BY <2>1 DEF EventsLive
  <2>3. ASSUME NEW s \in ServerStatus, NEW end \in {1, 2}
        PROVE  IsFiniteSet(Recording(event', end, s)) /\ Cardinality(Recording(event', end, s)) = 0
    <3> DEFINE ev == event'
    <3>1. \A j \in Job : ev[j] = NoEvent
      BY <2>1
    <3> HIDE DEF ev
    <3>2. IsFiniteSet(Recording(ev, end, s)) /\ Cardinality(Recording(ev, end, s)) = 0
      BY <3>1, NothingRecording
    <3>. QED
      BY <3>2 DEF ev
  <2>4. ASSUME ~gap', NEW s \in ServerStatus PROVE StatusBalances(s)'
    <3>1. ~gap /\ trail' = trail /\ \A j \in Job : event[j][1] = event[j][2]
      BY <2>1, <2>4, Zenon DEF Gap
    <3>2. Recording(event, 1, s) = Recording(event, 2, s)
      BY <3>1 DEF Recording
    <3>3. Cardinality(Recording(event, 1, s)) \in Int
      BY FS_CardinalityType DEF Balanced, EndsCounted
    <3>4. trail[s] \in Int /\ StatusBalances(s)
      BY <3>1 DEF RestOK, Balanced
    <3>. QED
      BY <2>1, <2>3, <3>1, <3>2, <3>3, <3>4 DEF StatusBalances, Same
  <2>. QED
    BY <2>2, <2>3, <2>4 DEF Balanced, EndsCounted
<1>6. CASE UNCHANGED vars
  BY <1>0, <1>6 DEF vars, jobVars, worldVars, EventsLive
<1>. QED
  BY <1>1, <1>2, <1>3, <1>4, <1>5, <1>6 DEF Next

\* If every write was based on a fresh copy and recorded, the recorded status events
\* lead from the first status to the present one, in whichever order the provisioning,
\* the renewal and the connection tests came to record them, and across crashes.
THEOREM TrailIsTrue == Spec => []TrailLeadsHere
<1>1. Init => EventsLive /\ Balanced
  <2> SUFFICES ASSUME Init PROVE EventsLive /\ Balanced
    OBVIOUS
  <2>1. \A j \in Job : event[j] = NoEvent
    BY DEF Init
  <2>2. ASSUME NEW s \in ServerStatus PROVE EndsCounted(s) /\ StatusBalances(s)
    <3>1. trail[s] = 0 /\ server.status = "pending"
      BY DEF Init, NoTrail
    <3>. QED
      BY <2>1, <3>1, NothingRecording DEF EndsCounted, StatusBalances, Same
  <2>. QED
    BY <2>1, <2>2 DEF EventsLive, Balanced
<1>2. RestOK /\ Balanced => TrailLeadsHere
  <2> SUFFICES ASSUME RestOK, Balanced, ~gap, \A j \in Job : event[j] = NoEvent
               PROVE  trail = [s \in ServerStatus |->
                         (IF s = server.status THEN 1 ELSE 0) - (IF s = "pending" THEN 1 ELSE 0)]
    BY DEF TrailLeadsHere
  <2>1. ASSUME NEW s \in ServerStatus
        PROVE  trail[s] = (IF s = server.status THEN 1 ELSE 0) - (IF s = "pending" THEN 1 ELSE 0)
    <3>1. trail[s] \in Int /\ StatusBalances(s)
      BY DEF RestOK, Balanced
    <3>. QED
      BY <3>1, NothingRecording DEF StatusBalances, Same
  <2>. QED
    BY <2>1 DEF RestOK
<1>3. RowsOK /\ CopiesMatch /\ RestOK /\ RunsAreActive /\ EventsLive /\ Balanced
        /\ [Next]_vars
        => EventsLive' /\ Balanced'
  BY BalanceStep
<1>. QED
  BY <1>1, <1>2, <1>3, MatchInvariant, RestInvariant, ActiveInvariant, PTL DEF Spec
=============================================================================
