--------------------------- MODULE SerialDeploys ---------------------------
(***************************************************************************)
(* What the deploy pipeline promises about the status of a site.  Deploys  *)
(* happen one at a time; each looks at the status, announces itself by     *)
(* writing "deploying", and writes at most one outcome.  Every write obeys *)
(* the transition table, judged on the real status, unless an operator     *)
(* wrote the status since the deploy looked.  No deploy brings a deleted   *)
(* site back.                                                              *)
(***************************************************************************)
EXTENDS Lifecycle

CONSTANT OperatorStatus  \* what an operator may write, deletion included

VARIABLES
  status,   \* the site's status
  phase,    \* of the deploy in progress, if there is one
  touched   \* has an operator written the status since it looked?

vars == <<status, phase, touched>>

Outcome == {"deployed", "deploy_failed", "ssl_pending"}

Init == status = "draft" /\ phase = "idle" /\ touched = FALSE

Look ==
  /\ phase = "idle"
  /\ EnsureSiteTransition(status, "deploying")
  /\ phase' = "looked"
  /\ UNCHANGED <<status, touched>>

MayWrite(next) ==
  /\ status # "deleted"
  /\ touched \/ EnsureSiteTransition(status, next)

Announce ==
  /\ phase = "looked" /\ MayWrite("deploying")
  /\ phase' = "deploying"
  /\ status' = "deploying"
  /\ UNCHANGED touched

Conclude(outcome) ==
  /\ phase = "deploying" /\ MayWrite(outcome)
  /\ phase' = "idle"
  /\ status' = outcome
  /\ touched' = FALSE

\* A failing call, or the death of the process.
GiveUp ==
  /\ phase # "idle"
  /\ phase' = "idle" /\ touched' = FALSE
  /\ UNCHANGED status

Operator(next) ==
  /\ status # "deleted"
  /\ status' = next
  /\ touched' = (phase # "idle")
  /\ UNCHANGED phase

Next ==
  \/ Look \/ Announce \/ GiveUp
  \/ \E outcome \in Outcome : Conclude(outcome)
  \/ \E next \in OperatorStatus : Operator(next)

Spec == Init /\ [][Next]_vars
=============================================================================
