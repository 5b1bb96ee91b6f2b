----------------------------- MODULE Lifecycle -----------------------------
(***************************************************************************)
(* The status tables of internal/domain/lifecycle/status.go.  Both tables  *)
(* are sets of <<from, to>> pairs; ensureTransition accepts a move that is *)
(* in the table, and every move to the status an entity already has.       *)
(* The empty string is the status of an entity that does not exist yet.    *)
(***************************************************************************)

NoStatus == ""

SiteStatus == {"draft", "deploying", "deployed", "deploy_failed", "ssl_pending"}

ServerStatus == {"pending", "connected", "connection_failed", "provisioning",
                 "provision_failed", "ready_for_deploy"}

SiteTransitions ==
  ({NoStatus}        \X {"draft"})
    \cup ({"draft"}         \X {"draft", "deploying"})
    \cup ({"deploying"}     \X {"deployed", "deploy_failed", "ssl_pending"})
    \cup ({"deploy_failed"} \X {"deploying", "deploy_failed"})
    \cup ({"ssl_pending"}   \X {"ssl_pending", "deployed", "deploying"})
    \cup ({"deployed"}      \X {"deployed", "deploying", "ssl_pending"})

ServerTransitions ==
  ({NoStatus}            \X {"pending"})
    \cup ({"pending"}           \X {"connected", "connection_failed"})
    \cup ({"connection_failed"} \X {"connected", "connection_failed"})
    \cup ({"connected"}         \X {"connected", "connection_failed", "provisioning"})
    \cup ({"provisioning"}      \X {"ready_for_deploy", "provision_failed"})
    \cup ({"provision_failed"}  \X {"provisioning", "ready_for_deploy", "connection_failed"})
    \cup ({"ready_for_deploy"}  \X {"ready_for_deploy", "provisioning"})

EnsureTransition(transitions, from, to) ==
  /\ to # NoStatus
  /\ from = to \/ <<from, to>> \in transitions

EnsureSiteTransition(from, to) == EnsureTransition(SiteTransitions, from, to)

EnsureServerTransition(from, to) == EnsureTransition(ServerTransitions, from, to)
=============================================================================
