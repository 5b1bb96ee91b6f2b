---------------------------- MODULE MCServerOps ----------------------------
(* The jobs of one server on small instances.                              *)
EXTENDS ServerOps

NoRetry == [q \in Queued |-> 0]
RetryProvision == [provision |-> 1, renew |-> 0]
=============================================================================
