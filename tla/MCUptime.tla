------------------------------ MODULE MCUptime ------------------------------
(* The uptime monitor with thresholds on both sides of ClampInt's limits.  *)
EXTENDS Uptime

Choices ==
  {[fail |-> 0, recover |-> 9, down |-> TRUE, recovery |-> TRUE],
   [fail |-> 2, recover |-> 1, down |-> TRUE, recovery |-> FALSE],
   [fail |-> 1, recover |-> 2, down |-> FALSE, recovery |-> TRUE]}
=============================================================================
