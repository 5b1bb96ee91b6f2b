--------------------------- MODULE MCSitePipeline ---------------------------
(* Deploys and the certificate job of one site, on small instances.        *)
EXTENDS SitePipeline, TLC

Symmetry == Permutations(Task)
=============================================================================
