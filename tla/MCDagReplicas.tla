--------------------------- MODULE MCDagReplicas ---------------------------
(* The instance of the two replicas that TLC checks.                       *)
EXTENDS DagReplicas
============================================================================
