------------------------------- MODULE MCDag -------------------------------
(* The instance of the reference Dag that TLC checks.                      *)
EXTENDS DagOrder
============================================================================
