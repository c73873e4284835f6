------------------------------ MODULE MCStore ------------------------------
(* The instance of the node store that TLC checks.                         *)
EXTENDS Store
============================================================================
