------------------------------ MODULE MCWorkload ------------------------------
(* Small instances of Workload. *)
EXTENDS Workload
==============================================================================
