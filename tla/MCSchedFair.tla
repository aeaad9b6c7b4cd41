---------------------------- MODULE MCSchedFair -----------------------------
(* The liveness of the CFS policy, on the finite-state SchedFair. *)
EXTENDS SchedFair
=============================================================================
