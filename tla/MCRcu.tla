------------------------------- MODULE MCRcu -------------------------------
(* RCU with a pool small enough that nodes are reused and run out. *)
EXTENDS Rcu
=============================================================================
