-------------------------------- MODULE Nil --------------------------------
(* The null pointer, and the absence of a value. *)
CONSTANT NONE
=============================================================================
