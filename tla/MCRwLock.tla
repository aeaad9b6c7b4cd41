------------------------------ MODULE MCRwLock ------------------------------
(* The reader-writer lock with a few tasks that read and write at will. *)
EXTENDS RwLock
=============================================================================
