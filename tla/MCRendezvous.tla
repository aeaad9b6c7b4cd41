---------------------------- MODULE MCRendezvous ----------------------------
(* Instances of Rendezvous for TLC. *)
EXTENDS Rendezvous, TLC

CONSTANTS r1, r2

(* One receiver takes every message, the other only the short ones. *)
MCBuffer == r1 :> 2 @@ r2 :> 1
=============================================================================
