-------------------------------- MODULE Ring --------------------------------
(***************************************************************************)
(* The ring buffers of the kernel (work queues, channels) are an array of  *)
(* cap entries with the index h of the oldest and the number n of stored   *)
(* ones.  Contents is the sequence such a ring stands for.                 *)
(***************************************************************************)
EXTENDS Integers, Sequences

Contents(items, h, n, cap) == [i \in 1..n |-> items[(h + i - 1) % cap]]

(* A ring of cap entries with at least one free. *)
HasRoom(cap, h, n) == cap \in Nat \ {0} /\ h \in 0..(cap - 1) /\ n \in 0..(cap - 1)

(* new is items with x stored at t. *)
Stored(new, items, t, x, cap) ==
    /\ t \in 0..(cap - 1)
    /\ new[t] = x
    /\ \A j \in 0..(cap - 1) : j # t => new[j] = items[j]

(* The tail is where the next entry goes. *)
TailAgrees(h, n, t, cap) == t = (h + n) % cap

=============================================================================
