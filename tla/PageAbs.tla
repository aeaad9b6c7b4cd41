------------------------------ MODULE PageAbs ------------------------------
(***************************************************************************)
(* What a physical page allocator promises: a page has one holder at a     *)
(* time, a reserved page is never handed out, and nothing else moves.      *)
(***************************************************************************)
CONSTANT Frame

VARIABLES free, held, reserved   \* disjoint sets of pages

pageVars == <<free, held, reserved>>

PageInit ==
    /\ free \subseteq Frame
    /\ held = {}
    /\ reserved \subseteq Frame \ free

AllocPage ==
    \E p \in free : /\ free' = free \ {p}
                    /\ held' = held \cup {p}
                    /\ UNCHANGED reserved

FreePage ==
    \E p \in held : /\ free' = free \cup {p}
                    /\ held' = held \ {p}
                    /\ UNCHANGED reserved

(* Pages that are held stay with their holder. *)
ReservePages ==
    \E S \in SUBSET free : /\ free' = free \ S
                           /\ reserved' = reserved \cup S
                           /\ UNCHANGED held

PageSpec == PageInit /\ [][AllocPage \/ FreePage \/ ReservePages]_pageVars

=============================================================================
