----------------------------- MODULE PmmRefine ------------------------------
(* The allocator of Pmm implements PageAbs. *)
EXTENDS Pmm

In(state) == ClassOf(pmm, Managed(pmm), state)

Abs == INSTANCE PageAbs WITH Frame <- Page, free <- In("FREE"), held <- In("ALLOCATED"),
                             reserved <- In("RESERVED")

(* Two callers never hold one page, a freed page was held, a reserved page *)
(* is never handed out or freed: the allocator implements PageAbs.         *)
ImplementsPages == Abs!PageSpec

=============================================================================
