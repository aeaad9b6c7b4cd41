------------------------------ MODULE MCMemory ------------------------------
(***************************************************************************)
(* The memory of the kernel, each part checked on its own in one run: the  *)
(* initial state says which part it is, and only that part takes steps.    *)
(*   pages    the physical pages (Pmm), and that they implement PageAbs    *)
(*   tables   the page tables and the kernel heap (Vmm), asked after every *)
(*            step what it allows user code to touch (Uaccess)             *)
(*   shm      shared memory over the kernel heap (Shm)                     *)
(***************************************************************************)
EXTENDS PmmRefine, Shm, Uaccess

VARIABLE part

vars == <<part, pmmVars, vmmVars, shmVars>>

Init ==
    /\ part \in {"pages", "tables", "shm"}
    /\ pmm_init /\ vmm_init /\ shm_init
    /\ part # "pages" => pmm.base = 2 /\ pmm.total_pages = 0
    /\ part = "pages" => pool = CHOOSE p \in Pool : TRUE

Pages == part = "pages" /\ PmmNext /\ UNCHANGED <<part, vmmVars, shmVars>>
PageTables == part = "tables" /\ VmmNext /\ UNCHANGED <<part, pmmVars, shmVars>>
SharedMemory == part = "shm" /\ ShmNext /\ UNCHANGED <<part, pmmVars>>

Next == Pages \/ PageTables \/ SharedMemory

Spec == Init /\ [][Next]_vars

-----------------------------------------------------------------------------
MCPool == {5..(4 + k) : k \in {0, 5, 11}}
MCDeviceRange == {<<121, 3>>, <<9, 1>>, <<509, 2>>}
MCUserAddress == {0, 63, 64, 127, 300}
MCUserSize == {0, 1, 2, 4, 511}
MCSegmentId == {-1, 0, 1, 2, 4}

=============================================================================
