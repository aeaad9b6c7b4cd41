-------------------------------- MODULE Vmm --------------------------------
(***************************************************************************)
(* Page tables and the kernel heap, kernel/mm/vmm.c, with the code that    *)
(* maps pages: the ACPI, NUMA and APIC set-up, and the memory tests of     *)
(* kmain.  The functions of the file are operators from one value of vm to *)
(* the next; ok is their result, at the frame of the table or the address  *)
(* they found.                                                             *)
(*                                                                         *)
(* Only the boot context and sections with interrupts off call this file,  *)
(* so each call is one step.                                               *)
(***************************************************************************)
EXTENDS PageTable, FiniteSets

CONSTANTS pdpt_table, pd_table,         \* the boot page tables below g_pml4
          HeapBase, g_kernel_heap_limit,
          Pool,                         \* the sets of pages pmm may have free
          HeapRequest,                  \* page counts asked of the heap
          DeviceRange,                  \* <<base, length>> in bytes, of tables and devices
          UserPage, SplitPage           \* syscall_user_page_virt, split_test_virt

Index == 0..(Fanout - 1)
Identity == 0..(Fanout * Fanout - 1)    \* what setup_page_tables maps
HeapWindow == HeapBase..(g_kernel_heap_limit - 1)

Canonical == 0..(Fanout * Fanout * Fanout * Fanout - 1)   \* addresses below 2^48

(* The heap lies above what setup_page_tables maps, and the test's user    *)
(* page is in neither.                                                     *)
ASSUME VmmAssumption ==
    /\ {g_pml4, pdpt_table, pd_table, SplitPage} \subseteq Identity
    /\ g_pml4 # pdpt_table /\ g_pml4 # pd_table /\ pdpt_table # pd_table
    /\ HeapBase \in Nat /\ g_kernel_heap_limit \in HeapBase..(PageEnd - 1)
    /\ HeapWindow \subseteq Canonical \ Identity
    /\ UserPage \in Canonical \ (Identity \cup HeapWindow)
    /\ \A P \in Pool : P \subseteq Identity \ {g_pml4, pdpt_table, pd_table, SplitPage}
    /\ HeapRequest \subseteq Nat

VARIABLES
    g_kernel_heap_next,
    user_page,           \* the frame kmain has mapped at UserPage, or NONE
    split_page,          \* the frame kmain uses to test splitting, or NONE
    pool                 \* history: the pages that were free at boot

vmmVars == <<vm, g_kernel_heap_next, user_page, split_page, pool>>

-----------------------------------------------------------------------------
(* Tables. *)
(* pmm_alloc_page: any free page, the properties do not depend on which. *)
take_page(m) == CHOOSE f \in m.free : TRUE

(* pmm_free_page *)
give_page(m, f) == [m EXCEPT !.free = @ \cup {f}]

(* Frame f becomes a table with the given entries, which entry i of table  *)
(* t points to.                                                            *)
AddTable(m, t, i, f, entries, flags) ==
    [free |-> m.free \ {f},
     table |-> [g \in DOMAIN m.table \cup {f} |->
                  IF g = f THEN entries
                  ELSE IF g = t THEN [m.table[t] EXCEPT ![i] = Table(f, flags)]
                  ELSE m.table[g]]]

Ok(m, at) == [ok |-> TRUE, m |-> m, at |-> at]
Failed(m) == [ok |-> FALSE, m |-> m, at |-> NONE]

(* The pages of the large one, with its flags. *)
vmm_split_large_pd_entry(m, pd, i) ==
    LET e == m.table[pd][i]
        pt == take_page(m)
        huge_base == e.frame - (e.frame % Fanout)
    IN  IF m.free = {} THEN Failed(m)
        ELSE Ok(AddTable(m, pd, i, pt, [j \in Index |-> Leaf(huge_base + j, e.flags)],
                         {W} \cup (e.flags \cap {U})), pt)

(* An empty table, reached through a writable entry. *)
new_table(m, t, i) ==
    LET next == take_page(m)
    IN  IF m.free = {} THEN Failed(m)
        ELSE Ok(AddTable(m, t, i, next, [j \in Index |-> NONE], {W}), next)

(* One level of vmm_walk_to_pt, with vmm_get_or_create_next_table.  Only a *)
(* large page directory entry is split, whether or not tables may be       *)
(* created.                                                                *)
next_table(m, t, i, level, create) ==
    LET e == m.table[t][i]
    IN  CASE e = NONE -> IF create THEN new_table(m, t, i) ELSE Failed(m)
          [] e # NONE /\ e.span = 0 -> Ok(m, e.frame)
          [] e # NONE /\ e.span # 0 ->
                IF level = 2 THEN vmm_split_large_pd_entry(m, t, i) ELSE Failed(m)

down(r, v, level, create) ==
    IF r.ok THEN next_table(r.m, r.at, table_index(v, level), level, create) ELSE r

(* Tables created before a level fails stay. *)
vmm_walk_to_pt(m, v, create) ==
    down(down(down(Ok(m, g_pml4), v, 4, create), v, 3, create), v, 2, create)

SetEntry(m, t, i, e) == [m EXCEPT !.table[t][i] = e]

(* The walk r has ended at a table: its entry i, absent or not as          *)
(* required, is set.                                                       *)
set_pte(r, i, absent, e) ==
    IF ~r.ok \/ (r.m.table[r.at][i] = NONE) # absent THEN Failed(r.m)
    ELSE Ok(SetEntry(r.m, r.at, i, e), r.at)

vmm_map_page(m, v, f, flags) ==
    set_pte(vmm_walk_to_pt(m, v, TRUE), table_index(v, 1), TRUE, Leaf(f, flags))

vmm_unmap_page(m, v) ==
    set_pte(vmm_walk_to_pt(m, v, FALSE), table_index(v, 1), FALSE, NONE)

-----------------------------------------------------------------------------
(* vmm_alloc_kernel_pages: one turn of the allocation loop, at page s.at.  *)
(* A page that cannot be mapped is given back.                             *)
alloc_mapped(s, r, f) ==
    IF r.ok THEN [m |-> r.m, at |-> s.at + 1, flags |-> s.flags, ok |-> TRUE]
    ELSE [m |-> give_page(r.m, f), at |-> s.at, flags |-> s.flags, ok |-> FALSE]

alloc_page(s, f) ==
    alloc_mapped(s, vmm_map_page([s.m EXCEPT !.free = @ \ {f}], s.at, f, s.flags \cup {W}), f)

alloc_next(s) ==
    IF ~s.ok THEN s
    ELSE IF s.m.free = {} THEN [m |-> s.m, at |-> s.at, flags |-> s.flags, ok |-> FALSE]
    ELSE alloc_page(s, take_page(s.m))

alloc_loop(m, start, flags, n) ==
    LET turn[i \in 0..n] ==
            IF i = 0 THEN [m |-> m, at |-> start, flags |-> flags, ok |-> TRUE]
            ELSE alloc_next(turn[i - 1])
    IN  turn[n]

(* Mutant: the frame is not given back. *)
undo_page_keeps(m, v) ==
    IF vmm_query_mapping(m, v) = NONE THEN m ELSE vmm_unmap_page(m, v).m

undo_page(m, v) ==
    LET undo(q) == IF q = NONE THEN m ELSE give_page(vmm_unmap_page(m, v).m, q.frame)
    IN  undo(vmm_query_mapping(m, v))

undo_next(s) == [m |-> undo_page(s.m, s.at), at |-> s.at + 1]

(* What was mapped is unmapped and given back; tables stay. *)
rollback(m, start, done) ==
    LET turn[i \in 0..done] ==
            IF i = 0 THEN [m |-> m, at |-> start] ELSE undo_next(turn[i - 1])
    IN  turn[done].m

(* The sum of start and the request passes 2^64, or the heap's end. *)
HeapRefuses(start, n) ==
    n = 0 \/ n >= PageEnd \/ start + n >= PageEnd \/ start + n > g_kernel_heap_limit

vmm_alloc_kernel_pages(m, start, n, flags) ==
    IF HeapRefuses(start, n) THEN Failed(m)
    ELSE LET result(a) == IF a.at = start + n THEN Ok(a.m, start)
                          ELSE Failed(rollback(a.m, start, a.at - start))
         IN  result(alloc_loop(m, start, flags, n))

(* One page of an identity map; pages that are mapped already stay as they *)
(* are, and after a failure nothing more is mapped.                        *)
identity_next(s) ==
    LET r == vmm_map_page(s.m, s.at, s.at, {W})
    IN  IF ~s.ok THEN s
        ELSE IF vmm_query_mapping(s.m, s.at) # NONE THEN [m |-> s.m, at |-> s.at + 1, ok |-> TRUE]
        ELSE [m |-> r.m, at |-> s.at + 1, ok |-> r.ok]

(* The pages of a range of bytes. *)
first_page(base) == base \div PageSize
end_page(base, length) == (base + length + PageSize - 1) \div PageSize

(* No table or device of the firmware is in the heap's window. *)
ASSUME DeviceAssumption ==
    \A d \in DeviceRange :
        /\ d \in Nat \X Nat
        /\ \A v \in first_page(d[1])..(end_page(d[1], d[2]) - 1), w \in HeapWindow :
              ~same_entry(v, w)

(* acpi_map_identity_range, map_identity_range of numa.c, and              *)
(* apic_ensure_mmio_mapping.                                               *)
map_identity_range(m, base, length) ==
    LET pages == end_page(base, length) - first_page(base)
        turn[i \in 0..pages] ==
            IF i = 0 THEN [m |-> m, at |-> first_page(base), ok |-> TRUE]
            ELSE identity_next(turn[i - 1])
    IN  IF base = 0 \/ length = 0 \/ base + length + PageSize - 1 >= AddressEnd THEN m
        ELSE turn[pages].m

-----------------------------------------------------------------------------
(* setup_page_tables of boot/entry.S, and vmm_init. *)
BootTables ==
    [f \in {g_pml4, pdpt_table, pd_table} |->
        [i \in Index |->
            IF f = pd_table THEN [span |-> Fanout, frame |-> i * Fanout, flags |-> {W}]
            ELSE IF i # 0 THEN NONE
            ELSE Table(IF f = g_pml4 THEN pdpt_table ELSE pd_table, {W})]]

vmm_init ==
    /\ pool \in Pool
    /\ vm = [table |-> BootTables, free |-> pool]
    /\ g_kernel_heap_next = HeapBase
    /\ user_page = NONE /\ split_page = NONE

(* kmain's heap test, and the allocation of shm_create. *)
AllocKernelPages(n) ==
    LET r == vmm_alloc_kernel_pages(vm, g_kernel_heap_next, n, {W})
    IN  /\ vm' = r.m
        /\ g_kernel_heap_next' = IF r.ok THEN g_kernel_heap_next + n ELSE g_kernel_heap_next
        /\ UNCHANGED <<user_page, split_page, pool>>

MapDevice ==
    \E d \in DeviceRange :
        /\ vm' = map_identity_range(vm, d[1], d[2])
        /\ UNCHANGED <<g_kernel_heap_next, user_page, split_page, pool>>

(* The user page of the system call tests. *)
MapUserPage ==
    LET f == take_page(vm)
        r == vmm_map_page([vm EXCEPT !.free = @ \ {f}], UserPage, f, {U, W})
    IN  /\ user_page = NONE /\ vm.free # {}
        /\ vm' = IF r.ok THEN r.m ELSE give_page(r.m, f)
        /\ user_page' = IF r.ok THEN f ELSE NONE
        /\ UNCHANGED <<g_kernel_heap_next, split_page, pool>>

UnmapUserPage ==
    /\ user_page # NONE
    /\ vm' = give_page(vmm_unmap_page(vm, UserPage).m, user_page)
    /\ user_page' = NONE
    /\ UNCHANGED <<g_kernel_heap_next, split_page, pool>>

(* The split test: another frame takes the place of one page of a large    *)
(* one.  When the unmapping fails the second call is not made.             *)
SplitTest ==
    LET f == take_page(vm)
        remap(u) == IF u.ok THEN vmm_map_page(u.m, SplitPage, f, {W}).m ELSE u.m
    IN  /\ split_page = NONE /\ vm.free # {}
        /\ vm' = remap(vmm_unmap_page([vm EXCEPT !.free = @ \ {f}], SplitPage))
        /\ split_page' = f
        /\ UNCHANGED <<g_kernel_heap_next, user_page, pool>>

SplitRestore ==
    LET u == vmm_unmap_page(vm, SplitPage).m
    IN  /\ split_page # NONE
        /\ vm' = give_page(vmm_map_page(u, SplitPage, SplitPage, {W}).m, split_page)
        /\ split_page' = NONE
        /\ UNCHANGED <<g_kernel_heap_next, user_page, pool>>

VmmNext ==
    \/ \E n \in HeapRequest : AllocKernelPages(n)
    \/ MapDevice
    \/ MapUserPage \/ UnmapUserPage
    \/ SplitTest \/ SplitRestore

VmmSpec == vmm_init /\ [][VmmNext]_vmmVars

-----------------------------------------------------------------------------
HeapPages == HeapBase..(g_kernel_heap_next - 1)
HeapFrames == {vmm_query_mapping(vm, v).frame : v \in HeapPages}
DemoFrames == {user_page, split_page} \ {NONE}
BootFrames == {g_pml4, pdpt_table, pd_table}

(* Every page that pmm had at boot is free, a page table, behind one page  *)
(* of the heap, or in the hands of kmain's tests, and only one of these:   *)
(* whichever allocation fails at whichever page, the rollback of           *)
(* vmm_alloc_kernel_pages neither loses a page nor frees it twice.         *)
PagesConserved ==
    LET tables == DOMAIN vm.table \ BootFrames
    IN  /\ vm.free \cup tables \cup HeapFrames \cup DemoFrames = pool
        /\ Cardinality(pool) = Cardinality(vm.free) + Cardinality(tables)
                               + Cardinality(HeapPages) + Cardinality(DemoFrames)

(* Exactly the pages below g_kernel_heap_next are mapped in the heap's     *)
(* window, writable: a failed allocation leaves no mapping behind that     *)
(* would make every later one fail.                                        *)
HeapExact ==
    \A v \in HeapWindow :
        LET q == vmm_query_mapping(vm, v)
        IN  IF v < g_kernel_heap_next THEN q # NONE /\ W \in q.flags ELSE q = NONE

PointsTo(m, t, i, f) ==
    m.table[t][i] # NONE /\ m.table[t][i].span = 0 /\ m.table[t][i].frame = f

(* Splitting a large page changes no translation: every boot page is still *)
(* mapped to itself, writable, except the one kmain's test has replaced;   *)
(* and the entries of a table point to tables of the next level, each from *)
(* one place only (vmm_split_large_pd_entry, vmm_get_or_create_next_table).*)
TreeIntact ==
    /\ \A v \in Identity :
          \/ vmm_query_mapping(vm, v) = [frame |-> v, flags |-> {W}]
          \/ v = SplitPage /\ split_page # NONE
             /\ vmm_query_mapping(vm, v) = [frame |-> split_page, flags |-> {W}]
    /\ \A f \in DOMAIN vm.table \ {g_pml4} :
          \E t \in DOMAIN vm.table, i \in Index :
              /\ PointsTo(vm, t, i, f)
              /\ \A s \in DOMAIN vm.table, j \in Index : PointsTo(vm, s, j, f) => s = t /\ j = i

(* Whatever is mapped, unmapped, split or refused half-way for want of     *)
(* pages, no page is lost or used twice, the heap is exactly the pages     *)
(* handed out, and the tables stay a tree that keeps the mappings of boot  *)
(* (vmm_alloc_kernel_pages, vmm_split_large_pd_entry, vmm_walk_to_pt).     *)
MemoryExact == PagesConserved /\ HeapExact /\ TreeIntact

=============================================================================
