----------------------------- MODULE PageTable ------------------------------
(***************************************************************************)
(* Page tables as vmm_query_mapping of kernel/mm/vmm.c reads them: the     *)
(* rights of a page are those of the last entry alone, where the processor *)
(* takes what every level allows.  Addresses are page numbers.             *)
(* vm.table[f] is the page table in frame f; an entry is NONE (not         *)
(* present) or a record, whose span is 0 when it points to a table and     *)
(* else the number of pages it maps: 1, or more with VMM_PAGE_SIZE set.    *)
(***************************************************************************)
EXTENDS Addresses, Nil

CONSTANTS Fanout,   \* VMM_ENTRIES_PER_TABLE
          g_pml4    \* frame of the root table

VARIABLE vm   \* page tables, and the free pages of pmm

W == "VMM_MAP_WRITABLE"
U == "VMM_MAP_USER"

(* A present entry, and what vmm_query_mapping says of a mapped page. *)
Entry == [span : Nat, frame : Nat, flags : SUBSET {W, U}]
Mapping == [frame : Nat, flags : SUBSET {W, U}]

ASSUME PageTableAssumption ==
    /\ Fanout \in Nat \ {0, 1}
    /\ NONE \notin Entry /\ NONE \notin Mapping /\ NONE \notin Nat

Table(f, flags) == [span |-> 0, frame |-> f, flags |-> flags]
Leaf(f, flags) == [span |-> 1, frame |-> f, flags |-> flags]

(* vmm_pt_index and the other three: each level up drops the index of the  *)
(* one below; level 4 is the root.                                         *)
table_index(v, level) ==
    LET pd == v \div Fanout
        pdpt == pd \div Fanout
        pml4 == pdpt \div Fanout
    IN  <<v, pd, pdpt, pml4>>[level] % Fanout

(* Pages that no table tells apart. *)
same_entry(v, w) == \A level \in 1..4 : table_index(v, level) = table_index(w, level)

(* The entry for v one level below an entry. *)
look(m, e, v, level) ==
    IF e = NONE \/ e.span # 0 THEN e ELSE m.table[e.frame][table_index(v, level)]

(* What an entry that maps pages says of v. *)
page_of(e, v) ==
    IF e = NONE THEN NONE ELSE [frame |-> e.frame + (v % e.span), flags |-> e.flags]

(* NONE, or the frame and the flags of a page; vmm_translate is the frame. *)
vmm_query_mapping(m, v) ==
    LET pml4e == look(m, Table(g_pml4, {}), v, 4)
        pdpte == look(m, pml4e, v, 3)
        pde == look(m, pdpte, v, 2)
    IN  page_of(look(m, pde, v, 1), v)

=============================================================================
