-------------------------------- MODULE Pmm --------------------------------
(***************************************************************************)
(* The buddy allocator of physical pages, kernel/mm/pmm.c.  Its static     *)
(* variables are one record, and the functions of the file are operators   *)
(* from one value m of the record to the next.  A doubly linked free list  *)
(* is the sequence of its blocks.  A loop is the function turn of its      *)
(* states: turn[i] is a record of what the loop changes, after i turns.    *)
(*                                                                         *)
(* The file has no lock.  Only the boot context calls it (kmain, and from  *)
(* it vmm.c and sched_create_kernel_task), so each call is one step.       *)
(***************************************************************************)
EXTENDS Addresses, FiniteSets, Sequences, Functions

CONSTANTS MaxOrder,                 \* PMM_MAX_ORDER
          RegionBase, RegionSize,   \* arguments of pmm_init
          RangeBase, RangeSize      \* arguments of pmm_reserve_range

ASSUME PmmAssumption ==
    /\ MaxOrder \in Nat
    /\ RegionBase \cup RegionSize \cup RangeBase \cup RangeSize \subseteq Address

Order == 0..MaxOrder

(* 1 << order *)
block_pages[order \in Order] == IF order = 0 THEN 1 ELSE 2 * block_pages[order - 1]

Page == 0..(block_pages[MaxOrder] - 1)   \* PMM_MAX_PAGES is 2^PMM_MAX_ORDER
INVALID == -1                            \* PMM_INVALID_INDEX

VARIABLE pmm

pmmVars == <<pmm>>

Managed(m) == 0..(m.total_pages - 1)
PmmEnd(m) == m.base + m.total_pages * PageSize
Block(start, order) == start..(start + block_pages[order] - 1)

reset_allocator_state(base, total) ==
    [base |-> base, total_pages |-> total, free_pages |-> 0,
     free_list |-> [k \in Order |-> <<>>],
     page_owner |-> [p \in Page |-> INVALID],
     block_state |-> [p \in Page |-> "UNUSED"],
     block_order |-> [p \in Page |-> 0]]

-----------------------------------------------------------------------------
(* Blocks and free lists. *)

(* with mark_block_owner *)
set_block(m, start, order, state) ==
    [m EXCEPT !.page_owner = [p \in Page |-> IF p \in Block(start, order) THEN start ELSE @[p]],
              !.block_order[start] = order,
              !.block_state[start] = state]

clear_block_head(m, start) ==
    [m EXCEPT !.block_order[start] = 0, !.block_state[start] = "UNUSED"]

free_list_push(m, order, start) ==
    [m EXCEPT !.free_list[order] = <<start>> \o @]

(* A block that is on no list has no neighbours: removing it empties the   *)
(* list.                                                                   *)
Without(list, start) ==
    LET at == CHOOSE i \in DOMAIN list : list[i] = start
    IN  IF start \in Range(list)
        THEN [i \in 1..(Len(list) - 1) |-> IF i < at THEN list[i] ELSE list[i + 1]]
        ELSE <<>>

free_list_remove(m, order, start) ==
    [m EXCEPT !.free_list[order] = Without(@, start)]

add_free_block(m, start, order) ==
    [free_list_push(set_block(m, start, order, "FREE"), order, start)
        EXCEPT !.free_pages = @ + block_pages[order]]

remove_free_block(m, start) ==
    LET order == m.block_order[start]
    IN  clear_block_head([free_list_remove(m, order, start)
                             EXCEPT !.free_pages = @ - block_pages[order]], start)

(* A turn of the loop of alloc_block: the upper half goes back to the      *)
(* lists.                                                                  *)
split_upper(b) ==
    [mem |-> add_free_block(b.mem, b.block + block_pages[b.order - 1], b.order - 1),
     block |-> b.block, order |-> b.order - 1]

(* alloc_block(0): the head of the first list that has one is split down   *)
(* to a page.                                                              *)
alloc_block(m, order) ==
    LET block == Head(m.free_list[order])
        turn[i \in 0..order] ==
            IF i = 0 THEN [mem |-> remove_free_block(m, block), block |-> block, order |-> order]
            ELSE split_upper(turn[i - 1])
    IN  set_block(turn[order].mem, block, 0, "ALLOCATED")

(* Mutant: the buddy is always above. *)
BuddyAbove(p, k) == p + block_pages[k]

(* p ^ block_pages(k) *)
Buddy(p, k) ==
    IF (p \div block_pages[k]) % 2 = 0 THEN p + block_pages[k] ELSE p - block_pages[k]

FreeBlock(m, p, k) == m.block_state[p] = "FREE" /\ m.block_order[p] = k

(* A turn of the loop of free_block: the block grows by its buddy if that  *)
(* is a free block of the same order.                                      *)
merge(b) ==
    LET buddy == Buddy(b.current, b.order)
        low == IF buddy < b.current THEN buddy ELSE b.current
    IN  IF b.order < MaxOrder /\ buddy < b.mem.total_pages /\ FreeBlock(b.mem, buddy, b.order)
        THEN [mem |-> set_block(clear_block_head(
                                   clear_block_head(remove_free_block(b.mem, buddy), b.current),
                                   buddy),
                                low, b.order + 1, "FREE"),
              current |-> low, order |-> b.order + 1]
        ELSE b

(* free_block(page, 0) *)
free_block(m, page) ==
    LET turn[i \in 0..MaxOrder] ==
            IF i = 0 THEN [mem |-> set_block(m, page, 0, "FREE"), current |-> page, order |-> 0]
            ELSE merge(turn[i - 1])
        last == turn[MaxOrder]
    IN  add_free_block(last.mem, last.current, last.order)

(* A turn of the loop of reserve_page: the half without the page goes back *)
(* to the lists.                                                           *)
split_around(b) ==
    LET k == b.order - 1
        buddy == b.current + block_pages[k]
        keep == IF b.page < buddy THEN b.current ELSE buddy
        give == IF b.page < buddy THEN buddy ELSE b.current
    IN  [mem |-> set_block(add_free_block(b.mem, give, k), keep, k, "ALLOCATED"),
         current |-> keep, order |-> k, page |-> b.page]

(* Only a page of a free block is reserved. *)
reserve_page(m, page) ==
    LET head == m.page_owner[page]
        order == m.block_order[head]
        turn[i \in 0..order] ==
            IF i = 0
            THEN [mem |-> remove_free_block(m, head), current |-> head, order |-> order, page |-> page]
            ELSE split_around(turn[i - 1])
    IN  IF page < m.total_pages /\ head # INVALID /\ m.block_state[head] = "FREE"
        THEN set_block(turn[order].mem, turn[order].current, 0, "RESERVED")
        ELSE m

-----------------------------------------------------------------------------
(* pmm_init *)

(* max_order_for_pages, then smaller until the page is aligned. *)
LargestOrder(page, remaining) ==
    CHOOSE k \in Order :
        /\ block_pages[k] <= remaining /\ page % block_pages[k] = 0
        /\ \A j \in Order : j > k => block_pages[j] > remaining \/ page % block_pages[j] # 0

(* A turn of the loop of add_free_range, until no page remains. *)
add_largest(b) ==
    LET k == LargestOrder(b.page, b.mem.total_pages - b.page)
    IN  IF b.page = b.mem.total_pages THEN b
        ELSE [mem |-> add_free_block(b.mem, b.page, k), page |-> b.page + block_pages[k]]

(* add_free_range(0, g_total_pages) *)
add_free_range(m) ==
    LET turn[i \in 0..m.total_pages] ==
            IF i = 0 THEN [mem |-> m, page |-> 0] ELSE add_largest(turn[i - 1])
    IN  turn[m.total_pages].mem

AlignDown(address) == address - (address % PageSize)
AlignUp(address) == AlignDown((address + PageSize - 1) % AddressEnd)

TotalPages(base, size) ==
    LET end == (base + size) % AddressEnd
        pages == (end - AlignUp(base)) \div PageSize
    IN  IF end < base \/ AlignUp(base) >= end THEN 0
        ELSE IF pages > block_pages[MaxOrder] THEN block_pages[MaxOrder]
        ELSE pages

pmm_init ==
    \E base \in RegionBase, size \in RegionSize :
        LET m == reset_allocator_state(AlignUp(base), TotalPages(base, size))
        IN  pmm = IF m.total_pages = 0 THEN m ELSE reserve_page(add_free_range(m), 0)

-----------------------------------------------------------------------------
(* pmm_alloc_page; with no free block it returns NULL. *)
pmm_alloc_page ==
    \E order \in Order :
        /\ pmm.free_list[order] # <<>>
        /\ \A k \in Order : k < order => pmm.free_list[k] = <<>>
        /\ pmm' = alloc_block(pmm, order)

(* Mutant: any page is taken back. *)
pmm_free_page_unchecked(address) ==
    LET page == (address - pmm.base) \div PageSize
    IN  /\ address >= pmm.base
        /\ (address - pmm.base) % PageSize = 0
        /\ page < pmm.total_pages
        /\ pmm.block_state[page] # "FREE"
        /\ pmm.block_order[page] = 0
        /\ pmm' = free_block(clear_block_head(pmm, page), page)

(* Anything but an allocated page is ignored, a page freed twice included. *)
pmm_free_page(address) ==
    LET page == (address - pmm.base) \div PageSize
    IN  /\ address >= pmm.base
        /\ (address - pmm.base) % PageSize = 0
        /\ page < pmm.total_pages
        /\ pmm.block_state[page] = "ALLOCATED"
        /\ pmm.block_order[page] = 0
        /\ pmm' = free_block(clear_block_head(pmm, page), page)

(* The sum, UINT64_MAX if it overflows. *)
range_end(base, size) ==
    IF base + size >= AddressEnd THEN AddressEnd - 1 ELSE base + size

(* Mutant: the end of the range is rounded down. *)
aligned_end_short(base, size) == AlignDown(range_end(base, size))

aligned_end(base, size) ==
    IF range_end(base, size) > AddressEnd - PageSize THEN AlignDown(AddressEnd - 1)
    ELSE AlignUp(range_end(base, size))

reserve_next(b) == [mem |-> reserve_page(b.mem, b.page), page |-> b.page + 1]

reserve_pages(m, first_page, last_page) ==
    LET turn[i \in 0..(last_page - first_page)] ==
            IF i = 0 THEN [mem |-> m, page |-> first_page] ELSE reserve_next(turn[i - 1])
    IN  turn[last_page - first_page].mem

reserve_range(m, base, size) ==
    LET start == IF AlignDown(base) < m.base THEN m.base ELSE AlignDown(base)
        end == aligned_end(base, size)
        stop == IF end > PmmEnd(m) THEN PmmEnd(m) ELSE end
    IN  IF size = 0 \/ m.total_pages = 0 \/ end <= m.base \/ start >= PmmEnd(m) THEN m
        ELSE reserve_pages(m, (start - m.base) \div PageSize, (stop - m.base) \div PageSize)

pmm_reserve_range(base, size) == pmm' = reserve_range(pmm, base, size)

PmmNext ==
    \/ pmm_alloc_page
    \/ \E address \in Address : pmm_free_page(address)
    \/ \E base \in RangeBase, size \in RangeSize : pmm_reserve_range(base, size)

PmmSpec == pmm_init /\ [][PmmNext]_pmmVars

-----------------------------------------------------------------------------
(* Properties.  X is the set of pages that no call has in hand: between    *)
(* calls, all that are managed.                                            *)

BlockState == {"UNUSED", "FREE", "ALLOCATED", "RESERVED"}

(* The tables have their types. *)
Tables ==
    [base : Address, total_pages : 0..block_pages[MaxOrder], free_pages : Int,
     free_list : [Order -> Seq(Page)], page_owner : [Page -> Page \cup {INVALID}],
     block_state : [Page -> BlockState], block_order : [Page -> Order]]

ClassOf(m, X, state) == {p \in X : m.block_state[m.page_owner[p]] = state}

(* Through all splits and merges the managed pages are tiled by aligned    *)
(* blocks: each page belongs to the block that g_page_owner names, whose   *)
(* head alone carries a state, and only free blocks are larger than a page.*)
BlocksTile(m, X) ==
    \A p \in X :
        LET head == m.page_owner[p]
            order == m.block_order[head]
        IN  /\ head \in X
            /\ p \in Block(head, order) /\ Block(head, order) \subseteq X
            /\ \A q \in Block(head, order) : m.page_owner[q] = head
            /\ head % block_pages[order] = 0
            /\ m.block_state[head] # "UNUSED"
            /\ p # head => m.block_state[p] = "UNUSED"
            /\ m.block_state[head] # "FREE" => order = 0

(* The free list of an order holds exactly the free blocks of that order,  *)
(* each once: pmm_alloc_page fails only when every page is in use.         *)
ListsExact(m, X) ==
    \A k \in Order :
        /\ IsInjective(m.free_list[k])
        /\ Range(m.free_list[k]) = {p \in X : FreeBlock(m, p, k)}

(* free_block merges as far as it can: no sequence of calls leaves a free  *)
(* block beside its free buddy.                                            *)
Coalesced(m, X) ==
    \A p \in X :
        LET k == m.block_order[p]
            buddy == IF p % (2 * block_pages[k]) = 0 THEN p + block_pages[k] ELSE p - block_pages[k]
        IN  m.block_state[p] = "FREE" /\ k < MaxOrder /\ buddy \in X =>
                ~FreeBlock(m, buddy, k)

(* pmm_free_pages, which meminfo reports, is the number of free pages. *)
FreePagesExact(m, X) == m.free_pages = Cardinality(ClassOf(m, X, "FREE"))

(* The lists, the owners, the states and the count of free pages tell one  *)
(* story, and free memory is in blocks as large as can be: through every   *)
(* sequence of alloc_block, free_block and reserve_page.                   *)
AllocatorExact ==
    /\ pmm.free_pages \in 0..block_pages[MaxOrder]
    /\ BlocksTile(pmm, Managed(pmm)) /\ ListsExact(pmm, Managed(pmm))
    /\ Coalesced(pmm, Managed(pmm)) /\ FreePagesExact(pmm, Managed(pmm))

(* pmm_reserve_range leaves no page that its range touches on a free list, *)
(* whatever its alignment, also when base + size overflows.                *)
RangeIsCovered ==
    \A base \in RangeBase, size \in RangeSize :
        LET after == reserve_range(pmm, base, size)
        IN  \A p \in Managed(pmm) :
                /\ size > 0 /\ pmm.base + p * PageSize < base + size
                /\ base < pmm.base + (p + 1) * PageSize
                => after.block_state[after.page_owner[p]] # "FREE"

=============================================================================
