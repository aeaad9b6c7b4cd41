------------------------------ MODULE Uaccess ------------------------------
(***************************************************************************)
(* Checks of user memory, kernel/mm/uaccess.c.  Here addresses are bytes;  *)
(* a page has PageSize of them, and sums wrap at AddressEnd.               *)
(***************************************************************************)
EXTENDS PageTable

CONSTANTS UserMax,        \* UACCESS_USER_MAX_VA
          UserAddress,    \* arguments of the copy functions
          UserSize

ASSUME UaccessAssumption ==
    /\ UserMax \in 0..(AddressEnd - 1)
    /\ UserAddress \cup UserSize \subseteq 0..(AddressEnd - 1)
    /\ NONE \notin Int

(* Mutant: the sum is not tested for wrap-around. *)
user_range_end_wraps(user_addr, size) ==
    LET end_addr == (user_addr + size - 1) % AddressEnd
    IN  IF end_addr > UserMax THEN NONE ELSE end_addr

(* The last byte of the range, or NONE when it wraps or is out of bounds. *)
user_range_end(user_addr, size) ==
    LET end_addr == (user_addr + size - 1) % AddressEnd
    IN  IF end_addr < user_addr \/ end_addr > UserMax THEN NONE ELSE end_addr

page_allows(v, need) ==
    LET q == vmm_query_mapping(vm, v)
    IN  q # NONE /\ need \subseteq q.flags

(* The copy functions copy when this is true, and else return -1; nothing  *)
(* unmaps a page between the check and the copy, which are in one context. *)
uaccess_validate_range(user_addr, size, require_write) ==
    LET need == IF require_write THEN {U, W} ELSE {U}
        end_addr == user_range_end(user_addr, size)
    IN  \/ size = 0
        \/ /\ user_addr # 0 /\ user_addr <= UserMax
           /\ end_addr # NONE
           /\ \A v \in (user_addr \div PageSize)..(end_addr \div PageSize) : page_allows(v, need)

-----------------------------------------------------------------------------
(* A range passes the check exactly when every byte of it, counted without *)
(* wrapping, lies below the user limit in a page that vmm_query_mapping    *)
(* reports as a user page, and as writable if asked: also for sizes that   *)
(* wrap the address around.  What it reports are the flags of the entry    *)
(* that maps the page; the levels above are not asked                      *)
(* (uaccess_validate_range).                                               *)
UserRangesExact ==
    \A a \in UserAddress, n \in UserSize, w \in BOOLEAN :
        uaccess_validate_range(a, n, w) <=>
            \A b \in a..(a + n - 1) :
                /\ a # 0 /\ b <= UserMax
                /\ page_allows(b \div PageSize, IF w THEN {U, W} ELSE {U})

=============================================================================
