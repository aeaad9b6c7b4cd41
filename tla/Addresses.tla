----------------------------- MODULE Addresses ------------------------------
(* The size of the address space, in bytes and in pages. *)
EXTENDS Integers

CONSTANTS PageSize,   \* MM_PAGE_SIZE, in the model's bytes
          PageEnd     \* 2^64 / MM_PAGE_SIZE

ASSUME AddressAssumption == PageSize \in Nat \ {0} /\ PageEnd \in Nat \ {0}

AddressEnd == PageEnd * PageSize      \* 2^64
Address == 0..(AddressEnd - 1)

=============================================================================
