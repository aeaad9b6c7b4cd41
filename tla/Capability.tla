----------------------------- MODULE Capability -----------------------------
(***************************************************************************)
(* The capability table, kernel/security/capability.c.  A capability       *)
(* identifier is the index of its slot plus one; slots are never freed.  A *)
(* rights mask is the set of its bits.  Every operation runs under         *)
(* g_capability_lock with interrupts off and is one step.                  *)
(***************************************************************************)
EXTENDS Integers, Nil

CONSTANTS MaxEntries,   \* CAPABILITY_MAX_ENTRIES
          Tid,          \* owner and caller identifiers; 0 is the bootstrap context
          Object,       \* object identifiers
          Right         \* bits of a rights mask other than CAP_RIGHT_TRANSFER

CapabilityId == 1..MaxEntries
TRANSFER == "CAP_RIGHT_TRANSFER"
Rights == SUBSET (Right \cup {TRANSFER}) \ {{}}
Slot == [owner : Tid, object : Object, rights : Rights]

ASSUME CapabilityAssumption ==
    /\ MaxEntries \in Nat
    /\ Tid \subseteq Nat /\ 0 \in Tid
    /\ NONE \notin Slot

VARIABLES
    slots,    \* g_capability_slots
    origin    \* history: the slot each capability was copied from, or 0

capVars == <<slots, origin>>

(* capability_init *)
CapabilityInit ==
    /\ slots = [i \in CapabilityId |-> NONE]
    /\ origin = [i \in CapabilityId |-> 0]

(* The slot that the allocation loops find. *)
FirstFree(i) ==
    /\ slots[i] = NONE
    /\ \A j \in CapabilityId : j < i => slots[j] # NONE

Fill(i, slot, from) ==
    /\ slots' = [slots EXCEPT ![i] = slot]
    /\ origin' = [origin EXCEPT ![i] = from]

(* capability_create; with no free slot it returns -2. *)
CapabilityCreate(owner, object, rights) ==
    \E i \in CapabilityId :
        /\ FirstFree(i)
        /\ Fill(i, [owner |-> owner, object |-> object, rights |-> rights], 0)

(* Mutant: one common bit is enough. *)
RightsAllowSome(current, requested) == current \cap requested # {}

(* capability_rights_allow *)
RightsAllow(current, requested) == requested \subseteq current

(* capability_validate_transfer returns 0. *)
CanTransfer(id, owner, mask) ==
    /\ id \in CapabilityId /\ mask # {}
    /\ slots[id] # NONE
    /\ slots[id].owner = owner
    /\ TRANSFER \in slots[id].rights
    /\ RightsAllow(slots[id].rights, mask)

(* capability_copy_for_owner: it tests again what validate tested, and     *)
(* changes nothing when a test fails or no slot is free.                   *)
CopyForOwner(id, owner, mask, target) ==
    IF CanTransfer(id, owner, mask) /\ \E i \in CapabilityId : FirstFree(i)
    THEN \E i \in CapabilityId :
           /\ FirstFree(i)
           /\ Fill(i, [owner |-> target, object |-> slots[id].object, rights |-> mask], id)
    ELSE UNCHANGED capVars

-----------------------------------------------------------------------------
CapabilityTypeOK ==
    /\ slots \in [CapabilityId -> Slot \cup {NONE}]
    /\ origin \in [CapabilityId -> 0..MaxEntries]

(* A capability that was received is never worth more than the one it was  *)
(* copied from, which was transferable and is still what it was: no        *)
(* sequence of creations and transfers amplifies a right on an object      *)
(* (capability_copy_for_owner).                                            *)
NoAmplification ==
    \A i \in CapabilityId : origin[i] # 0 =>
        /\ origin[i] < i
        /\ slots[i] # NONE /\ slots[origin[i]] # NONE
        /\ slots[i].object = slots[origin[i]].object
        /\ slots[i].rights \subseteq slots[origin[i]].rights
        /\ TRANSFER \in slots[origin[i]].rights

(* Slots are filled from the first one on, so a copy lies behind its       *)
(* source: this makes NoAmplification inductive.                           *)
CapabilityInv ==
    /\ CapabilityTypeOK
    /\ NoAmplification
    /\ \A i, j \in CapabilityId : j < i /\ slots[i] # NONE => slots[j] # NONE

=============================================================================
