------------------------------ MODULE Seccomp ------------------------------
(***************************************************************************)
(* The system call policy and its audit ring, kernel/security/seccomp.c.   *)
(* Every operation runs under g_seccomp_lock with interrupts off and is    *)
(* one step.                                                               *)
(***************************************************************************)
EXTENDS Integers

CONSTANTS SyscallNumber,      \* 0..(SYSCALL_MAX_ENTRIES - 1)
          AuditCapacity       \* SECCOMP_AUDIT_CAPACITY

ALLOW == "SECCOMP_ACTION_ALLOW"
LOG == "SECCOMP_ACTION_LOG"
ERRNO == "SECCOMP_ACTION_ERRNO"
UNSET == "SECCOMP_ACTION_UNSET"

PolicyAction == {ALLOW, LOG, ERRNO}
AuditSlot == 0..(AuditCapacity - 1)

ASSUME SeccompAssumption == AuditCapacity \in Nat \ {0}

VARIABLES
    g_seccomp_default_action,
    g_seccomp_overrides,
    g_seccomp_audit_ring,
    g_seccomp_audit_head,
    g_seccomp_audit_size,
    g_seccomp_audit_sequence,
    g_seccomp_audit_total

policyVars == <<g_seccomp_default_action, g_seccomp_overrides>>
auditVars == <<g_seccomp_audit_ring, g_seccomp_audit_head, g_seccomp_audit_size,
               g_seccomp_audit_sequence, g_seccomp_audit_total>>

NoEvent == [sequence |-> 0, tid |-> 0, syscall_number |-> 0, action |-> ALLOW, result |-> 0]

seccomp_init ==
    /\ g_seccomp_default_action = ALLOW
    /\ g_seccomp_overrides = [n \in SyscallNumber |-> UNSET]
    /\ g_seccomp_audit_ring = [i \in AuditSlot |-> NoEvent]
    /\ g_seccomp_audit_head = 0 /\ g_seccomp_audit_size = 0
    /\ g_seccomp_audit_sequence = 0 /\ g_seccomp_audit_total = 0

seccomp_set_default_action(action) ==
    /\ action \in PolicyAction
    /\ g_seccomp_default_action' = action
    /\ UNCHANGED <<g_seccomp_overrides, auditVars>>

seccomp_set_syscall_action(number, action) ==
    /\ number \in SyscallNumber /\ action \in PolicyAction
    /\ g_seccomp_overrides' = [g_seccomp_overrides EXCEPT ![number] = action]
    /\ UNCHANGED <<g_seccomp_default_action, auditVars>>

(* The policy for a number, given the two parts of it. *)
ActionUnder(default, overrides, number) ==
    IF overrides[number] # UNSET THEN overrides[number] ELSE default

(* Mutant: the overrides are ignored. *)
get_default_action(number) == g_seccomp_default_action

seccomp_get_syscall_action(number) ==
    ActionUnder(g_seccomp_default_action, g_seccomp_overrides, number)

(* A full ring gives up its oldest event, the one at the head. *)
next_head(h, n) == IF n = AuditCapacity THEN (h + 1) % AuditCapacity ELSE h

seccomp_audit_record(tid, number, action, result) ==
    LET n == g_seccomp_audit_size
        slot == IF n = AuditCapacity THEN g_seccomp_audit_head
                ELSE (g_seccomp_audit_head + n) % AuditCapacity
    IN  /\ g_seccomp_audit_head' = next_head(g_seccomp_audit_head, n)
        /\ g_seccomp_audit_size' = IF n = AuditCapacity THEN n ELSE n + 1
        /\ g_seccomp_audit_sequence' = g_seccomp_audit_sequence + 1
        /\ g_seccomp_audit_ring' = [g_seccomp_audit_ring EXCEPT ![slot] =
              [sequence |-> g_seccomp_audit_sequence + 1, tid |-> tid,
               syscall_number |-> number, action |-> action, result |-> result]]
        /\ g_seccomp_audit_total' = g_seccomp_audit_total + 1
        /\ UNCHANGED policyVars

(* The event that seccomp_audit_latest copies, in a ring that has one. *)
seccomp_audit_latest ==
    g_seccomp_audit_ring[(g_seccomp_audit_head + g_seccomp_audit_size - 1) % AuditCapacity]

-----------------------------------------------------------------------------
(* The audit ring holds the latest events, as many as fit, in the order of *)
(* their sequence numbers and without a gap, so that seccomp_audit_latest  *)
(* returns the last one that was recorded: also while the ring wraps and   *)
(* overwrites its oldest event (seccomp_audit_record).                     *)
AuditRecent ==
    /\ g_seccomp_audit_total = g_seccomp_audit_sequence
    /\ g_seccomp_audit_size \in 0..AuditCapacity
    /\ g_seccomp_audit_size <= g_seccomp_audit_sequence
    /\ g_seccomp_audit_size < AuditCapacity => g_seccomp_audit_size = g_seccomp_audit_sequence
    /\ \A i \in 1..g_seccomp_audit_size :
          g_seccomp_audit_ring[(g_seccomp_audit_head + i - 1) % AuditCapacity].sequence
              = g_seccomp_audit_sequence - g_seccomp_audit_size + i

=============================================================================
