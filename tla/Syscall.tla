------------------------------ MODULE Syscall ------------------------------
(***************************************************************************)
(* System call dispatch, kernel/syscall/syscall.c, with the policy of      *)
(* Seccomp.  A call reads the policy, reads the handler table, runs the    *)
(* handler and records an event in steps of their own: between them, and   *)
(* inside a handler that yields, other tasks make calls and change the     *)
(* policy.                                                                 *)
(***************************************************************************)
EXTENDS Seccomp, FiniteSets

CONSTANTS Caller,          \* tids; 0 is the boot context
          UserNumber,      \* numbers callers pass, valid or not
          MaxCalls,        \* bound: calls that may begin
          MaxChanges,      \* bound: changes of the policy
          NoCall

ASSUME SyscallAssumption == Caller \subseteq Nat /\ IsFiniteSet(Caller) /\ UserNumber \subseteq Int

SYS_GETTID == 0
SYS_SCHED_YIELD == 1
SYS_GETTID_USER == 2
ENOSYS == -38
EFAULT == -14
EPERM == -1

CallRecord == [number : UserNumber, action : PolicyAction, result : Int,
               pc : {"policy", "handler", "record", "return"}]

ASSUME NoCallAssumption == NoCall \notin CallRecord

VARIABLES
    g_syscall_table,   \* the numbers that have a handler
    calls,             \* the call each task is in: number, pc, action, result
    seen,              \* history: the policies in force for it since it began
    begun, changes,    \* counters for the bounds
    due                \* history: calls that were denied or are to be logged

syscallVars == <<g_syscall_table, calls, seen, begun, changes, due>>

(* with the three calls of syscall_register *)
syscall_init ==
    /\ seccomp_init
    /\ g_syscall_table = {SYS_GETTID, SYS_SCHED_YIELD, SYS_GETTID_USER} \cap SyscallNumber
    /\ calls = [t \in Caller |-> NoCall]
    /\ seen = [t \in Caller |-> {}]
    /\ begun = 0 /\ changes = 0 /\ due = 0

(* The policy for a number, if it is one that has a policy. *)
InForce(number, default, overrides) ==
    {ActionUnder(default, overrides, n) : n \in {number} \cap SyscallNumber}

(* syscall_dispatch begins; numbers beyond the table return at once. *)
Enter(t, number) ==
    /\ calls[t] = NoCall /\ begun < MaxCalls
    /\ calls' = [calls EXCEPT ![t] =
          [number |-> number, action |-> ALLOW, result |-> ENOSYS,
           pc |-> IF number \in SyscallNumber THEN "policy" ELSE "return"]]
    /\ seen' = [seen EXCEPT ![t] = InForce(number, g_seccomp_default_action, g_seccomp_overrides)]
    /\ begun' = begun + 1
    /\ UNCHANGED <<g_syscall_table, changes, due, policyVars, auditVars>>

(* seccomp_get_syscall_action: a denied call goes straight to its record. *)
ReadPolicy(t) ==
    LET action == seccomp_get_syscall_action(calls[t].number)
    IN  /\ calls[t] # NoCall /\ calls[t].pc = "policy"
        /\ calls' = [calls EXCEPT
                ![t].action = action,
                ![t].pc = IF action = ERRNO THEN "record" ELSE "handler",
                ![t].result = IF action = ERRNO THEN EPERM ELSE @]
        /\ due' = IF action = ALLOW THEN due ELSE due + 1
        /\ UNCHANGED <<g_syscall_table, seen, begun, changes, policyVars, auditVars>>

(* What the handlers return: uaccess_copy_to_user succeeds or not. *)
handler_results(t, number) ==
    IF number \notin g_syscall_table THEN {ENOSYS}
    ELSE IF number = SYS_GETTID THEN {t}
    ELSE IF number = SYS_GETTID_USER THEN {0, EFAULT}
    ELSE {0}

(* Mutant: a handler's event is recorded only if the call is logged now. *)
NextPcNow(t) == IF seccomp_get_syscall_action(calls[t].number) = LOG THEN "record" ELSE "return"

(* The action read before the handler ran decides. *)
NextPc(t) == IF calls[t].action = LOG THEN "record" ELSE "return"

(* The table is read and the handler runs; sys_sched_yield lets others run *)
(* first.                                                                  *)
RunHandler(t) ==
    /\ calls[t] # NoCall /\ calls[t].pc = "handler"
    /\ \E r \in handler_results(t, calls[t].number) :
          calls' = [calls EXCEPT ![t].result = r, ![t].pc = NextPc(t)]
    /\ UNCHANGED <<g_syscall_table, seen, begun, changes, due, policyVars, auditVars>>

Record(t) ==
    /\ calls[t] # NoCall /\ calls[t].pc = "record"
    /\ seccomp_audit_record(t, calls[t].number, calls[t].action, calls[t].result)
    /\ calls' = [calls EXCEPT ![t].pc = "return"]
    /\ UNCHANGED <<g_syscall_table, seen, begun, changes, due>>

Return(t) ==
    /\ calls[t] # NoCall /\ calls[t].pc = "return"
    /\ calls' = [calls EXCEPT ![t] = NoCall]
    /\ seen' = [seen EXCEPT ![t] = {}]
    /\ UNCHANGED <<g_syscall_table, begun, changes, due, policyVars, auditVars>>

(* Any task changes the policy at any time. *)
SetPolicy ==
    /\ changes < MaxChanges /\ changes' = changes + 1
    /\ \E action \in PolicyAction :
          \/ seccomp_set_default_action(action)
          \/ \E number \in SyscallNumber : seccomp_set_syscall_action(number, action)
    /\ seen' = [t \in Caller |->
                  IF calls[t] = NoCall THEN {}
                  ELSE seen[t] \cup InForce(calls[t].number, g_seccomp_default_action',
                                             g_seccomp_overrides')]
    /\ UNCHANGED <<g_syscall_table, calls, begun, due>>

SyscallNext ==
    \/ \E t \in Caller :
          \/ \E number \in UserNumber : Enter(t, number)
          \/ ReadPolicy(t) \/ RunHandler(t) \/ Record(t) \/ Return(t)
    \/ SetPolicy

SyscallSpec == syscall_init /\ [][SyscallNext]_<<policyVars, auditVars, syscallVars>>

-----------------------------------------------------------------------------
InCall == {t \in Caller : calls[t] # NoCall}

(* A call past its policy check follows a policy that was in force at some *)
(* moment since it began, although the policy may have changed by the time *)
(* its handler runs: it fails with EPERM only under SECCOMP_ACTION_ERRNO,  *)
(* and no handler runs for a number that was denied throughout             *)
(* (syscall_dispatch).                                                     *)
JudgedDuringCall ==
    \A t \in InCall : calls[t].pc # "policy" /\ calls[t].number \in SyscallNumber =>
        /\ calls[t].action \in seen[t]
        /\ calls[t].result = EPERM <=> calls[t].action = ERRNO
        /\ calls[t].pc = "handler" => seen[t] # {ERRNO}

(* Calls whose event is still to be recorded. *)
OnTheWay == {t \in InCall : \/ calls[t].pc = "record"
                            \/ calls[t].pc = "handler" /\ calls[t].action = LOG}

(* Nothing is lost and nothing recorded twice: the events recorded are the *)
(* calls that were denied or logged, but for those on their way to the     *)
(* ring; and the latest one carries the action its call was judged by      *)
(* (syscall_dispatch, seccomp_audit_record).                               *)
AuditComplete ==
    /\ due = g_seccomp_audit_total + Cardinality(OnTheWay)
    /\ g_seccomp_audit_size > 0 =>
          /\ seccomp_audit_latest.action # ALLOW
          /\ seccomp_audit_latest.action = ERRNO <=> seccomp_audit_latest.result = EPERM

(* The audit ring holds the latest events without a gap, one for every     *)
(* call that was denied or logged (seccomp_audit_record, syscall_dispatch).*)
AuditExact == AuditRecent /\ AuditComplete

=============================================================================
