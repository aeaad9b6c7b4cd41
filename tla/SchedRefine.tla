---------------------------- MODULE SchedRefine -----------------------------
(***************************************************************************)
(* Sched implements SchedAbs, what callers of the scheduler rely on, and,  *)
(* for tasks that kmain creates and that never block, the CFS policy       *)
(* SchedFair.                                                              *)
(***************************************************************************)
EXTENDS Sched

(* A slot reserved by a creator is not yet a blocked task. *)
StatusMap ==
    [t \in Task |-> IF \E c \in Task \cup {NONE} : creating[c] = t
                    THEN "NEW" ELSE state[t]]

Abs == INSTANCE SchedAbs WITH status <- StatusMap, waiters <- waitq

LiveMap ==
    [t \in Task |-> IF state[t] \in {"UNUSED", "BLOCKED"}
                    THEN "ABSENT" ELSE state[t]]
LagMap ==
    LET Least == CHOOSE v \in {vruntime[s] : s \in Runnable} :
                   \A s \in Runnable : v <= vruntime[s]
    IN  [t \in Task |-> IF t \in Runnable THEN vruntime[t] - Least ELSE 0]

Fair == INSTANCE SchedFair WITH live <- LiveMap, lag <- LagMap,
                                booted <- ~booting

(* Seen by its callers the scheduler is SchedAbs: yields and ticks always  *)
(* give up the CPU, and a wake on a nonempty queue always makes the oldest *)
(* waiter runnable; the capacity, rollback and stale-entry branches of     *)
(* sched.c are invisible.                                                  *)
ImplementsAbs == Abs!AbsSpec

=============================================================================
