----------------------------- MODULE SchedFair ------------------------------
(***************************************************************************)
(* The CFS policy of the scheduler for tasks that kmain creates and that   *)
(* never block, with every vruntime kept relative to the smallest one in   *)
(* use.  Choosing the next task compares vruntimes only with one another,  *)
(* so the shift loses nothing and leaves finitely many states: liveness is *)
(* checked on this module.  Sched implements it.                           *)
(***************************************************************************)
EXTENDS Integers, FiniteSets, FiniteSetsExt

CONSTANT Task   \* task slots 0, 1, ...; tids grow with the slot

VARIABLES
    live,      \* "ABSENT", "READY", "RUNNING" or "EXITED"
    lag,       \* vruntime above the smallest runnable one, else 0
    booted     \* kmain is in its scheduling loop

fairVars == <<live, lag, booted>>

Alive(l) == {t \in Task : l[t] \in {"READY", "RUNNING"}}

(* Vruntimes v relative to the smallest one of the tasks in U. *)
Rebase(v, U) ==
    [t \in Task |-> IF t \in U THEN v[t] - Min({v[u] : u \in U}) ELSE 0]

FairInit ==
    /\ live = [t \in Task |-> "ABSENT"]
    /\ lag = [t \in Task |-> 0]
    /\ booted = FALSE

(* kmain creates a task, which starts level with the others. *)
Birth(t) ==
    /\ ~booted
    /\ live[t] = "ABSENT" /\ \A s \in Task : s < t => live[s] # "ABSENT"
    /\ live' = [live EXCEPT ![t] = "READY"]
    /\ UNCHANGED <<lag, booted>>

Boot ==
    /\ ~booted /\ Alive(live) # {}
    /\ booted' = TRUE
    /\ UNCHANGED <<live, lag>>

(* sched_run: the READY task of least vruntime, then least tid. *)
Least(t) ==
    \A s \in Task : live[s] = "READY" =>
        lag[t] < lag[s] \/ (lag[t] = lag[s] /\ t <= s)

Pick(t) ==
    /\ booted
    /\ \A s \in Task : live[s] # "RUNNING"
    /\ live[t] = "READY" /\ Least(t)
    /\ live' = [live EXCEPT ![t] = "RUNNING"]
    /\ UNCHANGED <<lag, booted>>

(* Mutant: the tick is charged to nobody. *)
ChargeNobody(t) ==
    /\ live[t] = "RUNNING"
    /\ live' = [live EXCEPT ![t] = "READY"]
    /\ UNCHANGED <<lag, booted>>

(* The timer charges the running task one tick and takes the CPU from it. *)
Charge(t) ==
    /\ live[t] = "RUNNING"
    /\ live' = [live EXCEPT ![t] = "READY"]
    /\ lag' = Rebase([lag EXCEPT ![t] = @ + 1], Alive(live))
    /\ UNCHANGED booted

(* sched_yield leaves the vruntime as it is. *)
GiveUp(t) ==
    /\ live[t] = "RUNNING"
    /\ live' = [live EXCEPT ![t] = "READY"]
    /\ UNCHANGED <<lag, booted>>

(* sched_task_exit; the idle task, slot 0, does not end. *)
End(t) ==
    /\ live[t] = "RUNNING" /\ t # 0
    /\ live' = [live EXCEPT ![t] = "EXITED"]
    /\ lag' = Rebase(lag, Alive(live) \ {t})
    /\ UNCHANGED booted

FairNext ==
    \/ \E t \in Task : Birth(t) \/ Pick(t) \/ Charge(t) \/ GiveUp(t) \/ End(t)
    \/ Boot

FairSafety == FairInit /\ [][FairNext]_fairVars

(* kmain reaches its loop and keeps calling sched_run; and the timer,      *)
(* which is not synchronised with any task, does not miss a task that is   *)
(* on the CPU again and again.                                             *)
Fairness ==
    /\ WF_fairVars(Boot)
    /\ WF_fairVars(\E t \in Task : Pick(t))
    /\ \A t \in Task : SF_fairVars(Charge(t))

FairSpec == FairSafety /\ Fairness

-----------------------------------------------------------------------------

(* sched_run starves nobody: every READY task gets the CPU, although a     *)
(* task that yields keeps its vruntime and may be picked again and again   *)
(* until a tick is charged to it.                                          *)
NoStarvation ==
    \A t \in Task : live[t] = "READY" ~> live[t] = "RUNNING"

=============================================================================
