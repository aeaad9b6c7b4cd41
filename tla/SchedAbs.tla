------------------------------ MODULE SchedAbs ------------------------------
(***************************************************************************)
(* What the scheduler promises the code that calls it: one CPU, tasks that *)
(* are born, run, block on a first-in first-out wait queue, are woken in   *)
(* that order and end.  There is no ready ring, no capacity, no rollback   *)
(* and no stale entry here; Sched is shown to implement this module.       *)
(***************************************************************************)
EXTENDS Integers, Sequences

CONSTANTS Task, WaitQ

VARIABLES
    status,    \* "NEW" while the creator has not published the task
    waiters    \* tasks blocked on each wait queue, oldest first

absVars == <<status, waiters>>

Statuses == {"UNUSED", "NEW", "READY", "RUNNING", "BLOCKED", "EXITED"}

AbsInit ==
    /\ status = [t \in Task |-> "UNUSED"]
    /\ waiters = [q \in WaitQ |-> <<>>]

Become(t, from, to) ==
    /\ status[t] = from
    /\ status' = [status EXCEPT ![t] = to]

Reserve(t) == Become(t, "UNUSED", "NEW") /\ UNCHANGED waiters
Publish(t) == Become(t, "NEW", "READY") /\ UNCHANGED waiters
Discard(t) == Become(t, "NEW", "UNUSED") /\ UNCHANGED waiters

(* Only a free CPU is given to a task. *)
Dispatch(t) ==
    /\ \A s \in Task : status[s] # "RUNNING"
    /\ Become(t, "READY", "RUNNING")
    /\ UNCHANGED waiters

Release(t) == Become(t, "RUNNING", "READY") /\ UNCHANGED waiters
Finish(t) == Become(t, "RUNNING", "EXITED") /\ UNCHANGED waiters

Block(t, q) ==
    /\ Become(t, "RUNNING", "BLOCKED")
    /\ waiters' = [waiters EXCEPT ![q] = Append(@, t)]

(* A wake takes the oldest waiter and makes it runnable. *)
WakeHead(q) ==
    /\ waiters[q] # <<>>
    /\ Become(Head(waiters[q]), "BLOCKED", "READY")
    /\ waiters' = [waiters EXCEPT ![q] = Tail(@)]

WakeEvery(q) ==
    /\ status' = [t \in Task |->
                    IF \E i \in 1..Len(waiters[q]) : waiters[q][i] = t
                    THEN "READY" ELSE status[t]]
    /\ waiters' = [waiters EXCEPT ![q] = <<>>]

AbsNext ==
    \/ \E t \in Task : \/ Reserve(t) \/ Publish(t) \/ Discard(t)
                       \/ Dispatch(t) \/ Release(t) \/ Finish(t)
    \/ \E t \in Task, q \in WaitQ : Block(t, q)
    \/ \E q \in WaitQ : WakeHead(q) \/ WakeEvery(q)

AbsSpec == AbsInit /\ [][AbsNext]_absVars

=============================================================================
