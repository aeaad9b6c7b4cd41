----------------------------- MODULE WorkQueue -----------------------------
(***************************************************************************)
(* Work queues, kernel/sched/workqueue.c, composed with the scheduler: the *)
(* wait queue, the CPU and preemption are those of SchedAbs.  Tasks that   *)
(* call workqueue_submit share the queue with tasks that loop over         *)
(* workqueue_execute_one; each call either blocks when the queue is empty  *)
(* or returns at once (block_if_empty).                                    *)
(*                                                                         *)
(* A section under queue->lock is one step: the lock does not mask         *)
(* interrupts, but a task preempted inside only makes the others spin.     *)
(* sched_wait_queue_wait fails only outside a task or on a full wait       *)
(* queue, and a wait queue has a place for every task.  The 64-bit counts  *)
(* of submitted and completed items only grow; the model keeps their       *)
(* difference.                                                             *)
(***************************************************************************)
EXTENDS Ring, FiniteSets, Nil

CONSTANTS Worker, Submitter,
          Item,       \* func and arg of a work item
          WqCapacity    \* WORKQUEUE_CAPACITY

Task == Worker \cup Submitter
WqIndex == 0..(WqCapacity - 1)

ASSUME WorkQueueAssumption ==
    /\ Worker \cap Submitter = {}
    /\ IsFiniteSet(Worker)
    /\ WqCapacity \in Nat \ {0}
    /\ NONE \notin Item

VARIABLES
    items, wq_head, wq_tail, size,   \* the ring of work_queue_t
    unfinished,                      \* submitted - completed
    status, waiters,           \* the scheduler, with queue->waiters
    wpc, item,                 \* each worker: position and local item
    subpc                        \* each submitter: position

wqVars == <<items, wq_head, wq_tail, size, unfinished, status, waiters, wpc, item, subpc>>
ring == <<items, wq_head, wq_tail, size>>
sched == <<status, waiters>>

Sched == INSTANCE SchedAbs WITH WaitQ <- {"waiters"}

(* workqueue_init, and tasks that were created and wait for the CPU. *)
WqInit ==
    /\ items = [i \in WqIndex |-> NONE]
    /\ wq_head = 0
    /\ wq_tail = 0
    /\ size = 0
    /\ unfinished = 0
    /\ status = [t \in Task |-> "READY"]
    /\ waiters = [q \in {"waiters"} |-> <<>>]
    /\ wpc = [w \in Worker |-> "pop"]
    /\ item = [w \in Worker |-> NONE]
    /\ subpc = [s \in Submitter |-> "submit"]

Running(t) == status[t] = "RUNNING"

-----------------------------------------------------------------------------
(* workqueue_submit. *)

(* Mutant: the tail does not move. *)
SubmitInPlace(s) ==
    /\ Running(s)
    /\ subpc[s] = "submit"
    /\ \E x \in Item :
         IF size < WqCapacity
         THEN /\ items' = [items EXCEPT ![wq_tail] = x]
              /\ size' = size + 1
              /\ unfinished' = unfinished + 1
              /\ subpc' = [subpc EXCEPT ![s] = "wake"]
         ELSE UNCHANGED <<items, size, unfinished, subpc>>
    /\ UNCHANGED <<wq_head, wq_tail, sched, wpc, item>>

(* The item is stored under the lock, or the call returns 0. *)
Submit(s) ==
    /\ Running(s)
    /\ subpc[s] = "submit"
    /\ \E x \in Item :
         IF size < WqCapacity
         THEN /\ items' = [items EXCEPT ![wq_tail] = x]
              /\ wq_tail' = (wq_tail + 1) % WqCapacity
              /\ size' = size + 1
              /\ unfinished' = unfinished + 1
              /\ subpc' = [subpc EXCEPT ![s] = "wake"]
         ELSE UNCHANGED <<items, wq_tail, size, unfinished, subpc>>
    /\ UNCHANGED <<wq_head, sched, wpc, item>>

(* Mutant: nobody is woken. *)
WakeNobody(s) ==
    /\ Running(s)
    /\ subpc[s] = "wake"
    /\ subpc' = [subpc EXCEPT ![s] = "submit"]
    /\ UNCHANGED <<ring, unfinished, sched, wpc, item>>

(* sched_wait_queue_wake_one, after the lock was dropped. *)
Wake(s) ==
    /\ Running(s)
    /\ subpc[s] = "wake"
    /\ subpc' = [subpc EXCEPT ![s] = "submit"]
    /\ IF waiters["waiters"] = <<>> THEN UNCHANGED sched ELSE Sched!WakeHead("waiters")
    /\ UNCHANGED <<ring, unfinished, wpc, item>>

-----------------------------------------------------------------------------
(* workqueue_execute_one, called in a loop. *)

(* workqueue_pop_locked; without an item a worker returns or goes to wait. *)
Pop(w) ==
    /\ Running(w)
    /\ wpc[w] = "pop"
    /\ IF size > 0
       THEN /\ item' = [item EXCEPT ![w] = items[wq_head]]
            /\ wq_head' = (wq_head + 1) % WqCapacity
            /\ size' = size - 1
            /\ wpc' = [wpc EXCEPT ![w] = "run"]
       ELSE /\ \E block_if_empty \in BOOLEAN :
                 wpc' = [wpc EXCEPT ![w] = IF block_if_empty THEN "wait" ELSE "pop"]
            /\ UNCHANGED <<item, wq_head, size>>
    /\ UNCHANGED <<items, wq_tail, unfinished, sched, subpc>>

(* sched_wait_queue_wait: the task sleeps, and pops again when woken. *)
Wait(w) ==
    /\ wpc[w] = "wait"
    /\ Sched!Block(w, "waiters")
    /\ wpc' = [wpc EXCEPT ![w] = "pop"]
    /\ UNCHANGED <<ring, unfinished, item, subpc>>

(* item.func(item.arg) returns. *)
Run(w) ==
    /\ Running(w)
    /\ wpc[w] = "run"
    /\ item' = [item EXCEPT ![w] = NONE]
    /\ wpc' = [wpc EXCEPT ![w] = "count"]
    /\ UNCHANGED <<ring, unfinished, sched, subpc>>

(* Mutant: the completed item is not counted. *)
CountSkipped(w) ==
    /\ Running(w)
    /\ wpc[w] = "count"
    /\ wpc' = [wpc EXCEPT ![w] = "pop"]
    /\ UNCHANGED <<ring, unfinished, sched, item, subpc>>

Count(w) ==
    /\ Running(w)
    /\ wpc[w] = "count"
    /\ unfinished' = unfinished - 1
    /\ wpc' = [wpc EXCEPT ![w] = "pop"]
    /\ UNCHANGED <<ring, sched, item, subpc>>

-----------------------------------------------------------------------------
WorkerStep(w) == Pop(w) \/ Wait(w) \/ Run(w) \/ Count(w)

(* The CPU is given to a ready task, and taken away by the timer. *)
Dispatch(t) == Sched!Dispatch(t) /\ UNCHANGED <<ring, unfinished, wpc, item, subpc>>
Preempt(t) == Sched!Release(t) /\ UNCHANGED <<ring, unfinished, wpc, item, subpc>>

WqNext ==
    \/ \E s \in Submitter : Submit(s) \/ Wake(s)
    \/ \E w \in Worker : WorkerStep(w)
    \/ \E t \in Task : Dispatch(t) \/ Preempt(t)

WqSpec == WqInit /\ [][WqNext]_wqVars

(* The scheduler starves no task, and a task that gets the CPU again and   *)
(* again makes progress.  Nobody is obliged to submit.                     *)
WqFairness ==
    /\ \A t \in Task : SF_wqVars(Dispatch(t)) /\ WF_wqVars(Preempt(t))
    /\ \A w \in Worker : SF_wqVars(WorkerStep(w))
    /\ \A s \in Submitter : SF_wqVars(Wake(s))

WqFairSpec == WqSpec /\ WqFairness

-----------------------------------------------------------------------------
(* Properties. *)

(* The variables have their types; size never exceeds the ring. *)
WqTypeOK ==
    /\ items \in [WqIndex -> Item \cup {NONE}]
    /\ wq_head \in WqIndex
    /\ wq_tail \in WqIndex
    /\ size \in 0..WqCapacity
    /\ unfinished \in Nat
    /\ status \in [Task -> {"READY", "RUNNING", "BLOCKED"}]
    /\ waiters \in [{"waiters"} -> Seq(Worker)]
    /\ wpc \in [Worker -> {"pop", "wait", "run", "count"}]
    /\ item \in [Worker -> Item \cup {NONE}]
    /\ subpc \in [Submitter -> {"submit", "wake"}]

(* The ring, read from head, is the queue of Fifo: whatever the interleaving *)
(* of submitters and workers, items come out once each, in the order they    *)
(* went in, and none is overwritten (workqueue_submit, workqueue_pop_locked).*)
Queued == Contents(items, wq_head, size, WqCapacity)

Items == INSTANCE Fifo WITH Queue <- {"items"}, Element <- Item, Taker <- Worker,
                          Capacity <- WqCapacity,
                          queue <- [q \in {"items"} |-> Queued], held <- item
ImplementsFifo == Items!FifoSpec

(* workqueue_submitted - workqueue_completed is what is queued plus what a   *)
(* worker popped and has not counted yet.                                    *)
Busy == {w \in Worker : wpc[w] \in {"run", "count"}}
CountsAddUp == unfinished = size + Cardinality(Busy)

(* The ring is in order, and a worker holds an item while it runs it: with *)
(* TypeOK and CountsAddUp, the inductive invariant behind the refinement.   *)
RingInv ==
    /\ TailAgrees(wq_head, size, wq_tail, WqCapacity)
    /\ \A i \in 1..size : items[(wq_head + i - 1) % WqCapacity] \in Item
    /\ \A w \in Worker : item[w] # NONE <=> wpc[w] = "run"

(* Every item accepted by workqueue_submit is popped by a worker. *)
EveryItemRuns == \A h \in WqIndex : (size > 0 /\ wq_head = h) ~> (wq_head # h)

(* The window of workqueue_execute_one: a worker has seen the queue empty,   *)
(* is not on the wait queue yet, and a submitter is about to wake nobody.    *)
Window == /\ waiters["waiters"] = <<>>
          /\ \E s \in Submitter : subpc[s] = "wake"
          /\ \E w \in Worker : wpc[w] = "wait"

(* The window is the only way a wakeup is lost: in a run that never enters   *)
(* it every item is popped, also when all workers block.                     *)
OnlyWindowLosesWakes == []~Window => EveryItemRuns

=============================================================================
