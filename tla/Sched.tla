------------------------------- MODULE Sched -------------------------------
(***************************************************************************)
(* The kernel scheduler, kernel/sched/sched.c: the task table, the ready   *)
(* queue, wait queues, CFS accounting, the timer interrupt and the         *)
(* bootstrap loop of kmain.  Every function takes g_sched_lock with        *)
(* interrupts disabled on a single CPU, so its locked section is one step; *)
(* sched_create_kernel_task has three sections and is two actions.         *)
(*                                                                         *)
(* Data abstractions.  g_current_task and g_current_index change together  *)
(* and are one variable, current; NONE stands for the bootstrap task.  The *)
(* order of the ready ring is never read (sched_pick_next_ready scans the  *)
(* task table), so the ring is the number of entries each task has in it.  *)
(***************************************************************************)
EXTENDS Integers, Sequences, FiniteSets

CONSTANTS MaxTasks,   \* SCHED_MAX_TASKS, also the capacity of every queue
          WaitQ,      \* the wait queues of the kernel
          Creators,   \* the tasks whose code creates further tasks
          NONE,       \* SCHED_TASK_INDEX_NONE: the bootstrap task runs
          MaxTid,     \* bound: tids handed out
          MaxTicks    \* bound: timer interrupts that charge a task

Task == 0..(MaxTasks - 1)

(* kmain creates the idle task first: it gets slot 0 or the kernel panics. *)
Idle == 0

ASSUME ConstantsAssumption ==
    /\ MaxTasks \in Nat \ {0}
    /\ NONE \notin Task
    /\ Creators \subseteq Task \ {Idle}
    /\ MaxTid \in Nat
    /\ MaxTicks \in Nat

States == {"UNUSED", "READY", "RUNNING", "BLOCKED", "EXITED"}

VARIABLES
    state,         \* g_tasks[i].state
    tid,           \* g_tasks[i].tid
    vruntime,      \* g_tasks[i].vruntime
    ready,         \* entries of task i in g_ready_queue
    waitq,         \* contents of each wait_queue_t, oldest first
    current,       \* g_current_task / g_current_index
    need_resched,  \* g_need_resched
    min_vruntime,  \* g_cfs_min_vruntime
    next_tid,      \* g_next_tid
    ticks,         \* ticks charged to some task so far
    creating,      \* slot a creator holds between the locked sections
    booting,       \* kmain has not entered its scheduling loop
    idle_hlt       \* the idle task is at the hlt of its loop

vars == <<state, tid, vruntime, ready, waitq, current, need_resched,
          min_vruntime, next_tid, ticks, creating, booting, idle_hlt>>

-----------------------------------------------------------------------------
(* Helpers. *)

ReadyTasks == {t \in Task : state[t] = "READY"}

(* g_ready_size *)
ReadySize == Cardinality({p \in Task \X (1..MaxTasks) : p[2] <= ready[p[1]]})

(* Mutant: one slot of the ring is kept free. *)
ReadyFullShort == ReadySize >= MaxTasks - 1

ReadyFull == ReadySize >= MaxTasks

(* sched_enqueue_task on success: one more entry in the ring. *)
Enqueued(t) == [ready EXCEPT ![t] = @ + 1]

(* sched_alloc_task_slot: the first slot never used or given back. *)
FreeSlot(i) == state[i] = "UNUSED" /\ \A j \in Task : j < i => state[j] # "UNUSED"

(* Mutants: ties go to the newer task; vruntime is ignored. *)
RunsBeforeNewest(s, t) ==
    \/ vruntime[s] < vruntime[t]
    \/ vruntime[s] = vruntime[t] /\ tid[s] >= tid[t]
RunsBeforeByTid(s, t) == tid[s] <= tid[t]

(* The order of sched_pick_next_ready: vruntime first, then tid. *)
RunsBefore(s, t) ==
    \/ vruntime[s] < vruntime[t]
    \/ vruntime[s] = vruntime[t] /\ tid[s] <= tid[t]

IsBest(t) == t \in ReadyTasks /\ \A s \in ReadyTasks : RunsBefore(t, s)

(* Mutant: the entry of the chosen task stays. *)
RebuiltKeepsBest(best) ==
    [t \in Task |-> IF state[t] # "READY" THEN 0 ELSE ready[t]]

(* The ring rebuilt by sched_pick_next_ready: stale entries and those of   *)
(* the chosen task are dropped.                                            *)
Rebuilt(best) ==
    [t \in Task |-> IF t = best \/ state[t] # "READY" THEN 0 ELSE ready[t]]

(* A running task that is in its own code: neither halted in the idle loop *)
(* nor between the sections of sched_create_kernel_task.                   *)
InOwnCode(t) ==
    /\ current = t /\ t \in Task
    /\ creating[t] = NONE
    /\ ~(t = Idle /\ idle_hlt)

Init ==
    /\ state = [t \in Task |-> "UNUSED"]
    /\ tid = [t \in Task |-> 0]
    /\ vruntime = [t \in Task |-> 0]
    /\ ready = [t \in Task |-> 0]
    /\ waitq = [q \in WaitQ |-> <<>>]
    /\ current = NONE
    /\ need_resched = FALSE
    /\ min_vruntime = 0
    /\ next_tid = 1
    /\ ticks = 0
    /\ creating = [c \in Task \cup {NONE} |-> NONE]
    /\ booting = TRUE
    /\ idle_hlt = FALSE

-----------------------------------------------------------------------------
(* sched_create_kernel_task. *)

MayCreate(c) ==
    /\ current = c /\ creating[c] = NONE
    /\ \/ c = NONE /\ booting
       \/ c \in Creators

(* First section: reserve the slot.  With no free slot it returns NULL. *)
CreateReserve(c) ==
    /\ MayCreate(c)
    /\ next_tid <= MaxTid
    /\ \E i \in Task :
         /\ FreeSlot(i)
         /\ state' = [state EXCEPT ![i] = "BLOCKED"]
         /\ tid' = [tid EXCEPT ![i] = next_tid]
         /\ vruntime' = [vruntime EXCEPT ![i] = min_vruntime]
         /\ creating' = [creating EXCEPT ![c] = i]
    /\ next_tid' = next_tid + 1
    /\ UNCHANGED <<ready, waitq, current, need_resched, min_vruntime, ticks,
                   booting, idle_hlt>>

(* sched_reset_task *)
Reset(i) ==
    /\ state' = [state EXCEPT ![i] = "UNUSED"]
    /\ tid' = [tid EXCEPT ![i] = 0]
    /\ vruntime' = [vruntime EXCEPT ![i] = 0]

(* The stack page was allocated: second section, ready or rolled back. *)
CreateFinish(c) ==
    /\ current = c /\ creating[c] # NONE
    /\ LET i == creating[c] IN
         IF ReadyFull
         THEN Reset(i) /\ UNCHANGED ready
         ELSE /\ state' = [state EXCEPT ![i] = "READY"]
              /\ ready' = Enqueued(i)
              /\ UNCHANGED <<tid, vruntime>>
    /\ creating' = [creating EXCEPT ![c] = NONE]
    /\ UNCHANGED <<waitq, current, need_resched, min_vruntime, next_tid,
                   ticks, booting, idle_hlt>>

(* pmm_alloc_page failed: the slot is given back.  kmain panics when this  *)
(* happens to the idle task, so slot Idle never takes this path.           *)
CreateAbort(c) ==
    /\ current = c /\ creating[c] \notin {NONE, Idle}
    /\ Reset(creating[c])
    /\ creating' = [creating EXCEPT ![c] = NONE]
    /\ UNCHANGED <<ready, waitq, current, need_resched, min_vruntime,
                   next_tid, ticks, booting, idle_hlt>>

(* kmain enters its final loop once the idle task exists. *)
EnterLoop ==
    /\ booting /\ current = NONE /\ creating[NONE] = NONE
    /\ state[Idle] # "UNUSED"
    /\ booting' = FALSE
    /\ UNCHANGED <<state, tid, vruntime, ready, waitq, current, need_resched,
                   min_vruntime, next_tid, ticks, creating, idle_hlt>>

-----------------------------------------------------------------------------
(* Dispatching. *)

(* sched_run from the loop of kmain, with a task to run. *)
Run ==
    /\ current = NONE /\ ~booting
    /\ \E t \in Task :
         /\ IsBest(t)
         /\ ready' = Rebuilt(t)
         /\ state' = [state EXCEPT ![t] = "RUNNING"]
         /\ current' = t
    /\ need_resched' = FALSE
    /\ UNCHANGED <<tid, vruntime, waitq, min_vruntime, next_tid, ticks,
                   creating, booting, idle_hlt>>

(* Leave the CPU to the bootstrap task, staying runnable; when the ring is *)
(* full the task keeps the CPU.                                            *)
Requeue(t) ==
    IF ReadyFull
    THEN UNCHANGED <<state, ready, current>>
    ELSE /\ state' = [state EXCEPT ![t] = "READY"]
         /\ ready' = Enqueued(t)
         /\ current' = NONE

(* sched_yield.  The idle loop reaches its hlt when its yield returns. *)
Yield(t) ==
    /\ InOwnCode(t)
    /\ Requeue(t)
    /\ idle_hlt' = (idle_hlt \/ t = Idle)
    /\ UNCHANGED <<tid, vruntime, waitq, need_resched, min_vruntime,
                   next_tid, ticks, creating, booting>>

(* The timer interrupt on a running task: sched_tick, then                 *)
(* sched_preempt_on_tick, with interrupts disabled throughout.  The idle   *)
(* task may be interrupted just before its hlt or in it.                   *)
TickTask(t) ==
    /\ current = t /\ t \in Task
    /\ ticks < MaxTicks
    /\ ticks' = ticks + 1
    /\ vruntime' = [vruntime EXCEPT ![t] = @ + 1]
    /\ min_vruntime' = vruntime[t] + 1
    /\ need_resched' = FALSE
    /\ Requeue(t)
    /\ idle_hlt' \in (IF t = Idle THEN {FALSE, idle_hlt} ELSE {idle_hlt})
    /\ UNCHANGED <<tid, waitq, next_tid, creating, booting>>

(* The timer interrupt on the bootstrap task charges nobody and drops a    *)
(* pending reschedule request.                                             *)
TickBootstrap ==
    /\ current = NONE
    /\ need_resched' = FALSE
    /\ UNCHANGED <<state, tid, vruntime, ready, waitq, current, min_vruntime,
                   next_tid, ticks, creating, booting, idle_hlt>>

(* Another interrupt (the keyboard's) ends the hlt of the idle loop. *)
OtherIrq ==
    /\ current = Idle /\ idle_hlt
    /\ idle_hlt' = FALSE
    /\ UNCHANGED <<state, tid, vruntime, ready, waitq, current, need_resched,
                   min_vruntime, next_tid, ticks, creating, booting>>

(* sched_request_resched *)
RequestResched ==
    /\ need_resched' = TRUE
    /\ UNCHANGED <<state, tid, vruntime, ready, waitq, current, min_vruntime,
                   next_tid, ticks, creating, booting, idle_hlt>>

(* Mutant: the exiting task stays the current one. *)
ExitKeepsCurrent(t) ==
    /\ InOwnCode(t) /\ t # Idle
    /\ state' = [state EXCEPT ![t] = "EXITED"]
    /\ UNCHANGED <<tid, vruntime, ready, waitq, current, need_resched,
                   min_vruntime, next_tid, ticks, creating, booting, idle_hlt>>

(* sched_task_exit: the slot is not given back. *)
Exit(t) ==
    /\ InOwnCode(t) /\ t # Idle
    /\ state' = [state EXCEPT ![t] = "EXITED"]
    /\ current' = NONE
    /\ UNCHANGED <<tid, vruntime, ready, waitq, need_resched, min_vruntime,
                   next_tid, ticks, creating, booting, idle_hlt>>

-----------------------------------------------------------------------------
(* Wait queues. *)

(* Mutant: the task blocks although the queue did not take it. *)
WaitUnqueued(t, q) ==
    /\ InOwnCode(t) /\ t # Idle
    /\ state' = [state EXCEPT ![t] = "BLOCKED"]
    /\ current' = NONE
    /\ UNCHANGED <<tid, vruntime, ready, waitq, need_resched, min_vruntime,
                   next_tid, ticks, creating, booting, idle_hlt>>

(* sched_wait_queue_wait; with the queue full it returns 0 and runs on. *)
Wait(t, q) ==
    /\ InOwnCode(t) /\ t # Idle
    /\ Len(waitq[q]) < MaxTasks
    /\ waitq' = [waitq EXCEPT ![q] = Append(@, t)]
    /\ state' = [state EXCEPT ![t] = "BLOCKED"]
    /\ current' = NONE
    /\ UNCHANGED <<tid, vruntime, ready, need_resched, min_vruntime, next_tid,
                   ticks, creating, booting, idle_hlt>>

(* Positions of w that sched_wake_one_locked would accept. *)
BlockedAt(w) == {i \in 1..Len(w) : state[w[i]] = "BLOCKED"}

(* The code that calls a wake: the bootstrap task or a task in its code. *)
MayWake == current = NONE \/ InOwnCode(current)

(* Mutant: the newest waiter is woken first. *)
WakeOneNewest(q) ==
    /\ MayWake /\ waitq[q] # <<>>
    /\ LET w == waitq[q]
           t == w[Len(w)]
       IN  /\ waitq' = [waitq EXCEPT ![q] = SubSeq(w, 1, Len(w) - 1)]
           /\ state' = [state EXCEPT ![t] = "READY"]
           /\ ready' = Enqueued(t)
    /\ need_resched' = TRUE
    /\ UNCHANGED <<tid, vruntime, current, min_vruntime, next_tid, ticks,
                   creating, booting, idle_hlt>>

(* sched_wake_one_locked: skip entries that are no longer blocked; wake    *)
(* the first blocked one, or put it back at the tail if the ring is full.  *)
WakeOne(q) ==
    LET w == waitq[q] IN
    /\ MayWake
    /\ \/ /\ BlockedAt(w) = {}
          /\ waitq' = [waitq EXCEPT ![q] = <<>>]
          /\ UNCHANGED <<state, ready, need_resched>>
       \/ \E i \in BlockedAt(w) :
            /\ \A j \in BlockedAt(w) : i <= j
            /\ LET rest == SubSeq(w, i + 1, Len(w)) IN
                 IF ReadyFull
                 THEN /\ waitq' = [waitq EXCEPT ![q] = Append(rest, w[i])]
                      /\ UNCHANGED <<state, ready, need_resched>>
                 ELSE /\ waitq' = [waitq EXCEPT ![q] = rest]
                      /\ state' = [state EXCEPT ![w[i]] = "READY"]
                      /\ ready' = Enqueued(w[i])
                      /\ need_resched' = TRUE
    /\ UNCHANGED <<tid, vruntime, current, min_vruntime, next_tid, ticks,
                   creating, booting, idle_hlt>>

(* sched_wait_queue_wake_all: the same under one hold of the lock until no *)
(* entry is left or the ring is full.                                      *)
WakeAll(q) ==
    LET w == waitq[q]
        Reached(k) == {i \in BlockedAt(w) : i <= k}
        Fits(k) == ReadySize + Cardinality(Reached(k)) <= MaxTasks
    IN
    /\ MayWake
    /\ \E n \in 0..Len(w) :
         /\ Fits(n) /\ (n = Len(w) \/ ~Fits(n + 1))
         /\ waitq' = [waitq EXCEPT ![q] =
                        IF n = Len(w) THEN <<>>
                        ELSE Append(SubSeq(w, n + 2, Len(w)), w[n + 1])]
         /\ LET woken == {w[i] : i \in Reached(n)} IN
              /\ state' = [t \in Task |->
                             IF t \in woken THEN "READY" ELSE state[t]]
              /\ ready' = [t \in Task |->
                             IF t \in woken THEN ready[t] + 1 ELSE ready[t]]
              /\ need_resched' = (need_resched \/ woken # {})
    /\ UNCHANGED <<tid, vruntime, current, min_vruntime, next_tid, ticks,
                   creating, booting, idle_hlt>>

-----------------------------------------------------------------------------

Next ==
    \/ \E c \in Task \cup {NONE} :
         CreateReserve(c) \/ CreateFinish(c) \/ CreateAbort(c)
    \/ \E t \in Task : Yield(t) \/ TickTask(t) \/ Exit(t)
    \/ \E t \in Task, q \in WaitQ : Wait(t, q)
    \/ \E q \in WaitQ : WakeOne(q) \/ WakeAll(q)
    \/ EnterLoop \/ Run \/ TickBootstrap \/ OtherIrq \/ RequestResched

Spec == Init /\ [][Next]_vars

-----------------------------------------------------------------------------
(* Properties. *)

(* The scheduler's variables have their types. *)
TypeOK ==
    /\ state \in [Task -> States]
    /\ tid \in [Task -> Nat]
    /\ vruntime \in [Task -> Nat]
    /\ ready \in [Task -> Nat]
    /\ waitq \in [WaitQ -> Seq(Task)]
    /\ current \in Task \cup {NONE}
    /\ need_resched \in BOOLEAN
    /\ min_vruntime \in Nat
    /\ next_tid \in Nat
    /\ ticks \in Nat
    /\ creating \in [Task \cup {NONE} -> Task \cup {NONE}]
    /\ booting \in BOOLEAN
    /\ idle_hlt \in BOOLEAN

(* The ready ring and the state fields, which every operation updates by   *)
(* separate statements, never disagree: the ring holds each READY task     *)
(* exactly once and nothing else.                                          *)
ReadyQueueExact ==
    \A t \in Task : ready[t] = IF state[t] = "READY" THEN 1 ELSE 0

(* No caller of sched_enqueue_task can meet a full ring: while some task   *)
(* is not READY there is room for it.  So the rollback branches of create, *)
(* yield, preemption and wake are never taken.                             *)
EnqueueHasRoom ==
    (\E t \in Task : state[t] # "READY") => ~ReadyFull

(* Where a blocked task is held: a position of a wait queue, or the        *)
(* creator that has not published it yet.                                  *)
WaitPlaces(t) ==
    UNION {{<<q, i>> : i \in {j \in 1..Len(waitq[q]) : waitq[q][j] = t}} :
             q \in WaitQ}
BirthPlaces(t) == {c \in Task \cup {NONE} : creating[c] = t}

(* Every BLOCKED task is held in exactly one place, and every held task is *)
(* BLOCKED: no sleeper is lost, none is woken twice, and the stale entries *)
(* sched_wake_one_locked knows how to skip do not occur.                   *)
BlockedHeldOnce ==
    \A t \in Task :
        Cardinality(WaitPlaces(t)) + Cardinality(BirthPlaces(t)) =
            IF state[t] = "BLOCKED" THEN 1 ELSE 0

(* g_current_task and the state fields agree: the RUNNING task is the      *)
(* current one, so at most one task is RUNNING.                            *)
RunningIsCurrent ==
    \A t \in Task : state[t] = "RUNNING" <=> current = t

(* The vruntimes of runnable tasks differ by at most one tick. *)
Runnable == {t \in Task : state[t] \in {"READY", "RUNNING"}}
LagBounded ==
    \A s, t \in Runnable : vruntime[s] <= vruntime[t] + 1

(* A tick that is charged to a task also takes the CPU from it: the        *)
(* preemption half of the timer interrupt never fails to requeue.          *)
TickPreempts == [][ticks' # ticks => current' = NONE]_vars

(* docs/kernel/boot-sequence.md, step 15: the CPU halts in the idle loop   *)
(* only when no task is runnable.                                          *)
HaltOnlyWhenNothingRunnable ==
    (current = Idle /\ idle_hlt) => ReadyTasks = {}

-----------------------------------------------------------------------------
(* The inductive invariant behind these properties. *)

Born(t) == \E c \in Task \cup {NONE} : creating[c] = t
Queued(t) == \E q \in WaitQ : \E i \in 1..Len(waitq[q]) : waitq[q][i] = t

(* Held tasks are BLOCKED, one place each, and no BLOCKED task is lost. *)
HeldInv ==
    /\ \A t \in Task : Born(t) => state[t] = "BLOCKED" /\ ~Queued(t)
    /\ \A t \in Task : Queued(t) => state[t] = "BLOCKED"
    /\ \A t \in Task : state[t] = "BLOCKED" => Born(t) \/ Queued(t)
    /\ \A c, d \in Task \cup {NONE} :
         creating[c] # NONE /\ creating[c] = creating[d] => c = d
    /\ \A q, r \in WaitQ :
         \A i \in 1..Len(waitq[q]), j \in 1..Len(waitq[r]) :
            waitq[q][i] = waitq[r][j] => q = r /\ i = j

SchedInv == TypeOK /\ RunningIsCurrent /\ ReadyQueueExact /\ HeldInv

=============================================================================
