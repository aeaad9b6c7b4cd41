------------------------------ MODULE MCSched ------------------------------
(***************************************************************************)
(* The scheduler, its properties and its refinements, for TLC, under two   *)
(* workloads.  "mixed": tasks block, wake each other, exit, and task 1     *)
(* creates tasks.  "cfs": what the CFS policy is meant for, tasks that     *)
(* kmain creates and that never block, followed over more ticks.           *)
(***************************************************************************)
EXTENDS SchedRefine

CONSTANT MixedTicks   \* bound: timer interrupts of the mixed workload

VARIABLE workload

OneCreator == {1}

NothingBlocks == waitq' = waitq /\ \A c \in Task : creating'[c] = NONE

MCInit == Init /\ workload \in {"mixed", "cfs"}
MCNext ==
    /\ Next
    /\ workload = "mixed" => ticks' <= MixedTicks
    /\ workload = "cfs" => NothingBlocks
    /\ UNCHANGED workload

MCSpec == MCInit /\ [][MCNext]_<<vars, workload>>

(* Tasks that never block share the CPU evenly: the vruntimes of any two   *)
(* runnable tasks differ by at most one tick (sched_tick and the choice of *)
(* sched_pick_next_ready).                                                 *)
FairShare == workload = "cfs" => LagBounded

(* When nothing blocks and only kmain creates tasks, the 64-bit vruntimes, *)
(* the tids and g_cfs_min_vruntime implement the relative CFS policy of    *)
(* SchedFair.                                                              *)
ImplementsFair ==
    /\ Fair!FairInit
    /\ [][workload = "cfs" => Fair!FairNext]_(Fair!fairVars)
=============================================================================
