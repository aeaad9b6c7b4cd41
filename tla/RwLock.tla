------------------------------- MODULE RwLock -------------------------------
(***************************************************************************)
(* The reader-writer spin lock, kernel/lib/rwlock.c.  A task can be        *)
(* preempted between any two instructions, so every atomic operation is a  *)
(* step of its own.  The additions and the exchange are locked x86         *)
(* instructions, so the loads after them are not reordered before them.    *)
(***************************************************************************)
EXTENDS Integers, FiniteSets

CONSTANT Proc

ASSUME ProcFinite == IsFiniteSet(Proc)

VARIABLES
    readers,   \* lock->readers
    writer,    \* lock->writer
    pc         \* where each task is in its lock or unlock call

rwVars == <<readers, writer, pc>>

RwInit ==
    /\ readers = 0
    /\ writer = 0
    /\ pc = [p \in Proc |-> "out"]

Goto(p, from, to) ==
    /\ pc[p] = from
    /\ pc' = [pc EXCEPT ![p] = to]

-----------------------------------------------------------------------------
(* rwlock_read_lock and rwlock_read_unlock. *)

ReadLock(p) == Goto(p, "out", "r_wait") /\ UNCHANGED <<readers, writer>>

(* Mutant: the counter is raised without waiting for the flag. *)
ReadSeesAnything(p) ==
    Goto(p, "r_wait", "r_add") /\ UNCHANGED <<readers, writer>>

(* The loop on lock->writer ends. *)
ReadSeesNoWriter(p) ==
    /\ Goto(p, "r_wait", "r_add")
    /\ writer = 0
    /\ UNCHANGED <<readers, writer>>

ReadAdd(p) ==
    /\ Goto(p, "r_add", "r_check")
    /\ readers' = readers + 1
    /\ UNCHANGED writer

(* Mutant: the second look at lock->writer is left out. *)
ReadCheckSkipped(p) ==
    Goto(p, "r_check", "reading") /\ UNCHANGED <<readers, writer>>

ReadCheck(p) ==
    /\ Goto(p, "r_check", IF writer = 0 THEN "reading" ELSE "r_back")
    /\ UNCHANGED <<readers, writer>>

(* A writer came in between: take the count back and start over. *)
ReadBackOff(p) ==
    /\ Goto(p, "r_back", "r_wait")
    /\ readers' = readers - 1
    /\ UNCHANGED writer

ReadUnlock(p) ==
    /\ Goto(p, "reading", "out")
    /\ readers' = readers - 1
    /\ UNCHANGED writer

-----------------------------------------------------------------------------
(* rwlock_write_lock and rwlock_write_unlock. *)

WriteLock(p) == Goto(p, "out", "w_take") /\ UNCHANGED <<readers, writer>>

(* The exchange finds the flag clear; while it is set it changes nothing. *)
WriteTake(p) ==
    /\ Goto(p, "w_take", "w_drain")
    /\ writer = 0
    /\ writer' = 1
    /\ UNCHANGED readers

(* The loop on lock->readers ends. *)
WriteDrained(p) ==
    /\ Goto(p, "w_drain", "writing")
    /\ readers = 0
    /\ UNCHANGED <<readers, writer>>

(* Mutant: the lock counter is wiped with the writer flag. *)
WriteUnlockWipes(p) ==
    /\ Goto(p, "writing", "out")
    /\ writer' = 0
    /\ readers' = 0

WriteUnlock(p) ==
    /\ Goto(p, "writing", "out")
    /\ writer' = 0
    /\ UNCHANGED readers

-----------------------------------------------------------------------------

(* A step of a task that is inside a lock or unlock call, or about to      *)
(* leave its critical section.                                             *)
Step(p) ==
    \/ ReadSeesNoWriter(p) \/ ReadAdd(p) \/ ReadCheck(p) \/ ReadBackOff(p)
    \/ ReadUnlock(p)
    \/ WriteTake(p) \/ WriteDrained(p) \/ WriteUnlock(p)

RwNext == \E p \in Proc : ReadLock(p) \/ WriteLock(p) \/ Step(p)

RwSpec == RwInit /\ [][RwNext]_rwVars

(* A task is scheduled again and again (Sched), and critical sections end. *)
RwFairSpec == RwSpec /\ \A p \in Proc : WF_rwVars(Step(p))

-----------------------------------------------------------------------------
(* Properties. *)

Labels == {"out", "r_wait", "r_add", "r_check", "r_back", "reading",
           "w_take", "w_drain", "writing"}

(* The lock words and the tasks' positions have their types. *)
RwTypeOK ==
    /\ readers \in Nat
    /\ writer \in {0, 1}
    /\ pc \in [Proc -> Labels]

(* A writer is alone: no reader and no other writer is inside with it,     *)
(* although readers raise the counter before they know they may enter.     *)
Exclusion ==
    \A p, q \in Proc :
        pc[p] = "writing" /\ p # q => pc[q] \notin {"reading", "writing"}

(* Readers inside, or between their addition and their second look.        *)
Counted == {p \in Proc : pc[p] \in {"r_check", "r_back", "reading"}}

(* lock->readers is the number of these tasks: it never goes below zero    *)
(* and never holds a writer back for nothing.                              *)
CountExact == readers = Cardinality(Counted)

(* A writer that took the flag gets in: readers that are still arriving    *)
(* back off and cannot hold the counter above zero for ever.               *)
WriterDrains ==
    \A p \in Proc : pc[p] = "w_drain" ~> pc[p] = "writing"

(* While anybody wants the lock somebody gets it: no deadlock, and no      *)
(* livelock of readers and writers that make each other retry.             *)
Wanting == \E p \in Proc : pc[p] \notin {"out", "reading", "writing"}
Inside == \E p \in Proc : pc[p] \in {"reading", "writing"}
SomeoneEnters == Wanting ~> Inside

(* The inductive invariant: the flag is held by exactly one task, and no   *)
(* reader is inside once the holder has seen the counter at zero.          *)
FlagHeld(p) == pc[p] \in {"w_drain", "writing"}
RwInv ==
    /\ RwTypeOK
    /\ CountExact
    /\ writer = 1 <=> \E p \in Proc : FlagHeld(p)
    /\ \A p, q \in Proc : FlagHeld(p) /\ FlagHeld(q) => p = q
    /\ \A p, q \in Proc : pc[p] = "writing" => pc[q] # "reading"

=============================================================================
