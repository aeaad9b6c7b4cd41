-------------------------------- MODULE Rcu --------------------------------
(***************************************************************************)
(* Read-copy-update, kernel/lib/rcu.c, with the tasks of kmain.c that use  *)
(* it: readers that dereference the published node, one updater that       *)
(* replaces it, and reclaimers that run the callbacks after a grace        *)
(* period.  Tasks are preempted anywhere; what is done under g_rcu_lock or *)
(* under the pool lock is one step.                                        *)
(*                                                                         *)
(* The linked list of callbacks is a sequence: a node is on it at most     *)
(* once (Accounted), so its next pointer is never overwritten.  The 64-bit *)
(* counts of queued and completed callbacks only grow; the model keeps     *)
(* their difference.                                                       *)
(***************************************************************************)
EXTENDS Integers, Sequences, FiniteSets, Nil

CONSTANTS PoolSize,    \* DEMO_RCU_POOL_SIZE
          Reader,      \* tasks in rcu_read_lock sections
          Reclaimer    \* tasks in rcu_process_callbacks

Node == 1..PoolSize

ASSUME RcuAssumption ==
    /\ PoolSize \in Nat \ {0}
    /\ NONE \notin Node
    /\ IsFiniteSet(Reader) /\ IsFiniteSet(Reclaimer)

VARIABLES
    in_use,       \* in_use flag of each pool node
    published,    \* g_demo_rcu_current
    g_rcu_readers,      \* g_rcu_readers
    callbacks,    \* the list from g_callbacks_head to g_callbacks_tail
    outstanding,  \* g_callbacks_queued_count - g_callbacks_completed_count
    rpc, ref,     \* each reader: position and the node it dereferenced
    upc, next, old,   \* the updater: position and local pointers
    kpc, callback     \* each reclaimer: position and callback it took

rcuVars == <<in_use, published, g_rcu_readers, callbacks, outstanding, rpc, ref,
          upc, next, old, kpc, callback>>

readerVars == <<rpc, ref, g_rcu_readers>>
updaterVars == <<upc, next, old, published>>
reclaimerVars == <<kpc, callback>>

(* rcu_init, demo_rcu_pool_init, and the node that kmain publishes. *)
RcuInit ==
    /\ in_use = [n \in Node |-> n = 1]
    /\ published = 1
    /\ g_rcu_readers = 0
    /\ callbacks = <<>>
    /\ outstanding = 0
    /\ rpc = [r \in Reader |-> "out"]
    /\ ref = [r \in Reader |-> NONE]
    /\ upc = "alloc"
    /\ next = NONE
    /\ old = NONE
    /\ kpc = [k \in Reclaimer |-> "take"]
    /\ callback = [k \in Reclaimer |-> NONE]

-----------------------------------------------------------------------------
(* A reader. *)

rcu_read_lock(r) ==
    /\ rpc[r] = "out"
    /\ rpc' = [rpc EXCEPT ![r] = "deref"]
    /\ g_rcu_readers' = g_rcu_readers + 1
    /\ UNCHANGED <<ref, updaterVars, reclaimerVars, in_use, callbacks, outstanding>>

Dereference(r) ==
    /\ rpc[r] = "deref"
    /\ rpc' = [rpc EXCEPT ![r] = "using"]
    /\ ref' = [ref EXCEPT ![r] = published]
    /\ UNCHANGED <<g_rcu_readers, updaterVars, reclaimerVars, in_use, callbacks, outstanding>>

(* rcu_read_unlock looks at the counter first, and returns if it is zero. *)
rcu_read_unlock(r) ==
    /\ rpc[r] = "using"
    /\ rpc' = [rpc EXCEPT ![r] = IF g_rcu_readers = 0 THEN "out" ELSE "leave"]
    /\ ref' = [ref EXCEPT ![r] = NONE]
    /\ UNCHANGED <<g_rcu_readers, updaterVars, reclaimerVars, in_use, callbacks, outstanding>>

ReadLeave(r) ==
    /\ rpc[r] = "leave"
    /\ rpc' = [rpc EXCEPT ![r] = "out"]
    /\ g_rcu_readers' = g_rcu_readers - 1
    /\ UNCHANGED <<ref, updaterVars, reclaimerVars, in_use, callbacks, outstanding>>

-----------------------------------------------------------------------------
(* The updater. *)

(* demo_rcu_alloc_node: the first free node; with none the update is       *)
(* dropped and tried again later.                                          *)
UpdateAlloc ==
    /\ upc = "alloc"
    /\ \E n \in Node :
         /\ ~in_use[n] /\ \A m \in Node : m < n => in_use[m]
         /\ in_use' = [in_use EXCEPT ![n] = TRUE]
         /\ next' = n
    /\ upc' = "publish"
    /\ UNCHANGED <<old, published, readerVars, reclaimerVars, callbacks, outstanding>>

(* Only the updater writes the pointer it reads here. *)
UpdatePublish ==
    /\ upc = "publish"
    /\ old' = published
    /\ published' = next
    /\ next' = NONE
    /\ upc' = "retire"
    /\ UNCHANGED <<readerVars, reclaimerVars, in_use, callbacks, outstanding>>

(* call_rcu on the old node: queued under g_rcu_lock. *)
CallRcu ==
    /\ upc = "retire"
    /\ callbacks' = Append(callbacks, old)
    /\ outstanding' = outstanding + 1
    /\ old' = NONE /\ upc' = "alloc"
    /\ UNCHANGED <<next, published, readerVars, reclaimerVars, in_use>>

-----------------------------------------------------------------------------
(* A reclaimer in rcu_process_callbacks(1). *)

(* Mutants: the head of the list is not moved on, or is set to null. *)
TakeCallbackAgain(k) ==
    /\ kpc[k] = "take" /\ callbacks # <<>>
    /\ callback' = [callback EXCEPT ![k] = Head(callbacks)]
    /\ kpc' = [kpc EXCEPT ![k] = "sync"]
    /\ UNCHANGED <<callbacks, readerVars, updaterVars, in_use, outstanding>>
TakeCallbackOnly(k) ==
    /\ kpc[k] = "take" /\ callbacks # <<>>
    /\ callback' = [callback EXCEPT ![k] = Head(callbacks)]
    /\ callbacks' = <<>>
    /\ kpc' = [kpc EXCEPT ![k] = "sync"]
    /\ UNCHANGED <<readerVars, updaterVars, in_use, outstanding>>

TakeCallback(k) ==
    /\ kpc[k] = "take" /\ callbacks # <<>>
    /\ callback' = [callback EXCEPT ![k] = Head(callbacks)]
    /\ callbacks' = Tail(callbacks)
    /\ kpc' = [kpc EXCEPT ![k] = "sync"]
    /\ UNCHANGED <<readerVars, updaterVars, in_use, outstanding>>

(* Mutant: the callback runs without a grace period. *)
SynchronizeNot(k) ==
    /\ kpc[k] = "sync"
    /\ kpc' = [kpc EXCEPT ![k] = "run"]
    /\ UNCHANGED <<callback, readerVars, updaterVars, in_use, callbacks, outstanding>>

(* synchronize_rcu sees no reader; until then it yields. *)
Synchronize(k) ==
    /\ kpc[k] = "sync"
    /\ g_rcu_readers = 0
    /\ kpc' = [kpc EXCEPT ![k] = "run"]
    /\ UNCHANGED <<callback, readerVars, updaterVars, in_use, callbacks, outstanding>>

(* demo_rcu_reclaim_callback gives the node back to the pool. *)
RunCallback(k) ==
    /\ kpc[k] = "run"
    /\ in_use' = [in_use EXCEPT ![callback[k]] = FALSE]
    /\ callback' = [callback EXCEPT ![k] = NONE]
    /\ kpc' = [kpc EXCEPT ![k] = "count"]
    /\ UNCHANGED <<readerVars, updaterVars, callbacks, outstanding>>

CountCallback(k) ==
    /\ kpc[k] = "count"
    /\ outstanding' = outstanding - 1
    /\ kpc' = [kpc EXCEPT ![k] = "take"]
    /\ UNCHANGED <<callback, readerVars, updaterVars, in_use, callbacks>>

-----------------------------------------------------------------------------

ReaderStep(r) == Dereference(r) \/ rcu_read_unlock(r) \/ ReadLeave(r)
UpdaterStep == UpdateAlloc \/ UpdatePublish \/ CallRcu
ReclaimerStep(k) == TakeCallback(k) \/ RunCallback(k) \/ CountCallback(k)

RcuNext ==
    \/ \E r \in Reader : rcu_read_lock(r) \/ ReaderStep(r)
    \/ UpdaterStep
    \/ \E k \in Reclaimer : ReclaimerStep(k) \/ Synchronize(k)

RcuSpec == RcuInit /\ [][RcuNext]_rcuVars

(* Every task is scheduled again and again.  A reader sleeps many ticks    *)
(* outside its section, and each tick changes the task, so a reclaimer     *)
(* that waits for readers to be zero also runs while it is zero.           *)
RcuFairSpec ==
    /\ RcuSpec
    /\ WF_rcuVars(UpdaterStep)
    /\ \A r \in Reader : WF_rcuVars(ReaderStep(r))
    /\ \A k \in Reclaimer : WF_rcuVars(ReclaimerStep(k)) /\ SF_rcuVars(Synchronize(k))

-----------------------------------------------------------------------------
(* Properties. *)

Pointer == Node \cup {NONE}

(* Variables have their types; the reader counter never goes below zero. *)
RcuTypeOK ==
    /\ in_use \in [Node -> BOOLEAN]
    /\ published \in Node
    /\ g_rcu_readers \in Nat
    /\ callbacks \in Seq(Node)
    /\ outstanding \in Int
    /\ rpc \in [Reader -> {"out", "deref", "using", "leave"}]
    /\ ref \in [Reader -> Pointer]
    /\ upc \in {"alloc", "publish", "retire"}
    /\ next \in Pointer
    /\ old \in Pointer
    /\ kpc \in [Reclaimer -> {"take", "sync", "run", "count"}]
    /\ callback \in [Reclaimer -> Pointer]

(* A node that a reader is using has not been given back to the pool.      *)
NoUseAfterReclaim ==
    \A r \in Reader : ref[r] # NONE => in_use[ref[r]]

(* Where a node in use can be. *)
Retired(n) == {i \in 1..Len(callbacks) : callbacks[i] = n}
Taken(n) == {k \in Reclaimer : callback[k] = n}
Places(n) ==
    Cardinality({p \in {"published", "next", "old"} :
                   \/ p = "published" /\ published = n
                   \/ p = "next" /\ next = n
                   \/ p = "old" /\ old = n})
      + Cardinality(Retired(n)) + Cardinality(Taken(n))

(* No node is lost and none is queued or reclaimed twice: a node in use is *)
(* published, or held by the updater, or on the callback list, or taken by *)
(* a reclaimer, in exactly one of these places; a free node in none.       *)
Accounted ==
    \A n \in Node : Places(n) = IF in_use[n] THEN 1 ELSE 0

(* The statistics add up: callbacks queued and not completed are the ones  *)
(* on the list and the ones a reclaimer is busy with.                      *)
Reclaiming == {k \in Reclaimer : kpc[k] # "take"}
OutstandingExact == outstanding = Len(callbacks) + Cardinality(Reclaiming)

(* Neither a node nor a count of callbacks goes astray between call_rcu,   *)
(* rcu_process_callbacks and the pool of nodes.                            *)
CallbacksExact == Accounted /\ OutstandingExact

(* A retired node comes back to the pool, so updates are not dropped for   *)
(* ever, unless readers that overlap never let g_rcu_readers reach zero    *)
(* (synchronize_rcu); the one reader kmain creates cannot do that.         *)
RetiredComesBack ==
    []<>(g_rcu_readers = 0) => \A n \in Node : Retired(n) # {} ~> ~in_use[n]

-----------------------------------------------------------------------------
(* The inductive invariant. *)

Section == {r \in Reader : rpc[r] \in {"deref", "using", "leave"}}

(* Readers: the counter is exact, and a reference is held only inside.     *)
ReaderInv ==
    /\ g_rcu_readers = Cardinality(Section)
    /\ \A r \in Reader : ref[r] # NONE => rpc[r] = "using" /\ in_use[ref[r]]

(* The updater's pointers are set where its position says. *)
UpdaterInv ==
    /\ next # NONE <=> upc = "publish"
    /\ old # NONE <=> upc = "retire"
    /\ in_use[published]
    /\ next # NONE => in_use[next] /\ next # published
    /\ old # NONE => in_use[old] /\ old # published

Unlinked(n) == in_use[n] /\ n \notin {published, next, old}

(* Retired nodes are in use, unlinked, and each held once. *)
RetiredInv ==
    /\ \A i \in 1..Len(callbacks) : Unlinked(callbacks[i])
    /\ \A i, j \in 1..Len(callbacks) : callbacks[i] = callbacks[j] => i = j
    /\ \A k \in Reclaimer : callback[k] # NONE <=> kpc[k] \in {"sync", "run"}
    /\ \A k \in Reclaimer : callback[k] # NONE =>
         /\ Unlinked(callback[k])
         /\ \A i \in 1..Len(callbacks) : callbacks[i] # callback[k]
    /\ \A k, l \in Reclaimer : callback[k] # NONE /\ callback[k] = callback[l] => k = l

(* After the grace period no reader holds the node that is to be freed. *)
GraceInv ==
    \A k \in Reclaimer : kpc[k] = "run" => \A r \in Reader : ref[r] # callback[k]

RcuInv == RcuTypeOK /\ ReaderInv /\ UpdaterInv /\ RetiredInv /\ GraceInv

(* No node is lost: one in use can be found.  With RcuInv, which says that *)
(* it is found in one place only, this makes CallbacksExact inductive.     *)
NothingLost ==
    \A n \in Node : in_use[n] =>
        \/ n \in {published, next, old}
        \/ \E i \in 1..Len(callbacks) : callbacks[i] = n
        \/ \E k \in Reclaimer : callback[k] = n

CallbackInv == NothingLost /\ OutstandingExact

=============================================================================
