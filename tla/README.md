# A formal model of the GNU OS kernel

TLA+ modules for the parts of GNU OS that keep state: those in which several tasks,
or a task and an interrupt, work on the same data, and the memory management, the
loaders and the C library's tables around them; TLC configurations that check them on
small instances; and TLAPS proofs of the most important results for every value
of the constants.  `PROJECT.json` lists components, runs, the source lines every
definition models, hazards, findings and theorems.

## 1. Inventory

The kernel runs on one x86_64 CPU.  Tasks are kernel threads.  The timer
interrupt preempts a task anywhere unless it has interrupts disabled, and control
always returns to the *bootstrap context* (the code of `kmain`), whose final loop
calls `sched_run` to pick the next task.  A switch is therefore always task →
bootstrap → task.

| Part | State | Operations | What makes it hard |
|---|---|---|---|
| Scheduler `kernel/sched/sched.c` | task table, ready ring, wait queues, `g_current_task`, vruntimes | create (three locked sections), run, yield, exit, tick + preempt, wait, wake one, wake all | preemption between sections of a creation; five places that update state field, ring and current task separately; starvation |
| Work queues `kernel/sched/workqueue.c` | ring of jobs, two counters, a wait queue | submit, execute one | lock dropped between the empty check and the wait; full queue |
| RCU `kernel/lib/rcu.c`, demo tasks of `kmain.c` | reader counter, callback list, node pool | read lock/unlock, `call_rcu`, `synchronize_rcu`, process callbacks | grace periods against readers preempted anywhere |
| Reader-writer lock `kernel/lib/rwlock.c` | `readers`, `writer` | four lock/unlock loops | races of single atomic operations, mutual retry |
| Spinlock, mutex `kernel/lib` | one word | exchange, store | taken with and without interrupts disabled |
| IPC channels `kernel/ipc/ipc.c` | channel table, a message ring each | create by name, send, receive, with or without a capability | check and use of a capability under different locks; ring wrap |
| IPC rendezvous `kernel/ipc/ipc.c` | a message slot, pending flag, generation | send (two loops), receive | competing senders, generations read early and compared late |
| Capabilities `kernel/security/capability.c` | slot table | create, validate, copy, describe | rights along chains of transfers; table at its limit |
| Shared memory `kernel/ipc/shm.c` | segment table, attachment lists | create, find, attach, detach | sizes near 2^64, failure of the allocation in the middle |
| Physical memory `kernel/mm/pmm.c` | buddy blocks, free lists | init, alloc, free, reserve range | splits and merges over long call sequences, overflow of ranges |
| Virtual memory `kernel/mm/vmm.c`, `uaccess.c` | four-level page tables, kernel heap pointer | map, unmap, translate, split, heap allocation | rollback half-way, large-page splits |
| Syscalls, seccomp `kernel/syscall`, `kernel/security/seccomp.c` | handler table, policy, audit ring | register, dispatch, set action, record | policy read before and used after a handler that may yield |
| Keyboard `kernel/drivers/char/ps2_keyboard.c` | modifier flags, character ring | interrupt, read | interrupt handler and reader share the ring without a lock |
| UEFI loader `boot/efi` | memory map and its key, buffers, loaded segments | load, fetch map, write it for the kernel, leave boot services | the firmware changes the map between any two calls; retries |
| Timers, PIC/APIC, NUMA, ACPI, PCI, DMA, hardening, boot | device registers, tables built once | initialisation | numeric edges; order of initialisation |
| Userspace: dynamic linker, libc stubs, init | object registry, relocated words, fd/socket tables, mmap pool | bootstrap, dlopen/dlsym/dlclose, POSIX calls | order of relocation and initialisers, reference counts, entries that are reused |

How they interact: work queues and all waiting use the scheduler's wait queues;
rendezvous, RCU and the demo tasks use `sched_yield`; channels use the capability
table; shared memory uses the kernel heap, which uses the page tables and the
physical allocator; task creation takes its stack from the physical allocator.

## 2. Modules

| Module | Models | Role |
|---|---|---|
| `Sched` | `sched.c`, the timer interrupt of `idt.c`, the loop of `kmain` | the scheduler in full |
| `SchedAbs` | – | what callers rely on: tasks become ready, run, block in FIFO queues, are woken |
| `SchedFair` | – | the CFS policy with relative vruntimes; finite-state, carries liveness |
| `SchedRefine` | – | refinement mappings from `Sched` to the two; `MCSched` adds the two workloads |
| `RwLock` | `rwlock.c` | one step per atomic access |
| `Rcu` | `rcu.c`, RCU demo tasks and pool of `kmain.c` | readers, updater, reclaimers |
| `Fifo` | – | abstract bounded FIFO queues with takers |
| `Ring` | – | reading a circular buffer as a sequence |
| `WorkQueue` | `workqueue.c` | composed with `SchedAbs` (instantiated), refines `Fifo` |
| `RendezvousAbs` | – | synchronous message passing |
| `Rendezvous` | rendezvous half of `ipc.c`, its demo tasks | refines `RendezvousAbs` |
| `Capability` | `capability.c` | the table; extended by `Ipc` |
| `Ipc` | channel half of `ipc.c` | composed with `Capability`, refines `Fifo` |
| `Addresses`, `Nil` | – | the size of the address space; the null value |
| `PageAbs` | – | what a page allocator promises |
| `Pmm` | `pmm.c` | the buddy allocator; `PmmRefine` is its refinement mapping to `PageAbs` |
| `PageTable` | indices and look-up of `vmm.c` | reading the page tables |
| `Vmm` | `vmm.c`; the identity maps of `acpi.c`, `numa.c`, `apic.c`; the boot tables of `entry.S`; the memory tests of `kmain` | changing the page tables, and the kernel heap |
| `Uaccess` | `uaccess.c` | the range check, a predicate over the page tables |
| `Shm` | `shm.c` | composed with `Vmm`, whose heap it takes memory from |
| `Seccomp` | `seccomp.c` | policy and audit ring; extended by `Syscall` |
| `Syscall` | `syscall.c` | dispatch, interleaved with changes of the policy |
| `Keyboard` | `ps2_keyboard.c` | handshake, interrupt handler and reader, with the keyboard and a typist |
| `Uefi` | `uefi_stub.c` | the loader, with the firmware as its environment |
| `Ldso` | `ldso_elf.c`, `ldso_dlfcn.c`, the linker part of `ldso_bootstrap.c` | program start |
| `Libc` | socket and file tables of `libc_stub.c`, `mmap` | what a process sees of its descriptors and mappings |
| `SchedProofs` | – | theorems about the scheduler |
| `SyncProofs` | – | theorems about `RwLock`, `Rcu`, `Syscall` with `Seccomp`, and `Rendezvous` |
| `IoProofs` | – | lemmas on circular buffers; theorems about `WorkQueue`, `Keyboard`, and `Ipc` with `Capability` |
| `PmmProofs` | – | theorems about the page allocator |
| `UserProofs` | – | theorems about `Libc`, `Ldso` and `Uefi` |
| `VmmProofs` | – | theorem about `Uaccess`; lemmas on page tables and the kernel heap |
| `MemoryProofs` | – | theorems about `Vmm` and `Shm`, from the lemmas of `VmmProofs` |
| `Loops` | – | lemmas on loops |
| `MC*` | – | instances for TLC; `MCMemory` (physical pages, page tables, shared memory) and `MCServices` (`Syscall` to `Libc`) hold several parts, one of which is chosen by the initial state |

Operators named as mutants in their comments are wrong variants of the definition
that follows them; they show that the properties can fail and no specification
uses them.

### Correspondence and abstractions

**Granularity.** A section under a spinlock is one step.  On one CPU this is exact
when interrupts are off.  Work queue and RCU take their locks with interrupts on:
a holder may be preempted, but everybody else who wants the data then spins until
the holder is back, so the section still appears atomic.  Atomic builtins are one
step each and sequentially consistent: x86 does not reorder the locked
read-modify-write operations that separate the critical accesses.

**Sched.** `current` stands for `g_current_task` and `g_current_index`, which
change together; `NONE` is the bootstrap context.  The order of the ready ring is
never read (`sched_pick_next_ready` scans the task table), so the ring is the
number of entries of each task.  `creating[c]` is the slot a creator has reserved
but not published, so the unlocked gap in `sched_create_kernel_task` is visible;
`CreateAbort` is a failed stack allocation.  `TickTask` is `sched_tick` and
`sched_preempt_on_tick` in one interrupt.  `idle_hlt` says that the idle loop
stands at its `hlt`.  The 64-bit tick, tid and vruntime counters do not wrap in the
lifetime of a machine.  `MaxTid` and `MaxTicks` bound runs; they are guards.

**WorkQueue.** The tasks' status and the wait queue are those of `SchedAbs`; every
step of a task requires that it is RUNNING, so a worker can lose the CPU between
any two steps.  `submitted` and `completed` only grow and are kept as their
difference `unfinished`.  Each call of a worker chooses `block_if_empty`.

**Rcu.** Readers, the single updater and any number of reclaimers have program
counters.  The linked callback list is a sequence (a node is never on it twice,
which is checked), the two statistics are kept as their difference.

**Rendezvous.** A sender compares the generation with the value it read when it
posted.  The 64-bit generation never wraps, so all that matters is whether it has
moved since: `moved[s]`, set for every sender by a receive.

**Ipc and Capability.** Payload bytes are left out, as are buffers that are too
small: that path returns −4 without a change.  `IdWrap` stands for 2^16: a channel
identifier is taken modulo `IdWrap`, as the casts do.  The capability check of a
send and the queueing are two steps (two locks), and so are the removal of a
message and the copy of its capability.  `origin` is a history variable: the slot
from which a capability was copied, or 0.

**Pmm.** The allocator has no lock and is called only from the bootstrap context,
so a call is one step.  The doubly linked free lists are sequences in list order.  A loop
is the function `turn` of its states: what the loop changes, after each number of turns.
`AddressEnd` stands for 2^64: sums that the code tests for wrap-around are tested
against it.

**Vmm, Uaccess and Shm.** The functions of `vmm.c` are operators from one value of
`vm` (all tables, and the free frames) to the next, in the order in which the code
allocates and writes, so that a walk that runs out of frames half-way leaves what it
has built.  Addresses are page numbers, split into four indices as in the code;
`PageEnd` and `AddressEnd` stand for the ends of the address space.  The frames come
from a set, `pool` at boot: which page the allocator picks makes no difference here,
and `Pmm` shows that it implements such a set.  `Uaccess` has no state of its own.
In `Shm`, `attached` and the field `asked` are history variables.

**Seccomp and Syscall.** A call reads the policy, looks up and runs the handler,
and records an event in separate steps, because each takes its own lock and
`sys_sched_yield` gives up the CPU.  `seen[t]` is history: the policies in force since
the call of `t` began.  `due` counts the calls that were denied or are to be logged.
`MaxCalls` and `MaxChanges` bound runs.

**Keyboard.** Scan codes are the real ones, for a few keys of every kind.  A key event
is a sequence of bytes on `wire`, and each interrupt takes one.  During the handshake the
keyboard may answer late, refuse, or not at all.  The reader loads a character and
advances the tail in two steps, between which the interrupt handler may push.
Any keys may be held together, and a key that is held repeats.  `typed` is what the reader
still has to get, as a typist reckons it who knows three things of this driver: Shift is the
two keys as they are held; Caps Lock flips with every code it sends, repeats included
(ps2_keyboard.c:249–252); and Ctrl, one flag for two keys, ends when either is lifted
although the other is still held (lines 224 and 244).  `lapse` is that last state.

**Uefi.** A step is a service call with the code around it.  Memory is an array of page
types; a descriptor is a run of equal types, so an allocation may really lengthen the
map.  `FirmwareEvent` changes the memory at any time; every service may fail.

**Ldso.** A program is a record: auxiliary vector, program headers, dynamic section,
symbols, relocations and initialiser array.  Its strings are model values, its parsing
and early returns are those of the code.  A pointer of the dynamic section is its biased
address, null only when that is 0.  Without a hash table the scan for a symbol goes on to a
fixed limit, and what it reads beyond the table is taken to have no name that is looked up.
Entries that cannot be carried out leave the word as the file has it, and the initialisers
run all the same.  The dl functions are called by initialisers: `_start` goes nowhere after
the bootstrap.

**Libc.** `fds` is history: what the program may believe of each descriptor it holds.
`libc_stub.c` and `ldso_bootstrap.c` hold these functions twice, line for line.  A count
is cast to `off_t`, so a `write` of 2^63 or more moves the offset back, also below 0; `read`
fills the buffer first and cannot be asked for as much.  `mmap` with `MAP_FIXED` returns the
address it is given and changes nothing: it has no action.

## 3. Runs

| Run | Instance | Question | Answer |
|---|---|---|---|
| `sched` | 4 slots, 2 wait queues, 5 tids; workload "mixed" (2 ticks) or "cfs" (9 ticks) | do the separately updated pieces of scheduler state ever disagree, at any point a task can be preempted? | no: `ReadyQueueExact`, `RunningIsCurrent`, `BlockedHeldOnce`; no enqueue meets a full ring (`EnqueueHasRoom`), a charged tick always preempts (`TickPreempts`); callers see `SchedAbs`; competing tasks stay within one tick (`FairShare`) and follow `SchedFair` (`ImplementsFair`) |
| `sched_fair` | 6 tasks | can a task that only yields starve the others? | no (`NoStarvation`) |
| `sched_doc` | 2 slots, 3 ticks | `docs/kernel/boot-sequence.md` step 15: the CPU halts only when nothing is runnable | violated, see below |
| `rwlock` | 3 tasks that read and write at will | exclusion and progress of the lock | `Exclusion`, `CountExact`, `WriterDrains`, `SomeoneEnters` |
| `rcu` | 2 readers, 1 updater, 2 reclaimers, 4 nodes | is a node ever reclaimed under a reader, lost, or queued twice? do nodes come back? | `NoUseAfterReclaim`, `CallbacksExact`, `RetiredComesBack` |
| `workqueue` | 2 workers that block or poll, 1 submitter, 2 jobs, capacity 3 | is the ring a FIFO queue, and when is a job left behind? | `ImplementsFifo`, `CountsAddUp`; only through one window (`OnlyWindowLosesWakes`) |
| `workqueue_lost` | the same, capacity 2 | every accepted job is run | violated, see below |
| `rendezvous` | 3 senders, 2 receivers (one with a small buffer), 2 sizes | is it a rendezvous whoever competes, and does it make progress? | `ImplementsRendezvous`, `TrafficNeverStops`, `SendReturns` |
| `ipc` | 2 channels of 2 messages, 2 tasks, 5 identifiers | are channels independent FIFO queues with unique names? | `ChannelsAreFifo`, `UniqueNames` |
| `ipc_cap` | 1 channel, 2 tasks, 3 capability entries, 1 right besides transfer | does a transfer ever amplify a right or go stale in the queue? | `NoAmplification`, `TransferStaysGood` |
| `memory`: pages | 0, 5, 6 or 8 pages, orders 0 to 3, a region at the end of the address space, ranges aligned or not, also past its end | does the buddy allocator stay consistent over any call sequence? | `AllocatorExact` (blocks tile the memory, lists and counts are exact, free buddies are merged), `RangeIsCovered`, `ImplementsPages` |
| `memory`: tables | tables of 4 entries on 4 levels; 0, 5 or 11 free frames; heap of 5 pages | is a page lost, used twice or moved by a failed walk, a rollback or a split? does the user range check agree with the tables? | no: `MemoryExact`; yes: `UserRangesExact` |
| `memory`: shm | 2 segments, 2 attachments, tids 0 to 2, a size that wraps | is every segment backed by its own pages, and is the list who is attached? | `SegmentsExact`, `MemoryExact` |
| `services`: syscall | 2 callers, 3 calls, a policy change, an audit ring of 2 | by which policy is a call judged, and is it recorded? | one in force during the call (`JudgedDuringCall`); once, in order (`AuditExact`) |
| `services`: keyboard | 7 keys, 3 held at once, ring of 3 | does the reader get what was typed, under the driver's rules for modifiers (section 2)? | `TypedIsRead` |
| `services`: uefi | 6 pages, 5 kernels, 2 attempts, slop of 2 descriptors | is the map that the kernel gets true, and does the loader end? | `HandoffExact`, `UefiEnds` |
| `services`: ldso | 18 programs, 3 objects, up to 4 references each | do initialisers run in order, and only once what can be relocated is? can closing an object leave a binding stale? | `StartsSound`; no: `BindingsStay` |
| `services`: descriptors, mmap | 1 socket, 2 files; a pool of 4 pages, lengths up to 2^w − 1 | is what a program believes of its descriptors and mappings true? | `LibcExact` |

**Why the bounds suffice.**  Four slots hold the idle task, a creator, a task being
created and one sleeper or competitor, so every pair of roles meets; five tids let a
slot be given back and reused.  Two wait queues show a task on the wrong one.  Nine
ticks take four competing tasks twice round.  Rings of two or three entries wrap
within a few operations.  The RCU pool of four nodes runs out while one is
published, one is queued and each reclaimer holds one.  Three senders let one be
overtaken by two others in turn.  Eight pages are three orders above a page, and
five or six pages leave buddies outside the managed range.  With 0 or 5 free frames
walks and heap requests fail half-way, with 11 the whole heap window can be handed
out; the device ranges cross a page, share a table with boot's, and reach the end of
the address space.  Two segments and two attachments reach both
limits.  Three calls wrap an audit ring of two, and one change of the policy falls
between any two steps of a call (any number of changes: section 4).  The keyboard ring of three holds two characters, so it
fills and wraps; the keys are both Shifts, both Ctrls, Caps Lock, a letter, and an extended
key that shares its code with a plain one; three held at once are a letter with two
modifiers.  Six pages of memory let
the map grow by more than the slop between the size query and the fetch.  The slop
is at least 2, an assumption of `Uefi`: the buffer for the map may itself turn one
descriptor into three, and `HandoffExact` fails when the slop is smaller (the code's is 8).
The fetch is repeated at most once in the instance: using up all its tries needs a memory
too large for TLC.  The programs of `MCImage` take the
loader's early returns one by one, and four references let every object be closed to nothing
after LD_PRELOAD and the program opened it.  Two files let one be closed and reused while the other stays open.
The parts of `memory` and of `services` do not interact, other than as composed in
`Shm`, `Uaccess` and `Syscall`; they share a run, not state.  The theorems of section 4
do not depend on these bounds.

**Fairness.**
- `SchedFair`: weak fairness of creating the boot tasks and of dispatching (`kmain` loops over `sched_run`) and
  strong fairness of being charged: the timer is not in step with any task, so a task
  that is on the CPU again and again is charged again and again.  Without it a task
  that always yields just before the tick would be picked forever.
- `RwLock`: weak fairness of every task's next atomic step; spinning tasks are
  preempted, and critical sections end.
- `Rcu`: weak fairness of all tasks.  Strong fairness of the step that finds the
  reader count at zero: a reader sleeps for many ticks between sections, and every
  tick changes the task, so a reclaimer also runs while the count is zero.
  `RetiredComesBack` has the premise that the count is zero again and again.
- `WorkQueue`: a ready task is dispatched (strong fairness, `NoStarvation`), a running
  one is preempted, and a task that gets the CPU again and again moves on.  Nobody is
  obliged to submit.
- `Rendezvous`: weak fairness of each loop iteration that has something to do.
  Nobody is obliged to send, so the progress properties speak about tasks that do.
- `services`: weak fairness of the UEFI loader's next step only.  Nothing else runs, so it
  goes on; the firmware is not obliged to do anything, or to leave the map alone.

**Findings.**
1. `sched_doc`: *docs/kernel/boot-sequence.md:17* says that the CPU falls back to
   `hlt` only when no task is runnable.  The idle task competes by vruntime like any
   other, and once picked it halts until the next interrupt although others are ready.
2. `workqueue_lost`: a worker that found the queue empty has released the queue's lock
   and not yet joined the wait queue (workqueue.c:72–79).  A submission in this window
   wakes nobody and the worker goes to sleep beside the job.  When the queue is full as
   well, submissions fail without a wake and nothing runs any more.  No code in the
   tree uses this library yet.

## 4. Theorems

All are proved for arbitrary values of the constants, from the named assumptions of the
modules: capacities are positive naturals, `NONE` is not a value, sets of tasks that
are counted are finite, workers are not submitters, `IdWrap` is at least the number of
channels, the descriptor ranges of sockets and files do not overlap, the `mmap` pool ends
at least a page below the end of the address space, the UEFI loader asks for at least two
descriptors more than it was told, the boot tables are three different frames, the heap's
window lies below 2^48 and above what `setup_page_tables` maps, and no table or device of
the firmware lies in that window.  The specifications there have no fairness; `MaxTid`,
`MaxTicks` and the other bounds of runs are arbitrary.  Every invariant below was
checked by TLC on the run's instance before it was proved.

The last assumption is one about the machine, which `vmm.c` does not test.  A proof module
brings in `FiniteSetTheorems` and `WellFoundedInduction` by `INSTANCE` where it first
needs them: the provers see all that precedes a step, and the lemmas in front stay light.

- **`SchedProofs`**.  Inductive invariant `SchedInv`: types, `RunningIsCurrent`,
  `ReadyQueueExact`, and `HeldInv`, a first-order form of `BlockedHeldOnce` (held tasks
  are blocked, in one place each, and no blocked task is held nowhere) that avoids
  cardinalities.  `ReadyQueueExact` makes the size of the ring the number of READY
  tasks, which is below `MaxTasks` while some task is not READY: that is
  `EnqueueHasRoom`.  From it follow `TickPreempts` and that the rollback branches never
  fire, hence `SchedImplementsAbs`: every step of `Sched` is a step or a stutter of
  `SchedAbs`.
- **`SchedProofs`, the CFS policy**.  `FairShare` is not inductive: it says that runnable
  tasks are within a tick of each other, but a tick charged to a task that is already
  ahead would break it.  `Even` adds why that does not happen: the running task has the
  least vruntime; all tasks start level because `kmain` creates them before any runs; and
  slots are filled from the left with growing tids, so that ties between equal vruntimes
  go the same way in the table and in `SchedFair`.  For the refinement the lags are
  vruntimes less the least one of the runnable tasks; a charge that raises the least one
  shifts all lags (`ShiftAgain`, `LevelLags`), which is the `Rebase` of `SchedFair`.
  With `NoStarvation`, checked on `SchedFair`, this carries the absence of starvation to
  the scheduler.
- **`SyncProofs`, reader-writer lock**.  `RwInv`: the flag is held by exactly one task; the
  counter is the number of tasks past their addition; nobody reads once the holder has
  seen zero.
- **`IoProofs`, work queue**.  Invariant: types, ring in order, a worker holds a job while
  it runs it, statistics add up; `WorkQueueIsFifo` is the refinement of `Fifo`.
- **`SyncProofs`, RCU**.  `RcuInv`: the counter is exact; every retired node is unlinked and
  held once; after the grace period no reader holds the node (`GraceInv`).  The
  argument: a node is unlinked before it is retired, so a reader that enters later
  cannot reach it, and at zero readers nobody holds it.  `CallbackInv` adds that no node
  in use is anywhere else and that the outstanding callbacks are those queued and those
  taken: `CallbacksAreExact`.
- **`SyncProofs`, system calls**.  `SyscallInv` has three parts.  `PolicyInv`: the policy now
  in force is among those a call has seen, which is what makes the action it reads, however
  early, one of them (`CallsAreJudged`).  `AuditInv`: the audit ring is the latest events in
  order, and a recorded event is a denial exactly when its result is EPERM.  `DueInv`: the
  calls due for the record are those recorded and those on their way to it, whose number
  is a cardinality.  `AuditIsExact` follows from the last two.
- **`IoProofs`, rings**.  Lemmas on circular buffers: storing at the tail appends, moving
  the head takes the first, indices stay in range and agree.
- **`IoProofs`, keyboard**.  `KeyboardInv` has two parts.  `RingHolds`: the ring holds
  the characters typed and not read, in order, and a character loaded by a reader is still
  the oldest one.  `FlagsFollow`: the driver's flags are those of the keys held, of Ctrl and of
  Caps Lock, or, while the bytes of a key event are on the wire, those before it (`Behind`).  The second
  makes the character that the interrupt handler computes the one that the user
  typed; the first brings it to the reader.  The ring is one slot larger than what it holds, so
  handler and reader never write the same index, which is why no lock is needed.
- **`SyncProofs`, rendezvous**.  `SlotInv`: the slot is pending exactly while one sender
  waits for its own message, and holds that message.  `IsRendezvous` is the refinement.
- **`IoProofs`, channels**.  Invariant `Inv`: rings in order, unused channels empty, unique
  names, capability slots filled from the front (so that a copy lies behind its source),
  every capability in a message transferable by its sender, a call in progress exactly
  between its steps.  The transfers stay good because entries are never removed or
  changed.  `ChannelsImplementFifo` is the refinement.
- **`PmmProofs`**.  Between calls the invariant `PmmInv` says that
  `AllocatorExact` holds and that the region fits the address space.  Inside a call it
  does not: the call has some pages *in hand*, which belong to no block.  `Exact(m, X, h)` is the
  invariant on the other pages X, with no state on the pages in hand (but for one, h, the
  block that `free_block` and `reserve_page` mark while they work on it).  A lemma about each
  function says how X moves: `remove_free_block` takes the pages of a block in hand,
  `add_free_block` and `set_block` give back a block, a turn of a loop splits what is
  in hand or joins a buddy to it.  Joining needs that the buddy of an aligned block is
  aligned and outside the block; coalescing is kept because a block is put down only when
  its buddy is not a free block of its size.  `RangesAreCovered` is
  arithmetic: in units of pages, the rounded ends cover the range, also when the sum
  overflows, because no region contains the last page of the address space.
  `PagesAreImplemented`: allocation moves one page from free to held, freeing one from held
  to free, reserving a set from free to reserved.
- **`VmmProofs`, user ranges**.  `RangesAreValidated` holds in every state of the page
  tables, reachable or not: the loop over pages visits exactly the pages of the range's bytes,
  and the sum is tested for wrap-around.
- **`VmmProofs` and `MemoryProofs`, page tables and heap**.  `MemoryInv` says that the tables form a tree
  (`Tree`: every table has a level, its entries point one level down, and each table but
  the root is pointed to from one place); that in the heap's window exactly the pages below
  `g_kernel_heap_next` are mapped, each through an entry of its own to a frame of its own;
  that the mappings of boot are there; and that free pages, tables, frames of the heap and
  pages in kmain's hands are disjoint and make up the pool.  The proof follows the code: one
  level of the walk keeps the tree and every translation, because a split leaves each page of the
  large one where it was; the walk ends at the one entry that decides a page
  (`IndicesTell`: the four indices tell pages below 2^48 apart); so mapping or unmapping changes that
  page only (`MapPage`, `UnmapPage`).  A turn of the allocation loop adds one page to the
  heap, a turn of the rollback takes one back, and the loop lemmas carry this to
  `vmm_alloc_kernel_pages` as a whole (`AllocPages`), wherever it fails.  `MemoryStaysExact`
  adds the counts.
- **`MemoryProofs`, shared memory**.  `SegmentsInv` beside `MemoryInv`: a segment ends at or below
  `g_kernel_heap_next`, so a new one, which begins there, is apart from all others; rounding a
  size up either is exact to less than a page or wraps to zero pages, which is refused; in an attachment
  list no thread is twice, so the entry that is removed is the only one.
- **`UserProofs`, C library**.  `LibcInv`: types, mappings below the pool's next free
  byte, and `LibcExact` itself.
- **`UserProofs`, dynamic loader**.  `LdsoInv`: the words are those of the file until they are
  relocated; the slots have the fields a look-up reads; and `BindingsStay` itself, for any
  images and any calls.  `dlopen` and `dlclose` leave the table alike but for the counts
  (`Alike`), alike tables find a name at the same address, and so relocation with either gives
  the same words.
- **`UserProofs`, UEFI loader**.  `UefiInv`: types; the loader's pages are apart and
  exist at the steps that use them; while the key is valid, the map fetched is the
  memory; and `ChangesCounted`: every attempt that failed had a change of the map by the
  firmware of its own, so that the retries suffice unless the firmware makes as many
  changes.  The number of descriptors enters here: a change of one page adds at most two
  (proved from a count of the boundaries between runs), the buffer of the map adds at most two, and
  each try asks for three more.

`UserRangesExact` speaks of the rights that `vmm_query_mapping` reports: the flags of the
entry that maps a page.  The processor asks every level, and `vmm.c` creates the tables
above without the user flag; the check is not compared with that.

The type invariants of these modules are proved and therefore not checked by a run as
well.

**Loops.**  The loops of `pmm.c` and `vmm.c` are recursive functions.  The library's induction rules
cannot be used, but two things can: a set of natural numbers that is not empty has a least
element (`LeastNat`), so what fails after some turn fails after a first one; and `Loops`,
which proves once, for any step, that the equation of a loop has a solution, and is
instantiated with each of the steps `merge`, `split_upper`, `split_around`,
`add_largest`, `reserve_next`, `alloc_next`, `undo_next`, `identity_next`.  The same argument gives the powers of two and the
cardinalities of blocks (`Counting`, which `Exact` carries so that its lemmas need no
theory of finite sets).

**Only model-checked.**
- All liveness properties: `NoStarvation`, `WriterDrains`, `SomeoneEnters`,
  `RetiredComesBack`, `TrafficNeverStops`, `SendReturns`, `UefiEnds`, and
  `OnlyWindowLosesWakes`.  The prover does not treat fairness.
- `StartsSound` of the dynamic loader: which word a relocation table leaves behind is what a
  fold over the table computes, an induction over data.

## 5. Not modelled, and what could follow

Listed with reasons in `PROJECT.json`.

- *Device programming* (PIT, PIC, APIC, PCI, DMA, serial port), CPU hardening and the
  console: sequences of port and register accesses without state that other code shares.
- *Parsing of firmware tables* (ACPI, multiboot2, the NUMA affinity table): a scan of
  bytes, once, before anything else runs.  The page mappings it makes are in `Vmm`.
- *The SYSCALL entry path* (`entry.S`, `fastpath.c`).  It keeps the user stack pointer in one
  global, which would matter once two user tasks make calls that yield; today no task
  runs in user mode, and the calls are made from the kernel through `syscall_dispatch`.
- *The rest of the C library*: semaphores, signals, thread, time and string functions set
  one value or compute without state.
- *Spinlock and mutex*: see "Granularity" above.
- Build scripts and the init program, which prints what the library returns.

Left out inside the modelled parts: null-pointer checks, names and texts, log output,
statistics that nothing reads, register contexts and stacks, TLB invalidation, the bytes
that are copied, the Pause key (prefix E1).

What could follow: spinlocks with and without interrupts disabled, as a model that
justifies the step granularity; the numeric edges of PIT divisor and APIC count; and the
entry path, once user tasks exist.
