-------------------------------- MODULE Shm --------------------------------
(***************************************************************************)
(* Shared memory segments, kernel/ipc/shm.c, on the kernel heap.  Every    *)
(* operation runs under g_shm_lock with interrupts off and is one step.  A *)
(* segment is never destroyed; NONE is a slot that is not in use, and the  *)
(* field asked of a segment is history.                                    *)
(***************************************************************************)
EXTENDS Vmm, Sequences

CONSTANTS MaxSegments,      \* SHM_MAX_SEGMENTS
          MaxAttachments,   \* SHM_MAX_ATTACHMENTS
          SegmentName,
          SegmentSize,      \* sizes asked for, in bytes
          SegmentId,        \* identifiers that callers pass
          ShmIdWrap,        \* 2^16: an identifier is cast to uint16_t
          ShmTid            \* thread ids; 0 is the boot context

SegmentSlot == 0..(MaxSegments - 1)
AttachSlot == 0..(MaxAttachments - 1)

Segment ==
    [name : SegmentName, base : Nat, size : Nat, asked : Nat, owner : ShmTid,
     attachments : 0..MaxAttachments, tids : [AttachSlot -> Nat]]

ASSUME ShmAssumption ==
    /\ MaxSegments \in Nat \ {0} /\ MaxAttachments \in Nat \ {0}
    /\ ShmIdWrap >= MaxSegments
    /\ ShmTid \subseteq Nat /\ 0 \in ShmTid
    /\ SegmentSize \subseteq Address
    /\ NONE \notin Segment

VARIABLES
    g_shm_segments,
    g_shm_segment_count,
    attached            \* history: who attached to a segment and has not detached

shmVars == <<g_shm_segments, g_shm_segment_count, attached>>

shm_init ==
    /\ g_shm_segments = [s \in SegmentSlot |-> NONE]
    /\ g_shm_segment_count = 0
    /\ attached = [s \in SegmentSlot |-> {}]

(* The thread a call is made for, NONE if the caller may not: only the     *)
(* boot context speaks for others.                                         *)
shm_resolve_tid(requested, current) ==
    IF requested = 0 THEN current
    ELSE IF current # 0 /\ requested # current THEN NONE
    ELSE requested

shm_find_locked(name, s) == g_shm_segments[s] # NONE /\ g_shm_segments[s].name = name

(* The first free slot. *)
free_slot(s) ==
    /\ g_shm_segments[s] = NONE
    /\ \A r \in SegmentSlot : r < s => g_shm_segments[r] # NONE

(* Mutant: the size is rounded down. *)
aligned_size_down(size) == (size \div PageSize) * PageSize

aligned_size(size) == (((size + PageSize - 1) % AddressEnd) \div PageSize) * PageSize

(* A call that finds the name returns its segment, whatever the size; with *)
(* no free slot or no memory it fails, the memory being rolled back.       *)
shm_create(name, size, owner, current) ==
    LET pages == aligned_size(size) \div PageSize
        r == vmm_alloc_kernel_pages(vm, g_kernel_heap_next, pages, {W})
    IN  /\ size # 0 /\ pages # 0 /\ shm_resolve_tid(owner, current) # NONE
        /\ ~\E s \in SegmentSlot : shm_find_locked(name, s)
        /\ \E s \in SegmentSlot :
              /\ free_slot(s)
              /\ AllocKernelPages(pages)
              /\ IF r.ok
                 THEN /\ g_shm_segments' = [g_shm_segments EXCEPT ![s] =
                            [name |-> name, base |-> r.at, size |-> aligned_size(size), asked |-> size,
                             owner |-> shm_resolve_tid(owner, current),
                             attachments |-> 0, tids |-> [i \in AttachSlot |-> 0]]]
                      /\ g_shm_segment_count' = g_shm_segment_count + 1
                 ELSE UNCHANGED <<g_shm_segments, g_shm_segment_count>>
        /\ UNCHANGED attached

(* The slot that an identifier stands for after the casts. *)
ValidSegment(id, s) == id >= 0 /\ s = id % ShmIdWrap /\ s < MaxSegments

shm_find_attachment_locked(seg, tid, i) ==
    /\ i < seg.attachments /\ seg.tids[i] = tid
    /\ \A j \in AttachSlot : j < i => seg.tids[j] # tid

not_attached(seg, tid) == ~\E i \in AttachSlot : shm_find_attachment_locked(seg, tid, i)

(* The segment with another attachment list. *)
with_tids(seg, tids, attachments) ==
    [name |-> seg.name, base |-> seg.base, size |-> seg.size, asked |-> seg.asked,
     owner |-> seg.owner, attachments |-> attachments, tids |-> tids]

shm_attach(id, requested, current) ==
    LET tid == shm_resolve_tid(requested, current)
    IN  \E s \in SegmentSlot :
            LET seg == g_shm_segments[s]
            IN  /\ ValidSegment(id, s) /\ tid # NONE /\ seg # NONE
                /\ not_attached(seg, tid) /\ seg.attachments < MaxAttachments
                /\ g_shm_segments' = [g_shm_segments EXCEPT ![s] =
                        with_tids(seg, [seg.tids EXCEPT ![seg.attachments] = tid],
                                  seg.attachments + 1)]
                /\ attached' = [attached EXCEPT ![s] = @ \cup {tid}]
                /\ UNCHANGED <<g_shm_segment_count, vmmVars>>

(* Entries behind i move one place to the left; the last one is cleared. *)
shift_left(seg, i) ==
    [j \in AttachSlot |->
        IF j = seg.attachments - 1 THEN 0
        ELSE IF i <= j /\ j + 1 < seg.attachments THEN seg.tids[j + 1]
        ELSE seg.tids[j]]

shm_detach(id, requested, current) ==
    LET tid == shm_resolve_tid(requested, current)
    IN  \E s \in SegmentSlot, i \in AttachSlot :
            LET seg == g_shm_segments[s]
            IN  /\ ValidSegment(id, s) /\ tid # NONE /\ seg # NONE
                /\ shm_find_attachment_locked(seg, tid, i)
                /\ g_shm_segments' = [g_shm_segments EXCEPT ![s] =
                        with_tids(seg, shift_left(seg, i), seg.attachments - 1)]
                /\ attached' = [attached EXCEPT ![s] = @ \ {tid}]
                /\ UNCHANGED <<g_shm_segment_count, vmmVars>>

ShmNext ==
    \E current \in ShmTid, requested \in ShmTid :
        \/ \E name \in SegmentName, size \in SegmentSize :
              shm_create(name, size, requested, current)
        \/ \E id \in SegmentId :
              shm_attach(id, requested, current) \/ shm_detach(id, requested, current)

ShmSpec == vmm_init /\ shm_init /\ [][ShmNext]_<<vmmVars, shmVars>>

-----------------------------------------------------------------------------
InUse == {s \in SegmentSlot : g_shm_segments[s] # NONE}

SegmentPages(s) ==
    g_shm_segments[s].base..(g_shm_segments[s].base + g_shm_segments[s].size \div PageSize - 1)

(* A segment has a name of its own and at least one page; its pages are    *)
(* heap pages, mapped and writable, that no other segment has, and there   *)
(* are just enough of them for the size that was asked for, however close  *)
(* to 2^64 the size of a request (shm_create).                             *)
SegmentsBacked ==
    /\ g_shm_segment_count = Cardinality(InUse)
    /\ \A s \in InUse :
          /\ SegmentPages(s) # {} /\ SegmentPages(s) \subseteq HeapPages
          /\ \A v \in SegmentPages(s) :
                vmm_query_mapping(vm, v) # NONE /\ W \in vmm_query_mapping(vm, v).flags
          /\ g_shm_segments[s].size - g_shm_segments[s].asked \in 0..(PageSize - 1)
    /\ \A s, r \in InUse : s # r =>
          /\ g_shm_segments[s].name # g_shm_segments[r].name
          /\ SegmentPages(s) \cap SegmentPages(r) = {}

(* The attachment list of a segment holds exactly the threads that have    *)
(* attached and not detached, each once and without gaps, and nothing in   *)
(* the rest of the array: through any sequence of attaching twice,         *)
(* detaching from the middle and filling the table (shm_detach).           *)
AttachmentsExact ==
    \A s \in SegmentSlot :
        IF s \notin InUse THEN attached[s] = {}
        ELSE LET seg == g_shm_segments[s]
             IN  /\ seg.attachments = Cardinality(attached[s])
                 /\ attached[s] = {seg.tids[i] : i \in 0..(seg.attachments - 1)}
                 /\ \A i \in seg.attachments..(MaxAttachments - 1) : seg.tids[i] = 0

(* Every segment is backed by its own heap pages, and its attachment list  *)
(* is exactly who is attached (shm_create, shm_attach, shm_detach).        *)
SegmentsExact == SegmentsBacked /\ AttachmentsExact

=============================================================================
