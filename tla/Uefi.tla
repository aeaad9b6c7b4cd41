-------------------------------- MODULE Uefi --------------------------------
(***************************************************************************)
(* The UEFI loader, boot/efi/x86_64/uefi_stub.c: efi_main loads the kernel,*)
(* fetches the firmware's memory map, writes it for kmain and leaves boot  *)
(* services, again if the map has changed meanwhile.  The firmware is the  *)
(* environment: until it is left, its own events allocate and free memory  *)
(* between any two steps, and each change makes the key of a map fetched   *)
(* earlier stale.                                                          *)
(*                                                                         *)
(* A descriptor of the map is a maximal run of pages of one type.  A blob  *)
(* is the kernel's ELF file: valid, kmain (has the symbol) and segments (a *)
(* sequence of type, filesz, memsz, inside the file or not, and pages).    *)
(***************************************************************************)
EXTENDS Integers, Sequences, FiniteSets

CONSTANTS FramePages,     \* the number of pages of memory
          Blob,
          Retries,        \* GNUOS_EFI_EXIT_BOOT_SERVICES_RETRIES
          Slop,           \* GNUOS_EFI_MMAP_SLOP_DESCRIPTORS
          InfoEntries,    \* tags that fit in GNUOS_EFI_MULTIBOOT_INFO_PAGES
          FirmwareType,   \* the types the firmware itself gives a page
          Null

Frame == 0..(FramePages - 1)

(* The buffer for the map may lie in the middle of a descriptor and make   *)
(* three of it: with less slop the loader would be in its own way.         *)
ASSUME UefiAssumption ==
    /\ FramePages \in Nat /\ Retries \in Nat \ {0} /\ Slop \in Nat \ {0, 1}
    /\ \A b \in Blob : b.valid \in BOOLEAN /\ b.kmain \in BOOLEAN
    /\ \A p \in Frame : FirmwareType[p] \subseteq {"EfiConventionalMemory", "EfiBootServicesData",
                                                   "EfiRuntimeServicesData"}
    /\ \A S \in SUBSET Frame : S # Null

VARIABLES
    blob,
    efi,          \* efi_main: pc, counters, buffers and the map it fetched
    mem,          \* the firmware: the type of each page
    key_valid,    \* the memory has not changed since the map was fetched
    info,         \* the map written for kmain
    events,       \* history: changes of the firmware, counted up to Retries
    denied        \* history: the blob or some service failed

uefiVars == <<blob, efi, mem, key_valid, info, events, denied>>
fwVars == <<mem, key_valid>>

(* External: the firmware's services. *)
Descriptors(m) == Cardinality({p \in Frame : p = 0 \/ m[p] # m[p - 1]})

SetType(pages, type) ==
    /\ mem' = [p \in Frame |-> IF p \in pages THEN type ELSE mem[p]]
    /\ key_valid' = (key_valid /\ pages = {})

Conventional == {p \in Frame : mem[p] = "EfiConventionalMemory"}

(* A buffer comes from a page of the pool that is there already (the empty *)
(* set) or takes a new one.                                                *)
PoolChoice == {{}} \cup {{p} : p \in Conventional}

efi_init ==
    /\ blob \in Blob
    /\ efi = [pc |-> "blob", segment |-> 1, attempt |-> 0, tries |-> 0, size |-> 0,
              memory_map |-> Null, map |-> Null,
              loaded |-> {}, info_page |-> {}, framebuffer |-> 0]
    /\ mem \in [Frame -> UNION {FirmwareType[p] : p \in Frame}]
    /\ \A p \in Frame : mem[p] \in FirmwareType[p]
    /\ key_valid = FALSE /\ info = Null /\ events = 0 /\ denied = FALSE

Goto(pc) == efi' = [efi EXCEPT !.pc = pc]
Refuse == Goto("failed") /\ denied' = TRUE /\ UNCHANGED fwVars

-----------------------------------------------------------------------------
CheckBlob ==
    /\ efi.pc = "blob"
    /\ Goto(IF blob.valid THEN "load" ELSE "failed")
    /\ denied' = ~blob.valid
    /\ UNCHANGED <<blob, fwVars, info, events>>

(* One turn of gnuos_load_kernel_segments: a segment is written only after *)
(* the firmware has given its pages.                                       *)
LoadSegment ==
    LET s == blob.segments[efi.segment]
    IN  /\ efi.pc = "load"
        /\ IF efi.segment > Len(blob.segments)
           THEN Goto("prepare") /\ UNCHANGED <<fwVars, denied>>
           ELSE IF s.type # "ELF64_PT_LOAD"
           THEN efi' = [efi EXCEPT !.segment = @ + 1] /\ UNCHANGED <<fwVars, denied>>
           ELSE IF s.filesz <= s.memsz /\ s.inside /\ s.pages \subseteq Conventional
           THEN /\ SetType(s.pages, "EfiLoaderData")
                /\ efi' = [efi EXCEPT !.segment = @ + 1, !.loaded = @ \cup s.pages]
                /\ UNCHANGED denied
           ELSE Refuse
        /\ UNCHANGED <<blob, info, events>>

(* Whether the symbol table of the blob has kmain. *)
gnuos_find_kmain_symbol == blob.kmain

(* Entries that the frame buffer takes: there may be none. *)
gnuos_probe_gop_framebuffer == {0, 2}

(* With the page of gnuos_allocate_multiboot2_buffer. *)
Prepare ==
    /\ efi.pc = "prepare"
    /\ \/ (~gnuos_find_kmain_symbol \/ Conventional = {}) /\ Refuse
       \/ /\ gnuos_find_kmain_symbol
          /\ \E p \in Conventional, fb \in gnuos_probe_gop_framebuffer :
                /\ SetType({p}, "EfiLoaderData")
                /\ efi' = [efi EXCEPT !.pc = "attempt", !.info_page = {p}, !.framebuffer = fb]
                /\ UNCHANGED denied
    /\ UNCHANGED <<blob, info, events>>

FreePool(e) == [e EXCEPT !.memory_map = Null]

(* Mutant: the buffer of the last attempt is forgotten. *)
ReleaseForgets == UNCHANGED fwVars

(* The buffer of the last attempt is given back. *)
Release ==
    IF efi.memory_map = Null THEN UNCHANGED fwVars
    ELSE SetType(efi.memory_map, "EfiConventionalMemory")

(* A turn of efi_main's loop begins: the old buffer is freed, and          *)
(* gnuos_fetch_memory_map asks for the size of the map.                    *)
BeginAttempt ==
    /\ efi.pc = "attempt"
    /\ IF efi.attempt >= Retries
       THEN Goto("failed") /\ UNCHANGED <<fwVars, denied>>
       ELSE /\ Release
            /\ \/ /\ efi' = [FreePool(efi) EXCEPT !.pc = "alloc", !.tries = 0,
                                                  !.size = Descriptors(mem') + Slop]
                  /\ UNCHANGED denied
               \/ efi' = [FreePool(efi) EXCEPT !.pc = "failed"] /\ denied' = TRUE
    /\ UNCHANGED <<blob, info, events>>

AllocMap ==
    /\ efi.pc = "alloc"
    /\ IF efi.tries = Retries
       THEN Goto("failed") /\ UNCHANGED <<fwVars, denied>>
       ELSE \/ Refuse
            \/ /\ \E b \in PoolChoice :
                     /\ SetType(b, "EfiLoaderData")
                     /\ efi' = [efi EXCEPT !.pc = "get", !.memory_map = b]
               /\ UNCHANGED denied
    /\ UNCHANGED <<blob, info, events>>

(* The map fits, or its buffer is freed and a larger one tried; any other  *)
(* status ends the loader.                                                 *)
GetMap ==
    /\ efi.pc = "get"
    /\ \/ /\ Descriptors(mem) <= efi.size
          /\ efi' = [efi EXCEPT !.pc = "build", !.size = Descriptors(mem), !.map = mem]
          /\ key_valid' = TRUE /\ UNCHANGED <<mem, denied>>
       \/ /\ Descriptors(mem) > efi.size
          /\ SetType(efi.memory_map, "EfiConventionalMemory")
          /\ efi' = [FreePool(efi) EXCEPT !.pc = "alloc", !.tries = @ + 1,
                                          !.size = Descriptors(mem) + Slop]
          /\ UNCHANGED denied
       \/ /\ SetType(efi.memory_map, "EfiConventionalMemory")
          /\ efi' = [FreePool(efi) EXCEPT !.pc = "failed"] /\ denied' = TRUE
    /\ UNCHANGED <<blob, info, events>>

gnuos_efi_memory_type_to_multiboot(type) ==
    IF type \in {"EfiLoaderData", "EfiBootServicesData", "EfiConventionalMemory"}
    THEN "MULTIBOOT2_MEMORY_AVAILABLE" ELSE "MULTIBOOT2_MEMORY_RESERVED"

(* gnuos_build_multiboot2_info: an entry for each descriptor, the frame    *)
(* buffer and the end tag, if they fit.                                    *)
BuildInfo ==
    /\ efi.pc = "build"
    /\ IF efi.size + efi.framebuffer + 1 > InfoEntries
       THEN Refuse /\ UNCHANGED info
       ELSE /\ info' = [p \in Frame |-> gnuos_efi_memory_type_to_multiboot(efi.map[p])]
            /\ Goto("exit")
            /\ UNCHANGED <<fwVars, denied>>
    /\ UNCHANGED <<blob, events>>

(* Mutant: attempts are not counted. *)
next_attempt_same(n) == n

next_attempt(n) == n + 1

(* ExitBootServices: with a stale key it returns EFI_INVALID_PARAMETER;    *)
(* only that is retried.                                                   *)
ExitBootServices ==
    /\ efi.pc = "exit"
    /\ \/ key_valid /\ Goto("kmain") /\ UNCHANGED <<fwVars, denied>>
       \/ /\ ~key_valid
          /\ efi' = [efi EXCEPT !.pc = "attempt", !.attempt = next_attempt(@)]
          /\ UNCHANGED <<fwVars, denied>>
       \/ Refuse
    /\ UNCHANGED <<blob, info, events>>

(* An event of the firmware, while boot services run. *)
FirmwareEvent ==
    /\ efi.pc \notin {"kmain", "failed"}
    /\ events' = IF events < Retries THEN events + 1 ELSE events
    /\ \E p \in Frame : \E type \in FirmwareType[p] :
          /\ mem[p] \notin {"EfiLoaderData", type}
          /\ SetType({p}, type)
    /\ UNCHANGED <<blob, efi, info, denied>>

EfiStep ==
    \/ CheckBlob \/ LoadSegment \/ Prepare
    \/ BeginAttempt \/ AllocMap \/ GetMap \/ BuildInfo \/ ExitBootServices

UefiNext == EfiStep \/ FirmwareEvent

UefiSpec == efi_init /\ [][UefiNext]_uefiVars

-----------------------------------------------------------------------------
(* What kmain is told is true: a page it may take as available is none     *)
(* that the firmware keeps, whatever the firmware did between the fetching *)
(* of the map and the end of boot services; the map says what each page is *)
(* at that moment, and the kernel and the map itself are in pages of the   *)
(* loader (efi_main, ExitBootServices).                                    *)
HandoffMapTrue ==
    efi.pc = "kmain" =>
        /\ \A p \in Frame : info[p] = "MULTIBOOT2_MEMORY_AVAILABLE" <=>
                               mem[p] # "EfiRuntimeServicesData"
        /\ \A p \in efi.loaded \cup efi.info_page : mem[p] = "EfiLoaderData"
        /\ efi.loaded \cap efi.info_page = {}

(* The pages the loader has taken are those of the kernel, of the map for  *)
(* kmain and of one map buffer: attempts and retries pile up no buffers    *)
(* (gnuos_fetch_memory_map, efi_main).                                     *)
NoBufferPilesUp ==
    {p \in Frame : mem[p] = "EfiLoaderData"} =
        efi.loaded \cup efi.info_page
        \cup (IF efi.memory_map = Null THEN {} ELSE efi.memory_map)

(* The loader gives up for one of two reasons: a service or the blob fails *)
(* it, or the firmware changed its map during every attempt; fewer changes *)
(* than attempts never stop it (efi_main).                                 *)
RetriesSuffice == efi.pc = "failed" /\ ~denied => events >= Retries

HandoffSound == HandoffMapTrue /\ NoBufferPilesUp

(* efi_main ends: kmain is entered or an error is returned, however the    *)
(* firmware changes its map.                                               *)
LoaderEnds == <>(efi.pc \in {"kmain", "failed"})

(* The kernel gets a memory map that is still true; attempts leave no      *)
(* buffer behind; and only as many changes of the map as there are         *)
(* attempts make the loader give up (efi_main).                            *)
HandoffExact == HandoffSound /\ RetriesSuffice

-----------------------------------------------------------------------------
(* The inductive invariant behind HandoffExact. *)
MemoryType == {"EfiConventionalMemory", "EfiBootServicesData", "EfiRuntimeServicesData",
               "EfiLoaderData"}

EfiState ==
    [pc : {"blob", "load", "prepare", "attempt", "alloc", "get", "build", "exit", "kmain",
           "failed"},
     segment : Nat, attempt : Nat, tries : Nat, size : Nat,
     memory_map : {Null} \cup SUBSET Frame, map : {Null} \cup [Frame -> MemoryType],
     loaded : SUBSET Frame, info_page : SUBSET Frame, framebuffer : {0, 2}]

UefiTyped ==
    /\ efi \in EfiState
    /\ mem \in [Frame -> MemoryType]
    /\ key_valid \in BOOLEAN /\ denied \in BOOLEAN /\ events \in 0..Retries
    /\ blob \in Blob

(* The pages of the map buffer. *)
Buffer == IF efi.memory_map = Null THEN {} ELSE efi.memory_map

(* The three kinds of pages that the loader has are apart, and come in the *)
(* order of its steps.                                                     *)
PagesApart ==
    /\ \A p, q \in Buffer : p = q
    /\ Buffer \cap (efi.loaded \cup efi.info_page) = {} /\ efi.loaded \cap efi.info_page = {}
    /\ efi.pc \in {"blob", "load", "prepare"} => efi.info_page = {}
    /\ efi.pc \in {"blob", "load", "prepare", "alloc"} => efi.memory_map = Null
    /\ efi.pc \in {"get", "build", "exit"} => efi.memory_map # Null

Told(m) == [p \in Frame |-> gnuos_efi_memory_type_to_multiboot(m[p])]

(* While the key is valid the map that was fetched is the memory. *)
MapFresh ==
    /\ efi.pc \in {"build", "exit"} /\ key_valid => efi.map = mem
    /\ efi.pc = "exit" => info = Told(efi.map)
    /\ efi.pc = "kmain" => info = Told(mem)

(* The size of the map if its own buffer were not there. *)
Bare == Descriptors([p \in Frame |-> IF p \in Buffer THEN "EfiConventionalMemory" ELSE mem[p]])

(* Every attempt, and every try to fetch a map, that failed was preceded   *)
(* by a change of its own.  A change adds two descriptors at most and so   *)
(* does the buffer, while each try asks for at least three more.           *)
ChangesCounted ==
    events < Retries =>
        /\ efi.attempt <= events
        /\ efi.pc \in {"build", "exit"} /\ ~key_valid => efi.attempt + 1 <= events
        /\ efi.pc \in {"alloc", "get"} =>
              /\ efi.attempt + efi.tries <= events
              /\ Bare + 2 + 3 * efi.tries <= efi.size + 2 * (events - efi.attempt)
        /\ efi.pc = "failed" => denied

UefiInv == UefiTyped /\ PagesApart /\ NoBufferPilesUp /\ MapFresh /\ ChangesCounted

=============================================================================
