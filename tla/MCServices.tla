----------------------------- MODULE MCServices -----------------------------
(***************************************************************************)
(* The parts of the system beside the scheduler, its locks, the IPC        *)
(* channels and memory, each checked on its own in one run: the initial    *)
(* state says which part it is, and only that part takes steps.            *)
(*   syscall       dispatch, policy and audit ring (Syscall, Seccomp)      *)
(*   keyboard      the PS/2 keyboard (Keyboard)                            *)
(*   uefi          the UEFI loader and the firmware it calls (Uefi)        *)
(*   ldso          the dynamic loader, on a set of images (Ldso)           *)
(*   descriptors   sockets and files of the C library (Libc)               *)
(*   mmap          its memory pool (Libc)                                  *)
(***************************************************************************)
EXTENDS Syscall, Keyboard, Ldso, Uefi, Libc

VARIABLE part

auditing == <<policyVars, auditVars, syscallVars>>
kernelVars == <<auditing, kbdVars>>
outerVars == <<ldsoVars, uefiVars, libcVars>>
vars == <<part, kernelVars, outerVars>>

Init ==
    /\ part \in {"syscall", "keyboard", "uefi", "ldso", "descriptors", "mmap"}
    /\ syscall_init /\ ps2_keyboard_init
    /\ ldso_stage0_state_reset /\ efi_init /\ libc_init
    /\ part # "ldso" => img = 1
    /\ part # "uefi" => /\ blob = CHOOSE b \in Blob : TRUE
                        /\ mem = [p \in Frame |-> "EfiConventionalMemory"]

(* A loader that has ended, a pool that is used up, and the bounds on      *)
(* system calls.                                                           *)
Ended ==
    /\ \/ part = "syscall" /\ begun = MaxCalls /\ changes = MaxChanges /\ InCall = {}
       \/ part = "uefi" /\ efi.pc \in {"kmain", "failed"}
       \/ part = "ldso" /\ stage = "returned"
       \/ part = "mmap" /\ \A n \in MapLength : gnuos_align_up(n) > PoolSize - g_mmap_pool_next
    /\ UNCHANGED vars

Calls == part = "syscall" /\ SyscallNext /\ UNCHANGED <<part, kbdVars, outerVars>>
Keys == part = "keyboard" /\ KeyboardNext /\ UNCHANGED <<part, auditing, outerVars>>
Firmware(A) == part = "uefi" /\ A /\ UNCHANGED <<part, kernelVars, ldsoVars, libcVars>>
Program == part = "ldso" /\ LdsoNext /\ UNCHANGED <<part, kernelVars, uefiVars, libcVars>>
Files == part = "descriptors" /\ FdNext /\ UNCHANGED <<part, kernelVars, ldsoVars, uefiVars>>
Mappings == part = "mmap" /\ MapNext /\ UNCHANGED <<part, kernelVars, ldsoVars, uefiVars>>

Next ==
    \/ Calls \/ Keys
    \/ Firmware(EfiStep) \/ Firmware(FirmwareEvent) \/ Program \/ Files \/ Mappings
    \/ Ended

(* The UEFI loader is the only program that runs; the firmware need not do *)
(* anything of its own.                                                    *)
Spec == Init /\ [][Next]_vars /\ WF_vars(Firmware(EfiStep))

-----------------------------------------------------------------------------
(* In the part that is the UEFI loader, it reaches kmain or reports a      *)
(* failure, however often the firmware changes the memory map (efi_main).  *)
UefiEnds == part = "uefi" => LoaderEnds

-----------------------------------------------------------------------------
(* A program with every kind of relocation: two that the array needs, one  *)
(* symbol of its own, one of the C library, one that nobody has, a kind    *)
(* that is not supported, an empty one; an array with a word of all ones.  *)
Reloc(type, sym, offset, addend) ==
    [type |-> type, sym |-> sym, offset |-> offset, addend |-> addend]
Sym(name, defined, value) == [name |-> name, defined |-> defined, value |-> value]

Executable ==
    [argv_ok |-> TRUE, envs |-> 1, preload |-> <<"libc.so.6", "libx.so", "libc.so.6">>,
     auxv |-> <<<<"AT_PHDR", 104>>, <<"AT_PHNUM", 4>>, <<"AT_PHENT", 1>>, <<"AT_NULL", 0>>,
                <<"AT_PHDR", 7>>>>,
     phdrs |-> <<<<"PT_PHDR", 4>>, <<"PT_LOAD", 0>>, <<"PT_LOAD", 8>>, <<"PT_DYNAMIC", 2>>>>,
     dyn |-> <<<<"DT_STRTAB", 1>>, <<"DT_STRSZ", 9>>, <<"DT_SYMTAB", 1>>, <<"DT_SYMENT", 1>>,
               <<"DT_HASH", 1>>, <<"DT_RELA", 1>>, <<"DT_RELASZ", 4>>, <<"DT_RELAENT", 1>>,
               <<"DT_JMPREL", 1>>, <<"DT_PLTRELSZ", 2>>, <<"DT_PLTREL", 7>>, <<"DT_INIT", 5>>,
               <<"DT_INIT_ARRAY", 1>>, <<"DT_INIT_ARRAYSZ", 3>>, <<"DT_NULL", 0>>,
               <<"DT_INIT", 6>>>>,
     symtab |-> <<Sym("f", TRUE, 20), Sym("malloc", FALSE, 0), Sym("lost", FALSE, 0),
                  Sym(NoName, FALSE, 0)>>,
     rela |-> <<Reloc("R_X86_64_RELATIVE", 0, 1, 30), Reloc("R_X86_64_64", 1, 3, 0),
                Reloc("R_X86_64_GLOB_DAT", 3, 4, 0), Reloc("R_X86_64_COPY", 2, 5, 0)>>,
     jmprel |-> <<Reloc("R_X86_64_JUMP_SLOT", 2, 4, 0), Reloc("R_X86_64_NONE", 0, 5, 0)>>,
     init_array |-> <<1, 2, 3>>,
     data |-> [o \in {2} |-> PointerMax]]

Without(tag) == [Executable EXCEPT !.dyn = SelectSeq(@, LAMBDA d : d[1] # tag)]
AtZero(tag) ==
    [Executable EXCEPT !.dyn = [i \in DOMAIN @ |-> IF @[i][1] = tag THEN <<tag, 0>> ELSE @[i]]]

(* Among them a word of the array that is not zero and whose symbol nobody *)
(* has, tables and an initialiser at the address 0 of the file, with a     *)
(* bias and without, and a scan of the symbols that no hash table ends.    *)
MCImage ==
    <<Executable,
      [Executable EXCEPT !.phdrs = Tail(@)],
      [Executable EXCEPT !.rela[4] = Reloc("R_X86_64_64", 4, 1, 0)],
      [Executable EXCEPT !.jmprel[2] = Reloc("R_X86_64_JUMP_SLOT", 2, 3, 0), !.preload = <<>>],
      [Executable EXCEPT !.rela[2] = Reloc("R_X86_64_64", 3, 3, 0),
                         !.data = [o \in {3} |-> 40]],
      [Executable EXCEPT !.argv_ok = FALSE],
      [Executable EXCEPT !.envs = StackScanLimit],
      [Executable EXCEPT !.auxv = Tail(@)],
      [Executable EXCEPT !.phdrs = SubSeq(@, 1, 3)],
      Without("DT_RELAENT"), Without("DT_PLTREL"), Without("DT_INIT"), Without("DT_SYMENT"),
      Without("DT_HASH"), Without("DT_STRSZ"), AtZero("DT_INIT"), AtZero("DT_RELA"),
      [AtZero("DT_INIT_ARRAY") EXCEPT !.phdrs = Tail(@)]>>

MCBuiltin == [name \in {"malloc", "puts"} |-> IF name = "malloc" THEN 1000 ELSE 1001]

(* Neighbouring pages never have a type of the firmware in common. *)
MCFirmwareType ==
    [p \in 0..5 |-> {"EfiConventionalMemory",
                     IF p % 2 = 0 THEN "EfiBootServicesData" ELSE "EfiRuntimeServicesData"}]

(* A kernel with two segments to load and a note between them; one of a    *)
(* page, which leaves the firmware room to change the map; one without     *)
(* kmain; one whose segment is larger in the file; one that is no ELF.     *)
Segment(type, filesz, memsz, pages) ==
    [type |-> type, filesz |-> filesz, memsz |-> memsz, inside |-> TRUE, pages |-> pages]

MCBlob ==
    {[valid |-> TRUE, kmain |-> TRUE,
      segments |-> <<Segment("ELF64_PT_LOAD", 1, 1, {1}), Segment("PT_NOTE", 0, 0, {}),
                     Segment("ELF64_PT_LOAD", 1, 2, {2})>>],
     [valid |-> TRUE, kmain |-> TRUE, segments |-> <<Segment("ELF64_PT_LOAD", 1, 1, {0})>>],
     [valid |-> TRUE, kmain |-> FALSE, segments |-> <<Segment("ELF64_PT_LOAD", 1, 1, {1})>>],
     [valid |-> TRUE, kmain |-> TRUE, segments |-> <<Segment("ELF64_PT_LOAD", 2, 1, {1})>>],
     [valid |-> FALSE, kmain |-> TRUE, segments |-> <<>>]}

=============================================================================
